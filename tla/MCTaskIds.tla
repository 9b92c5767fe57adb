----------------------------- MODULE MCTaskIds -----------------------------
(* A small instance of TaskIds for TLC.                                     *)
EXTENDS TaskIds

\* A batch is submitted within one second.
OneSecond == {1700000000}
=============================================================================
