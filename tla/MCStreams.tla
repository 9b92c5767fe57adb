----------------------------- MODULE MCStreams -----------------------------
(* A small instance of Streams for TLC.                                     *)
EXTENDS Streams

\* Every GPU qualifies at every pass.
AllGpus == {Gpus}
=============================================================================
