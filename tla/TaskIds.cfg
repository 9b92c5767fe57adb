SPECIFICATION Spec
CONSTANTS
    Times <- OneSecond
    MaxIds = 101
INVARIANTS
    UniqueTaskIds
