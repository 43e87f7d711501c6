------------------------------ MODULE NoRecord ------------------------------
(* The values that stand where a record or a reference is missing. *)
CONSTANTS
    None,       \* undefined, null or the empty string
    Unused,     \* an id that no record has had yet
    Gone        \* an id whose record was deleted; ids are random, none comes back

ASSUME MissingAreDistinct == None # Unused /\ None # Gone /\ Unused # Gone
=============================================================================
