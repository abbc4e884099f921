--------------------------- MODULE MCDeadLetters ---------------------------
(* DeadLetters on small instances; see the .cfg files for the bounds.      *)
EXTENDS DeadLetters

AnyAction == {"retry", "unfreeze", "resolve", "delete", "budget", "link"}
\* The operator leaves rows in place.
NoDelete == AnyAction \ {"delete"}
NoAction == {}

=============================================================================
