---------------------------- MODULE MCSyncWorker ----------------------------
(* SyncWorker on small instances; see the .cfg files for the bounds.       *)
EXTENDS SyncWorker

\* Every place where a database call may raise.
AnyFault == AllFaultPoints

\* The same without the places after which a loop leaves the lock taken or
\* a scheduled job takes a busy queue for an empty one.
NoLeakFault == AllFaultPoints \ {"enter", "count"}

\* The places where a loop ends with its row left "running".
LoopFault == {"claimed", "finish"}

NoFault == {}

=============================================================================
