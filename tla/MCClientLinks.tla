--------------------------- MODULE MCClientLinks ---------------------------
(* ClientLinks on small instances; see the .cfg files for the bounds.      *)
EXTENDS ClientLinks

CONSTANTS l1, l2

\* What the tests feed the planner: unlinked companies with every property.
AllFetched == {"match", "dropdown"}
\* What companies_with_aquira and companies_without_aquira ask HubSpot for.
NoneFetched == {}
\* The dropdown read as well, no matching.
DropdownFetched == {"dropdown"}

AnyFault == {"catalog", "projection", "gate", "lost", "refused", "finish", "patch",
             "record", "crash"}
LostAnswer == {"lost"}
PatchFault == {"patch"}
GateFault == {"refused", "finish", "gate"}
NoFault == {}

=============================================================================
