------------------------- MODULE MCMinutesConsumer -------------------------
(* Instances of MinutesConsumer for TLC. *)
EXTENDS MinutesConsumer, TLC

CONSTANTS m1, m2, m3, e1, e2

\* Two copies of one event, and a message of another event.
Copies == [m \in Messages |-> IF m = m3 THEN e2 ELSE e1]

\* At most one fault of each kind but one.  A restart is, to the properties of the safety
\* run, a lost channel whose orphaned tasks take no further step; RetryKeyExpires, to which
\* it is not, is checked in the live run as well.
AllButRestart == [k \in FaultKinds |-> IF k = "restart" THEN 0 ELSE 1]
AllButExpiry == [k \in FaultKinds |-> IF k = "expiry" THEN 0 ELSE 1]

TaskSymmetry == Permutations(Tasks)
=============================================================================
