-------------------------- MODULE MCDocumentIndex --------------------------
(* Instances of DocumentIndex for TLC: one document d, texts i1 (two chunks) and i2 (one
   chunk), a removal r, and a copy of the first request. *)
EXTENDS DocumentIndex, TLC

CONSTANTS d, i1, i2, r, mi1, mi2, mr, copy

KindOf == [e \in Events |-> IF e = r THEN "remove" ELSE "index"]
AllAboutD == [e \in Events |-> d]
Lengths == [e \in Events |-> IF e = i1 THEN 2 ELSE 1]
Carries == [m \in Messages |-> CASE m = mi2 -> i2 [] m = mr -> r [] OTHER -> i1]

NoFaults == [k \in FaultKinds |-> 0]
Reconnects == [k \in FaultKinds |-> IF k = "channel" THEN 1 ELSE 0]
Wipes == [k \in FaultKinds |-> IF k = "channel" THEN 0 ELSE 1]

TaskSymmetry == Permutations(Tasks)
=============================================================================
