-------------------------- MODULE MCFeedbackWindow --------------------------
(* Instances of FeedbackWindow for TLC: a session with three segments, of which the third
   ends before the second, the first one sent again under a later number, and a segment of
   another session. *)
EXTENDS FeedbackWindow

CONSTANTS s1, s2, g0, g1, g2, again, other

Speaker == [g \in Segments |-> IF g = other THEN s2 ELSE s1]
Identity == [g \in Segments |-> IF g = again THEN g0 ELSE g]
Order == [g \in Segments |-> CASE g = g1 -> 1 [] g = g2 -> 2 [] g = again -> 3 [] OTHER -> 0]
Ends == [g \in Segments |-> CASE g = g1 -> 2 [] g = again -> 3 [] OTHER -> 1]
OneChar == [g \in Segments |-> 1]
=============================================================================
