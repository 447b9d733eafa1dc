------------------------- MODULE MCFeedbackStreams -------------------------
(* Instances of FeedbackStreams for TLC. *)
EXTENDS FeedbackStreams

OneOfEach == [k \in FaultKinds |-> 1]
=============================================================================
