--------------------------- MODULE GroundedAnswer ---------------------------
(***************************************************************************)
(* What the chat promises its user, with no model, tool or retry in sight: *)
(* evidence is gathered, perhaps thrown away as a whole to start again,    *)
(* and once, at most, an outcome is given, whose sources are all evidence  *)
(* the answer could be drawn from.                                         *)
(***************************************************************************)
VARIABLES evidence,    \* what it has been shown since it last started
          outcome,     \* "none" until the question is settled
          cited        \* the sources given with the outcome

groundVars == <<evidence, outcome, cited>>

GroundInit == /\ evidence = {}
              /\ outcome = "none"
              /\ cited = {}

Gather == /\ outcome = "none"
          /\ evidence \subseteq evidence' \/ evidence' = {}
          /\ UNCHANGED <<outcome, cited>>

Settle == /\ outcome = "none"
          /\ outcome' \in {"answered", "failed"}
          /\ cited' \in SUBSET evidence
          /\ outcome' = "failed" => cited' = {}
          /\ UNCHANGED evidence

GroundSpec == GroundInit /\ [][Gather \/ Settle]_groundVars
=============================================================================
