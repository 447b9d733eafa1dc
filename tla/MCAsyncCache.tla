---------------------------- MODULE MCAsyncCache ----------------------------
(* Instances of AsyncCache for TLC; its configurations give every constant a value. *)
EXTENDS AsyncCache
=============================================================================
