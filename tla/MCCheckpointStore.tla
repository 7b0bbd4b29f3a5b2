-------------------------- MODULE MCCheckpointStore --------------------------
(***************************************************************************)
(* Small instances of CheckpointStore: every mode of the storage.          *)
(***************************************************************************)
EXTENDS CheckpointStore, TLC

Hybrid(strict, first) == [stores |-> Stores, strict |-> strict, first |-> first]

Single(s) == [stores |-> {s}, strict |-> FALSE, first |-> s]

MCSetups ==
  {Single("fallback"), Hybrid(TRUE, "primary"), Hybrid(FALSE, "primary"),
   Hybrid(FALSE, "fallback")}

Organisms == Permutations(Owners)
=============================================================================
