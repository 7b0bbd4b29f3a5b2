--------------------------- MODULE MCAutoEvolution ---------------------------
(* Autoevolution with knobs that allow two modifications in a row. *)
EXTENDS AutoEvolution

Calm ==
  [margin |-> 80, drift |-> 0, hard |-> 0, viable |-> TRUE, retrieved |-> 0,
   delta |-> 1, barrier |-> FALSE, tail |-> FALSE, trusted |-> TRUE]

Worn == [Calm EXCEPT !.margin = 44]

\* The good and the bad, at and on both sides of each threshold.
MCEpisodes ==
  {[Calm EXCEPT !.delta = d] : d \in {-2, 1}} \cup
  {[Worn EXCEPT !.delta = d, !.retrieved = r] : d \in {-2, 1}, r \in {1, 2}} \cup
  {[Calm EXCEPT !.margin = 45], [Calm EXCEPT !.drift = 51, !.retrieved = 3],
   [Worn EXCEPT !.margin = 14], [Worn EXCEPT !.margin = 15],
   [Worn EXCEPT !.trusted = FALSE], [Worn EXCEPT !.barrier = TRUE],
   [Worn EXCEPT !.tail = TRUE],
   [Calm EXCEPT !.hard = 1, !.margin = 60, !.delta = -2],
   [Calm EXCEPT !.hard = 3, !.margin = 10],
   [Worn EXCEPT !.margin = 5], [Calm EXCEPT !.viable = FALSE]}
=============================================================================
