---------------------------- MODULE CheckpointLog ----------------------------
(***************************************************************************)
(* What the life kernel counts on when it saves and looks up checkpoints,  *)
(* without files, tables or stores: a log in which several organisms save, *)
(* and in which a promised entry is found again, or a newer one is, until  *)
(* Window newer entries have been saved.  An entry that was not promised   *)
(* may be found or not.                                                    *)
(***************************************************************************)
EXTENDS Naturals, FiniteSets

CONSTANTS Owners,  \* the organisms that save
          None,    \* nothing was found
          Window   \* how many entries a look-up considers

Entry == [owner : Owners, healthy : BOOLEAN, name : Nat, at : Nat]

VARIABLES saved,     \* the entries that a look-up may find
          promised,  \* those it may not miss
          answer     \* the last question and what was found

logVars == <<saved, promised, answer>>

InWindow(e, entries) == Cardinality({f \in entries : f.at > e.at}) < Window

\* What a look-up of one organism, perhaps for healthy entries only, is about.
Fits(e, owner, healthyOnly) == e.owner = owner /\ (healthyOnly => e.healthy)

LogInit == saved = {} /\ promised = {} /\ answer = None

\* An entry becomes findable, and old promises may lapse.
Save ==
  /\ \E e \in saved' : e \in Entry /\ saved' = saved \cup {e}
  /\ promised' = {p \in promised : InWindow(p, saved')}
  /\ answer' = None

\* The saver learns that its entry was kept.
Promise ==
  /\ \E e \in saved : promised' = promised \cup {e}
  /\ UNCHANGED saved
  /\ answer' = None

\* No promised entry that fits is newer than what is found.
LookUp ==
  /\ \E owner \in Owners, healthyOnly \in BOOLEAN, found \in saved \cup {None} :
       /\ found # None => Fits(found, owner, healthyOnly)
       /\ \A p \in promised :
            Fits(p, owner, healthyOnly) => found # None /\ p.at <= found.at
       /\ answer' = [owner |-> owner, healthyOnly |-> healthyOnly, found |-> found]
  /\ UNCHANGED <<saved, promised>>

\* A step that neither keeps nor finds anything.
Idle == UNCHANGED <<saved, promised>> /\ answer' = None

LogNext == Save \/ Promise \/ LookUp \/ Idle

LogSpec == LogInit /\ [][LogNext]_logVars
=============================================================================
