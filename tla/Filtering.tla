----------------------------- MODULE Filtering ------------------------------
(***************************************************************************)
(* What the protocols rely on when a receiver runs its set through a       *)
(* sender's Bloom filter: in one step the set is split in two, nothing     *)
(* that the sender holds is ruled out, and a rateless filter ends with a   *)
(* number of slices that fits what it ruled out.                           *)
(***************************************************************************)
EXTENDS Filters

VARIABLES
  kind,       \* "static" or "rateless"
  set,        \* the receiver's elements
  els,        \* the sender's elements
  outcome     \* what has come of it, or NotYet

Promised ==
  IF kind = "static"
  THEN [positives : Positives(set, els), slices : {0}]
  ELSE FilterOutcomes(set, els)

Split(f) == [positives |-> f.positives, negatives |-> set \ f.positives,
             slices |-> f.slices]

NotYet == [positives |-> {}, negatives |-> {}, slices |-> -1]

Init ==
  /\ kind \in {"static", "rateless"}
  /\ set \in SUBSET Element \ {{}}
  /\ els \in SUBSET Element \ {{}}
  /\ outcome = NotYet

Next ==
  /\ outcome = NotYet
  /\ \E f \in Promised : outcome' = Split(f)
  /\ UNCHANGED <<kind, set, els>>

vars == <<kind, set, els, outcome>>

Spec == Init /\ [][Next]_vars

=============================================================================
