----------------------------- MODULE Difference -----------------------------
(***************************************************************************)
(* What decoding a sketch promises: both sides of the difference of two    *)
(* sets, exactly, at the price of at least one coded symbol and one for    *)
(* each element of the difference.                                         *)
(***************************************************************************)
EXTENDS Naturals, FiniteSets

CONSTANT Element

VARIABLES
  local, remote,   \* the two sets
  outcome          \* none, or what has been found

vars == <<local, remote, outcome>>

NotYet == [known |-> FALSE]

Found(consumed) ==
  [known |-> TRUE, local_only |-> local \ remote,
   remote_only |-> remote \ local, consumed |-> consumed]

Init ==
  /\ local \in SUBSET Element
  /\ remote \in SUBSET Element
  /\ outcome = NotYet

Decode ==
  /\ outcome = NotYet
  /\ outcome'.known
  /\ outcome'.consumed \in Nat \ {0}
  /\ outcome'.consumed >= Cardinality((local \ remote) \cup (remote \ local))
  /\ outcome' = Found(outcome'.consumed)
  /\ UNCHANGED <<local, remote>>

Spec == Init /\ [][Decode]_vars

=============================================================================
