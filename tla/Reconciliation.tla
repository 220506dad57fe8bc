--------------------------- MODULE Reconciliation ---------------------------
(***************************************************************************)
(* What a simulation promises, whatever its protocol: synchronous rounds   *)
(* in which each replica's set grows, by elements that one of its          *)
(* neighbours had when the round began; and a verdict that is given when   *)
(* all replicas hold everything, or when the rounds are used up, and not   *)
(* before.  Messages, sketches, carries and costs are absent.              *)
(***************************************************************************)
EXTENDS Naturals

CONSTANTS Node, Element

VARIABLES
  links,      \* links[v]: the neighbours of v
  cap,        \* the number of rounds allowed
  sets,       \* what each replica holds
  rounds,     \* rounds played
  verdict     \* "running", then "converged" or "capped"

vars == <<links, cap, sets, rounds, verdict>>

Init ==
  /\ links \in [Node -> SUBSET Node]
  /\ cap \in Nat
  /\ sets \in [Node -> SUBSET Element]
  /\ rounds = 0
  /\ verdict = "running"

\* The replicas agree, and so each holds all that any of them holds.
Agree(s) == \A v, w \in Node : s[v] = s[w]

Judgement(s, r) ==
  IF Agree(s) THEN "converged" ELSE IF r >= cap THEN "capped" ELSE "running"

\* What v can hold after a round.
Reachable(v) == sets[v] \cup UNION {sets[w] : w \in links[v]}

Round ==
  /\ verdict = "running"
  /\ rounds < cap
  /\ ~Agree(sets)
  /\ sets' \in [Node -> SUBSET Element]
  /\ \A v \in Node : sets[v] \subseteq sets'[v] /\ sets'[v] \subseteq Reachable(v)
  /\ rounds' = rounds + 1
  /\ verdict' = Judgement(sets', rounds')
  /\ UNCHANGED <<links, cap>>

\* Nothing to do, or no round to do it in.
Decline ==
  /\ verdict = "running"
  /\ verdict' = Judgement(sets, rounds)
  /\ UNCHANGED <<links, cap, sets, rounds>>

Next == Round \/ Decline

Spec == Init /\ [][Next]_vars

=============================================================================
