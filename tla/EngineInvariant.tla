-------------------------- MODULE EngineInvariant ---------------------------
(***************************************************************************)
(* The inductive invariant behind the safety theorems of EngineProofs.     *)
(***************************************************************************)
EXTENDS EngineProperties

\* A message that may lie in w's inbox: from a neighbour, and telling of no
\* element that the neighbour did not hold when the round began.
Mail(w) == {e \in Envelope : e.from \in Nbrs(w) /\ e.msg.els \subseteq sets[e.from]}

\* A carry that v may keep.
CarryOK(v, c) == Pending(c) \subseteq Nbrs(v) /\ \A w \in Node : c[w] \subseteq sets[v]

\* What v's receive phase may have computed.
ResultOK(v) ==
  /\ sets[v] \subseteq results[v].next_set
  /\ results[v].next_set \subseteq sets[v] \cup UNION {sets[w] : w \in Nbrs(v)}

InRound == pc \in {"send", "drain", "recv", "bill", "apply"}

\* All that the loop maintains about sets, mail and carries.
SetsInv ==
  /\ target_union = UNION {initial[v] : v \in Node}
  /\ \A v \in Node : Cardinality(initial[v]) = config.set_size
  /\ NothingLostOrInvented

MailInv ==
  \A v \in Node : inboxes[v] \in Seq(Mail(v)) /\ drained[v] \in Seq(Mail(v))

CarryInv ==
  \A v \in Node : CarryOK(v, carry_states[v]) /\ CarryOK(v, results[v].carry)

ResultsInv ==
  /\ pc = "drain" => cur = 0
  /\ pc = "recv" => \A v \in Node : v < cur => ResultOK(v)
  /\ pc \in {"bill", "apply"} => \A v \in Node : ResultOK(v)

\* All that it maintains about rounds and the verdict.
ControlInv ==
  /\ pc # "panic"
  /\ pc = "start" => current_round = 0
  /\ pc = "begin" \/ InRound => ~HasConverged(sets)
  /\ InRound \/ pc = "hung" => current_round >= 1
  /\ current_round <= config.round_cap
  /\ pc # "done" => \A v \in Node : phase[v] # "Converged"
  /\ ResultSound

\* Every step of the program preserves it: a replica can only be told by a
\* neighbour, and only of what that neighbour held when the round began; a
\* carry is addressed to neighbours and made of what its owner holds; and a
\* round is played only while there is a difference left.
IInv == TypeOK /\ SetsInv /\ MailInv /\ CarryInv /\ ResultsInv /\ ControlInv

=============================================================================
