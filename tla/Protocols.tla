----------------------------- MODULE Protocols ------------------------------
(***************************************************************************)
(* The five reconciliation protocols of src/simulator/protocols, as the    *)
(* messages a send_phase emits and the outcomes a recv_phase can have.     *)
(*                                                                         *)
(* FullStateTransfer and MultiReplica ship the whole set every round.  The *)
(* other three alternate: a replica with nothing pending ships a sketch to *)
(* every neighbour, and the receiver works out which of its own elements   *)
(* the sender lacks and keeps them as its carry; a replica with a carry    *)
(* ships those elements and nothing else.                                  *)
(***************************************************************************)
EXTENDS Network

CONSTANT MaxSlack   \* coded symbols an RIBLT decode may need beyond |diff|

ASSUME SlackAssumption == MaxSlack \in Nat

ProtocolKind ==
  {"FullStateTransfer", "MultiReplica", "Riblt", "StaticBfIblt", "HybridRbfRiblt"}

Flooding == {"FullStateTransfer", "MultiReplica"}

SketchKind(protocol) ==
  CASE protocol = "Riblt"          -> "Riblt"
    [] protocol = "StaticBfIblt"   -> "BloomRiblt"
    [] protocol = "HybridRbfRiblt" -> "RatelessBloomRiblt"

\* Option<PendingElements>: no protocol stores an empty entry, nor an empty
\* map, so the empty set at w stands for "no entry for w".
Carry == [Node -> SUBSET Element]

NoCarry == [w \in Node |-> {}]

Pending(c) == {w \in Node : c[w] # {}}

-----------------------------------------------------------------------------
(* send_phase                                                               *)

Flood(nbrs, set) == [w \in nbrs |-> NewMsg("Elements", set)]

Sketches(protocol, nbrs, set) ==
  [w \in nbrs |-> NewMsg(SketchKind(protocol), set)]

CarriedElements(c) == [w \in Pending(c) |-> NewMsg("Elements", c[w])]

\* What a bug would do that sends a sketch next to the carried elements.
SendPhaseSketchBesideCarry(protocol, nbrs, set, c) ==
  IF protocol \in Flooding THEN Flood(nbrs, set)
  ELSE IF c = NoCarry THEN Sketches(protocol, nbrs, set)
  ELSE [w \in nbrs |-> IF c[w] # {} THEN NewMsg("Elements", c[w])
                       ELSE NewMsg(SketchKind(protocol), set)]

\* What a bug would do that forgets the carry and sketches every round.
SendPhaseDropCarry(protocol, nbrs, set, c) ==
  IF protocol \in Flooding THEN Flood(nbrs, set)
  ELSE Sketches(protocol, nbrs, set)

SendPhase(protocol, nbrs, set, c) ==
  IF protocol \in Flooding THEN Flood(nbrs, set)
  ELSE IF c = NoCarry THEN Sketches(protocol, nbrs, set)
  ELSE CarriedElements(c)

-----------------------------------------------------------------------------
(* recv_phase                                                               *)

\* What one message turns into: the receiver's elements that the sender is
\* found to lack, and the final size of the sketch.
Outcome == [local_only : SUBSET Element, consumed : Nat, slices : Nat]

SymDiff(A, B) == (A \ B) \cup (B \ A)

\* Coded symbols a decode of that difference may consume: one cell at least,
\* a pure cell for each element of the difference, MaxSlack more at worst.
Consumable(diff) ==
  LET least == AtLeastOne(Cardinality(diff)) IN least .. least + MaxSlack

\* Decoding the sender's sketch against the positives, skipped when there
\* are none.
CrossCheck(P, els) == IF P = {} THEN {0} ELSE Consumable(SymDiff(P, els))

\* What a bug would do that trusts the filter and skips the cross-check.
LocalOnlyByFilter(set, P, els) == set \ P

\* Elements the filter ruled out and those the cross-check recovers.
LocalOnly(set, P, els) ==
  (set \ P) \cup (IF P = {} THEN {} ELSE P \ els)

DecodeRiblt(set, m) ==
  [local_only : {set \ m.els}, consumed : Consumable(SymDiff(set, m.els)),
   slices : {0}]

DecodeBloomRiblt(set, m) ==
  UNION {[local_only : {LocalOnly(set, P, m.els)},
          consumed : CrossCheck(P, m.els), slices : {0}] :
         P \in Positives(set, m.els)}

DecodeRatelessBloomRiblt(set, m) ==
  UNION {[local_only : {LocalOnly(set, f.positives, m.els)},
          consumed : CrossCheck(f.positives, m.els), slices : {f.slices}] :
         f \in FilterOutcomes(set, m.els)}

\* With a threshold of zero no slice rules out few enough elements, and
\* extend_until adds slices for ever.
ExtendsForever(set, m) ==
  /\ m.kind = "RatelessBloomRiblt"
  /\ Threshold(Cardinality(set), Cardinality(m.els)) = 0

Outcomes(set, m) ==
  CASE m.kind = "Elements"           -> [local_only : {{}}, consumed : {0},
                                         slices : {0}]
    [] m.kind = "Riblt"              -> DecodeRiblt(set, m)
    [] m.kind = "BloomRiblt"         -> DecodeBloomRiblt(set, m)
    [] m.kind = "RatelessBloomRiblt" -> DecodeRatelessBloomRiblt(set, m)

\* One outcome for each message of the inbox, all against the receiver's
\* set at the start of the round.
InboxOutcomes(set, inbox) ==
  {out \in [DOMAIN inbox ->
              UNION {Outcomes(set, inbox[i].msg) : i \in DOMAIN inbox}] :
     \A i \in DOMAIN inbox : out[i] \in Outcomes(set, inbox[i].msg)}

\* A message as the engine bills it: its payload taken, its sketch at the
\* final size.
UsedUp(m, o) ==
  [kind |-> m.kind, els |-> IF m.kind = "Elements" THEN {} ELSE m.els,
   consumed |-> o.consumed, slices |-> o.slices]

Consumed(inbox, out) ==
  [i \in DOMAIN inbox |-> [from |-> inbox[i].from,
                           msg  |-> UsedUp(inbox[i].msg, out[i])]]

Received(inbox) ==
  UNION {IF inbox[i].msg.kind = "Elements" THEN inbox[i].msg.els ELSE {} :
         i \in DOMAIN inbox}

\* What a bug would do that starts the next set from the inbox alone.
NextSetForgetsLocal(set, inbox) ==
  IF Received(inbox) = {} THEN set ELSE Received(inbox)

NextSet(set, inbox) == set \cup Received(inbox)

\* What a bug would do that does not key the pending elements by sender.
NextCarryEverySender(inbox, out) ==
  [w \in Node |-> UNION {out[i].local_only : i \in DOMAIN inbox}]

NextCarry(inbox, out) ==
  [w \in Node |-> UNION {out[i].local_only :
                         i \in {j \in DOMAIN inbox : inbox[j].from = w}}]

=============================================================================
