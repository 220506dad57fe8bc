------------------------------ MODULE Network -------------------------------
(***************************************************************************)
(* The simulated point-to-point network of src/simulator/network.rs: the   *)
(* per-node inboxes, the sealed messages and the byte counters that every  *)
(* cost in the experiments comes from.                                     *)
(*                                                                         *)
(* A message keeps what its receiver can learn from it: the elements it    *)
(* carries, or the sender's digests that its sketch encodes, together with *)
(* the part of its wire size that only exists after the receiver used it   *)
(* (coded symbols consumed, filter slices built).  An element is           *)
(* identified with its digest, the payload being only a length.            *)
(***************************************************************************)
EXTENDS Topology, Filters, Sequences

CONSTANT PayloadSize    \* WorkloadConfig::payload_size, in bytes

ASSUME NetworkAssumption == PayloadSize \in Nat

VARIABLES
  inboxes,            \* inboxes[w]: what was sent to w and not yet drained
  bytes_state,        \* total payload bytes of this round
  bytes_metadata,     \* total sketch and filter bytes of this round
  per_node_state,     \* the same, by sender
  per_node_metadata

netVars ==
  <<inboxes, bytes_state, bytes_metadata, per_node_state, per_node_metadata>>

-----------------------------------------------------------------------------
(* Messages.  Of the variants of ProtocolMsgInner, no protocol builds a     *)
(* Bloom or a RatelessBloom message without an RIBLT beside it.             *)

MsgKind == {"Elements", "Riblt", "BloomRiblt", "RatelessBloomRiblt"}

Message == [kind : MsgKind, els : SUBSET Element,
            consumed : Nat, slices : Nat]

\* A delivered message, with the sender the bound Outbox put on it.
Envelope == [from : Node, msg : Message]

NewMsg(kind, els) ==
  [kind |-> kind, els |-> els, consumed |-> 0, slices |-> 0]

WireSize == 8 + PayloadSize

RibltWireBytes(m) == m.consumed * 8

BloomWireBytes(m) == CeilDiv(BloomBits(Cardinality(m.els)), 8) + 16

RatelessBloomWireBytes(m) ==
  IF m.slices = 0 THEN 0
  ELSE m.slices * CeilDiv(SliceBits(Cardinality(m.els)), 8) + 8

MetadataBytes(m) ==
  CASE m.kind = "Elements"           -> 0
    [] m.kind = "Riblt"              -> RibltWireBytes(m)
    [] m.kind = "BloomRiblt"         -> BloomWireBytes(m) + RibltWireBytes(m)
    [] m.kind = "RatelessBloomRiblt" -> RatelessBloomWireBytes(m)
                                          + RibltWireBytes(m)

-----------------------------------------------------------------------------
(* The operations.  A send phase hands over all its messages at once, as a  *)
(* function from destinations to messages: at most one per destination.     *)

NetworkInit ==
  /\ inboxes = [w \in Node |-> <<>>]
  /\ bytes_state = 0
  /\ bytes_metadata = 0
  /\ per_node_state = [v \in Node |-> 0]
  /\ per_node_metadata = [v \in Node |-> 0]

\* The copies of elements that the messages carry.
Payload(msgs) ==
  {p \in (DOMAIN msgs) \X Element : /\ msgs[p[1]].kind = "Elements"
                                    /\ p[2] \in msgs[p[1]].els}

\* What a bug would do that bills an element once for all its recipients.
StateBytesMulticast(msgs) == WireSize * Cardinality({p[2] : p \in Payload(msgs)})

StateBytes(msgs) == WireSize * Cardinality(Payload(msgs))

Deliver(from, msgs) ==
  /\ inboxes' = [w \in Node |->
                   IF w \in DOMAIN msgs
                   THEN Append(inboxes[w], [from |-> from, msg |-> msgs[w]])
                   ELSE inboxes[w]]
  /\ bytes_state' = bytes_state + StateBytes(msgs)
  /\ per_node_state' = [per_node_state EXCEPT ![from] = @ + StateBytes(msgs)]
  /\ UNCHANGED <<bytes_metadata, per_node_metadata>>

DrainAll ==
  /\ inboxes' = [w \in Node |-> <<>>]
  /\ UNCHANGED <<bytes_state, bytes_metadata, per_node_state, per_node_metadata>>

\* One iteration of bill_metadata_post_recv.
BillMetadata(env) ==
  LET cost == MetadataBytes(env.msg) IN
  /\ bytes_metadata' = bytes_metadata + cost
  /\ per_node_metadata' = [per_node_metadata EXCEPT ![env.from] = @ + cost]
  /\ UNCHANGED <<inboxes, bytes_state, per_node_state>>

\* What a bug would do that forgets the last counter.
ResetKeepingMetadata ==
  /\ inboxes' = [w \in Node |-> <<>>]
  /\ bytes_state' = 0
  /\ bytes_metadata' = 0
  /\ per_node_state' = [v \in Node |-> 0]
  /\ UNCHANGED per_node_metadata

Reset ==
  /\ inboxes' = [w \in Node |-> <<>>]
  /\ bytes_state' = 0
  /\ bytes_metadata' = 0
  /\ per_node_state' = [v \in Node |-> 0]
  /\ per_node_metadata' = [v \in Node |-> 0]

NetworkTypeOK ==
  /\ inboxes \in [Node -> Seq(Envelope)]
  /\ bytes_state \in Nat
  /\ bytes_metadata \in Nat
  /\ per_node_state \in [Node -> Nat]
  /\ per_node_metadata \in [Node -> Nat]

=============================================================================
