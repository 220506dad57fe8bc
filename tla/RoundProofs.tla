----------------------------- MODULE RoundProofs -----------------------------
(***************************************************************************)
(* What the rounds do and what they cost: safety of the simulation with    *)
(* its log, for every number of replicas, universe, protocol, topology,    *)
(* round cap and workload.  First where a round's messages and carries     *)
(* are, then how elements travel, then that every byte reaches the         *)
(* counters of its sender and that no element arrives unpaid.              *)
(***************************************************************************)
EXTENDS RoundInvariant, EngineProofs

\* The log is written beside the program and changes nothing in it.
LEMMA LogIsHistory == LogSpec => Safety
<1>1. LogInit => Init BY DEF LogInit
<1>2. [LogNext]_logVars => [Next]_vars BY DEF LogNext, logVars
<1>3. QED BY <1>1, <1>2, PTL DEF LogSpec, Safety

\* A step begins a round and records it, or leaves the log alone.
LEMMA LogStep ==
  ASSUME TypeOK, [LogNext]_logVars
  PROVE  \/ /\ BeginRound /\ pc = "begin" /\ pc' = "send" /\ cur' = 0
            /\ ~(current_round >= config.round_cap)
            /\ current_round' = current_round + 1
            /\ log' = Append(log, RoundRecord)
            /\ billed' = billed + bytes_state + bytes_metadata
         \/ /\ [Next]_vars
            /\ current_round' = current_round /\ log' = log /\ billed' = billed
            /\ pc' # "send" \/ pc = "send"
<1>0. current_round \in Nat BY DEF TypeOK
<1>1. CASE BeginRound /\ ~(current_round >= config.round_cap)
  <2>1. /\ current_round' = current_round + 1 /\ pc = "begin" /\ pc' = "send"
        /\ cur' = 0
    BY <1>1 DEF BeginRound
  <2>2. logVars' # logVars BY <1>0, <2>1 DEF logVars, vars, engineVars
  <2>3. LogNext BY <2>2
  <2>4. QED BY <1>0, <1>1, <2>1, <2>3 DEF LogNext
<1>2. CASE Start \/ Send \/ Drain \/ Recv \/ Bill \/ Apply \/ Halted
             \/ (BeginRound /\ current_round >= config.round_cap)
  <2>1. /\ current_round' = current_round /\ Next
        /\ pc' # "send" \/ pc = "send"
    BY <1>2 DEF Start, Send, Drain, Recv, Bill, Apply, Conclude, Finish, Halted,
                BeginRound, Next, vars, engineVars
  <2>2. UNCHANGED <<log, billed>> BY <1>0, <2>1 DEF LogNext, logVars
  <2>3. QED BY <2>1, <2>2
<1>3. CASE UNCHANGED logVars BY <1>3 DEF logVars, vars, engineVars
<1>4. QED BY <1>1, <1>2, <1>3 DEF LogNext, Next

-----------------------------------------------------------------------------
(* The log                                                                  *)

\* What is recorded of a round has the type of a record.
LEMMA RecordType ==
  ASSUME TypeOK
  PROVE  RoundRecord \in RoundRecords
BY DEF TypeOK, RoundRecord, RoundRecords

\* What becomes of the sets in a step.
LEMMA SetsStep ==
  ASSUME IInv, [Next]_vars
  PROVE  /\ UNCHANGED <<config, initial, target_union>>
         /\ sets' = sets \/ Apply
         /\ \A v \in Node : sets[v] \subseteq sets'[v]
<1>1. CASE Apply
  <2>1. \A v \in Node : ResultOK(v)
    BY <1>1 DEF Apply, Conclude, IInv, ResultsInv
  <2>2. \A v \in Node : sets'[v] = results[v].next_set BY <1>1 DEF Apply, Conclude
  <2>3. QED BY <1>1, <2>1, <2>2 DEF Apply, Conclude, ResultOK
<1>2. CASE Start \/ BeginRound \/ Send \/ Drain \/ Recv \/ Bill \/ Halted \/ UNCHANGED vars
  BY <1>2 DEF Start, BeginRound, Send, Drain, Recv, Bill, Halted, vars, engineVars
<1>3. QED BY <1>1, <1>2 DEF Next

\* The log begins empty.
LEMMA LogStart ==
  ASSUME LogInit, IInv
  PROVE  LogInv
BY DEF LogInit, Init, LogInv, InRound

\* It keeps telling how the rounds began.
LEMMA LogKept ==
  ASSUME IInv, LogInv, [LogNext]_logVars
  PROVE  LogInv'
<1>0. /\ TypeOK /\ current_round \in Nat /\ log \in Seq(RoundRecords)
      /\ Len(log) = current_round
      /\ \A i \in 1 .. current_round : log[i] \in RoundRecords
  BY DEF IInv, TypeOK, LogInv
<1>1. CASE /\ BeginRound /\ pc = "begin" /\ pc' = "send"
           /\ current_round' = current_round + 1
           /\ log' = Append(log, RoundRecord)
  <2>1. /\ UNCHANGED <<target_union, sets>> /\ ~HasConverged(sets)
    BY <1>1 DEF BeginRound, IInv, ControlInv
  <2>2. /\ log' \in Seq(RoundRecords) /\ Len(log') = current_round'
        /\ log'[current_round'] = RoundRecord
        /\ \A i \in 1 .. current_round : log'[i] = log[i]
    BY <1>0, <1>1, RecordType
  <2>3. RoundRecord.sets = sets BY DEF RoundRecord
  <2>4. \A i \in 1 .. current_round' : i = current_round' \/ i \in 1 .. current_round
    BY <1>0, <1>1
  <2>5. \A i \in 1 .. current_round' : (~HasConverged(log[i].sets))'
    <3>1. \A i \in 1 .. current_round :
            \E v \in Node : log'[i].sets[v] # target_union'
      BY <2>1, <2>2 DEF LogInv, HasConverged
    <3>2. \E v \in Node : sets[v] # target_union' BY <2>1 DEF HasConverged
    <3>3. QED BY <2>2, <2>3, <2>4, <3>1, <3>2 DEF HasConverged
  <2>6. ASSUME NEW i \in 2 .. current_round', NEW v \in Node
        PROVE  log'[i-1].sets[v] \subseteq log'[i].sets[v]
    <3>1. CASE i = current_round'
      <4>1. i - 1 = current_round /\ current_round >= 1 BY <1>0, <1>1, <3>1
      <4>2. log[current_round].sets[v] \subseteq sets[v] BY <4>1 DEF LogInv, ThisRound
      <4>3. log'[current_round] = log[current_round] BY <2>2, <4>1
      <4>4. QED BY <2>2, <2>3, <3>1, <4>1, <4>2, <4>3
    <3>2. CASE i # current_round'
      <4>1. i \in 2 .. current_round /\ i - 1 \in 1 .. current_round
            /\ i \in 1 .. current_round
        BY <1>0, <1>1, <3>2
      <4>2. QED BY <2>2, <4>1 DEF LogInv
    <3>3. QED BY <3>1, <3>2
  <2>7. ThisRound'.sets = sets' BY <2>1, <2>2, <2>3 DEF ThisRound
  <2>8. QED BY <2>2, <2>5, <2>6, <2>7 DEF LogInv
<1>2. CASE /\ [Next]_vars
           /\ current_round' = current_round /\ log' = log
           /\ pc' # "send" \/ pc = "send"
  <2>1. /\ target_union' = target_union
        /\ sets' = sets \/ Apply
        /\ \A v \in Node : sets[v] \subseteq sets'[v]
    BY <1>2, SetsStep
  <2>2. InRound' \/ pc' = "hung" =>
          sets' = sets /\ (InRound \/ pc = "hung")
    BY <1>2, <2>1 DEF InRound, Next, Start, BeginRound, Send, Drain, Recv, Bill, Apply,
         Conclude, Finish, Halted, vars, engineVars
  <2>3. \A i \in 1 .. current_round' : (~HasConverged(log[i].sets))'
    <3>1. \A i \in 1 .. current_round : \E v \in Node : log[i].sets[v] # target_union
      BY DEF LogInv, HasConverged
    <3>2. current_round' = current_round /\ log' = log /\ target_union' = target_union
      BY <1>2, <2>1
    <3>3. QED BY <3>1, <3>2 DEF HasConverged
  <2>4. current_round >= 1 => \A v \in Node : ThisRound.sets[v] \subseteq sets'[v]
    BY <2>1 DEF LogInv
  <2>5. ThisRound' = ThisRound BY <1>2 DEF ThisRound
  <2>6. QED BY <1>2, <2>2, <2>3, <2>4, <2>5 DEF LogInv
<1>3. QED BY <1>0, <1>1, <1>2, LogStep

\* The records a step finds and leaves.
LEMMA RecordStep ==
  ASSUME IInv, LogInv, [LogNext]_logVars
  PROVE  \/ /\ BeginRound /\ pc = "begin" /\ pc' = "send" /\ cur' = 0
            /\ current_round' = current_round + 1
            /\ current_round >= 1 => PriorRound' = ThisRound
            /\ current_round >= 2 => log'[current_round' - 2] = PriorRound
            /\ ThisRound' = RoundRecord
            /\ billed' = billed + bytes_state + bytes_metadata
            /\ inboxes' = [v \in Node |-> <<>>] /\ drained' = drained
            /\ sets' = sets /\ carry_states' = carry_states /\ results' = results
         \/ /\ [Next]_vars /\ current_round' = current_round
            /\ log' = log /\ billed' = billed
            /\ ThisRound' = ThisRound /\ PriorRound' = PriorRound
            /\ pc' # "send" \/ pc = "send"
<1>0. /\ TypeOK /\ current_round \in Nat /\ log \in Seq(RoundRecords)
      /\ Len(log) = current_round
  BY DEF IInv, TypeOK, LogInv
<1>1. CASE /\ BeginRound /\ pc = "begin" /\ pc' = "send" /\ cur' = 0
           /\ ~(current_round >= config.round_cap)
           /\ current_round' = current_round + 1
           /\ log' = Append(log, RoundRecord)
           /\ billed' = billed + bytes_state + bytes_metadata
  <2>1. log'[current_round'] = RoundRecord
    BY <1>0, <1>1, RecordType
  <2>2. \A i \in 1 .. current_round : log'[i] = log[i]
    BY <1>0, <1>1, RecordType
  <2>3. /\ current_round >= 1 => current_round' - 1 = current_round
                                 /\ current_round \in 1 .. current_round
        /\ current_round >= 2 => current_round' - 2 = current_round - 1
                                 /\ current_round - 1 \in 1 .. current_round
    BY <1>0, <1>1
  <2>4. /\ inboxes' = [v \in Node |-> <<>>] /\ drained' = drained
        /\ sets' = sets /\ carry_states' = carry_states /\ results' = results
    BY <1>1 DEF BeginRound, Reset
  <2>5. QED BY <1>1, <2>1, <2>2, <2>3, <2>4 DEF ThisRound, PriorRound
<1>2. CASE /\ [Next]_vars
           /\ current_round' = current_round /\ log' = log /\ billed' = billed
           /\ pc' # "send" \/ pc = "send"
  BY <1>2 DEF ThisRound, PriorRound
<1>3. QED BY <1>0, <1>1, <1>2, LogStep

\* When the round cap is used up nothing happens.
LEMMA DeclineStep ==
  ASSUME TypeOK, BeginRound, current_round' = current_round
  PROVE  /\ pc = "begin" /\ pc' = "done"
         /\ UNCHANGED <<netVars, config, initial, target_union, sets, stats,
                        carry_states, drained, results>>
<1>1. current_round + 1 # current_round BY DEF TypeOK
<1>2. current_round >= config.round_cap BY <1>1 DEF BeginRound
<1>3. QED BY <1>2 DEF BeginRound, Finish

\* The type of the record at hand.
LEMMA RecordHere ==
  ASSUME TypeOK, LogInv, current_round >= 1
  PROVE  /\ ThisRound.sets \in [Node -> SUBSET Element]
         /\ ThisRound.sketching \in SUBSET Node
<1>1. current_round \in 1 .. Len(log) BY DEF TypeOK, LogInv
<1>2. ThisRound \in RoundRecords BY <1>1 DEF LogInv, ThisRound
<1>3. QED BY <1>2 DEF RoundRecords

\* The turn in each loop goes from 0 to N-1.
LEMMA TurnTypes ==
  ASSUME TypeOK
  PROVE  /\ cur \in Node /\ 0 \in Node
         /\ \A v \in Node : ~(v < 0)
         /\ cur = N-1 => \A v \in Node : v < cur \/ v = cur
         /\ cur # N-1 => \A v \in Node : v < cur + 1 <=> v < cur \/ v = cur
         /\ ~(cur < cur)
BY NAssumption DEF TypeOK, Node

-----------------------------------------------------------------------------
(* Where mail is and whose turn it is                                       *)

\* Mail is where the loop that is running looks for it.
LEMMA PlaceKept ==
  ASSUME IInv, PlaceInv, [Next]_vars, pc' # "panic"
  PROVE  PlaceInv'
<1>0. TypeOK /\ pc # "panic" BY DEF IInv, ControlInv
<1>1. CASE Start \/ BeginRound
  BY <1>1 DEF Start, BeginRound, Finish, Reset, PlaceInv, netVars
<1>2. CASE Send
  BY <1>2 DEF Send, PlaceInv
<1>3. CASE Drain
  BY <1>3 DEF Drain, DrainAll, PlaceInv
<1>4. CASE Recv
  <2>1. pc' \in {"recv", "bill", "hung"} /\ pc = "recv" /\ inboxes' = inboxes
    BY <1>4 DEF Recv, netVars
  <2>2. pc' = "bill" => cur' = 0 BY <1>4 DEF Recv
  <2>3. QED BY <1>0, <2>1, <2>2, TurnTypes DEF PlaceInv
<1>5. CASE Bill
  <2>1. pc = "bill" /\ inboxes' = inboxes BY <1>5 DEF Bill, BillMetadata, netVars
  <2>2. CASE drained[cur] # <<>>
    <3>1. /\ pc' = pc /\ cur' = cur
          /\ \A v \in Node : v # cur => drained'[v] = drained[v]
      BY <1>0, <1>5, <2>2 DEF Bill, TypeOK
    <3>2. QED BY <1>0, <2>1, <3>1, TurnTypes DEF PlaceInv
  <2>3. CASE drained[cur] = <<>>
    <3>1. /\ pc' = IF cur = N-1 THEN "apply" ELSE "bill"
          /\ cur' = IF cur = N-1 THEN 0 ELSE cur + 1
          /\ drained' = drained
      BY <1>5, <2>3 DEF Bill
    <3>2. QED BY <1>0, <2>1, <2>3, <3>1, TurnTypes DEF PlaceInv
  <2>4. QED BY <2>2, <2>3
<1>6. CASE Apply
  BY <1>6 DEF Apply, Conclude, Finish, PlaceInv, netVars
<1>7. CASE Halted \/ UNCHANGED vars
  BY <1>7 DEF Halted, PlaceInv, vars, netVars, engineVars
<1>8. QED BY <1>1, <1>2, <1>3, <1>4, <1>5, <1>6, <1>7 DEF Next

\* Carries are taken up in turn, and who sketches was settled before.
LEMMA TurnKept ==
  ASSUME IInv, LogInv, TurnInv, [LogNext]_logVars
  PROVE  TurnInv'
<1>0. TypeOK /\ current_round \in Nat BY DEF IInv, TypeOK
<1>1. CASE /\ pc' = "send" /\ cur' = 0 /\ current_round' = current_round + 1
           /\ ThisRound' = RoundRecord /\ carry_states' = carry_states
  <2>1. \A v \in Node : ~Spoken(v)' BY <1>0, <1>1, TurnTypes DEF Spoken
  <2>2. \A v \in Node : v \in ThisRound'.sketching <=> carry_states'[v] = NoCarry
    BY <1>1 DEF RoundRecord
  <2>3. QED BY <1>0, <1>1, <2>1, <2>2 DEF TurnInv
<1>2. CASE /\ [Next]_vars /\ current_round' = current_round
           /\ ThisRound' = ThisRound /\ (pc' # "send" \/ pc = "send")
  <2>1. CASE Send
    <3>1. /\ carry_states' = [carry_states EXCEPT ![cur] = NoCarry] /\ pc = "send"
          /\ \/ pc' = "panic" /\ cur' = cur
             \/ cur = N-1 /\ pc' = "drain"
             \/ cur # N-1 /\ pc' = "send" /\ cur' = cur + 1
      BY <2>1 DEF Send
    <3>2. \A v \in Node : v = cur => carry_states'[v] = NoCarry
      BY <1>0, <3>1 DEF TypeOK
    <3>3. \A v \in Node : v # cur => carry_states'[v] = carry_states[v]
      BY <1>0, <3>1 DEF TypeOK
    <3>4. current_round # 0 BY <1>0, <3>1 DEF IInv, ControlInv, InRound
    <3>5. InRound => \A v \in Node :
            IF v < cur THEN carry_states[v] = NoCarry
            ELSE v \in ThisRound.sketching <=> carry_states[v] = NoCarry
      BY <3>1 DEF TurnInv, Spoken
    <3>6. InRound BY <3>1 DEF InRound
    <3>7. CASE pc' = "panic" BY <1>2, <3>4, <3>7 DEF TurnInv, InRound
    <3>8. CASE cur = N-1 /\ pc' = "drain"
      BY <1>0, <1>2, <3>2, <3>3, <3>4, <3>5, <3>6, <3>8, TurnTypes DEF TurnInv, Spoken
    <3>9. CASE cur # N-1 /\ pc' = "send" /\ cur' = cur + 1
      BY <1>0, <1>2, <3>2, <3>3, <3>4, <3>5, <3>6, <3>9, TurnTypes DEF TurnInv, Spoken
    <3>10. QED BY <3>1, <3>7, <3>8, <3>9
  <2>2. CASE Drain \/ Recv \/ Bill
    <3>1. /\ carry_states' = carry_states /\ pc \in {"drain", "recv", "bill"}
          /\ pc' \in {"recv", "bill", "apply", "hung"}
      BY <2>2 DEF Drain, Recv, Bill
    <3>2. QED BY <1>2, <3>1 DEF TurnInv, InRound, Spoken
  <2>3. CASE Apply
    <3>1. current_round # 0 BY <1>0, <2>3 DEF Apply, Conclude, IInv, ControlInv, InRound
    <3>2. pc' \in {"begin", "done"} BY <2>3 DEF Apply, Conclude, Finish
    <3>3. QED BY <1>2, <3>1, <3>2 DEF TurnInv, InRound
  <2>4. CASE Start \/ (BeginRound /\ pc' # "send")
    <3>1. pc' \in {"begin", "done"} /\ carry_states' = carry_states
      BY <2>4 DEF Start, BeginRound, Finish
    <3>2. QED BY <1>2, <3>1 DEF TurnInv, InRound
  <2>5. CASE Halted \/ UNCHANGED vars
    BY <1>2, <2>5 DEF Halted, TurnInv, InRound, Spoken, vars, engineVars
  <2>6. CASE BeginRound /\ pc' = "send" BY <1>2, <2>6 DEF BeginRound
  <2>7. QED BY <1>2, <2>1, <2>2, <2>3, <2>4, <2>5, <2>6 DEF Next
<1>3. QED BY <1>1, <1>2, RecordStep

-----------------------------------------------------------------------------
(* What messages say                                                        *)

\* A box with one more message.
LEMMA AppendAt ==
  ASSUME NEW T, NEW s \in Seq(T), NEW e \in T
  PROVE  /\ DOMAIN Append(s, e) = (DOMAIN s) \cup {Len(s) + 1}
         /\ \A i \in DOMAIN s : Append(s, e)[i] = s[i]
         /\ Append(s, e)[Len(s) + 1] = e
BY AppendProperties

\* A box without its first message.
LEMMA TailAt ==
  ASSUME NEW T, NEW s \in Seq(T), s # <<>>
  PROVE  /\ \A i \in DOMAIN Tail(s) : i+1 \in DOMAIN s /\ Tail(s)[i] = s[i+1]
         /\ \A i \in DOMAIN s : i = 1 \/ (i-1 \in DOMAIN Tail(s) /\ Tail(s)[i-1] = s[i])
         /\ 1 \in DOMAIN s /\ s[1] = Head(s)
<1>1. Len(s) \in Nat /\ Len(s) > 0 /\ DOMAIN s = 1 .. Len(s)
  BY EmptySeq, LenProperties
<1>2. /\ Tail(s) \in Seq(T) /\ Len(Tail(s)) = Len(s) - 1
      /\ \A i \in 1 .. Len(Tail(s)) : Tail(s)[i] = s[i+1]
      /\ Head(s) = s[1]
  BY HeadTailProperties
<1>3. DOMAIN Tail(s) = 1 .. Len(s) - 1 BY <1>1, <1>2, LenProperties
<1>4. ASSUME NEW i \in DOMAIN s, i # 1
      PROVE  i-1 \in DOMAIN Tail(s) /\ Tail(s)[i-1] = s[i]
  <2>1. i \in 1 .. Len(s) /\ i-1 \in 1 .. Len(s) - 1 /\ (i-1)+1 = i BY <1>1, <1>4
  <2>2. Tail(s)[i-1] = s[(i-1)+1] BY <1>2, <2>1
  <2>3. QED BY <1>3, <2>1, <2>2
<1>5. QED BY <1>1, <1>2, <1>3, <1>4

\* A sketch is told from elements by its kind.
LEMMA SketchIsNoElements ==
  ASSUME NEW protocol \in ProtocolKind \ Flooding
  PROVE  SketchKind(protocol) \in MsgKind \ {"Elements"}
BY DEF ProtocolKind, Flooding, SketchKind, MsgKind

\* A replica with nothing to carry sends sketches of its set to all its
\* neighbours, any other sends elements to those it has a carry for.
LEMMA SendPhaseSays ==
  ASSUME NEW protocol, NEW nbrs, NEW set, NEW c, protocol \notin Flooding
  PROVE  LET msgs == SendPhase(protocol, nbrs, set, c) IN
         /\ c = NoCarry =>
              /\ DOMAIN msgs = nbrs
              /\ \A w \in nbrs : /\ msgs[w].kind = SketchKind(protocol)
                                 /\ msgs[w].els = set
         /\ c # NoCarry =>
              /\ DOMAIN msgs = Pending(c)
              /\ \A w \in Pending(c) : /\ msgs[w].kind = "Elements"
                                       /\ msgs[w].els = c[w]
BY DEF SendPhase, Sketches, CarriedElements, NewMsg

\* Under full state transfer it sends its set to all its neighbours.
LEMMA FloodSays ==
  ASSUME NEW protocol \in Flooding, NEW nbrs, NEW set, NEW c
  PROVE  LET msgs == SendPhase(protocol, nbrs, set, c) IN
         /\ DOMAIN msgs = nbrs
         /\ \A w \in nbrs : msgs[w].kind = "Elements" /\ msgs[w].els = set
BY DEF SendPhase, Flood, NewMsg

\* What the send step does to the inboxes.
LEMMA SendStep ==
  ASSUME IInv, Send
  PROVE  LET msgs == SendPhase(config.protocol, Nbrs(cur), sets[cur], carry_states[cur])
         IN  /\ DOMAIN msgs \in SUBSET Nbrs(cur)
             /\ Nbrs(cur) \in SUBSET Node
             /\ msgs \in [DOMAIN msgs -> Message]
             /\ Deliver(cur, msgs)
             /\ \A w \in Node :
                  inboxes'[w] = IF w \in DOMAIN msgs
                                THEN Append(inboxes[w], [from |-> cur, msg |-> msgs[w]])
                                ELSE inboxes[w]
<1> DEFINE msgs == SendPhase(config.protocol, Nbrs(cur), sets[cur], carry_states[cur])
<1>0. TypeOK /\ CarryInv /\ cur \in Node BY DEF IInv, TypeOK
<1>1. Nbrs(cur) \in SUBSET Node BY <1>0, ConfigType, NbrsType
<1>2. /\ sets[cur] \in SUBSET Element
      /\ carry_states[cur] \in Carry
      /\ Pending(carry_states[cur]) \subseteq Nbrs(cur)
  BY <1>0 DEF TypeOK, CarryInv, CarryOK
<1>3. DOMAIN msgs \subseteq Nbrs(cur) /\ msgs \in [DOMAIN msgs -> Message]
  BY <1>0, <1>1, <1>2, ConfigType, SendPhaseType
<1>4. Deliver(cur, msgs) BY <1>3 DEF Send
<1> HIDE DEF msgs
<1>5. \A w \in Node :
        inboxes'[w] = IF w \in DOMAIN msgs
                      THEN Append(inboxes[w], [from |-> cur, msg |-> msgs[w]])
                      ELSE inboxes[w]
  BY <1>4 DEF Deliver
<1>6. QED BY <1>1, <1>3, <1>4, <1>5 DEF msgs

\* What the receive step does, if it returns.
LEMMA RecvStep ==
  ASSUME IInv, Recv, pc' # "hung"
  PROVE  \E out \in InboxOutcomes(sets[cur], drained[cur]) :
           /\ results'[cur].next_set = sets[cur] \cup Received(drained[cur])
           /\ results'[cur].carry = NextCarry(drained[cur], out)
           /\ drained'[cur] = Consumed(drained[cur], out)
           /\ \A v \in Node \ {cur} : /\ results'[v] = results[v]
                                      /\ drained'[v] = drained[v]
<1>0. TypeOK /\ cur \in Node BY DEF IInv, TypeOK
<1>1. PICK out \in InboxOutcomes(sets[cur], drained[cur]) :
        /\ results' = [results EXCEPT ![cur] =
             [next_set |-> NextSet(sets[cur], drained[cur]),
              carry |-> NextCarry(drained[cur], out)]]
        /\ drained' = [drained EXCEPT ![cur] = Consumed(@, out)]
  BY DEF Recv
<1>2. QED BY <1>0, <1>1 DEF TypeOK, NextSet

\* ... and if it does not return, it leaves everything as it is.
LEMMA HungStep ==
  ASSUME Recv, pc' = "hung"
  PROVE  /\ inboxes' = inboxes /\ drained' = drained /\ results' = results
         /\ \E i \in DOMAIN drained[cur] :
              ExtendsForever(sets[cur], drained[cur][i].msg)
<1> DEFINE stuck == \E i \in DOMAIN drained[cur] :
                      ExtendsForever(sets[cur], drained[cur][i].msg)
<1>1. inboxes' = inboxes BY DEF Recv, netVars
<1>2. ~stuck => pc' \in {"bill", "recv"} BY DEF Recv
<1>3. stuck => UNCHANGED <<cur, drained, results>> BY DEF Recv
<1>4. stuck BY <1>2
<1>5. QED BY <1>1, <1>3, <1>4

\* A message that has been used up tells who sent it and what it was.
LEMMA ConsumedSays ==
  ASSUME NEW inbox, NEW out
  PROVE  /\ DOMAIN Consumed(inbox, out) = DOMAIN inbox
         /\ \A i \in DOMAIN inbox :
              LET e == Consumed(inbox, out)[i] IN
              /\ e.from = inbox[i].from
              /\ e.msg = UsedUp(inbox[i].msg, out[i])
              /\ e.msg.kind = inbox[i].msg.kind
              /\ e.msg.kind # "Elements" => e.msg.els = inbox[i].msg.els
              /\ e.msg.kind = "Elements" => e.msg.els = {}
BY DEF Consumed, UsedUp

\* Everybody says what the log has it say.
LEMMA GenuineKept ==
  ASSUME IInv, LogInv, PlaceInv, TurnInv, GenuineInv, [LogNext]_logVars
  PROVE  GenuineInv'
<1>0. /\ TypeOK /\ MailInv /\ cur \in Node
      /\ \A v \in Node : inboxes[v] \in Seq(Envelope) /\ drained[v] \in Seq(Envelope)
  BY DEF IInv, TypeOK, NetworkTypeOK
<1>1. CASE BeginRound /\ pc = "begin" /\ inboxes' = [v \in Node |-> <<>>]
           /\ drained' = drained
  <2>1. \A v \in Node : inboxes'[v] = <<>> /\ drained'[v] = <<>>
    BY <1>1 DEF PlaceInv
  <2>2. QED BY <2>1 DEF GenuineInv
<1>2. CASE [Next]_vars /\ ThisRound' = ThisRound /\ current_round' = current_round
  <2>1. CASE sets' = sets /\ config' = config
    <3>0. \A e : Genuine(e) <=>
            IF config'.protocol \notin Flooding /\ e.from \in ThisRound'.sketching
            THEN e.msg.kind = SketchKind(config'.protocol) /\ e.msg.els = sets'[e.from]
            ELSE e.msg.kind = "Elements"
      BY <1>2, <2>1 DEF Genuine, Sketching
    <3>1. CASE Send
      <4> DEFINE msgs == SendPhase(config.protocol, Nbrs(cur), sets[cur],
                                   carry_states[cur])
      <4>1. /\ DOMAIN msgs \in SUBSET Nbrs(cur)
            /\ msgs \in [DOMAIN msgs -> Message]
            /\ \A w \in Node :
                  inboxes'[w] = IF w \in DOMAIN msgs
                                THEN Append(inboxes[w], [from |-> cur, msg |-> msgs[w]])
                                ELSE inboxes[w]
            /\ drained' = drained
        BY <3>1, SendStep DEF Send
      <4>2. cur \in ThisRound.sketching <=> carry_states[cur] = NoCarry
        BY <1>0, <3>1, TurnTypes DEF TurnInv, InRound, Spoken, Send
      <4>3. ASSUME NEW w \in DOMAIN msgs
            PROVE  Genuine([from |-> cur, msg |-> msgs[w]])
        <5>1. CASE Sketching
          BY <4>2, <5>1, SendPhaseSays DEF Genuine, Sketching
        <5>2. CASE ~Sketching
          BY <5>2, FloodSays DEF Genuine, Sketching
        <5>3. QED BY <5>1, <5>2
      <4>4. \A w \in DOMAIN msgs : [from |-> cur, msg |-> msgs[w]] \in Envelope
        BY <1>0, <4>1 DEF Envelope
      <4> HIDE DEF msgs
      <4>5. ASSUME NEW v \in Node, NEW i \in DOMAIN inboxes'[v]
            PROVE  Genuine(inboxes'[v][i])
        <5>1. CASE v \in DOMAIN msgs
          <6>1. inboxes'[v] = Append(inboxes[v], [from |-> cur, msg |-> msgs[v]])
            BY <4>1, <5>1
          <6>2. \/ i \in DOMAIN inboxes[v] /\ inboxes'[v][i] = inboxes[v][i]
                \/ inboxes'[v][i] = [from |-> cur, msg |-> msgs[v]]
            BY <1>0, <4>4, <5>1, <6>1, AppendAt
          <6>3. QED BY <4>3, <5>1, <6>2 DEF GenuineInv
        <5>2. CASE v \notin DOMAIN msgs BY <4>1, <5>2 DEF GenuineInv
        <5>3. QED BY <5>1, <5>2
      <4>6. \A v \in Node : \A i \in DOMAIN drained'[v] : Genuine(drained'[v][i])
        BY <4>1 DEF GenuineInv
      <4>7. QED BY <3>0, <4>5, <4>6 DEF GenuineInv, Genuine, Sketching
    <3>2. CASE Drain
      <4>1. /\ \A v \in Node : inboxes'[v] = <<>>
            /\ drained' = inboxes
        BY <3>2 DEF Drain, DrainAll
      <4>2. \A v \in Node : \A i \in DOMAIN drained'[v] : Genuine(drained'[v][i])
        BY <4>1 DEF GenuineInv
      <4>3. QED BY <3>0, <4>1, <4>2 DEF GenuineInv, Genuine, Sketching
    <3>3. CASE Recv /\ pc' # "hung"
      <4>1. PICK out : /\ drained'[cur] = Consumed(drained[cur], out)
                       /\ \A v \in Node \ {cur} : drained'[v] = drained[v]
        BY <3>3, RecvStep
      <4>2. inboxes' = inboxes BY <3>3 DEF Recv, netVars
      <4>3. ASSUME NEW v \in Node, NEW i \in DOMAIN drained'[v]
            PROVE  Genuine(drained'[v][i])
        <5>1. CASE v = cur
          <6>1. i \in DOMAIN drained[cur] BY <4>1, <5>1, ConsumedSays
          <6>2. /\ drained'[v][i].from = drained[cur][i].from
                /\ drained'[v][i].msg.kind = drained[cur][i].msg.kind
                /\ drained'[v][i].msg.kind # "Elements" =>
                     drained'[v][i].msg.els = drained[cur][i].msg.els
            BY <4>1, <5>1, <6>1, ConsumedSays
          <6>3. Genuine(drained[cur][i]) BY <1>0, <6>1 DEF GenuineInv
          <6>4. Sketching => SketchKind(config.protocol) # "Elements"
            BY <1>0, ConfigType, SketchIsNoElements DEF Sketching
          <6>5. QED BY <6>2, <6>3, <6>4 DEF Genuine
        <5>2. CASE v # cur BY <4>1, <5>2 DEF GenuineInv
        <5>3. QED BY <5>1, <5>2
      <4>4. \A v \in Node : \A i \in DOMAIN inboxes'[v] : Genuine(inboxes'[v][i])
        BY <4>2 DEF GenuineInv
      <4>5. QED BY <3>0, <4>3, <4>4 DEF GenuineInv, Genuine, Sketching
    <3>4. CASE Bill
      <4>1. inboxes' = inboxes BY <3>4 DEF Bill, BillMetadata, netVars
      <4>2. ASSUME NEW v \in Node, NEW i \in DOMAIN drained'[v]
            PROVE  Genuine(drained'[v][i])
        <5>1. CASE drained' = drained BY <5>1 DEF GenuineInv
        <5>2. CASE drained[cur] # <<>> /\ drained' = [drained EXCEPT ![cur] = Tail(@)]
          <6>1. CASE v = cur
            <7>1. drained'[v] = Tail(drained[v]) BY <1>0, <5>2, <6>1 DEF TypeOK
            <7>2. /\ i + 1 \in DOMAIN drained[v]
                  /\ drained'[v][i] = drained[v][i+1]
              <8>1. drained[v] \in Seq(Envelope) /\ drained[v] # <<>>
                BY <1>0, <5>2, <6>1
              <8>2. i \in DOMAIN Tail(drained[v]) BY <7>1
              <8>3. QED BY <7>1, <8>1, <8>2, TailAt
            <7>3. QED BY <7>2 DEF GenuineInv
          <6>2. CASE v # cur
            BY <1>0, <5>2, <6>2 DEF TypeOK, GenuineInv
          <6>3. QED BY <6>1, <6>2
        <5>3. QED BY <3>4, <5>1, <5>2 DEF Bill
      <4>3. \A v \in Node : \A i \in DOMAIN inboxes'[v] : Genuine(inboxes'[v][i])
        BY <4>1 DEF GenuineInv
      <4>4. QED BY <3>0, <4>2, <4>3 DEF GenuineInv, Genuine, Sketching
    <3>5. CASE inboxes' = inboxes /\ drained' = drained
      <4>1. inboxes' = inboxes /\ drained' = drained BY <3>5
      <4>2. \A v \in Node : /\ \A i \in DOMAIN inboxes'[v] : Genuine(inboxes'[v][i])
                           /\ \A i \in DOMAIN drained'[v] : Genuine(drained'[v][i])
        BY <4>1 DEF GenuineInv
      <4>3. QED BY <3>0, <4>2 DEF GenuineInv, Genuine, Sketching
    <3>6. CASE Start \/ BeginRound \/ (Recv /\ pc' = "hung") \/ Apply \/ Halted
               \/ UNCHANGED vars
      <4>1. current_round \in Nat BY <1>0 DEF TypeOK
      <4>2. inboxes' = inboxes /\ drained' = drained
        <5>1. CASE BeginRound BY <1>0, <1>2, <5>1, DeclineStep DEF netVars
        <5>2. CASE Start \/ Apply \/ Halted \/ UNCHANGED vars
          BY <5>2 DEF Start, Apply, Conclude, Halted, vars, engineVars, netVars
        <5>3. CASE Recv /\ pc' = "hung" BY <5>3, HungStep
        <5>4. QED BY <3>6, <5>1, <5>2, <5>3
      <4>3. QED BY <3>5, <4>2
    <3>7. QED BY <1>2, <3>1, <3>2, <3>3, <3>4, <3>6 DEF Next
  <2>2. CASE Apply
    <3>1. \A v \in Node : inboxes'[v] = <<>> /\ drained'[v] = <<>>
      BY <2>2 DEF Apply, Conclude, netVars, PlaceInv
    <3>2. QED BY <3>1 DEF GenuineInv
  <2>3. QED BY <1>2, <2>1, <2>2, SetsStep
<1>3. QED BY <1>1, <1>2, RecordStep

\* A step that begins no round.
SameRound ==
  /\ current_round' = current_round /\ log' = log /\ billed' = billed
  /\ ThisRound' = ThisRound /\ PriorRound' = PriorRound
  /\ config' = config /\ initial' = initial /\ target_union' = target_union

\* A step that does no more than move on between rounds, or nothing at all.
Idle ==
  /\ inboxes' = inboxes /\ drained' = drained /\ results' = results
  /\ sets' = sets /\ carry_states' = carry_states /\ stats' = stats
  /\ bytes_state' = bytes_state /\ bytes_metadata' = bytes_metadata
  /\ per_node_state' = per_node_state /\ per_node_metadata' = per_node_metadata
  /\ \/ pc' = pc /\ cur' = cur
     \/ /\ pc \in {"start", "begin"} /\ pc' \in {"begin", "done"}
        /\ pc = "start" => current_round = 0

\* A step that begins one.
NewRound ==
  /\ BeginRound /\ pc = "begin" /\ pc' = "send" /\ cur' = 0
  /\ current_round' = current_round + 1
  /\ current_round >= 1 => PriorRound' = ThisRound
  /\ current_round >= 2 => log'[current_round' - 2] = PriorRound
  /\ ThisRound' = RoundRecord
  /\ billed' = billed + bytes_state + bytes_metadata
  /\ inboxes' = [v \in Node |-> <<>>] /\ drained' = drained
  /\ sets' = sets /\ carry_states' = carry_states /\ results' = results
  /\ config' = config /\ initial' = initial

\* The steps there are.
LEMMA StepKinds ==
  ASSUME IInv, LogInv, [LogNext]_logVars
  PROVE  \/ NewRound
         \/ SameRound /\ Idle
         \/ SameRound /\ Send
         \/ SameRound /\ Drain
         \/ SameRound /\ Recv /\ pc' = "hung"
         \/ SameRound /\ Recv /\ pc' # "hung"
         \/ SameRound /\ Bill
         \/ SameRound /\ Apply
<1>0. TypeOK /\ ControlInv BY DEF IInv
<1>1. CASE /\ [Next]_vars /\ current_round' = current_round
           /\ log' = log /\ billed' = billed
           /\ ThisRound' = ThisRound /\ PriorRound' = PriorRound
           /\ pc' # "send" \/ pc = "send"
  <2>1. SameRound BY <1>1, SetsStep DEF SameRound
  <2>2. CASE Start
    <3>1. pc = "start" /\ current_round = 0 BY <1>0, <2>2 DEF Start, ControlInv
    <3>2. pc' \in {"begin", "done"} BY <2>2 DEF Start, Finish
    <3>3. QED BY <2>1, <2>2, <3>1, <3>2 DEF Start, Idle, netVars
  <2>3. CASE BeginRound
    <3>1. /\ pc = "begin" /\ pc' = "done"
          /\ UNCHANGED <<netVars, config, initial, target_union, sets, stats,
                         carry_states, drained, results>>
      BY <1>0, <1>1, <2>3, DeclineStep
    <3>2. QED BY <2>1, <3>1 DEF Idle, netVars
  <2>4. CASE Halted \/ UNCHANGED vars
    BY <2>1, <2>4 DEF Halted, vars, engineVars, netVars, Idle
  <2>5. QED BY <1>1, <2>1, <2>2, <2>3, <2>4 DEF Next
<1>2. CASE BeginRound
  <2>1. config' = config /\ initial' = initial BY <1>2 DEF BeginRound
  <2>2. QED BY <1>1, <2>1, RecordStep DEF NewRound
<1>3. QED BY <1>1, <1>2, RecordStep

\* A box that has grown still holds what it held.
LEMMA FromAppend ==
  ASSUME NEW box \in Seq(Envelope), NEW e \in Envelope, NEW w
  PROVE  From(w, Append(box, e)) <=> From(w, box) \/ e.from = w
<1>1. ASSUME NEW i \in DOMAIN Append(box, e), Append(box, e)[i].from = w
      PROVE  From(w, box) \/ e.from = w
  BY <1>1, AppendAt DEF From
<1>2. ASSUME From(w, box) PROVE From(w, Append(box, e))
  BY <1>2, AppendAt DEF From
<1>3. ASSUME e.from = w PROVE From(w, Append(box, e))
  BY <1>3, AppendAt DEF From
<1>4. QED BY <1>1, <1>2, <1>3 DEF From

\* Every sketch reaches the neighbours of its sender.
LEMMA ReachKept ==
  ASSUME IInv, LogInv, PlaceInv, TurnInv, ReachInv, [LogNext]_logVars
  PROVE  ReachInv'
<1>0. /\ TypeOK /\ cur \in Node
      /\ \A v \in Node : inboxes[v] \in Seq(Envelope) /\ drained[v] \in Seq(Envelope)
  BY DEF IInv, TypeOK, NetworkTypeOK
<1> SUFFICES ASSUME Sketching', InRound', NEW w \in Node, w \in ThisRound'.sketching,
                    NEW v \in Nbrs(w)'
    PROVE  /\ pc' \in {"send", "drain"} /\ Spoken(w)' => From(w, inboxes'[v])
           /\ pc' = "recv" => From(w, drained'[v])
  BY DEF ReachInv, From
<1>1. CASE NewRound
  <2>1. pc' = "send" /\ cur' = 0 BY <1>1 DEF NewRound
  <2>2. ~Spoken(w)' BY <2>1, <1>0, TurnTypes DEF Spoken
  <2>3. QED BY <2>1, <2>2
<1>2. CASE SameRound /\ Send
  <2>1. Sketching /\ w \in ThisRound.sketching /\ v \in Nbrs(w) /\ v \in Node
    BY <1>0, <1>2, ConfigType, NbrsType DEF SameRound, Sketching, Nbrs
  <2>2. pc = "send" /\ InRound BY <1>2 DEF Send, InRound
  <2> DEFINE msgs == SendPhase(config.protocol, Nbrs(cur), sets[cur], carry_states[cur])
  <2>3. /\ msgs \in [DOMAIN msgs -> Message]
        /\ inboxes'[v] = IF v \in DOMAIN msgs
                         THEN Append(inboxes[v], [from |-> cur, msg |-> msgs[v]])
                         ELSE inboxes[v]
    BY <1>2, <2>1, SendStep
  <2>4. CASE w < cur
    <3>1. From(w, inboxes[v]) BY <2>1, <2>2, <2>4 DEF ReachInv, Spoken
    <3>2. CASE v \in DOMAIN msgs
      <4>1. [from |-> cur, msg |-> msgs[v]] \in Envelope
        BY <1>0, <2>3, <3>2 DEF Envelope
      <4> HIDE DEF msgs
      <4>2. QED BY <1>0, <1>2, <2>1, <2>3, <3>1, <3>2, <4>1, FromAppend DEF Send
    <3>3. CASE v \notin DOMAIN msgs BY <1>2, <2>3, <3>1, <3>3 DEF Send
    <3>4. QED BY <3>2, <3>3
  <2>5. CASE w = cur
    <3>1. carry_states[cur] = NoCarry
      BY <1>0, <2>1, <2>2, <2>5, TurnTypes DEF TurnInv, Spoken
    <3>2. v \in DOMAIN msgs BY <2>1, <2>5, <3>1, SendPhaseSays DEF Sketching
    <3>3. [from |-> cur, msg |-> msgs[v]] \in Envelope
      BY <1>0, <2>3, <3>2 DEF Envelope
    <3> HIDE DEF msgs
    <3>4. QED BY <1>0, <1>2, <2>1, <2>3, <2>5, <3>2, <3>3, FromAppend DEF Send
  <2>6. CASE ~(w < cur) /\ w # cur
    <3>1. \/ pc' = "send" /\ cur' = cur + 1 /\ cur # N-1
          \/ pc' = "panic"
          \/ cur = N-1
      BY <1>2 DEF Send
    <3>2. pc' # "panic" BY DEF InRound
    <3>3. ~Spoken(w)' BY <1>0, <2>6, <3>1, <3>2, TurnTypes DEF Spoken
    <3>4. QED BY <1>2, <3>3 DEF Send, Spoken
  <2>7. QED BY <2>4, <2>5, <2>6
<1>3. CASE SameRound /\ Drain
  <2>1. /\ Sketching /\ w \in ThisRound.sketching /\ v \in Nbrs(w) /\ v \in Node
        /\ pc = "drain" /\ InRound /\ Spoken(w)
    BY <1>0, <1>3, ConfigType, NbrsType
       DEF SameRound, Sketching, Nbrs, Drain, InRound, Spoken
  <2>2. QED BY <1>3, <2>1 DEF ReachInv, Drain
<1>4. CASE SameRound /\ Recv /\ pc' # "hung"
  <2>1. /\ Sketching /\ w \in ThisRound.sketching /\ v \in Nbrs(w) /\ v \in Node
        /\ pc = "recv" /\ InRound
    BY <1>0, <1>4, ConfigType, NbrsType DEF SameRound, Sketching, Nbrs, Recv, InRound
  <2>2. From(w, drained[v]) BY <2>1 DEF ReachInv
  <2>3. PICK out : /\ drained'[cur] = Consumed(drained[cur], out)
                   /\ \A u \in Node \ {cur} : drained'[u] = drained[u]
    BY <1>4, RecvStep
  <2>4. From(w, drained'[v])
    <3>1. CASE v = cur BY <2>2, <2>3, <3>1, ConsumedSays DEF From
    <3>2. CASE v # cur BY <2>1, <2>2, <2>3, <3>2
    <3>3. QED BY <3>1, <3>2
  <2>5. pc' \in {"recv", "bill"} BY <1>4 DEF Recv
  <2>6. QED BY <2>4, <2>5
<1>5. CASE \/ SameRound /\ Recv /\ pc' = "hung"
           \/ SameRound /\ Bill
           \/ SameRound /\ Apply
  <2>1. pc' \notin {"send", "drain", "recv"}
    BY <1>5 DEF Bill, Apply, Conclude, Finish
  <2>2. QED BY <2>1
<1>6. CASE SameRound /\ Idle
  <2>1. pc' = pc /\ cur' = cur BY <1>6 DEF Idle, InRound
  <2>2. /\ Sketching /\ w \in ThisRound.sketching /\ v \in Nbrs(w) /\ InRound
        /\ Spoken(w)' <=> Spoken(w)
    BY <1>6, <2>1 DEF SameRound, Sketching, Nbrs, InRound, Spoken
  <2>3. /\ pc \in {"send", "drain"} /\ Spoken(w) => From(w, inboxes[v])
        /\ pc = "recv" => From(w, drained[v])
    BY <2>2 DEF ReachInv
  <2>4. inboxes' = inboxes /\ drained' = drained BY <1>6 DEF Idle
  <2>5. QED BY <2>1, <2>2, <2>3, <2>4
<1>7. QED BY <1>1, <1>2, <1>3, <1>4, <1>5, <1>6, StepKinds

\* All that a box holds from w is sketches of one set, or no sketch at all.
SketchesOf(inbox, w, held, sketching) ==
  \A i \in DOMAIN inbox : inbox[i].from = w =>
    /\ w \in sketching => inbox[i].msg.kind # "Elements" /\ inbox[i].msg.els = held
    /\ w \notin sketching => inbox[i].msg.kind = "Elements"

\* Then the carry for w is the difference to that set, or empty.
LEMMA NextCarryExact ==
  ASSUME NEW set \in SUBSET Element, NEW inbox \in Seq(Envelope),
         NEW out \in InboxOutcomes(set, inbox), NEW w \in Node,
         NEW held \in SUBSET Element, NEW sketching \in SUBSET Node,
         SketchesOf(inbox, w, held, sketching)
  PROVE  NextCarry(inbox, out)[w] =
           IF w \in sketching /\ From(w, inbox) THEN set \ held ELSE {}
<1> DEFINE mine == {i \in DOMAIN inbox : inbox[i].from = w}
<1>1. NextCarry(inbox, out)[w] = UNION {out[i].local_only : i \in mine}
  BY DEF NextCarry
<1>2. ASSUME NEW i \in mine
      PROVE  out[i].local_only = IF w \in sketching THEN set \ held ELSE {}
  <2>0. i \in DOMAIN inbox /\ inbox[i].from = w BY <1>2
  <2>1. /\ out[i] \in Outcomes(set, inbox[i].msg)
        /\ inbox[i] \in Envelope
    BY OutcomesPerMessage
  <2>2. inbox[i].msg \in Message BY <2>1 DEF Envelope
  <2>3. out[i].local_only = IF inbox[i].msg.kind = "Elements" THEN {}
                            ELSE set \ inbox[i].msg.els
    BY <2>1, <2>2, DecodeExact
  <2>4. /\ w \in sketching => inbox[i].msg.kind # "Elements" /\ inbox[i].msg.els = held
        /\ w \notin sketching => inbox[i].msg.kind = "Elements"
    BY <2>0 DEF SketchesOf
  <2>5. QED BY <2>3, <2>4
<1>3. From(w, inbox) <=> mine # {} BY DEF From
<1> HIDE DEF mine
<1>4. CASE w \in sketching /\ mine # {}
  <2>1. \A i \in mine : out[i].local_only = set \ held BY <1>2, <1>4
  <2>2. UNION {out[i].local_only : i \in mine} = set \ held BY <1>4, <2>1
  <2>3. QED BY <1>1, <1>3, <1>4, <2>2
<1>5. CASE w \notin sketching
  <2>1. \A i \in mine : out[i].local_only = {} BY <1>2, <1>5
  <2>2. UNION {out[i].local_only : i \in mine} = {} BY <2>1
  <2>3. QED BY <1>1, <1>5, <2>2
<1>6. CASE mine = {}
  <2>1. UNION {out[i].local_only : i \in mine} = {} BY <1>6
  <2>2. QED BY <1>1, <1>3, <1>6, <2>1
<1>7. QED BY <1>4, <1>5, <1>6

\* What the next carry of the replica that reads its mail is.
LEMMA CarryRead ==
  ASSUME IInv, LogInv, GenuineInv, ReachInv, Sketching, pc = "recv",
         NEW out \in InboxOutcomes(sets[cur], drained[cur]), NEW w \in Node
  PROVE  NextCarry(drained[cur], out)[w] =
           IF w \in Nbrs(cur) /\ w \in ThisRound.sketching
           THEN sets[cur] \ sets[w] ELSE {}
<1>0. /\ TypeOK /\ cur \in Node /\ InRound
      /\ drained[cur] \in Seq(Envelope) /\ drained[cur] \in Seq(Mail(cur))
      /\ sets[cur] \in SUBSET Element
  BY DEF IInv, TypeOK, MailInv, InRound
<1>1. Nbrs(cur) \in SUBSET Node /\ \A u \in Nbrs(cur) : cur \in Nbrs(u)
  BY <1>0, ConfigType, NbrsType
<1>2. ASSUME NEW i \in DOMAIN drained[cur], drained[cur][i].from = w
      PROVE  /\ w \in Nbrs(cur)
             /\ IF w \in ThisRound.sketching THEN /\ drained[cur][i].msg.kind # "Elements"
                                 /\ drained[cur][i].msg.els = sets[w]
                ELSE drained[cur][i].msg.kind = "Elements"
  <2>1. drained[cur][i] \in Mail(cur) BY <1>0, ElementOfSeq, LenProperties
  <2>2. Genuine(drained[cur][i]) BY <1>0 DEF GenuineInv
  <2>3. SketchKind(config.protocol) # "Elements"
    BY <1>0, ConfigType, SketchIsNoElements DEF Sketching
  <2>4. QED BY <1>2, <2>1, <2>2, <2>3 DEF Mail, Genuine
<1>3. From(w, drained[cur]) => w \in Nbrs(cur) BY <1>2 DEF From
<1>4. w \in Nbrs(cur) /\ w \in ThisRound.sketching => From(w, drained[cur])
  BY <1>0, <1>1 DEF ReachInv
<1>5. NextCarry(drained[cur], out)[w] =
        IF w \in ThisRound.sketching /\ From(w, drained[cur]) THEN sets[cur] \ sets[w] ELSE {}
  <2> DEFINE box == drained[cur]
             held == sets[w]
             sketching == ThisRound.sketching
             set == sets[cur]
  <2>1. SketchesOf(box, w, held, sketching) BY <1>2 DEF SketchesOf
  <2>2. /\ set \in SUBSET Element /\ box \in Seq(Envelope)
        /\ out \in InboxOutcomes(set, box)
        /\ held \in SUBSET Element /\ sketching \in SUBSET Node
    <3>1. current_round >= 1 BY <1>0 DEF IInv, ControlInv
    <3>2. QED BY <1>0, <3>1, RecordHere DEF TypeOK
  <2> HIDE DEF box, held, sketching, set
  <2>3. NextCarry(box, out)[w] =
          IF w \in sketching /\ From(w, box) THEN set \ held ELSE {}
    BY <2>1, <2>2, NextCarryExact
  <2>4. QED BY <2>3 DEF box, held, sketching, set
<1>6. QED BY <1>3, <1>4, <1>5

\* Every replica that has read its mail carries what its sketching
\* neighbours lack.
LEMMA ReadKept ==
  ASSUME IInv, LogInv, GenuineInv, ReachInv, ReadInv, [LogNext]_logVars
  PROVE  ReadInv'
<1>0. TypeOK /\ ResultsInv /\ cur \in Node BY DEF IInv, TypeOK
<1> SUFFICES ASSUME Sketching', NEW v \in Node, HasRead(v)', NEW w \in Node
    PROVE  results'[v].carry[w] =
             IF w \in Nbrs(v)' /\ w \in ThisRound'.sketching
             THEN sets'[v] \ sets'[w] ELSE {}
  BY DEF ReadInv
<1>1. CASE \/ NewRound
           \/ SameRound /\ Send
           \/ SameRound /\ Recv /\ pc' = "hung"
           \/ SameRound /\ Apply
  <2>1. pc' \notin {"recv", "bill", "apply"}
    BY <1>1 DEF NewRound, Send, Apply, Conclude, Finish
  <2>2. QED BY <2>1 DEF HasRead
<1>2. CASE SameRound /\ Drain
  <2>1. pc' = "recv" /\ cur' = 0 BY <1>0, <1>2 DEF Drain, ResultsInv
  <2>2. QED BY <1>0, <2>1, TurnTypes DEF HasRead
<1>3. CASE SameRound /\ Recv /\ pc' # "hung"
  <2>1. /\ Sketching /\ pc = "recv" /\ Nbrs(v)' = Nbrs(v) /\ sets' = sets
        /\ ThisRound' = ThisRound
    BY <1>3 DEF SameRound, Sketching, Nbrs, Recv
  <2>2. PICK out \in InboxOutcomes(sets[cur], drained[cur]) :
               /\ results'[cur].carry = NextCarry(drained[cur], out)
               /\ \A u \in Node \ {cur} : results'[u] = results[u]
    BY <1>3, RecvStep
  <2>3. CASE v = cur BY <2>1, <2>2, <2>3, CarryRead
  <2>4. CASE v # cur
    <3>1. \/ pc' = "recv" /\ cur' = cur + 1 /\ cur # N-1
          \/ cur = N-1
      BY <1>3 DEF Recv
    <3>2. HasRead(v) BY <1>0, <2>1, <2>4, <3>1, TurnTypes DEF HasRead
    <3>3. QED BY <2>1, <2>2, <2>4, <3>2 DEF ReadInv
  <2>5. QED BY <2>3, <2>4
<1>4. CASE SameRound /\ Bill
  <2>1. /\ Sketching /\ HasRead(v) /\ Nbrs(v)' = Nbrs(v) /\ sets' = sets
        /\ ThisRound' = ThisRound /\ results' = results
    BY <1>4 DEF SameRound, Sketching, Nbrs, Bill, HasRead
  <2>2. QED BY <2>1 DEF ReadInv
<1>5. CASE SameRound /\ Idle
  <2>1. pc' = pc /\ cur' = cur BY <1>5 DEF Idle, HasRead
  <2>2. /\ Sketching /\ HasRead(v) /\ Nbrs(v)' = Nbrs(v) /\ sets' = sets
        /\ ThisRound' = ThisRound /\ results' = results
    BY <1>5, <2>1 DEF SameRound, Sketching, Nbrs, HasRead, Idle
  <2>3. QED BY <2>2 DEF ReadInv
<1>6. QED BY <1>1, <1>2, <1>3, <1>4, <1>5, StepKinds

\* Who says what in a round is as the log has it, and is understood.
THEOREM RoundsHold == LogSpec => []RoundInv
<1>1. LogInit /\ IInv => RoundInv
  <2> SUFFICES ASSUME LogInit, IInv PROVE RoundInv OBVIOUS
  <2>1. /\ pc = "start" /\ \A v \in Node : inboxes[v] = <<>> /\ drained[v] = <<>>
        /\ \A v \in Node : carry_states[v] = NoCarry
    BY DEF LogInit, Init, NetworkInit
  <2>2. LogInv BY LogStart
  <2>3. QED BY <2>1, <2>2 DEF RoundInv, PlaceInv, TurnInv, GenuineInv, ReachInv,
                              ReadInv, HasRead, InRound
<1>2. IInv /\ IInv' /\ RoundInv /\ [LogNext]_logVars => RoundInv'
  <2> SUFFICES ASSUME IInv, IInv', RoundInv, [LogNext]_logVars PROVE RoundInv'
    OBVIOUS
  <2>1. /\ LogInv /\ PlaceInv /\ TurnInv /\ GenuineInv /\ ReachInv /\ ReadInv
        /\ [Next]_vars /\ pc' # "panic"
    BY DEF RoundInv, IInv, ControlInv, LogNext, logVars
  <2>2. LogInv' /\ PlaceInv' /\ TurnInv'
    BY <2>1, LogKept, PlaceKept, TurnKept
  <2>3. GenuineInv' /\ ReachInv' /\ ReadInv'
    BY <2>1, GenuineKept, ReachKept, ReadKept
  <2>4. QED BY <2>2, <2>3 DEF RoundInv
<1>3. QED BY <1>1, <1>2, LogIsHistory, InvariantHolds, PTL DEF LogSpec

\* No false positive of a filter hides an element, and no merged element
\* leaks into the answer.
THEOREM CarriesAreDifferences == LogSpec => []CarryIsDifference
<1>1. IInv /\ RoundInv => CarryIsDifference
  BY DEF RoundInv, ReadInv, HasRead, CarryIsDifference, ThisRound
<1>2. QED BY <1>1, RoundsHold, LogIsHistory, InvariantHolds, PTL

-----------------------------------------------------------------------------
(* Elements on their way                                                    *)

\* A box that takes a message holds its elements too.
LEMMA ReceivedAppend ==
  ASSUME NEW box \in Seq(Envelope), NEW e \in Envelope
  PROVE  Received(Append(box, e)) =
           Received(box) \cup (IF e.msg.kind = "Elements" THEN e.msg.els ELSE {})
<1> DEFINE told(f) == IF f.msg.kind = "Elements" THEN f.msg.els ELSE {}
<1>1. /\ DOMAIN Append(box, e) = (DOMAIN box) \cup {Len(box) + 1}
      /\ \A i \in DOMAIN box : Append(box, e)[i] = box[i]
      /\ Append(box, e)[Len(box) + 1] = e
  BY AppendAt
<1>2. \A b, x : x \in Received(b) <=> \E i \in DOMAIN b : x \in told(b[i])
  BY DEF Received
<1> HIDE DEF told
<1>3. ASSUME NEW x
      PROVE  x \in Received(Append(box, e)) <=> x \in Received(box) \/ x \in told(e)
  <2>1. x \in Received(Append(box, e)) <=>
          \E i \in DOMAIN Append(box, e) : x \in told(Append(box, e)[i])
    BY <1>2
  <2>2. x \in Received(box) <=> \E i \in DOMAIN box : x \in told(box[i]) BY <1>2
  <2>3. QED BY <1>1, <2>1, <2>2
<1>4. Received(Append(box, e)) = Received(box) \cup told(e) BY <1>3
<1>5. QED BY <1>4 DEF told

\* One that loses its first message holds no more than before.
LEMMA ReceivedTail ==
  ASSUME NEW box \in Seq(Envelope), box # <<>>
  PROVE  Received(Tail(box)) \subseteq Received(box)
<1> DEFINE told(f) == IF f.msg.kind = "Elements" THEN f.msg.els ELSE {}
<1>1. \A i \in DOMAIN Tail(box) : i+1 \in DOMAIN box /\ Tail(box)[i] = box[i+1]
  BY TailAt
<1>2. \A b : Received(b) = UNION {told(b[i]) : i \in DOMAIN b} BY DEF Received
<1> HIDE DEF told
<1>3. \A i \in DOMAIN Tail(box) : \E j \in DOMAIN box : told(Tail(box)[i]) = told(box[j])
  BY <1>1
<1>4. QED BY <1>2, <1>3

\* Used up messages hold nothing, and nor does an empty box.
LEMMA ReceivedSpent ==
  /\ Received(<<>>) = {}
  /\ \A inbox, out : Received(Consumed(inbox, out)) = {}
<1>1. Received(<<>>) = {} BY DEF Received
<1>2. ASSUME NEW inbox, NEW out PROVE Received(Consumed(inbox, out)) = {}
  <2>1. /\ DOMAIN Consumed(inbox, out) = DOMAIN inbox
        /\ \A i \in DOMAIN inbox :
             Consumed(inbox, out)[i].msg.kind = "Elements" =>
               Consumed(inbox, out)[i].msg.els = {}
    BY ConsumedSays
  <2>2. QED BY <2>1 DEF Received
<1>3. QED BY <1>1, <1>2

\* What has been read stays spent.
LEMMA SpentKept ==
  ASSUME IInv, LogInv, SpentInv, [LogNext]_logVars
  PROVE  SpentInv'
<1>0. TypeOK /\ ResultsInv /\ cur \in Node
      /\ \A v \in Node : drained[v] \in Seq(Envelope)
  BY DEF IInv, TypeOK
<1> SUFFICES ASSUME NEW v \in Node
             PROVE  /\ HasRead(v)' => Received(drained'[v]) = {}
                    /\ ~HasRead(v)' /\ pc' # "hung" => results'[v].next_set = {}
  BY DEF SpentInv, Received
<1>1. CASE NewRound \/ (SameRound /\ Send)
  <2>1. /\ pc \in {"begin", "send"} /\ pc' \notin {"recv", "bill", "apply"}
        /\ results' = results
    BY <1>1 DEF NewRound, Send
  <2>2. QED BY <2>1 DEF HasRead, SpentInv
<1>2. CASE SameRound /\ Drain
  <2>1. pc = "drain" /\ pc' = "recv" /\ cur' = 0 /\ results' = results
    BY <1>0, <1>2 DEF Drain, ResultsInv
  <2>2. QED BY <1>0, <2>1, TurnTypes DEF HasRead, SpentInv
<1>3. CASE SameRound /\ Recv /\ pc' = "hung"
  BY <1>3 DEF HasRead
<1>4. CASE SameRound /\ Recv /\ pc' # "hung"
  <2>1. PICK out \in InboxOutcomes(sets[cur], drained[cur]) :
           /\ drained'[cur] = Consumed(drained[cur], out)
           /\ \A u \in Node \ {cur} : results'[u] = results[u] /\ drained'[u] = drained[u]
    BY <1>4, RecvStep
  <2>2. /\ pc = "recv"
        /\ \/ pc' = "recv" /\ cur' = cur + 1 /\ cur # N-1
           \/ pc' = "bill" /\ cur = N-1
    BY <1>4 DEF Recv
  <2>3. HasRead(v)' <=> HasRead(v) \/ v = cur
    BY <1>0, <2>2, TurnTypes DEF HasRead
  <2>4. CASE v = cur BY <2>1, <2>3, <2>4, ReceivedSpent
  <2>5. CASE v # cur BY <2>1, <2>2, <2>3, <2>5 DEF SpentInv
  <2>6. QED BY <2>4, <2>5
<1>5. CASE SameRound /\ Bill
  <2>1. /\ pc = "bill" /\ pc' \in {"bill", "apply"} /\ results' = results
        /\ \/ drained' = drained
           \/ drained[cur] # <<>> /\ drained' = [drained EXCEPT ![cur] = Tail(@)]
    BY <1>5 DEF Bill
  <2>2. HasRead(v) /\ HasRead(v)' BY <2>1 DEF HasRead
  <2>3. \/ drained'[v] = drained[v]
        \/ drained[v] # <<>> /\ drained'[v] = Tail(drained[v])
    BY <1>0, <2>1 DEF TypeOK
  <2>4. Received(drained'[v]) \subseteq Received(drained[v])
    BY <1>0, <2>3, ReceivedTail
  <2>5. QED BY <2>2, <2>4 DEF SpentInv
<1>6. CASE SameRound /\ Apply
  <2>1. pc' \in {"begin", "done"} /\ results'[v].next_set = {}
    BY <1>6 DEF Apply, Conclude, Finish, NoRecvResult
  <2>2. QED BY <2>1 DEF HasRead
<1>7. CASE SameRound /\ Idle
  <2>1. (HasRead(v)' <=> HasRead(v)) /\ (pc' # "hung" => pc # "hung")
    BY <1>7 DEF Idle, HasRead
  <2>2. results' = results /\ drained' = drained BY <1>7 DEF Idle
  <2>3. QED BY <2>1, <2>2 DEF SpentInv
<1>8. QED BY <1>1, <1>2, <1>3, <1>4, <1>5, <1>6, <1>7, StepKinds

\* What is coming changes only when it is sent: what the replica whose turn
\* it is says is added, at its destinations.
LEMMA ComingStep ==
  ASSUME IInv, LogInv, PlaceInv, SpentInv, SpentInv', [LogNext]_logVars,
         NEW w \in Node
  PROVE  /\ ~Send => Coming(w)' = Coming(w)
         /\ Send => LET msgs == SendPhase(config.protocol, Nbrs(cur), sets[cur],
                                          carry_states[cur])
                    IN  Coming(w)' = Coming(w) \cup
                          (IF w \in DOMAIN msgs THEN
                             IF msgs[w].kind = "Elements" THEN msgs[w].els ELSE {}
                           ELSE {})
<1>0. /\ TypeOK /\ ResultsInv /\ cur \in Node
      /\ \A v \in Node : inboxes[v] \in Seq(Envelope) /\ drained[v] \in Seq(Envelope)
  BY DEF IInv, TypeOK, NetworkTypeOK
<1> DEFINE said == Received(inboxes[w])
           told == Received(drained[w])
<1>1. CASE NewRound
  <2>1. /\ inboxes[w] = <<>> /\ inboxes'[w] = <<>> /\ drained' = drained /\ ~Send
        /\ sets' = sets /\ results' = results
    BY <1>1 DEF NewRound, PlaceInv, Send
  <2>2. QED BY <2>1 DEF Coming, Received
<1>2. CASE SameRound /\ Send
  <2> DEFINE msgs == SendPhase(config.protocol, Nbrs(cur), sets[cur], carry_states[cur])
  <2>1. /\ msgs \in [DOMAIN msgs -> Message]
        /\ inboxes'[w] = IF w \in DOMAIN msgs
                         THEN Append(inboxes[w], [from |-> cur, msg |-> msgs[w]])
                         ELSE inboxes[w]
        /\ sets' = sets /\ results' = results /\ drained' = drained
    BY <1>2, SendStep DEF Send
  <2> HIDE DEF msgs
  <2>2. CASE w \in DOMAIN msgs
    <3>1. [from |-> cur, msg |-> msgs[w]] \in Envelope
      BY <1>0, <2>1, <2>2 DEF Envelope
    <3>2. Received(inboxes'[w]) = Received(inboxes[w]) \cup
            (IF msgs[w].kind = "Elements" THEN msgs[w].els ELSE {})
      BY <1>0, <2>1, <2>2, <3>1, ReceivedAppend
    <3>3. Coming(w)' = Coming(w) \cup
            (IF msgs[w].kind = "Elements" THEN msgs[w].els ELSE {})
      BY <2>1, <3>2 DEF Coming, Received
    <3>4. QED BY <1>2, <2>2, <3>3 DEF msgs
  <2>3. CASE w \notin DOMAIN msgs
    <3>1. Coming(w)' = Coming(w) BY <2>1, <2>3 DEF Coming, Received
    <3>2. QED BY <1>2, <2>3, <3>1 DEF msgs
  <2>4. QED BY <2>2, <2>3
<1>3. CASE SameRound /\ Drain
  <2>1. /\ drained[w] = <<>> /\ drained'[w] = inboxes[w] /\ inboxes'[w] = <<>> /\ ~Send
        /\ sets' = sets /\ results' = results
    BY <1>3 DEF Drain, DrainAll, PlaceInv, Send
  <2>2. QED BY <2>1 DEF Coming, Received
<1>4. CASE SameRound /\ Recv /\ pc' = "hung"
  <2>1. inboxes' = inboxes /\ drained' = drained /\ results' = results
    BY <1>4, HungStep
  <2>2. sets' = sets /\ ~Send BY <1>4 DEF Recv, Send
  <2>3. QED BY <2>1, <2>2 DEF Coming, Received
<1>5. CASE SameRound /\ Recv /\ pc' # "hung"
  <2>0. sets' = sets /\ inboxes' = inboxes /\ ~Send /\ pc = "recv"
    BY <1>5 DEF Recv, Send, netVars
  <2>1. PICK out \in InboxOutcomes(sets[cur], drained[cur]) :
           /\ results'[cur].next_set = sets[cur] \cup Received(drained[cur])
           /\ drained'[cur] = Consumed(drained[cur], out)
           /\ \A u \in Node \ {cur} : results'[u] = results[u] /\ drained'[u] = drained[u]
    BY <1>5, RecvStep
  <2>2. CASE w = cur
    <3>1. ~HasRead(w) BY <1>0, <2>0, <2>2, TurnTypes DEF HasRead
    <3>2. results[w].next_set = {} BY <2>0, <3>1 DEF SpentInv
    <3>3. Received(drained'[w]) = {} BY <2>1, <2>2, ReceivedSpent
    <3>4. results'[w].next_set = sets[w] \cup Received(drained[w]) BY <2>1, <2>2
    <3>5. Coming(w)' = sets[w] \cup Received(inboxes[w]) \cup {} \cup
                         (sets[w] \cup Received(drained[w]))
      BY <2>0, <3>3, <3>4 DEF Coming, Received
    <3>6. QED BY <2>0, <3>2, <3>5 DEF Coming
  <2>3. CASE w # cur BY <2>0, <2>1, <2>3 DEF Coming, Received
  <2>4. QED BY <2>2, <2>3
<1>6. CASE SameRound /\ Bill
  <2>1. /\ sets' = sets /\ inboxes' = inboxes /\ results' = results /\ ~Send
        /\ pc = "bill" /\ pc' \in {"bill", "apply"}
    BY <1>6 DEF Bill, BillMetadata, Send, netVars
  <2>2. Received(drained[w]) = {} /\ Received(drained[w])' = {}
    BY <2>1 DEF SpentInv, HasRead
  <2>3. Coming(w)' = sets'[w] \cup Received(inboxes[w])' \cup Received(drained[w])'
                       \cup results'[w].next_set
    BY DEF Coming
  <2>4. Received(inboxes[w])' = Received(inboxes[w]) BY <2>1 DEF Received
  <2>5. QED BY <2>1, <2>2, <2>3, <2>4 DEF Coming
<1>7. CASE SameRound /\ Apply
  <2>1. /\ inboxes[w] = <<>> /\ inboxes' = inboxes /\ ~Send
        /\ drained[w] = <<>> /\ drained' = drained
        /\ sets[w] \subseteq results[w].next_set
        /\ sets'[w] = results[w].next_set /\ results'[w].next_set = {}
    BY <1>0, <1>7 DEF Apply, Conclude, Send, netVars, PlaceInv, ResultsInv, ResultOK,
                      NoRecvResult
  <2>2. QED BY <2>1 DEF Coming, Received
<1>8. CASE SameRound /\ Idle
  <2>1. /\ inboxes' = inboxes /\ drained' = drained /\ results' = results /\ sets' = sets
    BY <1>8 DEF Idle
  <2>2. Coming(w)' = Coming(w) BY <2>1 DEF Coming, Received
  <2>3. ASSUME Send PROVE FALSE
    <3>1. pc = "send" /\ (pc' \in {"drain", "panic"} \/ cur' = cur + 1) BY <2>3 DEF Send
    <3>2. pc' # "panic" BY <1>0, <2>3, SendInv DEF IInv
    <3>3. cur + 1 # cur BY <1>0 DEF Node
    <3>4. QED BY <1>8, <3>1, <3>2, <3>3 DEF Idle
  <2>4. QED BY <2>2, <2>3
<1>9. QED BY <1>1, <1>2, <1>3, <1>4, <1>5, <1>6, <1>7, <1>8, StepKinds

\* Once read, what was coming is there.
LEMMA ComingApplied ==
  ASSUME IInv, PlaceInv, TurnInv, Apply, NEW w \in Node
  PROVE  /\ sets'[w] = Coming(w)
         /\ carry_states[w] = NoCarry
         /\ carry_states'[w] = results[w].carry
         /\ InRound /\ HasRead(w) /\ pc = "apply" /\ pc' \in {"begin", "done"}
<1>0. TypeOK /\ ResultsInv /\ pc = "apply" /\ pc' \in {"begin", "done"}
  BY DEF IInv, Apply, Conclude, Finish
<1>1. /\ inboxes[w] = <<>> /\ drained[w] = <<>> /\ carry_states[w] = NoCarry
      /\ InRound /\ HasRead(w)
  BY <1>0 DEF PlaceInv, TurnInv, InRound, Spoken, HasRead
<1>2. Received(inboxes[w]) = {} /\ Received(drained[w]) = {} BY <1>1, ReceivedSpent
<1>3. sets[w] \subseteq results[w].next_set BY <1>0 DEF ResultsInv, ResultOK
<1>4. sets'[w] = results[w].next_set /\ carry_states'[w] = results[w].carry
  BY DEF Apply
<1>5. QED BY <1>0, <1>1, <1>2, <1>3, <1>4 DEF Coming

\* A carry is kept or sent to where it belongs.
LEMMA CarryOrComing ==
  ASSUME IInv, LogInv, PlaceInv, SpentInv, SpentInv', [LogNext]_logVars,
         Sketching, ~Apply, NEW v \in Node, NEW w \in Node
  PROVE  Coming(w) \cup carry_states[v][w] \subseteq Coming(w)' \cup carry_states'[v][w]
<1>0. /\ TypeOK /\ cur \in Node /\ carry_states \in [Node -> Carry]
      /\ carry_states[cur] \in Carry
  BY DEF IInv, TypeOK
<1>1. CASE Send
  <2> DEFINE msgs == SendPhase(config.protocol, Nbrs(cur), sets[cur], carry_states[cur])
  <2>1. Coming(w)' = Coming(w) \cup
          (IF w \in DOMAIN msgs THEN IF msgs[w].kind = "Elements" THEN msgs[w].els ELSE {}
           ELSE {})
    BY <1>1, ComingStep
  <2>2. carry_states' = [carry_states EXCEPT ![cur] = NoCarry] BY <1>1 DEF Send
  <2>3. CASE v = cur
    <3>1. CASE carry_states[cur][w] # {}
      <4>1. carry_states[cur] # NoCarry /\ w \in Pending(carry_states[cur])
        BY <3>1 DEF NoCarry, Pending
      <4>2. w \in DOMAIN msgs /\ msgs[w].kind = "Elements" /\ msgs[w].els = carry_states[cur][w]
        BY <4>1, SendPhaseSays DEF Sketching
      <4> HIDE DEF msgs
      <4>3. QED BY <2>1, <2>3, <4>2
    <3>2. CASE carry_states[cur][w] = {} BY <2>1, <2>3, <3>2
    <3>3. QED BY <3>1, <3>2
  <2>4. CASE v # cur
    <3>1. carry_states'[v] = carry_states[v] BY <1>0, <2>2, <2>4
    <3>2. Coming(w) \subseteq Coming(w)' BY <2>1
    <3>3. QED BY <3>1, <3>2
  <2>5. QED BY <2>3, <2>4
<1>2. CASE ~Send
  <2>1. Coming(w)' = Coming(w) BY <1>2, ComingStep
  <2>2. carry_states' = carry_states
    BY <1>2, StepKinds DEF NewRound, Idle, Drain, Recv, Bill
  <2>3. QED BY <2>1, <2>2
<1>3. QED BY <1>1, <1>2

\* Between rounds there is nothing on its way.
LEMMA ComingAtRest ==
  ASSUME PlaceInv, SpentInv, pc \in {"start", "begin", "done"}, NEW w \in Node
  PROVE  Coming(w) = sets[w]
<1>1. inboxes[w] = <<>> /\ drained[w] = <<>> BY DEF PlaceInv
<1>2. Received(inboxes[w]) = {} /\ Received(drained[w]) = {} BY <1>1, ReceivedSpent
<1>3. ~HasRead(w) BY DEF HasRead
<1>4. results[w].next_set = {} BY <1>3 DEF SpentInv
<1>5. QED BY <1>2, <1>4 DEF Coming

\* The records are of the replicas.
LEMMA RecordTypes ==
  ASSUME IInv, LogInv, [LogNext]_logVars
  PROVE  /\ current_round' >= 1 => ThisRound'.sketching \subseteq Node
         /\ current_round' >= 2 => PriorRound'.sketching \subseteq Node
<1>0. /\ TypeOK /\ current_round \in Nat
      /\ \A i \in 1 .. current_round : log[i] \in RoundRecords
  BY DEF IInv, TypeOK, LogInv
<1>1. \A i \in 1 .. current_round : log[i].sketching \subseteq Node
  BY <1>0 DEF RoundRecords
<1>2. RoundRecord.sketching \subseteq Node BY DEF RoundRecord
<1>3. /\ current_round >= 1 => ThisRound.sketching \subseteq Node
      /\ current_round >= 2 => PriorRound.sketching \subseteq Node
  BY <1>0, <1>1 DEF ThisRound, PriorRound
<1>4. CASE NewRound
  <2>1. /\ current_round' = current_round + 1 /\ ThisRound' = RoundRecord
        /\ current_round >= 1 => PriorRound' = ThisRound
    BY <1>4 DEF NewRound
  <2>2. QED BY <1>0, <1>2, <1>3, <2>1
<1>5. CASE SameRound BY <1>3, <1>5 DEF SameRound
<1>6. QED BY <1>4, <1>5, StepKinds

\* A step of a round that goes on, in short.
LEMMA Going ==
  ASSUME IInv, LogInv, [LogNext]_logVars, ~NewRound, ~Apply, InRound'
  PROVE  InRound /\ SameRound
<1>1. CASE SameRound /\ Idle
  <2>1. pc' = pc BY <1>1 DEF Idle, InRound
  <2>2. QED BY <1>1, <2>1 DEF InRound
<1>2. CASE SameRound /\ ~Idle
  <2>1. pc \in {"send", "drain", "recv", "bill"}
    BY <1>2, StepKinds DEF Send, Drain, Recv, Bill
  <2>2. QED BY <1>2, <2>1 DEF InRound
<1>3. QED BY <1>1, <1>2, StepKinds

\* A step between rounds is idle, or ends a round.
LEMMA Resting ==
  ASSUME IInv, LogInv, [LogNext]_logVars, BetweenRounds'
  PROVE  /\ SameRound
         /\ \/ Apply
            \/ /\ Idle
               /\ BetweenRounds \/ (pc = "start" /\ current_round = 0)
<1>0. pc' \in {"begin", "done"} BY DEF BetweenRounds
<1>1. ~NewRound BY <1>0 DEF NewRound
<1>2. CASE SameRound /\ Apply BY <1>2
<1>3. CASE SameRound /\ Idle BY <1>0, <1>3 DEF Idle, BetweenRounds
<1>4. CASE SameRound /\ (Send \/ Drain \/ Recv \/ Bill)
  <2>1. ~Send
    <3>1. ASSUME Send PROVE pc' \in {"send", "drain", "panic"} BY <3>1 DEF Send
    <3>2. QED BY <1>0, <3>1
  <2>2. QED BY <1>0, <1>4, <2>1 DEF Drain, Recv, Bill
<1>5. QED BY <1>1, <1>2, <1>3, <1>4, StepKinds

\* Both halves of the exchange.
LEMMA OweKept ==
  ASSUME IInv, RoundInv, SpentInv, SpentInv', OweInv, TwoRoundExchange, [LogNext]_logVars
  PROVE  OweInv' /\ TwoRoundExchange'
<1>0. /\ TypeOK /\ current_round \in Nat
      /\ LogInv /\ PlaceInv /\ TurnInv /\ GenuineInv /\ ReachInv /\ ReadInv
      /\ config' = config /\ (Sketching' <=> Sketching)
      /\ \A w \in Node : Nbrs(w)' = Nbrs(w)
  BY StepKinds DEF IInv, TypeOK, RoundInv, SameRound, NewRound, Sketching, Nbrs
<1>1. ASSUME Apply, NEW u \in Node
      PROVE  /\ sets'[u] = Coming(u) /\ carry_states[u] = NoCarry
             /\ carry_states'[u] = results[u].carry /\ sets[u] \subseteq sets'[u]
             /\ InRound /\ HasRead(u) /\ ThisRound.sets = sets
  BY <1>0, <1>1, ComingApplied DEF LogInv, Coming
<1>2. ASSUME Sketching, BetweenRounds', current_round' >= 1,
             NEW w \in Node, w \in ThisRound'.sketching, NEW v \in Nbrs(w)
      PROVE  ThisRound'.sets[v] \subseteq sets'[w] \cup carry_states'[v][w]
  <2>1. ThisRound' = ThisRound /\ current_round' = current_round
    BY <1>0, <1>2, Resting DEF SameRound
  <2>2. v \in Node /\ w \in Nbrs(v) BY <1>0, <1>2, ConfigType, NbrsType
  <2>3. CASE Apply
    <3>1. results[v].carry[w] = sets[v] \ sets[w]
      BY <1>0, <1>2, <1>1, <2>1, <2>2, <2>3 DEF ReadInv
    <3>2. QED BY <1>1, <2>1, <2>2, <2>3, <3>1
  <2>4. CASE Idle /\ (BetweenRounds \/ (pc = "start" /\ current_round = 0))
    <3>1. /\ sets' = sets /\ carry_states' = carry_states /\ BetweenRounds
          /\ current_round >= 1
      BY <1>0, <1>2, <2>1, <2>4 DEF Idle
    <3>2. QED BY <1>0, <1>2, <2>1, <3>1 DEF OweInv
  <2>5. QED BY <1>0, <1>2, <2>3, <2>4, Resting
<1>3. ASSUME Sketching, BetweenRounds', current_round' >= 2,
             NEW w \in Node, w \in PriorRound'.sketching, NEW v \in Nbrs(w)
      PROVE  PriorRound'.sets[v] \subseteq sets'[w]
  <2>1. PriorRound' = PriorRound /\ current_round' = current_round
    BY <1>0, <1>3, Resting DEF SameRound
  <2>2. v \in Node BY <1>0, <1>3, ConfigType, NbrsType
  <2>3. CASE Apply
    <3>1. PriorRound.sets[v] \subseteq Coming(w) \cup carry_states[v][w]
      BY <1>0, <1>1, <1>3, <2>1, <2>3 DEF OweInv
    <3>2. carry_states[v][w] = {} BY <1>1, <2>2, <2>3 DEF NoCarry
    <3>3. QED BY <1>1, <2>1, <2>3, <3>1, <3>2
  <2>4. CASE Idle /\ (BetweenRounds \/ (pc = "start" /\ current_round = 0))
    <3>1. sets' = sets /\ BetweenRounds /\ current_round >= 2
      BY <1>0, <1>3, <2>1, <2>4 DEF Idle
    <3>2. QED BY <1>0, <1>3, <2>1, <3>1 DEF TwoRoundExchange, PriorRound
  <2>5. QED BY <1>0, <1>3, <2>3, <2>4, Resting
<1>4. ASSUME Sketching, InRound', current_round' >= 2,
             NEW w \in Node, w \in PriorRound'.sketching, NEW v \in Nbrs(w)
      PROVE  PriorRound'.sets[v] \subseteq Coming(w)' \cup carry_states'[v][w]
  <2>1. v \in Node BY <1>0, <1>4, ConfigType, NbrsType
  <2>2. ~Apply
    <3>1. ASSUME Apply PROVE pc' \in {"begin", "done"} BY <3>1 DEF Apply, Conclude, Finish
    <3>2. QED BY <1>4, <3>1 DEF InRound
  <2>3. Coming(w) \cup carry_states[v][w] \subseteq Coming(w)' \cup carry_states'[v][w]
    BY <1>0, <1>4, <2>1, <2>2, CarryOrComing
  <2>4. CASE NewRound
    <3>1. /\ current_round >= 1 /\ PriorRound' = ThisRound /\ BetweenRounds
      BY <1>0, <1>4, <2>4 DEF NewRound, BetweenRounds
    <3>2. ThisRound.sets[v] \subseteq sets[w] \cup carry_states[v][w]
      BY <1>0, <1>4, <3>1 DEF OweInv
    <3>3. sets[w] \subseteq Coming(w) BY DEF Coming
    <3>4. QED BY <2>3, <3>1, <3>2, <3>3
  <2>5. CASE ~NewRound
    <3>1. InRound /\ SameRound BY <1>0, <1>4, <2>2, <2>5, Going
    <3>2. PriorRound' = PriorRound /\ current_round' = current_round
      BY <3>1 DEF SameRound
    <3>3. PriorRound.sets[v] \subseteq Coming(w) \cup carry_states[v][w]
      BY <1>0, <1>4, <3>1, <3>2 DEF OweInv
    <3>4. QED BY <2>3, <3>2, <3>3
  <2>6. QED BY <2>4, <2>5
<1>5. OweInv'
  BY <1>0, <1>2, <1>4, RecordTypes, ConfigType, NbrsType DEF OweInv
<1>6. TwoRoundExchange'
  BY <1>0, <1>3, RecordTypes DEF TwoRoundExchange, PriorRound
<1>7. QED BY <1>5, <1>6

\* Full state transfer tells every neighbour at once.
LEMMA FloodKept ==
  ASSUME IInv, RoundInv, SpentInv, SpentInv', FloodInv, [LogNext]_logVars
  PROVE  FloodInv'
<1>0. /\ TypeOK /\ cur \in Node
      /\ LogInv /\ PlaceInv /\ TurnInv
      /\ config' = config /\ (Sketching' <=> Sketching)
      /\ \A w \in Node : Nbrs(w)' = Nbrs(w)
  BY StepKinds DEF IInv, TypeOK, RoundInv, SameRound, NewRound, Sketching, Nbrs
<1>1. ASSUME ~Sketching, InRound', NEW v \in Node, Spoken(v)', NEW w \in Nbrs(v)
      PROVE  sets'[v] \subseteq Coming(w)'
  <2>1. w \in Node BY <1>0, <1>1, ConfigType, NbrsType
  <2>2. ~NewRound
    <3>1. ASSUME NewRound PROVE pc' = "send" /\ cur' = 0 BY <3>1 DEF NewRound
    <3>2. QED BY <1>0, <1>1, <3>1, TurnTypes DEF Spoken
  <2>3. ~Apply
    <3>1. ASSUME Apply PROVE pc' \in {"begin", "done"} BY <3>1 DEF Apply, Conclude, Finish
    <3>2. QED BY <1>1, <3>1 DEF InRound
  <2>4. InRound /\ SameRound BY <1>0, <1>1, <2>2, <2>3, Going
  <2>5. sets' = sets BY <1>0, <2>3, LogStep, SetsStep DEF IInv, BeginRound
  <2>6. Coming(w) \subseteq Coming(w)' BY <1>0, <2>1, ComingStep
  <2>7. CASE Send /\ v = cur
    <3> DEFINE msgs == SendPhase(config.protocol, Nbrs(cur), sets[cur], carry_states[cur])
    <3>1. w \in DOMAIN msgs /\ msgs[w].kind = "Elements" /\ msgs[w].els = sets[cur]
      BY <1>1, <2>7, FloodSays DEF Sketching
    <3>2. Coming(w)' = Coming(w) \cup
            (IF w \in DOMAIN msgs THEN IF msgs[w].kind = "Elements" THEN msgs[w].els ELSE {}
             ELSE {})
      BY <1>0, <2>1, <2>7, ComingStep
    <3> HIDE DEF msgs
    <3>3. QED BY <2>5, <2>7, <3>1, <3>2
  <2>8. CASE ~(Send /\ v = cur)
    <3>1. Spoken(v)
      <4>1. CASE Send
        <5>1. \/ pc' = "send" /\ cur' = cur + 1 /\ cur # N-1
              \/ cur = N-1
              \/ pc' = "panic"
          BY <4>1 DEF Send
        <5>2. pc' # "panic" BY <1>1 DEF InRound
        <5>3. QED BY <1>0, <1>1, <2>8, <4>1, <5>1, <5>2, TurnTypes DEF Spoken
      <4>2. CASE pc # "send" BY <4>2 DEF Spoken
      <4>3. CASE SameRound /\ Idle
        <5>1. pc' = pc /\ cur' = cur BY <2>4, <4>3 DEF Idle, InRound
        <5>2. QED BY <1>1, <5>1 DEF Spoken
      <4>4. QED BY <1>0, <2>2, <4>1, <4>2, <4>3, StepKinds DEF Drain, Recv, Bill, Apply
    <3>2. QED BY <1>1, <2>4, <2>5, <2>6, <3>1 DEF FloodInv
  <2>9. QED BY <2>7, <2>8
<1>2. ASSUME ~Sketching, BetweenRounds', current_round' >= 1,
             NEW v \in Node, NEW w \in Nbrs(v)
      PROVE  ThisRound'.sets[v] \subseteq sets'[w]
  <2>1. w \in Node BY <1>0, <1>2, ConfigType, NbrsType
  <2>2. ThisRound' = ThisRound /\ current_round' = current_round
    BY <1>0, <1>2, Resting DEF SameRound
  <2>3. CASE Apply
    <3>1. /\ sets'[w] = Coming(w) /\ InRound /\ pc = "apply"
      BY <1>0, <2>1, <2>3, ComingApplied
    <3>2. ThisRound.sets = sets /\ Spoken(v) BY <1>0, <3>1 DEF LogInv, Spoken
    <3>3. QED BY <1>2, <2>2, <3>1, <3>2 DEF FloodInv
  <2>4. CASE Idle /\ (BetweenRounds \/ (pc = "start" /\ current_round = 0))
    <3>1. sets' = sets /\ BetweenRounds /\ current_round >= 1
      BY <1>0, <1>2, <2>2, <2>4 DEF Idle
    <3>2. QED BY <1>2, <2>2, <3>1 DEF FloodInv
  <2>5. QED BY <1>0, <1>2, <2>3, <2>4, Resting
<1>3. QED BY <1>0, <1>1, <1>2 DEF FloodInv

\* What is carried is news to whom it is carried.
LEMMA NewsKept ==
  ASSUME IInv, RoundInv, SpentInv, SpentInv', NewsInv, [LogNext]_logVars
  PROVE  NewsInv'
<1>0. /\ TypeOK /\ current_round \in Nat
      /\ LogInv /\ PlaceInv /\ TurnInv /\ ReadInv
      /\ config' = config /\ (Sketching' <=> Sketching)
      /\ \A w \in Node : Nbrs(w)' = Nbrs(w)
  BY StepKinds DEF IInv, TypeOK, RoundInv, SameRound, NewRound, Sketching, Nbrs
<1>1. ASSUME Apply, NEW u \in Node
      PROVE  /\ sets'[u] = Coming(u) /\ carry_states[u] = NoCarry
             /\ carry_states'[u] = results[u].carry
             /\ InRound /\ HasRead(u) /\ ThisRound.sets = sets
  BY <1>0, <1>1, ComingApplied DEF LogInv
<1>2. ASSUME Sketching, BetweenRounds', current_round' >= 1,
             NEW v \in Node, carry_states'[v] # NoCarry
      PROVE  \E w \in Node : ~(carry_states'[v][w] \subseteq ThisRound'.sets[w])
  <2>1. ThisRound' = ThisRound /\ current_round' = current_round
    BY <1>0, <1>2, Resting DEF SameRound
  <2>2. CASE Apply
    <3>1. results[v].carry \in Carry BY <1>0 DEF TypeOK, RecvResult
    <3>2. PICK w \in Node : results[v].carry[w] # {}
      BY <1>1, <1>2, <2>2, <3>1 DEF Carry, NoCarry
    <3>3. results[v].carry[w] = sets[v] \ sets[w]
      BY <1>0, <1>1, <1>2, <2>2, <3>2 DEF ReadInv
    <3>4. ~(results[v].carry[w] \subseteq sets[w]) BY <3>2, <3>3
    <3>5. QED BY <1>1, <2>1, <2>2, <3>4
  <2>3. CASE Idle /\ (BetweenRounds \/ (pc = "start" /\ current_round = 0))
    <3>1. carry_states' = carry_states /\ BetweenRounds /\ current_round >= 1
      BY <1>0, <1>2, <2>1, <2>3 DEF Idle
    <3>2. QED BY <1>2, <2>1, <3>1 DEF NewsInv
  <2>4. QED BY <1>0, <1>2, <2>2, <2>3, Resting
<1>3. ASSUME Sketching, InRound', current_round' >= 2,
             NEW v \in Node, v \notin ThisRound'.sketching
      PROVE  \E w \in Node : ~(Coming(w)' \cup carry_states'[v][w] \subseteq PriorRound'.sets[w])
  <2>1. ~Apply
    <3>1. ASSUME Apply PROVE pc' \in {"begin", "done"} BY <3>1 DEF Apply, Conclude, Finish
    <3>2. QED BY <1>3, <3>1 DEF InRound
  <2>2. \A w \in Node :
          Coming(w) \cup carry_states[v][w] \subseteq Coming(w)' \cup carry_states'[v][w]
    BY <1>0, <1>3, <2>1, CarryOrComing
  <2>3. CASE NewRound
    <3>1. /\ current_round >= 1 /\ PriorRound' = ThisRound /\ BetweenRounds
          /\ ThisRound' = RoundRecord
      BY <1>0, <1>3, <2>3 DEF NewRound, BetweenRounds
    <3>2. carry_states[v] # NoCarry BY <1>3, <3>1 DEF RoundRecord
    <3>3. PICK w \in Node : ~(carry_states[v][w] \subseteq ThisRound.sets[w])
      BY <1>3, <3>1, <3>2 DEF NewsInv
    <3>4. QED BY <2>2, <3>1, <3>3
  <2>4. CASE ~NewRound
    <3>1. InRound /\ SameRound BY <1>0, <1>3, <2>1, <2>4, Going
    <3>2. /\ PriorRound' = PriorRound /\ ThisRound' = ThisRound
          /\ current_round' = current_round
      BY <3>1 DEF SameRound
    <3>3. PICK w \in Node : ~(Coming(w) \cup carry_states[v][w] \subseteq PriorRound.sets[w])
      BY <1>0, <1>3, <3>1, <3>2 DEF NewsInv
    <3>4. QED BY <2>2, <3>2, <3>3
  <2>5. QED BY <2>3, <2>4
<1>4. ASSUME Sketching, BetweenRounds', current_round' >= 2
      PROVE  ThisRound'.sketching = Node \/ sets' # PriorRound'.sets
  <2>1. /\ ThisRound' = ThisRound /\ PriorRound' = PriorRound
        /\ current_round' = current_round
    BY <1>0, <1>4, Resting DEF SameRound
  <2>2. CASE Apply
    <3>1. CASE ThisRound.sketching = Node BY <2>1, <3>1
    <3>2. CASE ThisRound.sketching # Node
      <4>1. PICK v \in Node : v \notin ThisRound.sketching
        BY <1>0, <1>4, <2>1, <3>2, RecordTypes
      <4>2. InRound BY <1>0, <1>1, <2>2, <4>1
      <4>3. PICK w \in Node :
              ~(Coming(w) \cup carry_states[v][w] \subseteq PriorRound.sets[w])
        BY <1>4, <2>1, <4>1, <4>2 DEF NewsInv
      <4>4. sets'[w] = Coming(w) /\ carry_states[v][w] = {}
        BY <1>1, <2>2, <4>1, <4>3 DEF NoCarry
      <4>5. QED BY <2>1, <4>3, <4>4
    <3>3. QED BY <3>1, <3>2
  <2>3. CASE Idle /\ (BetweenRounds \/ (pc = "start" /\ current_round = 0))
    <3>1. sets' = sets /\ BetweenRounds /\ current_round >= 2
      BY <1>0, <1>4, <2>1, <2>3 DEF Idle
    <3>2. QED BY <1>4, <2>1, <3>1 DEF NewsInv
  <2>4. QED BY <1>0, <1>4, <2>2, <2>3, Resting
<1>5. ASSUME Sketching, current_round' >= 3
      PROVE  \/ PriorRound'.sketching = Node
             \/ ThisRound'.sets # log'[current_round' - 2].sets
  <2>1. CASE NewRound
    <3>1. /\ current_round >= 2 /\ BetweenRounds /\ ThisRound'.sets = sets
          /\ PriorRound' = ThisRound /\ log'[current_round' - 2] = PriorRound
      BY <1>0, <1>5, <2>1 DEF NewRound, BetweenRounds, RoundRecord
    <3>2. QED BY <1>5, <3>1 DEF NewsInv
  <2>2. CASE SameRound BY <1>5, <2>2 DEF SameRound, NewsInv
  <2>3. QED BY <1>0, <2>1, <2>2, StepKinds
<1>6. QED BY <1>0, <1>2, <1>3, <1>4, <1>5 DEF NewsInv

\* In the first round everyone sketches, and so nothing is said in it that
\* could be new to anyone in the second.
LEMMA FirstKept ==
  ASSUME IInv, RoundInv, SpentInv, SpentInv', FirstInv, [LogNext]_logVars
  PROVE  FirstInv'
<1>0. /\ TypeOK /\ cur \in Node /\ current_round \in Nat
      /\ sets \in [Node -> SUBSET Element] /\ initial \in [Node -> SUBSET Element]
      /\ LogInv /\ PlaceInv /\ TurnInv
      /\ config' = config /\ (Sketching' <=> Sketching) /\ initial' = initial
  BY StepKinds DEF IInv, TypeOK, RoundInv, SameRound, NewRound, Sketching
<1>1. current_round = current_round' \/ current_round' = current_round + 1
  BY <1>0, StepKinds DEF NewRound, SameRound
<1>2. ASSUME Sketching, current_round' = 1
      PROVE  ThisRound'.sketching = Node
  <2>1. CASE NewRound
    <3>1. current_round = 0 /\ ThisRound' = RoundRecord
      BY <1>0, <1>2, <2>1 DEF NewRound
    <3>2. QED BY <1>0, <3>1 DEF TurnInv, RoundRecord
  <2>2. CASE SameRound BY <1>2, <2>2 DEF SameRound, FirstInv
  <2>3. QED BY <1>0, <2>1, <2>2, StepKinds
<1>3. ASSUME Sketching, current_round' <= 1, NEW v \in Node
      PROVE  Coming(v)' = initial'[v]
  <2>1. Coming(v) = initial[v] BY <1>0, <1>1, <1>3 DEF FirstInv
  <2>2. CASE Send
    <3> DEFINE msgs == SendPhase(config.protocol, Nbrs(cur), sets[cur], carry_states[cur])
    <3>1. /\ current_round = 1 /\ InRound /\ pc = "send"
      BY <1>0, <1>1, <1>3, <2>2 DEF Send, IInv, ControlInv, InRound
    <3>2. cur \in ThisRound.sketching BY <1>0, <1>3, <3>1 DEF FirstInv
    <3>3. carry_states[cur] = NoCarry
      BY <1>0, <3>1, <3>2, TurnTypes DEF TurnInv, Spoken
    <3>4. \A w \in DOMAIN msgs : msgs[w].kind # "Elements"
      <4>1. config.protocol \in ProtocolKind \ Flooding
        BY <1>0, <1>3, ConfigType DEF Sketching
      <4>2. SketchKind(config.protocol) # "Elements" BY <4>1, SketchIsNoElements
      <4>3. QED BY <3>3, <4>1, <4>2, SendPhaseSays
    <3>5. Coming(v)' = Coming(v) \cup
            (IF v \in DOMAIN msgs THEN IF msgs[v].kind = "Elements" THEN msgs[v].els ELSE {}
             ELSE {})
      BY <1>0, <2>2, ComingStep
    <3> HIDE DEF msgs
    <3>6. QED BY <1>0, <2>1, <3>4, <3>5
  <2>3. CASE ~Send BY <1>0, <2>1, <2>3, ComingStep
  <2>4. QED BY <2>2, <2>3
<1>4. ASSUME Sketching, current_round' = 2, ~BetweenRounds'
      PROVE  sets' = initial'
  <2>1. CASE NewRound
    <3>1. current_round = 1 /\ pc = "begin" /\ sets' = sets
      BY <1>0, <1>4, <2>1 DEF NewRound
    <3>2. \A v \in Node : sets[v] = initial[v]
      BY <1>0, <1>4, <3>1, ComingAtRest DEF FirstInv
    <3>3. sets = initial BY <1>0, <3>2
    <3>4. QED BY <1>0, <3>1, <3>3
  <2>2. CASE SameRound /\ ~Apply
    <3>1. current_round = 2 /\ sets' = sets
      BY <1>4, <2>2, LogStep, SetsStep DEF SameRound, IInv, BeginRound
    <3>2. ~BetweenRounds
      <4>1. CASE Idle
        BY <1>4, <4>1 DEF Idle, BetweenRounds
      <4>2. CASE ~Idle
        <5>1. ~NewRound BY <1>4, <3>1 DEF NewRound
        <5>2. pc \notin {"begin", "done"}
          BY <1>0, <2>2, <4>2, <5>1, StepKinds DEF Send, Drain, Recv, Bill
        <5>3. QED BY <5>2 DEF BetweenRounds
      <4>3. QED BY <4>1, <4>2
    <3>3. QED BY <1>0, <1>4, <3>1, <3>2 DEF FirstInv
  <2>3. CASE Apply
    BY <1>4, <2>3 DEF Apply, Conclude, Finish, BetweenRounds
  <2>4. QED BY <1>0, <2>1, <2>2, <2>3, StepKinds
<1>5. QED BY <1>0, <1>2, <1>3, <1>4 DEF FirstInv

\* Sets of equal size never catch each other in extend_until: a slice holds
\* at least the cost of a coded symbol in bits.
LEMMA ThresholdOfEquals ==
  ASSUME NEW n \in Nat \ {0}
  PROVE  Threshold(n, n) # 0
<1> DEFINE m == SliceBits(n)
           o == OverheadBits
<1>1. o \in Nat \ {0} BY FiltersAssumption
<1>2. m \in Nat /\ m >= o
  <2>1. CeilDiv(n, 2) \in Nat BY CeilDivType
  <2>2. QED BY <1>1, <2>1 DEF SliceBits
<1>3. n * m \in Nat /\ n * m > (m - 1) * n /\ m - 1 \in Nat
  BY <1>1, <1>2
<1> HIDE DEF m, o
<1>4. CeilDiv(n * m, n) > m - 1 /\ CeilDiv(n * m, n) \in Nat
  BY <1>3, CeilDivAbove, CeilDivType
<1>5. CeilDiv(n * m, n) >= o BY <1>1, <1>2, <1>4
<1>6. CeilDiv(n * m, n) \div o # 0 BY <1>1, <1>4, <1>5
<1>7. Threshold(n, n) = CeilDiv(n * m, n) \div o BY DEF Threshold, AtLeastOne, m, o
<1>8. QED BY <1>6, <1>7

\* Nobody is caught in the first two rounds.
LEMMA HangKept ==
  ASSUME IInv, RoundInv, SpentInv, FirstInv, NoEarlyHang, [LogNext]_logVars
  PROVE  NoEarlyHang'
<1>0. /\ TypeOK /\ SetsInv /\ cur \in Node /\ current_round \in Nat
      /\ drained[cur] \in Seq(Envelope)
      /\ sets \in [Node -> SUBSET Element] /\ initial \in [Node -> SUBSET Element]
      /\ LogInv /\ PlaceInv /\ GenuineInv
  BY DEF IInv, TypeOK, RoundInv
<1>1. CASE SameRound /\ Recv /\ pc' = "hung" /\ current_round < 3
  <2>1. PICK i \in DOMAIN drained[cur] : ExtendsForever(sets[cur], drained[cur][i].msg)
    BY <1>1, HungStep
  <2> DEFINE e == drained[cur][i]
  <2>2. /\ e \in Envelope /\ e.msg.kind = "RatelessBloomRiblt" /\ Genuine(e)
        /\ Threshold(Cardinality(sets[cur]), Cardinality(e.msg.els)) = 0
    BY <1>0, <2>1, ElementOfSeq, LenProperties DEF ExtendsForever, GenuineInv
  <2>3. /\ Sketching /\ e.from \in Node /\ e.msg.els = sets[e.from]
    BY <2>2 DEF Genuine, Envelope
  <2>4. pc = "recv" /\ current_round >= 1
    BY <1>0, <1>1 DEF Recv, IInv, ControlInv, InRound
  <2>5. sets = initial
    <3>1. CASE current_round = 1
      <4>1. \A v \in Node : sets[v] = initial[v]
        <5> SUFFICES ASSUME NEW v \in Node PROVE sets[v] = initial[v] OBVIOUS
        <5>1. sets[v] \subseteq Coming(v) BY DEF Coming
        <5>2. Coming(v) = initial[v] BY <2>3, <3>1 DEF FirstInv
        <5>3. initial[v] \subseteq sets[v] BY <1>0 DEF SetsInv, NothingLostOrInvented
        <5>4. QED BY <5>1, <5>2, <5>3
      <4>2. QED BY <1>0, <4>1
    <3>2. CASE current_round = 2
      BY <2>3, <2>4, <3>2 DEF FirstInv, BetweenRounds
    <3>3. QED BY <1>0, <1>1, <2>4, <3>1, <3>2
  <2>6. /\ Cardinality(sets[cur]) = config.set_size
        /\ Cardinality(e.msg.els) = config.set_size
        /\ config.set_size \in Nat \ {0}
    BY <1>0, <2>3, <2>5, EngineAssumption DEF SetsInv, TypeOK
  <2>7. QED BY <2>2, <2>6, ThresholdOfEquals
<1>2. CASE SameRound /\ Recv /\ pc' = "hung" /\ ~(current_round < 3)
  BY <1>0, <1>2 DEF SameRound, NoEarlyHang
<1>3. CASE SameRound /\ Idle
  BY <1>3 DEF SameRound, Idle, NoEarlyHang
<1>4. CASE \/ NewRound
           \/ SameRound /\ (Send \/ Drain \/ Bill \/ Apply)
           \/ SameRound /\ Recv /\ pc' # "hung"
  <2>1. pc' # "hung"
    BY <1>4 DEF NewRound, Send, Drain, Bill, Apply, Conclude, Finish
  <2>2. QED BY <2>1 DEF NoEarlyHang
<1>5. QED BY <1>0, <1>1, <1>2, <1>3, <1>4, StepKinds

\* Nothing is heard from further away than the rounds have brought it, and
\* under full state transfer all of that is heard.
LEMMA HopKept ==
  ASSUME IInv, RoundInv, SpentInv, FloodInv, HopInv, [LogNext]_logVars
  PROVE  HopInv'
<1>0. /\ TypeOK /\ SetsInv /\ ResultsInv /\ ControlInv /\ current_round \in Nat
      /\ LogInv /\ PlaceInv /\ TurnInv
      /\ config' = config /\ (Sketching' <=> Sketching) /\ initial' = initial
  BY StepKinds DEF IInv, TypeOK, RoundInv, SameRound, NewRound, Sketching
<1> DEFINE known(v, r) == KnownAfter(v, r)
<1>1. \A v, r : known(v, r)' = known(v, r) BY <1>0 DEF KnownAfter
<1>2. CASE ~Apply
  <2>1. sets' = sets /\ RoundsDone' = RoundsDone
    <3>1. CASE NewRound
      <4>1. /\ sets' = sets /\ pc = "begin" /\ pc' = "send"
            /\ current_round' = current_round + 1
        BY <3>1 DEF NewRound
      <4>2. RoundsDone' = current_round' - 1 BY <4>1 DEF RoundsDone, InRound
      <4>3. RoundsDone = current_round BY <4>1 DEF RoundsDone, InRound
      <4>4. QED BY <1>0, <4>1, <4>2, <4>3
    <3>2. CASE SameRound /\ Idle
      <4>1. (InRound \/ pc = "hung")' <=> (InRound \/ pc = "hung")
        BY <3>2 DEF Idle, InRound
      <4>2. QED BY <3>2, <4>1 DEF RoundsDone, SameRound, Idle
    <3>3. CASE SameRound /\ (Send \/ Drain \/ Recv \/ Bill)
      <4>1. InRound /\ sets' = sets /\ current_round' = current_round
        BY <3>3 DEF Send, Drain, Recv, Bill, InRound, SameRound
      <4>2. pc' \in {"send", "drain", "recv", "bill", "apply", "hung", "panic"}
        BY <3>3 DEF Send, Drain, Recv, Bill
      <4>3. pc' # "panic"
        <5>1. CASE Send BY <1>0, <5>1, SendInv DEF IInv
        <5>2. CASE Drain \/ Recv \/ Bill BY <5>2 DEF Drain, Recv, Bill
        <5>3. QED BY <3>3, <5>1, <5>2
      <4>4. (InRound \/ pc = "hung")' BY <4>2, <4>3 DEF InRound
      <4>5. QED BY <4>1, <4>4 DEF RoundsDone
    <3>4. QED BY <1>0, <1>2, <3>1, <3>2, <3>3, StepKinds
  <2>2. \A v \in Node : known(v, RoundsDone)' = known(v, RoundsDone)
    BY <1>0, <2>1 DEF KnownAfter
  <2>3. QED BY <1>0, <2>1, <2>2 DEF HopInv
<1>3. CASE Apply
  <2>0. PICK r \in Nat : /\ current_round = r + 1 /\ RoundsDone = r /\ RoundsDone' = r + 1
    <3>1. /\ pc = "apply" /\ pc' \in {"begin", "done"} /\ current_round' = current_round
          /\ current_round >= 1
      BY <1>0, <1>3 DEF Apply, Conclude, Finish, ControlInv, InRound
    <3>2. RoundsDone = current_round - 1 /\ RoundsDone' = current_round
      BY <3>1 DEF RoundsDone, InRound
    <3>3. current_round - 1 \in Nat /\ (current_round - 1) + 1 = current_round
      BY <1>0, <3>1
    <3>4. QED BY <3>2, <3>3
  <2>1. ASSUME NEW v \in Node
        PROVE  /\ sets'[v] = Coming(v) /\ InRound /\ pc = "apply" /\ ResultOK(v)
               /\ sets'[v] = results[v].next_set
    BY <1>0, <1>3, <2>1, ComingApplied DEF ResultsInv, Apply
  <2>2. ASSUME NEW v \in Node, NEW x
        PROVE  x \in known(v, r+1) <=>
                 x \in known(v, r) \/ \E w \in Nbrs(v) : x \in known(w, r)
    <3> DEFINE near(u, q) == Within(config.topology, u, q)
    <3>1. \A u, q : x \in known(u, q) <=> \E z \in near(u, q) : x \in initial[z]
      BY DEF KnownAfter
    <3>2. \A z : z \in near(v, r+1) <=>
            z \in near(v, r) \/ \E w \in Nbrs(v) : z \in near(w, r)
      BY WithinFirstHop DEF Nbrs
    <3> HIDE DEF near, known
    <3>3. x \in known(v, r+1) <=> \E z \in near(v, r+1) : x \in initial[z] BY <3>1
    <3>4. x \in known(v, r) <=> \E z \in near(v, r) : x \in initial[z] BY <3>1
    <3>5. \A w : x \in known(w, r) <=> \E z \in near(w, r) : x \in initial[z] BY <3>1
    <3>6. QED BY <3>2, <3>3, <3>4, <3>5
  <2>3. \A v \in Node : /\ sets[v] \subseteq known(v, r)
                        /\ Sketching \/ sets[v] = known(v, r)
    BY <2>0 DEF HopInv
  <2> HIDE DEF known
  <2>4. ASSUME NEW v \in Node
        PROVE  sets'[v] \subseteq known(v, r+1)
    <3>1. \A w \in Nbrs(v) : w \in Node BY <1>0, ConfigType, NbrsType
    <3>2. sets'[v] \subseteq sets[v] \cup UNION {sets[w] : w \in Nbrs(v)}
      BY <2>1 DEF ResultOK
    <3>3. QED BY <2>2, <2>3, <3>1, <3>2
  <2>5. ASSUME NEW v \in Node, ~Sketching
        PROVE  known(v, r+1) \subseteq sets'[v]
    <3>1. \A w \in Nbrs(v) : w \in Node /\ v \in Nbrs(w) BY <1>0, ConfigType, NbrsType
    <3>2. \A w \in Nbrs(v) : sets[w] \subseteq Coming(v)
      BY <2>1, <2>5, <3>1 DEF FloodInv, Spoken
    <3>3. sets[v] \subseteq Coming(v) BY DEF Coming
    <3>4. QED BY <2>1, <2>2, <2>3, <2>5, <3>1, <3>2, <3>3
  <2>6. \A v \in Node : known(v, RoundsDone)' = known(v, r+1)
    BY <1>0, <2>0 DEF known, KnownAfter
  <2>7. \A v \in Node : KnownAfter(v, RoundsDone)' = known(v, r+1) BY <2>6 DEF known
  <2>8. QED BY <1>0, <2>4, <2>5, <2>7 DEF HopInv
<1>4. QED BY <1>2, <1>3

\* What is said in a round arrives, and what is carried is new.
THEOREM ExchangeHolds == LogSpec => []ExchangeInv
<1>1. LogInit /\ IInv => ExchangeInv
  <2> SUFFICES ASSUME LogInit, IInv PROVE ExchangeInv OBVIOUS
  <2>1. /\ pc = "start" /\ current_round = 0 /\ sets = initial
        /\ \A v \in Node : /\ inboxes[v] = <<>> /\ drained[v] = <<>>
                          /\ results[v].next_set = {}
    BY DEF LogInit, Init, NetworkInit, NoRecvResult
  <2>2. SpentInv BY <2>1 DEF SpentInv, HasRead
  <2>3. OweInv /\ FloodInv /\ NewsInv /\ TwoRoundExchange /\ NoEarlyHang
    BY <2>1 DEF OweInv, FloodInv, NewsInv, TwoRoundExchange, NoEarlyHang, BetweenRounds,
                InRound
  <2>4. \A v \in Node : Coming(v) = initial[v] BY <2>1, ReceivedSpent DEF Coming
  <2>5. FirstInv BY <2>1, <2>4 DEF FirstInv
  <2>6. HopInv
    <3>1. RoundsDone = 0 BY <2>1 DEF RoundsDone, InRound
    <3>2. \A v : Within(config.topology, v, 0) = {v} BY WithinStep
    <3>3. QED BY <2>1, <3>1, <3>2 DEF HopInv, KnownAfter
  <2>7. QED BY <2>2, <2>3, <2>5, <2>6 DEF ExchangeInv
<1>2. IInv /\ RoundInv /\ ExchangeInv /\ [LogNext]_logVars => ExchangeInv'
  <2> SUFFICES ASSUME IInv, RoundInv, ExchangeInv, [LogNext]_logVars
               PROVE  ExchangeInv'
    OBVIOUS
  <2>1. /\ LogInv /\ SpentInv /\ OweInv /\ FloodInv /\ NewsInv /\ FirstInv /\ HopInv
        /\ TwoRoundExchange /\ NoEarlyHang
    BY DEF RoundInv, ExchangeInv
  <2>2. SpentInv' BY <2>1, SpentKept
  <2>3. OweInv' /\ TwoRoundExchange' BY <2>1, <2>2, OweKept
  <2>4. FloodInv' /\ NewsInv' /\ FirstInv' BY <2>1, <2>2, FloodKept, NewsKept, FirstKept
  <2>5. NoEarlyHang' /\ HopInv' BY <2>1, HangKept, HopKept
  <2>6. QED BY <2>2, <2>3, <2>4, <2>5 DEF ExchangeInv
<1>3. QED BY <1>1, <1>2, RoundsHold, LogIsHistory, InvariantHolds, PTL DEF LogSpec

\* A sketch is answered with all that its receiver held, one round later.
THEOREM ExchangeTakesTwoRounds == LogSpec => []TwoRoundExchange
<1>1. ExchangeInv => TwoRoundExchange BY DEF ExchangeInv
<1>2. QED BY <1>1, ExchangeHolds, PTL

\* Replicas of equal size are not caught in extend_until.
THEOREM HangsAreLate == LogSpec => []NoEarlyHang
<1>1. ExchangeInv => NoEarlyHang BY DEF ExchangeInv
<1>2. QED BY <1>1, ExchangeHolds, PTL

\* Sets of neighbours that hold the same are sets of replicas that hold the
\* same, which is everything.
LEMMA NeighborsAgree ==
  ASSUME TypeOK, SetsInv, \A v \in Node : \A w \in Nbrs(v) : sets[v] \subseteq sets[w]
  PROVE  HasConverged(sets)
<1>1. \A v \in Node : \A w \in Neighbors(config.topology, v) :
        /\ w \in Node /\ v \in Nbrs(w) /\ w \in Nbrs(v)
  BY ConfigType, NbrsType DEF Nbrs
<1>2. \A v \in Node : \A w \in Neighbors(config.topology, v) : sets[v] = sets[w]
  BY <1>1
<1>3. \A v \in Node : sets[v] = sets[0] BY <1>2, ConfigType, Connected
<1>4. \A v, w \in Node : initial[v] \subseteq sets[w]
  BY <1>3, NodeFinite DEF SetsInv, NothingLostOrInvented
<1>5. \A w \in Node : target_union \subseteq sets[w] BY <1>4 DEF SetsInv
<1>6. QED BY <1>5 DEF SetsInv, NothingLostOrInvented, HasConverged

\* Of any three rounds one makes a set grow.
THEOREM NewsIsNotStarved == LogSpec => []NoThreeIdleRounds
<1>1. IInv /\ RoundInv /\ ExchangeInv => NoThreeIdleRounds
  <2> SUFFICES ASSUME IInv, RoundInv, ExchangeInv, BetweenRounds, current_round >= 3,
                      sets = log[current_round - 2].sets
               PROVE  FALSE
    BY DEF NoThreeIdleRounds
  <2>1. /\ TypeOK /\ SetsInv /\ current_round \in Nat
        /\ sets \in [Node -> SUBSET Element]
        /\ LogInv /\ FloodInv /\ NewsInv /\ TwoRoundExchange
    BY DEF IInv, TypeOK, RoundInv, ExchangeInv
  <2>2. /\ current_round - 2 \in 1 .. current_round
        /\ current_round - 1 \in 2 .. current_round /\ current_round \in 2 .. current_round
        /\ (current_round - 1) - 1 = current_round - 2
        /\ current_round - 1 \in 1 .. current_round
    BY <2>1
  <2>3. \A v \in Node : /\ sets[v] \subseteq PriorRound.sets[v]
                        /\ PriorRound.sets[v] \subseteq ThisRound.sets[v]
                        /\ ThisRound.sets[v] \subseteq sets[v]
    BY <2>1, <2>2 DEF LogInv, PriorRound, ThisRound
  <2>4. ThisRound \in RoundRecords /\ PriorRound \in RoundRecords
    BY <2>1, <2>2 DEF LogInv, ThisRound, PriorRound
  <2>5. ThisRound.sets = sets /\ PriorRound.sets = sets
    <3>1. /\ ThisRound.sets \in [Node -> SUBSET Element]
          /\ PriorRound.sets \in [Node -> SUBSET Element]
      BY <2>4 DEF RoundRecords
    <3>2. \A v \in Node : ThisRound.sets[v] = sets[v] /\ PriorRound.sets[v] = sets[v]
      BY <2>3
    <3>3. QED BY <2>1, <3>1, <3>2
  <2>6. ~HasConverged(sets) BY <2>1, <2>2, <2>5 DEF LogInv, ThisRound
  <2>7. \A v \in Node : \A w \in Nbrs(v) : sets[v] \subseteq sets[w]
    <3>1. CASE Sketching
      <4>1. PriorRound.sketching = Node BY <2>1, <2>5, <3>1 DEF NewsInv
      <4>2. \A w \in Node : \A v \in Nbrs(w) : sets[v] \subseteq sets[w]
        BY <2>1, <2>5, <3>1, <4>1 DEF TwoRoundExchange, PriorRound
      <4>3. QED BY <2>1, <4>2, ConfigType, NbrsType
    <3>2. CASE ~Sketching BY <2>1, <2>5, <3>2 DEF FloodInv
    <3>3. QED BY <3>1, <3>2
  <2>8. QED BY <2>1, <2>6, <2>7, NeighborsAgree
<1>2. QED BY <1>1, RoundsHold, ExchangeHolds, LogIsHistory, InvariantHolds, PTL

\* News travels one hop a round, and that fast under full state transfer.
THEOREM NewsTakesHops == LogSpec => []SpeedOfNews
<1>1. ExchangeInv => SpeedOfNews
  <2> SUFFICES ASSUME ExchangeInv, BetweenRounds PROVE SpeedOfNews BY DEF SpeedOfNews
  <2>1. RoundsDone = current_round BY DEF RoundsDone, BetweenRounds, InRound
  <2>2. \A v : KnownAfter(v, RoundsDone) = Known(v) BY <2>1 DEF KnownAfter, Known
  <2>3. QED BY <2>2 DEF ExchangeInv, HopInv, SpeedOfNews
<1>2. QED BY <1>1, ExchangeHolds, PTL

-----------------------------------------------------------------------------
(* What a sketch costs                                                      *)

\* A sketch that has been used is not free: its decoder consumed a coded
\* symbol, or it has a filter beside it.
LEMMA UsedUpCosts ==
  ASSUME NEW set \in SUBSET Element, NEW m \in Message, m.kind # "Elements",
         NEW o \in Outcomes(set, m)
  PROVE  MetadataBytes(UsedUp(m, o)) > 0
<1> DEFINE u == UsedUp(m, o)
<1>0. /\ m.kind \in MsgKind /\ m.els \in SUBSET Element
      /\ Cardinality(m.els) \in Nat /\ o.consumed \in Nat /\ o.slices \in Nat
  BY DecodeExact, ElementsFinite DEF Message, Outcome
<1>1. /\ u.kind = m.kind /\ u.els = m.els
      /\ u.consumed = o.consumed /\ u.slices = o.slices
  BY DEF UsedUp
<1> HIDE DEF u
<1>2. u.consumed * 8 \in Nat BY <1>0, <1>1
<1>3. CASE m.kind = "Riblt"
  <2> DEFINE diff == SymDiff(set, m.els)
  <2>1. o.consumed \in Consumable(diff)
    BY <1>3 DEF Outcomes, DecodeRiblt
  <2>2. Cardinality(diff) \in Nat BY <1>0, ElementsFinite DEF SymDiff
  <2> HIDE DEF diff
  <2>3. o.consumed >= 1
    BY <2>1, <2>2, SlackAssumption DEF Consumable, AtLeastOne
  <2>4. MetadataBytes(u) = u.consumed * 8
    BY <1>1, <1>3 DEF MetadataBytes, RibltWireBytes
  <2>5. QED BY <1>0, <1>1, <2>3, <2>4 DEF u
<1>4. CASE m.kind = "BloomRiblt"
  <2>1. AtLeastOne(Cardinality(m.els)) * 958506 \in Nat BY <1>0 DEF AtLeastOne
  <2>2. BloomBits(Cardinality(m.els)) \in Nat BY <2>1, CeilDivType DEF BloomBits
  <2>3. CeilDiv(BloomBits(Cardinality(m.els)), 8) \in Nat BY <2>2, CeilDivType
  <2>4. MetadataBytes(u) =
          CeilDiv(BloomBits(Cardinality(m.els)), 8) + 16 + u.consumed * 8
    BY <1>1, <1>4 DEF MetadataBytes, BloomWireBytes, RibltWireBytes
  <2>5. QED BY <1>2, <2>3, <2>4 DEF u
<1>5. CASE m.kind = "RatelessBloomRiblt"
  <2>1. o.slices # 0
    <3>1. PICK f \in FilterOutcomes(set, m.els) : o.slices = f.slices
      BY <1>5 DEF Outcomes, DecodeRatelessBloomRiblt
    <3>2. PICK P \in Positives(set, m.els) :
             f \in [positives : {P},
                    slices : SliceCounts(Cardinality(set \ P),
                               Threshold(Cardinality(set), Cardinality(m.els)))]
      BY <3>1 DEF FilterOutcomes
    <3>3. Cardinality(set \ P) \in Nat BY ElementsFinite
    <3>4. f.slices \in 1 .. Cardinality(set \ P) + 1 BY <3>2 DEF SliceCounts
    <3>5. QED BY <3>1, <3>3, <3>4
  <2> DEFINE slice == CeilDiv(SliceBits(Cardinality(m.els)), 8)
  <2>2. SliceBits(Cardinality(m.els)) \in Nat
    BY <1>0, CeilDivType, FiltersAssumption DEF SliceBits
  <2>3. slice \in Nat BY <2>2, CeilDivType
  <2>4. MetadataBytes(u) = u.slices * slice + 8 + u.consumed * 8
    BY <1>1, <1>5, <2>1 DEF MetadataBytes, RatelessBloomWireBytes, RibltWireBytes
  <2> HIDE DEF slice
  <2>5. u.slices * slice \in Nat BY <1>0, <1>1, <2>3, ProductType
  <2>6. QED BY <1>2, <2>4, <2>5 DEF u
<1>6. QED BY <1>0, <1>3, <1>4, <1>5 DEF MsgKind

\* Sketches that have been read keep their cost until they are billed.
LEMMA CostKept ==
  ASSUME IInv, LogInv, CostInv, [LogNext]_logVars
  PROVE  CostInv'
<1>0. /\ TypeOK /\ ResultsInv /\ cur \in Node
      /\ \A v \in Node : drained[v] \in Seq(Envelope)
  BY DEF IInv, TypeOK
<1> SUFFICES ASSUME NEW v \in Node, HasRead(v)', NEW i \in DOMAIN drained'[v],
                    drained'[v][i].msg.kind # "Elements"
             PROVE  MetadataBytes(drained'[v][i].msg) > 0
  BY DEF CostInv, MetadataBytes, RibltWireBytes, BloomWireBytes, RatelessBloomWireBytes
<1>1. CASE \/ NewRound
           \/ SameRound /\ Send
           \/ SameRound /\ Apply
           \/ SameRound /\ Recv /\ pc' = "hung"
  BY <1>1 DEF NewRound, Send, Apply, Conclude, Finish, HasRead
<1>2. CASE SameRound /\ Drain
  <2>1. pc' = "recv" /\ cur' = 0 BY <1>0, <1>2 DEF Drain, ResultsInv
  <2>2. QED BY <1>0, <2>1, TurnTypes DEF HasRead
<1>3. CASE SameRound /\ Recv /\ pc' # "hung"
  <2>1. PICK out \in InboxOutcomes(sets[cur], drained[cur]) :
           /\ drained'[cur] = Consumed(drained[cur], out)
           /\ \A u \in Node \ {cur} : drained'[u] = drained[u]
    BY <1>3, RecvStep
  <2>2. /\ pc = "recv"
        /\ \/ pc' = "recv" /\ cur' = cur + 1 /\ cur # N-1
           \/ pc' = "bill" /\ cur = N-1
    BY <1>3 DEF Recv
  <2>3. HasRead(v)' <=> HasRead(v) \/ v = cur
    BY <1>0, <2>2, TurnTypes DEF HasRead
  <2>4. CASE v = cur
    <3>1. /\ i \in DOMAIN drained[cur]
          /\ drained'[cur][i].msg = UsedUp(drained[cur][i].msg, out[i])
          /\ drained[cur][i].msg.kind # "Elements"
      BY <2>1, <2>4, ConsumedSays
    <3>2. /\ out[i] \in Outcomes(sets[cur], drained[cur][i].msg)
          /\ drained[cur][i].msg \in Message /\ sets[cur] \in SUBSET Element
      BY <1>0, <3>1, OutcomesPerMessage DEF TypeOK, Envelope
    <3>3. QED BY <2>4, <3>1, <3>2, UsedUpCosts
  <2>5. CASE v # cur BY <2>1, <2>3, <2>5 DEF CostInv
  <2>6. QED BY <2>4, <2>5
<1>4. CASE SameRound /\ Bill
  <2>1. /\ pc = "bill" /\ pc' \in {"bill", "apply"}
        /\ \/ drained' = drained
           \/ drained[cur] # <<>> /\ drained' = [drained EXCEPT ![cur] = Tail(@)]
    BY <1>4 DEF Bill
  <2>2. HasRead(v) BY <2>1 DEF HasRead
  <2>3. \/ drained'[v] = drained[v]
        \/ drained[v] # <<>> /\ drained'[v] = Tail(drained[v])
    BY <1>0, <2>1 DEF TypeOK
  <2>4. CASE drained'[v] = drained[v] BY <2>2, <2>4 DEF CostInv
  <2>5. CASE drained[v] # <<>> /\ drained'[v] = Tail(drained[v])
    <3>1. i+1 \in DOMAIN drained[v] /\ drained'[v][i] = drained[v][i+1]
      BY <1>0, <2>5, TailAt
    <3>2. QED BY <2>2, <3>1 DEF CostInv
  <2>6. QED BY <2>3, <2>4, <2>5
<1>5. CASE SameRound /\ Idle
  <2>1. HasRead(v) /\ drained' = drained BY <1>5 DEF Idle, HasRead
  <2>2. QED BY <2>1 DEF CostInv
<1>6. QED BY <1>1, <1>2, <1>3, <1>4, <1>5, StepKinds

-----------------------------------------------------------------------------
(* Who pays for what                                                        *)

\* A sketch carries no payload, an answer never an empty one.
LEMMA PayloadOfRole ==
  ASSUME NEW protocol \in ProtocolKind \ Flooding, NEW nbrs \in SUBSET Node,
         NEW set \in SUBSET Element, NEW c \in Carry
  PROVE  LET msgs == SendPhase(protocol, nbrs, set, c) IN
         /\ c = NoCarry => StateBytes(msgs) = 0
         /\ c # NoCarry => StateBytes(msgs) > 0
<1> DEFINE msgs == SendPhase(protocol, nbrs, set, c)
<1>1. IsFiniteSet(Payload(msgs)) /\ Cardinality(Payload(msgs)) \in Nat
  <2>1. DOMAIN msgs \in SUBSET Node BY SendPhaseType
  <2>2. IsFiniteSet(DOMAIN msgs) /\ IsFiniteSet(Element)
    BY <2>1, NodeFinite, FS_Subset, FiltersAssumption
  <2>3. IsFiniteSet((DOMAIN msgs) \X Element) BY <2>2, FS_Product
  <2>4. Payload(msgs) \subseteq (DOMAIN msgs) \X Element BY DEF Payload
  <2>5. QED BY <2>3, <2>4, FS_Subset, FS_CardinalityType
<1>2. WireSize \in Nat /\ WireSize > 0 BY NetworkAssumption DEF WireSize
<1>3. ASSUME c = NoCarry PROVE StateBytes(msgs) = 0
  <2>1. /\ DOMAIN msgs = nbrs
        /\ \A w \in nbrs : msgs[w].kind = SketchKind(protocol)
    BY <1>3, SendPhaseSays
  <2>2. SketchKind(protocol) # "Elements" BY SketchIsNoElements
  <2>3. Payload(msgs) = {} BY <2>1, <2>2 DEF Payload
  <2>4. QED BY <1>2, <2>3, FS_EmptySet DEF StateBytes
<1>4. ASSUME c # NoCarry PROVE StateBytes(msgs) > 0
  <2>1. /\ DOMAIN msgs = Pending(c)
        /\ \A w \in Pending(c) : msgs[w].kind = "Elements" /\ msgs[w].els = c[w]
    BY <1>4, SendPhaseSays
  <2>2. PICK w \in Node : c[w] # {} BY <1>4 DEF Carry, NoCarry
  <2>3. PICK x \in Element : x \in c[w] BY <2>2 DEF Carry
  <2> HIDE DEF msgs
  <2>4. <<w, x>> \in Payload(msgs) BY <2>1, <2>2, <2>3 DEF Payload, Pending
  <2>5. Cardinality(Payload(msgs)) # 0 BY <1>1, <2>4, FS_EmptySet
  <2> DEFINE k == Cardinality(Payload(msgs))
  <2>6. k \in Nat /\ k # 0 BY <1>1, <2>5
  <2> HIDE DEF k
  <2>7. WireSize * k > 0 BY <1>2, <2>6
  <2>8. QED BY <2>7 DEF StateBytes, k
<1>5. QED BY <1>3, <1>4

\* Whose turn has come, before and after one.
LEMMA SpokenStep ==
  ASSUME TypeOK, Send, pc' # "panic", NEW w \in Node
  PROVE  /\ Spoken(w)' <=> Spoken(w) \/ w = cur
         /\ ~Spoken(cur)
<1>1. \/ pc' = "send" /\ cur' = cur + 1 /\ cur # N-1
      \/ pc' = "drain" /\ cur = N-1
  BY DEF Send
<1>2. pc = "send" BY DEF Send
<1>3. QED BY <1>1, <1>2, TurnTypes DEF Spoken

\* Billing a message.
LEMMA BillStep ==
  ASSUME IInv, GenuineInv, Bill
  PROVE  \/ /\ drained' = drained /\ UNCHANGED netVars
         \/ \E env \in Envelope :
              /\ drained[cur] # <<>> /\ env = Head(drained[cur]) /\ Genuine(env)
              /\ drained'[cur] = Tail(drained[cur])
              /\ \A v \in Node \ {cur} : drained'[v] = drained[v]
              /\ env.from \in Node /\ MetadataBytes(env.msg) \in Nat
              /\ BillMetadata(env)
<1>0. TypeOK /\ cur \in Node /\ drained[cur] \in Seq(Envelope)
  BY DEF IInv, TypeOK
<1>1. CASE drained[cur] = <<>> BY <1>1 DEF Bill
<1>2. CASE drained[cur] # <<>>
  <2> DEFINE env == Head(drained[cur])
  <2>1. 1 \in DOMAIN drained[cur] /\ env = drained[cur][1] BY <1>0, <1>2, TailAt
  <2>2. env \in Envelope BY <1>0, <2>1
  <2>3. Genuine(env) BY <1>0, <2>1 DEF GenuineInv
  <2>4. env.from \in Node /\ env.msg \in Message BY <2>2 DEF Envelope
  <2>5. MetadataBytes(env.msg) \in Nat BY <2>4, MetadataBytesType
  <2>6. /\ BillMetadata(env) /\ drained' = [drained EXCEPT ![cur] = Tail(@)]
    BY <1>2 DEF Bill
  <2> HIDE DEF env
  <2>7. /\ drained'[cur] = Tail(drained[cur])
        /\ \A v \in Node \ {cur} : drained'[v] = drained[v]
    BY <1>0, <2>6 DEF TypeOK
  <2>8. QED BY <1>2, <2>2, <2>3, <2>4, <2>5, <2>6, <2>7 DEF env
<1>3. QED BY <1>1, <1>2

\* The role that RoleInv gives to w.
RoleOf(w) ==
  /\ per_node_state[w] > 0 <=> Spoken(w) /\ w \notin ThisRound.sketching
  /\ w \notin ThisRound.sketching => per_node_metadata[w] = 0
  /\ pc \in {"send", "drain", "recv"} => per_node_metadata[w] = 0
  /\ pc \in {"bill", "apply"} /\ w \in ThisRound.sketching =>
       \A v \in Nbrs(w) : From(w, drained[v]) \/ per_node_metadata[w] > 0

\* Speaking settles one's role.
LEMMA RoleSpoken ==
  ASSUME IInv, LogInv, TurnInv, RoleInv, SameRound, Send, Sketching, InRound',
         NEW w \in Node
  PROVE  RoleOf(w)'
<1> DEFINE msgs == SendPhase(config.protocol, Nbrs(cur), sets[cur], carry_states[cur])
<1>0. /\ TypeOK /\ cur \in Node /\ pc = "send" /\ InRound /\ pc' # "panic"
      /\ config.protocol \in ProtocolKind \ Flooding
      /\ Nbrs(cur) \in SUBSET Node /\ sets[cur] \in SUBSET Element
      /\ carry_states[cur] \in Carry
      /\ per_node_state \in [Node -> Nat] /\ per_node_state[cur] \in Nat
  BY ConfigType, NbrsType DEF IInv, TypeOK, NetworkTypeOK, Send, InRound, Sketching
<1>1. RoleOf(w) /\ RoleOf(cur) BY <1>0 DEF RoleInv, RoleOf
<1>2. (Spoken(w)' <=> Spoken(w) \/ w = cur) /\ ~Spoken(cur)
  BY <1>0, SpokenStep
<1>3. pc' \in {"send", "drain"} BY <1>0 DEF Send
<1>4. /\ per_node_state' = [per_node_state EXCEPT ![cur] = @ + StateBytes(msgs)]
      /\ per_node_metadata' = per_node_metadata
  BY SendStep DEF Deliver
<1>5. carry_states[cur] = NoCarry <=> cur \in ThisRound.sketching
  BY <1>0, <1>2 DEF TurnInv
<1>6. StateBytes(msgs) \in Nat
  <2>1. DOMAIN msgs \in SUBSET Node /\ msgs \in [DOMAIN msgs -> Message]
    BY <1>0, SendStep
  <2> HIDE DEF msgs
  <2>2. QED BY <2>1, StateBytesType
<1>7. StateBytes(msgs) > 0 <=> cur \notin ThisRound.sketching
  <2>1. carry_states[cur] = NoCarry => StateBytes(msgs) = 0
    BY <1>0, PayloadOfRole
  <2>2. carry_states[cur] # NoCarry => StateBytes(msgs) > 0
    BY <1>0, PayloadOfRole
  <2> HIDE DEF msgs
  <2>3. QED BY <1>5, <2>1, <2>2
<1> HIDE DEF msgs
<1>8. per_node_state[cur] = 0
  BY <1>0, <1>1, <1>2 DEF RoleOf
<1>9. w \notin ThisRound.sketching \/ w \in ThisRound.sketching OBVIOUS
<1>10. per_node_state'[w] > 0 <=> Spoken(w)' /\ w \notin ThisRound'.sketching
  <2>1. CASE w = cur
    <3>1. per_node_state'[w] = StateBytes(msgs) BY <1>0, <1>4, <1>6, <1>8, <2>1
    <3>2. QED BY <1>2, <1>7, <2>1, <3>1 DEF SameRound
  <2>2. CASE w # cur
    <3>1. per_node_state'[w] = per_node_state[w] BY <1>0, <1>4, <2>2
    <3>2. QED BY <1>1, <1>2, <2>2, <3>1 DEF SameRound, RoleOf
  <2>3. QED BY <2>1, <2>2
<1>11. QED BY <1>0, <1>1, <1>3, <1>4, <1>10 DEF RoleOf, SameRound

\* Billing keeps the roles apart: an answer costs nothing any more, and a
\* sketch something.
LEMMA RoleBilled ==
  ASSUME IInv, GenuineInv, RoleInv, CostInv, SameRound, Bill, Sketching, NEW w \in Node
  PROVE  RoleOf(w)'
<1>0. /\ TypeOK /\ cur \in Node /\ pc = "bill" /\ InRound /\ pc' \in {"bill", "apply"}
      /\ \A v \in Node : drained[v] \in Seq(Envelope) /\ HasRead(v)
      /\ per_node_metadata \in [Node -> Nat] /\ per_node_metadata[w] \in Nat
      /\ Spoken(w) /\ Spoken(w)'
  BY DEF IInv, TypeOK, NetworkTypeOK, Bill, InRound, HasRead, Spoken
<1>1. RoleOf(w) BY <1>0 DEF RoleInv, RoleOf
<1>2. Nbrs(w)' = Nbrs(w) /\ Nbrs(w) \in SUBSET Node
  BY <1>0, ConfigType, NbrsType DEF SameRound, Nbrs
<1>3. CASE drained' = drained /\ UNCHANGED netVars
  BY <1>0, <1>1, <1>2, <1>3 DEF RoleOf, SameRound, netVars, From
<1>4. ASSUME NEW env \in Envelope, drained[cur] # <<>>, env = Head(drained[cur]),
             Genuine(env), drained'[cur] = Tail(drained[cur]),
             \A v \in Node \ {cur} : drained'[v] = drained[v],
             env.from \in Node, MetadataBytes(env.msg) \in Nat, BillMetadata(env)
      PROVE  RoleOf(w)'
  <2> DEFINE cost == MetadataBytes(env.msg)
  <2>1. /\ per_node_state' = per_node_state
        /\ per_node_metadata' = [per_node_metadata EXCEPT ![env.from] = @ + cost]
        /\ cost \in Nat
    BY <1>4 DEF BillMetadata
  <2>2. 1 \in DOMAIN drained[cur] /\ env = drained[cur][1] BY <1>0, <1>4, TailAt
  <2>3. /\ env.from \in ThisRound.sketching => cost > 0
        /\ env.from \notin ThisRound.sketching => cost = 0
    <3>1. CASE env.from \in ThisRound.sketching
      <4>1. env.msg.kind # "Elements"
        BY <1>0, <1>4, <3>1, ConfigType, SketchIsNoElements DEF Genuine, Sketching
      <4>2. QED BY <1>0, <2>2, <3>1, <4>1 DEF CostInv
    <3>2. CASE env.from \notin ThisRound.sketching
      <4>1. env.msg.kind = "Elements" BY <1>4, <3>2 DEF Genuine
      <4>2. QED BY <3>2, <4>1 DEF MetadataBytes
    <3>3. QED BY <3>1, <3>2
  <2> HIDE DEF cost
  <2>4. /\ w = env.from => per_node_metadata'[w] = per_node_metadata[w] + cost
        /\ w # env.from => per_node_metadata'[w] = per_node_metadata[w]
    BY <1>0, <2>1
  <2>5. /\ per_node_metadata[w] > 0 => per_node_metadata'[w] > 0
        /\ w = env.from /\ w \in ThisRound.sketching => per_node_metadata'[w] > 0
        /\ w \notin ThisRound.sketching => per_node_metadata'[w] = per_node_metadata[w]
    BY <1>0, <2>1, <2>3, <2>4
  <2>6. ASSUME w \in ThisRound.sketching, NEW v \in Nbrs(w), From(w, drained[v])
        PROVE  From(w, drained'[v]) \/ per_node_metadata'[w] > 0
    <3>1. v \in Node BY <1>2
    <3>2. CASE v # cur BY <1>4, <2>6, <3>1, <3>2
    <3>3. CASE v = cur
      <4>1. PICK i \in DOMAIN drained[cur] : drained[cur][i].from = w
        BY <2>6, <3>3 DEF From
      <4>2. CASE i = 1 BY <2>2, <2>5, <2>6, <4>1, <4>2
      <4>3. CASE i # 1
        <5>1. i-1 \in DOMAIN Tail(drained[cur])
              /\ Tail(drained[cur])[i-1] = drained[cur][i]
          BY <1>0, <1>4, <4>3, TailAt
        <5>2. QED BY <1>4, <3>3, <4>1, <5>1 DEF From
      <4>4. QED BY <4>2, <4>3
    <3>4. QED BY <3>2, <3>3
  <2>7. w \in ThisRound.sketching => \A v \in Nbrs(w) :
          From(w, drained'[v]) \/ per_node_metadata'[w] > 0
    BY <1>0, <1>1, <2>5, <2>6 DEF RoleOf
  <2>8. QED BY <1>0, <1>1, <1>2, <2>1, <2>5, <2>7 DEF RoleOf, SameRound, From
<1>5. QED BY <1>3, <1>4, BillStep

\* Everyone keeps to its role.
LEMMA RoleKept ==
  ASSUME IInv, RoundInv, RoleInv, CostInv, [LogNext]_logVars
  PROVE  RoleInv'
<1>0. /\ TypeOK /\ cur \in Node /\ LogInv /\ TurnInv /\ GenuineInv /\ ReachInv
  BY DEF IInv, TypeOK, RoundInv
<1> SUFFICES ASSUME Sketching', InRound', NEW w \in Node PROVE RoleOf(w)'
  BY DEF RoleInv, RoleOf
<1>1. CASE NewRound
  <2>1. /\ pc' = "send" /\ cur' = 0
        /\ per_node_state'[w] = 0 /\ per_node_metadata'[w] = 0
    <3>1. current_round' # current_round BY <1>0, <1>1 DEF NewRound, TypeOK
    <3>2. Reset BY <1>1, <3>1 DEF NewRound, BeginRound
    <3>3. QED BY <1>1, <3>2 DEF NewRound, Reset
  <2>2. ~Spoken(w)' BY <1>0, <2>1, TurnTypes DEF Spoken
  <2>3. QED BY <2>1, <2>2 DEF RoleOf
<1>2. CASE SameRound /\ Send
  BY <1>0, <1>2, RoleSpoken DEF SameRound, Sketching
<1>3. CASE SameRound /\ Bill
  BY <1>0, <1>3, RoleBilled DEF SameRound, Sketching
<1>4. CASE \/ SameRound /\ Apply
           \/ SameRound /\ Recv /\ pc' = "hung"
  BY <1>4 DEF Apply, Conclude, Finish, InRound
<1>5. CASE SameRound /\ Drain
  <2>1. RoleOf(w) BY <1>5 DEF RoleInv, RoleOf, SameRound, Sketching, Drain, InRound
  <2>2. /\ pc = "drain" /\ pc' = "recv" /\ per_node_state' = per_node_state
        /\ per_node_metadata' = per_node_metadata
    BY <1>5 DEF Drain, DrainAll
  <2>3. QED BY <1>5, <2>1, <2>2 DEF RoleOf, SameRound, Spoken
<1>6. CASE SameRound /\ Recv /\ pc' # "hung"
  <2>1. /\ RoleOf(w) /\ pc = "recv" /\ pc' \in {"recv", "bill"} /\ InRound /\ Sketching
        /\ UNCHANGED netVars
    BY <1>6 DEF RoleInv, RoleOf, SameRound, Sketching, Recv, InRound
  <2>2. Nbrs(w)' = Nbrs(w) /\ Nbrs(w) \in SUBSET Node
    BY <1>0, <1>6, ConfigType, NbrsType DEF SameRound, Nbrs
  <2>3. ASSUME w \in ThisRound.sketching, NEW v \in Nbrs(w)
        PROVE  From(w, drained'[v])
    <3>1. v \in Node /\ From(w, drained[v]) BY <1>0, <2>1, <2>2, <2>3 DEF ReachInv
    <3>2. PICK out : /\ drained'[cur] = Consumed(drained[cur], out)
                     /\ \A u \in Node \ {cur} : drained'[u] = drained[u]
      BY <1>6, RecvStep
    <3>3. CASE v = cur BY <3>1, <3>2, <3>3, ConsumedSays DEF From
    <3>4. CASE v # cur BY <3>1, <3>2, <3>4
    <3>5. QED BY <3>3, <3>4
  <2>4. Spoken(w)' /\ Spoken(w) BY <2>1 DEF Spoken
  <2>5. per_node_state' = per_node_state /\ per_node_metadata' = per_node_metadata
    BY <2>1 DEF netVars
  <2>6. QED BY <1>6, <2>1, <2>2, <2>3, <2>4, <2>5 DEF RoleOf, SameRound, From
<1>7. CASE SameRound /\ Idle
  <2>1. /\ RoleOf(w) /\ pc' = pc /\ cur' = cur /\ drained' = drained
        /\ per_node_state' = per_node_state /\ per_node_metadata' = per_node_metadata
    BY <1>7 DEF RoleInv, RoleOf, SameRound, Sketching, Idle, InRound
  <2>2. QED BY <1>7, <2>1 DEF RoleOf, SameRound, Spoken, Nbrs, From
<1>8. QED BY <1>0, <1>1, <1>2, <1>3, <1>4, <1>5, <1>6, <1>7, StepKinds

-----------------------------------------------------------------------------
(* The network's totals and the replicas' counters                          *)

\* What changes of the network's counters in a step, outside of the loops
\* that bill.
LEMMA QuietCounters ==
  ASSUME \/ Idle
         \/ Drain
         \/ Recv
         \/ Apply
  PROVE  /\ bytes_state' = bytes_state /\ bytes_metadata' = bytes_metadata
         /\ per_node_state' = per_node_state /\ per_node_metadata' = per_node_metadata
BY DEF Idle, Drain, DrainAll, Recv, Apply, netVars

\* A round starts from zero.
LEMMA FreshCounters ==
  ASSUME IInv, NewRound
  PROVE  /\ bytes_state' = 0 /\ bytes_metadata' = 0
         /\ per_node_state' = [v \in Node |-> 0]
         /\ per_node_metadata' = [v \in Node |-> 0]
<1>1. current_round' # current_round BY DEF NewRound, IInv, TypeOK
<1>2. Reset BY <1>1 DEF NewRound, BeginRound
<1>3. QED BY <1>2 DEF Reset

\* The network's two ways of counting stay in step.
LEMMA LedgerKept ==
  ASSUME IInv, LogInv, GenuineInv, LedgerInv, [LogNext]_logVars
  PROVE  LedgerInv'
<1>0. /\ TypeOK /\ cur \in Node /\ IsFiniteSet(Node)
      /\ bytes_state \in Nat /\ bytes_metadata \in Nat
      /\ per_node_state \in [Node -> Nat] /\ per_node_metadata \in [Node -> Nat]
  BY NodeFinite DEF IInv, TypeOK, NetworkTypeOK
<1>1. CASE NewRound
  <2>1. SumFunction([v \in Node |-> 0]) = 0 BY <1>0, FunctionOfZeros
  <2>2. QED BY <1>1, <2>1, FreshCounters DEF LedgerInv
<1>2. CASE SameRound /\ Send
  <2> DEFINE msgs == SendPhase(config.protocol, Nbrs(cur), sets[cur], carry_states[cur])
             n == StateBytes(msgs)
  <2>1. Deliver(cur, msgs) /\ n \in Nat
    <3>1. /\ Deliver(cur, msgs) /\ Nbrs(cur) \in SUBSET Node
          /\ DOMAIN msgs \in SUBSET Nbrs(cur) /\ msgs \in [DOMAIN msgs -> Message]
      BY <1>2, SendStep
    <3> HIDE DEF msgs
    <3>2. QED BY <3>1, StateBytesType
  <2>2. /\ bytes_state' = bytes_state + n
        /\ per_node_state' = [per_node_state EXCEPT ![cur] = @ + n]
        /\ bytes_metadata' = bytes_metadata /\ per_node_metadata' = per_node_metadata
    BY <2>1 DEF Deliver
  <2> HIDE DEF n
  <2>3. /\ AddsAt(Node, per_node_state, per_node_state', cur, n)
        /\ Counts(Node, per_node_state) /\ Counts(Node, per_node_state')
    BY <1>0, <2>1, <2>2 DEF AddsAt, Counts
  <2>4. SumFunction(per_node_state') = SumFunction(per_node_state) + n
    BY <1>0, <2>1, <2>3, SumOfUpdate, CountsAreSummands
  <2>5. QED BY <2>2, <2>4 DEF LedgerInv
<1>3. CASE SameRound /\ Bill
  <2>1. CASE UNCHANGED netVars BY <2>1 DEF LedgerInv, netVars
  <2>2. ASSUME NEW env \in Envelope, env.from \in Node,
               MetadataBytes(env.msg) \in Nat, BillMetadata(env)
        PROVE  LedgerInv'
    <3> DEFINE n == MetadataBytes(env.msg)
               w == env.from
    <3>1. /\ bytes_metadata' = bytes_metadata + n
          /\ per_node_metadata' = [per_node_metadata EXCEPT ![w] = @ + n]
          /\ bytes_state' = bytes_state /\ per_node_state' = per_node_state
          /\ n \in Nat /\ w \in Node
      BY <2>2 DEF BillMetadata
    <3> HIDE DEF n, w
    <3>2. /\ AddsAt(Node, per_node_metadata, per_node_metadata', w, n)
          /\ Counts(Node, per_node_metadata) /\ Counts(Node, per_node_metadata')
      BY <1>0, <3>1 DEF AddsAt, Counts
    <3>3. SumFunction(per_node_metadata') = SumFunction(per_node_metadata) + n
      BY <1>0, <3>1, <3>2, SumOfUpdate, CountsAreSummands
    <3>4. QED BY <3>1, <3>3 DEF LedgerInv
  <2>3. QED BY <1>3, <2>1, <2>2, BillStep
<1>4. CASE \/ SameRound /\ Idle
           \/ SameRound /\ Drain
           \/ SameRound /\ Recv
           \/ SameRound /\ Apply
  BY <1>4, QuietCounters DEF LedgerInv
<1>5. QED BY <1>1, <1>2, <1>3, <1>4, StepKinds

\* The replicas' counters, as functions of the replicas.
LEMMA CounterTypes ==
  ASSUME TypeOK
  PROVE  /\ Counts(Node, [v \in Node |-> stats[v]["state_bytes_sent"]])
         /\ Counts(Node, [v \in Node |-> stats[v]["metadata_bytes_sent"]])
         /\ Counts(Node, [v \in Node |-> stats[v]["elements_added"]])
         /\ Total(stats, "state_bytes_sent") \in Nat
         /\ Total(stats, "metadata_bytes_sent") \in Nat
         /\ Total(stats, "elements_added") \in Nat
<1>1. /\ Counts(Node, [v \in Node |-> stats[v]["state_bytes_sent"]])
      /\ Counts(Node, [v \in Node |-> stats[v]["metadata_bytes_sent"]])
      /\ Counts(Node, [v \in Node |-> stats[v]["elements_added"]])
  BY DEF TypeOK, Stats, Counts
<1>2. QED BY <1>1, NodeFinite, FunctionSumType DEF Total

\* The copies on their way are finitely many.
LEMMA CopiesFinite ==
  ASSUME NEW C \in SUBSET (Node \X Element)
  PROVE  IsFiniteSet(C) /\ Cardinality(C) \in Nat
<1>1. IsFiniteSet(Node \X Element)
  BY NodeFinite, FiltersAssumption, FS_Product
<1>2. QED BY <1>1, FS_Subset, FS_CardinalityType

\* The apply loop moves the round's bytes to the replicas' counters, and
\* counts the copies that have arrived.
LEMMA AppliedCounters ==
  ASSUME IInv, PlaceInv, TurnInv, LedgerInv, Apply
  PROVE  /\ Total(stats, "state_bytes_sent")' =
              Total(stats, "state_bytes_sent") + bytes_state
         /\ Total(stats, "metadata_bytes_sent")' =
              Total(stats, "metadata_bytes_sent") + bytes_metadata
         /\ Total(stats, "elements_added")' =
              Total(stats, "elements_added") + Cardinality(Copies)
<1> DEFINE S == [v \in Node |-> stats[v]["state_bytes_sent"]]
           M == [v \in Node |-> stats[v]["metadata_bytes_sent"]]
           E == [v \in Node |-> stats[v]["elements_added"]]
           new == [v \in Node |-> results[v].next_set \ sets[v]]
           F == [v \in Node |-> Cardinality(new[v])]
<1>1. /\ TypeOK /\ IsFiniteSet(Node) /\ IsFiniteSet(Element)
      /\ Counts(Node, per_node_state) /\ Counts(Node, per_node_metadata)
      /\ Counts(Node, S) /\ Counts(Node, M) /\ Counts(Node, E)
  BY NodeFinite, CounterTypes, FiltersAssumption DEF IInv, TypeOK, NetworkTypeOK, Counts
<1>2. new \in [Node -> SUBSET Element]
  BY <1>1 DEF TypeOK, RecvResult
<1>3. Counts(Node, F) BY <1>2, ElementsFinite DEF Counts
<1>4. \A v \in Node :
        /\ stats'[v].state_bytes_sent = S[v] + per_node_state[v]
        /\ stats'[v].metadata_bytes_sent = M[v] + per_node_metadata[v]
        /\ stats'[v].elements_added = E[v] + F[v]
  BY DEF Apply, NewStats
<1>5. SumFunction(F) = Cardinality(Copies)
  <2>1. \A v \in Node : new[v] = Coming(v) \ sets[v]
    BY ComingApplied DEF Apply
  <2>2. Copies = {p \in Node \X Element : p[2] \in new[p[1]]} BY <2>1 DEF Copies
  <2> HIDE DEF new
  <2>3. QED BY <1>1, <1>2, <2>2, FunctionSizes
<1> DEFINE S2 == [v \in Node |-> stats'[v]["state_bytes_sent"]]
           M2 == [v \in Node |-> stats'[v]["metadata_bytes_sent"]]
           E2 == [v \in Node |-> stats'[v]["elements_added"]]
<1>6. /\ Adds(Node, S, per_node_state, S2) /\ Adds(Node, M, per_node_metadata, M2)
      /\ Adds(Node, E, F, E2)
  <2> HIDE DEF S, M, E, F
  <2>1. QED BY <1>4 DEF Adds
<1>7. /\ Counts(Node, S2) /\ Counts(Node, M2) /\ Counts(Node, E2)
  <2> HIDE DEF S, M, E, F
  <2>1. \A v \in Node : /\ S[v] \in Nat /\ M[v] \in Nat /\ E[v] \in Nat /\ F[v] \in Nat
                        /\ per_node_state[v] \in Nat /\ per_node_metadata[v] \in Nat
    BY <1>1, <1>3 DEF Counts
  <2>2. \A v \in Node : /\ stats'[v].state_bytes_sent \in Nat
                        /\ stats'[v].metadata_bytes_sent \in Nat
                        /\ stats'[v].elements_added \in Nat
    BY <1>4, <2>1
  <2>3. QED BY <2>2 DEF Counts
<1>8. /\ Total(stats, "state_bytes_sent") = SumFunction(S)
      /\ Total(stats, "metadata_bytes_sent") = SumFunction(M)
      /\ Total(stats, "elements_added") = SumFunction(E)
      /\ Total(stats, "state_bytes_sent")' = SumFunction(S2)
      /\ Total(stats, "metadata_bytes_sent")' = SumFunction(M2)
      /\ Total(stats, "elements_added")' = SumFunction(E2)
  BY DEF Total
<1> HIDE DEF S, M, E, F, S2, M2, E2
<1>9. SumFunction(S2) = SumFunction(S) + SumFunction(per_node_state)
  BY <1>1, <1>6, <1>7, FunctionSumAdds, CountsAreSummands
<1>10. SumFunction(M2) = SumFunction(M) + SumFunction(per_node_metadata)
  BY <1>1, <1>6, <1>7, FunctionSumAdds, CountsAreSummands
<1>11. SumFunction(E2) = SumFunction(E) + SumFunction(F)
  BY <1>1, <1>3, <1>6, <1>7, FunctionSumAdds, CountsAreSummands
<1>12. QED BY <1>5, <1>8, <1>9, <1>10, <1>11 DEF LedgerInv

\* What has been billed and not been handed over is of the round at hand.
LEMMA ReportKept ==
  ASSUME IInv, RoundInv, LedgerInv, ReportInv, [LogNext]_logVars
  PROVE  ReportInv'
<1>0. TypeOK /\ LogInv /\ PlaceInv /\ TurnInv BY DEF IInv, RoundInv
<1>1. CASE NewRound
  <2>1. stats' = stats BY <1>1 DEF NewRound, BeginRound
  <2>2. TotalBytesSent(stats) = billed + bytes_state + bytes_metadata
    BY <1>1 DEF ReportInv, NewRound, InRound
  <2>3. InRound' /\ billed' = billed + bytes_state + bytes_metadata
    BY <1>1 DEF NewRound, InRound
  <2>4. QED BY <2>1, <2>2, <2>3 DEF ReportInv, TotalBytesSent, Total
<1>2. CASE SameRound /\ Apply
  <2>1. pc = "apply" /\ InRound /\ ~InRound' /\ pc' # "hung"
    BY <1>2 DEF Apply, Conclude, Finish, InRound
  <2>2. TotalBytesSent(stats) = billed BY <2>1 DEF ReportInv
  <2>3. /\ Total(stats, "state_bytes_sent")' =
             Total(stats, "state_bytes_sent") + bytes_state
        /\ Total(stats, "metadata_bytes_sent")' =
             Total(stats, "metadata_bytes_sent") + bytes_metadata
    BY <1>0, <1>2, AppliedCounters
  <2>4. /\ Total(stats, "state_bytes_sent") \in Nat
        /\ Total(stats, "metadata_bytes_sent") \in Nat
        /\ bytes_state \in Nat /\ bytes_metadata \in Nat
    BY <1>0, CounterTypes DEF TypeOK, NetworkTypeOK
  <2>5. /\ bytes_state' = bytes_state /\ bytes_metadata' = bytes_metadata
        /\ billed' = billed
    BY <1>2, QuietCounters DEF SameRound
  <2>6. TotalBytesSent(stats)' =
          Total(stats, "state_bytes_sent")' + Total(stats, "metadata_bytes_sent")'
    BY DEF TotalBytesSent
  <2>7. TotalBytesSent(stats)' = billed' + bytes_state' + bytes_metadata'
    BY <2>2, <2>3, <2>4, <2>5, <2>6 DEF TotalBytesSent
  <2>8. QED BY <2>1, <2>7 DEF ReportInv
<1>3. CASE SameRound /\ Idle
  <2>1. /\ stats' = stats /\ billed' = billed
        /\ bytes_state' = bytes_state /\ bytes_metadata' = bytes_metadata
        /\ (InRound \/ pc = "hung")' <=> (InRound \/ pc = "hung")
    BY <1>3 DEF SameRound, Idle, InRound
  <2>2. QED BY <2>1 DEF ReportInv, TotalBytesSent, Total
<1>4. CASE \/ SameRound /\ Send
           \/ SameRound /\ Drain
           \/ SameRound /\ Recv
           \/ SameRound /\ Bill
  <2>1. stats' = stats /\ billed' = billed /\ InRound
    BY <1>4 DEF SameRound, Send, Drain, Recv, Bill, InRound
  <2>2. InRound' \/ pc' = "hung" \/ pc' = "panic"
    BY <1>4 DEF Send, Drain, Recv, Bill, InRound
  <2>3. pc' # "panic" BY <1>4, SendInv DEF IInv, Drain, Recv, Bill
  <2>4. QED BY <2>1, <2>2, <2>3 DEF ReportInv, TotalBytesSent, Total
<1>5. QED BY <1>0, <1>1, <1>2, <1>3, <1>4, StepKinds

\* A copy is paid for when it is sent.
LEMMA CopiesKept ==
  ASSUME IInv, RoundInv, SpentInv, SpentInv', CopiesInv, [LogNext]_logVars
  PROVE  CopiesInv'
<1>0. /\ TypeOK /\ LogInv /\ PlaceInv /\ TurnInv
      /\ WireSize \in Nat /\ bytes_state \in Nat
      /\ Copies \in SUBSET (Node \X Element)
  BY NetworkAssumption DEF IInv, TypeOK, NetworkTypeOK, RoundInv, WireSize, Copies
<1> SUFFICES ASSUME InRound' PROVE CopiesInv' BY DEF CopiesInv
<1>1. CASE NewRound
  <2>1. \A w \in Node : Coming(w)' = sets'[w]
    <3>1. pc = "begin" /\ sets' = sets /\ ~Send BY <1>1 DEF NewRound, Send
    <3>2. \A w \in Node : Coming(w) = sets[w] BY <1>0, <3>1, ComingAtRest
    <3>3. \A w \in Node : Coming(w)' = Coming(w) BY <1>0, <3>1, ComingStep
    <3>4. QED BY <3>1, <3>2, <3>3
  <2>2. Copies' = {} BY <2>1 DEF Copies
  <2>3. bytes_state' = 0 BY <1>1, FreshCounters
  <2>4. Cardinality(Copies') = 0 BY <2>2, FS_EmptySet
  <2>5. WireSize' = WireSize BY DEF WireSize
  <2>6. WireSize * 0 = 0 BY <1>0
  <2>7. QED BY <2>3, <2>4, <2>5, <2>6 DEF CopiesInv
<1>2. CASE SameRound /\ Send
  <2> DEFINE msgs == SendPhase(config.protocol, Nbrs(cur), sets[cur], carry_states[cur])
  <2>1. /\ Deliver(cur, msgs) /\ DOMAIN msgs \in SUBSET Node
        /\ sets' = sets /\ InRound
    BY <1>2, SendStep DEF Send, InRound
  <2>2. \A w \in Node :
          Coming(w)' = Coming(w) \cup
            (IF w \in DOMAIN msgs THEN
               IF msgs[w].kind = "Elements" THEN msgs[w].els ELSE {}
             ELSE {})
    BY <1>0, <1>2, ComingStep
  <2> HIDE DEF msgs
  <2>3. Payload(msgs) \in SUBSET (Node \X Element) BY <2>1 DEF Payload
  <2>4. ASSUME NEW p \in Copies' PROVE p \in Copies \/ p \in Payload(msgs)
    <3>1. /\ p \in Node \X Element /\ p[1] \in Node
          /\ p[2] \in Coming(p[1])' /\ p[2] \notin sets'[p[1]]
      BY <2>4 DEF Copies
    <3>2. \/ p[2] \in Coming(p[1])
          \/ /\ p[1] \in DOMAIN msgs /\ msgs[p[1]].kind = "Elements"
             /\ p[2] \in msgs[p[1]].els
      BY <2>2, <3>1
    <3>3. QED BY <2>1, <3>1, <3>2 DEF Copies, Payload
  <2> DEFINE a == Cardinality(Copies)
             b == Cardinality(Payload(msgs))
             c == Cardinality(Copies')
  <2>5. /\ a \in Nat /\ b \in Nat /\ c \in Nat /\ c <= a + b
    <3> DEFINE all == Copies \cup Payload(msgs)
               both == Copies \cap Payload(msgs)
    <3>1. /\ IsFiniteSet(Copies) /\ IsFiniteSet(Payload(msgs)) /\ a \in Nat /\ b \in Nat
          /\ all \in SUBSET (Node \X Element) /\ both \in SUBSET (Node \X Element)
      BY <1>0, <2>3, CopiesFinite
    <3>2. Cardinality(all) = a + b - Cardinality(both) BY <3>1, FS_Union
    <3>3. Copies' \subseteq all BY <2>4
    <3> HIDE DEF all, both
    <3>4. IsFiniteSet(all) /\ Cardinality(all) \in Nat /\ Cardinality(both) \in Nat
      BY <3>1, CopiesFinite
    <3>5. c \in Nat /\ c <= Cardinality(all)
      BY <3>3, <3>4, FS_Subset, FS_CardinalityType
    <3> HIDE DEF a, b, c
    <3>6. QED BY <3>1, <3>2, <3>4, <3>5
  <2>6. bytes_state >= WireSize * a BY <2>1 DEF CopiesInv
  <2>7. bytes_state' = bytes_state + WireSize * b BY <2>1 DEF Deliver, StateBytes
  <2>8. CopiesInv' <=> bytes_state' >= WireSize * c BY DEF CopiesInv, WireSize
  <2> HIDE DEF a, b, c
  <2>9. WireSize * c <= WireSize * a + WireSize * b
    <3>1. PICK d \in Nat : a + b = c + d
      <4>1. a + b - c \in Nat /\ a + b = c + (a + b - c) BY <2>5
      <4>2. QED BY <4>1
    <3>2. WireSize * d \in Nat BY <1>0, ProductType
    <3>3. WireSize * (a + b) = WireSize * a + WireSize * b
          /\ WireSize * (c + d) = WireSize * c + WireSize * d
      BY <1>0, <2>5
    <3>4. WireSize * c \in Nat BY <1>0, <2>5, ProductType
    <3>5. QED BY <3>1, <3>2, <3>3, <3>4
  <2>10. WireSize * a \in Nat /\ WireSize * b \in Nat /\ WireSize * c \in Nat
    BY <1>0, <2>5, ProductType
  <2>11. QED BY <1>0, <2>6, <2>7, <2>8, <2>9, <2>10
<1>3. CASE \/ SameRound /\ Idle
           \/ SameRound /\ Drain
           \/ SameRound /\ Recv
           \/ SameRound /\ Bill
  <2>1. InRound
    BY <1>3 DEF Idle, Drain, Recv, Bill, InRound
  <2>2. bytes_state' = bytes_state /\ sets' = sets /\ ~Send
    <3>1. cur \in Nat BY <1>0 DEF TypeOK, Node
    <3>2. Send => pc = "send" /\ (pc' # pc \/ cur' = cur + 1)
      BY DEF Send
    <3>3. ~Send BY <1>3, <3>1, <3>2 DEF Idle, Drain, Recv, Bill
    <3>4. bytes_state' = bytes_state
      BY <1>3, QuietCounters DEF Bill, BillMetadata, netVars
    <3>5. sets' = sets BY <1>3 DEF Idle, Drain, Recv, Bill
    <3>6. QED BY <3>3, <3>4, <3>5
  <2>3. \A w \in Node : Coming(w)' = Coming(w) BY <1>0, <2>2, ComingStep
  <2>4. Copies' = Copies BY <2>2, <2>3 DEF Copies
  <2>5. QED BY <2>1, <2>2, <2>4 DEF CopiesInv, WireSize
<1>4. CASE SameRound /\ Apply
  BY <1>4 DEF Apply, Conclude, Finish, InRound
<1>5. QED BY <1>0, <1>1, <1>2, <1>3, <1>4, StepKinds

\* No element is counted before its copy was paid for.
LEMMA PaidKept ==
  ASSUME IInv, RoundInv, LedgerInv, CopiesInv, EveryCopyPaid, [LogNext]_logVars
  PROVE  EveryCopyPaid'
<1>0. /\ TypeOK /\ LogInv /\ PlaceInv /\ TurnInv
      /\ WireSize \in Nat /\ bytes_state \in Nat
  BY NetworkAssumption DEF IInv, TypeOK, NetworkTypeOK, RoundInv, WireSize
<1>1. CASE SameRound /\ Apply
  <2> DEFINE s == Total(stats, "state_bytes_sent")
             e == Total(stats, "elements_added")
             c == Cardinality(Copies)
  <2>1. bytes_state >= WireSize * c BY <1>1 DEF CopiesInv, Apply, InRound
  <2>2. /\ Total(stats, "state_bytes_sent")' = s + bytes_state
        /\ Total(stats, "elements_added")' = e + c
    BY <1>0, <1>1, AppliedCounters
  <2>3. s \in Nat /\ e \in Nat BY <1>0, CounterTypes
  <2>4. c \in Nat
    <3>1. Copies \in SUBSET (Node \X Element) BY DEF Copies
    <3>2. QED BY <3>1, CopiesFinite
  <2>5. s >= WireSize * e BY DEF EveryCopyPaid
  <2>6. EveryCopyPaid' <=> Total(stats, "state_bytes_sent")' >=
                             WireSize * Total(stats, "elements_added")'
    BY DEF EveryCopyPaid, WireSize
  <2> HIDE DEF s, e, c
  <2>7. WireSize * e \in Nat /\ WireSize * c \in Nat BY <1>0, <2>3, <2>4, ProductType
  <2>8. WireSize * (e + c) = WireSize * e + WireSize * c BY <1>0, <2>3, <2>4
  <2>9. QED BY <1>0, <2>1, <2>2, <2>3, <2>5, <2>6, <2>7, <2>8
<1>2. CASE \/ NewRound
           \/ SameRound /\ Idle
           \/ SameRound /\ Send
           \/ SameRound /\ Drain
           \/ SameRound /\ Recv
           \/ SameRound /\ Bill
  <2>1. stats' = stats BY <1>2 DEF NewRound, BeginRound, Idle, Send, Drain, Recv, Bill
  <2>2. QED BY <2>1 DEF EveryCopyPaid, Total, WireSize
<1>3. QED BY <1>0, <1>1, <1>2, StepKinds

\* All that is claimed of costs is kept.
THEOREM PaidHolds == LogSpec => []PaidInv
<1>1. LogInit /\ IInv => PaidInv
  <2> SUFFICES ASSUME LogInit, IInv PROVE PaidInv OBVIOUS
  <2>1. /\ pc = "start" /\ billed = 0 /\ bytes_state = 0 /\ bytes_metadata = 0
        /\ per_node_state = [v \in Node |-> 0]
        /\ per_node_metadata = [v \in Node |-> 0]
        /\ \A v \in Node : /\ stats[v].state_bytes_sent = 0
                          /\ stats[v].metadata_bytes_sent = 0
                          /\ stats[v].elements_added = 0
    BY DEF LogInit, Init, NetworkInit
  <2>2. SumFunction([v \in Node |-> 0]) = 0 BY NodeFinite, FunctionOfZeros
  <2>3. /\ Total(stats, "state_bytes_sent") = 0
        /\ Total(stats, "metadata_bytes_sent") = 0
        /\ Total(stats, "elements_added") = 0
    <3>1. /\ [v \in Node |-> stats[v]["state_bytes_sent"]] = [v \in Node |-> 0]
          /\ [v \in Node |-> stats[v]["metadata_bytes_sent"]] = [v \in Node |-> 0]
          /\ [v \in Node |-> stats[v]["elements_added"]] = [v \in Node |-> 0]
      BY <2>1
    <3>2. QED BY <2>2, <3>1 DEF Total
  <2>4. RoleInv /\ CostInv /\ CopiesInv
    BY <2>1 DEF RoleInv, CostInv, CopiesInv, InRound, HasRead
  <2>5. ReportInv BY <2>1, <2>3 DEF ReportInv, TotalBytesSent, InRound
  <2>6. LedgerInv BY <2>1, <2>2 DEF LedgerInv
  <2>7. WireSize * 0 = 0 BY NetworkAssumption DEF WireSize
  <2>8. EveryCopyPaid BY <2>3, <2>7 DEF EveryCopyPaid
  <2>9. QED BY <2>4, <2>5, <2>6, <2>8 DEF PaidInv
<1>2. IInv /\ RoundInv /\ ExchangeInv /\ ExchangeInv' /\ PaidInv /\ [LogNext]_logVars
        => PaidInv'
  <2> SUFFICES ASSUME IInv, RoundInv, ExchangeInv, ExchangeInv', PaidInv, [LogNext]_logVars
               PROVE  PaidInv'
    OBVIOUS
  <2>1. /\ LogInv /\ GenuineInv /\ SpentInv /\ SpentInv'
        /\ RoleInv /\ CostInv /\ CopiesInv /\ ReportInv /\ LedgerInv /\ EveryCopyPaid
    BY DEF RoundInv, ExchangeInv, PaidInv
  <2>2. RoleInv' /\ CostInv' BY <2>1, RoleKept, CostKept
  <2>3. CopiesInv' BY <2>1, CopiesKept
  <2>4. ReportInv' /\ LedgerInv' BY <2>1, ReportKept, LedgerKept
  <2>5. EveryCopyPaid' BY <2>1, PaidKept
  <2>6. QED BY <2>2, <2>3, <2>4, <2>5 DEF PaidInv
<1>3. QED BY <1>1, <1>2, RoundsHold, ExchangeHolds, LogIsHistory, InvariantHolds, PTL
             DEF LogSpec

\* No byte is billed to two senders, to none, or to an earlier round's.
THEOREM LedgersHold == LogSpec => []LedgersAgree
<1>1. PaidInv => LedgersAgree BY DEF PaidInv, LedgerInv, LedgersAgree
<1>2. QED BY <1>1, PaidHolds, PTL

\* The result accounts for every byte of every round, once.
THEOREM ReportsHold == LogSpec => []EveryByteReported
<1>1. IInv /\ PaidInv => EveryByteReported
  <2> SUFFICES ASSUME IInv, PaidInv, pc = "done"
               PROVE  TotalBytesSent(result.per_node) = billed + bytes_state + bytes_metadata
    BY DEF EveryByteReported
  <2>1. result.per_node = stats BY DEF IInv, ControlInv, ResultSound
  <2>2. TotalBytesSent(stats) = billed + bytes_state + bytes_metadata
    BY DEF PaidInv, ReportInv, InRound
  <2>3. QED BY <2>1, <2>2
<1>2. QED BY <1>1, PaidHolds, LogIsHistory, InvariantHolds, PTL DEF LogSpec

\* No element is obtained for free.
THEOREM CopiesArePaid == LogSpec => []EveryCopyPaid
<1>1. PaidInv => EveryCopyPaid BY DEF PaidInv
<1>2. QED BY <1>1, PaidHolds, PTL

\* A replica with neighbours pays for sketches or for elements.
THEOREM RolesHold == LogSpec => []OneRoleARound
<1>1. IInv /\ RoundInv /\ PaidInv => OneRoleARound
  <2> SUFFICES ASSUME IInv, RoundInv, PaidInv, pc = "apply", Sketching,
                      NEW v \in Node, Nbrs(v) # {}
               PROVE  (per_node_state[v] > 0) <=> (per_node_metadata[v] = 0)
    BY DEF OneRoleARound
  <2>1. /\ TypeOK /\ InRound /\ Spoken(v)
        /\ per_node_state[v] \in Nat /\ per_node_metadata[v] \in Nat
        /\ \A u \in Node : drained[u] = <<>>
    BY DEF IInv, TypeOK, NetworkTypeOK, InRound, Spoken, RoundInv, PlaceInv
  <2>2. /\ per_node_state[v] > 0 <=> v \notin ThisRound.sketching
        /\ v \notin ThisRound.sketching => per_node_metadata[v] = 0
        /\ v \in ThisRound.sketching =>
             \A u \in Nbrs(v) : From(v, drained[u]) \/ per_node_metadata[v] > 0
    BY <2>1 DEF PaidInv, RoleInv
  <2>3. PICK u \in Nbrs(v) : u \in Node
    BY <2>1, ConfigType, NbrsType
  <2>4. ~From(v, drained[u]) BY <2>1, <2>3 DEF From
  <2>5. v \in ThisRound.sketching => per_node_metadata[v] > 0 BY <2>2, <2>3, <2>4
  <2>6. QED BY <2>1, <2>2, <2>5
<1>2. QED BY <1>1, PaidHolds, RoundsHold, LogIsHistory, InvariantHolds, PTL DEF LogSpec

\* All three parts of the rounds' invariant hold.
THEOREM LoopHolds == LogSpec => []LoopInv
<1>1. RoundInv /\ ExchangeInv /\ PaidInv => LoopInv BY DEF LoopInv
<1>2. QED BY <1>1, RoundsHold, ExchangeHolds, PaidHolds, PTL

=============================================================================
