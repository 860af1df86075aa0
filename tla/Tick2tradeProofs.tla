-------------------------- MODULE Tick2tradeProofs --------------------------
(***************************************************************************)
(* Tick2trade proved for every feed, every depth of the streams and every  *)
(* contents of the configuration memory.                                   *)
(***************************************************************************)
EXTENDS Tick2tradeSystem, HlsStreamProofs

(* The depths of the streams of the strategy are natural numbers.          *)
LEMMA DepthTypes == StreamDepth \in Nat /\ NotifDepth \in Nat
BY T2tDepthAssumption

(* What p_algo decides on a pending trade is a shot, whichever side fires. *)
LEMMA VerdictType ==
  ASSUME NEW conf \in ConfItem, NEW pending \in PendingData, NEW packet \in Packets
  PROVE  Verdict(conf, pending, packet) \in Shot
<1>1. /\ ShotOn("B", conf, pending, packet) \in Shot
      /\ ShotOn("S", conf, pending, packet) \in Shot
  BY DEF ShotOn, Shot, ConfItem
<1>. QED  BY <1>1 DEF Verdict, Shot

(* The command and the notification made from a shot are words of their    *)
(* streams.                                                                *)
LEMMA OutputTypes ==
  ASSUME NEW s \in Shot, s # NoShot
  PROVE  Command(s) \in T2tCommand /\ Notification(s) \in T2tNotification
BY DEF Shot, Command, Notification, T2tCommand, T2tNotification, PendingData

(* Type correctness: no stream ever holds more than its depth, and p_algo  *)
(* has a shot exactly in the two states that write one.                    *)
THEOREM TypeCorrect == Spec => []TypeOK
<1>1. Init => TypeOK
  BY T2tSystemAssumption, NxbusAssumption, DepthTypes
  DEF Init, LocalInit, EmptyBus, TypeOK, IsBus, IsStream, PendingData, Shot, Me, Side
<1>2. TypeOK /\ [Next]_vars => TypeOK'
  <2>. SUFFICES ASSUME TypeOK, [Next]_vars
                PROVE  TypeOK'
    OBVIOUS
  <2>. USE DepthTypes DEF TypeOK
  <2>0. Me \in {Me}
    OBVIOUS
  <2>1. CASE FeedWord
    <3>. USE <2>1 DEF FeedWord
    <3>0. PICK word \in nxbus :
            nxbus_outputs' = [nxbus_outputs EXCEPT ![Me] = Append(@, word)]
      BY T2tSystemAssumption
    <3>1. IsBus(nxbus_outputs, {Me}, nxbus, StreamDepth)'
      BY <2>0, <3>0, WriteBus
    <3>2. fed' \in 0..MaxWords
      BY T2tSystemAssumption
    <3>. QED  BY <3>1, <3>2 DEF algoVars
  <2>2. CASE ReadNxbus /\ UNCHANGED fed
    <3>. USE <2>2 DEF ReadNxbus
    <3>1. Head(nxbus_outputs[Me]) \in nxbus
      BY <2>0, BusStream, ReadStream
    <3>2. IsBus(nxbus_outputs, {Me}, nxbus, StreamDepth)'
      BY <2>0, ReadBus
    <3>3. /\ start_of_nxbus_command' \in BOOLEAN
          /\ last_packet' \in Packets
          /\ Pending(Head(nxbus_outputs[Me])) \in PendingData
      BY <3>1 DEF nxbus, Pending, PendingData
    <3>4. /\ pending_nxbus_data' \in PendingData
          /\ algo_at' \in {"ready", "instrument"}
      BY <3>3
    <3>. QED  BY <3>2, <3>3, <3>4
  <2>3. CASE RequestInstrument /\ UNCHANGED fed
    <3>. USE <2>3 DEF RequestInstrument
    <3>1. IsBus(instrument_read_bus, {Me}, Instruments, StreamDepth)'
      BY <2>0, WriteBus DEF PendingData
    <3>. QED  BY <3>1
  <2>4. CASE RequestBook /\ UNCHANGED fed
    <3>. USE <2>4 DEF RequestBook
    <3>1. IsBus(read_book_request_bus, {Me}, Instruments, StreamDepth)'
      BY <2>0, WriteBus DEF PendingData
    <3>. QED  BY <3>1
  <2>5. CASE Decide /\ UNCHANGED fed
    <3>. USE <2>5 DEF Decide
    <3>1. Head(instrument_read_responses[Me]) \in ConfItem
      BY <2>0, BusStream, ReadStream
    <3>2. shot' \in Shot
      BY <3>1, VerdictType
    <3>3. /\ IsBus(instrument_read_responses, {Me}, ConfItem, StreamDepth)'
          /\ IsBus(books, {Me}, Instruments, StreamDepth)'
      BY <2>0, ReadBus
    <3>. QED  BY <3>2, <3>3
  <2>6. CASE WriteCommand /\ UNCHANGED fed
    <3>. USE <2>6 DEF WriteCommand
    <3>1. Command(shot) \in T2tCommand
      BY OutputTypes
    <3>2. IsBus(decisions_outputs, {Me}, T2tCommand, StreamDepth)'
      BY <2>0, <3>1, WriteBus
    <3>. QED  BY <3>2
  <2>7. CASE WriteNotification /\ UNCHANGED fed
    <3>. USE <2>7 DEF WriteNotification
    <3>1. Notification(shot) \in T2tNotification
      BY OutputTypes
    <3>2. IsStream(tick2trade_to_notifs, T2tNotification, NotifDepth)'
      BY <3>1, WriteStream
    <3>. QED  BY <3>2 DEF Shot
  <2>8. CASE AnswerInstrument
    <3>. USE <2>8 DEF AnswerInstrument
    <3>1. ConfOf[Head(instrument_read_bus[Me])] \in ConfItem
      BY <2>0, BusStream, ReadStream, T2tSystemAssumption
    <3>2. /\ IsBus(instrument_read_bus, {Me}, Instruments, StreamDepth)'
          /\ IsBus(instrument_read_responses, {Me}, ConfItem, StreamDepth)'
      BY <2>0, <3>1, ReadBus, WriteBus
    <3>. QED  BY <3>2 DEF algoVars
  <2>9. CASE AnswerBook
    <3>. USE <2>9 DEF AnswerBook
    <3>1. Head(read_book_request_bus[Me]) \in Instruments
      BY <2>0, BusStream, ReadStream
    <3>2. /\ IsBus(read_book_request_bus, {Me}, Instruments, StreamDepth)'
          /\ IsBus(books, {Me}, Instruments, StreamDepth)'
      BY <2>0, <3>1, ReadBus, WriteBus
    <3>. QED  BY <3>2 DEF algoVars
  <2>10. CASE SinkCommand
    <3>. USE <2>10 DEF SinkCommand
    <3>1. IsBus(decisions_outputs, {Me}, T2tCommand, StreamDepth)'
      BY <2>0, ReadBus
    <3>. QED  BY <3>1 DEF algoVars
  <2>11. CASE SinkNotification
    <3>. USE <2>11 DEF SinkNotification
    <3>1. IsStream(tick2trade_to_notifs, T2tNotification, NotifDepth)'
      BY ReadStream
    <3>. QED  BY <3>1 DEF algoVars
  <2>12. CASE UNCHANGED vars
    BY <2>12 DEF vars, t2tVars, t2tStreams, algoVars
  <2>. QED
    BY <2>1, <2>2, <2>3, <2>4, <2>5, <2>6, <2>7, <2>8, <2>9, <2>10, <2>11, <2>12
    DEF Next, p_algo
<1>. QED  BY <1>1, <1>2, PTL DEF Spec
-----------------------------------------------------------------------------
(* A request written to a memory that nothing was asked of is the one      *)
(* question under way.                                                     *)
LEMMA UnderWayAfterRequest ==
  ASSUME NEW requests, NEW answers, NEW instr, NEW answer,
         requests = <<>>, answers = <<>>
  PROVE  UnderWay(Append(requests, instr), answers, instr, answer)
BY OneWord DEF UnderWay

(* The memory's answer takes the place of the one question under way.      *)
LEMMA UnderWayAfterAnswer ==
  ASSUME NEW requests, NEW answers, NEW instr, NEW answer,
         UnderWay(requests, answers, instr, answer), requests # <<>>
  PROVE  /\ Head(requests) = instr
         /\ UnderWay(Tail(requests), Append(answers, answer), instr, answer)
<1>1. requests = <<instr>> /\ answers = <<>>
  BY DEF UnderWay
<1>2. /\ Head(requests) = instr
      /\ Tail(requests) = <<>> /\ Append(answers, answer) = <<answer>>
  BY <1>1, OneWord
<1>. QED  BY <1>2 DEF UnderWay

(* An answer taken leaves nothing of the question.                         *)
LEMMA UnderWayAfterRead ==
  ASSUME NEW requests, NEW answers, NEW instr, NEW answer,
         UnderWay(requests, answers, instr, answer), answers # <<>>
  PROVE  /\ Head(answers) = answer
         /\ requests = <<>> /\ Tail(answers) = <<>>
<1>1. requests = <<>> /\ answers = <<answer>>
  BY DEF UnderWay
<1>. QED  BY <1>1, OneWord

(* Lockstep is inductive together with the type invariant.                 *)
LEMMA LockstepStep ==
  ASSUME TypeOK, Lockstep, [Next]_vars
  PROVE  Lockstep'
<1>. DEFINE instr == pending_nxbus_data.instr_id
<1>. USE DEF Lockstep
<1>0. /\ DOMAIN instrument_read_bus = {Me} /\ DOMAIN instrument_read_responses = {Me}
      /\ DOMAIN read_book_request_bus = {Me} /\ DOMAIN books = {Me}
  BY DEF TypeOK, IsBus
<1>1. CASE FeedWord
  BY <1>1 DEF FeedWord, algoVars
<1>2. CASE ReadNxbus /\ UNCHANGED fed
  BY <1>2 DEF ReadNxbus
<1>3. CASE RequestInstrument /\ UNCHANGED fed
  <2>. USE <1>3 DEF RequestInstrument
  <2>1. instrument_read_bus[Me] = <<>> /\ instrument_read_responses[Me] = <<>>
    OBVIOUS
  <2>2. instrument_read_bus'[Me] = Append(instrument_read_bus[Me], instr)
    BY <1>0
  <2>3. UnderWay(instrument_read_bus[Me], instrument_read_responses[Me],
                 instr, ConfOf[instr])'
    BY <2>1, <2>2, UnderWayAfterRequest
  <2>. QED  BY <2>3
<1>4. CASE RequestBook /\ UNCHANGED fed
  <2>. USE <1>4 DEF RequestBook
  <2>1. read_book_request_bus[Me] = <<>> /\ books[Me] = <<>>
    OBVIOUS
  <2>2. read_book_request_bus'[Me] = Append(read_book_request_bus[Me], instr)
    BY <1>0
  <2>3. UnderWay(read_book_request_bus[Me], books[Me], instr, instr)'
    BY <2>1, <2>2, UnderWayAfterRequest
  <2>. QED  BY <2>3
<1>5. CASE Decide /\ UNCHANGED fed
  <2>. USE <1>5 DEF Decide
  <2>1. /\ instrument_read_bus[Me] = <<>> /\ Tail(instrument_read_responses[Me]) = <<>>
        /\ read_book_request_bus[Me] = <<>> /\ Tail(books[Me]) = <<>>
    BY UnderWayAfterRead
  <2>2. /\ instrument_read_responses'[Me] = Tail(instrument_read_responses[Me])
        /\ books'[Me] = Tail(books[Me])
    BY <1>0
  <2>3. algo_at' \notin {"book", "waiting"}
    OBVIOUS
  <2>. QED  BY <2>1, <2>2, <2>3
<1>6. CASE WriteCommand /\ UNCHANGED fed
  BY <1>6 DEF WriteCommand
<1>7. CASE WriteNotification /\ UNCHANGED fed
  BY <1>7 DEF WriteNotification
<1>8. CASE AnswerInstrument
  <2>. USE <1>8 DEF AnswerInstrument, algoVars
  <2>1. /\ algo_at \in {"book", "waiting"}
        /\ UnderWay(instrument_read_bus[Me], instrument_read_responses[Me],
                    instr, ConfOf[instr])
    OBVIOUS
  <2>2. /\ instrument_read_bus'[Me] = Tail(instrument_read_bus[Me])
        /\ instrument_read_responses'[Me] =
             Append(instrument_read_responses[Me], ConfOf[Head(instrument_read_bus[Me])])
    BY <1>0
  <2>3. /\ Head(instrument_read_bus[Me]) = instr
        /\ UnderWay(Tail(instrument_read_bus[Me]),
                    Append(instrument_read_responses[Me], ConfOf[instr]),
                    instr, ConfOf[instr])
    BY <2>1, UnderWayAfterAnswer
  <2>4. UnderWay(instrument_read_bus'[Me], instrument_read_responses'[Me],
                 instr, ConfOf[instr])
    BY <2>2, <2>3
  <2>. QED  BY <2>1, <2>4
<1>9. CASE AnswerBook
  <2>. USE <1>9 DEF AnswerBook, algoVars
  <2>1. /\ algo_at = "waiting"
        /\ UnderWay(read_book_request_bus[Me], books[Me], instr, instr)
    OBVIOUS
  <2>2. /\ read_book_request_bus'[Me] = Tail(read_book_request_bus[Me])
        /\ books'[Me] = Append(books[Me], Head(read_book_request_bus[Me]))
    BY <1>0
  <2>3. /\ Head(read_book_request_bus[Me]) = instr
        /\ UnderWay(Tail(read_book_request_bus[Me]), Append(books[Me], instr),
                    instr, instr)
    BY <2>1, UnderWayAfterAnswer
  <2>4. UnderWay(read_book_request_bus'[Me], books'[Me], instr, instr)
    BY <2>2, <2>3
  <2>. QED  BY <2>1, <2>4
<1>10. CASE SinkCommand
  BY <1>10 DEF SinkCommand, algoVars
<1>11. CASE SinkNotification
  BY <1>11 DEF SinkNotification, algoVars
<1>12. CASE UNCHANGED vars
  BY <1>12 DEF vars, t2tVars, t2tStreams, algoVars
<1>. QED
  BY <1>1, <1>2, <1>3, <1>4, <1>5, <1>6, <1>7, <1>8, <1>9, <1>10, <1>11, <1>12
  DEF Next, p_algo

(* p_algo never takes an answer to an earlier trade for the answer to the  *)
(* pending one, whatever the depths, the memory and the feed.              *)
THEOREM AlwaysInLockstep == Spec => []Lockstep
<1>1. Init => Lockstep
  BY DEF Init, LocalInit, EmptyBus, Lockstep, Me
<1>2. TypeOK /\ Lockstep /\ [Next]_vars => Lockstep'
  BY LockstepStep
<1>. QED  BY <1>1, <1>2, TypeCorrect, PTL DEF Spec
-----------------------------------------------------------------------------
(* A shot owes its command and then its notification.                      *)
LEMMA OwedByShot ==
  ASSUME NEW s, s # NoShot
  PROVE  /\ Len(Outputs(s)) = 2
         /\ Head(Outputs(s)) = Command(s)
         /\ Tail(Outputs(s)) = <<Notification(s)>>
         /\ Len(<<Notification(s)>>) = 1
<1>1. Outputs(s) = <<Command(s), Notification(s)>>
  BY DEF Outputs
<1>2. /\ Len(<<Command(s), Notification(s)>>) = 2
      /\ Head(<<Command(s), Notification(s)>>) = Command(s)
  OBVIOUS
<1>3. Tail(<<Command(s), Notification(s)>>) = <<Notification(s)>>
  OBVIOUS
<1>. QED  BY <1>1, <1>2, <1>3

(* Every step of Tick2trade is a step of the abstract strategy or leaves   *)
(* what the abstract strategy sees as it is.                               *)
LEMMA RefinementStep ==
  ASSUME TypeOK, TypeOK', Lockstep, [Next]_vars
  PROVE  [Decisions!Next]_(Decisions!vars)
<1>. DEFINE unseen == UNCHANGED <<start_of_nxbus_command, last_packet, PendingTrades,
                                  OwedOutputs, decisions_outputs[Me], tick2trade_to_notifs>>
<1>0. unseen => [Decisions!Next]_(Decisions!vars)
  BY DEF Decisions!vars
<1>. HIDE DEF unseen
<1>1. CASE FeedWord
  <2>1. unseen
    BY <1>1 DEF FeedWord, algoVars, PendingTrades, OwedOutputs, unseen
  <2>. QED  BY <2>1, <1>0
<1>2. CASE ReadNxbus /\ UNCHANGED fed
  <2>. USE <1>2 DEF ReadNxbus
  <2>. DEFINE word == Head(nxbus_outputs[Me])
  <2>1. word \in nxbus
    BY BusStream, ReadStream, T2tDepthAssumption, DepthTypes DEF TypeOK
  <2>2. PendingTrades = <<>> /\ OwedOutputs = <<>> /\ OwedOutputs' = <<>>
    BY DEF PendingTrades, OwedOutputs
  <2>3. PendingTrades' = IF Opens(word, "TRADE_SUMMARY")
                         THEN <<TradeOfWord(word, last_packet)>> ELSE <<>>
    BY DEF PendingTrades, TradeOfWord, Opens
  <2>4. Append(<<>>, TradeOfWord(word, last_packet)) = <<TradeOfWord(word, last_packet)>>
    BY OneWord
  <2>5. Decisions!Read(word)
    BY <2>2, <2>3, <2>4 DEF Decisions!Read, Opens
  <2>6. word \in Decisions!nxbus
    BY <2>1 DEF nxbus, Decisions!nxbus, Opcode, Decisions!Opcode, Side, Decisions!Side
  <2>. HIDE DEF word
  <2>. QED  BY <2>5, <2>6 DEF Decisions!Next
<1>3. CASE RequestInstrument /\ UNCHANGED fed
  <2>1. unseen
    BY <1>3 DEF RequestInstrument, PendingTrades, OwedOutputs, unseen
  <2>. QED  BY <2>1, <1>0
<1>4. CASE RequestBook /\ UNCHANGED fed
  <2>1. unseen
    BY <1>4 DEF RequestBook, PendingTrades, OwedOutputs, unseen
  <2>. QED  BY <2>1, <1>0
<1>5. CASE Decide /\ UNCHANGED fed
  <2>. USE <1>5 DEF Decide
  <2>. DEFINE trade == [pending |-> pending_nxbus_data, packet |-> last_packet]
  <2>1. PendingTrades = <<trade>> /\ PendingTrades' = <<>> /\ OwedOutputs = <<>>
    BY DEF PendingTrades, OwedOutputs
  <2>2. Head(instrument_read_responses[Me]) = ConfOf[pending_nxbus_data.instr_id]
    BY UnderWayAfterRead DEF Lockstep
  <2>3. shot' = Verdict(ConfOf[trade.pending.instr_id], trade.pending, trade.packet)
    BY <2>2
  <2>4. OwedOutputs' = VerdictOn(trade)
    BY <2>3 DEF OwedOutputs, VerdictOn, Outputs
  <2>5. <<trade>> # <<>> /\ Head(<<trade>>) = trade /\ Tail(<<trade>>) = <<>>
    BY OneWord
  <2>. HIDE DEF trade
  <2>6. Decisions!Decide
    BY <2>1, <2>4, <2>5 DEF Decisions!Decide
  <2>. QED  BY <2>6 DEF Decisions!Next
<1>6. CASE WriteCommand /\ UNCHANGED fed
  <2>. USE <1>6 DEF WriteCommand
  <2>1. OwedOutputs = Outputs(shot) /\ OwedOutputs' = <<Notification(shot)>>
    BY DEF OwedOutputs
  <2>2. shot # NoShot
    BY DEF TypeOK
  <2>3. decisions_outputs'[Me] = Append(decisions_outputs[Me], Command(shot))
    BY DEF TypeOK, IsBus
  <2>4. UNCHANGED PendingTrades
    BY DEF PendingTrades
  <2>5. Decisions!EmitCommand
    BY <2>1, <2>2, <2>3, <2>4, OwedByShot
    DEF Decisions!EmitCommand, CanWrite, Decisions!CanWrite
  <2>. QED  BY <2>5 DEF Decisions!Next
<1>7. CASE WriteNotification /\ UNCHANGED fed
  <2>. USE <1>7 DEF WriteNotification
  <2>1. /\ OwedOutputs = <<Notification(shot)>> /\ OwedOutputs' = <<>>
        /\ UNCHANGED PendingTrades
    BY DEF OwedOutputs, PendingTrades
  <2>2. Len(<<Notification(shot)>>) = 1 /\ Head(<<Notification(shot)>>) = Notification(shot)
    OBVIOUS
  <2>3. Decisions!EmitNotification
    BY <2>1, <2>2 DEF Decisions!EmitNotification, CanWrite, Decisions!CanWrite
  <2>. QED  BY <2>3 DEF Decisions!Next
<1>8. CASE AnswerInstrument
  <2>1. unseen
    BY <1>8 DEF AnswerInstrument, algoVars, PendingTrades, OwedOutputs, unseen
  <2>. QED  BY <2>1, <1>0
<1>9. CASE AnswerBook
  <2>1. unseen
    BY <1>9 DEF AnswerBook, algoVars, PendingTrades, OwedOutputs, unseen
  <2>. QED  BY <2>1, <1>0
<1>10. CASE SinkCommand
  <2>1. UNCHANGED <<PendingTrades, OwedOutputs>>
    BY <1>10 DEF SinkCommand, algoVars, PendingTrades, OwedOutputs
  <2>2. decisions_outputs'[Me] = Tail(decisions_outputs[Me])
    BY <1>10 DEF SinkCommand, TypeOK, IsBus
  <2>3. Decisions!TakeCommand
    BY <1>10, <2>1, <2>2 DEF SinkCommand, algoVars, Decisions!TakeCommand
  <2>. QED  BY <2>3 DEF Decisions!Next
<1>11. CASE SinkNotification
  <2>1. UNCHANGED <<PendingTrades, OwedOutputs>>
    BY <1>11 DEF SinkNotification, algoVars, PendingTrades, OwedOutputs
  <2>2. Decisions!TakeNotification
    BY <1>11, <2>1 DEF SinkNotification, algoVars, Decisions!TakeNotification
  <2>. QED  BY <2>2 DEF Decisions!Next
<1>12. CASE UNCHANGED vars
  <2>1. unseen
    BY <1>12 DEF vars, t2tVars, t2tStreams, algoVars, PendingTrades, OwedOutputs, unseen
  <2>. QED  BY <2>1, <1>0
<1>. QED
  BY <1>1, <1>2, <1>3, <1>4, <1>5, <1>6, <1>7, <1>8, <1>9, <1>10, <1>11, <1>12
  DEF Next, p_algo

(* Each trade is decided once and in order, on its own instrument's        *)
(* configuration and packet, and what it fires leaves command first, for   *)
(* every feed, depth and memory: Tick2trade implements TradeDecisions.     *)
THEOREM Implements == Spec => DecidesEveryTrade
<1>1. Init => Decisions!Init
  BY DEF Init, LocalInit, EmptyBus, Me, Decisions!Init, PendingTrades, OwedOutputs
<1>2. TypeOK /\ TypeOK' /\ Lockstep /\ [Next]_vars => [Decisions!Next]_(Decisions!vars)
  BY RefinementStep
<1>. QED
  BY <1>1, <1>2, TypeCorrect, AlwaysInLockstep, PTL
  DEF Spec, DecidesEveryTrade, Decisions!Spec
=============================================================================
