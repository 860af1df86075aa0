-------------------------- MODULE Tick2cancelProofs --------------------------
(***************************************************************************)
(* Tick2cancel proved for every feed, every depth of the streams and every *)
(* contents of the two memories.                                           *)
(***************************************************************************)
EXTENDS Tick2cancelSystem, HlsStreamProofs

(* The types of the values the two processes compute. *)
LEMMA DataAfterType ==
  ASSUME NEW word \in nxbus, decision_data \in Trade
  PROVE  DataAfter(word) \in Trade
BY DEF DataAfter, Opens, nxbus, Trade

(* The decision of trigger on a trade of the feed is no hit, or a hit on   *)
(* one side with that trade's data.                                        *)
LEMMA VerdictType ==
  ASSUME NEW conf \in ConfItem, NEW book \in Book, NEW trade \in Trade
  PROVE  /\ Verdict(conf, book, trade) \in Hit
         /\ Verdict(conf, book, trade) # NoHit =>
              Verdict(conf, book, trade).trade = trade
<1>1. /\ HitOn("bid", conf, book, trade) \in Hit \ {NoHit}
      /\ HitOn("ask", conf, book, trade) \in Hit \ {NoHit}
  BY DEF HitOn, HalfOf, Hit, NoHit, ConfItem, Book, HalfBook, Side
<1>2. /\ HitOn("bid", conf, book, trade).trade = trade
      /\ HitOn("ask", conf, book, trade).trade = trade
  BY DEF HitOn
<1>. QED  BY <1>1, <1>2 DEF Verdict, Hit

(* The command and the notification made from a hit are words of their     *)
(* streams.                                                                *)
LEMMA OutputTypes ==
  ASSUME NEW h \in Hit, h # NoHit
  PROVE  Command(h) \in T2cCommand /\ Notification(h) \in T2cNotification
BY NxbusAssumption DEF Hit, Command, Notification, T2cCommand, T2cNotification, Trade

(* The depths of the streams of the strategy are natural numbers.          *)
LEMMA DepthTypes == StreamDepth \in Nat /\ ContextDepth \in Nat /\ NotifDepth \in Nat
BY DepthAssumption

(* Type correctness: no stream ever holds more than its depth, and what    *)
(* the two processes hold between their writes is what they are to write.  *)
THEOREM TypeCorrect == Spec => []TypeOK
<1>1. Init => TypeOK
  BY SystemAssumption, NxbusAssumption, DepthTypes
  DEF Init, LocalInit, EmptyBus, TypeOK, StreamsOK, IsBus, IsStream, Trade, Hit, Me
<1>2. TypeOK /\ [Next]_vars => TypeOK'
  <2>. SUFFICES ASSUME TypeOK, [Next]_vars
                PROVE  TypeOK'
    OBVIOUS
  <2>. USE DepthTypes DEF TypeOK, StreamsOK
  <2>0. Me \in {Me}
    OBVIOUS
  <2>1. CASE FeedWord
    <3>. USE <2>1 DEF FeedWord
    <3>0. PICK word \in nxbus :
            nxbus_outputs' = [nxbus_outputs EXCEPT ![Me] = Append(@, word)]
      BY SystemAssumption
    <3>1. IsBus(nxbus_outputs, {Me}, nxbus, StreamDepth)'
      BY <2>0, <3>0, WriteBus
    <3>2. fed' \in 0..MaxWords
      BY SystemAssumption
    <3>. QED  BY <3>1, <3>2 DEF preprocessVars, triggerVars
  <2>2. CASE PreprocessRead /\ UNCHANGED fed
    <3>. USE <2>2 DEF PreprocessRead
    <3>1. Head(nxbus_outputs[Me]) \in nxbus
      BY <2>0, BusStream, ReadStream
    <3>2. decision_data' \in Trade
      BY <3>1, DataAfterType
    <3>3. IsBus(nxbus_outputs, {Me}, nxbus, StreamDepth)'
      BY <2>0, ReadBus
    <3>4. start_of_nxbus_command' \in BOOLEAN
      BY <3>1 DEF nxbus
    <3>. QED  BY <3>2, <3>3, <3>4 DEF triggerVars
  <2>3. CASE WriteContext /\ UNCHANGED fed
    <3>. USE <2>3 DEF WriteContext
    <3>1. IsStream(t2c_context, Trade, ContextDepth)'
      BY WriteStream
    <3>. QED  BY <3>1 DEF triggerVars
  <2>4. CASE RequestInstrument /\ UNCHANGED fed
    <3>. USE <2>4 DEF RequestInstrument
    <3>1. IsBus(instrument_read_bus, {Me}, Instruments, StreamDepth)'
      BY <2>0, WriteBus DEF Trade
    <3>. QED  BY <3>1 DEF triggerVars
  <2>5. CASE RequestBook /\ UNCHANGED fed
    <3>. USE <2>5 DEF RequestBook
    <3>1. IsBus(read_book_request_bus, {Me}, Instruments, StreamDepth)'
      BY <2>0, WriteBus DEF Trade
    <3>. QED  BY <3>1 DEF triggerVars
  <2>6. CASE TriggerRead /\ UNCHANGED fed
    <3>. USE <2>6 DEF TriggerRead
    <3>1. /\ Head(instrument_read_responses[Me]) \in ConfItem
          /\ Head(books[Me]) \in Book
          /\ Head(t2c_context) \in Trade
      BY <2>0, BusStream, ReadStream
    <3>2. hit' \in Hit
      BY <3>1, VerdictType
    <3>3. /\ IsBus(instrument_read_responses, {Me}, ConfItem, StreamDepth)'
          /\ IsBus(books, {Me}, Book, StreamDepth)'
      BY <2>0, ReadBus
    <3>4. IsStream(t2c_context, Trade, ContextDepth)'
      BY ReadStream
    <3>. QED  BY <3>2, <3>3, <3>4 DEF preprocessVars
  <2>7. CASE WriteCommand /\ UNCHANGED fed
    <3>. USE <2>7 DEF WriteCommand
    <3>1. Command(hit) \in T2cCommand
      BY OutputTypes
    <3>2. IsBus(decisions_outputs, {Me}, T2cCommand, StreamDepth)'
      BY <2>0, <3>1, WriteBus
    <3>. QED  BY <3>2 DEF preprocessVars
  <2>8. CASE WriteNotification /\ UNCHANGED fed
    <3>. USE <2>8 DEF WriteNotification
    <3>1. Notification(hit) \in T2cNotification
      BY OutputTypes
    <3>2. IsStream(tick2cancel_to_notifs, T2cNotification, NotifDepth)'
      BY <3>1, WriteStream
    <3>. QED  BY <3>2 DEF preprocessVars, Hit
  <2>9. CASE AnswerInstrument
    <3>. USE <2>9 DEF AnswerInstrument
    <3>1. ConfOf[Head(instrument_read_bus[Me])] \in ConfItem
      BY <2>0, BusStream, ReadStream, SystemAssumption
    <3>2. IsBus(instrument_read_bus, {Me}, Instruments, StreamDepth)'
      BY <2>0, ReadBus
    <3>3. IsBus(instrument_read_responses, {Me}, ConfItem, StreamDepth)'
      BY <2>0, <3>1, WriteBus
    <3>. QED  BY <3>2, <3>3 DEF preprocessVars, triggerVars
  <2>10. CASE AnswerBook
    <3>. USE <2>10 DEF AnswerBook
    <3>1. BookOf[Head(read_book_request_bus[Me])] \in Book
      BY <2>0, BusStream, ReadStream, SystemAssumption
    <3>2. IsBus(read_book_request_bus, {Me}, Instruments, StreamDepth)'
      BY <2>0, ReadBus
    <3>3. IsBus(books, {Me}, Book, StreamDepth)'
      BY <2>0, <3>1, WriteBus
    <3>. QED  BY <3>2, <3>3 DEF preprocessVars, triggerVars
  <2>11. CASE SinkCommand
    <3>. USE <2>11 DEF SinkCommand
    <3>1. IsBus(decisions_outputs, {Me}, T2cCommand, StreamDepth)'
      BY <2>0, ReadBus
    <3>. QED  BY <3>1 DEF preprocessVars, triggerVars
  <2>12. CASE SinkNotification
    <3>. USE <2>12 DEF SinkNotification
    <3>1. IsStream(tick2cancel_to_notifs, T2cNotification, NotifDepth)'
      BY ReadStream
    <3>. QED  BY <3>1 DEF preprocessVars, triggerVars
  <2>13. CASE UNCHANGED vars
    BY <2>13 DEF vars, t2cVars, t2cStreams, preprocessVars, triggerVars
  <2>. QED
    BY <2>1, <2>2, <2>3, <2>4, <2>5, <2>6, <2>7, <2>8, <2>9, <2>10, <2>11, <2>12, <2>13
    DEF Next, Preprocess, Trigger
<1>. QED  BY <1>1, <1>2, PTL DEF Spec
-----------------------------------------------------------------------------
(* The four lemmas below are about one memory: its answers and requests    *)
(* stay aligned with the contexts at each step that changes one of them.   *)
(* A new context owes one more request to the memory.                      *)
LEMMA AlignedAfterContext ==
  ASSUME NEW V, NEW memory, NEW context, NEW answers, NEW requests,
         IsStream(context, Trade, ContextDepth), CanWrite(context, ContextDepth),
         answers \in Seq(V), requests \in Seq(Instruments),
         NEW data \in Trade,
         AlignedWith(memory, context, answers, requests, 0)
  PROVE  AlignedWith(memory, Append(context, data), answers, requests, 1)
<1>. DEFINE later == Append(context, data)
<1>1. /\ Len(answers) \in Nat /\ Len(requests) \in Nat /\ Len(context) \in Nat
      /\ Len(later) = Len(context) + 1
      /\ \A j \in 1..Len(context) : later[j] = context[j]
  BY DepthTypes, WriteStream DEF IsStream
<1>. HIDE DEF later
<1>2. ASSUME NEW j \in 1..Len(requests)
      PROVE  requests[j] = later[Len(answers) + j].instr_id
  <2>1. Len(answers) + j \in 1..Len(context)
    BY <1>1 DEF AlignedWith
  <2>. QED  BY <2>1, <1>1 DEF AlignedWith
<1>3. ASSUME NEW j \in 1..Len(answers)
      PROVE  answers[j] = memory[later[j].instr_id]
  <2>1. j \in 1..Len(context)
    BY <1>1 DEF AlignedWith
  <2>. QED  BY <2>1, <1>1 DEF AlignedWith
<1>4. AlignedWith(memory, later, answers, requests, 1)
  BY <1>1, <1>2, <1>3 DEF AlignedWith
<1>. QED  BY <1>4 DEF later

(* The request owed is written: it is for the newest context.              *)
LEMMA AlignedAfterRequest ==
  ASSUME NEW V, NEW memory, NEW context, NEW answers, NEW requests,
         context \in Seq(Trade), answers \in Seq(V),
         IsStream(requests, Instruments, StreamDepth), CanWrite(requests, StreamDepth),
         NEW instr \in Instruments, context[Len(context)].instr_id = instr,
         AlignedWith(memory, context, answers, requests, 1)
  PROVE  AlignedWith(memory, context, answers, Append(requests, instr), 0)
<1>. DEFINE later == Append(requests, instr)
<1>1. /\ Len(answers) \in Nat /\ Len(requests) \in Nat /\ Len(context) \in Nat
      /\ Len(later) = Len(requests) + 1
      /\ \A j \in 1..Len(requests) : later[j] = requests[j]
      /\ later[Len(requests) + 1] = instr
  BY DepthTypes, WriteStream DEF IsStream
<1>. HIDE DEF later
<1>2. ASSUME NEW j \in 1..Len(later)
      PROVE  later[j] = context[Len(answers) + j].instr_id
  <2>1. CASE j = Len(requests) + 1
    <3>1. Len(answers) + j = Len(context)
      BY <2>1, <1>1 DEF AlignedWith
    <3>. QED  BY <3>1, <2>1, <1>1
  <2>2. CASE j # Len(requests) + 1
    <3>1. j \in 1..Len(requests)
      BY <2>2, <1>1
    <3>. QED  BY <3>1, <1>1 DEF AlignedWith
  <2>. QED  BY <2>1, <2>2
<1>3. AlignedWith(memory, context, answers, later, 0)
  BY <1>1, <1>2 DEF AlignedWith
<1>. QED  BY <1>3 DEF later

(* The memory answers its oldest request with what it holds for the first  *)
(* context that has no answer yet.                                         *)
LEMMA AlignedAfterAnswer ==
  ASSUME NEW V, NEW memory \in [Instruments -> V],
         NEW context, NEW answers, NEW requests, NEW owed \in {0, 1},
         context \in Seq(Trade),
         IsStream(answers, V, StreamDepth), CanWrite(answers, StreamDepth),
         IsStream(requests, Instruments, StreamDepth), requests # <<>>,
         AlignedWith(memory, context, answers, requests, owed)
  PROVE  AlignedWith(memory, context, Append(answers, memory[Head(requests)]),
                     Tail(requests), owed)
<1>. DEFINE later == Append(answers, memory[Head(requests)])
            rest == Tail(requests)
<1>1. /\ Len(answers) \in Nat /\ Len(requests) \in Nat /\ Len(context) \in Nat
      /\ Head(requests) \in Instruments
      /\ Head(requests) = requests[1]
      /\ Len(requests) > 0
      /\ Len(rest) = Len(requests) - 1
      /\ \A j \in 1..Len(rest) : rest[j] = requests[j + 1]
  BY DepthTypes, ReadStream DEF IsStream
<1>2. /\ Len(later) = Len(answers) + 1
      /\ \A j \in 1..Len(answers) : later[j] = answers[j]
      /\ later[Len(answers) + 1] = memory[Head(requests)]
  BY <1>1, DepthTypes, WriteStream
<1>. HIDE DEF later, rest
<1>3. Head(requests) = context[Len(answers) + 1].instr_id
  BY <1>1 DEF AlignedWith
<1>4. ASSUME NEW j \in 1..Len(later)
      PROVE  later[j] = memory[context[j].instr_id]
  <2>1. CASE j = Len(answers) + 1
    BY <2>1, <1>2, <1>3
  <2>2. CASE j # Len(answers) + 1
    <3>1. j \in 1..Len(answers)
      BY <2>2, <1>1, <1>2
    <3>. QED  BY <3>1, <1>2 DEF AlignedWith
  <2>. QED  BY <2>1, <2>2
<1>5. ASSUME NEW j \in 1..Len(rest)
      PROVE  rest[j] = context[Len(later) + j].instr_id
  <2>1. /\ j + 1 \in 1..Len(requests)
        /\ Len(answers) + (j + 1) = Len(later) + j
    BY <1>1, <1>2
  <2>. QED  BY <2>1, <1>1 DEF AlignedWith
<1>6. AlignedWith(memory, context, later, rest, owed)
  BY <1>1, <1>2, <1>4, <1>5 DEF AlignedWith
<1>. QED  BY <1>6 DEF later, rest

(* trigger takes the oldest context and its answer together.               *)
LEMMA AlignedAfterRead ==
  ASSUME NEW V, NEW memory, NEW context, NEW answers, NEW requests, NEW owed \in {0, 1},
         IsStream(context, Trade, ContextDepth), context # <<>>,
         IsStream(answers, V, StreamDepth), answers # <<>>,
         requests \in Seq(Instruments),
         AlignedWith(memory, context, answers, requests, owed)
  PROVE  AlignedWith(memory, Tail(context), Tail(answers), requests, owed)
<1>. DEFINE later == Tail(context)
            rest == Tail(answers)
<1>1. /\ Len(answers) \in Nat /\ Len(answers) > 0
      /\ Len(rest) = Len(answers) - 1
      /\ \A j \in 1..Len(rest) : rest[j] = answers[j + 1]
  BY DepthTypes, ReadStream DEF IsStream
<1>2. /\ Len(context) \in Nat /\ Len(requests) \in Nat
      /\ Len(later) = Len(context) - 1
      /\ \A j \in 1..Len(later) : later[j] = context[j + 1]
  BY DepthTypes, ReadStream DEF IsStream
<1>. HIDE DEF later, rest
<1>3. ASSUME NEW j \in 1..Len(rest)
      PROVE  rest[j] = memory[later[j].instr_id]
  <2>1. j \in 1..Len(later) /\ j + 1 \in 1..Len(answers)
    BY <1>1, <1>2 DEF AlignedWith
  <2>. QED  BY <2>1, <1>1, <1>2 DEF AlignedWith
<1>4. ASSUME NEW j \in 1..Len(requests)
      PROVE  requests[j] = later[Len(rest) + j].instr_id
  <2>1. /\ Len(rest) + j \in 1..Len(later)
        /\ (Len(rest) + j) + 1 = Len(answers) + j
    BY <1>1, <1>2 DEF AlignedWith
  <2>. QED  BY <2>1, <1>2 DEF AlignedWith
<1>5. AlignedWith(memory, later, rest, requests, owed)
  BY <1>1, <1>2, <1>3, <1>4 DEF AlignedWith
<1>. QED  BY <1>5 DEF later, rest

(* What TypeOK says of the streams the alignment is about. *)
LEMMA StreamTypes ==
  ASSUME TypeOK
  PROVE  /\ IsStream(t2c_context, Trade, ContextDepth)
         /\ t2c_context \in Seq(Trade)
         /\ IsStream(instrument_read_responses[Me], ConfItem, StreamDepth)
         /\ instrument_read_responses[Me] \in Seq(ConfItem)
         /\ IsStream(instrument_read_bus[Me], Instruments, StreamDepth)
         /\ instrument_read_bus[Me] \in Seq(Instruments)
         /\ IsStream(books[Me], Book, StreamDepth)
         /\ books[Me] \in Seq(Book)
         /\ IsStream(read_book_request_bus[Me], Instruments, StreamDepth)
         /\ read_book_request_bus[Me] \in Seq(Instruments)
         /\ decision_data \in Trade
         /\ decision_data.instr_id \in Instruments
BY DEF TypeOK, StreamsOK, IsBus, IsStream, Trade

(* A step that changes one stream of a bus changes only that one. *)
LEMMA BusUpdate ==
  ASSUME NEW bus, NEW W, NEW d, IsBus(bus, {Me}, W, d), NEW s
  PROVE  [bus EXCEPT ![Me] = s][Me] = s
BY DEF IsBus

(* The answers waiting for trigger, and the requests behind them, are      *)
(* those of the waiting contexts, in order: trigger never pairs a trade    *)
(* with another instrument's configuration or book.                        *)
THEOREM AlwaysAligned == Spec => []Aligned
<1>1. Init => Aligned
  BY DEF Init, LocalInit, EmptyBus, Aligned, InstrumentAligned, BookAligned,
         AlignedWith, OwedAligned, InstrumentOwed, BookOwed, Me
<1>2. TypeOK /\ Aligned /\ [Next]_vars => Aligned'
  <2>. SUFFICES ASSUME TypeOK, Aligned, [Next]_vars
                PROVE  Aligned'
    OBVIOUS
  <2>. USE DEF Aligned
  <2>0. /\ ConfOf \in [Instruments -> ConfItem]
        /\ BookOf \in [Instruments -> Book]
        /\ InstrumentOwed \in {0, 1} /\ BookOwed \in {0, 1}
    BY SystemAssumption DEF InstrumentOwed, BookOwed
  <2>D. /\ IsBus(instrument_read_responses, {Me}, ConfItem, StreamDepth)
        /\ IsBus(instrument_read_bus, {Me}, Instruments, StreamDepth)
        /\ IsBus(books, {Me}, Book, StreamDepth)
        /\ IsBus(read_book_request_bus, {Me}, Instruments, StreamDepth)
    BY DEF TypeOK, StreamsOK
  <2>S. ASSUME UNCHANGED <<instrument_read_responses, instrument_read_bus, books,
                           read_book_request_bus, t2c_context, preprocess_at,
                           decision_data>>
        PROVE  Aligned'
    BY <2>S DEF InstrumentAligned, BookAligned, OwedAligned, InstrumentOwed, BookOwed
  <2>1. CASE PreprocessRead /\ UNCHANGED fed
    BY <2>1 DEF PreprocessRead, InstrumentAligned, BookAligned, OwedAligned,
                InstrumentOwed, BookOwed
  <2>2. CASE WriteContext /\ UNCHANGED fed
    <3>. USE <2>2 DEF WriteContext
    <3>1. /\ InstrumentOwed = 0 /\ InstrumentOwed' = 1
          /\ BookOwed = 0 /\ BookOwed' = 1
      BY DEF InstrumentOwed, BookOwed
    <3>2. InstrumentAligned'
      BY <3>1, StreamTypes, AlignedAfterContext DEF InstrumentAligned
    <3>3. BookAligned'
      BY <3>1, StreamTypes, AlignedAfterContext DEF BookAligned
    <3>4. OwedAligned'
      BY StreamTypes, DepthTypes, WriteStream DEF OwedAligned
    <3>. QED  BY <3>2, <3>3, <3>4
  <2>3. CASE RequestInstrument /\ UNCHANGED fed
    <3>. USE <2>3 DEF RequestInstrument
    <3>1. /\ InstrumentOwed = 1 /\ InstrumentOwed' = 0
          /\ BookOwed = 1 /\ BookOwed' = 1
          /\ t2c_context[Len(t2c_context)].instr_id = decision_data.instr_id
      BY DEF InstrumentOwed, BookOwed, OwedAligned
    <3>2. instrument_read_bus'[Me] = Append(instrument_read_bus[Me], decision_data.instr_id)
      BY <2>D, BusUpdate
    <3>3. InstrumentAligned'
      BY <3>1, <3>2, StreamTypes, AlignedAfterRequest DEF InstrumentAligned
    <3>4. BookAligned' /\ OwedAligned'
      BY <3>1 DEF BookAligned, OwedAligned
    <3>. QED  BY <3>3, <3>4
  <2>4. CASE RequestBook /\ UNCHANGED fed
    <3>. USE <2>4 DEF RequestBook
    <3>1. /\ BookOwed = 1 /\ BookOwed' = 0
          /\ InstrumentOwed = 0 /\ InstrumentOwed' = 0
          /\ t2c_context[Len(t2c_context)].instr_id = decision_data.instr_id
      BY DEF InstrumentOwed, BookOwed, OwedAligned
    <3>2. read_book_request_bus'[Me]
            = Append(read_book_request_bus[Me], decision_data.instr_id)
      BY <2>D, BusUpdate
    <3>3. BookAligned'
      BY <3>1, <3>2, StreamTypes, AlignedAfterRequest DEF BookAligned
    <3>4. InstrumentAligned' /\ OwedAligned'
      BY <3>1 DEF InstrumentAligned, OwedAligned
    <3>. QED  BY <3>3, <3>4
  <2>5. CASE TriggerRead /\ UNCHANGED fed
    <3>0. /\ t2c_context # <<>> /\ t2c_context' = Tail(t2c_context)
          /\ instrument_read_responses[Me] # <<>> /\ books[Me] # <<>>
          /\ UNCHANGED <<preprocess_at, decision_data, instrument_read_bus,
                         read_book_request_bus>>
      BY <2>5 DEF TriggerRead, preprocessVars
    <3>1. /\ InstrumentOwed' = InstrumentOwed /\ BookOwed' = BookOwed
      BY <3>0 DEF InstrumentOwed, BookOwed
    <3>2. /\ instrument_read_responses'[Me] = Tail(instrument_read_responses[Me])
          /\ books'[Me] = Tail(books[Me])
      BY <2>5, <2>D, BusUpdate DEF TriggerRead
    <3>3. InstrumentAligned'
      <4>1. AlignedWith(ConfOf, Tail(t2c_context), Tail(instrument_read_responses[Me]),
                        instrument_read_bus[Me], InstrumentOwed)
        BY <2>0, <3>0, StreamTypes, AlignedAfterRead DEF InstrumentAligned
      <4>. QED  BY <4>1, <3>0, <3>1, <3>2 DEF InstrumentAligned
    <3>4. BookAligned'
      <4>1. AlignedWith(BookOf, Tail(t2c_context), Tail(books[Me]),
                        read_book_request_bus[Me], BookOwed)
        BY <2>0, <3>0, StreamTypes, AlignedAfterRead DEF BookAligned
      <4>. QED  BY <4>1, <3>0, <3>1, <3>2 DEF BookAligned
    <3>5. OwedAligned'
      <4>. SUFFICES ASSUME preprocess_at \in {"instrument", "book"}
                    PROVE  t2c_context'[Len(t2c_context')] = decision_data
        BY <3>0 DEF OwedAligned
      <4>1. Len(t2c_context) = Len(books[Me]) + Len(read_book_request_bus[Me]) + 1
        BY DEF BookAligned, BookOwed, AlignedWith
      <4>2. /\ Len(books[Me]) \in Nat /\ Len(books[Me]) > 0
            /\ Len(read_book_request_bus[Me]) \in Nat
            /\ Len(t2c_context) \in Nat
        BY <3>0, StreamTypes, DepthTypes, ReadStream DEF IsStream
      <4>3. /\ Len(Tail(t2c_context)) \in Nat
            /\ Len(Tail(t2c_context)) = Len(t2c_context) - 1
            /\ \A j \in 1..Len(Tail(t2c_context)) :
                 Tail(t2c_context)[j] = t2c_context[j + 1]
        BY <3>0, StreamTypes, DepthTypes, ReadStream
      <4>4. Len(t2c_context) >= 2
        <5>. DEFINE b == Len(books[Me])
                    r == Len(read_book_request_bus[Me])
        <5>1. Len(t2c_context) = b + r + 1 /\ b \in Nat /\ r \in Nat /\ b > 0
          BY <4>1, <4>2
        <5>. HIDE DEF b, r
        <5>. QED  BY <5>1
      <4>5. Tail(t2c_context)[Len(Tail(t2c_context))] = t2c_context[Len(t2c_context)]
        BY <4>2, <4>3, <4>4
      <4>6. t2c_context[Len(t2c_context)] = decision_data
        BY DEF OwedAligned
      <4>. QED  BY <4>5, <4>6, <3>0
    <3>. QED  BY <3>3, <3>4, <3>5
  <2>6. CASE AnswerInstrument
    <3>0. /\ instrument_read_bus[Me] # <<>>
          /\ CanWrite(instrument_read_responses[Me], StreamDepth)
          /\ UNCHANGED <<t2c_context, preprocess_at, decision_data, books,
                         read_book_request_bus>>
      BY <2>6 DEF AnswerInstrument, preprocessVars
    <3>1. /\ InstrumentOwed' = InstrumentOwed /\ BookOwed' = BookOwed
      BY <3>0 DEF InstrumentOwed, BookOwed
    <3>2. /\ instrument_read_responses'[Me]
               = Append(instrument_read_responses[Me], ConfOf[Head(instrument_read_bus[Me])])
          /\ instrument_read_bus'[Me] = Tail(instrument_read_bus[Me])
      BY <2>6, <2>D, BusUpdate DEF AnswerInstrument
    <3>3. InstrumentAligned'
      <4>1. AlignedWith(ConfOf, t2c_context,
              Append(instrument_read_responses[Me], ConfOf[Head(instrument_read_bus[Me])]),
              Tail(instrument_read_bus[Me]), InstrumentOwed)
        BY <2>0, <3>0, StreamTypes, AlignedAfterAnswer DEF InstrumentAligned
      <4>. QED  BY <4>1, <3>0, <3>1, <3>2 DEF InstrumentAligned
    <3>4. BookAligned' /\ OwedAligned'
      BY <3>0, <3>1 DEF BookAligned, OwedAligned
    <3>. QED  BY <3>3, <3>4
  <2>7. CASE AnswerBook
    <3>0. /\ read_book_request_bus[Me] # <<>>
          /\ CanWrite(books[Me], StreamDepth)
          /\ UNCHANGED <<t2c_context, preprocess_at, decision_data,
                         instrument_read_responses, instrument_read_bus>>
      BY <2>7 DEF AnswerBook, preprocessVars
    <3>1. /\ InstrumentOwed' = InstrumentOwed /\ BookOwed' = BookOwed
      BY <3>0 DEF InstrumentOwed, BookOwed
    <3>2. /\ books'[Me] = Append(books[Me], BookOf[Head(read_book_request_bus[Me])])
          /\ read_book_request_bus'[Me] = Tail(read_book_request_bus[Me])
      BY <2>7, <2>D, BusUpdate DEF AnswerBook
    <3>3. BookAligned'
      <4>1. AlignedWith(BookOf, t2c_context,
              Append(books[Me], BookOf[Head(read_book_request_bus[Me])]),
              Tail(read_book_request_bus[Me]), BookOwed)
        BY <2>0, <3>0, StreamTypes, AlignedAfterAnswer DEF BookAligned
      <4>. QED  BY <4>1, <3>0, <3>1, <3>2 DEF BookAligned
    <3>4. InstrumentAligned' /\ OwedAligned'
      BY <3>0, <3>1 DEF InstrumentAligned, OwedAligned
    <3>. QED  BY <3>3, <3>4
  <2>8. CASE \/ FeedWord \/ SinkCommand \/ SinkNotification
             \/ (WriteCommand \/ WriteNotification) /\ UNCHANGED fed
             \/ UNCHANGED vars
    BY <2>8, <2>S DEF FeedWord, SinkCommand, SinkNotification, WriteCommand,
                      WriteNotification, preprocessVars, vars, t2cVars, t2cStreams
  <2>. QED
    BY <2>1, <2>2, <2>3, <2>4, <2>5, <2>6, <2>7, <2>8 DEF Next, Preprocess, Trigger
<1>. QED  BY <1>1, <1>2, TypeCorrect, PTL DEF Spec

(* Every verdict is the one the trade deserves by the configuration and    *)
(* the book of its own instrument.                                         *)
THEOREM AlwaysJust == Spec => []JustVerdict
<1>1. ASSUME TypeOK, Aligned,
             instrument_read_responses[Me] # <<>>, books[Me] # <<>>, t2c_context # <<>>
      PROVE  /\ Head(instrument_read_responses[Me]) = ConfOf[Head(t2c_context).instr_id]
             /\ Head(books[Me]) = BookOf[Head(t2c_context).instr_id]
  <2>1. /\ Head(t2c_context) = t2c_context[1]
        /\ Head(books[Me]) = books[Me][1]
        /\ Head(instrument_read_responses[Me]) = instrument_read_responses[Me][1]
    BY <1>1, StreamTypes, DepthTypes, ReadStream
  <2>2. 1 \in 1..Len(books[Me]) /\ 1 \in 1..Len(instrument_read_responses[Me])
    BY <1>1, StreamTypes, DepthTypes, ReadStream DEF IsStream
  <2>. QED  BY <1>1, <2>1, <2>2 DEF Aligned, InstrumentAligned, BookAligned, AlignedWith
<1>2. TypeOK /\ Aligned /\ HitJust => JustVerdict
  BY <1>1 DEF JustVerdict, HeadsJust
<1>3. Init => HitJust
  BY DEF Init, LocalInit, HitJust
<1>4. TypeOK /\ Aligned /\ HitJust /\ [Next]_vars => HitJust'
  <2>. SUFFICES ASSUME TypeOK, Aligned, HitJust, [Next]_vars
                PROVE  HitJust'
    OBVIOUS
  <2>1. CASE TriggerRead /\ UNCHANGED fed
    <3>. DEFINE trade == Head(t2c_context)
    <3>1. /\ trade \in Trade
          /\ Head(instrument_read_responses[Me]) \in ConfItem
          /\ Head(books[Me]) \in Book
      BY <2>1, StreamTypes, DepthTypes, ReadStream DEF TriggerRead
    <3>2. hit' = Verdict(ConfOf[trade.instr_id], BookOf[trade.instr_id], trade)
      BY <2>1, <1>1 DEF TriggerRead
    <3>3. /\ ConfOf[trade.instr_id] \in ConfItem
          /\ BookOf[trade.instr_id] \in Book
      BY <2>1, <1>1, <3>1 DEF TriggerRead
    <3>4. hit' # NoHit => hit'.trade = trade
      BY <3>1, <3>2, <3>3, VerdictType
    <3>. QED  BY <3>2, <3>4 DEF HitJust
  <2>2. CASE WriteNotification /\ UNCHANGED fed
    BY <2>2 DEF WriteNotification, HitJust
  <2>3. ASSUME UNCHANGED hit
        PROVE  HitJust'
    BY <2>3 DEF HitJust
  <2>4. CASE \/ FeedWord \/ SinkCommand \/ SinkNotification
             \/ AnswerInstrument \/ AnswerBook
             \/ (WriteCommand \/ Preprocess) /\ UNCHANGED fed
             \/ UNCHANGED vars
    BY <2>4, <2>3 DEF FeedWord, SinkCommand, SinkNotification, AnswerInstrument,
       AnswerBook, WriteCommand, Preprocess, PreprocessRead, WriteContext,
       RequestInstrument, RequestBook, triggerVars, vars, t2cVars
  <2>. QED  BY <2>1, <2>2, <2>4 DEF Next, Trigger
<1>. QED  BY <1>2, <1>3, <1>4, TypeCorrect, AlwaysAligned, PTL DEF Spec
-----------------------------------------------------------------------------
(* A hit owes its command and then its notification.                       *)
LEMMA OwedByHit ==
  ASSUME NEW h, h # NoHit
  PROVE  /\ Len(Outputs(h)) = 2
         /\ Head(Outputs(h)) = Command(h)
         /\ Tail(Outputs(h)) = <<Notification(h)>>
<1>1. Outputs(h) = <<Command(h), Notification(h)>>
  BY DEF Outputs
<1>2. /\ Len(<<Command(h), Notification(h)>>) = 2
      /\ Head(<<Command(h), Notification(h)>>) = Command(h)
  OBVIOUS
<1>3. Tail(<<Command(h), Notification(h)>>) = <<Notification(h)>>
  OBVIOUS
<1>. QED  BY <1>1, <1>2, <1>3

(* The first of the pending trades is that of the oldest context, whether  *)
(* or not preprocess_nxbus holds a newer one.                              *)
LEMMA OldestPending ==
  ASSUME NEW context \in Seq(Trade), context # <<>>, NEW data \in Trade
  PROVE  /\ Append(context, data) # <<>>
         /\ Head(Append(context, data)) = Head(context)
         /\ Tail(Append(context, data)) = Append(Tail(context), data)
<1>1. Append(context, data) # <<>> /\ Head(Append(context, data)) = Head(context)
  OBVIOUS
<1>2. Tail(Append(context, data)) = Append(Tail(context), data)
  OBVIOUS
<1>. QED  BY <1>1, <1>2

(* Every step of the two processes and the memories is a step of the       *)
(* abstract strategy or leaves what it sees as it is.                      *)
LEMMA RefinementStep ==
  ASSUME TypeOK, TypeOK', JustVerdict, [Next]_vars
  PROVE  [Decisions!Next]_(Decisions!vars)
<1>. DEFINE unseen == UNCHANGED <<start_of_nxbus_command, decision_data.packet,
                                  PendingTrades, OwedOutputs, decisions_outputs[Me],
                                  tick2cancel_to_notifs>>
<1>0. unseen => [Decisions!Next]_(Decisions!vars)
  BY DEF Decisions!vars
<1>. HIDE DEF unseen
<1>1. CASE FeedWord
  <2>1. unseen
    BY <1>1 DEF FeedWord, preprocessVars, triggerVars, PendingTrades, OwedOutputs, unseen
  <2>. QED  BY <2>1, <1>0
<1>2. CASE PreprocessRead /\ UNCHANGED fed
  <2>. USE <1>2 DEF PreprocessRead
  <2>. DEFINE word == Head(nxbus_outputs[Me])
  <2>1. word \in nxbus
    BY BusStream, ReadStream, DepthTypes DEF TypeOK, StreamsOK
  <2>2. PendingTrades = t2c_context /\ UNCHANGED OwedOutputs
    BY DEF PendingTrades, OwedOutputs, triggerVars
  <2>3. /\ decision_data'.packet = IF Opens(word, "PKT_INFO") THEN word.packet
                                   ELSE decision_data.packet
        /\ Opens(word, "TRADE_SUMMARY") =>
             decision_data' = TradeOfWord(word, decision_data.packet)
    BY DEF DataAfter, TradeOfWord, Opens, TypeOK, Trade
  <2>4. PendingTrades' = IF Opens(word, "TRADE_SUMMARY")
                         THEN Append(t2c_context, TradeOfWord(word, decision_data.packet))
                         ELSE t2c_context
    BY <2>3 DEF PendingTrades
  <2>5. Decisions!Read(word)
    BY <2>2, <2>3, <2>4 DEF Decisions!Read, Opens
  <2>6. word \in Decisions!nxbus
    BY <2>1 DEF nxbus, Decisions!nxbus, Opcode, Decisions!Opcode, Side, Decisions!Side
  <2>. HIDE DEF word
  <2>. QED  BY <2>5, <2>6 DEF Decisions!Next
<1>3. CASE WriteContext /\ UNCHANGED fed
  <2>1. unseen
    BY <1>3 DEF WriteContext, triggerVars, PendingTrades, OwedOutputs, unseen
  <2>. QED  BY <2>1, <1>0
<1>4. CASE RequestInstrument /\ UNCHANGED fed
  <2>1. unseen
    BY <1>4 DEF RequestInstrument, triggerVars, PendingTrades, OwedOutputs, unseen
  <2>. QED  BY <2>1, <1>0
<1>5. CASE RequestBook /\ UNCHANGED fed
  <2>1. unseen
    BY <1>5 DEF RequestBook, triggerVars, PendingTrades, OwedOutputs, unseen
  <2>. QED  BY <2>1, <1>0
<1>6. CASE TriggerRead /\ UNCHANGED fed
  <2>. USE <1>6 DEF TriggerRead
  <2>. DEFINE trade == Head(t2c_context)
  <2>1. /\ PendingTrades # <<>> /\ Head(PendingTrades) = trade
        /\ PendingTrades' = Tail(PendingTrades)
    BY OldestPending DEF PendingTrades, preprocessVars, TypeOK, StreamsOK, IsStream
  <2>2. hit' = Verdict(ConfOf[trade.instr_id], BookOf[trade.instr_id], trade)
    BY DEF JustVerdict, HeadsJust
  <2>3. OwedOutputs = <<>> /\ OwedOutputs' = Outputs(hit')
    BY DEF OwedOutputs, Outputs
  <2>4. Outputs(hit') = VerdictOn(trade)
    BY <2>2 DEF VerdictOn
  <2>5. UNCHANGED <<start_of_nxbus_command, decision_data.packet,
                    decisions_outputs[Me], tick2cancel_to_notifs>>
    BY DEF preprocessVars
  <2>. HIDE DEF trade
  <2>6. Decisions!Decide
    BY <2>1, <2>3, <2>4, <2>5 DEF Decisions!Decide
  <2>. QED  BY <2>6 DEF Decisions!Next
<1>7. CASE WriteCommand /\ UNCHANGED fed
  <2>. USE <1>7 DEF WriteCommand
  <2>1. OwedOutputs = Outputs(hit) /\ OwedOutputs' = <<Notification(hit)>>
    BY DEF OwedOutputs
  <2>2. hit # NoHit
    BY DEF TypeOK
  <2>3. decisions_outputs'[Me] = Append(decisions_outputs[Me], Command(hit))
    BY DEF TypeOK, StreamsOK, IsBus
  <2>4. UNCHANGED <<PendingTrades, start_of_nxbus_command, decision_data.packet>>
    BY DEF PendingTrades, preprocessVars
  <2>5. Decisions!EmitCommand
    BY <2>1, <2>2, <2>3, <2>4, OwedByHit
    DEF Decisions!EmitCommand, CanWrite, Decisions!CanWrite
  <2>. QED  BY <2>5 DEF Decisions!Next
<1>8. CASE WriteNotification /\ UNCHANGED fed
  <2>. USE <1>8 DEF WriteNotification
  <2>1. /\ OwedOutputs = <<Notification(hit)>> /\ OwedOutputs' = <<>>
        /\ UNCHANGED <<PendingTrades, start_of_nxbus_command, decision_data.packet>>
    BY DEF OwedOutputs, PendingTrades, preprocessVars
  <2>2. Len(<<Notification(hit)>>) = 1 /\ Head(<<Notification(hit)>>) = Notification(hit)
    OBVIOUS
  <2>3. Decisions!EmitNotification
    BY <2>1, <2>2 DEF Decisions!EmitNotification, CanWrite, Decisions!CanWrite
  <2>. QED  BY <2>3 DEF Decisions!Next
<1>9. CASE AnswerInstrument
  <2>1. unseen
    BY <1>9 DEF AnswerInstrument, preprocessVars, triggerVars, PendingTrades,
                OwedOutputs, unseen
  <2>. QED  BY <2>1, <1>0
<1>10. CASE AnswerBook
  <2>1. unseen
    BY <1>10 DEF AnswerBook, preprocessVars, triggerVars, PendingTrades,
                 OwedOutputs, unseen
  <2>. QED  BY <2>1, <1>0
<1>11. CASE SinkCommand
  <2>. USE <1>11 DEF SinkCommand, preprocessVars, triggerVars
  <2>1. UNCHANGED <<PendingTrades, OwedOutputs>>
    BY DEF PendingTrades, OwedOutputs
  <2>2. decisions_outputs'[Me] = Tail(decisions_outputs[Me])
    BY DEF TypeOK, StreamsOK, IsBus
  <2>3. Decisions!TakeCommand
    BY <2>1, <2>2 DEF Decisions!TakeCommand
  <2>. QED  BY <2>3 DEF Decisions!Next
<1>12. CASE SinkNotification
  <2>. USE <1>12 DEF SinkNotification, preprocessVars, triggerVars
  <2>1. UNCHANGED <<PendingTrades, OwedOutputs>>
    BY DEF PendingTrades, OwedOutputs
  <2>2. Decisions!TakeNotification
    BY <2>1 DEF Decisions!TakeNotification
  <2>. QED  BY <2>2 DEF Decisions!Next
<1>13. CASE UNCHANGED vars
  <2>1. unseen
    BY <1>13 DEF vars, t2cVars, t2cStreams, preprocessVars, triggerVars,
                 PendingTrades, OwedOutputs, unseen
  <2>. QED  BY <2>1, <1>0
<1>. QED
  BY <1>1, <1>2, <1>3, <1>4, <1>5, <1>6, <1>7, <1>8, <1>9, <1>10, <1>11, <1>12, <1>13
  DEF Next, Preprocess, Trigger

(* Each trade is decided once and in order, on its own instrument's data   *)
(* and packet, and what it fires leaves command first, however the two     *)
(* processes and the memories interleave: Tick2cancel implements           *)
(* TradeDecisions.                                                         *)
THEOREM Implements == Spec => DecidesEveryTrade
<1>1. Init => Decisions!Init
  BY DEF Init, LocalInit, EmptyBus, Me, Decisions!Init, PendingTrades, OwedOutputs
<1>2. TypeOK /\ TypeOK' /\ JustVerdict /\ [Next]_vars
        => [Decisions!Next]_(Decisions!vars)
  BY RefinementStep
<1>. QED
  BY <1>1, <1>2, TypeCorrect, AlwaysJust, PTL
  DEF Spec, DecidesEveryTrade, Decisions!Spec
=============================================================================
