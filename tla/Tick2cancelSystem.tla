-------------------------- MODULE Tick2cancelSystem --------------------------
(***************************************************************************)
(* Tick2cancel with the rest of the design reduced to what the strategy    *)
(* sees of it: a feed of nxBus words, memories that answer read requests   *)
(* in the order they were made, and sinks for the two outputs.  The        *)
(* memories are constant here; Top puts the real ones in their place.      *)
(***************************************************************************)
EXTENDS Tick2cancel

CONSTANTS
  Feed,      (* the words the feed may carry                               *)
  MaxWords,  (* bound on the words fed                                     *)
  ConfOf,    (* the configuration of each instrument                       *)
  BookOf     (* the book of each instrument                                *)

ASSUME SystemAssumption ==
  /\ Feed \subseteq nxbus
  /\ MaxWords \in Nat
  /\ ConfOf \in [Instruments -> ConfItem]
  /\ BookOf \in [Instruments -> Book]

VARIABLE fed  \* number of words fed

vars == <<t2cVars, fed>>

EmptyBus == [i \in {Me} |-> <<>>]

Init ==
  /\ LocalInit
  /\ nxbus_outputs = EmptyBus /\ decisions_outputs = EmptyBus
  /\ instrument_read_bus = EmptyBus /\ instrument_read_responses = EmptyBus
  /\ read_book_request_bus = EmptyBus /\ books = EmptyBus
  /\ t2c_context = <<>> /\ tick2cancel_to_notifs = <<>>
  /\ fed = 0

FeedWord ==
  /\ fed < MaxWords /\ fed' = fed + 1
  /\ CanWrite(nxbus_outputs[Me], StreamDepth)
  /\ \E word \in Feed :
       nxbus_outputs' = [nxbus_outputs EXCEPT ![Me] = Append(@, word)]
  /\ UNCHANGED <<preprocessVars, triggerVars, instrument_read_bus,
                 instrument_read_responses, read_book_request_bus, books,
                 t2c_context, decisions_outputs, tick2cancel_to_notifs>>

AnswerInstrument ==
  /\ instrument_read_bus[Me] # <<>>
  /\ CanWrite(instrument_read_responses[Me], StreamDepth)
  /\ instrument_read_responses' = [instrument_read_responses EXCEPT ![Me] =
                                     Append(@, ConfOf[Head(instrument_read_bus[Me])])]
  /\ instrument_read_bus' = [instrument_read_bus EXCEPT ![Me] = Tail(@)]
  /\ UNCHANGED <<preprocessVars, triggerVars, nxbus_outputs, read_book_request_bus,
                 books, t2c_context, decisions_outputs, tick2cancel_to_notifs, fed>>

AnswerBook ==
  /\ read_book_request_bus[Me] # <<>>
  /\ CanWrite(books[Me], StreamDepth)
  /\ books' = [books EXCEPT ![Me] = Append(@, BookOf[Head(read_book_request_bus[Me])])]
  /\ read_book_request_bus' = [read_book_request_bus EXCEPT ![Me] = Tail(@)]
  /\ UNCHANGED <<preprocessVars, triggerVars, nxbus_outputs, instrument_read_bus,
                 instrument_read_responses, t2c_context, decisions_outputs,
                 tick2cancel_to_notifs, fed>>

SinkCommand ==
  /\ decisions_outputs[Me] # <<>>
  /\ decisions_outputs' = [decisions_outputs EXCEPT ![Me] = Tail(@)]
  /\ UNCHANGED <<preprocessVars, triggerVars, nxbus_outputs, instrument_read_bus,
                 instrument_read_responses, read_book_request_bus, books,
                 t2c_context, tick2cancel_to_notifs, fed>>

SinkNotification ==
  /\ tick2cancel_to_notifs # <<>>
  /\ tick2cancel_to_notifs' = Tail(tick2cancel_to_notifs)
  /\ UNCHANGED <<preprocessVars, triggerVars, nxbus_outputs, instrument_read_bus,
                 instrument_read_responses, read_book_request_bus, books,
                 t2c_context, decisions_outputs, fed>>

Next ==
  \/ FeedWord
  \/ Preprocess /\ UNCHANGED fed
  \/ Trigger /\ UNCHANGED fed
  \/ AnswerInstrument \/ AnswerBook
  \/ SinkCommand \/ SinkNotification

Spec == Init /\ [][Next]_vars

(* Every process of the dataflow region runs at every clock. *)
FairSpec ==
  /\ Spec
  /\ WF_vars(Preprocess /\ UNCHANGED fed) /\ WF_vars(Trigger /\ UNCHANGED fed)
  /\ WF_vars(AnswerInstrument) /\ WF_vars(AnswerBook)
  /\ WF_vars(SinkCommand) /\ WF_vars(SinkNotification)
-----------------------------------------------------------------------------
Hit == {NoHit} \cup [side: {"bid", "ask"}, collection: Nat, trade: Trade,
                     top: Prices, threshold: Prices]
T2cCommand == [last: {TRUE}, collection: Nat, packet: Packets]
T2cNotification == [source: {10}, msg_type: {1, 2}, length: {48}, collection: Nat,
                    price: Prices, top: Prices, instr_id: Instruments,
                    threshold: Prices, is_bid: {0, 1}]

StreamsOK ==
  /\ IsBus(nxbus_outputs, {Me}, nxbus, StreamDepth)
  /\ IsBus(instrument_read_bus, {Me}, Instruments, StreamDepth)
  /\ IsBus(instrument_read_responses, {Me}, ConfItem, StreamDepth)
  /\ IsBus(read_book_request_bus, {Me}, Instruments, StreamDepth)
  /\ IsBus(books, {Me}, Book, StreamDepth)
  /\ IsStream(t2c_context, Trade, ContextDepth)
  /\ IsBus(decisions_outputs, {Me}, T2cCommand, StreamDepth)
  /\ IsStream(tick2cancel_to_notifs, T2cNotification, NotifDepth)

(* Every stream holds at most its depth of well-formed entries, and the    *)
(* two processes are at one of their writes with something to write.       *)
TypeOK ==
  /\ StreamsOK
  /\ start_of_nxbus_command \in BOOLEAN
  /\ decision_data \in Trade
  /\ preprocess_at \in {"read", "context", "instrument", "book"}
  /\ trigger_at \in {"read", "command", "notification"}
  /\ hit \in Hit
  /\ (hit = NoHit) <=> (trigger_at = "read")
  /\ fed \in 0..MaxWords

(* Contexts whose request has not been written yet: the newest one, while  *)
(* preprocess_nxbus is between its writes.                                 *)
InstrumentOwed == IF preprocess_at = "instrument" THEN 1 ELSE 0
BookOwed == IF preprocess_at \in {"instrument", "book"} THEN 1 ELSE 0

(* The answers, then the requests under way, then the request owed, are    *)
(* those of the contexts waiting in t2c_context, one each and in order.    *)
AlignedWith(memory, context, answers, requests, owed) ==
  /\ Len(context) = Len(answers) + Len(requests) + owed
  /\ \A j \in 1..Len(answers) : answers[j] = memory[context[j].instr_id]
  /\ \A j \in 1..Len(requests) :
       requests[j] = context[Len(answers) + j].instr_id

InstrumentAligned ==
  AlignedWith(ConfOf, t2c_context, instrument_read_responses[Me],
              instrument_read_bus[Me], InstrumentOwed)

BookAligned ==
  AlignedWith(BookOf, t2c_context, books[Me], read_book_request_bus[Me], BookOwed)

(* A request still to be written is for the newest context. *)
OwedAligned ==
  preprocess_at \in {"instrument", "book"} =>
    t2c_context[Len(t2c_context)] = decision_data

(* The three streams trigger reads together stay in step: the heads it     *)
(* finds are always of one and the same trade, however the two memories'   *)
(* delays differ and wherever preprocess_nxbus is blocked.                 *)
Aligned == InstrumentAligned /\ BookAligned /\ OwedAligned

(* What trigger finds at the heads of its streams decides the trade like   *)
(* its own instrument's configuration and book.                            *)
HeadsJust ==
  ( /\ instrument_read_responses[Me] # <<>>
    /\ books[Me] # <<>>
    /\ t2c_context # <<>> ) =>
    LET trade == Head(t2c_context)
    IN Verdict(Head(instrument_read_responses[Me]), Head(books[Me]), trade)
         = Verdict(ConfOf[trade.instr_id], BookOf[trade.instr_id], trade)

HitJust ==
  hit # NoHit =>
    hit = Verdict(ConfOf[hit.trade.instr_id], BookOf[hit.trade.instr_id], hit.trade)

(* The verdict trigger is about to reach, or is writing out, is the one    *)
(* the trade deserves by its own instrument's configuration and book.      *)
JustVerdict == HeadsJust /\ HitJust
-----------------------------------------------------------------------------
(* Tick2cancel keeps the promise of TradeDecisions.  A trade is pending    *)
(* from the word that announces it to the read by trigger.                 *)
TradeOfWord(word, p) ==
  [instr_id |-> word.instr_id, price |-> word.price, packet |-> p]

Outputs(h) == IF h = NoHit THEN <<>> ELSE <<Command(h), Notification(h)>>
VerdictOn(trade) ==
  Outputs(Verdict(ConfOf[trade.instr_id], BookOf[trade.instr_id], trade))

PendingTrades ==
  IF preprocess_at = "context" THEN Append(t2c_context, decision_data) ELSE t2c_context
OwedOutputs ==
  CASE trigger_at = "read" -> <<>>
    [] trigger_at = "command" -> Outputs(hit)
    [] trigger_at = "notification" -> <<Notification(hit)>>

Decisions == INSTANCE TradeDecisions WITH
  TradeOf <- TradeOfWord, VerdictOf <- VerdictOn,
  CommandDepth <- StreamDepth, NotificationDepth <- NotifDepth,
  start <- start_of_nxbus_command, packet <- decision_data.packet,
  trades <- PendingTrades, owed <- OwedOutputs,
  commands <- decisions_outputs[Me], notifications <- tick2cancel_to_notifs

(* Each trade is decided once, in order, on its own instrument's data and  *)
(* packet, whatever the interleaving of the two processes and the memories. *)
DecidesEveryTrade == Decisions!Spec

(* The cycle preprocess -> memories -> trigger never locks up: once the    *)
(* feed pauses, every trade gets its decision and every output leaves.     *)
Drains == <>[](PendingTrades = <<>> /\ OwedOutputs = <<>> /\ preprocess_at = "read")
=============================================================================
