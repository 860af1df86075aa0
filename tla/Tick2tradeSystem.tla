-------------------------- MODULE Tick2tradeSystem --------------------------
(***************************************************************************)
(* Tick2trade with a feed of nxBus words, constant memories that answer    *)
(* its read requests, and sinks for its two outputs.                       *)
(***************************************************************************)
EXTENDS Tick2trade

CONSTANTS
  Feed,      (* the words the feed may carry            *)
  MaxWords,  (* bound on the words fed                  *)
  ConfOf     (* the configuration of each instrument    *)

ASSUME T2tSystemAssumption ==
  /\ Feed \subseteq nxbus /\ MaxWords \in Nat
  /\ ConfOf \in [Instruments -> ConfItem]

VARIABLE fed  \* number of words fed

vars == <<t2tVars, fed>>

EmptyBus == [i \in {Me} |-> <<>>]

Init ==
  /\ LocalInit
  /\ nxbus_outputs = EmptyBus /\ decisions_outputs = EmptyBus
  /\ instrument_read_bus = EmptyBus /\ instrument_read_responses = EmptyBus
  /\ read_book_request_bus = EmptyBus /\ books = EmptyBus
  /\ tick2trade_to_notifs = <<>> /\ fed = 0

FeedWord ==
  /\ fed < MaxWords /\ fed' = fed + 1
  /\ CanWrite(nxbus_outputs[Me], StreamDepth)
  /\ \E word \in Feed :
       nxbus_outputs' = [nxbus_outputs EXCEPT ![Me] = Append(@, word)]
  /\ UNCHANGED <<algoVars, instrument_read_bus, instrument_read_responses,
                 read_book_request_bus, books, decisions_outputs, tick2trade_to_notifs>>

AnswerInstrument ==
  /\ instrument_read_bus[Me] # <<>>
  /\ CanWrite(instrument_read_responses[Me], StreamDepth)
  /\ instrument_read_responses' = [instrument_read_responses EXCEPT ![Me] =
                                     Append(@, ConfOf[Head(instrument_read_bus[Me])])]
  /\ instrument_read_bus' = [instrument_read_bus EXCEPT ![Me] = Tail(@)]
  /\ UNCHANGED <<algoVars, nxbus_outputs, read_book_request_bus, books,
                 decisions_outputs, tick2trade_to_notifs, fed>>

(* The book is read and dropped: which book it is makes no difference, so  *)
(* the answer is the instrument it was asked for.                          *)
AnswerBook ==
  /\ read_book_request_bus[Me] # <<>>
  /\ CanWrite(books[Me], StreamDepth)
  /\ books' = [books EXCEPT ![Me] = Append(@, Head(read_book_request_bus[Me]))]
  /\ read_book_request_bus' = [read_book_request_bus EXCEPT ![Me] = Tail(@)]
  /\ UNCHANGED <<algoVars, nxbus_outputs, instrument_read_bus,
                 instrument_read_responses, decisions_outputs,
                 tick2trade_to_notifs, fed>>

SinkCommand ==
  /\ decisions_outputs[Me] # <<>>
  /\ decisions_outputs' = [decisions_outputs EXCEPT ![Me] = Tail(@)]
  /\ UNCHANGED <<algoVars, nxbus_outputs, instrument_read_bus,
                 instrument_read_responses, read_book_request_bus, books,
                 tick2trade_to_notifs, fed>>

SinkNotification ==
  /\ tick2trade_to_notifs # <<>>
  /\ tick2trade_to_notifs' = Tail(tick2trade_to_notifs)
  /\ UNCHANGED <<algoVars, nxbus_outputs, instrument_read_bus,
                 instrument_read_responses, read_book_request_bus, books,
                 decisions_outputs, fed>>

Next ==
  \/ FeedWord
  \/ p_algo /\ UNCHANGED fed
  \/ AnswerInstrument \/ AnswerBook
  \/ SinkCommand \/ SinkNotification

Spec == Init /\ [][Next]_vars

(* Every process of the dataflow region runs at every clock. *)
FairSpec ==
  /\ Spec /\ WF_vars(p_algo /\ UNCHANGED fed)
  /\ WF_vars(AnswerInstrument) /\ WF_vars(AnswerBook)
  /\ WF_vars(SinkCommand) /\ WF_vars(SinkNotification)
-----------------------------------------------------------------------------
PendingData == [instr_id: Instruments, price: Prices, buy_nsell: Side]
Shot == {NoShot} \cup [side: {"B", "S"}, pending: PendingData, packet: Packets,
                       collection: Nat, threshold: Prices]
T2tCommand == [last: {TRUE}, collection: Nat, packet: Packets, side: {"B", "S"}]
T2tNotification == [source: {11}, msg_type: {1, 2}, length: {32}, collection: Nat,
                    price: Prices, instr_id: Instruments, threshold: Prices,
                    is_bid: {0}]

(* The streams hold at most their depth, and p_algo has something to write *)
(* exactly while it writes.                                                *)
TypeOK ==
  /\ IsBus(nxbus_outputs, {Me}, nxbus, StreamDepth)
  /\ IsBus(instrument_read_bus, {Me}, Instruments, StreamDepth)
  /\ IsBus(instrument_read_responses, {Me}, ConfItem, StreamDepth)
  /\ IsBus(read_book_request_bus, {Me}, Instruments, StreamDepth)
  /\ IsBus(books, {Me}, Instruments, StreamDepth)
  /\ IsBus(decisions_outputs, {Me}, T2tCommand, StreamDepth)
  /\ IsStream(tick2trade_to_notifs, T2tNotification, NotifDepth)
  /\ start_of_nxbus_command \in BOOLEAN
  /\ pending_nxbus_data \in PendingData
  /\ last_packet \in Packets
  /\ algo_at \in {"ready", "instrument", "book", "waiting", "command", "notification"}
  /\ shot \in Shot
  /\ (shot # NoShot) <=> (algo_at \in {"command", "notification"})
  /\ fed \in 0..MaxWords

(* One question under way on a path to a memory, or none. *)
UnderWay(requests, answers, instr, answer) ==
  \/ requests = <<instr>> /\ answers = <<>>
  \/ requests = <<>> /\ answers = <<answer>>

(* p_algo is in lockstep with both memories: outside its wait nothing it   *)
(* asked for is left in a request or answer stream to be taken for the     *)
(* answer to the next trade, and during it the one answer to come is that  *)
(* of the pending trade.                                                   *)
Lockstep ==
  LET instr == pending_nxbus_data.instr_id
      confAsked == algo_at \in {"book", "waiting"}
      bookAsked == algo_at = "waiting"
  IN /\ IF confAsked
        THEN UnderWay(instrument_read_bus[Me], instrument_read_responses[Me],
                      instr, ConfOf[instr])
        ELSE instrument_read_bus[Me] = <<>> /\ instrument_read_responses[Me] = <<>>
     /\ IF bookAsked
        THEN UnderWay(read_book_request_bus[Me], books[Me], instr, instr)
        ELSE read_book_request_bus[Me] = <<>> /\ books[Me] = <<>>
-----------------------------------------------------------------------------
(* Tick2trade keeps the promise of TradeDecisions, one trade at a time. *)
TradeOfWord(word, p) == [pending |-> Pending(word), packet |-> p]

Outputs(s) == IF s = NoShot THEN <<>> ELSE <<Command(s), Notification(s)>>
VerdictOn(trade) ==
  Outputs(Verdict(ConfOf[trade.pending.instr_id], trade.pending, trade.packet))

PendingTrades ==
  IF algo_at \in {"instrument", "book", "waiting"}
  THEN <<[pending |-> pending_nxbus_data, packet |-> last_packet]>> ELSE <<>>
OwedOutputs ==
  IF algo_at = "command" THEN Outputs(shot)
  ELSE IF algo_at = "notification" THEN <<Notification(shot)>> ELSE <<>>

Decisions == INSTANCE TradeDecisions WITH
  TradeOf <- TradeOfWord, VerdictOf <- VerdictOn,
  CommandDepth <- StreamDepth, NotificationDepth <- NotifDepth,
  start <- start_of_nxbus_command, packet <- last_packet,
  trades <- PendingTrades, owed <- OwedOutputs,
  commands <- decisions_outputs[Me], notifications <- tick2trade_to_notifs

(* Each trade is decided once, in order, on its own instrument's           *)
(* configuration and packet.                                               *)
DecidesEveryTrade == Decisions!Spec

(* p_algo always comes back to its input: once the feed pauses it is ready *)
(* with nothing left to decide or to write.                                *)
Drains == <>[](algo_at = "ready" /\ nxbus_outputs[Me] = <<>>)
=============================================================================
