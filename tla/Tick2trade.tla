----------------------------- MODULE Tick2trade -----------------------------
(***************************************************************************)
(* The Tick2trade strategy (tick2trade.cpp): one process, p_algo, which    *)
(* reads no market data between a trade summary and its decision.  It      *)
(* waits for both answers although it uses the configuration only.         *)
(***************************************************************************)
EXTENDS HlsStream, Nxbus

CONSTANTS StreamDepth, NotifDepth

ASSUME T2tDepthAssumption == {StreamDepth, NotifDepth} \subseteq Nat \ {0}

VARIABLES
  nxbus_outputs, instrument_read_bus, instrument_read_responses,
  read_book_request_bus, books, decisions_outputs, tick2trade_to_notifs,
  start_of_nxbus_command,  \* statics of p_algo
  pending_nxbus_data,
  last_packet,             \* last_sequence_number and source_id
  algo_at,                 \* "ready", "waiting" or the next blocking write
  shot                     \* what p_algo is writing

algoVars == <<start_of_nxbus_command, pending_nxbus_data, last_packet, algo_at, shot>>
t2tStreams == <<nxbus_outputs, instrument_read_bus, instrument_read_responses,
                read_book_request_bus, books, decisions_outputs,
                tick2trade_to_notifs>>
t2tVars == <<t2tStreams, algoVars>>

Me == 1  \* DecisionBusIndex Tick2Trade

NoShot == [side |-> "none"]

(* What p_algo retains of the word of a trade summary. *)
Pending(word) ==
  [instr_id |-> word.instr_id, price |-> word.price, buy_nsell |-> word.buy_nsell]

LocalInit ==
  /\ start_of_nxbus_command = TRUE
  /\ pending_nxbus_data = [instr_id |-> 0, price |-> 0, buy_nsell |-> 0]
  /\ last_packet = 0
  /\ algo_at = "ready"
  /\ shot = NoShot
-----------------------------------------------------------------------------
(* Mutant: the extra words of a command are decoded like first words. *)
OpensAnywhere(word, opcode) == word.opcode = opcode

Opens(word, opcode) == start_of_nxbus_command /\ word.opcode = opcode

ReadNxbus ==
  /\ algo_at = "ready"
  /\ nxbus_outputs[Me] # <<>>
  /\ LET word == Head(nxbus_outputs[Me])
     IN /\ last_packet' = IF Opens(word, "PKT_INFO") THEN word.packet ELSE last_packet
        /\ IF Opens(word, "TRADE_SUMMARY")
           THEN pending_nxbus_data' = Pending(word) /\ algo_at' = "instrument"
           ELSE UNCHANGED <<pending_nxbus_data, algo_at>>
        /\ start_of_nxbus_command' = word.end_of_extra
  /\ nxbus_outputs' = [nxbus_outputs EXCEPT ![Me] = Tail(@)]
  /\ UNCHANGED <<shot, instrument_read_bus, instrument_read_responses,
                 read_book_request_bus, books, decisions_outputs, tick2trade_to_notifs>>

RequestInstrument ==
  /\ algo_at = "instrument"
  /\ CanWrite(instrument_read_bus[Me], StreamDepth)
  /\ instrument_read_bus' =
       [instrument_read_bus EXCEPT ![Me] = Append(@, pending_nxbus_data.instr_id)]
  /\ algo_at' = "book"
  /\ UNCHANGED <<start_of_nxbus_command, pending_nxbus_data, last_packet, shot,
                 nxbus_outputs, instrument_read_responses, read_book_request_bus,
                 books, decisions_outputs, tick2trade_to_notifs>>

RequestBook ==
  /\ algo_at = "book"
  /\ CanWrite(read_book_request_bus[Me], StreamDepth)
  /\ read_book_request_bus' =
       [read_book_request_bus EXCEPT ![Me] = Append(@, pending_nxbus_data.instr_id)]
  /\ algo_at' = "waiting"
  /\ UNCHANGED <<start_of_nxbus_command, pending_nxbus_data, last_packet, shot,
                 nxbus_outputs, instrument_read_bus, instrument_read_responses,
                 books, decisions_outputs, tick2trade_to_notifs>>
-----------------------------------------------------------------------------
(* A configured price of 0 means the side is not configured. *)
FiresBuy(conf, pending) ==
  /\ conf.enabled /\ conf.bid_price # 0
  /\ pending.price > conf.bid_price /\ pending.buy_nsell = 1

FiresSell(conf, pending) ==
  /\ conf.enabled /\ conf.ask_price # 0
  /\ pending.price < conf.ask_price /\ pending.buy_nsell = 0

ShotOn(side, conf, pending, packet) ==
  [side |-> side, pending |-> pending, packet |-> packet,
   collection |-> IF side = "B" THEN conf.bid_collection ELSE conf.ask_collection,
   threshold |-> IF side = "B" THEN conf.bid_price ELSE conf.ask_price]

Verdict(conf, pending, packet) ==
  IF FiresBuy(conf, pending) THEN ShotOn("B", conf, pending, packet)
  ELSE IF FiresSell(conf, pending) THEN ShotOn("S", conf, pending, packet)
  ELSE NoShot

(* trigger_collection: one command word, its arguments the packet and the side. *)
Command(s) ==
  [last |-> TRUE, collection |-> s.collection, packet |-> s.packet, side |-> s.side]

(* The notification; is_bid is 0 whichever side fired. *)
Notification(s) ==
  [source |-> 11, msg_type |-> IF s.side = "B" THEN 2 ELSE 1, length |-> 32,
   collection |-> s.collection, price |-> s.pending.price,
   instr_id |-> s.pending.instr_id, threshold |-> s.threshold, is_bid |-> 0]

(* Mutant: p_algo does not wait for the book it has no use for. *)
DecideWithoutBook ==
  /\ algo_at = "waiting"
  /\ instrument_read_responses[Me] # <<>>
  /\ shot' = Verdict(Head(instrument_read_responses[Me]), pending_nxbus_data, last_packet)
  /\ algo_at' = IF shot' = NoShot THEN "ready" ELSE "command"
  /\ instrument_read_responses' = [instrument_read_responses EXCEPT ![Me] = Tail(@)]
  /\ UNCHANGED <<start_of_nxbus_command, pending_nxbus_data, last_packet, books,
                 nxbus_outputs, instrument_read_bus, read_book_request_bus,
                 decisions_outputs, tick2trade_to_notifs>>

Decide ==
  /\ algo_at = "waiting"
  /\ instrument_read_responses[Me] # <<>>
  /\ books[Me] # <<>>
  /\ shot' = Verdict(Head(instrument_read_responses[Me]), pending_nxbus_data, last_packet)
  /\ algo_at' = IF shot' = NoShot THEN "ready" ELSE "command"
  /\ instrument_read_responses' = [instrument_read_responses EXCEPT ![Me] = Tail(@)]
  /\ books' = [books EXCEPT ![Me] = Tail(@)]
  /\ UNCHANGED <<start_of_nxbus_command, pending_nxbus_data, last_packet,
                 nxbus_outputs, instrument_read_bus, read_book_request_bus,
                 decisions_outputs, tick2trade_to_notifs>>

WriteCommand ==
  /\ algo_at = "command"
  /\ CanWrite(decisions_outputs[Me], StreamDepth)
  /\ decisions_outputs' = [decisions_outputs EXCEPT ![Me] = Append(@, Command(shot))]
  /\ algo_at' = "notification"
  /\ UNCHANGED <<start_of_nxbus_command, pending_nxbus_data, last_packet, shot,
                 nxbus_outputs, instrument_read_bus, instrument_read_responses,
                 read_book_request_bus, books, tick2trade_to_notifs>>

WriteNotification ==
  /\ algo_at = "notification"
  /\ CanWrite(tick2trade_to_notifs, NotifDepth)
  /\ tick2trade_to_notifs' = Append(tick2trade_to_notifs, Notification(shot))
  /\ algo_at' = "ready"
  /\ shot' = NoShot
  /\ UNCHANGED <<start_of_nxbus_command, pending_nxbus_data, last_packet,
                 nxbus_outputs, instrument_read_bus, instrument_read_responses,
                 read_book_request_bus, books, decisions_outputs>>

p_algo == \/ ReadNxbus \/ RequestInstrument \/ RequestBook
          \/ Decide \/ WriteCommand \/ WriteNotification
=============================================================================
