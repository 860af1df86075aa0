----------------------------- MODULE Tick2cancel -----------------------------
(***************************************************************************)
(* The Tick2cancel strategy (tick2cancel.cpp): two concurrent processes.   *)
(* preprocess_nxbus turns each trade summary into a context and two read   *)
(* requests, written to three streams one after the other; trigger waits   *)
(* for the context and both answers, and decides.  Nothing in a response   *)
(* names the instrument it is for, so the decision is right only if the    *)
(* three streams stay in step.                                             *)
(*                                                                         *)
(* Bus arrays of top.cpp are functions of the bus index, of which this     *)
(* block uses Me, so that Top can give it its share of the real arrays.    *)
(***************************************************************************)
EXTENDS HlsStream, Nxbus

CONSTANTS
  StreamDepth,   (* depth of the request, answer, nxbus and trigger streams *)
  ContextDepth,  (* depth of t2c_context, which has no STREAM pragma        *)
  NotifDepth     (* depth of tick2cancel_to_notifs                          *)

ASSUME DepthAssumption == {StreamDepth, ContextDepth, NotifDepth} \subseteq Nat \ {0}

VARIABLES
  nxbus_outputs, instrument_read_bus, instrument_read_responses,
  read_book_request_bus, books, t2c_context, decisions_outputs,
  tick2cancel_to_notifs,   \* the streams of top.cpp
  start_of_nxbus_command,  \* statics of preprocess_nxbus
  decision_data,
  preprocess_at,           \* the next blocking write of preprocess_nxbus
  trigger_at,              \* the next blocking write of trigger
  hit                      \* what trigger is writing

preprocessVars == <<start_of_nxbus_command, decision_data, preprocess_at>>
triggerVars == <<trigger_at, hit>>
t2cStreams == <<nxbus_outputs, instrument_read_bus, instrument_read_responses,
                read_book_request_bus, books, t2c_context, decisions_outputs,
                tick2cancel_to_notifs>>
t2cVars == <<t2cStreams, preprocessVars, triggerVars>>

Me == 0  \* DecisionBusIndex Tick2Cancel

NoHit == [side |-> "none"]

LocalInit ==
  /\ start_of_nxbus_command = TRUE
  /\ decision_data = [instr_id |-> 0, price |-> 0, packet |-> 0]
  /\ preprocess_at = "read"
  /\ trigger_at = "read"
  /\ hit = NoHit
-----------------------------------------------------------------------------
(* preprocess_nxbus *)

(* Mutant: the extra words of a command are decoded like first words. *)
OpensAnywhere(word, opcode) == word.opcode = opcode

(* The word is the first of a command of that opcode. *)
Opens(word, opcode) == start_of_nxbus_command /\ word.opcode = opcode

(* What reading the word leaves in decision_data. *)
DataAfter(word) ==
  IF Opens(word, "PKT_INFO") THEN [decision_data EXCEPT !.packet = word.packet]
  ELSE IF Opens(word, "TRADE_SUMMARY")
  THEN [decision_data EXCEPT !.price = word.price, !.instr_id = word.instr_id]
  ELSE decision_data

PreprocessRead ==
  /\ preprocess_at = "read"
  /\ nxbus_outputs[Me] # <<>>
  /\ LET word == Head(nxbus_outputs[Me])
     IN /\ decision_data' = DataAfter(word)
        /\ preprocess_at' = IF Opens(word, "TRADE_SUMMARY") THEN "context" ELSE "read"
        /\ start_of_nxbus_command' = word.end_of_extra
  /\ nxbus_outputs' = [nxbus_outputs EXCEPT ![Me] = Tail(@)]
  /\ UNCHANGED <<triggerVars, instrument_read_bus, instrument_read_responses,
                 read_book_request_bus, books, t2c_context, decisions_outputs,
                 tick2cancel_to_notifs>>

(* Mutant: the configuration request is forgotten. *)
WriteContextOnly ==
  /\ preprocess_at = "context"
  /\ CanWrite(t2c_context, ContextDepth)
  /\ t2c_context' = Append(t2c_context, decision_data)
  /\ preprocess_at' = "book"
  /\ UNCHANGED <<start_of_nxbus_command, decision_data, triggerVars, nxbus_outputs,
                 instrument_read_bus, instrument_read_responses,
                 read_book_request_bus, books, decisions_outputs,
                 tick2cancel_to_notifs>>

WriteContext ==
  /\ preprocess_at = "context"
  /\ CanWrite(t2c_context, ContextDepth)
  /\ t2c_context' = Append(t2c_context, decision_data)
  /\ preprocess_at' = "instrument"
  /\ UNCHANGED <<start_of_nxbus_command, decision_data, triggerVars, nxbus_outputs,
                 instrument_read_bus, instrument_read_responses,
                 read_book_request_bus, books, decisions_outputs,
                 tick2cancel_to_notifs>>

RequestInstrument ==
  /\ preprocess_at = "instrument"
  /\ CanWrite(instrument_read_bus[Me], StreamDepth)
  /\ instrument_read_bus' =
       [instrument_read_bus EXCEPT ![Me] = Append(@, decision_data.instr_id)]
  /\ preprocess_at' = "book"
  /\ UNCHANGED <<start_of_nxbus_command, decision_data, triggerVars, nxbus_outputs,
                 instrument_read_responses, read_book_request_bus, books,
                 t2c_context, decisions_outputs, tick2cancel_to_notifs>>

RequestBook ==
  /\ preprocess_at = "book"
  /\ CanWrite(read_book_request_bus[Me], StreamDepth)
  /\ read_book_request_bus' =
       [read_book_request_bus EXCEPT ![Me] = Append(@, decision_data.instr_id)]
  /\ preprocess_at' = "read"
  /\ UNCHANGED <<start_of_nxbus_command, decision_data, triggerVars, nxbus_outputs,
                 instrument_read_bus, instrument_read_responses, books,
                 t2c_context, decisions_outputs, tick2cancel_to_notifs>>

Preprocess == PreprocessRead \/ WriteContext \/ RequestInstrument \/ RequestBook
-----------------------------------------------------------------------------
(* trigger *)

(* The price crosses the side's top level by the threshold.  The 64-bit    *)
(* prices are subtracted in a wider signed type, so nothing wraps.         *)
Crosses(side, price, top, threshold) ==
  IF side = "bid" THEN price =< top - threshold ELSE price >= top + threshold

HalfOf(side, book) == IF side = "bid" THEN book[1] ELSE book[0]

Fires(side, conf, book, trade) ==
  /\ HalfOf(side, book).present
  /\ conf.enabled
  /\ Crosses(side, trade.price, HalfOf(side, book).toplevel_price, conf.t2c_threshold)
  /\ conf.t2c_threshold # 0

HitOn(side, conf, book, trade) ==
  [side |-> side, collection |-> conf.t2c_collection, trade |-> trade,
   top |-> HalfOf(side, book).toplevel_price, threshold |-> conf.t2c_threshold]

(* The bid side is tried first; the ask side only if it does not fire. *)
Verdict(conf, book, trade) ==
  IF Fires("bid", conf, book, trade) THEN HitOn("bid", conf, book, trade)
  ELSE IF Fires("ask", conf, book, trade) THEN HitOn("ask", conf, book, trade)
  ELSE NoHit

(* trigger_collection: one command word, its arguments the packet's        *)
(* sequence number and source id.                                          *)
Command(h) == [last |-> TRUE, collection |-> h.collection, packet |-> h.trade.packet]

(* fill_header and the fields of the notification. *)
Notification(h) ==
  [source |-> 10, msg_type |-> IF h.side = "bid" THEN 2 ELSE 1, length |-> 48,
   collection |-> h.collection, price |-> h.trade.price, top |-> h.top,
   instr_id |-> h.trade.instr_id, threshold |-> h.threshold,
   is_bid |-> IF h.side = "bid" THEN 1 ELSE 0]

(* Mutant: the context is read only when the trade fires. *)
TriggerReadLazily ==
  /\ trigger_at = "read"
  /\ instrument_read_responses[Me] # <<>>
  /\ books[Me] # <<>>
  /\ t2c_context # <<>>
  /\ hit' = Verdict(Head(instrument_read_responses[Me]), Head(books[Me]), Head(t2c_context))
  /\ trigger_at' = IF hit' = NoHit THEN "read" ELSE "command"
  /\ instrument_read_responses' = [instrument_read_responses EXCEPT ![Me] = Tail(@)]
  /\ books' = [books EXCEPT ![Me] = Tail(@)]
  /\ t2c_context' = IF hit' = NoHit THEN t2c_context ELSE Tail(t2c_context)
  /\ UNCHANGED <<preprocessVars, nxbus_outputs, instrument_read_bus,
                 read_book_request_bus, decisions_outputs, tick2cancel_to_notifs>>

TriggerRead ==
  /\ trigger_at = "read"
  /\ instrument_read_responses[Me] # <<>>
  /\ books[Me] # <<>>
  /\ t2c_context # <<>>
  /\ hit' = Verdict(Head(instrument_read_responses[Me]), Head(books[Me]), Head(t2c_context))
  /\ trigger_at' = IF hit' = NoHit THEN "read" ELSE "command"
  /\ instrument_read_responses' = [instrument_read_responses EXCEPT ![Me] = Tail(@)]
  /\ books' = [books EXCEPT ![Me] = Tail(@)]
  /\ t2c_context' = Tail(t2c_context)
  /\ UNCHANGED <<preprocessVars, nxbus_outputs, instrument_read_bus,
                 read_book_request_bus, decisions_outputs, tick2cancel_to_notifs>>

WriteCommand ==
  /\ trigger_at = "command"
  /\ CanWrite(decisions_outputs[Me], StreamDepth)
  /\ decisions_outputs' = [decisions_outputs EXCEPT ![Me] = Append(@, Command(hit))]
  /\ trigger_at' = "notification"
  /\ UNCHANGED <<preprocessVars, hit, nxbus_outputs, instrument_read_bus,
                 instrument_read_responses, read_book_request_bus, books,
                 t2c_context, tick2cancel_to_notifs>>

WriteNotification ==
  /\ trigger_at = "notification"
  /\ CanWrite(tick2cancel_to_notifs, NotifDepth)
  /\ tick2cancel_to_notifs' = Append(tick2cancel_to_notifs, Notification(hit))
  /\ trigger_at' = "read"
  /\ hit' = NoHit
  /\ UNCHANGED <<preprocessVars, nxbus_outputs, instrument_read_bus,
                 instrument_read_responses, read_book_request_bus, books,
                 t2c_context, decisions_outputs>>

Trigger == TriggerRead \/ WriteCommand \/ WriteNotification
=============================================================================
