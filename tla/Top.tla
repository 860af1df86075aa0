-------------------------------- MODULE Top --------------------------------
(***************************************************************************)
(* The market data side of top.cpp: demuxer, both strategies, the books    *)
(* and the configuration composed over their real streams.  The trigger    *)
(* bus behind the arbiter and the notifications are taken by sinks, and    *)
(* the host has loaded the configuration before the feed starts.           *)
(*                                                                         *)
(* Every word of the feed has its position as its price, so the price of a *)
(* trade tells where it was in the feed and the price in a book which      *)
(* update it was last given.                                               *)
(***************************************************************************)
EXTENDS HlsStream, Nxbus

CONSTANTS
  StreamDepth, ContextDepth, NotifDepth,
  Loaded,     (* the fields of the update the host loaded                  *)
  Feeds       (* the feeds to look at, as the opcodes of their words       *)

ASSUME TopAssumption ==
  /\ {StreamDepth, ContextDepth, NotifDepth} \subseteq Nat \ {0}
  /\ Feeds \subseteq Seq(Opcode)
  /\ \A f \in Feeds : 1..Len(f) \subseteq Prices

VARIABLES
  feed,  \* the opcodes of the words of the feed, by position
  nxbus_in, nxbus_outputs, instrument_read_bus, instrument_read_responses,
  read_book_request_bus, books, book_update_bus, t2c_context, decisions_outputs,
  tick2cancel_to_notifs, tick2trade_to_notifs, config_to_notifs,
  user_dma_channel_data_in,
  demux_word, demux_at,
  t2c_start, t2c_decision_data, preprocess_at, trigger_at, hit,
  t2t_start, pending_nxbus_data, last_packet, algo_at, shot,
  books_start, current_opcode, output, updates_at,
  books_data, requests_at, book_client, book_answer,
  current_state, current_dma_message_read, current_software_trigger_message_read,
  values, config_at, client, answer

Demux == INSTANCE Demuxer WITH OutputCount <- 3
T2c == INSTANCE Tick2cancel WITH
  start_of_nxbus_command <- t2c_start, decision_data <- t2c_decision_data
T2t == INSTANCE Tick2trade WITH start_of_nxbus_command <- t2t_start
Memory == INSTANCE BooksData WITH start_of_nxbus_command <- books_start
Config == INSTANCE InstrumentConfiguration WITH Messages <- {0}, Conf <- Loaded

demuxVars == <<demux_word, demux_at>>
t2cVars == <<t2c_start, t2c_decision_data, preprocess_at, trigger_at, hit>>
t2tVars == <<t2t_start, pending_nxbus_data, last_packet, algo_at, shot>>
booksVars == <<books_start, current_opcode, output, updates_at,
               books_data, requests_at, book_client, book_answer>>
configVars == <<current_state, current_dma_message_read,
                current_software_trigger_message_read, values, config_at, client, answer>>
notifStreams == <<tick2cancel_to_notifs, tick2trade_to_notifs, config_to_notifs>>
vars == <<feed, nxbus_in, nxbus_outputs, instrument_read_bus,
          instrument_read_responses, read_book_request_bus, books, book_update_bus,
          t2c_context, decisions_outputs, notifStreams, user_dma_channel_data_in,
          demuxVars, t2cVars, t2tVars, booksVars, configVars>>

WordAt(n) == [opcode |-> feed[n], end_of_extra |-> TRUE, buy_nsell |-> 0,
              price |-> n, instr_id |-> 0, packet |-> 0, level |-> 0]

Strategies == {T2c!Me, T2t!Me}
Empty(Ids) == [i \in Ids |-> <<>>]

(* The feed may come as fast as the demuxer takes it.  The configuration   *)
(* has stored the update of message 0 and is back in IDLE.                 *)
Init ==
  /\ feed \in Feeds
  /\ nxbus_in = [n \in DOMAIN feed |-> WordAt(n)]
  /\ nxbus_outputs = Empty(0..2) /\ book_update_bus = <<>> /\ t2c_context = <<>>
  /\ instrument_read_bus = Empty(Strategies)
  /\ instrument_read_responses = Empty(Strategies)
  /\ read_book_request_bus = Empty(Strategies) /\ books = Empty(Strategies)
  /\ decisions_outputs = Empty(0..3)
  /\ tick2cancel_to_notifs = <<>> /\ tick2trade_to_notifs = <<>>
  /\ config_to_notifs = <<>> /\ user_dma_channel_data_in = <<>>
  /\ Demux!LocalInit /\ T2c!LocalInit /\ T2t!LocalInit /\ Memory!LocalInit
  /\ current_state = "IDLE"
  /\ current_dma_message_read = [word1 |-> 0, word2 |-> 0, word3 |-> 0]
  /\ current_software_trigger_message_read = [i \in 1..6 |-> 0]
  /\ values = [i \in Instruments |-> IF i = 0 THEN Config!Convert(current_dma_message_read)
                                              ELSE Config!NoConf]
  /\ config_at = "word" /\ client = 0 /\ answer = Config!NoConf
-----------------------------------------------------------------------------
(* Each process is an action of its block; the rest of the design is left  *)
(* alone.                                                                  *)
p_demux ==
  /\ Demux!p_demux
  /\ UNCHANGED <<feed, instrument_read_bus, instrument_read_responses,
                 read_book_request_bus, books, book_update_bus, t2c_context,
                 decisions_outputs, notifStreams, user_dma_channel_data_in,
                 t2cVars, t2tVars, booksVars, configVars>>

OutsideT2c == <<feed, nxbus_in, book_update_bus, tick2trade_to_notifs, config_to_notifs,
                user_dma_channel_data_in, demuxVars, t2tVars, booksVars, configVars>>
preprocess_nxbus == T2c!Preprocess /\ UNCHANGED OutsideT2c
trigger == T2c!Trigger /\ UNCHANGED OutsideT2c

p_algo ==
  /\ T2t!p_algo
  /\ UNCHANGED <<feed, nxbus_in, book_update_bus, t2c_context, tick2cancel_to_notifs,
                 config_to_notifs, user_dma_channel_data_in,
                 demuxVars, t2cVars, booksVars, configVars>>

OutsideBooks == <<feed, nxbus_in, instrument_read_bus, instrument_read_responses,
                  t2c_context, decisions_outputs, notifStreams,
                  user_dma_channel_data_in, demuxVars, t2cVars, t2tVars, configVars>>
p_book_updates == Memory!p_book_updates /\ UNCHANGED OutsideBooks
p_book_requests == Memory!p_book_requests /\ UNCHANGED OutsideBooks

p_handle_instrument_configuration ==
  /\ Config!p_handle_instrument_configuration
  /\ UNCHANGED <<feed, nxbus_in, nxbus_outputs, read_book_request_bus, books,
                 book_update_bus, t2c_context, tick2cancel_to_notifs,
                 tick2trade_to_notifs, demuxVars, t2cVars, t2tVars, booksVars>>

(* The arbiter takes a command of one of the strategies. *)
TakeCommand(i) ==
  /\ decisions_outputs[i] # <<>>
  /\ decisions_outputs' = [decisions_outputs EXCEPT ![i] = Tail(@)]
  /\ UNCHANGED <<feed, nxbus_in, nxbus_outputs, instrument_read_bus,
                 instrument_read_responses, read_book_request_bus, books,
                 book_update_bus, t2c_context, notifStreams, user_dma_channel_data_in,
                 demuxVars, t2cVars, t2tVars, booksVars, configVars>>

OutsideNotifs == <<feed, nxbus_in, nxbus_outputs, instrument_read_bus,
                   instrument_read_responses, read_book_request_bus, books,
                   book_update_bus, t2c_context, decisions_outputs, config_to_notifs,
                   user_dma_channel_data_in, demuxVars, t2cVars, t2tVars, booksVars,
                   configVars>>

(* The notifications process takes one, Tick2trade's first. *)
TakeNotification ==
  /\ \/ /\ tick2trade_to_notifs # <<>>
        /\ tick2trade_to_notifs' = Tail(tick2trade_to_notifs)
        /\ UNCHANGED tick2cancel_to_notifs
     \/ /\ tick2trade_to_notifs = <<>> /\ tick2cancel_to_notifs # <<>>
        /\ tick2cancel_to_notifs' = Tail(tick2cancel_to_notifs)
        /\ UNCHANGED tick2trade_to_notifs
  /\ UNCHANGED OutsideNotifs

Next ==
  \/ p_demux \/ preprocess_nxbus \/ trigger \/ p_algo
  \/ p_book_updates \/ p_book_requests \/ p_handle_instrument_configuration
  \/ (\E i \in Strategies : TakeCommand(i)) \/ TakeNotification

Spec == Init /\ [][Next]_vars

-----------------------------------------------------------------------------
(* The requests and answers of a client under way to and from a memory,    *)
(* and the one the memory holds.                                           *)
UnderWay(i, requests, answers, holds) ==
  Len(requests[i]) + Len(answers[i]) + (IF holds THEN 1 ELSE 0)

ConfUnderWay(i) ==
  UnderWay(i, instrument_read_bus, instrument_read_responses,
           config_at = "answer" /\ client = i)
BookUnderWay(i) ==
  UnderWay(i, read_book_request_bus, books, requests_at = "answer" /\ book_client = i)

(* The real memories keep each strategy's questions and answers in step:   *)
(* Tick2cancel has one of each under way per context it has written, and   *)
(* Tick2trade one of each while it waits and none otherwise.               *)
InStep ==
  /\ ConfUnderWay(0) + (IF preprocess_at = "instrument" THEN 1 ELSE 0) = Len(t2c_context)
  /\ BookUnderWay(0) + (IF preprocess_at \in {"instrument", "book"} THEN 1 ELSE 0)
       = Len(t2c_context)
  /\ ConfUnderWay(1) = IF algo_at \in {"book", "waiting"} THEN 1 ELSE 0
  /\ BookUnderWay(1) = IF algo_at = "waiting" THEN 1 ELSE 0

(* The room there is for words between a trade and the memory: when the    *)
(* memory turns to the reads, the words the demuxer still has to give the  *)
(* books, one of them in its hands; and, while a read of Tick2trade holds  *)
(* that turn open, the words Tick2trade's share lets the feed run on by.   *)
Lag == 2 * (StreamDepth + 1)

(* A trade is never decided on a book older than Lag words: the book       *)
(* answered for it has every update that came more than Lag words before   *)
(* it in the feed.                                                         *)
BookNotOlderThanLag ==
  \A j \in 1..Len(books[0]) :
    \A n \in DOMAIN feed :
      ( /\ feed[n] = "BOOK_UPDATE"
        /\ n + Lag < t2c_context[j].price ) => books[0][j][0].toplevel_price >= n

(* Nothing is left anywhere on the way. *)
Drained ==
  /\ nxbus_in = <<>> /\ demux_at = 3 /\ nxbus_outputs = Empty(0..2)
  /\ preprocess_at = "read" /\ trigger_at = "read" /\ t2c_context = <<>>
  /\ algo_at = "ready" /\ updates_at = "read" /\ book_update_bus = <<>>
  /\ decisions_outputs = Empty(0..3)
  /\ tick2cancel_to_notifs = <<>> /\ tick2trade_to_notifs = <<>>

(* What each process waits for where it is stopped. *)
DemuxReady ==
  \/ demux_at = 3 /\ nxbus_in # <<>>
  \/ demux_at # 3 /\ CanWrite(nxbus_outputs[demux_at], StreamDepth)

PreprocessReady ==
  \/ preprocess_at = "read" /\ nxbus_outputs[0] # <<>>
  \/ preprocess_at = "context" /\ CanWrite(t2c_context, ContextDepth)
  \/ preprocess_at = "instrument" /\ CanWrite(instrument_read_bus[0], StreamDepth)
  \/ preprocess_at = "book" /\ CanWrite(read_book_request_bus[0], StreamDepth)

TriggerReady ==
  \/ /\ trigger_at = "read" /\ t2c_context # <<>>
     /\ instrument_read_responses[0] # <<>> /\ books[0] # <<>>
  \/ trigger_at = "command" /\ CanWrite(decisions_outputs[0], StreamDepth)
  \/ trigger_at = "notification" /\ CanWrite(tick2cancel_to_notifs, NotifDepth)

AlgoReady ==
  \/ algo_at = "ready" /\ nxbus_outputs[1] # <<>>
  \/ algo_at = "instrument" /\ CanWrite(instrument_read_bus[1], StreamDepth)
  \/ algo_at = "book" /\ CanWrite(read_book_request_bus[1], StreamDepth)
  \/ algo_at = "waiting" /\ instrument_read_responses[1] # <<>> /\ books[1] # <<>>
  \/ algo_at = "command" /\ CanWrite(decisions_outputs[1], StreamDepth)
  \/ algo_at = "notification" /\ CanWrite(tick2trade_to_notifs, NotifDepth)

UpdatesReady ==
  \/ updates_at = "read" /\ nxbus_outputs[2] # <<>>
  \/ updates_at = "write" /\ CanWrite(book_update_bus, StreamDepth)

RequestsReady ==
  \/ requests_at = "turn" /\ book_update_bus # <<>>
  \/ requests_at = "turn" /\ \E i \in Strategies : read_book_request_bus[i] # <<>>
  \/ requests_at = "serve"
  \/ requests_at = "answer" /\ CanWrite(books[book_client], StreamDepth)

(* The host is silent: there is no word, acknowledgement or trigger. *)
ConfigurationReady ==
  \/ /\ config_at = "word" /\ current_state = "IDLE" /\ user_dma_channel_data_in = <<>>
     /\ \E i \in Strategies : instrument_read_bus[i] # <<>>
  \/ config_at = "serve"
  \/ config_at = "answer" /\ CanWrite(instrument_read_responses[client], StreamDepth)

OutputsReady ==
  \/ \E i \in Strategies : decisions_outputs[i] # <<>>
  \/ tick2cancel_to_notifs # <<>> \/ tick2trade_to_notifs # <<>>

SomeoneReady ==
  \/ DemuxReady \/ PreprocessReady \/ TriggerReady \/ AlgoReady
  \/ UpdatesReady \/ RequestsReady \/ ConfigurationReady \/ OutputsReady

(* The blocks never lock each other up, in whatever order they are slow:   *)
(* as long as something of the feed is under way some process has what it  *)
(* waits for.                                                              *)
NeverLockedUp == Drained \/ SomeoneReady
=============================================================================
