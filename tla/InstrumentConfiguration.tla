---------------------- MODULE InstrumentConfiguration ----------------------
(***************************************************************************)
(* p_handle_instrument_configuration (configuration.cpp): one process that *)
(* parses the packets of the user DMA channel by counting their words,     *)
(* keeps the configuration memory, acknowledges updates, forwards software *)
(* triggers, and in some of its states answers the strategies' reads.      *)
(*                                                                         *)
(* A field read from a word is the id of the message the word belongs to;  *)
(* Conf gives its value.  A word reads as a header of some kind even when  *)
(* it is not the first of its packet.                                      *)
(***************************************************************************)
EXTENDS HlsStream, Nxbus

CONSTANTS
  Messages,  (* message ids; 0 stands for the statics before the first one *)
  Conf,      (* the fields of each message, raw                            *)
  StreamDepth, NotifDepth

ConfMessage == [instr_id: Instruments, enabled: 0..255, t2c_threshold: Prices,
                t2c_collection: Nat, bid_price: Prices, bid_collection: Nat,
                ask_price: Prices, ask_collection: Nat]

ASSUME ConfAssumption ==
  /\ 0 \in Messages
  /\ Conf \in [Messages -> ConfMessage]
  /\ {StreamDepth, NotifDepth} \subseteq Nat \ {0}

Clients == {0, 1}
SwTriggerBus == 3  \* strategy_count + 1

(* A word of dma_user_channel_data_in: its message, its place in the       *)
(* packet, the end of packet bit, and what its first bytes read as.        *)
DmaWord == [msg: Messages, part: 1..6, last: BOOLEAN,
            reads_as: {"configuration", "software_trigger", "unknown"}]

VARIABLES
  user_dma_channel_data_in, instrument_read_bus, instrument_read_responses,
  config_to_notifs, decisions_outputs,
  current_state, current_dma_message_read, current_software_trigger_message_read,
  values,     \* the configuration memory
  config_at,  \* "word", "serve", or the next blocking write
  client,     \* the loop index of the serving loops
  answer      \* the item read for that client

configVars == <<current_state, current_dma_message_read,
                current_software_trigger_message_read, values, config_at, client, answer>>
configStreams == <<user_dma_channel_data_in, instrument_read_bus,
                   instrument_read_responses, config_to_notifs, decisions_outputs>>

(* convert: the one-bit enabled keeps the low bit of the message's byte. *)
Convert(d) ==
  [enabled |-> Conf[d.word3].enabled % 2 = 1,
   t2c_threshold |-> Conf[d.word1].t2c_threshold,
   t2c_collection |-> Conf[d.word3].t2c_collection,
   bid_price |-> Conf[d.word2].bid_price,
   bid_collection |-> Conf[d.word3].bid_collection,
   ask_price |-> Conf[d.word2].ask_price,
   ask_collection |-> Conf[d.word3].ask_collection]

(* The acknowledgement repeats the fields of the message as they were read, *)
(* enabled with its 8 bits.                                                *)
Ack(d) ==
  [source |-> 8, msg_type |-> 1, length |-> 48,
   instr_id |-> Conf[d.word3].instr_id, enabled |-> Conf[d.word3].enabled,
   t2c_threshold |-> Conf[d.word1].t2c_threshold,
   t2c_collection |-> Conf[d.word3].t2c_collection,
   bid_price |-> Conf[d.word2].bid_price, bid_collection |-> Conf[d.word3].bid_collection,
   ask_price |-> Conf[d.word2].ask_price, ask_collection |-> Conf[d.word3].ask_collection]

(* trigger_collection_internal: one command word. *)
SwCommand(t) == [last |-> TRUE, collection |-> t[1], args |-> Tail(t)]

NoConf == [enabled |-> FALSE, t2c_threshold |-> 0, t2c_collection |-> 0,
           bid_price |-> 0, bid_collection |-> 0, ask_price |-> 0, ask_collection |-> 0]

LocalInit ==
  /\ current_state = "IDLE"
  /\ current_dma_message_read = [word1 |-> 0, word2 |-> 0, word3 |-> 0]
  /\ current_software_trigger_message_read = [i \in 1..6 |-> 0]
  /\ values = [i \in Instruments |-> NoConf]
  /\ config_at = "word" /\ client = 0 /\ answer = NoConf
(* What an item can keep of a message's fields: all of them whole but      *)
(* enabled, for which it has one bit.                                      *)
Kept(fields) ==
  [f \in DOMAIN NoConf |-> IF f = "enabled" THEN fields.enabled % 2 = 1 ELSE fields[f]]
-----------------------------------------------------------------------------
(* The five argument words of a software trigger, in the states that read them. *)
ArgStates == <<"READ_SW_TRIG_ARG1", "READ_SW_TRIG_ARG2", "READ_SW_TRIG_ARG3",
               "READ_SW_TRIG_ARG4", "READ_SW_TRIG_ARG5_ISSUE_TRIG">>

(* The states that answer read requests whether or not a word was read. *)
ServingStates == {"READ_CONF_WORD2", "IGNORE_PACKET"}

WordIn == Head(user_dma_channel_data_in)

(* What the reading states share: they take one word of the channel. *)
TakeWord ==
  /\ config_at = "word"
  /\ user_dma_channel_data_in # <<>>
  /\ user_dma_channel_data_in' = Tail(user_dma_channel_data_in)
  /\ client' = 0
  /\ UNCHANGED <<instrument_read_bus, instrument_read_responses, config_to_notifs,
                 decisions_outputs, answer>>

(* The first word of a packet decides what the packet is. *)
ReadHeader ==
  /\ current_state = "IDLE" /\ TakeWord
  /\ current_dma_message_read' = [current_dma_message_read EXCEPT !.word1 = WordIn.msg]
  /\ \/ /\ WordIn.reads_as = "configuration"
        /\ current_state' = "READ_CONF_WORD2"
        /\ UNCHANGED current_software_trigger_message_read
     \/ /\ WordIn.reads_as = "software_trigger"
        /\ current_state' = ArgStates[1]
        /\ current_software_trigger_message_read' =
             [current_software_trigger_message_read EXCEPT ![1] = WordIn.msg]
     \/ /\ WordIn.reads_as = "unknown"
        /\ current_state' = "IGNORE_PACKET"
        /\ UNCHANGED current_software_trigger_message_read
  /\ UNCHANGED <<values, config_at>>

(* Mutant: the requests are not looked at between the second and third words. *)
ReadConfWord2Only ==
  /\ current_state = "READ_CONF_WORD2" /\ TakeWord
  /\ current_dma_message_read' = [current_dma_message_read EXCEPT !.word2 = WordIn.msg]
  /\ current_state' = "READ_CONF_WORD3"
  /\ UNCHANGED <<current_software_trigger_message_read, values, config_at>>

ReadConfWord2 ==
  /\ current_state = "READ_CONF_WORD2" /\ TakeWord
  /\ current_dma_message_read' = [current_dma_message_read EXCEPT !.word2 = WordIn.msg]
  /\ current_state' = "READ_CONF_WORD3"
  /\ config_at' = "serve"
  /\ UNCHANGED <<current_software_trigger_message_read, values>>

(* Mutant: the item is converted before the third word is read. *)
StoreTooEarly ==
  /\ current_state = "READ_CONF_WORD3" /\ TakeWord
  /\ current_dma_message_read' = [current_dma_message_read EXCEPT !.word3 = WordIn.msg]
  /\ values' = [values EXCEPT ![Conf[WordIn.msg].instr_id] = Convert(current_dma_message_read)]
  /\ config_at' = "ack"
  /\ UNCHANGED <<current_state, current_software_trigger_message_read>>

(* The last word of an update: the item is stored, then acknowledged. *)
ReadConfWord3 ==
  /\ current_state = "READ_CONF_WORD3" /\ TakeWord
  /\ current_dma_message_read' = [current_dma_message_read EXCEPT !.word3 = WordIn.msg]
  /\ values' = [values EXCEPT ![Conf[WordIn.msg].instr_id] = Convert(current_dma_message_read')]
  /\ config_at' = "ack"
  /\ UNCHANGED <<current_state, current_software_trigger_message_read>>

WriteAck ==
  /\ config_at = "ack"
  /\ CanWrite(config_to_notifs, NotifDepth)
  /\ config_to_notifs' = Append(config_to_notifs, Ack(current_dma_message_read))
  /\ current_state' = "IDLE" /\ config_at' = "word"
  /\ UNCHANGED <<user_dma_channel_data_in, instrument_read_bus,
                 instrument_read_responses, decisions_outputs,
                 current_dma_message_read, current_software_trigger_message_read,
                 values, client, answer>>

(* Mutant: the trigger is issued one word early. *)
ReadSwTrigArgShort ==
  /\ TakeWord
  /\ \E i \in 1..5 :
       /\ current_state = ArgStates[i]
       /\ current_software_trigger_message_read' =
            [current_software_trigger_message_read EXCEPT ![i + 1] = WordIn.msg]
       /\ IF i < 4 THEN current_state' = ArgStates[i + 1] /\ UNCHANGED config_at
                   ELSE UNCHANGED current_state /\ config_at' = "trigger"
  /\ UNCHANGED <<current_dma_message_read, values>>

ReadSwTrigArg ==
  /\ TakeWord
  /\ \E i \in 1..5 :
       /\ current_state = ArgStates[i]
       /\ current_software_trigger_message_read' =
            [current_software_trigger_message_read EXCEPT ![i + 1] = WordIn.msg]
       /\ IF i < 5 THEN current_state' = ArgStates[i + 1] /\ UNCHANGED config_at
                   ELSE UNCHANGED current_state /\ config_at' = "trigger"
  /\ UNCHANGED <<current_dma_message_read, values>>

IssueTrigger ==
  /\ config_at = "trigger"
  /\ CanWrite(decisions_outputs[SwTriggerBus], StreamDepth)
  /\ decisions_outputs' = [decisions_outputs EXCEPT ![SwTriggerBus] =
                             Append(@, SwCommand(current_software_trigger_message_read))]
  /\ current_state' = "IDLE" /\ config_at' = "word"
  /\ UNCHANGED <<user_dma_channel_data_in, instrument_read_bus,
                 instrument_read_responses, config_to_notifs,
                 current_dma_message_read, current_software_trigger_message_read,
                 values, client, answer>>

IgnoreWord ==
  /\ current_state = "IGNORE_PACKET" /\ TakeWord
  /\ current_state' = IF WordIn.last THEN "IDLE" ELSE "IGNORE_PACKET"
  /\ config_at' = "serve"
  /\ UNCHANGED <<current_dma_message_read, current_software_trigger_message_read, values>>
-----------------------------------------------------------------------------
(* No word to read: IDLE and the serving states turn to the requests.  A   *)
(* turn that would find no request is a stutter and is left out.           *)
TurnToRequests ==
  /\ config_at = "word" /\ user_dma_channel_data_in = <<>>
  /\ current_state \in ServingStates \cup {"IDLE"}
  /\ \E i \in Clients : instrument_read_bus[i] # <<>>
  /\ config_at' = "serve" /\ client' = 0
  /\ UNCHANGED <<configStreams, current_state, current_dma_message_read,
                 current_software_trigger_message_read, values, answer>>

(* The loop over the clients goes on, or the iteration is over. *)
NextClient ==
  IF client = 0 THEN client' = 1 /\ config_at' = "serve"
                ELSE client' = 0 /\ config_at' = "word"

SkipClient ==
  /\ config_at = "serve" /\ instrument_read_bus[client] = <<>>
  /\ NextClient
  /\ UNCHANGED <<configStreams, current_state, current_dma_message_read,
                 current_software_trigger_message_read, values, answer>>

(* Mutant: the request is looked at but left in its stream. *)
PeekRequest ==
  /\ config_at = "serve" /\ instrument_read_bus[client] # <<>>
  /\ answer' = values[Head(instrument_read_bus[client])]
  /\ config_at' = "answer"
  /\ UNCHANGED <<configStreams, current_state, client, values,
                 current_dma_message_read, current_software_trigger_message_read>>

ReadRequest ==
  /\ config_at = "serve" /\ instrument_read_bus[client] # <<>>
  /\ answer' = values[Head(instrument_read_bus[client])]
  /\ instrument_read_bus' = [instrument_read_bus EXCEPT ![client] = Tail(@)]
  /\ config_at' = "answer"
  /\ UNCHANGED <<user_dma_channel_data_in, instrument_read_responses,
                 config_to_notifs, decisions_outputs, current_state, client, values,
                 current_dma_message_read, current_software_trigger_message_read>>

(* Blocks the whole process while that client's answer stream is full. *)
WriteAnswer ==
  /\ config_at = "answer"
  /\ CanWrite(instrument_read_responses[client], StreamDepth)
  /\ instrument_read_responses' =
       [instrument_read_responses EXCEPT ![client] = Append(@, answer)]
  /\ NextClient /\ answer' = NoConf
  /\ UNCHANGED <<user_dma_channel_data_in, instrument_read_bus, config_to_notifs,
                 decisions_outputs, current_state, current_dma_message_read,
                 current_software_trigger_message_read, values>>

p_handle_instrument_configuration ==
  \/ ReadHeader \/ ReadConfWord2 \/ ReadConfWord3 \/ WriteAck
  \/ ReadSwTrigArg \/ IssueTrigger \/ IgnoreWord
  \/ TurnToRequests \/ SkipClient \/ ReadRequest \/ WriteAnswer
=============================================================================
