------------------------ MODULE ConfigurationSystem ------------------------
(***************************************************************************)
(* The configuration process with a host that sends well-formed packets    *)
(* word by word, two strategies that ask for configurations, and sinks for *)
(* the acknowledgements and the trigger commands.                          *)
(***************************************************************************)
EXTENDS InstrumentConfiguration

CONSTANTS
  HostPackets,  (* the packets the host sends: their kind and message      *)
  MaxPackets,   (* bound on the packets sent; 0 leaves them unbounded      *)
  InDepth,      (* words the DMA input holds                               *)
  MaxAsked      (* per client, bound on the reads it has under way         *)

ASSUME ConfSystemAssumption ==
  /\ HostPackets \subseteq
       {"configuration", "software_trigger", "one_word_unknown", "two_word_unknown"}
         \X (Messages \ {0})
  /\ {MaxPackets, InDepth} \subseteq Nat
  /\ MaxAsked \in [Clients -> Nat]

VARIABLES
  sending,  \* the words of the packet the host is sending
  sent,     \* packets sent
  asked     \* per client, the instruments asked for and not yet answered

vars == <<configVars, configStreams, sending, sent, asked>>
hostVars == <<sending, sent>>

Length(kind) == CASE kind = "configuration" -> 3
                  [] kind = "software_trigger" -> 6
                  [] kind = "one_word_unknown" -> 1
                  [] kind = "two_word_unknown" -> 2

(* The words of a packet.  Only the first word has the header: the data of *)
(* the others is taken to read as unknown.                                 *)
Words(kind, m) ==
  [i \in 1..Length(kind) |->
     [msg |-> m, part |-> i, last |-> i = Length(kind),
      reads_as |-> IF i = 1 /\ kind \in {"configuration", "software_trigger"}
                   THEN kind ELSE "unknown"]]

Init ==
  /\ LocalInit
  /\ user_dma_channel_data_in = <<>> /\ config_to_notifs = <<>>
  /\ instrument_read_bus = [i \in Clients |-> <<>>]
  /\ instrument_read_responses = [i \in Clients |-> <<>>]
  /\ decisions_outputs = [i \in {SwTriggerBus} |-> <<>>]
  /\ sending = <<>> /\ sent = 0
  /\ asked = [i \in Clients |-> <<>>]

(* AlgorithmDriver::sendConfiguration, trigger; one packet at a time. *)
HostSends ==
  /\ sending = <<>>
  /\ \/ MaxPackets = 0 /\ UNCHANGED sent
     \/ sent < MaxPackets /\ sent' = sent + 1
  /\ \E packet \in HostPackets : sending' = Words(packet[1], packet[2])
  /\ UNCHANGED <<configVars, configStreams, asked>>

DmaDelivers ==
  /\ sending # <<>>
  /\ CanWrite(user_dma_channel_data_in, InDepth)
  /\ user_dma_channel_data_in' = Append(user_dma_channel_data_in, Head(sending))
  /\ sending' = Tail(sending)
  /\ UNCHANGED <<configVars, sent, asked, instrument_read_bus,
                 instrument_read_responses, config_to_notifs, decisions_outputs>>

Ask(i) ==
  /\ Len(asked[i]) < MaxAsked[i]
  /\ CanWrite(instrument_read_bus[i], StreamDepth)
  /\ \E instr \in Instruments :
       /\ instrument_read_bus' = [instrument_read_bus EXCEPT ![i] = Append(@, instr)]
       /\ asked' = [asked EXCEPT ![i] = Append(@, instr)]
  /\ UNCHANGED <<configVars, hostVars, user_dma_channel_data_in,
                 instrument_read_responses, config_to_notifs, decisions_outputs>>

TakeAnswer(i) ==
  /\ instrument_read_responses[i] # <<>>
  /\ instrument_read_responses' = [instrument_read_responses EXCEPT ![i] = Tail(@)]
  /\ asked' = [asked EXCEPT ![i] = Tail(@)]
  /\ UNCHANGED <<configVars, hostVars, user_dma_channel_data_in,
                 instrument_read_bus, config_to_notifs, decisions_outputs>>

SinkAck ==
  /\ config_to_notifs # <<>> /\ config_to_notifs' = Tail(config_to_notifs)
  /\ UNCHANGED <<configVars, hostVars, asked, user_dma_channel_data_in,
                 instrument_read_bus, instrument_read_responses, decisions_outputs>>

SinkTrigger ==
  /\ decisions_outputs[SwTriggerBus] # <<>>
  /\ decisions_outputs' = [decisions_outputs EXCEPT ![SwTriggerBus] = Tail(@)]
  /\ UNCHANGED <<configVars, hostVars, asked, user_dma_channel_data_in,
                 instrument_read_bus, instrument_read_responses, config_to_notifs>>

Process == p_handle_instrument_configuration /\ UNCHANGED <<hostVars, asked>>

Next ==
  \/ HostSends \/ DmaDelivers
  \/ Process
  \/ \E i \in Clients : Ask(i) \/ TakeAnswer(i)
  \/ SinkAck \/ SinkTrigger

Spec == Init /\ [][Next]_vars

(* The process runs at every clock and so do its neighbours, and the DMA   *)
(* delivers the rest of a packet begun.  Nothing is asked of the host,     *)
(* which may stop, pause or send without a pause between packets.          *)
FairSpec ==
  /\ Spec /\ WF_vars(Process) /\ WF_vars(DmaDelivers)
  /\ WF_vars(SinkAck) /\ WF_vars(SinkTrigger)
  /\ \A i \in Clients : WF_vars(TakeAnswer(i))
-----------------------------------------------------------------------------
AckType == [source: {8}, msg_type: {1}, length: {48}, instr_id: Instruments,
            enabled: 0..255, t2c_threshold: Prices, t2c_collection: Nat,
            bid_price: Prices, bid_collection: Nat, ask_price: Prices, ask_collection: Nat]
SwCommandType == [last: {TRUE}, collection: Messages, args: Seq(Messages)]

(* The FSM states, the position in the iteration and the streams agree.    *)
TypeOK ==
  /\ IsStream(user_dma_channel_data_in, DmaWord, InDepth)
  /\ IsBus(instrument_read_bus, Clients, Instruments, StreamDepth)
  /\ IsBus(instrument_read_responses, Clients, ConfItem, StreamDepth)
  /\ IsStream(config_to_notifs, AckType, NotifDepth)
  /\ IsBus(decisions_outputs, {SwTriggerBus}, SwCommandType, StreamDepth)
  /\ current_dma_message_read \in [word1: Messages, word2: Messages, word3: Messages]
  /\ current_software_trigger_message_read \in [1..6 -> Messages]
  /\ values \in [Instruments -> ConfItem]
  /\ client \in Clients /\ answer \in ConfItem
  /\ config_at \in {"word", "serve", "answer", "ack", "trigger"}
  /\ config_at = "ack" => current_state = "READ_CONF_WORD3"
  /\ config_at = "trigger" => current_state = ArgStates[5]
  /\ current_state \in {ArgStates[i] : i \in 1..5}
       => config_at \in {"word", "trigger"}

(* The item of a message whose three words were put together. *)
ItemOf(m) == Convert([word1 |-> m, word2 |-> m, word3 |-> m])

ItemsFor(instr) ==
  {NoConf} \cup {ItemOf(m) : m \in {n \in Messages \ {0} : Conf[n].instr_id = instr}}

(* No configuration is ever torn: what the memory holds for an instrument, *)
(* whatever packets came before and however reads are interleaved with     *)
(* words, is all of one update and an update of that instrument.           *)
WholeConfigurations == \A instr \in Instruments : values[instr] \in ItemsFor(instr)

(* No trigger command mixes two messages, whatever came before it. *)
WholeTriggers ==
  \A i \in 1..Len(decisions_outputs[SwTriggerBus]) :
    LET c == decisions_outputs[SwTriggerBus][i]
    IN c.args = [k \in 1..5 |-> c.collection]

(* The acknowledgements written, then the one owed. *)
Acks == IF config_at = "ack"
        THEN Append(config_to_notifs, Ack(current_dma_message_read))
        ELSE config_to_notifs

(* The newest acknowledgement of an instrument under way tells what the    *)
(* strategies read: an update acknowledged is an update stored, and while  *)
(* its acknowledgement waits no other replaces it without one of its own.  *)
(* That is so of every field but enabled: of the byte acknowledged only    *)
(* the low bit is stored, so an even byte other than 0 is acknowledged as  *)
(* it came and read as disabled.                                           *)
AckTellsMemory ==
  \A i \in 1..Len(Acks) :
    \/ \E j \in (i + 1)..Len(Acks) : Acks[j].instr_id = Acks[i].instr_id
    \/ values[Acks[i].instr_id] = Kept(Acks[i])

(* Each client gets as many answers as it asked for, in the order it asked *)
(* for them and each of the instrument it asked for.                       *)
AnswersInOrder ==
  \A i \in Clients :
    LET held == IF config_at = "answer" /\ client = i THEN <<answer>> ELSE <<>>
        answers == instrument_read_responses[i] \o held
    IN /\ Len(asked[i]) = Len(answers) + Len(instrument_read_bus[i])
       /\ \A j \in 1..Len(answers) : answers[j] \in ItemsFor(asked[i][j])
       /\ \A j \in 1..Len(instrument_read_bus[i]) :
            instrument_read_bus[i][j] = asked[i][Len(answers) + j]

(* Every read request is answered whatever the host sends: by its comment  *)
(* in configuration.hpp this process "answers read request to decision     *)
(* blocks".                                                                *)
EveryReadAnswered ==
  \A i \in Clients : instrument_read_bus[i] # <<>> ~> instrument_read_bus[i] = <<>>

(* Only software triggers without an end can hold a read back: a host that *)
(* sends updates and packets of other modules without a pause does not.    *)
AnsweredBetweenTriggers ==
  \/ []<>(current_state \in {ArgStates[i] : i \in 1..5})
  \/ EveryReadAnswered

(* "goal of this step is to process an unknown packet and let it through   *)
(* without parsing it", "it's the end of the packet" (configuration.cpp):  *)
(* a packet that is being ignored is one that was not recognised.          *)
IgnoresOnlyUnknown ==
  current_state = "IGNORE_PACKET" /\ config_at = "word" /\ user_dma_channel_data_in # <<>>
    => WordIn.reads_as = "unknown"
=============================================================================
