----------------------------- MODULE HostSystem -----------------------------
(***************************************************************************)
(* From the host to the design and back: a program that sends from its     *)
(* polling thread, as the demo does, and a standalone trigger beside it;   *)
(* the DMA; the configuration process (InstrumentConfiguration); the way   *)
(* of the notifications (NotificationChannel, which Notifications          *)
(* implements); the dispatcher and the demo's handler.                     *)
(***************************************************************************)
EXTENDS AlgorithmDriver

CONSTANTS
  Instruments, Prices, Packets,  (* of the design *)
  StreamDepth, NotifDepth, InDepth,
  Notifying  (* the other modules whose notifications reach the host *)


VARIABLES
  requested,  \* messages sent of which the design has not read the last word
  delivered,  \* words of the first message of c2a_stream the design was given
  user_dma_channel_data_in, config_to_notifs, decisions_outputs,
  instrument_read_bus, instrument_read_responses,  \* empty: nothing reads here
  current_state, current_dma_message_read, current_software_trigger_message_read,
  values, config_at, client, answer,
  notifs,          \* the notification of another module that waits for the host
  isExitRequested,
  told             \* the configuration the handler was told last, if any

configVars == <<current_state, current_dma_message_read,
                current_software_trigger_message_read, values, config_at, client, answer>>
readVars == <<instrument_read_bus, instrument_read_responses>>
dmaVars == <<delivered, user_dma_channel_data_in, readVars>>
outVars == <<config_to_notifs, decisions_outputs>>
programVars == <<notifs, isExitRequested, told>>
vars == <<driverVars, requested, dmaVars, outVars, configVars, programVars>>

(* read_word: what the configuration process reads in each message. *)
Sent(m) == IF Requests[m].kind = "configuration" THEN InstrumentConfigurationMessage
                                                 ELSE TriggerWithArgsMessage
AsRead(m, bits) == Read(FieldSent(Sent(m), Bits(bits)), Message[m])
AsHeader == [m \in MsgIds |-> AsRead(m, cpu2fpga_header)]
AsUpdate == [m \in MsgIds \cup {0} |->
               IF m = 0 THEN [f \in DOMAIN UpdateBits |-> 0] ELSE AsRead(m, UpdateBits)]
AsTrigger == [m \in MsgIds |-> AsRead(m, SoftwareTriggerBits)]

Design == INSTANCE InstrumentConfiguration
            WITH Messages <- MsgIds \cup {0}, Conf <- AsUpdate

(* The fields of a configuration have values the design has wires for, its *)
(* instrument is one the memory holds.                                     *)
ASSUME HostAssumption ==
  /\ {StreamDepth, NotifDepth, InDepth} \subseteq Nat \ {0}
  /\ Notifying \subseteq {"tick2trade", "tick2cancel", "tcp"}
  /\ \A m \in MsgIds : Requests[m].kind = "configuration" =>
                        Requests[m].fields \in Design!ConfMessage
-----------------------------------------------------------------------------
(* The 128 bit words of each message, the last one marked by the DMA. *)
WordsOf ==
  [m \in MsgIds |->
     LET count == SizeOf[Requests[m].kind] \div 16
         h == AsHeader[m]
     IN [i \in 1..count |->
           [msg |-> m, part |-> i, last |-> i = count,
            reads_as |->
              CASE i = 1 /\ h.dest = 8 /\ h.msg_type = 1 /\ h.version = 1 -> "configuration"
                [] i = 1 /\ h.dest = 9 /\ h.version = 1 -> "software_trigger"
                [] OTHER -> "unknown"]]]

Init ==
  /\ LocalInit /\ Design!LocalInit /\ requested = <<>>
  /\ delivered = 0 /\ user_dma_channel_data_in = <<>>
  /\ instrument_read_bus = [i \in {0, 1} |-> <<>>]
  /\ instrument_read_responses = [i \in {0, 1} |-> <<>>]
  /\ config_to_notifs = <<>> /\ decisions_outputs = [i \in {3} |-> <<>>]
  /\ notifs = {} /\ isExitRequested = FALSE /\ told = <<>>

(* The program calls and polls from one thread, until asked to exit. *)
ProgramCalls ==
  /\ ~isExitRequested
  /\ \E m \in Asks["driver"] : Call("driver", m)
  /\ UNCHANGED <<requested, dmaVars, outVars, configVars, programVars>>

StandaloneCalls ==
  /\ \E m \in Asks["standalone"] : Call("standalone", m)
  /\ UNCHANGED <<requested, dmaVars, outVars, configVars, programVars>>

SenderStep(s) ==
  /\ Sending(s)
  /\ requested' = IF c2a_stream' = c2a_stream THEN requested ELSE Append(requested, call[s])
  /\ UNCHANGED <<dmaVars, outVars, configVars, programVars>>

SenderFails(s) ==
  SendFails(s) /\ UNCHANGED <<requested, dmaVars, outVars, configVars, programVars>>

(* The DMA gives a message to the design word by word, then the next one. *)
DmaDelivers ==
  /\ c2a_stream # <<>> /\ CanWrite(user_dma_channel_data_in, InDepth)
  /\ LET word == WordsOf[Head(c2a_stream)][delivered + 1]
     IN /\ user_dma_channel_data_in' = Append(user_dma_channel_data_in, word)
        /\ IF word.last THEN delivered' = 0 /\ c2a_stream' = Tail(c2a_stream)
                        ELSE delivered' = delivered + 1 /\ UNCHANGED c2a_stream
  /\ UNCHANGED <<call, result, requested, readVars, outVars, configVars, programVars>>

DesignStep ==
  /\ Design!p_handle_instrument_configuration
  /\ requested' = IF user_dma_channel_data_in' # user_dma_channel_data_in
                       /\ Head(user_dma_channel_data_in).last
                  THEN Tail(requested) ELSE requested
  /\ UNCHANGED <<driverVars, delivered, programVars>>

TakeCommand ==
  /\ decisions_outputs[3] # <<>>
  /\ decisions_outputs' = [decisions_outputs EXCEPT ![3] = Tail(@)]
  /\ UNCHANGED <<driverVars, requested, dmaVars, config_to_notifs, configVars, programVars>>

(* p_broadcast_notifications gives the DMA one notification at a time. *)
Notify(s) ==
  /\ ~isExitRequested
  /\ notifs = {} /\ notifs' = {s}
  /\ UNCHANGED <<driverVars, requested, dmaVars, outVars, configVars, isExitRequested, told>>
-----------------------------------------------------------------------------
(* What the host looks at in the header of a notification (fill_header). *)
FromFpga(source, length) == [version |-> 1, source |-> source, length |-> length]

(* What the host reads of an acknowledgement made by p_broadcast_notifications. *)
AckSent == FieldSent(Bits(Join(AckBits, fpga2cpu_header)), InstrumentConfigurationAckMessage)
AckRead(ack) == [f \in DOMAIN AckBits |-> ack[CHOOSE g \in AckSent[f] : TRUE]]

(* Mutant: the header of Tick2trade's notification gives the size of Tick2cancel's. *)
NoticeLength == [tick2cancel |-> <<48, 10, 48>>, tick2trade |-> <<32, 11, 48>>, tcp |-> <<32, 7, 16>>]

(* The other notifications: number of bytes, source and length of the header. *)
Notice == [tick2cancel |-> <<48, 10, 48>>, tick2trade |-> <<32, 11, 32>>, tcp |-> <<32, 7, 16>>]

(* poll: the message is dispatched; the demo's handler asks to exit on an error. *)
Event(s) == Dispatched(Notice[s][1], FromFpga(Notice[s][2], Notice[s][3]))
IsError(event) == event \in {"CORRUPTED_APPLICATION_HEADER", "UNKNOWN_ALGORITHM_MESSAGE"}

CanPoll == ~isExitRequested /\ call["driver"] = NoCall

PollAck ==
  /\ CanPoll /\ config_to_notifs # <<>>
  /\ config_to_notifs' = Tail(config_to_notifs)
  /\ LET ack == Head(config_to_notifs)
     IN IF IsError(Dispatched(48, FromFpga(ack.source, ack.length)))
        THEN isExitRequested' = TRUE /\ UNCHANGED told
        ELSE told' = <<AckRead(ack)>> /\ UNCHANGED isExitRequested
  /\ UNCHANGED <<driverVars, requested, dmaVars, decisions_outputs, configVars, notifs>>

PollNotice(s) ==
  /\ CanPoll /\ s \in notifs
  /\ notifs' = {}
  /\ isExitRequested' = IsError(Event(s))
  /\ UNCHANGED <<driverVars, requested, dmaVars, outVars, configVars, told>>

(* SIGINT, SIGTERM. *)
signalExit ==
  /\ isExitRequested' = TRUE
  /\ UNCHANGED <<driverVars, requested, dmaVars, outVars, configVars, notifs, told>>

Next ==
  \/ ProgramCalls \/ StandaloneCalls \/ \E s \in Senders : SenderStep(s) \/ SenderFails(s)
  \/ DmaDelivers \/ DesignStep \/ TakeCommand
  \/ \E s \in Notifying : Notify(s) \/ PollNotice(s)
  \/ PollAck \/ signalExit

Spec == Init /\ [][Next]_vars

(* The design and the DMA run at every clock, a call goes on until it      *)
(* returns, and the program polls again and again between its calls.       *)
FairSpec ==
  /\ Spec /\ \A s \in Senders : WF_vars(SenderStep(s))
  /\ WF_vars(DmaDelivers) /\ WF_vars(DesignStep)
  /\ WF_vars(TakeCommand) /\ SF_vars(PollAck)
-----------------------------------------------------------------------------
(* The acknowledgements and the commands made, then the one owed. *)
Acks == config_to_notifs
          \o (IF config_at = "ack" THEN <<Design!Ack(current_dma_message_read)>> ELSE <<>>)
Commands == decisions_outputs[3]
              \o (IF config_at = "trigger"
                  THEN <<Design!SwCommand(current_software_trigger_message_read)>> ELSE <<>>)

(* What trigger_collection_internal is given, of those it can tell apart. *)
ArgNames == <<"arg0", "arg1", "arg2", "arg3", "arg4">>
CommandMade(c) ==
  [given |-> {i \in 1..5 : (AsTrigger[c.collection].arg_bitmap \div 2^(i - 1)) % 2 = 1},
   bytes |-> [i \in 1..5 |-> AsTrigger[c.args[i]][ArgNames[i]]]]

(* The streams hold at most their depth, and a message has more words   *)
(* than the design was given of it.                                        *)
TypeOK ==
  /\ IsStream(c2a_stream, MsgIds, TxDepth)
  /\ call \in [Senders -> {NoCall} \cup MsgIds]
  /\ result \in {"none", "error"}
  /\ delivered \in 0..5 /\ (delivered # 0 => delivered < Len(WordsOf[Head(c2a_stream)]))
  /\ Len(user_dma_channel_data_in) =< InDepth /\ Len(config_to_notifs) =< NotifDepth
  /\ Len(decisions_outputs[3]) =< StreamDepth
  /\ notifs \subseteq Notifying /\ isExitRequested \in BOOLEAN

Asked(m) ==
  LET args == Requests[m].args
  IN [given |-> {i \in 1..5 : args[i].size # 0},
      bytes |-> [i \in 1..5 |-> IF args[i].size # 0 THEN args[i].bytes ELSE 0]]

ConfigurationRequests == {m \in MsgIds : Requests[m].kind = "configuration"}
TriggerRequests ==
  {m \in MsgIds \ ConfigurationRequests : \A i \in 1..5 : Requests[m].args[i].size =< 16}

Service == INSTANCE AlgorithmService
             WITH Configurations <- [m \in ConfigurationRequests |-> Requests[m].fields],
                  Triggers <- [m \in TriggerRequests |-> Asked(m)],
                  acks <- [i \in DOMAIN Acks |-> AckRead(Acks[i])],
                  commands <- [i \in DOMAIN Commands |-> CommandMade(Commands[i])]

(* The library, the DMA, the configuration process, the notifications and  *)
(* the dispatcher together do what AlgorithmService promises: however the  *)
(* two senders, the design and the polling interleave, a request reported  *)
(* as sent is carried out once, in order and with the values asked for     *)
(* (the collection of a trigger apart, see TriggersCollectionAsked), and   *)
(* one reported as refused, timed out or invalid is not.                   *)
ImplementsService == Service!Spec

(* What the handler was told last of an instrument is what the strategies  *)
(* read for it, unless an update of it was carried out since, which the    *)
(* handler has yet to hear of.  Of the byte told as enabled the strategies *)
(* read the low bit alone: a handler told of an even byte other than 0 is  *)
(* told that the instrument is enabled while the strategies read that it   *)
(* is not.                                                                 *)
ToldIsStored ==
  told # <<>> =>
    \/ values[told[1].instr_id] = Design!Kept(told[1])
    \/ \E i \in DOMAIN Acks : Acks[i].instr_id = told[1].instr_id

(* What a notification holds for the host and what it is read as agree in  *)
(* every field.                                                            *)
ReadAsWritten(s) ==
  LET layout == Known[Notice[s][2]].layout
  IN \A f \in DOMAIN NotificationBits[s] : Bits(NotificationBits[s])[f] = layout[f]

(* Every notification reaches the handler, as that module's and field for  *)
(* field, but the TCP consumer's: the length it states is not its size,    *)
(* and the handler hears of an error instead, on which the demo exits.     *)
OnlyTcpIsLost ==
  [][\A s \in notifs \ notifs' :
       IF s = "tcp" THEN isExitRequested'
                    ELSE ~isExitRequested' /\ Event(s) = s /\ ReadAsWritten(s)]_vars

(* A way to the design full of updates whose acknowledgements nobody polls *)
(* is no dead end, although the thread that tries to send cannot poll      *)
(* meanwhile and so cannot make the room it waits for: a program that goes *)
(* on calling and polling in turn finds room again and again, to send or   *)
(* to be refused for another reason.  That takes the timeout, which ends   *)
(* the call, and acknowledgements that free the design once polled.  It    *)
(* does not hold for a program beside which a standalone trigger goes on   *)
(* sending, and may take all the room there is.                            *)
CallsFindRoom ==
  \/ <>isExitRequested \/ <>[](call["driver"] = NoCall) \/ []<>(call["standalone"] # NoCall)
  \/ []<><<call["driver"] # NoCall /\ CanWrite(c2a_stream, TxDepth)
           /\ call'["driver"] = NoCall>>_vars

(* Every configuration reported as sent is told to a handler of a program  *)
(* that goes on polling, whatever else is sent and notified.               *)
ToldWhilePolled ==
  []~isExitRequested =>
    \A m \in ConfigurationRequests :
      (\E i \in DOMAIN requested : requested[i] = m) ~> (told = <<Requests[m].fields>>)

(* "collection_id Id of the collection to trigger" (StandAloneTrigger.hpp):*)
(* the commands issued for the host trigger collections it asked for.      *)
TriggersCollectionAsked ==
  \A i \in DOMAIN decisions_outputs[3] :
    \E m \in TriggerRequests :
      AsTrigger[decisions_outputs[3][i].collection].collection_id = Requests[m].collection
=============================================================================
