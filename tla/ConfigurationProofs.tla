------------------------ MODULE ConfigurationProofs ------------------------
(***************************************************************************)
(* The configuration process proved for every set of messages, any number  *)
(* of instruments, every order of the host's packets and every depth of    *)
(* the streams.  The process counts words: what makes a configuration      *)
(* whole is that the place it counted to and the packets still to come     *)
(* stay in step, in every state of its FSM.                                *)
(***************************************************************************)
EXTENDS ConfigurationSystem, HlsStreamProofs

Kinds == {"configuration", "software_trigger", "one_word_unknown", "two_word_unknown"}

(* The depths are natural numbers. *)
LEMMA DepthTypes == StreamDepth \in Nat /\ NotifDepth \in Nat /\ InDepth \in Nat
BY ConfAssumption, ConfSystemAssumption

(* A packet has as many words as its kind says, in their order, with its   *)
(* end marked at the last of them only.                                    *)
LEMMA WordsType ==
  ASSUME NEW kind \in Kinds, NEW m \in Messages
  PROVE  /\ Length(kind) \in 1..6
         /\ Words(kind, m) \in Seq(DmaWord) /\ Len(Words(kind, m)) = Length(kind)
         /\ \A i \in 1..Length(kind) :
              /\ Words(kind, m)[i].msg = m /\ Words(kind, m)[i].part = i
              /\ Words(kind, m)[i].last <=> i = Length(kind)
         /\ Words(kind, m)[1].reads_as =
              IF kind \in {"configuration", "software_trigger"} THEN kind ELSE "unknown"
<1>1. Length(kind) \in 1..6
  BY DEF Length, Kinds
<1>2. \A i \in 1..Length(kind) :
        /\ Words(kind, m)[i] = [msg |-> m, part |-> i, last |-> i = Length(kind),
             reads_as |-> IF i = 1 /\ kind \in {"configuration", "software_trigger"}
                          THEN kind ELSE "unknown"]
        /\ Words(kind, m)[i] \in DmaWord
  BY <1>1 DEF Words, DmaWord
<1>3. Words(kind, m) \in Seq(DmaWord) /\ Len(Words(kind, m)) = Length(kind)
  <2>1. Words(kind, m) \in [1..Length(kind) -> DmaWord]
    BY <1>2 DEF Words
  <2>2. Length(kind) \in Nat
    BY <1>1
  <2>. QED  BY <2>1, <2>2, FunctionIsSeq
<1>4. Words(kind, m)[1].reads_as =
        IF kind \in {"configuration", "software_trigger"} THEN kind ELSE "unknown"
  <2>1. 1 \in 1..Length(kind)
    BY <1>1
  <2>2. Words(kind, m)[1] = [msg |-> m, part |-> 1, last |-> 1 = Length(kind),
          reads_as |-> IF kind \in {"configuration", "software_trigger"}
                       THEN kind ELSE "unknown"]
    BY <2>1 DEF Words
  <2>. QED  BY <2>2
<1>5. ASSUME NEW i \in 1..Length(kind)
      PROVE  /\ Words(kind, m)[i].msg = m /\ Words(kind, m)[i].part = i
             /\ Words(kind, m)[i].last <=> i = Length(kind)
  BY DEF Words
<1>. QED  BY <1>1, <1>3, <1>4, <1>5

(* Whatever three words were put together, they read as a configuration.   *)
LEMMA ConvertType ==
  ASSUME NEW d \in [word1: Messages, word2: Messages, word3: Messages]
  PROVE  /\ Convert(d) \in ConfItem
         /\ Ack(d) \in AckType /\ Kept(Ack(d)) = Convert(d)
         /\ Ack(d).instr_id = Conf[d.word3].instr_id /\ Conf[d.word3].instr_id \in Instruments
<1>1. /\ Conf[d.word1] \in ConfMessage /\ Conf[d.word2] \in ConfMessage
      /\ Conf[d.word3] \in ConfMessage
  BY ConfAssumption
<1>2. Convert(d) \in ConfItem
  BY <1>1 DEF Convert, ConfItem, ConfMessage
<1>3. Ack(d) \in AckType
  BY <1>1 DEF Ack, AckType, ConfMessage
<1>4. Kept(Ack(d)) = Convert(d)
  <2>1. Convert(d) = [f \in DOMAIN NoConf |-> Convert(d)[f]]
    BY DEF Convert, NoConf
  <2>2. ASSUME NEW f \in DOMAIN NoConf
        PROVE  Convert(d)[f] = IF f = "enabled" THEN Ack(d).enabled % 2 = 1 ELSE Ack(d)[f]
    BY <2>2 DEF Convert, Ack, NoConf
  <2>. QED  BY <2>1, <2>2 DEF Kept
<1>. QED  BY <1>1, <1>2, <1>3, <1>4 DEF Ack, ConfMessage

(* A command has the five arguments that were read after the collection.   *)
LEMMA SwCommandTypes ==
  ASSUME NEW t \in [1..6 -> Messages]
  PROVE  /\ SwCommand(t) \in SwCommandType /\ SwCommand(t).collection = t[1]
         /\ SwCommand(t).args = [k \in 1..5 |-> t[k + 1]]
<1>1. t \in Seq(Messages) /\ Len(t) = 6 /\ t[1] \in Messages
  <2>1. 6 \in Nat /\ t[1] \in Messages
    OBVIOUS
  <2>. DEFINE n == 6
  <2>2. n \in Nat /\ t \in [1..n -> Messages]
    OBVIOUS
  <2>. HIDE DEF n
  <2>3. t \in Seq(Messages) /\ Len(t) = n
    BY <2>2, FunctionIsSeq
  <2>. QED  BY <2>1, <2>3 DEF n
<1>2. Tail(t) \in Seq(Messages) /\ Tail(t) = [k \in 1..5 |-> t[k + 1]]
  <2>1. 5 \in Nat /\ 6 = 5 + 1
    OBVIOUS
  <2>. DEFINE n == 5
  <2>2. n \in Nat /\ Len(t) = n + 1
    BY <1>1, <2>1
  <2>. HIDE DEF n
  <2>3. Tail(t) \in Seq(Messages) /\ Tail(t) = [k \in 1..n |-> t[k + 1]]
    BY <1>1, <2>2, TailPlaces
  <2>. QED  BY <2>3 DEF n
<1>. QED  BY <1>1, <1>2 DEF SwCommand, SwCommandType

(* The states that read a trigger's words are five, and none of the others. *)
LEMMA ArgStateNames ==
  /\ \A i, j \in 1..5 : ArgStates[i] = ArgStates[j] => i = j
  /\ \A i \in 1..5 : ArgStates[i] \notin
       {"IDLE", "READ_CONF_WORD2", "READ_CONF_WORD3", "IGNORE_PACKET"}
<1>1. /\ ArgStates[1] = "READ_SW_TRIG_ARG1" /\ ArgStates[2] = "READ_SW_TRIG_ARG2"
      /\ ArgStates[3] = "READ_SW_TRIG_ARG3" /\ ArgStates[4] = "READ_SW_TRIG_ARG4"
      /\ ArgStates[5] = "READ_SW_TRIG_ARG5_ISSUE_TRIG"
  BY DEF ArgStates
<1>2. \A i \in 1..5 : i = 1 \/ i = 2 \/ i = 3 \/ i = 4 \/ i = 5
  OBVIOUS
<1>. QED  BY <1>1, <1>2

(* Every step of the process and its neighbours keeps the types.           *)
SendingType == sending \in Seq(DmaWord)

LEMMA TypeStep ==
  ASSUME TypeOK, SendingType, [Next]_vars
  PROVE  TypeOK' /\ SendingType'
<1>. USE DepthTypes DEF TypeOK, SendingType
<1>1. ASSUME TakeWord
      PROVE  /\ IsStream(user_dma_channel_data_in, DmaWord, InDepth)'
             /\ WordIn \in DmaWord /\ WordIn.msg \in Messages
             /\ client' \in Clients
  <2>1. /\ user_dma_channel_data_in # <<>> /\ client' = 0
        /\ user_dma_channel_data_in' = Tail(user_dma_channel_data_in)
    BY <1>1 DEF TakeWord
  <2>2. IsStream(user_dma_channel_data_in, DmaWord, InDepth)' /\ WordIn \in DmaWord
    BY <2>1, ReadStream DEF WordIn
  <2>. QED  BY <2>1, <2>2 DEF DmaWord, Clients
<1>2. CASE ReadHeader /\ UNCHANGED <<hostVars, asked>>
  <2>. USE <1>2 DEF ReadHeader, TakeWord
  <2>1. /\ current_dma_message_read' \in [word1: Messages, word2: Messages, word3: Messages]
        /\ current_software_trigger_message_read' \in [1..6 -> Messages]
    BY <1>1
  <2>2. current_state' \in {ArgStates[i] : i \in 1..5} => config_at' = "word"
    OBVIOUS
  <2>3. config_at' = "word"
    OBVIOUS
  <2>. QED  BY <1>1, <2>1, <2>3 DEF hostVars
<1>3. CASE ReadConfWord2 /\ UNCHANGED <<hostVars, asked>>
  <2>. USE <1>3 DEF ReadConfWord2, TakeWord
  <2>1. current_dma_message_read' \in [word1: Messages, word2: Messages, word3: Messages]
    BY <1>1
  <2>2. current_state' \notin {ArgStates[i] : i \in 1..5}
    BY ArgStateNames
  <2>. QED  BY <1>1, <2>1, <2>2 DEF hostVars
<1>4. CASE ReadConfWord3 /\ UNCHANGED <<hostVars, asked>>
  <2>. USE <1>4 DEF ReadConfWord3, TakeWord
  <2>1. current_dma_message_read' \in [word1: Messages, word2: Messages, word3: Messages]
    BY <1>1
  <2>2. values' \in [Instruments -> ConfItem]
    BY <2>1, ConvertType
  <2>3. current_state' \notin {ArgStates[i] : i \in 1..5}
    BY ArgStateNames
  <2>. QED  BY <1>1, <2>1, <2>2, <2>3 DEF hostVars
<1>5. CASE WriteAck /\ UNCHANGED <<hostVars, asked>>
  <2>. USE <1>5 DEF WriteAck
  <2>1. IsStream(config_to_notifs, AckType, NotifDepth)'
    BY ConvertType, WriteStream
  <2>2. current_state' \notin {ArgStates[i] : i \in 1..5}
    BY ArgStateNames
  <2>. QED  BY <2>1, <2>2 DEF hostVars
<1>6. CASE ReadSwTrigArg /\ UNCHANGED <<hostVars, asked>>
  <2>. USE <1>6 DEF TakeWord
  <2>1. PICK i \in 1..5 :
          /\ current_state = ArgStates[i]
          /\ current_software_trigger_message_read' =
               [current_software_trigger_message_read EXCEPT ![i + 1] = WordIn.msg]
          /\ IF i < 5 THEN current_state' = ArgStates[i + 1] /\ UNCHANGED config_at
                      ELSE UNCHANGED current_state /\ config_at' = "trigger"
    BY DEF ReadSwTrigArg
  <2>2. TakeWord /\ UNCHANGED <<current_dma_message_read, values>>
    BY DEF ReadSwTrigArg
  <2>3. current_software_trigger_message_read' \in [1..6 -> Messages]
    BY <1>1, <2>1, <2>2
  <2>4. /\ config_at' = "trigger" => current_state' = ArgStates[5]
        /\ config_at' \in {"word", "trigger"}
    BY <2>1, <2>2
  <2>. QED  BY <1>1, <2>2, <2>3, <2>4 DEF hostVars
<1>7. CASE IssueTrigger /\ UNCHANGED <<hostVars, asked>>
  <2>. USE <1>7 DEF IssueTrigger
  <2>1. IsBus(decisions_outputs, {SwTriggerBus}, SwCommandType, StreamDepth)'
    BY SwCommandTypes, WriteBus
  <2>2. current_state' \notin {ArgStates[i] : i \in 1..5}
    BY ArgStateNames
  <2>. QED  BY <2>1, <2>2 DEF hostVars
<1>8. CASE IgnoreWord /\ UNCHANGED <<hostVars, asked>>
  <2>. USE <1>8 DEF IgnoreWord, TakeWord
  <2>1. current_state' \notin {ArgStates[i] : i \in 1..5}
    BY ArgStateNames
  <2>. QED  BY <1>1, <2>1 DEF hostVars
<1>9. CASE TurnToRequests /\ UNCHANGED <<hostVars, asked>>
  <2>1. current_state \notin {ArgStates[i] : i \in 1..5}
    BY <1>9, ArgStateNames DEF TurnToRequests, ServingStates
  <2>. QED  BY <1>9, <2>1 DEF TurnToRequests, hostVars, configStreams, Clients
<1>10. CASE SkipClient /\ UNCHANGED <<hostVars, asked>>
  <2>1. current_state \notin {ArgStates[i] : i \in 1..5}
    BY <1>10 DEF SkipClient
  <2>. QED  BY <1>10, <2>1 DEF SkipClient, NextClient, hostVars, configStreams, Clients
<1>11. CASE ReadRequest /\ UNCHANGED <<hostVars, asked>>
  <2>. USE <1>11 DEF ReadRequest
  <2>1. Head(instrument_read_bus[client]) \in Instruments
    BY BusStream, ReadStream
  <2>2. IsBus(instrument_read_bus, Clients, Instruments, StreamDepth)'
    BY ReadBus
  <2>. QED  BY <2>1, <2>2 DEF hostVars
<1>12. CASE WriteAnswer /\ UNCHANGED <<hostVars, asked>>
  <2>. USE <1>12 DEF WriteAnswer
  <2>1. IsBus(instrument_read_responses, Clients, ConfItem, StreamDepth)'
    BY WriteBus
  <2>2. NoConf \in ConfItem
    BY NxbusAssumption DEF NoConf, ConfItem
  <2>. QED  BY <2>1, <2>2 DEF NextClient, hostVars, Clients
<1>13. CASE HostSends
  <2>1. PICK packet \in HostPackets : sending' = Words(packet[1], packet[2])
    BY <1>13 DEF HostSends
  <2>2. packet[1] \in Kinds /\ packet[2] \in Messages
    BY <2>1, ConfSystemAssumption DEF Kinds
  <2>. QED  BY <1>13, <2>1, <2>2, WordsType DEF HostSends, configVars, configStreams
<1>14. CASE DmaDelivers
  <2>. USE <1>14 DEF DmaDelivers
  <2>1. Head(sending) \in DmaWord /\ sending' \in Seq(DmaWord)
    OBVIOUS
  <2>2. IsStream(user_dma_channel_data_in, DmaWord, InDepth)'
    BY <2>1, WriteStream
  <2>. QED  BY <2>1, <2>2 DEF configVars
<1>15. ASSUME NEW i \in Clients, Ask(i)
       PROVE  TypeOK' /\ SendingType'
  <2>. USE <1>15 DEF Ask
  <2>1. PICK instr \in Instruments :
          instrument_read_bus' = [instrument_read_bus EXCEPT ![i] = Append(@, instr)]
    OBVIOUS
  <2>2. IsBus(instrument_read_bus, Clients, Instruments, StreamDepth)'
    BY <2>1, WriteBus
  <2>. QED  BY <2>2 DEF configVars, hostVars
<1>16. ASSUME NEW i \in Clients, TakeAnswer(i)
       PROVE  TypeOK' /\ SendingType'
  <2>1. IsBus(instrument_read_responses, Clients, ConfItem, StreamDepth)'
    BY <1>16, ReadBus DEF TakeAnswer
  <2>. QED  BY <1>16, <2>1 DEF TakeAnswer, configVars, hostVars
<1>17. CASE SinkAck
  <2>1. IsStream(config_to_notifs, AckType, NotifDepth)'
    BY <1>17, ReadStream DEF SinkAck
  <2>. QED  BY <1>17, <2>1 DEF SinkAck, configVars, hostVars
<1>18. CASE SinkTrigger
  <2>1. IsBus(decisions_outputs, {SwTriggerBus}, SwCommandType, StreamDepth)'
    BY <1>18, ReadBus DEF SinkTrigger
  <2>. QED  BY <1>18, <2>1 DEF SinkTrigger, configVars, hostVars
<1>19. CASE UNCHANGED vars
  BY <1>19 DEF vars, configVars, configStreams
<1>20. Process => UNCHANGED <<hostVars, asked>> /\ p_handle_instrument_configuration
  BY DEF Process
<1>. QED
  BY <1>2, <1>3, <1>4, <1>5, <1>6, <1>7, <1>8, <1>9, <1>10, <1>11, <1>12, <1>13,
     <1>14, <1>15, <1>16, <1>17, <1>18, <1>19, <1>20
  DEF Next, p_handle_instrument_configuration

LEMMA InitTypes == Init => TypeOK /\ SendingType
<1>. SUFFICES ASSUME Init
              PROVE  TypeOK /\ SendingType
  OBVIOUS
<1>1. current_state \notin {ArgStates[i] : i \in 1..5}
  BY ArgStateNames DEF Init, LocalInit
<1>2. NoConf \in ConfItem
  BY NxbusAssumption DEF NoConf, ConfItem
<1>. QED  BY <1>1, <1>2, DepthTypes, ConfAssumption
  DEF Init, LocalInit, TypeOK, SendingType, IsBus, IsStream, Clients

(* Type correctness: no stream of the configuration overflows, and its FSM *)
(* waits to acknowledge or to issue a trigger in the one state for it.     *)
THEOREM TypeCorrect == Spec => []TypeOK
<1>1. TypeOK /\ SendingType /\ [Next]_vars => TypeOK' /\ SendingType'
  BY TypeStep
<1>. QED  BY InitTypes, <1>1, PTL DEF Spec
-----------------------------------------------------------------------------
(* From place j on the stream s has what follows the first n words of a    *)
(* packet of this kind and message, and then another packet's first word.  *)
RestAt(s, j, kind, m, n) ==
  /\ \A i \in (n + 1)..Length(kind) :
       j + i - n - 1 =< Len(s) /\ s[j + i - n - 1] = Words(kind, m)[i]
  /\ j + Length(kind) - n =< Len(s) => s[j + Length(kind) - n].part = 1

(* Every first word begins a whole packet. *)
Framed(s) ==
  \A j \in 1..Len(s) : s[j].part = 1 =>
    \E kind \in Kinds, m \in Messages \ {0} : RestAt(s, j, kind, m, 0)

Boundary(s) == Len(s) >= 1 => s[1].part = 1

(* The words the process has yet to read: in the channel, then those of    *)
(* the packet the host is sending.                                         *)
Coming == user_dma_channel_data_in \o sending

(* Where the FSM stands in the packet it is reading, by its state. *)
AtStart ==
  current_state = "IDLE" \/ config_at \in {"ack", "trigger"} => Boundary(Coming)

InUpdate ==
  LET d == current_dma_message_read
  IN /\ current_state = "READ_CONF_WORD2" =>
          d.word1 # 0 /\ RestAt(Coming, 1, "configuration", d.word1, 1)
     /\ current_state = "READ_CONF_WORD3" =>
          /\ d.word1 # 0 /\ d.word2 = d.word1
          /\ config_at = "ack" => d.word3 = d.word1
          /\ config_at # "ack" => RestAt(Coming, 1, "configuration", d.word1, 2)

InTrigger ==
  LET t == current_software_trigger_message_read
  IN \A i \in 1..5 : current_state = ArgStates[i] =>
       /\ t[1] # 0 /\ \A k \in 1..i : t[k] = t[1]
       /\ config_at = "trigger" => t[6] = t[1]
       /\ config_at # "trigger" => RestAt(Coming, 1, "software_trigger", t[1], i)

(* A packet of one word leaves the process ignoring the packet after it.   *)
InIgnored ==
  current_state = "IGNORE_PACKET" =>
    \/ Coming = <<>>
    \/ \E kind \in Kinds, m \in Messages \ {0} :
         \E n \in 0..(Length(kind) - 1) : RestAt(Coming, 1, kind, m, n)

WordsInStep == Framed(Coming) /\ AtStart /\ InUpdate /\ InTrigger /\ InIgnored

(* The words of one packet, as they are taken. *)
LEMMA TakeRest ==
  ASSUME NEW s \in Seq(DmaWord), NEW kind \in Kinds, NEW m \in Messages,
         NEW n \in 0..(Length(kind) - 1), RestAt(s, 1, kind, m, n)
  PROVE  /\ s # <<>> /\ s[1] = Words(kind, m)[n + 1]
         /\ RestAt(Tail(s), 1, kind, m, n + 1)
<1>1. Length(kind) \in 1..6 /\ n \in Nat /\ Len(s) \in Nat
  BY WordsType
<1>2. \A i \in (n + 1)..Length(kind) : i - n =< Len(s) /\ s[i - n] = Words(kind, m)[i]
  BY <1>1 DEF RestAt
<1>3. s # <<>> /\ s[1] = Words(kind, m)[n + 1]
  BY <1>1, <1>2
<1>4. Len(Tail(s)) = Len(s) - 1 /\ \A i \in 1..(Len(s) - 1) : Tail(s)[i] = s[i + 1]
  BY <1>3
<1>5. ASSUME NEW i \in (n + 2)..Length(kind)
      PROVE  i - n - 1 =< Len(Tail(s)) /\ Tail(s)[i - n - 1] = Words(kind, m)[i]
  <2>1. i - n =< Len(s) /\ s[i - n] = Words(kind, m)[i]
    BY <1>1, <1>2
  <2>. QED  BY <1>1, <1>4, <2>1
<1>6. Length(kind) - n =< Len(Tail(s)) => Tail(s)[Length(kind) - n].part = 1
  BY <1>1, <1>4 DEF RestAt
<1>7. \A i \in (n + 1 + 1)..Length(kind) :
        1 + i - (n + 1) - 1 =< Len(Tail(s)) /\ Tail(s)[1 + i - (n + 1) - 1] = Words(kind, m)[i]
  BY <1>1, <1>5
<1>8. 1 + Length(kind) - (n + 1) = Length(kind) - n
  BY <1>1
<1>. QED  BY <1>3, <1>6, <1>7, <1>8 DEF RestAt

(* Nothing is left of a packet whose words were all read. *)
LEMMA RestIsBoundary ==
  ASSUME NEW s \in Seq(DmaWord), NEW kind \in Kinds, NEW m \in Messages,
         RestAt(s, 1, kind, m, Length(kind))
  PROVE  Boundary(s)
<1>1. Length(kind) \in 1..6 /\ 1 + Length(kind) - Length(kind) = 1
  BY WordsType
<1>. QED  BY <1>1 DEF RestAt, Boundary

LEMMA BoundaryCases ==
  ASSUME NEW s \in Seq(DmaWord), Boundary(s)
  PROVE  s = <<>> \/ (s[1].part = 1 /\ 1 \in 1..Len(s))
<1>1. s = <<>> \/ Len(s) >= 1
  OBVIOUS
<1>2. Len(s) >= 1 => 1 \in 1..Len(s)
  OBVIOUS
<1>3. Len(s) >= 1 => s[1].part = 1
  BY DEF Boundary
<1>. QED  BY <1>1, <1>2, <1>3

(* The packets further on move up whole by one word. *)
LEMMA FramedTail ==
  ASSUME NEW s \in Seq(DmaWord), s # <<>>, Framed(s)
  PROVE  Framed(Tail(s))
<1>1. /\ Len(s) \in Nat /\ Len(Tail(s)) = Len(s) - 1
      /\ \A i \in 1..(Len(s) - 1) : Tail(s)[i] = s[i + 1]
  OBVIOUS
<1>2. SUFFICES ASSUME NEW j \in 1..Len(Tail(s)), Tail(s)[j].part = 1
               PROVE  \E kind \in Kinds, m \in Messages \ {0} : RestAt(Tail(s), j, kind, m, 0)
  BY DEF Framed
<1>3. j + 1 \in 1..Len(s) /\ s[j + 1].part = 1
  BY <1>1, <1>2
<1>4. PICK kind \in Kinds, m \in Messages \ {0} : RestAt(s, j + 1, kind, m, 0)
  BY <1>3 DEF Framed
<1>5. Length(kind) \in 1..6
  BY WordsType
<1>6. ASSUME NEW i \in (0 + 1)..Length(kind)
      PROVE  j + i - 0 - 1 =< Len(Tail(s)) /\ Tail(s)[j + i - 0 - 1] = Words(kind, m)[i]
  <2>1. j + 1 + i - 0 - 1 =< Len(s) /\ s[j + 1 + i - 0 - 1] = Words(kind, m)[i]
    BY <1>4 DEF RestAt
  <2>2. j + i - 0 - 1 \in 1..(Len(s) - 1) /\ j + 1 + i - 0 - 1 = (j + i - 0 - 1) + 1
    BY <1>1, <1>5, <2>1
  <2>. QED  BY <1>1, <2>1, <2>2
<1>7. j + Length(kind) - 0 =< Len(Tail(s)) => Tail(s)[j + Length(kind) - 0].part = 1
  <2>. SUFFICES ASSUME j + Length(kind) - 0 =< Len(Tail(s))
                PROVE  Tail(s)[j + Length(kind) - 0].part = 1
    OBVIOUS
  <2>1. /\ j + Length(kind) - 0 \in 1..(Len(s) - 1)
        /\ j + 1 + Length(kind) - 0 = (j + Length(kind) - 0) + 1
    BY <1>1, <1>5
  <2>. QED  BY <1>1, <1>4, <2>1 DEF RestAt
<1>8. RestAt(Tail(s), j, kind, m, 0)
  BY <1>6, <1>7 DEF RestAt
<1>. QED  BY <1>8

(* A packet sent after a stream leaves what is there in place. *)
LEMMA AppendRest ==
  ASSUME NEW s \in Seq(DmaWord), NEW kind \in Kinds, NEW m \in Messages,
         NEW j \in Nat \ {0}, NEW n \in 0..Length(kind), j - 1 =< Len(s),
         RestAt(s, j, kind, m, n), NEW next \in Kinds, NEW new \in Messages
  PROVE  RestAt(s \o Words(next, new), j, kind, m, n)
<1>. DEFINE w == Words(next, new)
            all == s \o w
<1>1. /\ Length(kind) \in 1..6 /\ w \in Seq(DmaWord) /\ Len(w) \in 1..6 /\ w[1].part = 1
      /\ Len(s) \in Nat
  <2>1. Length(kind) \in 1..6 /\ Length(next) \in 1..6 /\ Len(s) \in Nat
    BY WordsType
  <2>2. w \in Seq(DmaWord) /\ Len(w) = Length(next)
    BY WordsType
  <2>3. w[1].part = 1
    BY <2>1, WordsType
  <2>. QED  BY <2>1, <2>2, <2>3
<1>. HIDE DEF w
<1>2. /\ Len(all) = Len(s) + Len(w) /\ \A i \in 1..Len(s) : all[i] = s[i]
      /\ all[Len(s) + 1] = w[1]
  BY <1>1
<1>. HIDE DEF all
<1>3. ASSUME NEW i \in (n + 1)..Length(kind)
      PROVE  j + i - n - 1 =< Len(all) /\ all[j + i - n - 1] = Words(kind, m)[i]
  <2>1. j + i - n - 1 =< Len(s) /\ s[j + i - n - 1] = Words(kind, m)[i]
    BY DEF RestAt
  <2>2. j + i - n - 1 \in 1..Len(s)
    BY <1>1, <2>1
  <2>. QED  BY <1>1, <1>2, <2>1, <2>2
<1>4. j + Length(kind) - n =< Len(all) => all[j + Length(kind) - n].part = 1
  <2>1. CASE j + Length(kind) - n =< Len(s)
    <3>1. j + Length(kind) - n \in 1..Len(s)
      BY <1>1, <2>1
    <3>. QED  BY <1>2, <2>1, <3>1 DEF RestAt
  <2>2. CASE j + Length(kind) - n > Len(s)
    <3>1. j + Length(kind) - n = Len(s) + 1
      <4>1. CASE n = Length(kind)
        BY <1>1, <2>2, <4>1
      <4>2. CASE n < Length(kind)
        <5>1. Length(kind) \in (n + 1)..Length(kind)
          BY <1>1, <4>2
        <5>2. j + Length(kind) - n - 1 =< Len(s)
          BY <5>1 DEF RestAt
        <5>. QED  BY <1>1, <2>2, <5>2
      <4>. QED  BY <1>1, <4>1, <4>2
    <3>. QED  BY <1>1, <1>2, <3>1
  <2>. QED  BY <1>1, <2>1, <2>2
<1>. QED  BY <1>3, <1>4 DEF RestAt, all, w

LEMMA AppendFramed ==
  ASSUME NEW s \in Seq(DmaWord), Framed(s), NEW next \in Kinds, NEW new \in Messages \ {0}
  PROVE  /\ Framed(s \o Words(next, new))
         /\ s = <<>> => RestAt(s \o Words(next, new), 1, next, new, 0)
         /\ Boundary(s) => Boundary(s \o Words(next, new))
<1>. DEFINE w == Words(next, new)
            all == s \o w
            start == Len(s) + 1
<1>1. /\ w \in Seq(DmaWord) /\ Len(w) = Length(next) /\ Length(next) \in 1..6
      /\ \A i \in 1..Len(w) : w[i].part = i
      /\ Len(s) \in Nat
  <2>1. new \in Messages /\ Len(s) \in Nat
    OBVIOUS
  <2>2. w \in Seq(DmaWord) /\ Len(w) = Length(next) /\ Length(next) \in 1..6
    BY <2>1, WordsType
  <2>3. \A i \in 1..Length(next) : w[i].part = i
    BY <2>1, WordsType
  <2>. QED  BY <2>1, <2>2, <2>3
<1>. HIDE DEF w
<1>2. /\ all \in Seq(DmaWord) /\ Len(all) = Len(s) + Len(w)
      /\ \A i \in 1..Len(s) : all[i] = s[i]
      /\ \A i \in 1..Len(w) : all[Len(s) + i] = w[i]
  BY <1>1
<1>. HIDE DEF all
<1>3. RestAt(all, start, next, new, 0)
  <2>1. ASSUME NEW i \in (0 + 1)..Length(next)
        PROVE  start + i - 0 - 1 =< Len(all) /\ all[start + i - 0 - 1] = w[i]
    <3>1. start + i - 0 - 1 = Len(s) + i /\ i \in 1..Len(w)
      BY <1>1
    <3>. QED  BY <1>1, <1>2, <3>1
  <2>2. ~(start + Length(next) - 0 =< Len(all))
    BY <1>1, <1>2
  <2>. QED  BY <2>1, <2>2 DEF RestAt, w
<1>4. ASSUME NEW j \in 1..Len(all), all[j].part = 1
      PROVE  \E kind \in Kinds, m \in Messages \ {0} : RestAt(all, j, kind, m, 0)
  <2>1. CASE j \in 1..Len(s)
    <3>1. PICK kind \in Kinds, m \in Messages \ {0} : RestAt(s, j, kind, m, 0)
      BY <1>2, <1>4, <2>1 DEF Framed
    <3>2. 0 \in 0..Length(kind) /\ j \in Nat \ {0} /\ j - 1 =< Len(s)
      BY <1>1, <2>1, WordsType
    <3>3. RestAt(all, j, kind, m, 0)
      BY <3>1, <3>2, AppendRest DEF all, w
    <3>. QED  BY <3>3
  <2>2. CASE j \notin 1..Len(s)
    <3>. DEFINE i == j - Len(s)
    <3>1. i \in 1..Len(w) /\ j = Len(s) + i
      BY <1>1, <1>2, <2>2
    <3>. HIDE DEF i
    <3>2. i = 1
      BY <1>1, <1>2, <1>4, <3>1
    <3>. QED  BY <1>3, <3>1, <3>2
  <2>. QED  BY <2>1, <2>2
<1>5. Framed(all)
  BY <1>4 DEF Framed
<1>6. s = <<>> => RestAt(all, 1, next, new, 0)
  <2>1. s = <<>> => start = 1
    OBVIOUS
  <2>. QED  BY <1>3, <2>1
<1>7. Boundary(s) => Boundary(all)
  <2>1. CASE Len(s) >= 1
    BY <1>1, <1>2, <2>1 DEF Boundary
  <2>2. CASE Len(s) = 0
    BY <1>1, <1>2, <2>2 DEF Boundary
  <2>. QED  BY <1>1, <2>1, <2>2
<1>. QED  BY <1>5, <1>6, <1>7 DEF all, w

(* The words the host sends are added to those that come, and no others.   *)
LEMMA ComingSends ==
  ASSUME TypeOK, SendingType, HostSends
  PROVE  \E next \in Kinds, new \in Messages \ {0} : Coming' = Coming \o Words(next, new)
<1>1. PICK packet \in HostPackets : sending' = Words(packet[1], packet[2])
  BY DEF HostSends
<1>2. packet[1] \in Kinds /\ packet[2] \in Messages \ {0}
  BY <1>1, ConfSystemAssumption DEF Kinds
<1>3. /\ sending = <<>> /\ user_dma_channel_data_in' = user_dma_channel_data_in
      /\ user_dma_channel_data_in \in Seq(DmaWord)
  BY DEF HostSends, configStreams, TypeOK, IsStream
<1>4. Coming = user_dma_channel_data_in
  BY <1>3 DEF Coming
<1>5. Coming' = Coming \o Words(packet[1], packet[2])
  BY <1>1, <1>3, <1>4 DEF Coming
<1>. QED  BY <1>2, <1>5

(* The DMA moves a word without taking one away, and a reading state takes *)
(* the first.                                                              *)
LEMMA ComingDelivered ==
  ASSUME TypeOK, SendingType, DmaDelivers
  PROVE  Coming' = Coming
<1>1. /\ user_dma_channel_data_in \in Seq(DmaWord) /\ sending \in Seq(DmaWord)
      /\ sending # <<>>
      /\ user_dma_channel_data_in' = Append(user_dma_channel_data_in, Head(sending))
      /\ sending' = Tail(sending)
  BY DEF DmaDelivers, TypeOK, IsStream, SendingType
<1>. QED  BY <1>1, DeliverOne DEF Coming

LEMMA ComingTaken ==
  ASSUME TypeOK, SendingType, TakeWord, UNCHANGED hostVars
  PROVE  /\ Coming # <<>> /\ Coming' = Tail(Coming)
         /\ WordIn = Coming[1] /\ Coming \in Seq(DmaWord)
<1>1. /\ user_dma_channel_data_in \in Seq(DmaWord) /\ sending \in Seq(DmaWord)
      /\ user_dma_channel_data_in # <<>> /\ sending' = sending
      /\ user_dma_channel_data_in' = Tail(user_dma_channel_data_in)
  BY DEF TakeWord, TypeOK, IsStream, SendingType, hostVars
<1>. QED  BY <1>1, TailOfConcat DEF Coming, WordIn

(* The place of the FSM in the packets is kept by every step.              *)
LEMMA InStepAfterSend ==
  ASSUME TypeOK, SendingType, WordsInStep, HostSends
  PROVE  WordsInStep'
<1>1. PICK next \in Kinds, new \in Messages \ {0} : Coming' = Coming \o Words(next, new)
  BY ComingSends
<1>2. Coming \in Seq(DmaWord)
  BY DEF Coming, TypeOK, IsStream, SendingType
<1>3. UNCHANGED <<current_state, config_at, current_dma_message_read,
                  current_software_trigger_message_read>>
  BY DEF HostSends, configVars
<1>4. ASSUME NEW kind \in Kinds, NEW m \in Messages, NEW n \in 0..Length(kind),
             RestAt(Coming, 1, kind, m, n)
      PROVE  RestAt(Coming', 1, kind, m, n)
  <2>1. 1 \in Nat \ {0} /\ 1 - 1 =< Len(Coming)
    BY <1>2
  <2>. QED  BY <1>1, <1>2, <1>4, <2>1, AppendRest
<1>5. Framed(Coming') /\ (Boundary(Coming) => Boundary(Coming'))
  BY <1>1, <1>2, AppendFramed DEF WordsInStep
<1>6. AtStart'
  BY <1>3, <1>5 DEF WordsInStep, AtStart
<1>7. InUpdate'
  <2>1. /\ "configuration" \in Kinds /\ 1 \in 0..Length("configuration")
        /\ 2 \in 0..Length("configuration") /\ current_dma_message_read.word1 \in Messages
    BY DEF Kinds, Length, TypeOK
  <2>2. /\ RestAt(Coming, 1, "configuration", current_dma_message_read.word1, 1)
             => RestAt(Coming', 1, "configuration", current_dma_message_read.word1, 1)
        /\ RestAt(Coming, 1, "configuration", current_dma_message_read.word1, 2)
             => RestAt(Coming', 1, "configuration", current_dma_message_read.word1, 2)
    BY <1>4, <2>1
  <2>. QED  BY <1>3, <2>2 DEF WordsInStep, InUpdate
<1>8. InTrigger'
  <2>1. "software_trigger" \in Kinds /\ current_software_trigger_message_read[1] \in Messages
    BY DEF Kinds, TypeOK
  <2>2. \A i \in 1..5 : i \in 0..Length("software_trigger")
    BY DEF Length
  <2>3. ASSUME NEW i \in 1..5,
               RestAt(Coming, 1, "software_trigger", current_software_trigger_message_read[1], i)
        PROVE  RestAt(Coming', 1, "software_trigger", current_software_trigger_message_read[1], i)
    BY <1>4, <2>1, <2>2, <2>3
  <2>. QED  BY <1>3, <2>3 DEF WordsInStep, InTrigger
<1>9. InIgnored'
  <2>. SUFFICES ASSUME current_state = "IGNORE_PACKET"
                PROVE  \E kind \in Kinds, m \in Messages \ {0} :
                         \E n \in 0..(Length(kind) - 1) : RestAt(Coming', 1, kind, m, n)
    BY <1>3 DEF InIgnored
  <2>1. CASE Coming = <<>>
    <3>1. RestAt(Coming', 1, next, new, 0)
      BY <1>1, <1>2, <2>1, AppendFramed DEF WordsInStep
    <3>2. 0 \in 0..(Length(next) - 1)
      BY WordsType
    <3>. QED  BY <3>1, <3>2
  <2>2. CASE \E kind \in Kinds, m \in Messages \ {0} :
               \E n \in 0..(Length(kind) - 1) : RestAt(Coming, 1, kind, m, n)
    <3>0. PICK kind \in Kinds, m \in Messages \ {0} :
            \E n \in 0..(Length(kind) - 1) : RestAt(Coming, 1, kind, m, n)
      BY <2>2
    <3>1. PICK n \in 0..(Length(kind) - 1) : RestAt(Coming, 1, kind, m, n)
      BY <3>0
    <3>2. n \in 0..Length(kind)
      BY WordsType
    <3>. QED  BY <1>4, <3>1, <3>2
  <2>. QED  BY <2>1, <2>2 DEF WordsInStep, InIgnored
<1>. QED  BY <1>5, <1>6, <1>7, <1>8, <1>9 DEF WordsInStep

(* The words that come are framed as before once one of them was taken.    *)
LEMMA InStepAfterHeader ==
  ASSUME TypeOK, SendingType, WordsInStep, ReadHeader, UNCHANGED hostVars
  PROVE  WordsInStep'
<1>1. TakeWord /\ config_at = "word" /\ config_at' = "word" /\ current_state = "IDLE"
  BY DEF ReadHeader, TakeWord
<1>2. /\ Coming # <<>> /\ Coming' = Tail(Coming)
      /\ WordIn = Coming[1] /\ Coming \in Seq(DmaWord)
  BY <1>1, ComingTaken
<1>3. Coming[1].part = 1 /\ 1 \in 1..Len(Coming)
  BY <1>1, <1>2 DEF WordsInStep, AtStart, Boundary
<1>4. PICK kind \in Kinds, m \in Messages \ {0} : RestAt(Coming, 1, kind, m, 0)
  BY <1>3 DEF WordsInStep, Framed
<1>5. 0 \in 0..(Length(kind) - 1) /\ Length(kind) \in 1..6 /\ 0 + 1 = 1
  BY WordsType
<1>6. WordIn = Words(kind, m)[1] /\ RestAt(Coming', 1, kind, m, 1)
  BY <1>2, <1>4, <1>5, TakeRest
<1>7. /\ WordIn.msg = m
      /\ WordIn.reads_as = IF kind \in {"configuration", "software_trigger"}
                           THEN kind ELSE "unknown"
  BY <1>5, <1>6, WordsType
<1>8. Framed(Coming') /\ Coming' \in Seq(DmaWord)
  BY <1>2, FramedTail DEF WordsInStep
<1>9. AtStart'
  BY <1>1, ArgStateNames DEF AtStart, ReadHeader
<1>10. InUpdate'
  <2>1. current_state' = "READ_CONF_WORD2" => kind = "configuration"
    BY <1>7, ArgStateNames DEF ReadHeader
  <2>2. current_dma_message_read'.word1 = m /\ current_state' # "READ_CONF_WORD3"
    BY <1>7, ArgStateNames DEF ReadHeader, TypeOK
  <2>. QED  BY <1>6, <2>1, <2>2 DEF InUpdate
<1>11. InTrigger'
  <2>1. ASSUME NEW i \in 1..5, current_state' = ArgStates[i]
        PROVE  /\ i = 1 /\ kind = "software_trigger"
               /\ current_software_trigger_message_read'[1] = m
    <3>1. /\ WordIn.reads_as = "software_trigger" /\ current_state' = ArgStates[1]
          /\ current_software_trigger_message_read' =
               [current_software_trigger_message_read EXCEPT ![1] = WordIn.msg]
      BY <2>1, ArgStateNames DEF ReadHeader
    <3>2. i = 1
      <4>1. ArgStates[i] = ArgStates[1] /\ 1 \in 1..5
        BY <2>1, <3>1
      <4>. QED  BY <4>1, ArgStateNames
    <3>. QED  BY <1>7, <3>1, <3>2 DEF TypeOK
  <2>2. \A k \in 1..1 : k = 1
    OBVIOUS
  <2>. QED  BY <1>1, <1>6, <2>1, <2>2 DEF InTrigger
<1>12. InIgnored'
  <2>1. CASE Length(kind) = 1
    <3>1. Boundary(Coming')
      BY <1>6, <1>8, <2>1, RestIsBoundary
    <3>2. Coming' = <<>> \/ (Coming'[1].part = 1 /\ 1 \in 1..Len(Coming'))
      BY <1>8, <3>1, BoundaryCases
    <3>3. Coming' = <<>> \/ \E k \in Kinds, n \in Messages \ {0} : RestAt(Coming', 1, k, n, 0)
      BY <1>8, <3>2 DEF Framed
    <3>4. \A k \in Kinds : 0 \in 0..(Length(k) - 1)
      BY DEF Kinds, Length
    <3>. QED  BY <3>3, <3>4 DEF InIgnored
  <2>2. CASE Length(kind) # 1
    <3>1. 1 \in 0..(Length(kind) - 1)
      BY <1>5, <2>2
    <3>. QED  BY <1>6, <3>1 DEF InIgnored
  <2>. QED  BY <2>1, <2>2
<1>. QED  BY <1>8, <1>9, <1>10, <1>11, <1>12 DEF WordsInStep

(* A configuration is stored when its three words were put together, and   *)
(* was made of that packet only.                                           *)
LEMMA InStepAfterWord2 ==
  ASSUME TypeOK, SendingType, WordsInStep, ReadConfWord2, UNCHANGED hostVars
  PROVE  WordsInStep'
<1>. DEFINE m == current_dma_message_read.word1
<1>1. /\ TakeWord /\ config_at' = "serve"
      /\ current_state = "READ_CONF_WORD2" /\ current_state' = "READ_CONF_WORD3"
      /\ current_dma_message_read' = [current_dma_message_read EXCEPT !.word2 = WordIn.msg]
  BY DEF ReadConfWord2
<1>2. /\ Coming # <<>> /\ Coming' = Tail(Coming)
      /\ WordIn = Coming[1] /\ Coming \in Seq(DmaWord)
  BY <1>1, ComingTaken
<1>3. /\ m # 0 /\ m \in Messages /\ RestAt(Coming, 1, "configuration", m, 1)
  BY <1>1 DEF WordsInStep, InUpdate, TypeOK
<1>4. /\ "configuration" \in Kinds /\ Length("configuration") = 3
      /\ 1 \in 0..(Length("configuration") - 1) /\ 1 + 1 = 2 /\ 2 \in 1..Length("configuration")
  BY DEF Kinds, Length
<1>5. Coming[1] = Words("configuration", m)[2] /\ RestAt(Coming', 1, "configuration", m, 2)
  BY <1>2, <1>3, <1>4, TakeRest
<1>6. WordIn.msg = m
  BY <1>2, <1>3, <1>4, <1>5, WordsType
<1>7. current_dma_message_read'.word1 = m /\ current_dma_message_read'.word2 = m
  BY <1>1, <1>6 DEF TypeOK
<1>8. Framed(Coming')
  BY <1>2, FramedTail DEF WordsInStep
<1>9. AtStart' /\ InIgnored' /\ InTrigger'
  BY <1>1, ArgStateNames DEF AtStart, InIgnored, InTrigger
<1>10. InUpdate'
  BY <1>1, <1>3, <1>5, <1>7 DEF InUpdate
<1>. QED  BY <1>8, <1>9, <1>10 DEF WordsInStep

LEMMA InStepAfterWord3 ==
  ASSUME TypeOK, SendingType, WordsInStep, ReadConfWord3, UNCHANGED hostVars
  PROVE  /\ WordsInStep'
         /\ \E m \in Messages \ {0} :
              current_dma_message_read' = [word1 |-> m, word2 |-> m, word3 |-> m]
<1>. DEFINE m == current_dma_message_read.word1
<1>1. /\ TakeWord /\ config_at = "word" /\ config_at' = "ack"
      /\ current_state = "READ_CONF_WORD3" /\ current_state' = "READ_CONF_WORD3"
      /\ current_dma_message_read' = [current_dma_message_read EXCEPT !.word3 = WordIn.msg]
  BY DEF ReadConfWord3, TakeWord
<1>2. /\ Coming # <<>> /\ Coming' = Tail(Coming)
      /\ WordIn = Coming[1] /\ Coming \in Seq(DmaWord)
  BY <1>1, ComingTaken
<1>3. /\ m # 0 /\ m \in Messages /\ current_dma_message_read.word2 = m
      /\ RestAt(Coming, 1, "configuration", m, 2)
  BY <1>1 DEF WordsInStep, InUpdate, TypeOK
<1>4. /\ "configuration" \in Kinds /\ Length("configuration") = 3
      /\ 2 \in 0..(Length("configuration") - 1) /\ 2 + 1 = 3 /\ 3 \in 1..Length("configuration")
  BY DEF Kinds, Length
<1>5. Coming[1] = Words("configuration", m)[3] /\ RestAt(Coming', 1, "configuration", m, 3)
  BY <1>2, <1>3, <1>4, TakeRest
<1>6. WordIn.msg = m
  BY <1>2, <1>3, <1>4, <1>5, WordsType
<1>7. current_dma_message_read' = [word1 |-> m, word2 |-> m, word3 |-> m]
  <2>. HIDE DEF m
  <2>1. /\ current_dma_message_read \in [word1: Messages, word2: Messages, word3: Messages]
        /\ current_dma_message_read.word1 = m /\ current_dma_message_read.word2 = m
    BY <1>3 DEF TypeOK, m
  <2>. QED  BY <1>1, <1>6, <2>1
<1>8. Framed(Coming') /\ Coming' \in Seq(DmaWord)
  BY <1>2, FramedTail DEF WordsInStep
<1>9. AtStart'
  BY <1>3, <1>4, <1>5, <1>8, RestIsBoundary DEF AtStart
<1>10. InIgnored' /\ InTrigger'
  BY <1>1, ArgStateNames DEF InIgnored, InTrigger
<1>11. InUpdate'
  BY <1>1, <1>3, <1>7 DEF InUpdate
<1>. QED  BY <1>3, <1>7, <1>8, <1>9, <1>10, <1>11 DEF WordsInStep

(* A trigger is issued when its six words were put together, and was made  *)
(* of that packet only.                                                    *)
LEMMA InStepAfterArg ==
  ASSUME TypeOK, SendingType, WordsInStep, ReadSwTrigArg, UNCHANGED hostVars
  PROVE  WordsInStep'
<1>. DEFINE t == current_software_trigger_message_read
            m == t[1]
<1>1. PICK i \in 1..5 :
        /\ current_state = ArgStates[i]
        /\ t' = [t EXCEPT ![i + 1] = WordIn.msg]
        /\ IF i < 5 THEN current_state' = ArgStates[i + 1] /\ UNCHANGED config_at
                    ELSE UNCHANGED current_state /\ config_at' = "trigger"
  BY DEF ReadSwTrigArg
<1>2. TakeWord /\ config_at = "word" /\ t \in [1..6 -> Messages]
  BY DEF ReadSwTrigArg, TakeWord, TypeOK
<1>3. /\ Coming # <<>> /\ Coming' = Tail(Coming)
      /\ WordIn = Coming[1] /\ Coming \in Seq(DmaWord)
  BY <1>2, ComingTaken
<1>4. /\ m # 0 /\ m \in Messages /\ \A k \in 1..i : t[k] = m
      /\ RestAt(Coming, 1, "software_trigger", m, i)
  BY <1>1, <1>2 DEF WordsInStep, InTrigger
<1>5. /\ "software_trigger" \in Kinds /\ Length("software_trigger") = 6
      /\ i \in 0..(Length("software_trigger") - 1) /\ i + 1 \in 1..Length("software_trigger")
  BY DEF Kinds, Length
<1>6. /\ Coming[1] = Words("software_trigger", m)[i + 1]
      /\ RestAt(Coming', 1, "software_trigger", m, i + 1)
  BY <1>3, <1>4, <1>5, TakeRest
<1>7. WordIn.msg = m
  BY <1>3, <1>4, <1>5, <1>6, WordsType
<1>8. \A k \in 1..(i + 1) : t'[k] = m
  <2>. HIDE DEF m, t
  <2>1. i + 1 \in 1..6
    OBVIOUS
  <2>2. t'[i + 1] = m /\ \A k \in 1..i : t'[k] = t[k]
    BY <1>1, <1>2, <1>7, <2>1
  <2>. QED  BY <1>4, <2>2
<1>9. Framed(Coming') /\ Coming' \in Seq(DmaWord)
  BY <1>3, FramedTail DEF WordsInStep
<1>10. CASE i < 5
  <2>1. /\ current_state' = ArgStates[i + 1] /\ i + 1 \in 1..5 /\ config_at' = "word"
        /\ 1 \in 1..(i + 1)
    BY <1>1, <1>2, <1>10
  <2>2. AtStart' /\ InIgnored' /\ InUpdate'
    BY <2>1, ArgStateNames DEF AtStart, InIgnored, InUpdate
  <2>3. ASSUME NEW j \in 1..5, current_state' = ArgStates[j]
        PROVE  j = i + 1
    BY <2>1, <2>3, ArgStateNames
  <2>4. t'[1] = m
    BY <1>8, <2>1
  <2>. HIDE DEF m, t
  <2>5. ASSUME NEW j \in 1..5, current_state' = ArgStates[j]
        PROVE  /\ t'[1] # 0 /\ \A k \in 1..j : t'[k] = t'[1]
               /\ RestAt(Coming', 1, "software_trigger", t'[1], j)
    BY <1>4, <1>6, <1>8, <2>3, <2>4, <2>5
  <2>6. InTrigger'
    BY <2>1, <2>5 DEF InTrigger, t
  <2>. QED  BY <1>9, <2>2, <2>6 DEF WordsInStep
<1>11. CASE i = 5
  <2>1. current_state' = ArgStates[5] /\ config_at' = "trigger" /\ 1 \in 1..(i + 1)
    BY <1>1, <1>11
  <2>2. InIgnored' /\ InUpdate'
    BY <2>1, ArgStateNames DEF InIgnored, InUpdate
  <2>3. RestAt(Coming', 1, "software_trigger", m, Length("software_trigger"))
    BY <1>5, <1>6, <1>11
  <2>4. AtStart'
    BY <1>4, <1>5, <1>9, <2>3, RestIsBoundary DEF AtStart
  <2>5. t'[1] = m /\ t'[6] = m /\ \A k \in 1..5 : t'[k] = m
    BY <1>8, <1>11
  <2>. HIDE DEF m, t
  <2>6. InTrigger'
    BY <1>4, <2>1, <2>5 DEF InTrigger, t
  <2>. QED  BY <1>9, <2>2, <2>4, <2>6 DEF WordsInStep
<1>. QED  BY <1>10, <1>11

LEMMA InStepAfterIgnored ==
  ASSUME TypeOK, SendingType, WordsInStep, IgnoreWord, UNCHANGED hostVars
  PROVE  WordsInStep'
<1>1. /\ TakeWord /\ config_at' = "serve" /\ current_state = "IGNORE_PACKET"
      /\ current_state' = IF WordIn.last THEN "IDLE" ELSE "IGNORE_PACKET"
  BY DEF IgnoreWord
<1>2. /\ Coming # <<>> /\ Coming' = Tail(Coming)
      /\ WordIn = Coming[1] /\ Coming \in Seq(DmaWord)
  BY <1>1, ComingTaken
<1>3. PICK kind \in Kinds, m \in Messages \ {0} :
        \E n \in 0..(Length(kind) - 1) : RestAt(Coming, 1, kind, m, n)
  BY <1>1, <1>2 DEF WordsInStep, InIgnored
<1>4. PICK n \in 0..(Length(kind) - 1) : RestAt(Coming, 1, kind, m, n)
  BY <1>3
<1>5. Length(kind) \in 1..6 /\ n \in Nat /\ n + 1 \in 1..Length(kind)
  BY WordsType
<1>6. WordIn = Words(kind, m)[n + 1] /\ RestAt(Coming', 1, kind, m, n + 1)
  BY <1>2, <1>4, TakeRest
<1>7. WordIn.last <=> n + 1 = Length(kind)
  BY <1>5, <1>6, WordsType
<1>8. Framed(Coming') /\ Coming' \in Seq(DmaWord)
  BY <1>2, FramedTail DEF WordsInStep
<1>9. InUpdate' /\ InTrigger'
  BY <1>1, ArgStateNames DEF InUpdate, InTrigger
<1>10. CASE WordIn.last
  <2>1. Boundary(Coming')
    BY <1>6, <1>7, <1>8, <1>10, RestIsBoundary
  <2>. QED  BY <1>1, <1>8, <1>9, <1>10, <2>1 DEF WordsInStep, AtStart, InIgnored
<1>11. CASE ~WordIn.last
  <2>1. n + 1 \in 0..(Length(kind) - 1)
    BY <1>5, <1>7, <1>11
  <2>2. InIgnored'
    BY <1>6, <2>1 DEF InIgnored
  <2>. QED  BY <1>1, <1>8, <1>9, <1>11, <2>2 DEF WordsInStep, AtStart
<1>. QED  BY <1>10, <1>11

(* The writes of the process leave it at the start of a packet.            *)
LEMMA InStepAfterWrite ==
  ASSUME TypeOK, WordsInStep, WriteAck \/ IssueTrigger, UNCHANGED hostVars
  PROVE  WordsInStep'
<1>1. /\ config_at \in {"ack", "trigger"} /\ current_state' = "IDLE" /\ config_at' = "word"
      /\ Coming' = Coming
  BY DEF WriteAck, IssueTrigger, hostVars, Coming
<1>. QED  BY <1>1, ArgStateNames
  DEF WordsInStep, AtStart, InUpdate, InTrigger, InIgnored

(* Steps that take no word and leave the FSM in its state.                 *)
LEMMA InStepWhenServing ==
  ASSUME TypeOK, WordsInStep,
         \/ TurnToRequests \/ SkipClient \/ ReadRequest \/ WriteAnswer
         \/ UNCHANGED <<current_state, config_at, current_dma_message_read,
                        current_software_trigger_message_read>>,
         Coming' = Coming
  PROVE  WordsInStep'
<1>1. UNCHANGED <<current_state, current_dma_message_read,
                  current_software_trigger_message_read>>
  BY DEF TurnToRequests, SkipClient, ReadRequest, WriteAnswer
<1>2. \/ config_at' = config_at
      \/ {config_at, config_at'} \subseteq {"word", "serve", "answer"}
  BY DEF TurnToRequests, SkipClient, ReadRequest, WriteAnswer, NextClient
<1>3. (config_at = "ack" <=> config_at' = "ack") /\ (config_at = "trigger" <=> config_at' = "trigger")
  BY <1>2
<1>. QED  BY <1>1, <1>3 DEF WordsInStep, AtStart, InUpdate, InTrigger, InIgnored

LEMMA InStepStep ==
  ASSUME TypeOK, SendingType, WordsInStep, [Next]_vars
  PROVE  WordsInStep'
<1>1. CASE Process
  <2>1. UNCHANGED hostVars
    BY <1>1 DEF Process
  <2>2. CASE ReadHeader
    BY <2>1, <2>2, InStepAfterHeader
  <2>3. CASE ReadConfWord2
    BY <2>1, <2>3, InStepAfterWord2
  <2>4. CASE ReadConfWord3
    BY <2>1, <2>4, InStepAfterWord3
  <2>5. CASE WriteAck \/ IssueTrigger
    BY <2>1, <2>5, InStepAfterWrite
  <2>6. CASE ReadSwTrigArg
    BY <2>1, <2>6, InStepAfterArg
  <2>7. CASE IgnoreWord
    BY <2>1, <2>7, InStepAfterIgnored
  <2>8. CASE TurnToRequests \/ SkipClient \/ ReadRequest \/ WriteAnswer
    <3>1. Coming' = Coming
      BY <2>1, <2>8 DEF TurnToRequests, SkipClient, ReadRequest, WriteAnswer,
                        hostVars, configStreams, Coming
    <3>. QED  BY <2>8, <3>1, InStepWhenServing
  <2>. QED  BY <1>1, <2>2, <2>3, <2>4, <2>5, <2>6, <2>7, <2>8
    DEF Process, p_handle_instrument_configuration
<1>2. CASE HostSends
  BY <1>2, InStepAfterSend
<1>3. CASE DmaDelivers
  BY <1>3, ComingDelivered, InStepWhenServing DEF DmaDelivers, configVars
<1>4. ASSUME NEW i \in Clients, Ask(i) \/ TakeAnswer(i)
      PROVE  WordsInStep'
  BY <1>4, InStepWhenServing DEF Ask, TakeAnswer, configVars, hostVars, Coming
<1>5. CASE SinkAck \/ SinkTrigger \/ UNCHANGED vars
  BY <1>5, InStepWhenServing
  DEF SinkAck, SinkTrigger, vars, configVars, configStreams, hostVars, Coming
<1>. QED  BY <1>1, <1>2, <1>3, <1>4, <1>5 DEF Next

LEMMA InStepInit == Init => WordsInStep
<1>. SUFFICES ASSUME Init
              PROVE  WordsInStep
  OBVIOUS
<1>1. Coming = <<>> /\ current_state = "IDLE"
  BY DEF Init, LocalInit, Coming
<1>2. Framed(<<>>) /\ Boundary(<<>>)
  BY DEF Framed, Boundary
<1>. QED  BY <1>1, <1>2, ArgStateNames
  DEF WordsInStep, AtStart, InUpdate, InTrigger, InIgnored

(* The configurations in the memory and the trigger commands written, with *)
(* what they rest on.                                                      *)
Whole == WholeConfigurations /\ WholeTriggers

LEMMA WholeStep ==
  ASSUME TypeOK, TypeOK', SendingType, WordsInStep, WordsInStep', Whole, [Next]_vars
  PROVE  Whole'
<1>1. CASE ReadConfWord3 /\ UNCHANGED hostVars
  <2>1. PICK m \in Messages \ {0} :
          current_dma_message_read' = [word1 |-> m, word2 |-> m, word3 |-> m]
    BY <1>1, InStepAfterWord3
  <2>2. /\ values' = [values EXCEPT ![Conf[WordIn.msg].instr_id] = Convert(current_dma_message_read')]
        /\ current_dma_message_read' = [current_dma_message_read EXCEPT !.word3 = WordIn.msg]
        /\ UNCHANGED decisions_outputs
    BY <1>1 DEF ReadConfWord3, TakeWord
  <2>3. WordIn.msg = m
    BY <2>1, <2>2 DEF TypeOK
  <2>4. Convert(current_dma_message_read') = ItemOf(m)
    BY <2>1 DEF ItemOf
  <2>5. ASSUME NEW instr \in Instruments
        PROVE  values'[instr] \in ItemsFor(instr)
    <3>1. CASE instr = Conf[m].instr_id
      <4>1. values'[instr] = ItemOf(m)
        BY <2>2, <2>3, <2>4, <3>1 DEF TypeOK
      <4>. QED  BY <3>1, <4>1 DEF ItemsFor
    <3>2. CASE instr # Conf[m].instr_id
      <4>1. values'[instr] = values[instr]
        BY <2>2, <2>3, <3>2 DEF TypeOK
      <4>. QED  BY <4>1 DEF Whole, WholeConfigurations
    <3>. QED  BY <3>1, <3>2
  <2>. QED  BY <2>2, <2>5 DEF Whole, WholeConfigurations, WholeTriggers
<1>2. CASE IssueTrigger
  <2>. DEFINE t == current_software_trigger_message_read
              issued == decisions_outputs[SwTriggerBus]
  <2>1. /\ current_state = ArgStates[5] /\ config_at = "trigger" /\ t \in [1..6 -> Messages]
        /\ issued \in Seq(SwCommandType)
        /\ decisions_outputs' = [decisions_outputs EXCEPT ![SwTriggerBus] = Append(@, SwCommand(t))]
        /\ DOMAIN decisions_outputs = {SwTriggerBus} /\ values' = values
    BY <1>2 DEF IssueTrigger, TypeOK, IsBus
  <2>2. issued' = Append(issued, SwCommand(t))
    BY <2>1
  <2>3. \A k \in 1..6 : t[k] = t[1]
    <3>1. 5 \in 1..5 /\ \A k \in 1..6 : k \in 1..5 \/ k = 6
      OBVIOUS
    <3>. QED  BY <2>1, <3>1 DEF WordsInStep, InTrigger
  <2>4. SwCommand(t).args = [k \in 1..5 |-> t[1]] /\ SwCommand(t).collection = t[1]
    <3>1. \A k \in 1..5 : t[k + 1] = t[1]
      BY <2>3
    <3>. QED  BY <2>1, <3>1, SwCommandTypes
  <2>. HIDE DEF t, issued
  <2>5. ASSUME NEW i \in 1..Len(issued')
        PROVE  issued'[i].args = [k \in 1..5 |-> issued'[i].collection]
    <3>1. CASE i \in 1..Len(issued)
      <4>1. issued'[i] = issued[i]
        BY <2>1, <2>2, <3>1
      <4>. QED  BY <3>1, <4>1 DEF Whole, WholeTriggers, issued
    <3>2. CASE i \notin 1..Len(issued)
      <4>1. issued'[i] = SwCommand(t)
        BY <2>1, <2>2, <3>2
      <4>. QED  BY <2>4, <4>1
    <3>. QED  BY <3>1, <3>2
  <2>. QED  BY <2>1, <2>5 DEF Whole, WholeConfigurations, WholeTriggers, issued
<1>3. CASE SinkTrigger
  <2>. DEFINE issued == decisions_outputs[SwTriggerBus]
  <2>1. /\ issued \in Seq(SwCommandType) /\ issued # <<>> /\ issued' = Tail(issued)
        /\ values' = values
    BY <1>3 DEF SinkTrigger, TypeOK, IsBus, configVars
  <2>. HIDE DEF issued
  <2>2. /\ Len(issued') = Len(issued) - 1 /\ Len(issued) \in Nat
        /\ \A i \in 1..Len(issued') : issued'[i] = issued[i + 1] /\ i + 1 \in 1..Len(issued)
    BY <2>1
  <2>3. \A i \in 1..Len(issued) : issued[i].args = [k \in 1..5 |-> issued[i].collection]
    BY DEF Whole, WholeTriggers, issued
  <2>4. ASSUME NEW i \in 1..Len(issued')
        PROVE  issued'[i].args = [k \in 1..5 |-> issued'[i].collection]
    <3>1. issued'[i] = issued[i + 1] /\ i + 1 \in 1..Len(issued)
      BY <2>2
    <3>. QED  BY <2>3, <3>1
  <2>5. WholeTriggers'
    BY <2>4 DEF WholeTriggers, issued
  <2>6. WholeConfigurations'
    BY <2>1 DEF Whole, WholeConfigurations
  <2>. QED  BY <2>5, <2>6 DEF Whole
<1>4. ASSUME UNCHANGED <<values, decisions_outputs>>
      PROVE  Whole'
  BY <1>4 DEF Whole, WholeConfigurations, WholeTriggers
<1>5. CASE Process /\ ~ReadConfWord3 /\ ~IssueTrigger
  <2>1. UNCHANGED <<values, decisions_outputs>>
    BY <1>5 DEF Process, p_handle_instrument_configuration, ReadHeader, ReadConfWord2, WriteAck,
       ReadSwTrigArg, IgnoreWord, TakeWord, TurnToRequests, SkipClient, ReadRequest,
       WriteAnswer, configStreams
  <2>. QED  BY <1>4, <2>1
<1>6. CASE HostSends \/ DmaDelivers \/ SinkAck \/ UNCHANGED vars
  BY <1>4, <1>6 DEF HostSends, DmaDelivers, SinkAck, vars, configVars, configStreams
<1>7. ASSUME NEW i \in Clients, Ask(i) \/ TakeAnswer(i)
      PROVE  Whole'
  BY <1>4, <1>7 DEF Ask, TakeAnswer, configVars
<1>8. Process => UNCHANGED hostVars
  BY DEF Process
<1>. QED  BY <1>1, <1>2, <1>3, <1>5, <1>6, <1>7, <1>8 DEF Next

LEMMA WholeInit == Init => Whole
BY DEF Init, LocalInit, Whole, WholeConfigurations, WholeTriggers, ItemsFor

IInv == TypeOK /\ SendingType /\ WordsInStep /\ Whole

LEMMA Invariant == Spec => []IInv
<1>1. Init => IInv
  BY InitTypes, InStepInit, WholeInit DEF IInv
<1>2. IInv /\ [Next]_vars => IInv'
  BY TypeStep, InStepStep, WholeStep DEF IInv
<1>. QED  BY <1>1, <1>2, PTL DEF Spec

(* No configuration is torn, whatever packets the host sends, packets the  *)
(* process ignores too long included, and however reads are interleaved.   *)
THEOREM NeverTorn == Spec => []WholeConfigurations
<1>1. IInv => WholeConfigurations
  BY DEF IInv, Whole
<1>. QED  BY <1>1, Invariant, PTL

(* No trigger command is made of the words of two packets. *)
THEOREM NeverMixed == Spec => []WholeTriggers
<1>1. IInv => WholeTriggers
  BY DEF IInv, Whole
<1>. QED  BY <1>1, Invariant, PTL
-----------------------------------------------------------------------------
(* What AckTellsMemory says of the acknowledgements under way.             *)
Tells(acks, memory) ==
  \A i \in 1..Len(acks) :
    \/ \E j \in (i + 1)..Len(acks) : acks[j].instr_id = acks[i].instr_id
    \/ memory[acks[i].instr_id] = Kept(acks[i])

LEMMA TellsIs == AckTellsMemory <=> Tells(Acks, values)
BY DEF AckTellsMemory, Tells

LEMMA AcksType ==
  ASSUME TypeOK
  PROVE  Acks \in Seq(AckType)
<1>1. config_to_notifs \in Seq(AckType) /\ Ack(current_dma_message_read) \in AckType
  BY ConvertType DEF TypeOK, IsStream
<1>. QED  BY <1>1 DEF Acks

(* An acknowledgement written last tells the item stored with it.          *)
LEMMA TellsStored ==
  ASSUME NEW acks \in Seq(AckType), NEW memory \in [Instruments -> ConfItem],
         NEW a \in AckType, Tells(acks, memory)
  PROVE  Tells(Append(acks, a), [memory EXCEPT ![a.instr_id] = Kept(a)])
<1>. DEFINE all == Append(acks, a)
            stored == [memory EXCEPT ![a.instr_id] = Kept(a)]
<1>1. a.instr_id \in Instruments /\ \A j \in 1..Len(acks) : acks[j].instr_id \in Instruments
  <2>1. \A x \in AckType : x.instr_id \in Instruments
    BY DEF AckType
  <2>2. \A j \in 1..Len(acks) : acks[j] \in AckType
    OBVIOUS
  <2>. QED  BY <2>1, <2>2
<1>2. /\ Len(all) = Len(acks) + 1 /\ Len(acks) \in Nat /\ all[Len(acks) + 1] = a
      /\ \A j \in 1..Len(acks) : all[j] = acks[j]
  OBVIOUS
<1>3. /\ stored[a.instr_id] = Kept(a)
      /\ \A i \in Instruments : i # a.instr_id => stored[i] = memory[i]
  BY <1>1
<1>. HIDE DEF all, stored
<1>4. ASSUME NEW i \in 1..Len(all)
      PROVE  \/ \E j \in (i + 1)..Len(all) : all[j].instr_id = all[i].instr_id
             \/ stored[all[i].instr_id] = Kept(all[i])
  <2>1. CASE i = Len(acks) + 1
    BY <1>2, <1>3, <2>1
  <2>2. CASE i \in 1..Len(acks)
    <3>1. CASE acks[i].instr_id = a.instr_id
      <4>1. Len(acks) + 1 \in (i + 1)..Len(all)
        BY <1>2, <2>2
      <4>. QED  BY <1>2, <2>2, <3>1, <4>1
    <3>2. CASE \E j \in (i + 1)..Len(acks) : acks[j].instr_id = acks[i].instr_id
      <4>1. PICK j \in (i + 1)..Len(acks) : acks[j].instr_id = acks[i].instr_id
        BY <3>2
      <4>2. j \in 1..Len(acks) /\ j \in (i + 1)..Len(all)
        BY <1>2, <2>2
      <4>. QED  BY <1>2, <2>2, <4>1, <4>2
    <3>3. CASE /\ acks[i].instr_id # a.instr_id
               /\ memory[acks[i].instr_id] = Kept(acks[i])
      BY <1>1, <1>2, <1>3, <2>2, <3>3
    <3>. QED  BY <2>2, <3>1, <3>2, <3>3 DEF Tells
  <2>. QED  BY <1>2, <2>1, <2>2
<1>. QED  BY <1>4 DEF Tells, all, stored

LEMMA TellsTail ==
  ASSUME NEW acks \in Seq(AckType), acks # <<>>, NEW memory, Tells(acks, memory)
  PROVE  Tells(Tail(acks), memory)
<1>. DEFINE rest == Tail(acks)
<1>1. /\ Len(rest) = Len(acks) - 1 /\ Len(acks) \in Nat
      /\ \A i \in 1..(Len(acks) - 1) : rest[i] = acks[i + 1]
  OBVIOUS
<1>. HIDE DEF rest
<1>2. ASSUME NEW i \in 1..Len(rest)
      PROVE  \/ \E j \in (i + 1)..Len(rest) : rest[j].instr_id = rest[i].instr_id
             \/ memory[rest[i].instr_id] = Kept(rest[i])
  <2>1. i + 1 \in 1..Len(acks) /\ rest[i] = acks[i + 1]
    BY <1>1
  <2>2. CASE \E j \in (i + 1 + 1)..Len(acks) : acks[j].instr_id = acks[i + 1].instr_id
    <3>1. PICK j \in (i + 1 + 1)..Len(acks) : acks[j].instr_id = acks[i + 1].instr_id
      BY <2>2
    <3>2. j - 1 \in (i + 1)..Len(rest) /\ rest[j - 1] = acks[j]
      BY <1>1
    <3>. QED  BY <2>1, <3>1, <3>2
  <2>. QED  BY <2>1, <2>2 DEF Tells
<1>. QED  BY <1>2 DEF Tells, rest

LEMMA AckStep ==
  ASSUME TypeOK, TypeOK', AckTellsMemory, [Next]_vars
  PROVE  AckTellsMemory'
<1>0. Tells(Acks, values) /\ Acks \in Seq(AckType)
  BY TellsIs, AcksType
<1>1. ASSUME Tells(Acks', values')
      PROVE  AckTellsMemory'
  BY <1>1 DEF AckTellsMemory, Tells
<1>2. CASE ReadConfWord3
  <2>. DEFINE a == Ack(current_dma_message_read')
  <2>1. Acks = config_to_notifs /\ Acks' = Append(Acks, a)
    BY <1>2 DEF ReadConfWord3, TakeWord, Acks
  <2>2. /\ current_dma_message_read' \in [word1: Messages, word2: Messages, word3: Messages]
        /\ current_dma_message_read'.word3 = WordIn.msg
        /\ values' = [values EXCEPT ![Conf[WordIn.msg].instr_id] = Convert(current_dma_message_read')]
    BY <1>2 DEF ReadConfWord3, TypeOK
  <2>3. a \in AckType /\ values' = [values EXCEPT ![a.instr_id] = Kept(a)]
    BY <2>2, ConvertType
  <2>. HIDE DEF a
  <2>4. Tells(Append(Acks, a), [values EXCEPT ![a.instr_id] = Kept(a)])
    BY <1>0, <2>3, TellsStored DEF TypeOK
  <2>. QED  BY <1>1, <2>1, <2>3, <2>4
<1>3. CASE SinkAck
  <2>1. /\ values' = values /\ UNCHANGED <<config_at, current_dma_message_read>>
        /\ config_to_notifs # <<>> /\ config_to_notifs' = Tail(config_to_notifs)
        /\ config_to_notifs \in Seq(AckType)
    BY <1>3 DEF SinkAck, configVars, TypeOK, IsStream
  <2>2. Ack(current_dma_message_read) \in AckType
    BY ConvertType DEF TypeOK
  <2>3. Acks # <<>> /\ Acks' = Tail(Acks)
    <3>1. CASE config_at = "ack"
      <4>1. /\ Acks = config_to_notifs \o <<Ack(current_dma_message_read)>>
            /\ Acks' = Tail(config_to_notifs) \o <<Ack(current_dma_message_read)>>
            /\ <<Ack(current_dma_message_read)>> \in Seq(AckType)
        BY <2>1, <2>2, <3>1 DEF Acks
      <4>. QED  BY <2>1, <4>1, TailOfConcat
    <3>2. CASE config_at # "ack"
      BY <2>1, <3>2 DEF Acks
    <3>. QED  BY <3>1, <3>2
  <2>. QED  BY <1>0, <1>1, <2>1, <2>3, TellsTail
<1>4. ASSUME values' = values, Acks' = Acks
      PROVE  AckTellsMemory'
  BY <1>0, <1>1, <1>4
<1>5. CASE WriteAck
  BY <1>4, <1>5 DEF WriteAck, Acks
<1>6. CASE Process /\ ~ReadConfWord3 /\ ~WriteAck
  <2>1. /\ config_to_notifs' = config_to_notifs /\ values' = values
        /\ (config_at = "ack" \/ config_at' = "ack") =>
              UNCHANGED <<config_at, current_dma_message_read>>
    BY <1>6 DEF Process, p_handle_instrument_configuration, ReadHeader, ReadConfWord2,
       ReadSwTrigArg, IssueTrigger, IgnoreWord, TakeWord, TurnToRequests, SkipClient,
       ReadRequest, WriteAnswer, NextClient, configStreams
  <2>. QED  BY <1>4, <2>1 DEF Acks
<1>7. CASE HostSends \/ DmaDelivers \/ SinkTrigger \/ UNCHANGED vars
  BY <1>4, <1>7 DEF HostSends, DmaDelivers, SinkTrigger, vars, configVars, configStreams, Acks
<1>8. ASSUME NEW i \in Clients, Ask(i) \/ TakeAnswer(i)
      PROVE  AckTellsMemory'
  BY <1>4, <1>8 DEF Ask, TakeAnswer, configVars, Acks
<1>. QED  BY <1>2, <1>3, <1>5, <1>6, <1>7, <1>8 DEF Next

(* An acknowledgement is of the item stored, and of the one stored last.   *)
THEOREM AckAlwaysTells == Spec => []AckTellsMemory
<1>1. Init => AckTellsMemory
  BY DEF Init, LocalInit, AckTellsMemory, Acks
<1>2. TypeOK /\ TypeOK' /\ AckTellsMemory /\ [Next]_vars => AckTellsMemory'
  BY AckStep
<1>. QED  BY <1>1, <1>2, TypeCorrect, PTL DEF Spec
-----------------------------------------------------------------------------
(* What AnswersInOrder says of one client: of the instruments it asked     *)
(* for, the first are answered and the others still asked.                 *)
Answered(asks, answers, requests) ==
  /\ Len(asks) = Len(answers) + Len(requests)
  /\ \A j \in 1..Len(answers) : answers[j] \in ItemsFor(asks[j])
  /\ \A j \in 1..Len(requests) : requests[j] = asks[Len(answers) + j]

Held(i) == IF config_at = "answer" /\ client = i THEN <<answer>> ELSE <<>>
Answers(i) == instrument_read_responses[i] \o Held(i)
AskedType == asked \in [Clients -> Seq(Instruments)]

LEMMA AnsweredAsk ==
  ASSUME NEW asks \in Seq(Instruments), NEW answers \in Seq(ConfItem),
         NEW requests \in Seq(Instruments), NEW instr \in Instruments,
         Answered(asks, answers, requests)
  PROVE  Answered(Append(asks, instr), answers, Append(requests, instr))
<1>1. /\ Len(Append(asks, instr)) = Len(asks) + 1
      /\ \A j \in 1..Len(asks) : Append(asks, instr)[j] = asks[j]
      /\ Append(asks, instr)[Len(asks) + 1] = instr
  OBVIOUS
<1>2. /\ Len(Append(requests, instr)) = Len(requests) + 1
      /\ \A j \in 1..Len(requests) : Append(requests, instr)[j] = requests[j]
      /\ Append(requests, instr)[Len(requests) + 1] = instr
  OBVIOUS
<1>3. Len(asks) = Len(answers) + Len(requests) /\ Len(answers) \in Nat /\ Len(requests) \in Nat
  BY DEF Answered
<1>4. ASSUME NEW j \in 1..Len(answers)
      PROVE  answers[j] \in ItemsFor(Append(asks, instr)[j])
  <2>1. Append(asks, instr)[j] = asks[j]
    BY <1>1, <1>3
  <2>. QED  BY <2>1 DEF Answered
<1>5. ASSUME NEW j \in 1..Len(Append(requests, instr))
      PROVE  Append(requests, instr)[j] = Append(asks, instr)[Len(answers) + j]
  <2>1. CASE j \in 1..Len(requests)
    <3>1. requests[j] = asks[Len(answers) + j] /\ Len(answers) + j \in 1..Len(asks)
      BY <1>3, <2>1 DEF Answered
    <3>. QED  BY <1>1, <1>2, <2>1, <3>1
  <2>2. CASE j = Len(requests) + 1
    <3>1. Len(answers) + j = Len(asks) + 1
      BY <1>3, <2>2
    <3>. QED  BY <1>1, <1>2, <2>2, <3>1
  <2>. QED  BY <1>2, <1>3, <2>1, <2>2
<1>6. Len(Append(asks, instr)) = Len(answers) + Len(Append(requests, instr))
  BY <1>1, <1>2, <1>3
<1>. QED  BY <1>4, <1>5, <1>6 DEF Answered

LEMMA AnsweredRead ==
  ASSUME NEW asks \in Seq(Instruments), NEW answers \in Seq(ConfItem),
         NEW requests \in Seq(Instruments), requests # <<>>,
         NEW item \in ConfItem, item \in ItemsFor(Head(requests)),
         Answered(asks, answers, requests)
  PROVE  Answered(asks, Append(answers, item), Tail(requests))
<1>1. /\ Len(Tail(requests)) = Len(requests) - 1 /\ Len(requests) >= 1
      /\ \A j \in 1..(Len(requests) - 1) : Tail(requests)[j] = requests[j + 1]
      /\ Head(requests) = requests[1]
  OBVIOUS
<1>2. /\ Len(Append(answers, item)) = Len(answers) + 1
      /\ Append(answers, item)[Len(answers) + 1] = item
      /\ \A j \in 1..Len(answers) : Append(answers, item)[j] = answers[j]
  OBVIOUS
<1>3. Len(answers) \in Nat /\ Len(requests) \in Nat
  OBVIOUS
<1>4. item \in ItemsFor(asks[Len(answers) + 1])
  BY <1>1, <1>3 DEF Answered
<1>5. ASSUME NEW j \in 1..Len(Append(answers, item))
      PROVE  Append(answers, item)[j] \in ItemsFor(asks[j])
  <2>1. \A k \in 1..Len(answers) : answers[k] \in ItemsFor(asks[k])
    BY DEF Answered
  <2>2. j \in 1..Len(answers) \/ j = Len(answers) + 1
    BY <1>2, <1>3
  <2>. QED  BY <1>2, <1>4, <2>1, <2>2
<1>6. ASSUME NEW j \in 1..Len(Tail(requests))
      PROVE  Tail(requests)[j] = asks[Len(Append(answers, item)) + j]
  <2>1. requests[j + 1] = asks[Len(answers) + (j + 1)]
    BY <1>1, <1>3 DEF Answered
  <2>2. Len(Append(answers, item)) + j = Len(answers) + (j + 1)
    BY <1>1, <1>2, <1>3
  <2>. QED  BY <1>1, <2>1, <2>2
<1>7. Len(asks) = Len(Append(answers, item)) + Len(Tail(requests))
  BY <1>1, <1>2, <1>3 DEF Answered
<1>. QED  BY <1>5, <1>6, <1>7 DEF Answered

LEMMA AnsweredTake ==
  ASSUME NEW asks \in Seq(Instruments), NEW answers \in Seq(ConfItem),
         NEW requests \in Seq(Instruments), answers # <<>>,
         Answered(asks, answers, requests)
  PROVE  Answered(Tail(asks), Tail(answers), requests) /\ Tail(asks) \in Seq(Instruments)
<1>1. Len(answers) \in Nat \ {0} /\ Len(requests) \in Nat
  OBVIOUS
<1>2. Len(asks) \in Nat \ {0} /\ asks # <<>>
  BY <1>1 DEF Answered
<1>3. /\ Tail(asks) \in Seq(Instruments) /\ Len(Tail(asks)) = Len(asks) - 1
      /\ \A j \in 1..(Len(asks) - 1) : Tail(asks)[j] = asks[j + 1]
  BY <1>2
<1>4. /\ Len(Tail(answers)) = Len(answers) - 1
      /\ \A j \in 1..(Len(answers) - 1) : Tail(answers)[j] = answers[j + 1]
  BY <1>1
<1>5. ASSUME NEW j \in 1..Len(requests)
      PROVE  requests[j] = Tail(asks)[Len(Tail(answers)) + j]
  <2>1. /\ Len(Tail(answers)) + j \in 1..(Len(asks) - 1)
        /\ (Len(Tail(answers)) + j) + 1 = Len(answers) + j
    BY <1>1, <1>2, <1>4 DEF Answered
  <2>2. Tail(asks)[Len(Tail(answers)) + j] = asks[Len(answers) + j]
    BY <1>3, <2>1
  <2>. QED  BY <2>2 DEF Answered
<1>6. ASSUME NEW j \in 1..Len(Tail(answers))
      PROVE  Tail(answers)[j] \in ItemsFor(Tail(asks)[j])
  <2>1. j + 1 \in 1..Len(answers) /\ j \in 1..(Len(asks) - 1)
    BY <1>1, <1>4 DEF Answered
  <2>2. Tail(answers)[j] = answers[j + 1] /\ Tail(asks)[j] = asks[j + 1]
    BY <1>3, <1>4, <2>1
  <2>. QED  BY <2>1, <2>2 DEF Answered
<1>7. Len(Tail(asks)) = Len(Tail(answers)) + Len(requests)
  BY <1>1, <1>3, <1>4 DEF Answered
<1>. QED  BY <1>3, <1>5, <1>6, <1>7 DEF Answered

LEMMA AnsweredTypes ==
  ASSUME TypeOK, NEW i \in Clients
  PROVE  /\ Answers(i) \in Seq(ConfItem) /\ Held(i) \in Seq(ConfItem)
         /\ instrument_read_responses[i] \in Seq(ConfItem)
         /\ instrument_read_bus[i] \in Seq(Instruments)
<1>1. instrument_read_responses[i] \in Seq(ConfItem) /\ instrument_read_bus[i] \in Seq(Instruments)
  BY DEF TypeOK, IsBus
<1>2. Held(i) \in Seq(ConfItem)
  BY DEF TypeOK, Held
<1>. QED  BY <1>1, <1>2 DEF Answers

LEMMA OrderStep ==
  ASSUME TypeOK, TypeOK', WholeConfigurations, AskedType, AnswersInOrder, [Next]_vars
  PROVE  AskedType' /\ AnswersInOrder'
<1>0. ASSUME NEW i \in Clients
      PROVE  /\ Answered(asked[i], Answers(i), instrument_read_bus[i])
             /\ asked[i] \in Seq(Instruments)
  BY DEF AnswersInOrder, AskedType, Answered, Answers, Held
<1>1. ASSUME AskedType',
             \A i \in Clients : Answered(asked'[i], Answers(i)', instrument_read_bus'[i])
      PROVE  AskedType' /\ AnswersInOrder'
  BY <1>1 DEF AnswersInOrder, Answered, Answers, Held
<1>2. CASE ReadRequest /\ UNCHANGED asked
  <2>. DEFINE c == client
  <2>1. /\ c \in Clients /\ instrument_read_bus[c] # <<>>
        /\ UNCHANGED <<instrument_read_responses, client, asked>>
        /\ answer' = values[Head(instrument_read_bus[c])]
        /\ instrument_read_bus' = [instrument_read_bus EXCEPT ![c] = Tail(@)]
        /\ config_at = "serve" /\ config_at' = "answer"
        /\ DOMAIN instrument_read_bus = Clients
    BY <1>2 DEF ReadRequest, TypeOK, IsBus
  <2>2. Head(instrument_read_bus[c]) \in Instruments
    BY <2>1, AnsweredTypes
  <2>3. ASSUME NEW i \in Clients
        PROVE  Answered(asked'[i], Answers(i)', instrument_read_bus'[i])
    <3>1. Answers(i) = instrument_read_responses[i]
      BY <2>1, AnsweredTypes DEF Answers, Held
    <3>2. CASE i = c
      <4>1. /\ answer' \in ConfItem /\ answer' \in ItemsFor(Head(instrument_read_bus[i]))
        BY <2>1, <2>2, <3>2 DEF TypeOK, WholeConfigurations
      <4>2. Answers(i)' = Append(Answers(i), answer')
        <5>1. Answers(i)' = instrument_read_responses[i] \o <<answer'>>
          BY <2>1, <3>2 DEF Answers, Held
        <5>. QED  BY <3>1, <4>1, <5>1, AnsweredTypes
      <4>3. instrument_read_bus'[i] = Tail(instrument_read_bus[i]) /\ asked'[i] = asked[i]
        BY <2>1, <3>2
      <4>4. instrument_read_bus[i] # <<>>
        BY <2>1, <3>2
      <4>. QED  BY <1>0, <4>1, <4>2, <4>3, <4>4, AnsweredTypes, AnsweredRead
    <3>3. CASE i # c
      <4>1. Answers(i)' = Answers(i) /\ instrument_read_bus'[i] = instrument_read_bus[i]
        BY <2>1, <3>3 DEF Answers, Held
      <4>. QED  BY <1>0, <2>1, <4>1
    <3>. QED  BY <3>2, <3>3
  <2>. QED  BY <1>1, <2>1, <2>3 DEF AskedType
<1>3. CASE WriteAnswer /\ UNCHANGED asked
  <2>. DEFINE c == client
  <2>1. /\ c \in Clients /\ UNCHANGED <<instrument_read_bus, asked>>
        /\ instrument_read_responses' = [instrument_read_responses EXCEPT ![c] = Append(@, answer)]
        /\ config_at = "answer" /\ config_at' # "answer"
        /\ DOMAIN instrument_read_responses = Clients
    BY <1>3 DEF WriteAnswer, NextClient, TypeOK, IsBus
  <2>2. ASSUME NEW i \in Clients
        PROVE  Answers(i)' = Answers(i)
    <3>1. Answers(i)' = instrument_read_responses'[i]
      <4>1. Held(i)' = <<>> /\ instrument_read_responses'[i] \in Seq(ConfItem)
        BY <2>1 DEF Held, TypeOK, IsBus
      <4>. QED  BY <4>1 DEF Answers
    <3>2. CASE i = c
      <4>1. /\ Answers(i) = instrument_read_responses[i] \o <<answer>>
            /\ instrument_read_responses'[i] = Append(instrument_read_responses[i], answer)
        BY <2>1, <3>2 DEF Answers, Held
      <4>2. instrument_read_responses[i] \in Seq(ConfItem) /\ answer \in ConfItem
        BY AnsweredTypes DEF TypeOK
      <4>. QED  BY <3>1, <4>1, <4>2
    <3>3. CASE i # c
      BY <2>1, <3>1, <3>3, AnsweredTypes DEF Answers, Held
    <3>. QED  BY <3>2, <3>3
  <2>. QED  BY <1>0, <1>1, <2>1, <2>2 DEF AskedType
<1>4. ASSUME NEW c \in Clients, Ask(c)
      PROVE  AskedType' /\ AnswersInOrder'
  <2>1. PICK instr \in Instruments :
          /\ instrument_read_bus' = [instrument_read_bus EXCEPT ![c] = Append(@, instr)]
          /\ asked' = [asked EXCEPT ![c] = Append(@, instr)]
    BY <1>4 DEF Ask
  <2>2. UNCHANGED <<instrument_read_responses, config_at, client, answer>>
    BY <1>4 DEF Ask, configVars
  <2>3. DOMAIN asked = Clients /\ DOMAIN instrument_read_bus = Clients
    BY DEF AskedType, TypeOK, IsBus
  <2>4. ASSUME NEW i \in Clients
        PROVE  Answered(asked'[i], Answers(i)', instrument_read_bus'[i])
    <3>1. Answers(i)' = Answers(i)
      BY <2>2 DEF Answers, Held
    <3>2. CASE i = c
      <4>1. /\ asked'[i] = Append(asked[i], instr)
            /\ instrument_read_bus'[i] = Append(instrument_read_bus[i], instr)
        BY <2>1, <2>3, <3>2
      <4>. QED  BY <1>0, <3>1, <4>1, AnsweredAsk, AnsweredTypes
    <3>3. CASE i # c
      BY <1>0, <2>1, <2>3, <3>1, <3>3
    <3>. QED  BY <3>2, <3>3
  <2>5. AskedType'
    BY <2>1 DEF AskedType
  <2>. QED  BY <1>1, <2>4, <2>5
<1>5. ASSUME NEW c \in Clients, TakeAnswer(c)
      PROVE  AskedType' /\ AnswersInOrder'
  <2>1. /\ instrument_read_responses[c] # <<>>
        /\ instrument_read_responses' = [instrument_read_responses EXCEPT ![c] = Tail(@)]
        /\ asked' = [asked EXCEPT ![c] = Tail(@)]
        /\ UNCHANGED <<instrument_read_bus, config_at, client, answer>>
    BY <1>5 DEF TakeAnswer, configVars
  <2>2. DOMAIN asked = Clients /\ DOMAIN instrument_read_responses = Clients
    BY DEF AskedType, TypeOK, IsBus
  <2>3. ASSUME NEW i \in Clients
        PROVE  /\ Answered(asked'[i], Answers(i)', instrument_read_bus[i])
               /\ asked'[i] \in Seq(Instruments)
    <3>1. CASE i = c
      <4>1. /\ instrument_read_responses'[i] = Tail(instrument_read_responses[i])
            /\ asked'[i] = Tail(asked[i])
        BY <2>1, <2>2, <3>1
      <4>2. Answers(i) # <<>> /\ Answers(i)' = Tail(Answers(i))
        <5>1. Held(i)' = Held(i) /\ instrument_read_responses[i] # <<>>
          BY <2>1, <3>1 DEF Held
        <5>2. Answers(i)' = Tail(instrument_read_responses[i]) \o Held(i)
          BY <4>1, <5>1 DEF Answers
        <5>3. /\ instrument_read_responses[i] \o Held(i) # <<>>
              /\ Tail(instrument_read_responses[i] \o Held(i))
                   = Tail(instrument_read_responses[i]) \o Held(i)
          BY <5>1, AnsweredTypes, TailOfConcat
        <5>. QED  BY <5>2, <5>3 DEF Answers
      <4>. QED  BY <1>0, <4>1, <4>2, AnsweredTypes, AnsweredTake
    <3>2. CASE i # c
      <4>1. Answers(i)' = Answers(i) /\ asked'[i] = asked[i]
        BY <2>1, <2>2, <3>2 DEF Answers, Held
      <4>. QED  BY <1>0, <4>1
    <3>. QED  BY <3>1, <3>2
  <2>4. AskedType'
    BY <2>1, <2>2, <2>3 DEF AskedType
  <2>. QED  BY <1>1, <2>1, <2>3, <2>4
<1>6. ASSUME UNCHANGED <<asked, instrument_read_bus, instrument_read_responses>>,
             /\ (config_at = "answer" \/ config_at' = "answer") =>
                  UNCHANGED <<config_at, client, answer>>
      PROVE  AskedType' /\ AnswersInOrder'
  <2>1. ASSUME NEW i \in Clients
        PROVE  Answers(i)' = Answers(i)
    BY <1>6 DEF Answers, Held
  <2>. QED  BY <1>0, <1>1, <1>6, <2>1 DEF AskedType
<1>7. CASE Process /\ ~ReadRequest /\ ~WriteAnswer
  BY <1>6, <1>7 DEF Process, p_handle_instrument_configuration, ReadHeader, ReadConfWord2,
     ReadConfWord3, WriteAck, ReadSwTrigArg, IssueTrigger, IgnoreWord, TakeWord,
     TurnToRequests, SkipClient, NextClient, configStreams
<1>8. CASE HostSends \/ DmaDelivers \/ SinkAck \/ SinkTrigger \/ UNCHANGED vars
  BY <1>6, <1>8 DEF HostSends, DmaDelivers, SinkAck, SinkTrigger, vars, configVars,
     configStreams
<1>9. Process => UNCHANGED asked
  BY DEF Process
<1>. QED  BY <1>2, <1>3, <1>4, <1>5, <1>7, <1>8, <1>9 DEF Next

LEMMA OrderInit == Init => AskedType /\ AnswersInOrder
BY DEF Init, LocalInit, AskedType, AnswersInOrder, Clients

(* Each strategy's reads are answered once and in its order, each with a   *)
(* whole configuration of the instrument asked for.                        *)
THEOREM AlwaysInOrder == Spec => []AnswersInOrder
<1>1. /\ TypeOK /\ TypeOK' /\ WholeConfigurations /\ AskedType /\ AnswersInOrder /\ [Next]_vars
      => AskedType' /\ AnswersInOrder'
  BY OrderStep
<1>. QED  BY OrderInit, <1>1, TypeCorrect, NeverTorn, PTL DEF Spec
=============================================================================
