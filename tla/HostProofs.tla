----------------------------- MODULE HostProofs -----------------------------
(***************************************************************************)
(* The way of a request from the host to the design and back, proved for   *)
(* any requests of the two senders, any instruments and any depths of the  *)
(* DMA and of the streams.  The layouts of the two sides agree field by    *)
(* field.  The words the DMA gives the design, the place its process has   *)
(* parsed to and the requests not yet carried out stay in step (HostInv).  *)
(* From these: what the handler was told is stored (ToldInv), and library, *)
(* DMA, process and dispatcher implement AlgorithmService.                 *)
(***************************************************************************)
EXTENDS HostSystem, HlsStreamProofs

(* The messages a sender sends: a trigger it cannot bind it refuses. *)
Sendable == ConfigurationRequests \cup TriggerRequests

(* A configuration read whole, its acknowledgement and its item; a trigger *)
(* read whole, and its command.                                            *)
WholeUpdate(m) == [word1 |-> m, word2 |-> m, word3 |-> m]
WholeTrigger(m) == [i \in 1..6 |-> m]
AckOf(m) == Design!Ack(WholeUpdate(m))
ItemOf(m) == Design!Convert(WholeUpdate(m))
CommandOf(m) == Design!SwCommand(WholeTrigger(m))

HostWord == [msg: Sendable, part: 1..6, last: BOOLEAN,
             reads_as: {"configuration", "software_trigger", "unknown"}]

Stored == {Design!NoConf} \cup {ItemOf(m) : m \in ConfigurationRequests}

(* How many words of a packet the process has read, by its state. *)
WordsRead ==
  [IDLE |-> 0, READ_CONF_WORD2 |-> 1, READ_CONF_WORD3 |-> 2,
   READ_SW_TRIG_ARG1 |-> 1, READ_SW_TRIG_ARG2 |-> 2, READ_SW_TRIG_ARG3 |-> 3,
   READ_SW_TRIG_ARG4 |-> 4, READ_SW_TRIG_ARG5_ISSUE_TRIG |-> 5]
Parsed == IF config_at \in {"ack", "trigger"} THEN 0 ELSE WordsRead[current_state]

HostTypes ==
  /\ IsStream(c2a_stream, Sendable, TxDepth) /\ requested \in Seq(Sendable)
  /\ call \in [Senders -> {NoCall} \cup Sendable] /\ result \in {"none", "error"}
  /\ delivered \in Nat
  /\ IsStream(user_dma_channel_data_in, HostWord, InDepth)
  /\ IsStream(config_to_notifs, {AckOf(m) : m \in ConfigurationRequests}, NotifDepth)
  /\ IsBus(decisions_outputs, {3}, {CommandOf(m) : m \in TriggerRequests}, StreamDepth)
  /\ notifs \subseteq Notifying /\ isExitRequested \in BOOLEAN

ProcessTypes ==
  /\ instrument_read_bus = [i \in {0, 1} |-> <<>>] /\ client \in {0, 1}
  /\ config_at \in {"word", "serve", "ack", "trigger"} /\ current_state \in DOMAIN WordsRead
  /\ current_dma_message_read \in
       [word1: MsgIds \cup {0}, word2: MsgIds \cup {0}, word3: MsgIds \cup {0}]
  /\ current_software_trigger_message_read \in [1..6 -> MsgIds \cup {0}]
  /\ values \in [Instruments -> Stored]

(* The messages the DMA has yet to give whole are the last of those        *)
(* requested.                                                              *)
LastRequested ==
  /\ Len(c2a_stream) =< Len(requested)
  /\ \A k \in 1..Len(c2a_stream) :
       c2a_stream[k] = requested[Len(requested) - Len(c2a_stream) + k]
  /\ delivered # 0 => c2a_stream # <<>> /\ delivered < Len(WordsOf[Head(c2a_stream)])

(* The words in the channel are those that follow the ones read, up to the *)
(* ones the DMA has yet to give.                                           *)
Place == <<Len(requested) - Len(c2a_stream) + 1, delivered + 1>>
WordsInPlace ==
  \E p : /\ Spelled(WordsOf, requested, p, user_dma_channel_data_in)
        /\ p[1] = <<1, Parsed + 1>> /\ p[Len(user_dma_channel_data_in) + 1] = Place

(* What the process has read is the beginning of the oldest request, or    *)
(* the whole of the one before.                                            *)
ReadsOldest ==
  LET d == current_dma_message_read
      t == current_software_trigger_message_read
      m == Head(requested)
  IN /\ Parsed # 0 => requested # <<>>
     /\ Parsed # 0 /\ current_state \in {"READ_CONF_WORD2", "READ_CONF_WORD3"} =>
          m \in ConfigurationRequests /\ d.word1 = m /\ (Parsed = 2 => d.word2 = m)
     /\ Parsed # 0 /\ current_state \notin {"READ_CONF_WORD2", "READ_CONF_WORD3"} =>
          m \in TriggerRequests /\ \A k \in 1..Parsed : t[k] = m
     /\ config_at = "ack" => \E n \in ConfigurationRequests : d = WholeUpdate(n)
     /\ config_at = "trigger" => \E n \in TriggerRequests : t = WholeTrigger(n)

HostInv == HostTypes /\ ProcessTypes /\ LastRequested /\ WordsInPlace /\ ReadsOldest

(* An acknowledgement tells what is stored, unless a later one does, and   *)
(* so does what the handler was told last.                                 *)
Tells(acks, memory) ==
  \A i \in 1..Len(acks) :
    \/ \E j \in (i + 1)..Len(acks) : acks[j].instr_id = acks[i].instr_id
    \/ memory[acks[i].instr_id] = Design!Kept(acks[i])

ToldOf(m) ==
  \/ values[Requests[m].fields.instr_id] = ItemOf(m)
  \/ \E i \in 1..Len(Acks) : Acks[i].instr_id = Requests[m].fields.instr_id

ToldInv ==
  /\ Tells(Acks, values)
  /\ told # <<>> => \E m \in ConfigurationRequests : told = <<Requests[m].fields>> /\ ToldOf(m)
-----------------------------------------------------------------------------
(* The fields of a configuration in the two directions, by name. *)
FieldNames == {"t2c_threshold", "bid_price", "ask_price", "instr_id", "bid_collection",
               "t2c_collection", "ask_collection", "enabled"}

(* A field is read from the one the writer has on the same bits. *)
LEMMA OneSent ==
  ASSUME NEW writer, NEW reader, NEW f \in DOMAIN reader, NEW g \in DOMAIN writer,
         writer[g] = reader[f], \A h \in DOMAIN writer : writer[h] = reader[f] => h = g
  PROVE  FieldSent(writer, reader)[f] = {g}
BY DEF FieldSent

LEMMA ReadOne ==
  ASSUME NEW sent, NEW given, NEW f \in DOMAIN sent, NEW g, sent[f] = {g}
  PROVE  Read(sent, given)[f] = given[g]
<1>1. sent[f] # {} /\ (CHOOSE h \in sent[f] : TRUE) = g
  OBVIOUS
<1>. QED  BY <1>1 DEF Read

(* The words of an update are read as the host laid them out. *)
LEMMA UpdateLayout ==
  /\ DOMAIN UpdateBits = FieldNames /\ DOMAIN Bits(UpdateBits) = FieldNames
  /\ \A f \in FieldNames : FieldSent(InstrumentConfigurationMessage, Bits(UpdateBits))[f] = {f}
<1>1. DOMAIN UpdateBits = FieldNames /\ DOMAIN Bits(UpdateBits) = FieldNames
  BY DEF UpdateBits, FieldNames, Bits
<1>2. ASSUME NEW f \in FieldNames
      PROVE  /\ f \in DOMAIN InstrumentConfigurationMessage
             /\ InstrumentConfigurationMessage[f] = Bits(UpdateBits)[f]
             /\ \A h \in DOMAIN InstrumentConfigurationMessage :
                  InstrumentConfigurationMessage[h] = Bits(UpdateBits)[f] => h = f
  BY DEF InstrumentConfigurationMessage, Join, CpuToFpgaHeader, ConfigurationFields, Bits,
         UpdateBits, FieldNames
<1>3. ASSUME NEW f \in FieldNames
      PROVE  FieldSent(InstrumentConfigurationMessage, Bits(UpdateBits))[f] = {f}
  BY <1>1, <1>2, OneSent
<1>. QED  BY <1>1, <1>3

HeaderNames == {"version", "dest", "msg_type", "ack_request", "reserved", "timestamp", "length"}

LEMMA HeaderLayout ==
  /\ DOMAIN cpu2fpga_header = HeaderNames /\ DOMAIN Bits(cpu2fpga_header) = HeaderNames
  /\ \A f \in HeaderNames :
       /\ FieldSent(InstrumentConfigurationMessage, Bits(cpu2fpga_header))[f] = {f}
       /\ FieldSent(TriggerWithArgsMessage, Bits(cpu2fpga_header))[f] = {f}
<1>1. DOMAIN cpu2fpga_header = HeaderNames /\ DOMAIN Bits(cpu2fpga_header) = HeaderNames
  BY DEF cpu2fpga_header, HeaderNames, Bits
<1>2. ASSUME NEW f \in HeaderNames
      PROVE  /\ f \in DOMAIN InstrumentConfigurationMessage
             /\ InstrumentConfigurationMessage[f] = Bits(cpu2fpga_header)[f]
             /\ \A h \in DOMAIN InstrumentConfigurationMessage :
                  InstrumentConfigurationMessage[h] = Bits(cpu2fpga_header)[f] => h = f
  BY DEF InstrumentConfigurationMessage, Join, CpuToFpgaHeader, ConfigurationFields, Bits,
         cpu2fpga_header, HeaderNames
<1>3. ASSUME NEW f \in HeaderNames
      PROVE  /\ f \in DOMAIN TriggerWithArgsMessage
             /\ TriggerWithArgsMessage[f] = Bits(cpu2fpga_header)[f]
             /\ \A h \in DOMAIN TriggerWithArgsMessage :
                  TriggerWithArgsMessage[h] = Bits(cpu2fpga_header)[f] => h = f
  BY DEF TriggerWithArgsMessage, Join, CpuToFpgaHeader, Bits, cpu2fpga_header, HeaderNames
<1>4. ASSUME NEW f \in HeaderNames
      PROVE  /\ FieldSent(InstrumentConfigurationMessage, Bits(cpu2fpga_header))[f] = {f}
             /\ FieldSent(TriggerWithArgsMessage, Bits(cpu2fpga_header))[f] = {f}
  BY <1>1, <1>2, <1>3, OneSent
<1>. QED  BY <1>1, <1>4

TriggerNames == {"collection_id", "arg_bitmap", "arg0", "arg1", "arg2", "arg3", "arg4"}

LEMMA TriggerLayout ==
  /\ DOMAIN SoftwareTriggerBits = TriggerNames /\ DOMAIN Bits(SoftwareTriggerBits) = TriggerNames
  /\ \A f \in TriggerNames :
       FieldSent(TriggerWithArgsMessage, Bits(SoftwareTriggerBits))[f] = {f}
<1>1. /\ DOMAIN SoftwareTriggerBits = TriggerNames
      /\ DOMAIN Bits(SoftwareTriggerBits) = TriggerNames
  BY DEF SoftwareTriggerBits, TriggerNames, Bits
<1>2. ASSUME NEW f \in TriggerNames
      PROVE  /\ f \in DOMAIN TriggerWithArgsMessage
             /\ TriggerWithArgsMessage[f] = Bits(SoftwareTriggerBits)[f]
             /\ \A h \in DOMAIN TriggerWithArgsMessage :
                  TriggerWithArgsMessage[h] = Bits(SoftwareTriggerBits)[f] => h = f
  BY DEF TriggerWithArgsMessage, Join, CpuToFpgaHeader, Bits, SoftwareTriggerBits, TriggerNames
<1>3. ASSUME NEW f \in TriggerNames
      PROVE  FieldSent(TriggerWithArgsMessage, Bits(SoftwareTriggerBits))[f] = {f}
  BY <1>1, <1>2, OneSent
<1>. QED  BY <1>1, <1>3

(* The acknowledgement is read by the host as the design laid it out. *)
LEMMA AckLayout ==
  /\ DOMAIN AckBits = FieldNames /\ \A f \in FieldNames : AckSent[f] = {f}
<1>. DEFINE table == Join(AckBits, fpga2cpu_header)
            writer == Bits(table)
            reader == InstrumentConfigurationAckMessage
<1>1. DOMAIN AckBits = FieldNames
  BY DEF AckBits, FieldNames
<1>2. /\ DOMAIN fpga2cpu_header = {"version", "source", "msg_type", "error", "reserved",
                                  "timestamp", "length"}
      /\ \A h \in FieldNames : h \notin DOMAIN fpga2cpu_header
  BY DEF fpga2cpu_header, FieldNames
<1>3. /\ DOMAIN table = FieldNames \cup DOMAIN fpga2cpu_header
      /\ \A h \in FieldNames : table[h] = AckBits[h]
      /\ \A h \in DOMAIN fpga2cpu_header : table[h] = fpga2cpu_header[h]
  BY <1>1, <1>2 DEF Join
<1>. HIDE DEF table
<1>4. /\ DOMAIN writer = FieldNames \cup DOMAIN fpga2cpu_header
      /\ \A h \in DOMAIN writer : writer[h] = <<128 * (table[h][1] - 1) + 127 - table[h][2],
                                               table[h][2] - table[h][3] + 1>>
  BY <1>3 DEF Bits
<1>5. ASSUME NEW h \in FieldNames
      PROVE  writer[h] = reader[h] /\ h \in DOMAIN reader
  <2>1. writer[h] = <<128 * (AckBits[h][1] - 1) + 127 - AckBits[h][2],
                      AckBits[h][2] - AckBits[h][3] + 1>>
    BY <1>3, <1>4
  <2>2. writer[h] = ConfigurationFields[h]
    BY <2>1 DEF AckBits, ConfigurationFields, FieldNames
  <2>3. ConfigurationFields[h] = reader[h] /\ h \in DOMAIN reader
    BY DEF InstrumentConfigurationAckMessage, Join, FpgaToCpuHeader, ConfigurationFields,
       FieldNames
  <2>. QED  BY <2>2, <2>3
<1>6. ASSUME NEW h \in DOMAIN fpga2cpu_header, NEW f \in FieldNames
      PROVE  writer[h] # reader[f]
  <2>1. writer[h] = <<128 * (fpga2cpu_header[h][1] - 1) + 127 - fpga2cpu_header[h][2],
                      fpga2cpu_header[h][2] - fpga2cpu_header[h][3] + 1>>
    BY <1>3, <1>4
  <2>2. writer[h][1] \in Int /\ writer[h][1] < 64
    BY <1>2, <2>1 DEF fpga2cpu_header
  <2>3. reader[f][1] \in Int /\ reader[f][1] >= 64
    BY DEF InstrumentConfigurationAckMessage, Join, FpgaToCpuHeader, ConfigurationFields,
       FieldNames
  <2>. HIDE DEF writer, reader
  <2>. QED  BY <2>2, <2>3
<1>7. ASSUME NEW h \in FieldNames, NEW f \in FieldNames, h # f
      PROVE  reader[h] # reader[f]
  BY <1>7 DEF InstrumentConfigurationAckMessage, Join, FpgaToCpuHeader, ConfigurationFields,
     FieldNames
<1>. HIDE DEF writer, reader
<1>8. ASSUME NEW f \in FieldNames
      PROVE  FieldSent(writer, reader)[f] = {f}
  <2>1. \A h \in DOMAIN writer : writer[h] = reader[f] => h = f
    BY <1>4, <1>5, <1>6, <1>7
  <2>. QED  BY <1>4, <1>5, <2>1, OneSent
<1>. QED  BY <1>1, <1>8 DEF AckSent, writer, reader, table
-----------------------------------------------------------------------------
(* The two kinds of requests that are sent. *)
LEMMA RequestKinds ==
  /\ ConfigurationRequests \subseteq MsgIds /\ TriggerRequests \subseteq MsgIds
  /\ Sendable \subseteq MsgIds /\ 0 \notin MsgIds
  /\ \A m \in ConfigurationRequests :
       /\ Requests[m].kind = "configuration" /\ m \notin TriggerRequests
       /\ Requests[m].fields \in Design!ConfMessage
  /\ \A m \in TriggerRequests : Requests[m].kind = "trigger"
<1>1. \A m \in MsgIds : Requests[m].kind \in {"configuration", "trigger"}
  BY DriverAssumption DEF MsgIds
<1>2. 0 \notin MsgIds
  BY DriverAssumption DEF MsgIds
<1>. QED  BY <1>1, <1>2, HostAssumption DEF ConfigurationRequests, TriggerRequests, Sendable

(* A request has the fields asked for, and the header of its module. *)
LEMMA UpdateMessage ==
  ASSUME NEW m \in ConfigurationRequests
  PROVE  /\ DOMAIN Requests[m].fields = FieldNames
         /\ \A f \in FieldNames : Message[m][f] = Requests[m].fields[f]
         /\ Message[m].version = 1 /\ Message[m].dest = 8 /\ Message[m].msg_type = 1
<1>1. m \in MsgIds /\ Requests[m].kind = "configuration"
  BY RequestKinds
<1>2. Requests[m].fields \in Design!ConfMessage
  BY RequestKinds
<1>3. DOMAIN Requests[m].fields = FieldNames
  BY <1>2 DEF Design!ConfMessage, FieldNames
<1>. DEFINE header == buildCpuToFpgaHeader(8, SizeOf.configuration)
<1>4. Message[m] = Join(header, Requests[m].fields)
  BY <1>1 DEF Message
<1>5. /\ DOMAIN header = HeaderNames
      /\ header.version = 1 /\ header.dest = 8 /\ header.msg_type = 1
  BY DEF buildCpuToFpgaHeader, HeaderNames
<1>6. /\ \A f \in FieldNames : f \notin HeaderNames
      /\ "version" \in HeaderNames /\ "dest" \in HeaderNames /\ "msg_type" \in HeaderNames
  BY DEF FieldNames, HeaderNames
<1>. HIDE DEF header
<1>. QED  BY <1>3, <1>4, <1>5, <1>6 DEF Join

LEMMA TriggerMessage ==
  ASSUME NEW m \in TriggerRequests
  PROVE  /\ \A f \in TriggerNames :
              Message[m][f] = bind_arguments(Requests[m].collection, Requests[m].args)[f]
         /\ Message[m].version = 1 /\ Message[m].dest = 9
<1>1. m \in MsgIds /\ Requests[m].kind = "trigger"
  BY RequestKinds
<1>. DEFINE header == buildCpuToFpgaHeader(9, SizeOf.trigger)
            bound == bind_arguments(Requests[m].collection, Requests[m].args)
<1>2. Message[m] = Join(header, bound)
  BY <1>1 DEF Message
<1>3. DOMAIN header = HeaderNames /\ header.version = 1 /\ header.dest = 9
  BY DEF buildCpuToFpgaHeader, HeaderNames
<1>4. DOMAIN bound = TriggerNames
  BY DEF bind_arguments, TriggerNames
<1>5. /\ \A f \in TriggerNames : f \notin HeaderNames
      /\ "version" \in HeaderNames /\ "dest" \in HeaderNames
  BY DEF TriggerNames, HeaderNames
<1>. HIDE DEF header, bound
<1>6. /\ \A f \in TriggerNames : Message[m][f] = bound[f]
      /\ Message[m].version = 1 /\ Message[m].dest = 9
  BY <1>2, <1>3, <1>4, <1>5 DEF Join
<1>. QED  BY <1>6 DEF bound

(* The design reads a request as it was asked. *)
LEMMA UpdateRead ==
  ASSUME NEW m \in ConfigurationRequests
  PROVE  AsUpdate[m] = Requests[m].fields
<1>1. m \in MsgIds /\ m # 0 /\ Requests[m].kind = "configuration"
  BY RequestKinds
<1>. DEFINE sent == FieldSent(InstrumentConfigurationMessage, Bits(UpdateBits))
<1>2. AsUpdate[m] = Read(sent, Message[m])
  BY <1>1 DEF AsUpdate, AsRead, Sent
<1>3. DOMAIN sent = FieldNames /\ \A f \in FieldNames : sent[f] = {f}
  BY UpdateLayout DEF FieldSent
<1>. HIDE DEF sent
<1>4. \A f \in FieldNames : Read(sent, Message[m])[f] = Message[m][f]
  BY <1>3, ReadOne
<1>5. DOMAIN Read(sent, Message[m]) = FieldNames
  BY <1>3 DEF Read
<1>. DEFINE got == Read(sent, Message[m])
            asked == Requests[m].fields
<1>6. \A f \in FieldNames : got[f] = asked[f]
  BY <1>4, UpdateMessage
<1>7. got = [f \in FieldNames |-> got[f]]
  BY <1>3 DEF Read
<1>8. asked = [f \in FieldNames |-> asked[f]]
  BY RequestKinds DEF Design!ConfMessage, FieldNames
<1>. HIDE DEF got, asked
<1>9. got = asked
  BY <1>6, <1>7, <1>8
<1>. QED  BY <1>2, <1>9 DEF got, asked

LEMMA HeaderRead ==
  ASSUME NEW m \in Sendable
  PROVE  /\ AsHeader[m].version = 1
         /\ m \in ConfigurationRequests => AsHeader[m].dest = 8 /\ AsHeader[m].msg_type = 1
         /\ m \in TriggerRequests => AsHeader[m].dest = 9
<1>1. m \in MsgIds
  BY RequestKinds
<1>2. "version" \in HeaderNames /\ "dest" \in HeaderNames /\ "msg_type" \in HeaderNames
  BY DEF HeaderNames
<1>. DEFINE sent == FieldSent(Sent(m), Bits(cpu2fpga_header))
<1>3. AsHeader[m] = Read(sent, Message[m])
  BY <1>1 DEF AsHeader, AsRead
<1>4. Sent(m) \in {InstrumentConfigurationMessage, TriggerWithArgsMessage}
  BY DEF Sent
<1>5. DOMAIN sent = HeaderNames /\ \A f \in HeaderNames : sent[f] = {f}
  BY <1>4, HeaderLayout DEF FieldSent
<1>. HIDE DEF sent
<1>6. \A f \in HeaderNames : AsHeader[m][f] = Message[m][f]
  BY <1>3, <1>5, ReadOne
<1>7. /\ AsHeader[m].version = Message[m].version /\ AsHeader[m].dest = Message[m].dest
      /\ AsHeader[m].msg_type = Message[m].msg_type
  BY <1>2, <1>6
<1>. QED  BY <1>7, UpdateMessage, TriggerMessage DEF Sendable

(* The words of a request: three of an update, six of a trigger, its end   *)
(* marked at the last of them only, and its kind read from the first.      *)
LEMMA WordsOfRequest ==
  ASSUME NEW m \in Sendable
  PROVE  /\ Len(WordsOf[m]) = IF m \in ConfigurationRequests THEN 3 ELSE 6
         /\ \A i \in 1..Len(WordsOf[m]) :
              /\ WordsOf[m][i] \in HostWord /\ WordsOf[m][i].msg = m
              /\ WordsOf[m][i].last <=> i = Len(WordsOf[m])
         /\ WordsOf[m][1].reads_as =
              IF m \in ConfigurationRequests THEN "configuration" ELSE "software_trigger"
<1>. DEFINE n == IF m \in ConfigurationRequests THEN 3 ELSE 6
            kind == IF m \in ConfigurationRequests THEN "configuration" ELSE "software_trigger"
            h == AsHeader[m]
            reads(i) == CASE i = 1 /\ h.dest = 8 /\ h.msg_type = 1 /\ h.version = 1 -> "configuration"
                          [] i = 1 /\ h.dest = 9 /\ h.version = 1 -> "software_trigger"
                          [] OTHER -> "unknown"
<1>1. m \in MsgIds
  BY RequestKinds
<1>2. SizeOf[Requests[m].kind] \div 16 = n
  <2>1. CASE m \in ConfigurationRequests
    <3>1. SizeOf[Requests[m].kind] = 48 /\ 48 \div 16 = 3
      BY <2>1, RequestKinds DEF SizeOf
    <3>. QED  BY <2>1, <3>1
  <2>2. CASE m \notin ConfigurationRequests
    <3>1. m \in TriggerRequests
      BY <2>2 DEF Sendable
    <3>2. SizeOf[Requests[m].kind] = 96 /\ 96 \div 16 = 6
      BY <3>1, RequestKinds DEF SizeOf
    <3>. QED  BY <2>2, <3>2
  <2>. QED  BY <2>1, <2>2
<1>3. n \in {3, 6}
  OBVIOUS
<1>4. reads(1) = kind
  <2>1. CASE m \in ConfigurationRequests
    BY <2>1, HeaderRead
  <2>2. CASE m \notin ConfigurationRequests
    <3>1. h.dest = 9 /\ h.version = 1
      BY <2>2, HeaderRead DEF Sendable
    <3>. QED  BY <2>2, <3>1
  <2>. QED  BY <2>1, <2>2
<1>5. WordsOf[m] = [i \in 1..n |-> [msg |-> m, part |-> i, last |-> i = n, reads_as |-> reads(i)]]
  BY <1>1, <1>2 DEF WordsOf
<1>6. \A i \in 1..n : reads(i) \in {"configuration", "software_trigger", "unknown"}
  OBVIOUS
<1>. HIDE DEF n, reads, kind
<1>7. Len(WordsOf[m]) = n
  BY <1>3, <1>5
<1>8. ASSUME NEW i \in 1..n
      PROVE  /\ WordsOf[m][i] \in HostWord /\ WordsOf[m][i].msg = m
             /\ WordsOf[m][i].last <=> i = n
             /\ WordsOf[m][i].reads_as = reads(i)
  <2>1. WordsOf[m][i] = [msg |-> m, part |-> i, last |-> i = n, reads_as |-> reads(i)]
    BY <1>5
  <2>2. i \in 1..6
    BY <1>3
  <2>3. PICK last \in BOOLEAN, r \in {"configuration", "software_trigger", "unknown"} :
          (last <=> i = n) /\ r = reads(i)
    BY <1>6
  <2>4. WordsOf[m][i] = [msg |-> m, part |-> i, last |-> last, reads_as |-> r]
    BY <2>1, <2>3
  <2>5. WordsOf[m][i] \in HostWord
    BY <2>2, <2>4 DEF HostWord
  <2>. QED  BY <2>3, <2>4, <2>5
<1>9. 1 \in 1..n
  BY <1>3
<1>. QED  BY <1>4, <1>7, <1>8, <1>9 DEF n, kind
-----------------------------------------------------------------------------
(* The acknowledgement of a request tells what was asked, and the item it  *)
(* is of is the one the strategies read.                                   *)
LEMMA AckOfRequest ==
  ASSUME NEW m \in ConfigurationRequests
  PROVE  /\ AckOf(m).source = 8 /\ AckOf(m).length = 48
         /\ AckOf(m).instr_id = Requests[m].fields.instr_id
         /\ Requests[m].fields.instr_id \in Instruments
         /\ AckRead(AckOf(m)) = Requests[m].fields
         /\ ItemOf(m) = Design!Kept(AckOf(m)) /\ ItemOf(m) = Design!Kept(Requests[m].fields)
<1>. DEFINE asked == Requests[m].fields
            item == [enabled |-> asked.enabled % 2 = 1,
                     t2c_threshold |-> asked.t2c_threshold,
                     t2c_collection |-> asked.t2c_collection,
                     bid_price |-> asked.bid_price, bid_collection |-> asked.bid_collection,
                     ask_price |-> asked.ask_price, ask_collection |-> asked.ask_collection]
<1>1. AsUpdate[m] = asked /\ asked \in Design!ConfMessage
  BY UpdateRead, RequestKinds
<1>2. ItemOf(m) = item
  BY <1>1 DEF ItemOf, Design!Convert, WholeUpdate
<1>3. AckOf(m) = [source |-> 8, msg_type |-> 1, length |-> 48,
                  instr_id |-> asked.instr_id, enabled |-> asked.enabled,
                  t2c_threshold |-> asked.t2c_threshold,
                  t2c_collection |-> asked.t2c_collection,
                  bid_price |-> asked.bid_price, bid_collection |-> asked.bid_collection,
                  ask_price |-> asked.ask_price, ask_collection |-> asked.ask_collection]
  BY <1>1 DEF AckOf, Design!Ack, WholeUpdate
<1>4. asked = [f \in FieldNames |-> asked[f]] /\ asked.instr_id \in Instruments
      /\ DOMAIN asked = FieldNames
  BY <1>1 DEF Design!ConfMessage, FieldNames
<1>. HIDE DEF asked
<1>5. AckRead(AckOf(m)) = asked
  <2>. DEFINE ack == AckOf(m)
  <2>1. AckRead(ack) = [f \in FieldNames |-> ack[CHOOSE g \in AckSent[f] : TRUE]]
    BY AckLayout DEF AckRead
  <2>2. ASSUME NEW f \in FieldNames
        PROVE  ack[CHOOSE g \in AckSent[f] : TRUE] = asked[f]
    <3>1. AckSent[f] = {f} /\ (CHOOSE g \in {f} : TRUE) = f
      BY AckLayout
    <3>2. ack[f] = asked[f]
      BY <1>3 DEF FieldNames
    <3>. QED  BY <3>1, <3>2
  <2>. HIDE DEF ack
  <2>3. AckRead(ack) = [f \in FieldNames |-> asked[f]]
    BY <2>1, <2>2
  <2>. QED  BY <1>4, <2>3 DEF ack
<1>6. item = Design!Kept(AckOf(m)) /\ item = Design!Kept(asked)
  <2>1. item = [f \in DOMAIN Design!NoConf |-> item[f]]
    BY DEF Design!NoConf
  <2>2. ASSUME NEW f \in DOMAIN Design!NoConf
        PROVE  /\ item[f] = IF f = "enabled" THEN AckOf(m).enabled % 2 = 1 ELSE AckOf(m)[f]
               /\ item[f] = IF f = "enabled" THEN asked.enabled % 2 = 1 ELSE asked[f]
    BY <1>3, <2>2 DEF Design!NoConf
  <2>. HIDE DEF item
  <2>3. item = [f \in DOMAIN Design!NoConf |->
                  IF f = "enabled" THEN AckOf(m).enabled % 2 = 1 ELSE AckOf(m)[f]]
    BY <2>1, <2>2, Zenon
  <2>4. item = [f \in DOMAIN Design!NoConf |->
                  IF f = "enabled" THEN asked.enabled % 2 = 1 ELSE asked[f]]
    BY <2>1, <2>2, Zenon
  <2>. QED  BY <2>3, <2>4, Zenon DEF Design!Kept
<1>7. AckOf(m).source = 8 /\ AckOf(m).length = 48 /\ AckOf(m).instr_id = asked.instr_id
  BY <1>3
<1>. HIDE DEF item
<1>. QED  BY <1>2, <1>4, <1>5, <1>6, <1>7, Zenon DEF asked

(* A bit of the bitmap is set exactly when its argument is not empty.      *)
LEMMA BitmapBits ==
  ASSUME NEW b \in [1..5 -> {0, 1}], NEW n,
         n = b[1] + 2 * b[2] + 4 * b[3] + 8 * b[4] + 16 * b[5]
  PROVE  /\ (n \div 1) % 2 = b[1] /\ (n \div 2) % 2 = b[2] /\ (n \div 4) % 2 = b[3]
         /\ (n \div 8) % 2 = b[4] /\ (n \div 16) % 2 = b[5]
<1>1. PICK b1 \in {0, 1}, b2 \in {0, 1}, b3 \in {0, 1}, b4 \in {0, 1}, b5 \in {0, 1} :
        b1 = b[1] /\ b2 = b[2] /\ b3 = b[3] /\ b4 = b[4] /\ b5 = b[5]
  <2>1. /\ b[1] \in {0, 1} /\ b[2] \in {0, 1} /\ b[3] \in {0, 1}
        /\ b[4] \in {0, 1} /\ b[5] \in {0, 1}
    OBVIOUS
  <2>. QED  BY <2>1
<1>2. n = b1 + 2 * b2 + 4 * b3 + 8 * b4 + 16 * b5
  BY <1>1
<1>3. n \div 1 = n /\ n % 2 = b1
  BY <1>2
<1>4. n \div 2 = b2 + 2 * b3 + 4 * b4 + 8 * b5
  BY <1>2
<1>5. n \div 4 = b3 + 2 * b4 + 4 * b5
  BY <1>2
<1>6. n \div 8 = b4 + 2 * b5
  BY <1>2
<1>7. n \div 16 = b5
  <2>1. PICK r \in 0..15 : r = b1 + 2 * b2 + 4 * b3 + 8 * b4
    OBVIOUS
  <2>2. n = r + 16 * b5
    BY <1>2, <2>1
  <2>. QED  BY <2>2
<1>8. /\ (b2 + 2 * b3 + 4 * b4 + 8 * b5) % 2 = b2 /\ (b3 + 2 * b4 + 4 * b5) % 2 = b3
      /\ (b4 + 2 * b5) % 2 = b4 /\ b5 % 2 = b5
  OBVIOUS
<1>. QED  BY <1>1, <1>3, <1>4, <1>5, <1>6, <1>7, <1>8

LEMMA Powers == 2^0 = 1 /\ 2^1 = 2 /\ 2^2 = 4 /\ 2^3 = 8 /\ 2^4 = 16
OBVIOUS

(* The command of a trigger has the arguments asked for.                   *)
LEMMA CommandOfRequest ==
  ASSUME NEW m \in TriggerRequests
  PROVE  CommandMade(CommandOf(m)) = Asked(m)
<1>. DEFINE args == Requests[m].args
            sent == FieldSent(TriggerWithArgsMessage, Bits(SoftwareTriggerBits))
            c == CommandOf(m)
<1>1. m \in MsgIds /\ Requests[m].kind # "configuration"
  BY RequestKinds
<1>2. AsTrigger[m] = Read(sent, Message[m])
  BY <1>1 DEF AsTrigger, AsRead, Sent
<1>3. DOMAIN sent = TriggerNames /\ \A f \in TriggerNames : sent[f] = {f}
  BY TriggerLayout DEF FieldSent
<1>. HIDE DEF sent
<1>4. \A f \in TriggerNames :
        AsTrigger[m][f] = bind_arguments(Requests[m].collection, args)[f]
  BY <1>2, <1>3, ReadOne, TriggerMessage
<1>5. AsTrigger[m].arg_bitmap = Bitmap(args)
  BY <1>4 DEF TriggerNames, bind_arguments
<1>6. \A i \in 1..5 : AsTrigger[m][ArgNames[i]] = Arg(args, i)
  <2>1. /\ AsTrigger[m]["arg0"] = Arg(args, 1) /\ AsTrigger[m]["arg1"] = Arg(args, 2)
        /\ AsTrigger[m]["arg2"] = Arg(args, 3) /\ AsTrigger[m]["arg3"] = Arg(args, 4)
        /\ AsTrigger[m]["arg4"] = Arg(args, 5)
    BY <1>4 DEF TriggerNames, bind_arguments
  <2>. QED  BY <2>1 DEF ArgNames
<1>7. c.collection = m /\ \A i \in 1..5 : c.args[i] = m
  <2>. DEFINE n == 6
              t == WholeTrigger(m)
  <2>1. t \in [1..n -> MsgIds] /\ n \in Nat /\ \A i \in 1..n : t[i] = m
    BY <1>1 DEF WholeTrigger
  <2>. HIDE DEF n, t
  <2>2. t \in Seq(MsgIds) /\ Len(t) = n
    BY <2>1, FunctionIsSeq
  <2>3. \A i \in 1..(n - 1) : Tail(t)[i] = t[i + 1] /\ i + 1 \in 1..n
    BY <2>1, <2>2
  <2>4. /\ \A i \in 1..(n - 1) : Tail(t)[i] = m
        /\ 1 \in 1..n
    <3>1. 1 \in 1..n
      BY DEF n
    <3>. QED  BY <2>1, <2>3, <3>1
  <2>5. c.collection = t[1] /\ c.args = Tail(t)
    BY DEF CommandOf, Design!SwCommand, t
  <2>6. 1..(n - 1) = 1..5
    BY DEF n
  <2>. QED  BY <2>1, <2>4, <2>5, <2>6
<1>8. ASSUME NEW i \in 1..5
      PROVE  (Bitmap(args) \div 2^(i - 1)) % 2 = 1 <=> args[i].size # 0
  <2>. DEFINE b == [k \in 1..5 |-> IF args[k].size # 0 THEN 1 ELSE 0]
  <2>1. b \in [1..5 -> {0, 1}]
    OBVIOUS
  <2>2. Bitmap(args) = b[1] + 2 * b[2] + 4 * b[3] + 8 * b[4] + 16 * b[5]
    <3>1. \A k \in 1..5 : b[k] = IF args[k].size # 0 THEN 1 ELSE 0
      OBVIOUS
    <3>. HIDE DEF b
    <3>2. /\ BitOf(args, 1, 0) = b[1] /\ BitOf(args, 2, 1) = 2 * b[2]
          /\ BitOf(args, 3, 2) = 4 * b[3] /\ BitOf(args, 4, 3) = 8 * b[4]
          /\ BitOf(args, 5, 4) = 16 * b[5]
      BY <3>1, Powers DEF BitOf
    <3>. QED  BY <2>1, <3>2 DEF Bitmap
  <2>3. b[i] = 1 <=> args[i].size # 0
    OBVIOUS
  <2>. HIDE DEF b
  <2>4. (Bitmap(args) \div 2^(i - 1)) % 2 = b[i]
    <3>1. i \in {1, 2, 3, 4, 5}
      OBVIOUS
    <3>2. 2^(1 - 1) = 1 /\ 2^(2 - 1) = 2 /\ 2^(3 - 1) = 4 /\ 2^(4 - 1) = 8 /\ 2^(5 - 1) = 16
      BY Powers
    <3>3. /\ (Bitmap(args) \div 1) % 2 = b[1] /\ (Bitmap(args) \div 2) % 2 = b[2]
          /\ (Bitmap(args) \div 4) % 2 = b[3] /\ (Bitmap(args) \div 8) % 2 = b[4]
          /\ (Bitmap(args) \div 16) % 2 = b[5]
      BY <2>1, <2>2, BitmapBits
    <3>. QED  BY <3>1, <3>2, <3>3
  <2>. QED  BY <2>3, <2>4
<1>9. CommandMade(c) = [given |-> {i \in 1..5 : (Bitmap(args) \div 2^(i - 1)) % 2 = 1},
                        bytes |-> [i \in 1..5 |-> Arg(args, i)]]
  BY <1>5, <1>6, <1>7 DEF CommandMade
<1>10. {i \in 1..5 : (Bitmap(args) \div 2^(i - 1)) % 2 = 1} = {i \in 1..5 : args[i].size # 0}
  BY <1>8
<1>11. [i \in 1..5 |-> Arg(args, i)]
         = [i \in 1..5 |-> IF args[i].size # 0 THEN args[i].bytes ELSE 0]
  BY DEF Arg
<1>. QED  BY <1>9, <1>10, <1>11 DEF Asked
-----------------------------------------------------------------------------
LEMMA Depths ==
  /\ TxDepth \in Nat /\ StreamDepth \in Nat /\ NotifDepth \in Nat /\ InDepth \in Nat
BY DriverAssumption, HostAssumption

LEMMA ParsedType == ASSUME ProcessTypes PROVE Parsed \in 0..5
<1>1. \A state \in DOMAIN WordsRead : WordsRead[state] \in 0..5
  BY DEF WordsRead
<1>. QED  BY <1>1 DEF Parsed, ProcessTypes

(* At the start nothing is on its way. *)
LEMMA HostInitInv == Init => HostInv
<1>. SUFFICES ASSUME Init
              PROVE  HostInv
  OBVIOUS
<1>1. /\ requested = <<>> /\ c2a_stream = <<>> /\ call = [s \in Senders |-> NoCall]
      /\ result = "none" /\ delivered = 0 /\ user_dma_channel_data_in = <<>>
      /\ config_to_notifs = <<>> /\ decisions_outputs = [i \in {3} |-> <<>>]
      /\ notifs = {} /\ isExitRequested = FALSE
      /\ instrument_read_bus = [i \in {0, 1} |-> <<>>] /\ client = 0 /\ config_at = "word"
      /\ current_state = "IDLE"
      /\ current_dma_message_read = [word1 |-> 0, word2 |-> 0, word3 |-> 0]
      /\ current_software_trigger_message_read = [i \in 1..6 |-> 0]
      /\ values = [i \in Instruments |-> Design!NoConf]
  BY DEF Init, LocalInit, Design!LocalInit
<1>2. HostTypes
  <2>1. \A W, d : d \in Nat => IsStream(<<>>, W, d)
    BY DEF IsStream
  <2>2. IsBus(decisions_outputs, {3}, {CommandOf(m) : m \in TriggerRequests}, StreamDepth)
    BY <1>1, Depths DEF IsBus
  <2>3. requested \in Seq(Sendable) /\ call \in [Senders -> {NoCall} \cup Sendable]
    BY <1>1
  <2>4. /\ IsStream(c2a_stream, Sendable, TxDepth)
        /\ IsStream(user_dma_channel_data_in, HostWord, InDepth)
        /\ IsStream(config_to_notifs, {AckOf(m) : m \in ConfigurationRequests}, NotifDepth)
    BY <1>1, <2>1, Depths
  <2>. QED  BY <1>1, <2>2, <2>3, <2>4 DEF HostTypes
<1>3. ProcessTypes
  BY <1>1 DEF ProcessTypes, Stored, WordsRead
<1>4. Parsed = 0 /\ Place = <<1, 1>>
  BY <1>1 DEF Parsed, WordsRead, Place
<1>5. LastRequested
  BY <1>1 DEF LastRequested
<1>6. WordsInPlace
  <2>. DEFINE p == [k \in 1..1 |-> <<1, 1>>]
  <2>1. Len(user_dma_channel_data_in) = 0
    BY <1>1
  <2>2. p \in [1..(Len(user_dma_channel_data_in) + 1) -> Nat \X Nat] /\ p[1] = <<1, 1>>
    BY <2>1
  <2>. HIDE DEF p
  <2>3. Spelled(WordsOf, requested, p, user_dma_channel_data_in)
    BY <2>1, <2>2 DEF Spelled
  <2>. QED  BY <1>4, <2>1, <2>2, <2>3 DEF WordsInPlace
<1>7. ReadsOldest
  BY <1>1, <1>4 DEF ReadsOldest
<1>. QED  BY <1>2, <1>3, <1>5, <1>6, <1>7 DEF HostInv

(* What is requested and on its way is as it was if nothing of it changes. *)
LEMMA FlowUnchanged ==
  ASSUME LastRequested, WordsInPlace, ReadsOldest,
         UNCHANGED <<requested, c2a_stream, delivered, user_dma_channel_data_in, config_at,
                     current_state, current_dma_message_read,
                     current_software_trigger_message_read>>
  PROVE  LastRequested' /\ WordsInPlace' /\ ReadsOldest'
<1>1. Parsed' = Parsed /\ Place' = Place
  BY DEF Parsed, Place
<1>2. LastRequested'
  BY DEF LastRequested
<1>3. WordsInPlace'
  BY <1>1 DEF WordsInPlace
<1>4. ReadsOldest'
  BY <1>1 DEF ReadsOldest
<1>. QED  BY <1>2, <1>3, <1>4

(* A call of a sender is of a request it can send. *)
LEMMA CallStep ==
  ASSUME HostInv, NEW s \in Senders, NEW m \in Asks[s], Call(s, m),
         UNCHANGED <<requested, dmaVars, outVars, configVars, notifs>>, isExitRequested' \in BOOLEAN
  PROVE  HostInv'
<1>1. m \in MsgIds
  BY DriverAssumption DEF MsgIds, Senders
<1>2. /\ call' \in [Senders -> {NoCall} \cup Sendable] /\ result' \in {"none", "error"}
      /\ UNCHANGED c2a_stream
  <2>1. CASE Requests[m].kind = "trigger" /\ ~Binds(Requests[m].args)
    BY <2>1 DEF HostInv, HostTypes, Call, Returns
  <2>2. CASE ~(Requests[m].kind = "trigger" /\ ~Binds(Requests[m].args))
    <3>1. m \in Sendable
      BY <1>1, <2>2, DriverAssumption
         DEF Sendable, ConfigurationRequests, TriggerRequests, MsgIds, Binds
    <3>. QED  BY <2>2, <3>1 DEF HostInv, HostTypes, Call
  <2>. QED  BY <2>1, <2>2
<1>3. HostTypes' /\ ProcessTypes'
  BY <1>2 DEF HostInv, HostTypes, ProcessTypes, dmaVars, readVars, outVars, configVars
<1>4. LastRequested' /\ WordsInPlace' /\ ReadsOldest'
  BY <1>2, FlowUnchanged DEF HostInv, dmaVars, configVars
<1>. QED  BY <1>3, <1>4 DEF HostInv

(* A call that ends without sending, and one that sends: the request is    *)
(* the newest of those requested and of those the DMA has.                 *)
LEMMA RefusedStep ==
  ASSUME HostInv, NEW s \in Senders, Returns(s, "error"),
         UNCHANGED <<c2a_stream, requested, dmaVars, outVars, configVars, programVars>>
  PROVE  HostInv'
<1>1. call' \in [Senders -> {NoCall} \cup Sendable] /\ result' \in {"none", "error"}
  BY DEF HostInv, HostTypes, Returns
<1>2. HostTypes' /\ ProcessTypes'
  BY <1>1 DEF HostInv, HostTypes, ProcessTypes, dmaVars, readVars, outVars, configVars, programVars
<1>3. LastRequested' /\ WordsInPlace' /\ ReadsOldest'
  BY FlowUnchanged DEF HostInv, dmaVars, configVars
<1>. QED  BY <1>2, <1>3 DEF HostInv

LEMMA SendRequests ==
  ASSUME HostInv, NEW s \in Senders, SenderStep(s), Send(s)
  PROVE  /\ call[s] \in Sendable /\ requested' = Append(requested, call[s])
         /\ c2a_stream' = Append(c2a_stream, call[s]) /\ Returns(s, "none")
<1>1. call[s] \in Sendable
  BY DEF HostInv, HostTypes, Send
<1>2. c2a_stream' = Append(c2a_stream, call[s]) /\ c2a_stream \in Seq(Sendable)
  BY DEF HostInv, HostTypes, Send, IsStream
<1>3. c2a_stream' # c2a_stream
  <2>1. Len(c2a_stream') = Len(c2a_stream) + 1 /\ Len(c2a_stream) \in Nat
    BY <1>1, <1>2
  <2>. QED  BY <2>1
<1>. QED  BY <1>1, <1>2, <1>3 DEF SenderStep, Send

LEMMA SendStep ==
  ASSUME HostInv, NEW s \in Senders, SenderStep(s), Send(s)
  PROVE  HostInv'
<1>. DEFINE m == call[s]
<1>1. /\ m \in Sendable /\ requested' = Append(requested, m) /\ c2a_stream' = Append(c2a_stream, m)
      /\ call' = [call EXCEPT ![s] = NoCall] /\ result' = "none"
      /\ CanWrite(c2a_stream, TxDepth)
      /\ UNCHANGED <<delivered, user_dma_channel_data_in, instrument_read_bus,
                     config_to_notifs, decisions_outputs, current_state,
                     current_dma_message_read, current_software_trigger_message_read, values,
                     config_at, client, notifs, isExitRequested>>
  BY SendRequests DEF Send, SenderStep, Returns, dmaVars, readVars, outVars, configVars, programVars
<1>2. requested \in Seq(Sendable) /\ c2a_stream \in Seq(Sendable)
  BY DEF HostInv, HostTypes, IsStream
<1>. HIDE DEF m
<1>3. /\ Len(requested') = Len(requested) + 1 /\ Len(requested) \in Nat
      /\ \A k \in 1..Len(requested) : requested'[k] = requested[k]
      /\ requested'[Len(requested) + 1] = m /\ requested' \in Seq(Sendable)
  BY <1>1, <1>2
<1>4. /\ Len(c2a_stream') = Len(c2a_stream) + 1 /\ Len(c2a_stream) \in Nat
      /\ \A k \in 1..Len(c2a_stream) : c2a_stream'[k] = c2a_stream[k]
      /\ c2a_stream'[Len(c2a_stream) + 1] = m
  BY <1>1, <1>2
<1>5. HostTypes' /\ ProcessTypes'
  <2>1. IsStream(c2a_stream', Sendable, TxDepth)
    BY <1>1, WriteStream, Depths DEF HostInv, HostTypes
  <2>2. call' \in [Senders -> {NoCall} \cup Sendable]
    BY <1>1 DEF HostInv, HostTypes
  <2>. QED  BY <1>1, <1>3, <2>1, <2>2 DEF HostInv, HostTypes, ProcessTypes
<1>6. LastRequested'
  <2>1. Len(c2a_stream) =< Len(requested)
    BY DEF HostInv, LastRequested
  <2>2. ASSUME NEW k \in 1..Len(c2a_stream')
        PROVE  c2a_stream'[k] = requested'[Len(requested') - Len(c2a_stream') + k]
    <3>1. CASE k = Len(c2a_stream) + 1
      <4>1. Len(requested') - Len(c2a_stream') + k = Len(requested) + 1
        BY <1>3, <1>4, <3>1
      <4>. QED  BY <1>3, <1>4, <3>1, <4>1
    <3>2. CASE k # Len(c2a_stream) + 1
      <4>1. k \in 1..Len(c2a_stream)
        BY <1>4, <3>2
      <4>2. /\ Len(requested') - Len(c2a_stream') + k = Len(requested) - Len(c2a_stream) + k
            /\ Len(requested) - Len(c2a_stream) + k \in 1..Len(requested)
        BY <1>3, <1>4, <2>1, <4>1
      <4>3. c2a_stream[k] = requested[Len(requested) - Len(c2a_stream) + k]
        BY <4>1 DEF HostInv, LastRequested
      <4>. QED  BY <1>3, <1>4, <4>1, <4>2, <4>3
    <3>. QED  BY <3>1, <3>2
  <2>3. delivered # 0 => c2a_stream' # <<>> /\ Head(c2a_stream') = Head(c2a_stream)
    <3>1. ASSUME delivered # 0
          PROVE  c2a_stream' # <<>> /\ Head(c2a_stream') = Head(c2a_stream)
      <4>1. c2a_stream # <<>>
        BY <3>1 DEF HostInv, LastRequested
      <4>2. Head(c2a_stream) = c2a_stream[1] /\ 1 \in 1..Len(c2a_stream)
        BY <1>2, <4>1
      <4>3. c2a_stream' # <<>> /\ Head(c2a_stream') = c2a_stream'[1]
        BY <1>1, <1>2
      <4>. QED  BY <1>4, <4>2, <4>3
    <3>. QED  BY <3>1
  <2>4. Len(c2a_stream') =< Len(requested')
    BY <1>3, <1>4, <2>1
  <2>. QED  BY <1>1, <2>2, <2>3, <2>4 DEF HostInv, LastRequested
<1>7. Parsed' = Parsed /\ Place' = Place
  BY <1>1, <1>3, <1>4 DEF Parsed, Place
<1>8. WordsInPlace'
  <2>1. PICK p : /\ Spelled(WordsOf, requested, p, user_dma_channel_data_in)
                 /\ p[1] = <<1, Parsed + 1>> /\ p[Len(user_dma_channel_data_in) + 1] = Place
    BY DEF HostInv, WordsInPlace
  <2>2. Spelled(WordsOf, requested', p, user_dma_channel_data_in)
    BY <1>1, <1>2, <2>1, SpelledJoin
  <2>. QED  BY <1>1, <1>7, <2>1, <2>2 DEF WordsInPlace
<1>9. ReadsOldest'
  <2>1. Parsed # 0 => requested' # <<>> /\ Head(requested') = Head(requested)
    <3>1. ASSUME Parsed # 0
          PROVE  requested' # <<>> /\ Head(requested') = Head(requested)
      <4>1. requested # <<>>
        BY <3>1 DEF HostInv, ReadsOldest
      <4>2. Head(requested) = requested[1] /\ 1 \in 1..Len(requested)
        BY <1>2, <4>1
      <4>3. requested' # <<>> /\ Head(requested') = requested'[1]
        BY <1>1, <1>2
      <4>. QED  BY <1>3, <4>2, <4>3
    <3>. QED  BY <3>1
  <2>. QED  BY <1>1, <1>7, <2>1 DEF HostInv, ReadsOldest
<1>. QED  BY <1>5, <1>6, <1>8, <1>9 DEF HostInv
-----------------------------------------------------------------------------
(* The word the DMA gives is the next one of the oldest message it has,    *)
(* and its place is the one that follows those of the words in the channel.*)
LEMMA DeliverStep ==
  ASSUME HostInv, DmaDelivers
  PROVE  HostInv'
<1>. DEFINE m == Head(c2a_stream)
            place == Place
            w == WordsOf[m][delivered + 1]
            n == Len(requested)
            l == Len(c2a_stream)
<1>1. /\ c2a_stream # <<>> /\ CanWrite(user_dma_channel_data_in, InDepth)
      /\ user_dma_channel_data_in' = Append(user_dma_channel_data_in, w)
      /\ IF w.last THEN delivered' = 0 /\ c2a_stream' = Tail(c2a_stream)
                   ELSE delivered' = delivered + 1 /\ c2a_stream' = c2a_stream
      /\ UNCHANGED <<call, result, requested, instrument_read_bus, config_to_notifs,
                     decisions_outputs, current_state, current_dma_message_read,
                     current_software_trigger_message_read, values, config_at, client,
                     notifs, isExitRequested>>
  BY DEF DmaDelivers, readVars, outVars, configVars, programVars
<1>2. requested \in Seq(Sendable) /\ c2a_stream \in Seq(Sendable) /\ delivered \in Nat
      /\ user_dma_channel_data_in \in Seq(HostWord)
  BY DEF HostInv, HostTypes, IsStream
<1>3. /\ l \in Nat /\ l >= 1 /\ n \in Nat /\ l =< n /\ m = c2a_stream[1] /\ m \in Sendable
  BY <1>1, <1>2 DEF HostInv, LastRequested
<1>4. place = <<n - l + 1, delivered + 1>>
  BY DEF Place
<1>5. n - l + 1 \in 1..n /\ requested[n - l + 1] = m
  <2>1. 1 \in 1..l
    BY <1>3
  <2>. QED  BY <1>3, <2>1 DEF HostInv, LastRequested
<1>6. /\ Len(WordsOf[m]) \in {3, 6} /\ delivered + 1 \in 1..Len(WordsOf[m])
      /\ w \in HostWord /\ (w.last <=> delivered + 1 = Len(WordsOf[m]))
  <2>1. Len(WordsOf[m]) \in {3, 6}
    BY <1>3, WordsOfRequest
  <2>2. delivered # 0 => delivered < Len(WordsOf[m])
    BY DEF HostInv, LastRequested
  <2>3. delivered + 1 \in 1..Len(WordsOf[m])
    <3>1. PICK count \in {3, 6} : count = Len(WordsOf[m])
      BY <2>1
    <3>2. delivered # 0 => delivered < count
      BY <2>2, <3>1
    <3>3. delivered + 1 \in 1..count
      BY <1>2, <3>2
    <3>. QED  BY <3>1, <3>3
  <2>. QED  BY <1>3, <2>1, <2>3, WordsOfRequest
<1>. HIDE DEF m, place, w
<1>7. /\ IsStream(user_dma_channel_data_in', HostWord, InDepth)
      /\ Len(user_dma_channel_data_in') = Len(user_dma_channel_data_in) + 1
  BY <1>1, <1>6, WriteStream, Depths DEF HostInv, HostTypes
<1>8. /\ IsStream(c2a_stream', Sendable, TxDepth) /\ delivered' \in Nat
      /\ w.last => Len(c2a_stream') = l - 1 /\ \A k \in 1..(l - 1) : c2a_stream'[k] = c2a_stream[k + 1]
  <2>1. CASE w.last
    <3>1. c2a_stream' = Tail(c2a_stream) /\ delivered' = 0
      BY <1>1, <2>1
    <3>. QED  BY <1>1, <3>1, ReadStream, Depths DEF HostInv, HostTypes
  <2>2. CASE ~w.last
    <3>1. c2a_stream' = c2a_stream /\ delivered' = delivered + 1
      BY <1>1, <2>2
    <3>. QED  BY <1>2, <2>2, <3>1 DEF HostInv, HostTypes
  <2>. QED  BY <2>1, <2>2
<1>9. HostTypes' /\ ProcessTypes'
  BY <1>1, <1>7, <1>8 DEF HostInv, HostTypes, ProcessTypes
<1>10. LastRequested'
  <2>1. CASE w.last
    <3>1. c2a_stream' = Tail(c2a_stream) /\ delivered' = 0
      BY <1>1, <2>1
    <3>2. ASSUME NEW k \in 1..(l - 1)
          PROVE  c2a_stream'[k] = requested'[Len(requested') - Len(c2a_stream') + k]
      <4>1. k + 1 \in 1..l /\ n - l + (k + 1) = n - (l - 1) + k
        BY <1>3
      <4>2. c2a_stream[k + 1] = requested[n - l + (k + 1)]
        BY <4>1 DEF HostInv, LastRequested
      <4>. QED  BY <1>1, <1>8, <2>1, <4>1, <4>2
    <3>3. Len(c2a_stream') = l - 1 /\ l - 1 =< n
      BY <1>3, <1>8, <2>1
    <3>. QED  BY <1>1, <3>1, <3>2, <3>3 DEF LastRequested
  <2>2. CASE ~w.last
    <3>1. c2a_stream' = c2a_stream /\ delivered' = delivered + 1
      BY <1>1, <2>2
    <3>2. delivered + 1 < Len(WordsOf[m])
      BY <1>2, <1>6, <2>2
    <3>. QED  BY <1>1, <3>1, <3>2 DEF HostInv, LastRequested, m
  <2>. QED  BY <2>1, <2>2
<1>11. Parsed' = Parsed
  BY <1>1 DEF Parsed
<1>12. Place' = After(WordsOf, requested, place)
  <2>1. After(WordsOf, requested, place)
          = IF delivered + 1 = Len(WordsOf[m]) THEN <<(n - l + 1) + 1, 1>>
                                               ELSE <<n - l + 1, (delivered + 1) + 1>>
    BY <1>4, <1>5 DEF After
  <2>2. CASE w.last
    <3>1. Place' = <<n - (l - 1) + 1, 0 + 1>>
      BY <1>1, <1>8, <2>2 DEF Place
    <3>2. n - (l - 1) + 1 = (n - l + 1) + 1 /\ 0 + 1 = 1
      BY <1>3
    <3>. QED  BY <1>6, <2>1, <2>2, <3>1, <3>2
  <2>3. CASE ~w.last
    <3>1. Place' = <<n - l + 1, (delivered + 1) + 1>>
      BY <1>1, <2>3 DEF Place
    <3>. QED  BY <1>6, <2>1, <2>3, <3>1
  <2>. QED  BY <2>2, <2>3
<1>13. WordsInPlace'
  <2>1. PICK p : /\ Spelled(WordsOf, requested, p, user_dma_channel_data_in)
                 /\ p[1] = <<1, Parsed + 1>> /\ p[Len(user_dma_channel_data_in) + 1] = place
    BY DEF HostInv, WordsInPlace, place
  <2>2. /\ Len(requested) \in Nat /\ user_dma_channel_data_in \in Seq(HostWord) /\ w \in HostWord
        /\ Spelled(WordsOf, requested, p, user_dma_channel_data_in)
        /\ place = p[Len(user_dma_channel_data_in) + 1] /\ place[1] \in 1..Len(requested)
        /\ place[2] \in 1..Len(WordsOf[requested[place[1]]])
        /\ w = WordsOf[requested[place[1]]][place[2]]
    <3>1. w = WordsOf[m][delivered + 1]
      BY DEF w
    <3>. QED  BY <1>2, <1>3, <1>4, <1>5, <1>6, <2>1, <3>1
  <2>3. PICK q : /\ Spelled(WordsOf, requested, q, Append(user_dma_channel_data_in, w))
                 /\ q[1] = p[1]
                 /\ q[Len(user_dma_channel_data_in) + 2] = After(WordsOf, requested, place)
    BY <2>2, SpelledWrite, SMTT(30)
  <2>4. Len(user_dma_channel_data_in') + 1 = Len(user_dma_channel_data_in) + 2
    BY <1>2, <1>7
  <2>. QED  BY <1>1, <1>11, <1>12, <2>1, <2>3, <2>4 DEF WordsInPlace
<1>14. ReadsOldest'
  BY <1>1, <1>11 DEF HostInv, ReadsOldest
<1>. QED  BY <1>9, <1>10, <1>13, <1>14 DEF HostInv
-----------------------------------------------------------------------------
(* The word the process takes is the one after those it has read, of the   *)
(* oldest request.                                                         *)
LEMMA WordTaken ==
  ASSUME HostInv, Design!TakeWord
  PROVE  /\ requested \in Seq(Sendable) /\ requested # <<>> /\ Len(requested) \in Nat
         /\ Head(requested) = requested[1] /\ Head(requested) \in Sendable
         /\ Parsed + 1 \in 1..Len(WordsOf[Head(requested)])
         /\ Design!WordIn = WordsOf[Head(requested)][Parsed + 1]
         /\ Design!WordIn.msg = Head(requested)
         /\ Design!WordIn.last <=> Parsed + 1 = Len(WordsOf[Head(requested)])
         /\ IsStream(user_dma_channel_data_in', HostWord, InDepth)
         /\ Parsed = WordsRead[current_state]
<1>1. /\ config_at = "word" /\ user_dma_channel_data_in # <<>>
      /\ user_dma_channel_data_in' = Tail(user_dma_channel_data_in)
      /\ IsStream(user_dma_channel_data_in, HostWord, InDepth) /\ requested \in Seq(Sendable)
  BY DEF Design!TakeWord, HostInv, HostTypes
<1>2. /\ IsStream(user_dma_channel_data_in', HostWord, InDepth)
      /\ Head(user_dma_channel_data_in) = user_dma_channel_data_in[1]
      /\ Len(user_dma_channel_data_in) > 0 /\ Len(user_dma_channel_data_in) \in Nat
  BY <1>1, ReadStream, Depths DEF IsStream
<1>3. PICK p : Spelled(WordsOf, requested, p, user_dma_channel_data_in) /\ p[1] = <<1, Parsed + 1>>
  BY DEF HostInv, WordsInPlace
<1>4. 1 \in 1..Len(user_dma_channel_data_in)
  BY <1>2
<1>5. /\ p[1][1] \in 1..Len(requested) /\ p[1][2] \in 1..Len(WordsOf[requested[p[1][1]]])
      /\ user_dma_channel_data_in[1] = WordsOf[requested[p[1][1]]][p[1][2]]
  BY <1>3, <1>4 DEF Spelled
<1>6. /\ 1 \in 1..Len(requested) /\ Parsed + 1 \in 1..Len(WordsOf[requested[1]])
      /\ user_dma_channel_data_in[1] = WordsOf[requested[1]][Parsed + 1]
  BY <1>3, <1>5
<1>7. requested # <<>> /\ Head(requested) = requested[1] /\ requested[1] \in Sendable
      /\ Len(requested) \in Nat
  BY <1>1, <1>6
<1>8. /\ Design!WordIn = WordsOf[requested[1]][Parsed + 1]
      /\ Design!WordIn.msg = requested[1]
      /\ Design!WordIn.last <=> Parsed + 1 = Len(WordsOf[requested[1]])
  <2>1. Design!WordIn = WordsOf[requested[1]][Parsed + 1]
    BY <1>2, <1>6 DEF Design!WordIn
  <2>. QED  BY <1>6, <1>7, <2>1, WordsOfRequest
<1>9. Parsed = WordsRead[current_state]
  BY <1>1 DEF Parsed
<1>. QED  BY <1>1, <1>2, <1>6, <1>7, <1>8, <1>9

(* A word that is not the last of its request leaves the requests as they  *)
(* are.                                                                    *)
LEMMA ReadOn ==
  ASSUME HostInv, Design!TakeWord, ~Design!WordIn.last, Parsed' = Parsed + 1,
         UNCHANGED <<requested, c2a_stream, delivered>>
  PROVE  LastRequested' /\ WordsInPlace'
<1>. DEFINE s == user_dma_channel_data_in
            m == requested[1]
<1>1. /\ Parsed + 1 \in 1..Len(WordsOf[m]) /\ Parsed + 1 # Len(WordsOf[m])
      /\ s # <<>> /\ s' = Tail(s) /\ s \in Seq(HostWord)
  BY WordTaken DEF Design!TakeWord, HostInv, HostTypes, IsStream
<1>2. LastRequested'
  BY DEF HostInv, LastRequested
<1>3. PICK p : Spelled(WordsOf, requested, p, s) /\ p[1] = <<1, Parsed + 1>> /\ p[Len(s) + 1] = Place
  BY DEF HostInv, WordsInPlace
<1>. DEFINE q == [k \in 1..Len(s) |-> p[k + 1]]
<1>4. Spelled(WordsOf, requested, q, Tail(s))
  BY <1>1, <1>3, SpelledRead
<1>5. Len(s) \in Nat /\ Len(s) >= 1 /\ Len(Tail(s)) = Len(s) - 1
  BY <1>1
<1>6. q[1] = p[1 + 1] /\ q[Len(s)] = p[Len(s) + 1]
  BY <1>5
<1>7. p[1 + 1] = <<1, (Parsed + 1) + 1>>
  <2>1. 1 \in 1..Len(s)
    BY <1>5
  <2>2. p[1 + 1] = After(WordsOf, requested, p[1])
    BY <1>3, <2>1 DEF Spelled
  <2>. QED  BY <1>1, <1>3, <2>2 DEF After
<1>. HIDE DEF q
<1>8. Place' = Place
  BY DEF Place
<1>9. Len(s') + 1 = Len(s)
  BY <1>1, <1>5
<1>10. q[Len(s') + 1] = Place' /\ q[1] = <<1, Parsed' + 1>>
  BY <1>3, <1>6, <1>7, <1>8, <1>9
<1>. QED  BY <1>1, <1>2, <1>4, <1>10 DEF WordsInPlace

(* The last word of a request makes the next one the oldest.               *)
LEMMA ReadEnd ==
  ASSUME HostInv, Design!TakeWord, Design!WordIn.last, requested' = Tail(requested), Parsed' = 0,
         UNCHANGED <<c2a_stream, delivered>>
  PROVE  LastRequested' /\ WordsInPlace' /\ requested' \in Seq(Sendable)
<1>. DEFINE s == user_dma_channel_data_in
            m == requested[1]
            n == Len(requested)
            l == Len(c2a_stream)
<1>1. /\ Parsed + 1 \in 1..Len(WordsOf[m]) /\ Parsed + 1 = Len(WordsOf[m])
      /\ s # <<>> /\ s' = Tail(s) /\ s \in Seq(HostWord)
      /\ requested \in Seq(Sendable) /\ requested # <<>> /\ c2a_stream \in Seq(Sendable)
  BY WordTaken DEF Design!TakeWord, HostInv, HostTypes, IsStream
<1>2. /\ n \in Nat /\ n >= 1 /\ Len(requested') = n - 1 /\ requested' \in Seq(Sendable)
      /\ \A k \in 1..(n - 1) : requested'[k] = requested[k + 1]
      /\ l \in Nat /\ l =< n
  BY <1>1 DEF HostInv, LastRequested
<1>3. PICK p : Spelled(WordsOf, requested, p, s) /\ p[1] = <<1, Parsed + 1>> /\ p[Len(s) + 1] = Place
  BY DEF HostInv, WordsInPlace
<1>4. /\ Len(s) \in Nat /\ Len(s) >= 1 /\ Len(Tail(s)) = Len(s) - 1
      /\ Tail(s) \in Seq(HostWord)
  BY <1>1
<1>5. p[1 + 1] = <<1 + 1, 1>>
  <2>1. 1 \in 1..Len(s)
    BY <1>4
  <2>2. p[1 + 1] = After(WordsOf, requested, p[1])
    BY <1>3, <2>1 DEF Spelled
  <2>. QED  BY <1>1, <1>3, <2>2 DEF After
<1>6. n - l + 1 >= 2
  <2>1. 2 \in 1..(Len(s) + 1) /\ Len(s) + 1 \in 1..(Len(s) + 1) /\ 2 =< Len(s) + 1
    BY <1>4
  <2>2. p[2][1] =< p[Len(s) + 1][1]
    BY <1>3, <2>1 DEF Spelled
  <2>3. p[2][1] = 2 /\ p[Len(s) + 1][1] = n - l + 1
    BY <1>3, <1>5 DEF Place
  <2>. QED  BY <2>2, <2>3
<1>7. LastRequested'
  <2>1. ASSUME NEW k \in 1..l
        PROVE  c2a_stream'[k] = requested'[Len(requested') - Len(c2a_stream') + k]
    <3>1. c2a_stream[k] = requested[n - l + k]
      BY DEF HostInv, LastRequested
    <3>2. /\ n - l + k - 1 \in 1..(n - 1) /\ (n - l + k - 1) + 1 = n - l + k
          /\ (n - 1) - l + k = n - l + k - 1
      BY <1>2, <1>6
    <3>3. requested'[n - l + k - 1] = requested[n - l + k]
      BY <1>2, <3>2
    <3>. QED  BY <1>2, <3>1, <3>2, <3>3
  <2>2. Len(c2a_stream') =< Len(requested')
    BY <1>2, <1>6
  <2>. QED  BY <2>1, <2>2 DEF HostInv, LastRequested
<1>. DEFINE q == [k \in 1..Len(s) |-> p[k + 1]]
            r == [k \in 1..(Len(Tail(s)) + 1) |-> <<q[k][1] - 1, q[k][2]>>]
<1>8. Spelled(WordsOf, requested, q, Tail(s))
  BY <1>1, <1>3, SpelledRead
<1>9. q[1] = <<2, 1>> /\ q[Len(s)] = Place
  BY <1>3, <1>4, <1>5
<1>. HIDE DEF q
<1>10. Spelled(WordsOf, Tail(requested), r, Tail(s))
  <2>1. q[1][1] = 2
    BY <1>9
  <2>. QED  BY <1>1, <1>4, <1>8, <2>1, SpelledDone
<1>11. r[1] = <<2 - 1, 1>> /\ r[Len(s)] = <<Place[1] - 1, Place[2]>>
  BY <1>4, <1>9
<1>. HIDE DEF r
<1>12. Place' = <<Place[1] - 1, Place[2]>>
  BY <1>2 DEF Place
<1>13. r[Len(s') + 1] = Place' /\ r[1] = <<1, Parsed' + 1>>
  <2>1. Len(s') + 1 = Len(s)
    BY <1>1, <1>4
  <2>. QED  BY <1>11, <1>12, <2>1
<1>14. WordsInPlace'
  BY <1>1, <1>10, <1>13 DEF WordsInPlace
<1>. QED  BY <1>2, <1>7, <1>14
-----------------------------------------------------------------------------
(* What a step of the process leaves alone; a word that it takes ends a    *)
(* request if it is the last of it.                                        *)
LEMMA DesignRest ==
  ASSUME HostInv, DesignStep
  PROVE  /\ UNCHANGED <<c2a_stream, call, result, delivered, notifs, isExitRequested, told>>
         /\ Design!TakeWord =>
              requested' = IF Design!WordIn.last THEN Tail(requested) ELSE requested
         /\ user_dma_channel_data_in' = user_dma_channel_data_in => requested' = requested
<1>1. UNCHANGED <<c2a_stream, call, result, delivered, notifs, isExitRequested, told>>
  BY DEF DesignStep, driverVars, programVars
<1>2. requested' = IF user_dma_channel_data_in' # user_dma_channel_data_in
                        /\ Head(user_dma_channel_data_in).last
                   THEN Tail(requested) ELSE requested
  BY DEF DesignStep
<1>3. ASSUME Design!TakeWord
      PROVE  user_dma_channel_data_in' # user_dma_channel_data_in
  <2>1. /\ user_dma_channel_data_in \in Seq(HostWord) /\ user_dma_channel_data_in # <<>>
        /\ user_dma_channel_data_in' = Tail(user_dma_channel_data_in)
    BY <1>3 DEF Design!TakeWord, HostInv, HostTypes, IsStream
  <2>2. /\ Len(Tail(user_dma_channel_data_in)) = Len(user_dma_channel_data_in) - 1
        /\ Len(user_dma_channel_data_in) \in Nat
    BY <2>1
  <2>3. Tail(user_dma_channel_data_in) # user_dma_channel_data_in
    BY <2>2
  <2>. QED  BY <2>1, <2>3
<1>. QED  BY <1>1, <1>2, <1>3 DEF Design!WordIn

(* The first word of a request says of which kind it is. *)
LEMMA HeaderStep ==
  ASSUME HostInv, DesignStep, Design!ReadHeader
  PROVE  HostInv'
<1>. DEFINE m == Head(requested)
<1>1. Design!TakeWord /\ current_state = "IDLE" /\ config_at = "word" /\ Parsed = 0
  BY WordTaken DEF Design!ReadHeader, Design!TakeWord, WordsRead
<1>2. /\ m \in Sendable /\ requested # <<>> /\ requested \in Seq(Sendable)
      /\ Design!WordIn = WordsOf[m][1] /\ Design!WordIn.msg = m
      /\ Design!WordIn.last <=> 1 = Len(WordsOf[m])
      /\ IsStream(user_dma_channel_data_in', HostWord, InDepth)
  BY <1>1, WordTaken
<1>3. /\ ~Design!WordIn.last
      /\ Design!WordIn.reads_as =
           IF m \in ConfigurationRequests THEN "configuration" ELSE "software_trigger"
  BY <1>2, WordsOfRequest
<1>4. /\ requested' = requested
      /\ UNCHANGED <<c2a_stream, call, result, delivered, notifs, isExitRequested>>
  BY <1>1, <1>3, DesignRest
<1>5. /\ client' = 0 /\ config_at' = "word" /\ values' = values
      /\ UNCHANGED <<instrument_read_bus, config_to_notifs, decisions_outputs>>
      /\ current_dma_message_read' = [current_dma_message_read EXCEPT !.word1 = m]
  BY <1>1, <1>2 DEF Design!ReadHeader, Design!TakeWord
<1>6. IF m \in ConfigurationRequests
      THEN /\ current_state' = "READ_CONF_WORD2"
           /\ UNCHANGED current_software_trigger_message_read
      ELSE /\ current_state' = "READ_SW_TRIG_ARG1"
           /\ current_software_trigger_message_read' =
                [current_software_trigger_message_read EXCEPT ![1] = m]
  BY <1>2, <1>3 DEF Design!ReadHeader, Design!ArgStates
<1>7. m \in MsgIds /\ (m \notin ConfigurationRequests => m \in TriggerRequests)
  BY <1>2, RequestKinds DEF Sendable
<1>. HIDE DEF m
<1>8. Parsed' = 1 /\ Parsed' = Parsed + 1
  BY <1>1, <1>5, <1>6 DEF Parsed, WordsRead
<1>9. LastRequested' /\ WordsInPlace'
  BY <1>1, <1>3, <1>4, <1>8, ReadOn
<1>10. HostTypes'
  BY <1>2, <1>4, <1>5 DEF HostInv, HostTypes
<1>11. ProcessTypes'
  <2>1. current_dma_message_read' \in
          [word1: MsgIds \cup {0}, word2: MsgIds \cup {0}, word3: MsgIds \cup {0}]
    BY <1>5, <1>7 DEF HostInv, ProcessTypes
  <2>2. current_software_trigger_message_read' \in [1..6 -> MsgIds \cup {0}]
    BY <1>6, <1>7 DEF HostInv, ProcessTypes
  <2>. QED  BY <1>5, <1>6, <2>1, <2>2 DEF HostInv, ProcessTypes, WordsRead
<1>12. ReadsOldest'
  <2>1. Head(requested') = m /\ requested' # <<>>
    BY <1>2, <1>4 DEF m
  <2>2. current_dma_message_read'.word1 = m
    BY <1>5 DEF HostInv, ProcessTypes
  <2>3. m \notin ConfigurationRequests => current_software_trigger_message_read'[1] = m
    BY <1>6 DEF HostInv, ProcessTypes
  <2>4. \A k \in 1..Parsed' : k = 1
    BY <1>8
  <2>. QED  BY <1>5, <1>6, <1>7, <1>8, <2>1, <2>2, <2>3, <2>4 DEF ReadsOldest
<1>. QED  BY <1>9, <1>10, <1>11, <1>12 DEF HostInv

LEMMA Word2Step ==
  ASSUME HostInv, DesignStep, Design!ReadConfWord2
  PROVE  HostInv'
<1>. DEFINE m == Head(requested)
<1>1. Design!TakeWord /\ current_state = "READ_CONF_WORD2" /\ config_at = "word" /\ Parsed = 1
  BY WordTaken DEF Design!ReadConfWord2, Design!TakeWord, WordsRead
<1>2. m \in ConfigurationRequests /\ current_dma_message_read.word1 = m
  BY <1>1 DEF HostInv, ReadsOldest
<1>3. /\ m \in Sendable /\ m \in MsgIds /\ requested # <<>> /\ Design!WordIn.msg = m
      /\ ~Design!WordIn.last /\ IsStream(user_dma_channel_data_in', HostWord, InDepth)
  BY <1>1, <1>2, WordTaken, WordsOfRequest, RequestKinds
<1>4. /\ requested' = requested
      /\ UNCHANGED <<c2a_stream, call, result, delivered, notifs, isExitRequested>>
  BY <1>1, <1>3, DesignRest
<1>5. /\ client' = 0 /\ config_at' = "serve" /\ current_state' = "READ_CONF_WORD3"
      /\ UNCHANGED <<instrument_read_bus, config_to_notifs, decisions_outputs, values,
                     current_software_trigger_message_read>>
      /\ current_dma_message_read' = [current_dma_message_read EXCEPT !.word2 = m]
  BY <1>1, <1>3 DEF Design!ReadConfWord2, Design!TakeWord
<1>. HIDE DEF m
<1>6. Parsed' = 2 /\ Parsed' = Parsed + 1
  BY <1>1, <1>5 DEF Parsed, WordsRead
<1>7. LastRequested' /\ WordsInPlace'
  BY <1>1, <1>3, <1>4, <1>6, ReadOn
<1>8. HostTypes'
  BY <1>3, <1>4, <1>5 DEF HostInv, HostTypes
<1>9. ProcessTypes'
  <2>1. current_dma_message_read' \in
          [word1: MsgIds \cup {0}, word2: MsgIds \cup {0}, word3: MsgIds \cup {0}]
    BY <1>3, <1>5 DEF HostInv, ProcessTypes
  <2>. QED  BY <1>5, <2>1 DEF HostInv, ProcessTypes, WordsRead
<1>10. ReadsOldest'
  <2>1. Head(requested') = m /\ requested' # <<>>
    BY <1>3, <1>4 DEF m
  <2>2. current_dma_message_read'.word1 = m /\ current_dma_message_read'.word2 = m
    BY <1>2, <1>5 DEF HostInv, ProcessTypes
  <2>. QED  BY <1>2, <1>5, <1>6, <2>1, <2>2 DEF ReadsOldest
<1>. QED  BY <1>7, <1>8, <1>9, <1>10 DEF HostInv

(* The last word of an update stores what was asked for. *)
LEMMA Word3Effect ==
  ASSUME HostInv, DesignStep, Design!ReadConfWord3
  PROVE  /\ requested # <<>> /\ Head(requested) \in ConfigurationRequests
         /\ requested' = Tail(requested)
         /\ current_dma_message_read' = WholeUpdate(Head(requested))
         /\ values' = [values EXCEPT ![Requests[Head(requested)].fields.instr_id] =
                                       ItemOf(Head(requested))]
         /\ Parsed = 2 /\ config_at = "word" /\ config_at' = "ack" /\ client' = 0
         /\ current_state' = current_state /\ current_state = "READ_CONF_WORD3"
         /\ UNCHANGED <<instrument_read_bus, config_to_notifs, decisions_outputs,
                        current_software_trigger_message_read>>
<1>. DEFINE m == Head(requested)
            d == current_dma_message_read
<1>1. Design!TakeWord /\ current_state = "READ_CONF_WORD3" /\ config_at = "word" /\ Parsed = 2
  BY WordTaken DEF Design!ReadConfWord3, Design!TakeWord, WordsRead
<1>2. m \in ConfigurationRequests /\ d.word1 = m /\ d.word2 = m
  BY <1>1 DEF HostInv, ReadsOldest
<1>3. /\ m \in Sendable /\ requested # <<>> /\ Design!WordIn.msg = m /\ Design!WordIn.last
  <2>1. m \in Sendable
    BY <1>2 DEF Sendable
  <2>2. Len(WordsOf[m]) = 3
    BY <1>2, <2>1, WordsOfRequest
  <2>3. (Design!WordIn.last <=> 2 + 1 = Len(WordsOf[m]))
    BY <1>1, WordTaken
  <2>. QED  BY <1>1, <2>1, <2>2, <2>3, WordTaken
<1>4. requested' = Tail(requested)
  BY <1>1, <1>3, DesignRest
<1>5. d' = [d EXCEPT !.word3 = m]
  BY <1>3 DEF Design!ReadConfWord3
<1>6. d' = WholeUpdate(m)
  BY <1>2, <1>5 DEF HostInv, ProcessTypes, WholeUpdate
<1>7. Design!Convert(current_dma_message_read') = ItemOf(m)
  BY <1>6 DEF ItemOf
<1>8. AsUpdate[m] = Requests[m].fields
  BY <1>2, UpdateRead
<1>9. values' = [values EXCEPT ![AsUpdate[m].instr_id] = Design!Convert(current_dma_message_read')]
  BY <1>3 DEF Design!ReadConfWord3
<1>. QED  BY <1>1, <1>2, <1>3, <1>4, <1>6, <1>7, <1>8, <1>9
             DEF Design!ReadConfWord3, Design!TakeWord

LEMMA Word3Step ==
  ASSUME HostInv, DesignStep, Design!ReadConfWord3
  PROVE  HostInv'
<1>. DEFINE m == Head(requested)
<1>1. /\ Design!TakeWord /\ Design!WordIn.last
      /\ IsStream(user_dma_channel_data_in', HostWord, InDepth)
  <2>1. Design!TakeWord
    BY DEF Design!ReadConfWord3
  <2>2. m \in ConfigurationRequests /\ m \in Sendable /\ Parsed = 2
    BY Word3Effect DEF Sendable
  <2>3. Len(WordsOf[m]) = 3
    BY <2>2, WordsOfRequest
  <2>4. Design!WordIn.last <=> 2 + 1 = Len(WordsOf[m])
    BY <2>1, <2>2, WordTaken
  <2>. QED  BY <2>1, <2>3, <2>4, WordTaken
<1>2. UNCHANGED <<c2a_stream, call, result, delivered, notifs, isExitRequested>>
  BY DesignRest
<1>3. Parsed' = 0
  BY Word3Effect DEF Parsed
<1>4. LastRequested' /\ WordsInPlace' /\ requested' \in Seq(Sendable)
  BY <1>1, <1>2, <1>3, ReadEnd, Word3Effect
<1>5. HostTypes'
  BY <1>1, <1>2, <1>4, Word3Effect DEF HostInv, HostTypes
<1>6. ProcessTypes'
  <2>1. m \in ConfigurationRequests /\ m \in MsgIds
    BY Word3Effect, RequestKinds
  <2>2. current_dma_message_read' \in
          [word1: MsgIds \cup {0}, word2: MsgIds \cup {0}, word3: MsgIds \cup {0}]
    BY <2>1, Word3Effect DEF WholeUpdate
  <2>3. values' \in [Instruments -> Stored]
    <3>1. ItemOf(m) \in Stored
      BY <2>1 DEF Stored
    <3>. QED  BY <3>1, Word3Effect DEF HostInv, ProcessTypes
  <2>. QED  BY <2>2, <2>3, Word3Effect DEF HostInv, ProcessTypes
<1>7. ReadsOldest'
  BY <1>3, Word3Effect DEF ReadsOldest
<1>. QED  BY <1>4, <1>5, <1>6, <1>7 DEF HostInv

LEMMA ArgNumbers ==
  \A i \in 1..5 : /\ Design!ArgStates[i] \in DOMAIN WordsRead
                  /\ WordsRead[Design!ArgStates[i]] = i
                  /\ Design!ArgStates[i] \notin {"READ_CONF_WORD2", "READ_CONF_WORD3"}
BY DEF Design!ArgStates, WordsRead

(* A word of a trigger: the last one makes the command ready.              *)
LEMMA ArgEffect ==
  ASSUME HostInv, DesignStep, Design!ReadSwTrigArg
  PROVE  /\ requested # <<>> /\ Head(requested) \in TriggerRequests
         /\ Parsed \in 1..5 /\ config_at = "word" /\ client' = 0
         /\ Design!TakeWord /\ (Design!WordIn.last <=> Parsed = 5)
         /\ current_software_trigger_message_read' =
              [current_software_trigger_message_read EXCEPT ![Parsed + 1] = Head(requested)]
         /\ \A k \in 1..(Parsed + 1) :
              current_software_trigger_message_read'[k] = Head(requested)
         /\ Parsed < 5 => /\ config_at' = "word" /\ requested' = requested
                          /\ current_state' = Design!ArgStates[Parsed + 1]
         /\ Parsed = 5 => /\ config_at' = "trigger" /\ requested' = Tail(requested)
                          /\ current_state' = current_state
                          /\ current_software_trigger_message_read' =
                               WholeTrigger(Head(requested))
         /\ UNCHANGED <<instrument_read_bus, config_to_notifs, decisions_outputs, values,
                        current_dma_message_read>>
<1>. DEFINE m == Head(requested)
            t == current_software_trigger_message_read
<1>1. PICK i \in 1..5 :
        /\ current_state = Design!ArgStates[i]
        /\ t' = [t EXCEPT ![i + 1] = Design!WordIn.msg]
        /\ IF i < 5 THEN current_state' = Design!ArgStates[i + 1] /\ config_at' = config_at
                    ELSE current_state' = current_state /\ config_at' = "trigger"
  BY DEF Design!ReadSwTrigArg
<1>2. /\ Design!TakeWord /\ config_at = "word" /\ client' = 0
      /\ UNCHANGED <<instrument_read_bus, config_to_notifs, decisions_outputs, values,
                     current_dma_message_read>>
  BY DEF Design!ReadSwTrigArg, Design!TakeWord
<1>3. Parsed = i /\ i # 0
  <2>1. Parsed = WordsRead[current_state]
    BY <1>2, WordTaken
  <2>. QED  BY <1>1, <2>1, ArgNumbers
<1>4. m \in TriggerRequests /\ \A k \in 1..i : t[k] = m
  <2>1. current_state \notin {"READ_CONF_WORD2", "READ_CONF_WORD3"}
    BY <1>1, ArgNumbers
  <2>. QED  BY <1>3, <2>1 DEF HostInv, ReadsOldest
<1>5. m \in Sendable /\ m \notin ConfigurationRequests
  BY <1>4, RequestKinds DEF Sendable
<1>6. Len(WordsOf[m]) = 6
  BY <1>5, WordsOfRequest
<1>7. /\ Design!WordIn.msg = m /\ requested # <<>>
      /\ Design!WordIn.last <=> i + 1 = Len(WordsOf[m])
  BY <1>2, <1>3, WordTaken
<1>8. Design!WordIn.last <=> i = 5
  BY <1>6, <1>7
<1>9. requested' = IF Design!WordIn.last THEN Tail(requested) ELSE requested
  BY <1>2, DesignRest
<1>10. t' = [t EXCEPT ![i + 1] = m] /\ t \in [1..6 -> MsgIds \cup {0}]
  BY <1>1, <1>7 DEF HostInv, ProcessTypes
<1>11. \A k \in 1..(i + 1) : t'[k] = m
  BY <1>4, <1>10
<1>12. i = 5 => t' = WholeTrigger(m)
  <2>1. DOMAIN t' = 1..6 /\ t' = [k \in 1..6 |-> t'[k]]
    BY <1>10
  <2>. QED  BY <1>11, <2>1 DEF WholeTrigger
<1>. HIDE DEF m, t
<1>13. \A k \in 1..(Parsed + 1) : t'[k] = m
  BY <1>3, <1>11
<1>. QED  BY <1>1, <1>2, <1>3, <1>4, <1>7, <1>8, <1>9, <1>10, <1>12, <1>13 DEF m, t

LEMMA ArgStep ==
  ASSUME HostInv, DesignStep, Design!ReadSwTrigArg
  PROVE  HostInv'
<1>. DEFINE m == Head(requested)
            t == current_software_trigger_message_read
<1>1. UNCHANGED <<c2a_stream, call, result, delivered, notifs, isExitRequested>>
  BY DesignRest
<1>2. m \in TriggerRequests /\ m \in MsgIds
  BY ArgEffect, RequestKinds
<1>3. IsStream(user_dma_channel_data_in', HostWord, InDepth)
  BY ArgEffect, WordTaken
<1>4. t' \in [1..6 -> MsgIds \cup {0}]
  BY <1>2, ArgEffect DEF HostInv, ProcessTypes
<1>5. CASE Parsed = 5
  <2>1. Parsed' = 0
    BY <1>5, ArgEffect DEF Parsed
  <2>2. LastRequested' /\ WordsInPlace' /\ requested' \in Seq(Sendable)
    BY <1>1, <1>5, <2>1, ReadEnd, ArgEffect
  <2>3. HostTypes'
    BY <1>1, <1>3, <2>2, ArgEffect DEF HostInv, HostTypes
  <2>4. ProcessTypes'
    BY <1>4, <1>5, ArgEffect DEF HostInv, ProcessTypes
  <2>5. ReadsOldest'
    BY <1>2, <1>5, <2>1, ArgEffect DEF ReadsOldest
  <2>. QED  BY <2>2, <2>3, <2>4, <2>5 DEF HostInv
<1>6. CASE Parsed # 5
  <2>. DEFINE i == Parsed
  <2>1. PICK n \in 1..4 : Parsed = n
    BY <1>6, ArgEffect
  <2>2. /\ config_at' = "word" /\ requested' = requested
        /\ current_state' = Design!ArgStates[n + 1]
        /\ ~Design!WordIn.last /\ Design!TakeWord
    BY <2>1, ArgEffect
  <2>3. n + 1 \in 1..5
    OBVIOUS
  <2>4. /\ current_state' \in DOMAIN WordsRead /\ WordsRead[current_state'] = n + 1
        /\ current_state' \notin {"READ_CONF_WORD2", "READ_CONF_WORD3"}
    BY <2>2, <2>3, ArgNumbers
  <2>5. Parsed' = n + 1
    BY <2>2, <2>4 DEF Parsed
  <2>6. LastRequested' /\ WordsInPlace'
    BY <1>1, <2>1, <2>2, <2>5, ReadOn
  <2>7. HostTypes'
    BY <1>1, <1>3, <2>2, ArgEffect DEF HostInv, HostTypes
  <2>8. ProcessTypes'
    BY <1>4, <2>2, <2>4, ArgEffect DEF HostInv, ProcessTypes
  <2>9. ReadsOldest'
    <3>1. requested' # <<>> /\ Head(requested') = m
      BY <2>2, ArgEffect
    <3>2. \A k \in 1..(n + 1) : t'[k] = m
      BY <2>1, ArgEffect
    <3>3. m \in TriggerRequests /\ \A k \in 1..Parsed' : t'[k] = m
      BY <1>2, <2>5, <3>2
    <3>. HIDE DEF m
    <3>. QED  BY <2>2, <2>4, <3>1, <3>3 DEF ReadsOldest
  <2>. QED  BY <2>6, <2>7, <2>8, <2>9 DEF HostInv
<1>. QED  BY <1>5, <1>6

(* The acknowledgement written is of the update read whole, the command    *)
(* issued of the trigger read whole.                                       *)
LEMMA AckEffect ==
  ASSUME HostInv, DesignStep, Design!WriteAck
  PROVE  /\ \E m \in ConfigurationRequests : Design!Ack(current_dma_message_read) = AckOf(m)
         /\ config_at = "ack" /\ config_at' = "word" /\ current_state' = "IDLE"
         /\ CanWrite(config_to_notifs, NotifDepth)
         /\ config_to_notifs' = Append(config_to_notifs, Design!Ack(current_dma_message_read))
         /\ UNCHANGED <<requested, user_dma_channel_data_in, instrument_read_bus,
                        decisions_outputs, current_dma_message_read,
                        current_software_trigger_message_read, values, client>>
<1>1. config_at = "ack" /\ user_dma_channel_data_in' = user_dma_channel_data_in
  BY DEF Design!WriteAck
<1>2. PICK m \in ConfigurationRequests : current_dma_message_read = WholeUpdate(m)
  BY <1>1 DEF HostInv, ReadsOldest
<1>3. Design!Ack(current_dma_message_read) = AckOf(m)
  BY <1>2 DEF AckOf
<1>4. requested' = requested
  BY <1>1, DesignRest
<1>. QED  BY <1>1, <1>3, <1>4 DEF Design!WriteAck, Design!CanWrite, CanWrite

LEMMA CommandEffect ==
  ASSUME HostInv, DesignStep, Design!IssueTrigger
  PROVE  /\ \E m \in TriggerRequests :
              Design!SwCommand(current_software_trigger_message_read) = CommandOf(m)
         /\ config_at = "trigger" /\ config_at' = "word" /\ current_state' = "IDLE"
         /\ CanWrite(decisions_outputs[3], StreamDepth)
         /\ decisions_outputs' = [decisions_outputs EXCEPT ![3] =
              Append(@, Design!SwCommand(current_software_trigger_message_read))]
         /\ UNCHANGED <<requested, user_dma_channel_data_in, instrument_read_bus,
                        config_to_notifs, current_dma_message_read,
                        current_software_trigger_message_read, values, client>>
<1>1. config_at = "trigger" /\ user_dma_channel_data_in' = user_dma_channel_data_in
  BY DEF Design!IssueTrigger
<1>2. PICK m \in TriggerRequests : current_software_trigger_message_read = WholeTrigger(m)
  BY <1>1 DEF HostInv, ReadsOldest
<1>3. Design!SwCommand(current_software_trigger_message_read) = CommandOf(m)
  BY <1>2 DEF CommandOf
<1>4. requested' = requested
  BY <1>1, DesignRest
<1>. QED  BY <1>1, <1>3, <1>4 DEF Design!IssueTrigger, Design!SwTriggerBus, Design!CanWrite, CanWrite

(* Nobody reads the configuration here: the process finds no request of a  *)
(* strategy.                                                               *)
LEMMA SkipEffect ==
  ASSUME HostInv, DesignStep, Design!SkipClient
  PROVE  /\ config_at = "serve" /\ config_at' \in {"serve", "word"} /\ client' \in {0, 1}
         /\ UNCHANGED <<requested, user_dma_channel_data_in, instrument_read_bus,
                        config_to_notifs, decisions_outputs, current_state, values,
                        current_dma_message_read, current_software_trigger_message_read>>
<1>1. /\ config_at = "serve" /\ config_at' \in {"serve", "word"} /\ client' \in {0, 1}
      /\ UNCHANGED <<user_dma_channel_data_in, instrument_read_bus, config_to_notifs,
                     decisions_outputs, current_state, values, current_dma_message_read,
                     current_software_trigger_message_read>>
  BY DEF Design!SkipClient, Design!NextClient, Design!configStreams
<1>. QED  BY <1>1, DesignRest

LEMMA DesignActions ==
  ASSUME HostInv, DesignStep
  PROVE  \/ Design!ReadHeader \/ Design!ReadConfWord2 \/ Design!ReadConfWord3
         \/ Design!ReadSwTrigArg \/ Design!WriteAck \/ Design!IssueTrigger \/ Design!SkipClient
<1>1. /\ instrument_read_bus = [i \in {0, 1} |-> <<>>] /\ client \in {0, 1}
      /\ config_at # "answer" /\ current_state # "IGNORE_PACKET"
  BY DEF HostInv, ProcessTypes, WordsRead
<1>2. ~Design!IgnoreWord /\ ~Design!WriteAnswer
  BY <1>1 DEF Design!IgnoreWord, Design!WriteAnswer
<1>3. ~Design!TurnToRequests /\ ~Design!ReadRequest
  BY <1>1 DEF Design!TurnToRequests, Design!ReadRequest, Design!Clients
<1>. QED  BY <1>2, <1>3 DEF DesignStep, Design!p_handle_instrument_configuration

LEMMA WriteStep ==
  ASSUME HostInv, DesignStep, Design!WriteAck \/ Design!IssueTrigger
  PROVE  HostInv'
<1>1. UNCHANGED <<c2a_stream, call, result, delivered, notifs, isExitRequested>>
  BY DesignRest
<1>2. /\ config_at \in {"ack", "trigger"} /\ config_at' = "word" /\ current_state' = "IDLE"
      /\ UNCHANGED <<requested, user_dma_channel_data_in, instrument_read_bus, values, client,
                     current_dma_message_read, current_software_trigger_message_read>>
  BY AckEffect, CommandEffect
<1>3. /\ IsStream(config_to_notifs', {AckOf(m) : m \in ConfigurationRequests}, NotifDepth)
      /\ IsBus(decisions_outputs', {3}, {CommandOf(m) : m \in TriggerRequests}, StreamDepth)
  <2>1. CASE Design!WriteAck
    <3>1. Design!Ack(current_dma_message_read) \in {AckOf(m) : m \in ConfigurationRequests}
      BY <2>1, AckEffect
    <3>2. /\ CanWrite(config_to_notifs, NotifDepth)
          /\ config_to_notifs' = Append(config_to_notifs, Design!Ack(current_dma_message_read))
          /\ decisions_outputs' = decisions_outputs
      BY <2>1, AckEffect
    <3>3. IsStream(config_to_notifs', {AckOf(m) : m \in ConfigurationRequests}, NotifDepth)
      BY <3>1, <3>2, WriteStream, Depths DEF HostInv, HostTypes
    <3>. QED  BY <3>2, <3>3 DEF HostInv, HostTypes
  <2>2. CASE Design!IssueTrigger
    <3>1. Design!SwCommand(current_software_trigger_message_read)
            \in {CommandOf(m) : m \in TriggerRequests}
      BY <2>2, CommandEffect
    <3>2. /\ CanWrite(decisions_outputs[3], StreamDepth)
          /\ decisions_outputs' = [decisions_outputs EXCEPT ![3] =
               Append(@, Design!SwCommand(current_software_trigger_message_read))]
          /\ config_to_notifs' = config_to_notifs
      BY <2>2, CommandEffect
    <3>3. IsBus(decisions_outputs', {3}, {CommandOf(m) : m \in TriggerRequests}, StreamDepth)
      BY <3>1, <3>2, WriteBus, Depths DEF HostInv, HostTypes
    <3>. QED  BY <3>2, <3>3 DEF HostInv, HostTypes
  <2>. QED  BY <2>1, <2>2
<1>4. HostTypes' /\ ProcessTypes'
  BY <1>1, <1>2, <1>3 DEF HostInv, HostTypes, ProcessTypes, WordsRead
<1>5. Parsed = 0 /\ Parsed' = 0 /\ Place' = Place
  BY <1>1, <1>2 DEF Parsed, Place, WordsRead
<1>6. LastRequested'
  BY <1>1, <1>2 DEF HostInv, LastRequested
<1>7. WordsInPlace'
  BY <1>2, <1>5 DEF HostInv, WordsInPlace
<1>8. ReadsOldest'
  BY <1>2, <1>5 DEF ReadsOldest
<1>. QED  BY <1>4, <1>6, <1>7, <1>8 DEF HostInv

LEMMA SkipStep ==
  ASSUME HostInv, DesignStep, Design!SkipClient
  PROVE  HostInv'
<1>1. UNCHANGED <<c2a_stream, call, result, delivered, notifs, isExitRequested>>
  BY DesignRest
<1>2. HostTypes' /\ ProcessTypes'
  BY <1>1, SkipEffect DEF HostInv, HostTypes, ProcessTypes
<1>3. Parsed' = Parsed /\ Place' = Place
  BY <1>1, SkipEffect DEF Parsed, Place
<1>4. LastRequested'
  BY <1>1, SkipEffect DEF HostInv, LastRequested
<1>5. WordsInPlace'
  BY <1>3, SkipEffect DEF HostInv, WordsInPlace
<1>6. ReadsOldest'
  BY <1>3, SkipEffect DEF HostInv, ReadsOldest
<1>. QED  BY <1>2, <1>4, <1>5, <1>6 DEF HostInv

LEMMA DesignKeeps == ASSUME HostInv, DesignStep PROVE HostInv'
BY DesignActions, HeaderStep, Word2Step, Word3Step, ArgStep, WriteStep, SkipStep
-----------------------------------------------------------------------------
(* The acknowledgement polled is one of an update, and no error.           *)
LEMMA PollAckEffect ==
  ASSUME HostInv, PollAck
  PROVE  /\ \E m \in ConfigurationRequests :
              Head(config_to_notifs) = AckOf(m) /\ told' = <<Requests[m].fields>>
         /\ config_to_notifs # <<>> /\ config_to_notifs' = Tail(config_to_notifs)
         /\ told' = <<AckRead(Head(config_to_notifs))>> /\ isExitRequested' = isExitRequested
         /\ UNCHANGED <<driverVars, requested, dmaVars, decisions_outputs, configVars, notifs>>
<1>. DEFINE ack == Head(config_to_notifs)
<1>1. config_to_notifs # <<>>
  BY DEF PollAck
<1>2. PICK m \in ConfigurationRequests : ack = AckOf(m)
  <2>1. ack \in {AckOf(m) : m \in ConfigurationRequests}
    BY <1>1, ReadStream, Depths DEF HostInv, HostTypes
  <2>. QED  BY <2>1
<1>3. ack.source = 8 /\ ack.length = 48 /\ AckRead(ack) = Requests[m].fields
  BY <1>2, AckOfRequest
<1>4. 8 \in DOMAIN Known /\ Known[8].on = "ack"
  BY DEF Known
<1>5. Dispatched(48, FromFpga(ack.source, ack.length)) = "ack"
  BY <1>3, <1>4 DEF Dispatched, FromFpga
<1>6. ~IsError(Dispatched(48, FromFpga(ack.source, ack.length)))
  BY <1>5 DEF IsError
<1>7. told' = <<AckRead(ack)>> /\ isExitRequested' = isExitRequested
  BY <1>6 DEF PollAck
<1>. QED  BY <1>1, <1>2, <1>3, <1>7 DEF PollAck

LEMMA ProgramStep ==
  ASSUME HostInv, \/ TakeCommand \/ PollAck \/ signalExit
                  \/ \E s \in Notifying : Notify(s) \/ PollNotice(s)
  PROVE  HostInv'
<1>1. UNCHANGED <<requested, c2a_stream, call, result, delivered, user_dma_channel_data_in,
                  instrument_read_bus, config_at, current_state, values, client,
                  current_dma_message_read, current_software_trigger_message_read>>
  BY PollAckEffect
     DEF TakeCommand, signalExit, Notify, PollNotice, driverVars, dmaVars, readVars, outVars,
         configVars
<1>2. LastRequested' /\ WordsInPlace' /\ ReadsOldest'
  BY <1>1, FlowUnchanged DEF HostInv
<1>3. ProcessTypes'
  BY <1>1 DEF HostInv, ProcessTypes
<1>4. /\ IsStream(config_to_notifs', {AckOf(m) : m \in ConfigurationRequests}, NotifDepth)
      /\ IsBus(decisions_outputs', {3}, {CommandOf(m) : m \in TriggerRequests}, StreamDepth)
      /\ notifs' \subseteq Notifying /\ isExitRequested' \in BOOLEAN
  <2>1. CASE TakeCommand
    <3>1. /\ decisions_outputs[3] # <<>>
          /\ decisions_outputs' = [decisions_outputs EXCEPT ![3] = Tail(@)]
          /\ UNCHANGED <<config_to_notifs, notifs, isExitRequested>>
      BY <2>1 DEF TakeCommand, programVars
    <3>. QED  BY <3>1, ReadBus, Depths DEF HostInv, HostTypes
  <2>2. CASE PollAck
    <3>1. /\ config_to_notifs # <<>> /\ config_to_notifs' = Tail(config_to_notifs)
          /\ UNCHANGED <<decisions_outputs, notifs, isExitRequested>>
      BY <2>2, PollAckEffect
    <3>. QED  BY <3>1, ReadStream, Depths DEF HostInv, HostTypes
  <2>3. CASE signalExit
    BY <2>3 DEF signalExit, outVars, HostInv, HostTypes
  <2>4. ASSUME NEW s \in Notifying, Notify(s) \/ PollNotice(s)
        PROVE  /\ UNCHANGED <<config_to_notifs, decisions_outputs>>
               /\ notifs' \subseteq Notifying /\ isExitRequested' \in BOOLEAN
    <3>1. IsError(Event(s)) \in BOOLEAN
      BY DEF IsError
    <3>. QED  BY <2>4, <3>1 DEF Notify, PollNotice, outVars, HostInv, HostTypes
  <2>. QED  BY <2>1, <2>2, <2>3, <2>4 DEF HostInv, HostTypes
<1>5. HostTypes'
  BY <1>1, <1>4 DEF HostInv, HostTypes
<1>. QED  BY <1>2, <1>3, <1>5 DEF HostInv

(* Every step keeps the requests, the words and the process in step.       *)
LEMMA HostStep == ASSUME HostInv, [Next]_vars PROVE HostInv'
<1>1. CASE ProgramCalls
  <2>1. PICK m \in Asks["driver"] : Call("driver", m)
    BY <1>1 DEF ProgramCalls
  <2>2. /\ UNCHANGED <<requested, dmaVars, outVars, configVars, notifs>>
        /\ isExitRequested' \in BOOLEAN
    BY <1>1 DEF ProgramCalls, programVars, HostInv, HostTypes
  <2>. QED  BY <2>1, <2>2, CallStep DEF Senders
<1>2. CASE StandaloneCalls
  <2>1. PICK m \in Asks["standalone"] : Call("standalone", m)
    BY <1>2 DEF StandaloneCalls
  <2>2. /\ UNCHANGED <<requested, dmaVars, outVars, configVars, notifs>>
        /\ isExitRequested' \in BOOLEAN
    BY <1>2 DEF StandaloneCalls, programVars, HostInv, HostTypes
  <2>. QED  BY <2>1, <2>2, CallStep DEF Senders
<1>3. ASSUME NEW s \in Senders, SenderStep(s)
      PROVE  HostInv'
  <2>1. CASE Send(s)
    BY <1>3, <2>1, SendStep
  <2>2. CASE GiveUp(s)
    <3>1. Returns(s, "error") /\ c2a_stream' = c2a_stream
      BY <2>2 DEF GiveUp
    <3>2. UNCHANGED <<requested, dmaVars, outVars, configVars, programVars>>
      BY <1>3, <3>1 DEF SenderStep
    <3>. QED  BY <3>1, <3>2, RefusedStep
  <2>. QED  BY <1>3, <2>1, <2>2 DEF SenderStep, Sending
<1>4. ASSUME NEW s \in Senders, SenderFails(s)
      PROVE  HostInv'
  BY <1>4, RefusedStep DEF SenderFails, SendFails
<1>5. CASE DmaDelivers
  BY <1>5, DeliverStep
<1>6. CASE DesignStep
  BY <1>6, DesignKeeps
<1>7. CASE UNCHANGED vars
  <2>1. HostTypes' /\ ProcessTypes'
    BY <1>7 DEF vars, driverVars, dmaVars, readVars, outVars, configVars, programVars, HostInv,
       HostTypes, ProcessTypes
  <2>2. LastRequested' /\ WordsInPlace' /\ ReadsOldest'
    BY <1>7, FlowUnchanged DEF vars, driverVars, dmaVars, configVars, HostInv
  <2>. QED  BY <2>1, <2>2 DEF HostInv
<1>. QED  BY <1>1, <1>2, <1>3, <1>4, <1>5, <1>6, <1>7, ProgramStep DEF Next

LEMMA HostInvariant == Spec => []HostInv
<1>. QED  BY HostInitInv, HostStep, PTL DEF Spec

(* In every run the streams hold at most their depth, and the DMA has given *)
(* the design fewer words than the message under way has.                  *)
THEOREM HostTyped == Spec => []TypeOK
<1>1. HostInv => TypeOK
  <2>. SUFFICES ASSUME HostInv
                PROVE  TypeOK
    OBVIOUS
  <2>1. Sendable \subseteq MsgIds
    BY RequestKinds
  <2>2. IsStream(c2a_stream, MsgIds, TxDepth) /\ call \in [Senders -> {NoCall} \cup MsgIds]
    <3>1. c2a_stream \in Seq(MsgIds)
      BY <2>1 DEF HostInv, HostTypes, IsStream
    <3>. QED  BY <2>1, <3>1 DEF HostInv, HostTypes, IsStream
  <2>3. /\ delivered \in 0..5
        /\ delivered # 0 => delivered < Len(WordsOf[Head(c2a_stream)])
    <3>1. CASE delivered # 0
      <4>1. c2a_stream # <<>> /\ delivered < Len(WordsOf[Head(c2a_stream)])
        BY <3>1 DEF HostInv, LastRequested
      <4>2. Head(c2a_stream) \in Sendable
        BY <4>1 DEF HostInv, HostTypes, IsStream
      <4>3. Len(WordsOf[Head(c2a_stream)]) = 3 \/ Len(WordsOf[Head(c2a_stream)]) = 6
        BY <4>2, WordsOfRequest
      <4>4. PICK n \in {3, 6} : n = Len(WordsOf[Head(c2a_stream)])
        BY <4>3
      <4>5. delivered \in Nat /\ delivered < n
        BY <4>1, <4>4 DEF HostInv, HostTypes
      <4>. QED  BY <4>1, <4>5
    <3>. QED  BY <3>1
  <2>4. /\ Len(user_dma_channel_data_in) =< InDepth /\ Len(config_to_notifs) =< NotifDepth
        /\ Len(decisions_outputs[3]) =< StreamDepth
    BY DEF HostInv, HostTypes, IsStream, IsBus
  <2>. QED  BY <2>2, <2>3, <2>4 DEF HostInv, HostTypes, TypeOK
<1>. QED  BY <1>1, HostInvariant, PTL
-----------------------------------------------------------------------------
(* The acknowledgements made and the one owed are of requests, and so are  *)
(* the commands.                                                           *)
AcksMade == {AckOf(m) : m \in ConfigurationRequests}
CommandsMade == {CommandOf(m) : m \in TriggerRequests}

LEMMA AcksTyped ==
  ASSUME HostInv
  PROVE  /\ Acks \in Seq(AcksMade) /\ config_to_notifs \in Seq(AcksMade)
         /\ (IF config_at = "ack" THEN <<Design!Ack(current_dma_message_read)>> ELSE <<>>)
              \in Seq(AcksMade)
         /\ Commands \in Seq(CommandsMade) /\ decisions_outputs[3] \in Seq(CommandsMade)
         /\ (IF config_at = "trigger"
             THEN <<Design!SwCommand(current_software_trigger_message_read)>> ELSE <<>>)
              \in Seq(CommandsMade)
<1>1. config_at = "ack" => Design!Ack(current_dma_message_read) \in AcksMade
  BY DEF HostInv, ReadsOldest, AckOf, AcksMade
<1>2. config_at = "trigger" =>
        Design!SwCommand(current_software_trigger_message_read) \in CommandsMade
  BY DEF HostInv, ReadsOldest, CommandOf, CommandsMade
<1>3. config_to_notifs \in Seq(AcksMade) /\ decisions_outputs[3] \in Seq(CommandsMade)
  BY DEF HostInv, HostTypes, IsStream, IsBus, AcksMade, CommandsMade
<1>4. (IF config_at = "ack" THEN <<Design!Ack(current_dma_message_read)>> ELSE <<>>)
        \in Seq(AcksMade)
  BY <1>1
<1>5. (IF config_at = "trigger"
       THEN <<Design!SwCommand(current_software_trigger_message_read)>> ELSE <<>>)
        \in Seq(CommandsMade)
  BY <1>2
<1>6. \A S, x, y : x \in Seq(S) /\ y \in Seq(S) => x \o y \in Seq(S)
  OBVIOUS
<1>. QED  BY <1>3, <1>4, <1>5, <1>6 DEF Acks, Commands

LEMMA Joined ==
  ASSUME NEW W, NEW s \in Seq(W), NEW e \in W
  PROVE  s \o <<>> = s /\ s \o <<e>> = Append(s, e)
OBVIOUS

(* A step of the process that makes an acknowledgement or a command, by    *)
(* the action: the last word of an update makes the one, the last word of  *)
(* a trigger the other.                                                    *)
LEMMA AcksByDesign ==
  ASSUME HostInv, DesignStep
  PROVE  Acks' = IF Design!ReadConfWord3 THEN Append(Acks, AckOf(Head(requested))) ELSE Acks
<1>. DEFINE made == Design!Ack(current_dma_message_read)
<1>1. CASE Design!ReadConfWord3
  <2>1. /\ config_at = "word" /\ config_at' = "ack" /\ config_to_notifs' = config_to_notifs
        /\ current_dma_message_read' = WholeUpdate(Head(requested))
        /\ Head(requested) \in ConfigurationRequests
    BY <1>1, Word3Effect
  <2>2. made' = AckOf(Head(requested)) /\ AckOf(Head(requested)) \in AcksMade
    BY <2>1 DEF AckOf, AcksMade, Design!Ack, Design!Convert
  <2>3. Acks = config_to_notifs \o <<>>
    BY <2>1 DEF Acks
  <2>4. Acks' = config_to_notifs \o <<made'>>
    BY <2>1 DEF Acks
  <2>. HIDE DEF made
  <2>5. config_to_notifs \in Seq(AcksMade)
    BY AcksTyped
  <2>. QED  BY <1>1, <2>2, <2>3, <2>4, <2>5, Joined
<1>2. CASE Design!WriteAck
  <2>1. /\ config_at = "ack" /\ config_at' = "word" /\ made \in AcksMade
        /\ config_to_notifs' = Append(config_to_notifs, made)
    BY <1>2, AckEffect DEF AcksMade
  <2>2. ~Design!ReadConfWord3
    BY <2>1 DEF Design!ReadConfWord3, Design!TakeWord
  <2>3. Acks' = config_to_notifs' \o <<>> /\ Acks = config_to_notifs \o <<made>>
    BY <2>1 DEF Acks
  <2>. HIDE DEF made
  <2>4. config_to_notifs \in Seq(AcksMade) /\ Append(config_to_notifs, made) \in Seq(AcksMade)
    BY <2>1, AcksTyped
  <2>. QED  BY <2>1, <2>2, <2>3, <2>4, Joined
<1>3. CASE ~Design!ReadConfWord3 /\ ~Design!WriteAck
  <2>1. config_at # "ack" /\ config_at' # "ack" /\ config_to_notifs' = config_to_notifs
    <3>1. CASE Design!ReadHeader
      BY <3>1 DEF Design!ReadHeader, Design!TakeWord
    <3>2. CASE Design!ReadConfWord2
      BY <3>2 DEF Design!ReadConfWord2, Design!TakeWord
    <3>3. CASE Design!ReadSwTrigArg
      <4>1. Parsed < 5 \/ Parsed = 5
        BY <3>3, ArgEffect
      <4>. QED  BY <3>3, <4>1, ArgEffect
    <3>4. CASE Design!IssueTrigger
      BY <3>4, CommandEffect
    <3>5. CASE Design!SkipClient
      BY <3>5, SkipEffect
    <3>. QED  BY <1>3, <3>1, <3>2, <3>3, <3>4, <3>5, DesignActions
  <2>. QED  BY <1>3, <2>1 DEF Acks
<1>. QED  BY <1>1, <1>2, <1>3

(* The step that reads the last word of a trigger. *)
LastArg == Design!ReadSwTrigArg /\ Parsed = 5

LEMMA CommandsByDesign ==
  ASSUME HostInv, DesignStep
  PROVE  Commands' = IF LastArg THEN Append(Commands, CommandOf(Head(requested))) ELSE Commands
<1>. DEFINE made == Design!SwCommand(current_software_trigger_message_read)
<1>1. CASE LastArg
  <2>1. /\ config_at = "word" /\ config_at' = "trigger" /\ decisions_outputs' = decisions_outputs
        /\ current_software_trigger_message_read' = WholeTrigger(Head(requested))
        /\ Head(requested) \in TriggerRequests
    BY <1>1, ArgEffect DEF LastArg
  <2>2. made' = CommandOf(Head(requested)) /\ CommandOf(Head(requested)) \in CommandsMade
    BY <2>1 DEF CommandOf, CommandsMade, Design!SwCommand
  <2>3. Commands = decisions_outputs[3] \o <<>>
    BY <2>1 DEF Commands
  <2>4. Commands' = decisions_outputs[3] \o <<made'>>
    BY <2>1 DEF Commands
  <2>. HIDE DEF made
  <2>5. decisions_outputs[3] \in Seq(CommandsMade)
    BY AcksTyped
  <2>. QED  BY <1>1, <2>2, <2>3, <2>4, <2>5, Joined
<1>2. CASE Design!IssueTrigger
  <2>1. /\ config_at = "trigger" /\ config_at' = "word" /\ made \in CommandsMade
        /\ decisions_outputs' = [decisions_outputs EXCEPT ![3] = Append(@, made)]
    BY <1>2, CommandEffect DEF CommandsMade
  <2>2. ~LastArg
    BY <2>1 DEF LastArg, Design!ReadSwTrigArg, Design!TakeWord
  <2>3. Commands' = decisions_outputs'[3] \o <<>> /\ Commands = decisions_outputs[3] \o <<made>>
    BY <2>1 DEF Commands
  <2>. HIDE DEF made
  <2>4. decisions_outputs'[3] = Append(decisions_outputs[3], made)
    BY <2>1 DEF HostInv, HostTypes, IsBus
  <2>5. /\ decisions_outputs[3] \in Seq(CommandsMade)
        /\ Append(decisions_outputs[3], made) \in Seq(CommandsMade)
    BY <2>1, AcksTyped
  <2>. QED  BY <2>2, <2>1, <2>3, <2>4, <2>5, Joined
<1>3. CASE ~LastArg /\ ~Design!IssueTrigger
  <2>1. config_at # "trigger" /\ config_at' # "trigger" /\ decisions_outputs' = decisions_outputs
    <3>1. CASE Design!ReadHeader
      BY <3>1 DEF Design!ReadHeader, Design!TakeWord
    <3>2. CASE Design!ReadConfWord2
      BY <3>2 DEF Design!ReadConfWord2, Design!TakeWord
    <3>3. CASE Design!ReadConfWord3
      BY <3>3, Word3Effect
    <3>4. CASE Design!ReadSwTrigArg
      <4>1. Parsed < 5
        BY <1>3, <3>4, ArgEffect DEF LastArg
      <4>. QED  BY <3>4, <4>1, ArgEffect
    <3>5. CASE Design!WriteAck
      BY <3>5, AckEffect
    <3>6. CASE Design!SkipClient
      BY <3>6, SkipEffect
    <3>. QED  BY <1>3, <3>1, <3>2, <3>3, <3>4, <3>5, <3>6, DesignActions
  <2>. QED  BY <1>3, <2>1 DEF Commands
<1>. QED  BY <1>1, <1>2, <1>3

(* The configuration memory changes with the last word of an update only.  *)
LEMMA ValuesByDesign ==
  ASSUME HostInv, DesignStep, ~Design!ReadConfWord3
  PROVE  values' = values
<1>1. CASE Design!ReadHeader
  BY <1>1 DEF Design!ReadHeader
<1>2. CASE Design!ReadConfWord2
  BY <1>2 DEF Design!ReadConfWord2
<1>. QED  BY <1>1, <1>2, ArgEffect, AckEffect, CommandEffect, SkipEffect, DesignActions

(* The other steps: polling an acknowledgement takes the oldest one.       *)
LEMMA AcksOtherwise ==
  ASSUME HostInv, [Next]_vars, ~DesignStep
  PROVE  /\ values' = values
         /\ IF PollAck THEN /\ Acks # <<>> /\ Acks' = Tail(Acks)
                            /\ Head(Acks) = Head(config_to_notifs)
                       ELSE Acks' = Acks /\ told' = told
<1>1. CASE PollAck
  <2>. DEFINE owed == IF config_at = "ack" THEN <<Design!Ack(current_dma_message_read)>> ELSE <<>>
  <2>1. /\ config_to_notifs # <<>> /\ config_to_notifs' = Tail(config_to_notifs)
        /\ UNCHANGED configVars
    BY <1>1, PollAckEffect
  <2>2. values' = values /\ owed' = owed
    BY <2>1 DEF configVars
  <2>3. Acks = config_to_notifs \o owed /\ Acks' = config_to_notifs' \o owed'
    BY DEF Acks
  <2>4. owed \in Seq(AcksMade) /\ config_to_notifs \in Seq(AcksMade)
    BY AcksTyped
  <2>. HIDE DEF owed
  <2>5. /\ config_to_notifs \o owed # <<>>
        /\ Tail(config_to_notifs \o owed) = Tail(config_to_notifs) \o owed
        /\ (config_to_notifs \o owed)[1] = Head(config_to_notifs)
        /\ config_to_notifs \o owed \in Seq(AcksMade)
    BY <2>1, <2>4, TailOfConcat
  <2>6. Head(config_to_notifs \o owed) = (config_to_notifs \o owed)[1]
    BY <2>5
  <2>. QED  BY <1>1, <2>1, <2>2, <2>3, <2>5, <2>6
<1>2. CASE ~PollAck
  <2>1. UNCHANGED <<config_to_notifs, configVars, told>>
    <3>1. CASE ProgramCalls \/ StandaloneCalls
      BY <3>1 DEF ProgramCalls, StandaloneCalls, outVars, programVars
    <3>2. ASSUME NEW s \in Senders, SenderStep(s) \/ SenderFails(s)
          PROVE  UNCHANGED <<config_to_notifs, configVars, told>>
      BY <3>2 DEF SenderStep, SenderFails, outVars, programVars
    <3>3. CASE DmaDelivers \/ TakeCommand \/ signalExit
      BY <3>3 DEF DmaDelivers, TakeCommand, signalExit, outVars, programVars
    <3>4. ASSUME NEW s \in Notifying, Notify(s) \/ PollNotice(s)
          PROVE  UNCHANGED <<config_to_notifs, configVars, told>>
      BY <3>4 DEF Notify, PollNotice, outVars
    <3>5. CASE UNCHANGED vars
      BY <3>5 DEF vars, outVars, programVars
    <3>. QED  BY <1>2, <3>1, <3>2, <3>3, <3>4, <3>5 DEF Next
  <2>. QED  BY <1>2, <2>1 DEF Acks, configVars
<1>. QED  BY <1>1, <1>2
-----------------------------------------------------------------------------
(* An acknowledgement made last tells the item stored with it; one told    *)
(* leaves the others as they are.                                          *)
LEMMA AckInstrument ==
  \A a \in AcksMade : a.instr_id \in Instruments
BY AckOfRequest DEF AcksMade

LEMMA TellsStored ==
  ASSUME NEW acks \in Seq(AcksMade), NEW memory \in [Instruments -> Stored],
         NEW a \in AcksMade, Tells(acks, memory)
  PROVE  Tells(Append(acks, a), [memory EXCEPT ![a.instr_id] = Design!Kept(a)])
<1>. DEFINE all == Append(acks, a)
            stored == [memory EXCEPT ![a.instr_id] = Design!Kept(a)]
<1>1. a.instr_id \in Instruments /\ \A j \in 1..Len(acks) : acks[j].instr_id \in Instruments
  <2>1. \A j \in 1..Len(acks) : acks[j] \in AcksMade
    OBVIOUS
  <2>. QED  BY <2>1, AckInstrument
<1>2. /\ Len(all) = Len(acks) + 1 /\ Len(acks) \in Nat /\ all[Len(acks) + 1] = a
      /\ \A j \in 1..Len(acks) : all[j] = acks[j]
  OBVIOUS
<1>3. /\ stored[a.instr_id] = Design!Kept(a)
      /\ \A i \in Instruments : i # a.instr_id => stored[i] = memory[i]
  BY <1>1
<1>. HIDE DEF all, stored
<1>4. ASSUME NEW i \in 1..Len(all)
      PROVE  \/ \E j \in (i + 1)..Len(all) : all[j].instr_id = all[i].instr_id
             \/ stored[all[i].instr_id] = Design!Kept(all[i])
  <2>1. CASE i = Len(acks) + 1
    BY <1>2, <1>3, <2>1
  <2>2. CASE i \in 1..Len(acks)
    <3>1. CASE acks[i].instr_id = a.instr_id
      <4>1. Len(acks) + 1 \in (i + 1)..Len(all)
        BY <1>2, <2>2
      <4>. QED  BY <1>2, <2>2, <3>1, <4>1
    <3>2. CASE \E j \in (i + 1)..Len(acks) : acks[j].instr_id = acks[i].instr_id
      <4>1. PICK j \in (i + 1)..Len(acks) : acks[j].instr_id = acks[i].instr_id
        BY <3>2
      <4>2. j \in 1..Len(acks) /\ j \in (i + 1)..Len(all)
        BY <1>2, <2>2
      <4>. QED  BY <1>2, <2>2, <4>1, <4>2
    <3>3. CASE /\ acks[i].instr_id # a.instr_id
               /\ memory[acks[i].instr_id] = Design!Kept(acks[i])
      BY <1>1, <1>2, <1>3, <2>2, <3>3
    <3>. QED  BY <2>2, <3>1, <3>2, <3>3 DEF Tells
  <2>. QED  BY <1>2, <2>1, <2>2
<1>. QED  BY <1>4 DEF Tells, all, stored

LEMMA TellsTail ==
  ASSUME NEW acks \in Seq(AcksMade), acks # <<>>, NEW memory, Tells(acks, memory)
  PROVE  /\ Tells(Tail(acks), memory)
         /\ \/ memory[Head(acks).instr_id] = Design!Kept(Head(acks))
            \/ \E i \in 1..Len(Tail(acks)) : Tail(acks)[i].instr_id = Head(acks).instr_id
<1>. DEFINE rest == Tail(acks)
<1>1. /\ Len(rest) = Len(acks) - 1 /\ Len(acks) \in Nat /\ 1 \in 1..Len(acks)
      /\ \A i \in 1..(Len(acks) - 1) : rest[i] = acks[i + 1]
      /\ Head(acks) = acks[1]
  OBVIOUS
<1>. HIDE DEF rest
<1>2. ASSUME NEW i \in 1..Len(acks)
      PROVE  \/ \E j \in i..Len(rest) : rest[j].instr_id = acks[i].instr_id
             \/ memory[acks[i].instr_id] = Design!Kept(acks[i])
  <2>1. CASE \E j \in (i + 1)..Len(acks) : acks[j].instr_id = acks[i].instr_id
    <3>1. PICK j \in (i + 1)..Len(acks) : acks[j].instr_id = acks[i].instr_id
      BY <2>1
    <3>2. j - 1 \in i..Len(rest) /\ j - 1 \in 1..(Len(acks) - 1) /\ (j - 1) + 1 = j
      BY <1>1
    <3>. QED  BY <1>1, <3>1, <3>2
  <2>. QED  BY <2>1 DEF Tells
<1>3. ASSUME NEW i \in 1..Len(rest)
      PROVE  \/ \E j \in (i + 1)..Len(rest) : rest[j].instr_id = rest[i].instr_id
             \/ memory[rest[i].instr_id] = Design!Kept(rest[i])
  <2>1. i + 1 \in 1..Len(acks) /\ rest[i] = acks[i + 1]
    BY <1>1
  <2>. QED  BY <1>2, <2>1
<1>. QED  BY <1>1, <1>2, <1>3 DEF Tells, rest

(* What was told is stored, or is about to be told again.                  *)
LEMMA ToldStep == ASSUME HostInv, HostInv', ToldInv, [Next]_vars PROVE ToldInv'
<1>1. Acks \in Seq(AcksMade) /\ values \in [Instruments -> Stored]
  BY AcksTyped DEF HostInv, ProcessTypes
<1>2. Tells(Acks, values)
  BY DEF ToldInv
<1>3. CASE DesignStep /\ Design!ReadConfWord3
  <2>. DEFINE m == Head(requested)
              a == AckOf(m)
              i == Requests[m].fields.instr_id
  <2>1. /\ m \in ConfigurationRequests /\ Acks' = Append(Acks, a)
        /\ values' = [values EXCEPT ![i] = Design!Kept(a)]
    BY <1>3, AcksByDesign, Word3Effect, AckOfRequest
  <2>2. a.instr_id = i /\ i \in Instruments /\ a \in AcksMade
    BY <2>1, AckOfRequest DEF AcksMade
  <2>3. told' = told
    BY <1>3, DesignRest
  <2>. HIDE DEF m, a, i
  <2>4. Tells(Append(Acks, a), [values EXCEPT ![a.instr_id] = Design!Kept(a)])
    BY <1>1, <1>2, <2>2, TellsStored
  <2>5. Tells(Acks', values')
    BY <2>1, <2>2, <2>4
  <2>6. /\ Len(Acks') = Len(Acks) + 1 /\ Len(Acks) \in Nat /\ Acks'[Len(Acks) + 1] = a
        /\ \A k \in 1..Len(Acks) : Acks'[k] = Acks[k]
    BY <1>1, <2>1, <2>2
  <2>7. ASSUME NEW n \in ConfigurationRequests, ToldOf(n)
        PROVE  ToldOf(n)'
    <3>. DEFINE at == Requests[n].fields.instr_id
    <3>1. CASE at = i
      <4>1. Len(Acks) + 1 \in 1..Len(Acks') /\ Acks'[Len(Acks) + 1].instr_id = at
        BY <2>2, <2>6, <3>1
      <4>. QED  BY <4>1 DEF ToldOf
    <3>2. CASE \E k \in 1..Len(Acks) : Acks[k].instr_id = at
      <4>1. PICK k \in 1..Len(Acks) : Acks[k].instr_id = at
        BY <3>2
      <4>2. k \in 1..Len(Acks') /\ Acks'[k].instr_id = at
        BY <2>6, <4>1
      <4>. QED  BY <4>2 DEF ToldOf
    <3>3. CASE at # i /\ values[at] = ItemOf(n)
      <4>1. at \in Instruments
        BY AckOfRequest
      <4>2. values'[at] = values[at]
        BY <1>1, <2>1, <3>3, <4>1
      <4>3. values'[at] = ItemOf(n)
        BY <3>3, <4>2
      <4>4. AckOf(n)' = AckOf(n)
        BY DEF AckOf, WholeUpdate, Design!Ack, Design!Convert
      <4>. QED  BY <4>3, <4>4 DEF ToldOf
    <3>. QED  BY <2>7, <3>1, <3>2, <3>3 DEF ToldOf
  <2>. QED  BY <2>3, <2>5, <2>7 DEF ToldInv
<1>4. CASE PollAck /\ ~DesignStep
  <2>1. PICK m \in ConfigurationRequests :
          Head(config_to_notifs) = AckOf(m) /\ told' = <<Requests[m].fields>>
    BY <1>4, PollAckEffect
  <2>2. /\ values' = values /\ Acks # <<>> /\ Acks' = Tail(Acks)
        /\ Head(Acks) = AckOf(m)
    BY <1>4, <2>1, AcksOtherwise
  <2>3. /\ Tells(Tail(Acks), values)
        /\ \/ values[Head(Acks).instr_id] = Design!Kept(Head(Acks))
           \/ \E i \in 1..Len(Tail(Acks)) : Tail(Acks)[i].instr_id = Head(Acks).instr_id
    BY <1>1, <1>2, <2>2, TellsTail
  <2>4. AckOf(m).instr_id = Requests[m].fields.instr_id
    BY AckOfRequest
  <2>5. ItemOf(m)' = ItemOf(m) /\ ItemOf(m) = Design!Kept(AckOf(m))
    BY AckOfRequest DEF ItemOf, WholeUpdate, Design!Convert
  <2>6. ToldOf(m)'
    BY <2>2, <2>3, <2>4, <2>5 DEF ToldOf
  <2>. QED  BY <2>1, <2>2, <2>3, <2>6 DEF ToldInv
<1>5. CASE \/ DesignStep /\ ~Design!ReadConfWord3
           \/ ~DesignStep /\ ~PollAck
  <2>1. Acks' = Acks /\ values' = values /\ told' = told
    <3>1. CASE DesignStep
      <4>1. ~Design!ReadConfWord3
        BY <1>5, <3>1
      <4>. QED  BY <3>1, <4>1, AcksByDesign, ValuesByDesign, DesignRest
    <3>2. CASE ~DesignStep
      BY <1>5, <3>2, AcksOtherwise
    <3>. QED  BY <3>1, <3>2
  <2>2. \A m \in ConfigurationRequests : AckOf(m)' = AckOf(m)
    BY DEF AckOf, WholeUpdate, Design!Ack, Design!Convert
  <2>3. \A m \in ConfigurationRequests : ToldOf(m) => ToldOf(m)'
    BY <2>1, <2>2 DEF ToldOf
  <2>. QED  BY <2>1, <2>3 DEF ToldInv
<1>. QED  BY <1>3, <1>4, <1>5

LEMMA ToldInvariant == Spec => [](HostInv /\ ToldInv)
<1>1. Init => ToldInv
  <2>. SUFFICES ASSUME Init
                PROVE  ToldInv
    OBVIOUS
  <2>1. config_to_notifs = <<>> /\ config_at = "word" /\ told = <<>>
    BY DEF Init, Design!LocalInit
  <2>2. Acks = <<>> /\ Len(Acks) = 0
    BY <2>1 DEF Acks
  <2>. QED  BY <2>1, <2>2 DEF ToldInv, Tells
<1>2. HostInv /\ ToldInv /\ [Next]_vars => HostInv' /\ ToldInv'
  BY HostStep, ToldStep
<1>. QED  BY <1>1, <1>2, HostInitInv, PTL DEF Spec

(* In every run what the handler was told last of an instrument is what    *)
(* the strategies read for it, of enabled the low bit, unless a later      *)
(* update of it is on its way to the handler.                              *)
THEOREM AlwaysToldIsStored == Spec => []ToldIsStored
<1>1. HostInv /\ ToldInv => ToldIsStored
  <2>. SUFFICES ASSUME HostInv, ToldInv, told # <<>>
                PROVE  \/ values[told[1].instr_id] = Design!Kept(told[1])
                       \/ \E i \in DOMAIN Acks : Acks[i].instr_id = told[1].instr_id
    BY DEF ToldIsStored
  <2>1. PICK m \in ConfigurationRequests : told = <<Requests[m].fields>> /\ ToldOf(m)
    BY DEF ToldInv
  <2>2. told[1] = Requests[m].fields
    BY <2>1
  <2>3. ItemOf(m) = Design!Kept(told[1])
    BY <2>2, AckOfRequest
  <2>4. DOMAIN Acks = 1..Len(Acks)
    BY AcksTyped
  <2>. QED  BY <2>1, <2>2, <2>3, <2>4 DEF ToldOf
<1>. QED  BY <1>1, ToldInvariant, PTL
-----------------------------------------------------------------------------
(* The notifications of the strategies are dispatched as what they are and *)
(* read as they were written; the TCP consumer's is an error.              *)
LEMMA NoticeEvents ==
  /\ \A s \in {"tick2cancel", "tick2trade"} : Event(s) = s /\ ~IsError(s)
  /\ Event("tcp") = "CORRUPTED_APPLICATION_HEADER" /\ IsError("CORRUPTED_APPLICATION_HEADER")
<1>1. /\ DOMAIN Known = {8, 10, 11}
      /\ Known[10].on = "tick2cancel" /\ Known[11].on = "tick2trade"
  BY DEF Known
<1>2. /\ Notice["tick2cancel"] = <<48, 10, 48>> /\ Notice["tick2trade"] = <<32, 11, 32>>
      /\ Notice["tcp"] = <<32, 7, 16>>
  BY DEF Notice
<1>3. Event("tick2cancel") = Dispatched(48, FromFpga(10, 48))
  BY <1>2 DEF Event
<1>4. Event("tick2trade") = Dispatched(32, FromFpga(11, 32))
  BY <1>2 DEF Event
<1>5. Event("tcp") = Dispatched(32, FromFpga(7, 16))
  BY <1>2 DEF Event
<1>6. Event("tick2cancel") = "tick2cancel"
  BY <1>1, <1>3 DEF Dispatched, FromFpga
<1>7. Event("tick2trade") = "tick2trade"
  BY <1>1, <1>4 DEF Dispatched, FromFpga
<1>8. Event("tcp") = "CORRUPTED_APPLICATION_HEADER"
  BY <1>5 DEF Dispatched, FromFpga
<1>. QED  BY <1>6, <1>7, <1>8 DEF IsError

LEMMA CancelNotice == ReadAsWritten("tick2cancel")
<1>. DEFINE table == NotificationBits["tick2cancel"]
<1>1. Known[Notice["tick2cancel"][2]].layout = TickToCancelNotificationMessage
  BY DEF Notice, Known
<1>2. table = [trade_summary_price |-> <<1, 63, 0>>, book_top_level_price |-> <<2, 127, 64>>,
               threshold |-> <<2, 63, 0>>, instrument_id |-> <<3, 127, 96>>,
               sent_collection_id |-> <<3, 95, 80>>, is_bid |-> <<3, 79, 72>>]
  BY DEF NotificationBits
<1>. HIDE DEF table
<1>3. ASSUME NEW f \in DOMAIN table
      PROVE  Bits(table)[f] = TickToCancelNotificationMessage[f]
  <2>1. Bits(table)[f] = <<128 * (table[f][1] - 1) + 127 - table[f][2],
                           table[f][2] - table[f][3] + 1>>
    BY DEF Bits
  <2>2. f \notin DOMAIN FpgaToCpuHeader
    BY <1>2 DEF FpgaToCpuHeader
  <2>3. TickToCancelNotificationMessage[f] = <<128 * (table[f][1] - 1) + 127 - table[f][2],
                                              table[f][2] - table[f][3] + 1>>
    BY <1>2, <2>2 DEF TickToCancelNotificationMessage, Join
  <2>. QED  BY <2>1, <2>3
<1>. QED  BY <1>1, <1>3 DEF ReadAsWritten, table

LEMMA TradeNotice == ReadAsWritten("tick2trade")
<1>. DEFINE table == NotificationBits["tick2trade"]
<1>1. Known[Notice["tick2trade"][2]].layout = TickToTradeNotificationMessage
  BY DEF Notice, Known
<1>2. table = [trade_summary_price |-> <<1, 63, 0>>, threshold_price |-> <<2, 127, 64>>,
               instrument_id |-> <<2, 63, 32>>, sent_collection_id |-> <<2, 31, 16>>,
               is_bid |-> <<2, 15, 8>>]
  BY DEF NotificationBits
<1>. HIDE DEF table
<1>3. ASSUME NEW f \in DOMAIN table
      PROVE  Bits(table)[f] = TickToTradeNotificationMessage[f]
  <2>1. Bits(table)[f] = <<128 * (table[f][1] - 1) + 127 - table[f][2],
                           table[f][2] - table[f][3] + 1>>
    BY DEF Bits
  <2>2. f \notin DOMAIN FpgaToCpuHeader
    BY <1>2 DEF FpgaToCpuHeader
  <2>3. TickToTradeNotificationMessage[f] = <<128 * (table[f][1] - 1) + 127 - table[f][2],
                                              table[f][2] - table[f][3] + 1>>
    BY <1>2, <2>2 DEF TickToTradeNotificationMessage, Join
  <2>. QED  BY <2>1, <2>3
<1>. QED  BY <1>1, <1>3 DEF ReadAsWritten, table

(* One notification waits for the host at a time. *)
OneNotice == notifs \subseteq Notifying /\ \A s, t \in notifs : s = t

LEMMA NoticeKept ==
  ASSUME [Next]_vars, \A s \in Notifying : ~Notify(s) /\ ~PollNotice(s)
  PROVE  notifs' = notifs
<1>1. CASE ProgramCalls \/ StandaloneCalls
  BY <1>1 DEF ProgramCalls, StandaloneCalls, programVars
<1>2. ASSUME NEW s \in Senders, SenderStep(s) \/ SenderFails(s)
      PROVE  notifs' = notifs
  BY <1>2 DEF SenderStep, SenderFails, programVars
<1>3. CASE DmaDelivers \/ DesignStep \/ TakeCommand
  BY <1>3 DEF DmaDelivers, DesignStep, TakeCommand, programVars
<1>4. CASE PollAck \/ signalExit
  BY <1>4 DEF PollAck, signalExit
<1>5. CASE UNCHANGED vars
  BY <1>5 DEF vars, programVars
<1>. QED  BY <1>1, <1>2, <1>3, <1>4, <1>5 DEF Next

(* In every run each notification but the TCP consumer's reaches the       *)
(* handler, as that module's and field for field; on the TCP consumer's    *)
(* the program exits.                                                      *)
THEOREM OnlyTcpLost == Spec => OnlyTcpIsLost
<1>. DEFINE Told(s) == IF s = "tcp" THEN isExitRequested'
                       ELSE ~isExitRequested' /\ Event(s) = s /\ ReadAsWritten(s)
<1>1. Init => OneNotice
  BY DEF Init, OneNotice
<1>2. OneNotice /\ [Next]_vars => OneNotice'
  <2>1. ASSUME OneNotice, NEW s \in Notifying, Notify(s) \/ PollNotice(s)
        PROVE  OneNotice'
    BY <2>1 DEF OneNotice, Notify, PollNotice
  <2>. QED  BY <2>1, NoticeKept DEF OneNotice
<1>3. OneNotice /\ [Next]_vars => [\A s \in notifs \ notifs' : Told(s)]_vars
  <2>. SUFFICES ASSUME OneNotice, [Next]_vars, NEW s \in notifs, s \notin notifs'
                PROVE  Told(s)
    OBVIOUS
  <2>1. PICK t \in Notifying : PollNotice(t)
    <3>1. PICK t \in Notifying : Notify(t) \/ PollNotice(t)
      BY NoticeKept
    <3>. QED  BY <3>1 DEF Notify
  <2>2. t = s /\ s \in {"tick2trade", "tick2cancel", "tcp"}
    BY <2>1, HostAssumption DEF PollNotice, OneNotice
  <2>3. isExitRequested' = IsError(Event(s))
    BY <2>1, <2>2 DEF PollNotice
  <2>4. CASE s = "tcp"
    BY <2>3, <2>4, NoticeEvents
  <2>5. CASE s \in {"tick2trade", "tick2cancel"}
    <3>1. Event(s) = s /\ ~IsError(s)
      BY <2>5, NoticeEvents
    <3>2. isExitRequested' = IsError(s)
      BY <2>3, <3>1
    <3>3. ~isExitRequested'
      BY <3>1, <3>2
    <3>4. ReadAsWritten(s)
      BY <2>5, CancelNotice, TradeNotice
    <3>. QED  BY <2>5, <3>1, <3>3, <3>4
  <2>. QED  BY <2>2, <2>4, <2>5
<1>4. (Spec => [][\A s \in notifs \ notifs' : Told(s)]_vars)
  BY <1>1, <1>2, <1>3, PTL DEF Spec
<1>. QED  BY <1>4 DEF OnlyTcpIsLost
-----------------------------------------------------------------------------
(* What a sequence is read as, word by word. *)
Mapped(f, s) == [i \in DOMAIN s |-> f[s[i]]]

LEMMA MappedAppend ==
  ASSUME NEW W, NEW f, NEW s \in Seq(W), NEW e \in W
  PROVE  Mapped(f, Append(s, e)) = Append(Mapped(f, s), f[e])
<1>. DEFINE R == {f[x] : x \in W}
            left == Mapped(f, Append(s, e))
            front == Mapped(f, s)
            right == Append(front, f[e])
<1>1. /\ Len(s) \in Nat /\ DOMAIN s = 1..Len(s) /\ \A i \in 1..Len(s) : s[i] \in W
      /\ f[e] \in R
  OBVIOUS
<1>2. front \in [1..Len(s) -> R] /\ \A i \in 1..Len(s) : front[i] = f[s[i]]
  BY <1>1 DEF Mapped
<1>3. front \in Seq(R) /\ Len(front) = Len(s)
  BY <1>1, <1>2, FunctionIsSeq
<1>4. /\ DOMAIN Append(s, e) = 1..(Len(s) + 1)
      /\ \A i \in 1..Len(s) : Append(s, e)[i] = s[i]
      /\ Append(s, e)[Len(s) + 1] = e
  OBVIOUS
<1>5. /\ left = [i \in 1..(Len(s) + 1) |-> left[i]]
      /\ \A i \in 1..Len(s) : left[i] = f[s[i]]
      /\ left[Len(s) + 1] = f[e]
  <2>1. left = [i \in 1..(Len(s) + 1) |-> f[Append(s, e)[i]]]
    BY <1>4 DEF Mapped
  <2>2. Len(s) + 1 \in 1..(Len(s) + 1) /\ \A i \in 1..Len(s) : i \in 1..(Len(s) + 1)
    BY <1>1
  <2>. HIDE DEF left
  <2>. QED  BY <1>4, <2>1, <2>2
<1>. HIDE DEF front
<1>6. /\ right \in Seq(R) /\ Len(right) = Len(s) + 1
      /\ \A i \in 1..Len(s) : right[i] = f[s[i]]
      /\ right[Len(s) + 1] = f[e]
  BY <1>1, <1>2, <1>3
<1>7. right = [i \in 1..(Len(s) + 1) |-> right[i]]
  BY <1>6
<1>. HIDE DEF left, right
<1>8. \A i \in 1..(Len(s) + 1) : left[i] = right[i]
  <2>1. \A i \in 1..(Len(s) + 1) : i \in 1..Len(s) \/ i = Len(s) + 1
    BY <1>1
  <2>. QED  BY <1>5, <1>6, <2>1
<1>9. left = right
  BY <1>5, <1>7, <1>8
<1>. QED  BY <1>3, <1>9 DEF left, right, front

LEMMA MappedTail ==
  ASSUME NEW W, NEW f, NEW s \in Seq(W), s # <<>>
  PROVE  /\ Mapped(f, s) # <<>> /\ Head(Mapped(f, s)) = f[Head(s)]
         /\ Mapped(f, Tail(s)) = Tail(Mapped(f, s))
<1>. DEFINE R == {f[x] : x \in W}
            all == Mapped(f, s)
            left == Mapped(f, Tail(s))
            right == Tail(all)
<1>1. /\ Len(s) \in Nat /\ Len(s) >= 1 /\ DOMAIN s = 1..Len(s)
      /\ \A i \in 1..Len(s) : s[i] \in W
      /\ Head(s) = s[1]
  OBVIOUS
<1>2. all \in [1..Len(s) -> R] /\ \A i \in 1..Len(s) : all[i] = f[s[i]]
  BY <1>1 DEF Mapped
<1>3. all \in Seq(R) /\ Len(all) = Len(s)
  BY <1>1, <1>2, FunctionIsSeq
<1>4. /\ DOMAIN Tail(s) = 1..(Len(s) - 1)
      /\ \A i \in 1..(Len(s) - 1) : Tail(s)[i] = s[i + 1]
  BY <1>1
<1>5. left = [i \in 1..(Len(s) - 1) |-> f[s[i + 1]]]
  BY <1>4 DEF Mapped
<1>. HIDE DEF all
<1>6. all # <<>> /\ Head(all) = f[Head(s)]
  <2>1. 1 \in 1..Len(s)
    BY <1>1
  <2>. QED  BY <1>1, <1>2, <1>3, <2>1
<1>7. /\ right \in Seq(R) /\ Len(right) = Len(s) - 1
      /\ \A i \in 1..(Len(s) - 1) : right[i] = all[i + 1]
  BY <1>1, <1>3, <1>6
<1>8. \A i \in 1..(Len(s) - 1) : right[i] = f[s[i + 1]]
  <2>1. \A i \in 1..(Len(s) - 1) : i + 1 \in 1..Len(s)
    BY <1>1
  <2>. QED  BY <1>2, <1>7, <2>1
<1>. HIDE DEF left, right
<1>9. right = [i \in 1..(Len(s) - 1) |-> right[i]]
  BY <1>7
<1>10. left = right
  BY <1>5, <1>8, <1>9
<1>. QED  BY <1>6, <1>10 DEF left, right, all

(* The acknowledgements as the host reads them, the commands as issued.    *)
ReadAck == [a \in AcksMade |-> AckRead(a)]
ReadCommand == [c \in CommandsMade |-> CommandMade(c)]
AcksRead == [i \in DOMAIN Acks |-> AckRead(Acks[i])]
CommandsRead == [i \in DOMAIN Commands |-> CommandMade(Commands[i])]

LEMMA ReadMapped ==
  /\ \A s \in Seq(AcksMade) : [i \in DOMAIN s |-> AckRead(s[i])] = Mapped(ReadAck, s)
  /\ \A s \in Seq(CommandsMade) :
       [i \in DOMAIN s |-> CommandMade(s[i])] = Mapped(ReadCommand, s)
<1>1. ASSUME NEW s \in Seq(AcksMade)
      PROVE  [i \in DOMAIN s |-> AckRead(s[i])] = Mapped(ReadAck, s)
  <2>1. \A i \in DOMAIN s : s[i] \in AcksMade
    OBVIOUS
  <2>2. \A i \in DOMAIN s : ReadAck[s[i]] = AckRead(s[i])
    BY <2>1 DEF ReadAck
  <2>. QED  BY <2>2 DEF Mapped
<1>2. ASSUME NEW s \in Seq(CommandsMade)
      PROVE  [i \in DOMAIN s |-> CommandMade(s[i])] = Mapped(ReadCommand, s)
  <2>1. \A i \in DOMAIN s : s[i] \in CommandsMade
    OBVIOUS
  <2>2. \A i \in DOMAIN s : ReadCommand[s[i]] = CommandMade(s[i])
    BY <2>1 DEF ReadCommand
  <2>. QED  BY <2>2 DEF Mapped
<1>. QED  BY <1>1, <1>2

LEMMA AcksReadStep ==
  ASSUME HostInv
  PROVE  /\ \A m \in ConfigurationRequests :
              Acks' = Append(Acks, AckOf(m)) =>
                AcksRead' = Append(AcksRead, Requests[m].fields)
         /\ Acks # <<>> => AcksRead # <<>> /\ Head(AcksRead) = AckRead(Head(Acks))
         /\ Acks # <<>> /\ Acks' = Tail(Acks) => AcksRead' = Tail(AcksRead)
         /\ Acks' = Acks => AcksRead' = AcksRead
<1>1. Acks \in Seq(AcksMade)
  BY AcksTyped
<1>2. AcksRead = Mapped(ReadAck, Acks)
  BY <1>1, ReadMapped DEF AcksRead
<1>3. \A t \in Seq(AcksMade) : Acks' = t => AcksRead' = Mapped(ReadAck, t)
  BY ReadMapped DEF AcksRead
<1>4. ASSUME NEW m \in ConfigurationRequests, Acks' = Append(Acks, AckOf(m))
      PROVE  AcksRead' = Append(AcksRead, Requests[m].fields)
  <2>1. AckOf(m) \in AcksMade
    BY DEF AcksMade
  <2>2. Append(Acks, AckOf(m)) \in Seq(AcksMade)
    BY <1>1, <2>1
  <2>3. Mapped(ReadAck, Append(Acks, AckOf(m))) = Append(Mapped(ReadAck, Acks), ReadAck[AckOf(m)])
    BY <1>1, <2>1, MappedAppend
  <2>4. ReadAck[AckOf(m)] = Requests[m].fields
    BY <2>1, AckOfRequest DEF ReadAck
  <2>. QED  BY <1>2, <1>3, <1>4, <2>2, <2>3, <2>4
<1>5. ASSUME Acks # <<>>
      PROVE  /\ AcksRead # <<>> /\ Head(AcksRead) = AckRead(Head(Acks))
             /\ Mapped(ReadAck, Tail(Acks)) = Tail(AcksRead)
  <2>1. Head(Acks) \in AcksMade
    BY <1>1, <1>5
  <2>2. ReadAck[Head(Acks)] = AckRead(Head(Acks))
    BY <2>1 DEF ReadAck
  <2>3. /\ Mapped(ReadAck, Acks) # <<>> /\ Head(Mapped(ReadAck, Acks)) = ReadAck[Head(Acks)]
        /\ Mapped(ReadAck, Tail(Acks)) = Tail(Mapped(ReadAck, Acks))
    BY <1>1, <1>5, MappedTail
  <2>. QED  BY <1>2, <2>2, <2>3
<1>6. ASSUME Acks # <<>>, Acks' = Tail(Acks)
      PROVE  AcksRead' = Tail(AcksRead)
  <2>1. Tail(Acks) \in Seq(AcksMade)
    BY <1>1, <1>6
  <2>. QED  BY <1>3, <1>5, <1>6, <2>1
<1>7. Acks' = Acks => AcksRead' = AcksRead
  BY DEF AcksRead
<1>. QED  BY <1>4, <1>5, <1>6, <1>7

LEMMA CommandsReadStep ==
  ASSUME HostInv
  PROVE  /\ \A m \in TriggerRequests :
              Commands' = Append(Commands, CommandOf(m)) =>
                CommandsRead' = Append(CommandsRead, Asked(m))
         /\ Commands # <<>> => CommandsRead # <<>>
         /\ Commands # <<>> /\ Commands' = Tail(Commands) => CommandsRead' = Tail(CommandsRead)
         /\ Commands' = Commands => CommandsRead' = CommandsRead
<1>1. Commands \in Seq(CommandsMade)
  BY AcksTyped
<1>2. CommandsRead = Mapped(ReadCommand, Commands)
  BY <1>1, ReadMapped DEF CommandsRead
<1>3. \A t \in Seq(CommandsMade) : Commands' = t => CommandsRead' = Mapped(ReadCommand, t)
  BY ReadMapped DEF CommandsRead
<1>4. ASSUME NEW m \in TriggerRequests, Commands' = Append(Commands, CommandOf(m))
      PROVE  CommandsRead' = Append(CommandsRead, Asked(m))
  <2>1. CommandOf(m) \in CommandsMade
    BY DEF CommandsMade
  <2>2. Append(Commands, CommandOf(m)) \in Seq(CommandsMade)
    BY <1>1, <2>1
  <2>3. Mapped(ReadCommand, Append(Commands, CommandOf(m)))
          = Append(Mapped(ReadCommand, Commands), ReadCommand[CommandOf(m)])
    BY <1>1, <2>1, MappedAppend
  <2>4. ReadCommand[CommandOf(m)] = Asked(m)
    BY <2>1, CommandOfRequest DEF ReadCommand
  <2>. QED  BY <1>2, <1>3, <1>4, <2>2, <2>3, <2>4
<1>5. ASSUME Commands # <<>>
      PROVE  /\ CommandsRead # <<>>
             /\ Mapped(ReadCommand, Tail(Commands)) = Tail(CommandsRead)
  BY <1>1, <1>2, <1>5, MappedTail
<1>6. ASSUME Commands # <<>>, Commands' = Tail(Commands)
      PROVE  CommandsRead' = Tail(CommandsRead)
  <2>1. Tail(Commands) \in Seq(CommandsMade)
    BY <1>1, <1>6
  <2>. QED  BY <1>3, <1>5, <1>6, <2>1
<1>7. Commands' = Commands => CommandsRead' = CommandsRead
  BY DEF CommandsRead
<1>. QED  BY <1>4, <1>5, <1>6, <1>7
-----------------------------------------------------------------------------
(* The requests are carried out with the last word of each.                *)
LEMMA RequestedByDesign ==
  ASSUME HostInv, DesignStep
  PROVE  requested' = IF Design!ReadConfWord3 \/ LastArg THEN Tail(requested) ELSE requested
<1>1. ASSUME Design!TakeWord, current_state \in {"IDLE", "READ_CONF_WORD2"}
      PROVE  requested' = requested
  <2>1. Parsed \in {0, 1} /\ (Design!WordIn.last <=> Parsed + 1 = Len(WordsOf[Head(requested)]))
    BY <1>1, WordTaken DEF WordsRead
  <2>2. Len(WordsOf[Head(requested)]) = 3 \/ Len(WordsOf[Head(requested)]) = 6
    BY <1>1, WordTaken, WordsOfRequest
  <2>3. Parsed + 1 # Len(WordsOf[Head(requested)])
    <3>1. PICK n \in {3, 6} : n = Len(WordsOf[Head(requested)])
      BY <2>2
    <3>2. PICK k \in {0, 1} : k = Parsed
      BY <2>1
    <3>3. k + 1 # n
      OBVIOUS
    <3>. QED  BY <3>1, <3>2, <3>3
  <2>. QED  BY <1>1, <2>1, <2>3, DesignRest
<1>2. CASE Design!ReadHeader \/ Design!ReadConfWord2
  <2>1. Design!TakeWord /\ current_state \in {"IDLE", "READ_CONF_WORD2"}
    BY <1>2 DEF Design!ReadHeader, Design!ReadConfWord2
  <2>2. ~Design!ReadConfWord3 /\ ~LastArg
    <3>1. ~Design!ReadConfWord3
      BY <2>1 DEF Design!ReadConfWord3
    <3>2. Parsed # 5
      BY <2>1, WordTaken DEF WordsRead
    <3>. QED  BY <3>1, <3>2 DEF LastArg
  <2>. QED  BY <1>1, <2>1, <2>2
<1>3. CASE Design!ReadConfWord3
  BY <1>3, Word3Effect
<1>4. CASE Design!ReadSwTrigArg
  <2>1. Parsed < 5 \/ Parsed = 5
    BY <1>4, ArgEffect
  <2>2. Parsed < 5 => ~LastArg /\ requested' = requested
    BY <1>4, ArgEffect DEF LastArg
  <2>3. Parsed = 5 => LastArg /\ requested' = Tail(requested)
    BY <1>4, ArgEffect DEF LastArg
  <2>4. ~Design!ReadConfWord3
    BY <1>4, ArgEffect, Word3Effect, RequestKinds
  <2>. QED  BY <2>1, <2>2, <2>3, <2>4
<1>5. CASE Design!WriteAck \/ Design!IssueTrigger \/ Design!SkipClient
  <2>1. config_at # "word" /\ requested' = requested
    BY <1>5, AckEffect, CommandEffect, SkipEffect
  <2>2. ~Design!TakeWord
    BY <2>1 DEF Design!TakeWord
  <2>. QED  BY <2>1, <2>2 DEF Design!ReadConfWord3, Design!ReadSwTrigArg, LastArg
<1>. QED  BY <1>2, <1>3, <1>4, <1>5, DesignActions

(* What the service promises, its variables read as in ImplementsService.  *)
serviceVars == <<requested, AcksRead, CommandsRead, told, result>>

LEMMA ServiceSame ==
  ASSUME HostInv, UNCHANGED <<outVars, configVars>>
  PROVE  AcksRead' = AcksRead /\ CommandsRead' = CommandsRead
<1>1. Acks' = Acks /\ Commands' = Commands
  BY DEF Acks, Commands, outVars, configVars
<1>. QED  BY <1>1, AcksReadStep, CommandsReadStep

(* The design carries a request out with the last word of it. *)
LEMMA CarriesOut ==
  ASSUME HostInv, DesignStep
  PROVE  UNCHANGED serviceVars \/ Service!CarryOut
<1>. DEFINE m == Head(requested)
<1>1. told' = told /\ result' = result
  BY DesignRest
<1>2. CASE Design!ReadConfWord3
  <2>1. m \in ConfigurationRequests /\ requested # <<>> /\ requested' = Tail(requested)
    BY <1>2, Word3Effect
  <2>2. ~LastArg
    BY <1>2, Word3Effect DEF LastArg
  <2>3. Acks' = Append(Acks, AckOf(m)) /\ Commands' = Commands
    BY <1>2, <2>2, AcksByDesign, CommandsByDesign
  <2>4. AcksRead' = Append(AcksRead, Requests[m].fields) /\ CommandsRead' = CommandsRead
    BY <2>1, <2>3, AcksReadStep, CommandsReadStep
  <2>5. /\ m \in DOMAIN [n \in ConfigurationRequests |-> Requests[n].fields]
        /\ [n \in ConfigurationRequests |-> Requests[n].fields][m] = Requests[m].fields
    BY <2>1
  <2>. QED  BY <1>1, <2>1, <2>4, <2>5 DEF Service!CarryOut, AcksRead, CommandsRead
<1>3. CASE LastArg
  <2>1. m \in TriggerRequests /\ requested # <<>> /\ requested' = Tail(requested)
    BY <1>3, ArgEffect DEF LastArg
  <2>2. ~Design!ReadConfWord3
    BY <1>3, Word3Effect DEF LastArg
  <2>3. Commands' = Append(Commands, CommandOf(m)) /\ Acks' = Acks
    BY <1>3, <2>2, AcksByDesign, CommandsByDesign
  <2>4. CommandsRead' = Append(CommandsRead, Asked(m)) /\ AcksRead' = AcksRead
    BY <2>1, <2>3, AcksReadStep, CommandsReadStep
  <2>5. /\ m \in DOMAIN [n \in TriggerRequests |-> Asked(n)]
        /\ [n \in TriggerRequests |-> Asked(n)][m] = Asked(m)
    BY <2>1
  <2>. QED  BY <1>1, <2>1, <2>4, <2>5 DEF Service!CarryOut, AcksRead, CommandsRead
<1>4. CASE ~Design!ReadConfWord3 /\ ~LastArg
  <2>1. Acks' = Acks /\ Commands' = Commands /\ requested' = requested
    BY <1>4, AcksByDesign, CommandsByDesign, RequestedByDesign
  <2>. QED  BY <1>1, <2>1, AcksReadStep, CommandsReadStep DEF serviceVars
<1>. QED  BY <1>2, <1>3, <1>4

(* Polling tells the oldest acknowledgement, a command is taken in order.  *)
LEMMA TellsNext ==
  ASSUME HostInv, PollAck, ~DesignStep
  PROVE  Service!Tell
<1>1. /\ config_to_notifs # <<>> /\ told' = <<AckRead(Head(config_to_notifs))>>
      /\ UNCHANGED <<requested, result, decisions_outputs, configVars>>
  BY PollAckEffect DEF driverVars
<1>2. Acks # <<>> /\ Acks' = Tail(Acks) /\ Head(Acks) = Head(config_to_notifs)
  <2>1. [Next]_vars
    BY DEF Next
  <2>. QED  BY <2>1, AcksOtherwise
<1>3. Commands' = Commands
  BY <1>1 DEF Commands, configVars
<1>4. /\ AcksRead # <<>> /\ AcksRead' = Tail(AcksRead) /\ CommandsRead' = CommandsRead
      /\ Head(AcksRead) = AckRead(Head(Acks))
  BY <1>2, <1>3, AcksReadStep, CommandsReadStep
<1>. QED  BY <1>1, <1>2, <1>4 DEF Service!Tell, AcksRead, CommandsRead

LEMMA TakesCommand ==
  ASSUME HostInv, TakeCommand
  PROVE  Service!TakeCommand
<1>. DEFINE owed == IF config_at = "trigger"
                    THEN <<Design!SwCommand(current_software_trigger_message_read)>> ELSE <<>>
<1>1. /\ decisions_outputs[3] # <<>>
      /\ decisions_outputs' = [decisions_outputs EXCEPT ![3] = Tail(@)]
      /\ UNCHANGED <<requested, result, config_to_notifs, configVars, told>>
  BY DEF TakeCommand, driverVars, programVars
<1>2. decisions_outputs'[3] = Tail(decisions_outputs[3])
  BY <1>1 DEF HostInv, HostTypes, IsBus
<1>3. owed' = owed /\ Acks' = Acks
  BY <1>1 DEF configVars, Acks
<1>4. Commands = decisions_outputs[3] \o owed /\ Commands' = decisions_outputs'[3] \o owed'
  BY DEF Commands
<1>5. owed \in Seq(CommandsMade) /\ decisions_outputs[3] \in Seq(CommandsMade)
  BY AcksTyped
<1>. HIDE DEF owed
<1>6. Commands # <<>> /\ Commands' = Tail(Commands)
  BY <1>1, <1>2, <1>3, <1>4, <1>5, TailOfConcat
<1>7. CommandsRead # <<>> /\ CommandsRead' = Tail(CommandsRead) /\ AcksRead' = AcksRead
  BY <1>3, <1>6, AcksReadStep, CommandsReadStep
<1>. QED  BY <1>1, <1>7 DEF Service!TakeCommand, AcksRead, CommandsRead

(* A call that returns at once with an error is refused, one that goes on  *)
(* is not seen; one that sends is a request.                               *)
LEMMA CallSeen ==
  ASSUME HostInv, NEW s \in Senders, NEW m, Call(s, m),
         UNCHANGED <<requested, outVars, configVars, told>>
  PROVE  UNCHANGED serviceVars \/ Service!Refuse
<1>1. AcksRead' = AcksRead /\ CommandsRead' = CommandsRead
  BY ServiceSame
<1>2. result' = result \/ result' = "error"
  BY DEF Call, Returns
<1>. QED  BY <1>1, <1>2 DEF serviceVars, Service!Refuse, AcksRead, CommandsRead

LEMMA SenderSeen ==
  ASSUME HostInv, NEW s \in Senders, SenderStep(s) \/ SenderFails(s)
  PROVE  Service!Request \/ Service!Refuse
<1>1. AcksRead' = AcksRead /\ CommandsRead' = CommandsRead /\ told' = told
  BY ServiceSame DEF SenderStep, SenderFails, programVars
<1>2. CASE SenderStep(s) /\ Send(s)
  <2>1. call[s] \in Sendable /\ requested' = Append(requested, call[s]) /\ result' = "none"
    BY <1>2, SendRequests DEF Returns
  <2>2. call[s] \in DOMAIN [m \in ConfigurationRequests |-> Requests[m].fields]
                      \cup DOMAIN [m \in TriggerRequests |-> Asked(m)]
    BY <2>1 DEF Sendable
  <2>. QED  BY <1>1, <2>1, <2>2 DEF Service!Request, AcksRead, CommandsRead
<1>3. CASE ~(SenderStep(s) /\ Send(s))
  <2>1. result' = "error" /\ requested' = requested
    BY <1>3 DEF SenderStep, SenderFails, Sending, SendFails, GiveUp, Returns
  <2>. QED  BY <1>1, <2>1 DEF Service!Refuse, AcksRead, CommandsRead
<1>. QED  BY <1>2, <1>3

LEMMA ServiceStep ==
  ASSUME HostInv, [Next]_vars
  PROVE  [Service!Next]_serviceVars
<1>1. CASE ProgramCalls
  <2>1. PICK m : Call("driver", m)
    BY <1>1 DEF ProgramCalls
  <2>2. UNCHANGED <<requested, outVars, configVars, told>>
    BY <1>1 DEF ProgramCalls, programVars
  <2>. QED  BY <2>1, <2>2, CallSeen DEF Senders, Service!Next
<1>2. CASE StandaloneCalls
  <2>1. PICK m : Call("standalone", m)
    BY <1>2 DEF StandaloneCalls
  <2>2. UNCHANGED <<requested, outVars, configVars, told>>
    BY <1>2 DEF StandaloneCalls, programVars
  <2>. QED  BY <2>1, <2>2, CallSeen DEF Senders, Service!Next
<1>3. ASSUME NEW s \in Senders, SenderStep(s) \/ SenderFails(s)
      PROVE  Service!Next
  BY <1>3, SenderSeen DEF Service!Next
<1>4. CASE DesignStep
  BY <1>4, CarriesOut DEF Service!Next
<1>5. CASE PollAck /\ ~DesignStep
  BY <1>5, TellsNext DEF Service!Next
<1>6. CASE TakeCommand
  BY <1>6, TakesCommand DEF Service!Next
<1>7. CASE \/ DmaDelivers \/ signalExit \/ UNCHANGED vars
           \/ \E s \in Notifying : Notify(s) \/ PollNotice(s)
  <2>1. UNCHANGED <<requested, result, told, outVars, configVars>>
    BY <1>7 DEF DmaDelivers, signalExit, Notify, PollNotice, vars, driverVars, programVars
  <2>2. AcksRead' = AcksRead /\ CommandsRead' = CommandsRead
    BY <2>1, ServiceSame
  <2>. QED  BY <2>1, <2>2 DEF serviceVars
<1>. QED  BY <1>1, <1>2, <1>3, <1>4, <1>5, <1>6, <1>7 DEF Next

(* In every run, however the senders, the DMA, the design and the polling  *)
(* interleave, each request reported as sent is carried out once, in order *)
(* and with the values asked for, and each configuration is told once.     *)
THEOREM Serves == Spec => ImplementsService
<1>1. Init => Service!Init
  <2>. SUFFICES ASSUME Init
                PROVE  Service!Init
    OBVIOUS
  <2>1. /\ requested = <<>> /\ config_to_notifs = <<>> /\ told = <<>> /\ result = "none"
        /\ config_at = "word" /\ decisions_outputs[3] = <<>>
    BY DEF Init, LocalInit, Design!LocalInit
  <2>2. Acks = <<>> /\ Commands = <<>>
    BY <2>1 DEF Acks, Commands
  <2>3. AcksRead = <<>> /\ CommandsRead = <<>>
    BY <2>2 DEF AcksRead, CommandsRead
  <2>. QED  BY <2>1, <2>3 DEF Service!Init, AcksRead, CommandsRead
<1>2. HostInv /\ [Next]_vars =>
        [Service!Next]_<<requested, [i \in DOMAIN Acks |-> AckRead(Acks[i])],
                         [i \in DOMAIN Commands |-> CommandMade(Commands[i])], told, result>>
  BY ServiceStep DEF serviceVars, AcksRead, CommandsRead
<1>. QED  BY <1>1, <1>2, HostInvariant, PTL DEF Spec, ImplementsService, Service!Spec
=============================================================================
