------------------------- MODULE TcpConsumerSystem -------------------------
(***************************************************************************)
(* The TCP consumer with a TCP core that sends packets of any number of    *)
(* words, and consumers of its commands and notifications.  History        *)
(* variables record the packets.                                           *)
(***************************************************************************)
EXTENDS TcpConsumer

CONSTANT MaxPacket  (* bound on the words of a packet *)

ASSUME TcpConsumerSystemAssumption == MaxPacket \in Nat \ {0}

VARIABLES
  sending,  \* the words the core has sent of the packet it is sending
  read      \* the words p_consume_tcp has read of the packet it read from last

tcpSystemVars == <<tcp_replies_in, output, tcp_notifs, tcpVars, sending, read>>

TcpInit ==
  /\ TcpLocalInit
  /\ tcp_replies_in = <<>> /\ output = <<>> /\ tcp_notifs = <<>>
  /\ sending = <<>> /\ read = <<>>

(* Every word but the last is full; the words of a packet share their id.  *)
Send ==
  /\ CanWrite(tcp_replies_in, StreamDepth)
  /\ \E word \in tcp_reply_payload :
       /\ sending # <<>> => word.id = sending[1].id
       /\ ~word.last => word.kept = 16 /\ ~word.error /\ Len(sending) + 1 < MaxPacket
       /\ tcp_replies_in' = Append(tcp_replies_in, word)
       /\ sending' = IF word.last THEN <<>> ELSE Append(sending, word)
  /\ UNCHANGED <<output, tcp_notifs, tcpVars, read>>

Ended == read # <<>> /\ read[Len(read)].last

Consume ==
  /\ p_consume_tcp
  /\ read' = IF tcp_at # "read" THEN read
             ELSE IF Ended THEN <<Head(tcp_replies_in)>>
             ELSE Append(read, Head(tcp_replies_in))
  /\ UNCHANGED sending

TakeCommand ==
  /\ output # <<>> /\ output' = Tail(output)
  /\ UNCHANGED <<tcp_replies_in, tcp_notifs, tcpVars, sending, read>>

TakeNotification ==
  /\ tcp_notifs # <<>> /\ tcp_notifs' = Tail(tcp_notifs)
  /\ UNCHANGED <<tcp_replies_in, output, tcpVars, sending, read>>

TcpNext == Send \/ Consume \/ TakeCommand \/ TakeNotification

TcpSpec == TcpInit /\ [][TcpNext]_tcpSystemVars
-----------------------------------------------------------------------------
Command == {<<1024 + o>> : o \in Offsets}

(* The streams hold at most their depth, the session its 8 bits. *)
TcpTypeOK ==
  /\ IsStream(tcp_replies_in, tcp_reply_payload, StreamDepth)
  /\ IsStream(output, Command, StreamDepth)
  /\ IsStream(tcp_notifs, Nat \X Nat \X (0..255), StreamDepth)
  /\ words \in Nat /\ bytes \in Nat /\ session \in 0..255
  /\ tcp_at \in {"read", "trigger", "notify"}
  /\ tcp_at = "trigger" => tcp_sending \in Command
  /\ tcp_at = "notify" => tcp_sending \in Nat \X Nat \X (0..255)

(* The decision at the end of a packet rests on that packet alone, however *)
(* many came before it and whatever became of them.  The code knows a      *)
(* session by the low 8 bits of the first word's identifier: it answers    *)
(* with a command the packets whose low bits are 64 and whose checksum is  *)
(* right, with a notification of the number of whole words those whose low *)
(* bits are 96, and no other.  A packet of session 320 is so answered as   *)
(* one of 64: this property is about packets taken for one another, not    *)
(* sessions.                                                               *)
JustAnswer ==
  [][Len(tcp_replies_in') < Len(tcp_replies_in) =>
       LET end == read'[Len(read')]
           low == read'[1].id % 2^8
       IN /\ (tcp_at' = "trigger") <=> (Ended' /\ low = 64 /\ ~end.error)
          /\ (tcp_at' = "notify") <=> (Ended' /\ low = 96)
          /\ tcp_at' = "trigger" => tcp_sending' = <<1024 + end.offset>>
          /\ tcp_at' = "notify" =>
               tcp_sending'[1] = Len(read') - 1 /\ tcp_sending'[3] = low]_tcpSystemVars
=============================================================================
