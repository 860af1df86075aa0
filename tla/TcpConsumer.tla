---------------------------- MODULE TcpConsumer ----------------------------
(***************************************************************************)
(* p_consume_tcp: the payload of the orders' TCP sessions is counted word  *)
(* by word; at the end of a packet a command fires if it came on session   *)
(* 64 without checksum error, and a notification goes out if on session 96.*)
(*                                                                         *)
(* A word of payload is reduced to its session, its last mark, the number  *)
(* of its bytes keep selects and the collection offset its user and data   *)
(* bits make, with the checksum error bit of user apart.  The counts have  *)
(* 32 bits in the code, which no TCP segment fills.                        *)
(***************************************************************************)
EXTENDS HlsStream

CONSTANTS
  TcpSessions,  (* values of the 20 bit stream identifier *)
  Kept,         (* numbers of bytes keep selects          *)
  Offsets,      (* values of user(7,0) + data(7,0)        *)
  StreamDepth

ASSUME TcpConsumerAssumption ==
  /\ TcpSessions \subseteq 0..(2^20 - 1) /\ Offsets \subseteq 0..510
  /\ 16 \in Kept /\ Kept \subseteq 1..16 /\ StreamDepth \in Nat \ {0}

VARIABLES
  tcp_replies_in, output, tcp_notifs,  \* streams
  bytes, words, session,
  tcp_at,      \* "read", "trigger" or "notify": the write it is at
  tcp_sending  \* the command or the notification to write

tcpVars == <<bytes, words, session, tcp_at, tcp_sending>>

tcp_reply_payload ==
  [id: TcpSessions, last: BOOLEAN, kept: Kept, error: BOOLEAN, offset: Offsets]

TcpLocalInit ==
  /\ bytes = 0 /\ words = 0 /\ session = 0
  /\ tcp_at = "read" /\ tcp_sending = <<>>

(* No case of bc6 breaks: each of the six falls through to the last. *)
flat_popcount == 6 * 6

(* The session is kept in 8 of its 20 bits. *)
Session(word) == IF words = 0 THEN word.id % 2^8 ELSE session

(* Mutant: the counts start anew only after a packet that is acted on. *)
ReadReplyKeepsCounts ==
  /\ tcp_at = "read" /\ tcp_replies_in # <<>>
  /\ tcp_replies_in' = Tail(tcp_replies_in)
  /\ LET word == Head(tcp_replies_in) IN
     /\ session' = Session(word)
     /\ CASE ~word.last ->
               /\ words' = words + 1 /\ bytes' = bytes + 16
               /\ UNCHANGED <<tcp_at, tcp_sending>>
          [] word.last /\ Session(word) = 64 /\ ~word.error ->
               /\ tcp_at' = "trigger" /\ tcp_sending' = <<1024 + word.offset>>
               /\ words' = 0 /\ bytes' = 0
          [] word.last /\ Session(word) = 96 ->
               /\ tcp_at' = "notify"
               /\ tcp_sending' = <<words, bytes + flat_popcount, session'>>
               /\ words' = 0 /\ bytes' = 0
          [] OTHER -> UNCHANGED <<words, bytes, tcp_at, tcp_sending>>
  /\ UNCHANGED <<output, tcp_notifs>>

(* A word is read; the end of a packet decides what is written and starts  *)
(* the counts anew.                                                        *)
ReadReply ==
  /\ tcp_at = "read" /\ tcp_replies_in # <<>>
  /\ tcp_replies_in' = Tail(tcp_replies_in)
  /\ LET word == Head(tcp_replies_in) IN
     /\ session' = Session(word)
     /\ words' = IF word.last THEN 0 ELSE words + 1
     /\ bytes' = IF word.last THEN 0 ELSE bytes + 16
     /\ CASE word.last /\ Session(word) = 64 /\ ~word.error ->
               tcp_at' = "trigger" /\ tcp_sending' = <<1024 + word.offset>>
          [] word.last /\ Session(word) = 96 ->
               /\ tcp_at' = "notify"
               /\ tcp_sending' = <<words, bytes + flat_popcount, session'>>
          [] OTHER -> UNCHANGED <<tcp_at, tcp_sending>>
  /\ UNCHANGED <<output, tcp_notifs>>

WriteTrigger ==
  /\ tcp_at = "trigger" /\ CanWrite(output, StreamDepth)
  /\ output' = Append(output, tcp_sending)
  /\ tcp_at' = "read" /\ tcp_sending' = <<>>
  /\ UNCHANGED <<tcp_replies_in, tcp_notifs, bytes, words, session>>

WriteNotification ==
  /\ tcp_at = "notify" /\ CanWrite(tcp_notifs, StreamDepth)
  /\ tcp_notifs' = Append(tcp_notifs, tcp_sending)
  /\ tcp_at' = "read" /\ tcp_sending' = <<>>
  /\ UNCHANGED <<tcp_replies_in, output, bytes, words, session>>

p_consume_tcp == ReadReply \/ WriteTrigger \/ WriteNotification
=============================================================================
