--------------------------- MODULE TradeDecisions ---------------------------
(***************************************************************************)
(* What a strategy promises, whatever processes and memories it is built   *)
(* from: every trade summary that opens a command on the feed is decided   *)
(* once, in feed order, for its own instrument and with the packet last    *)
(* announced before it, and a trade that fires yields one trigger command  *)
(* and then one notification.  Tick2cancel and Tick2trade implement it.    *)
(***************************************************************************)
EXTENDS HlsStream, Nxbus

CONSTANTS
  TradeOf(_, _),   \* the trade a word announces, with its packet
  VerdictOf(_),    \* the outputs owed for a trade: <<>> or <<command, notification>>
  CommandDepth, NotificationDepth

VARIABLES
  start,          \* the next word opens a command
  packet,         \* the packet last announced
  trades,         \* trades read and not yet decided
  owed,           \* outputs of the trade just decided, not yet written
  commands, notifications

vars == <<start, packet, trades, owed, commands, notifications>>

Init ==
  /\ start = TRUE
  /\ packet = 0
  /\ trades = <<>> /\ owed = <<>> /\ commands = <<>> /\ notifications = <<>>

Read(word) ==
  /\ start' = word.end_of_extra
  /\ packet' = IF start /\ word.opcode = "PKT_INFO" THEN word.packet ELSE packet
  /\ trades' = IF start /\ word.opcode = "TRADE_SUMMARY"
               THEN Append(trades, TradeOf(word, packet)) ELSE trades
  /\ UNCHANGED <<owed, commands, notifications>>

Decide ==
  /\ owed = <<>> /\ trades # <<>>
  /\ owed' = VerdictOf(Head(trades))
  /\ trades' = Tail(trades)
  /\ UNCHANGED <<start, packet, commands, notifications>>

EmitCommand ==
  /\ Len(owed) = 2 /\ CanWrite(commands, CommandDepth)
  /\ commands' = Append(commands, Head(owed))
  /\ owed' = Tail(owed)
  /\ UNCHANGED <<start, packet, trades, notifications>>

EmitNotification ==
  /\ Len(owed) = 1 /\ CanWrite(notifications, NotificationDepth)
  /\ notifications' = Append(notifications, Head(owed))
  /\ owed' = <<>>
  /\ UNCHANGED <<start, packet, trades, commands>>

(* The arbiter and the notification process take from the outputs. *)
TakeCommand ==
  /\ commands # <<>> /\ commands' = Tail(commands)
  /\ UNCHANGED <<start, packet, trades, owed, notifications>>

TakeNotification ==
  /\ notifications # <<>> /\ notifications' = Tail(notifications)
  /\ UNCHANGED <<start, packet, trades, owed, commands>>

Next == \/ \E word \in nxbus : Read(word)
        \/ Decide \/ EmitCommand \/ EmitNotification
        \/ TakeCommand \/ TakeNotification

Spec == Init /\ [][Next]_vars
=============================================================================
