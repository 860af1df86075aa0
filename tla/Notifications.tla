--------------------------- MODULE Notifications ---------------------------
(***************************************************************************)
(* p_broadcast_notifications: the four notification streams are merged     *)
(* into the 128 bit words of the DMA channel, one notification at a time.  *)
(* A notification is known by its number; a word by the notification it is *)
(* cut from and its index.                                                 *)
(***************************************************************************)
EXTENDS HlsStream

CONSTANTS Ids, OutDepth

ASSUME NotificationsAssumption == 0 \in Ids /\ OutDepth \in Nat \ {0}

VARIABLES
  notifs_in,      \* per module, its stream of notifications
  conf_out,       \* words to the DMA channel
  current_state,
  input_type,
  notif           \* the notification held, one of the four of the code

notificationsVars == <<current_state, input_type, notif>>

Sources == {"config", "tick2trade", "tick2cancel", "tcp"}

LocalInit == current_state = "IDLE" /\ input_type = "none" /\ notif = 0

(* The word the conversion of the module makes: which index is the last of *)
(* the packet is said there, apart from the states below.                  *)
LastIndex(s) == IF s \in {"config", "tick2cancel"} THEN 3 ELSE 2
Word(index) ==
  [source |-> input_type, id |-> notif, index |-> index,
   last |-> index = LastIndex(input_type)]

(* The order in which IDLE looks at the streams. *)
Before(s) ==
  CASE s = "config"      -> {}
    [] s = "tick2trade"  -> {"config"}
    [] s = "tick2cancel" -> {"config", "tick2trade"}
    [] s = "tcp"         -> {"config", "tick2trade", "tick2cancel"}

(* Mutant: the stream looked at first is looked at last. *)
TakeConfigLast(s) ==
  /\ current_state = "IDLE"
  /\ notifs_in[s] # <<>>
  /\ \A t \in (IF s = "config" THEN Sources \ {s} ELSE Before(s) \ {"config"}) :
       notifs_in[t] = <<>>
  /\ notifs_in' = [notifs_in EXCEPT ![s] = Tail(@)]
  /\ input_type' = s /\ notif' = Head(notifs_in[s])
  /\ current_state' = "WORD1"
  /\ UNCHANGED conf_out

Take(s) ==
  /\ current_state = "IDLE"
  /\ notifs_in[s] # <<>>
  /\ \A t \in Before(s) : notifs_in[t] = <<>>
  /\ notifs_in' = [notifs_in EXCEPT ![s] = Tail(@)]
  /\ input_type' = s /\ notif' = Head(notifs_in[s])
  /\ current_state' = "WORD1"
  /\ UNCHANGED conf_out

Write(state, index, next) ==
  /\ current_state = state
  /\ CanWrite(conf_out, OutDepth)
  /\ conf_out' = Append(conf_out, Word(index))
  /\ current_state' = next
  /\ UNCHANGED <<notifs_in, input_type, notif>>

WriteWord1 == Write("WORD1", 1, "WORD2")

(* Mutant: a notification of three words ends with its second. *)
WriteWord2Ends == Write("WORD2", 2, IF input_type = "config" THEN "WORD3" ELSE "IDLE")

WriteWord2 ==
  Write("WORD2", 2, IF input_type \in {"config", "tick2cancel"} THEN "WORD3" ELSE "IDLE")

WriteWord3 == Write("WORD3", 3, "IDLE")

p_broadcast_notifications ==
  (\E s \in Sources : Take(s)) \/ WriteWord1 \/ WriteWord2 \/ WriteWord3
=============================================================================
