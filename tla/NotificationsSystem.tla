------------------------ MODULE NotificationsSystem ------------------------
(***************************************************************************)
(* The notification process between modules that notify when they like and *)
(* a host that puts the words of a packet together again.  The history     *)
(* variable line holds the notifications taken whose packets the host has  *)
(* not read to the end; no action looks at it.                             *)
(***************************************************************************)
EXTENDS Notifications

CONSTANTS
  Notifying,  (* the modules that notify                                   *)
  InDepth     (* depth of the streams, 4 in top.cpp                        *)

ASSUME NotificationsSystemAssumption ==
  Notifying \subseteq Sources /\ InDepth \in Nat \ {0}

VARIABLES
  packet,   \* the words of the packet the host is receiving
  received, \* what it made of the last packet it received
  line      \* the notifications taken and not received, with their modules

hostVars == <<packet, received>>
vars == <<notifs_in, conf_out, notificationsVars, hostVars, line>>

Init ==
  /\ LocalInit
  /\ notifs_in = [s \in Sources |-> <<>>] /\ conf_out = <<>>
  /\ packet = <<>> /\ received = <<>> /\ line = <<>>

Notify(s) ==
  /\ CanWrite(notifs_in[s], InDepth)
  /\ \E id \in Ids : notifs_in' = [notifs_in EXCEPT ![s] = Append(@, id)]
  /\ UNCHANGED <<conf_out, notificationsVars, hostVars, line>>

Broadcast ==
  /\ p_broadcast_notifications
  /\ line' = IF current_state = "IDLE" THEN Append(line, <<input_type', notif'>>) ELSE line
  /\ UNCHANGED hostVars

(* The words the host reads as one notification: those of one packet, in   *)
(* the number the message of that module has.                              *)
IsMessage(words) ==
  /\ Len(words) = LastIndex(words[1].source)
  /\ \A i \in 1..Len(words) :
       words[i].index = i /\ words[i].source = words[1].source /\ words[i].id = words[1].id

HostReads ==
  /\ conf_out # <<>> /\ conf_out' = Tail(conf_out)
  /\ LET words == Append(packet, Head(conf_out))
     IN IF Head(conf_out).last
        THEN /\ packet' = <<>> /\ line' = Tail(line)
             /\ received' = IF IsMessage(words) THEN <<words[1].source, words[1].id>>
                                                ELSE <<"corrupted">>
        ELSE packet' = words /\ UNCHANGED <<received, line>>
  /\ UNCHANGED <<notifs_in, notificationsVars>>

Next == (\E s \in Notifying : Notify(s)) \/ Broadcast \/ HostReads

Spec == Init /\ [][Next]_vars

(* The process runs at every clock; the host goes on reading. *)
FairSpec == Spec /\ WF_vars(Broadcast) /\ WF_vars(HostReads)
-----------------------------------------------------------------------------
DmaWord == [source: Sources, id: Ids, index: 1..3, last: BOOLEAN]

(* The streams hold at most their depth of well-formed words, and the host *)
(* never has to hold more words than its largest notification has.         *)
TypeOK ==
  /\ IsBus(notifs_in, Sources, Ids, InDepth)
  /\ IsStream(conf_out, DmaWord, OutDepth)
  /\ current_state \in {"IDLE", "WORD1", "WORD2", "WORD3"}
  /\ input_type \in Sources \cup {"none"} /\ notif \in Ids
  /\ IsStream(packet, DmaWord, 2)
  /\ line \in Seq(Sources \X Ids)

Channel == INSTANCE NotificationChannel WITH waiting <- notifs_in, delivered <- received

(* The process implements the channel: what the host puts together from    *)
(* the words of p_broadcast_notifications is every notification of every   *)
(* module, whole, once and in order, however the modules interleave.       *)
ImplementsChannel == Channel!Spec

(* A module whose stream is full can write to it again once the modules    *)
(* IDLE looks at before it stop for good; the configuration's acks, looked *)
(* at first, never wait for that.                                          *)
NoStreamStaysFull ==
  \A s \in Notifying :
    (<>[](\A t \in Before(s) : notifs_in[t] = <<>>))
      => [](Len(notifs_in[s]) = InDepth => <>(Len(notifs_in[s]) < InDepth))
=============================================================================
