------------------------ MODULE NotificationChannel ------------------------
(***************************************************************************)
(* What the way from the modules to the host promises: every notification  *)
(* posted is taken and delivered whole, once, and in the order its module  *)
(* posted it.  Whose is taken next is not said.                            *)
(***************************************************************************)
EXTENDS Sequences

CONSTANTS Sources, Ids

VARIABLES
  waiting,   \* per module, the notifications posted and not taken yet
  line,      \* those taken and not delivered yet, with their modules
  delivered  \* the notification the host received last, if any

Init == waiting = [s \in Sources |-> <<>>] /\ line = <<>> /\ delivered = <<>>

Post(s) ==
  /\ \E id \in Ids : waiting' = [waiting EXCEPT ![s] = Append(@, id)]
  /\ UNCHANGED <<line, delivered>>

Take(s) ==
  /\ waiting[s] # <<>>
  /\ waiting' = [waiting EXCEPT ![s] = Tail(@)]
  /\ line' = Append(line, <<s, Head(waiting[s])>>)
  /\ UNCHANGED delivered

Deliver ==
  /\ line # <<>>
  /\ line' = Tail(line) /\ delivered' = Head(line)
  /\ UNCHANGED waiting

Next == (\E s \in Sources : Post(s) \/ Take(s)) \/ Deliver

Spec == Init /\ [][Next]_<<waiting, line, delivered>>
=============================================================================
