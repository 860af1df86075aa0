-------------------------- MODULE AlgorithmService --------------------------
(***************************************************************************)
(* What the host library and the design promise each other: a request the  *)
(* library reports as sent is carried out, once and in the order of the    *)
(* requests, and with the values asked for; a configuration is then told   *)
(* to the handler, once.  A request reported as not sent leaves no trace.  *)
(***************************************************************************)
EXTENDS Sequences

CONSTANTS
  Configurations,  (* per configuration request, the values asked for *)
  Triggers         (* per trigger request, the arguments asked for    *)

VARIABLES
  requested,  \* the requests reported as sent and not yet carried out
  acks,       \* the configurations carried out and not yet told
  commands,   \* the trigger commands not yet taken
  told,       \* the configuration told last, if any
  result      \* the error the last request that ended was reported with

Init == requested = <<>> /\ acks = <<>> /\ commands = <<>> /\ told = <<>> /\ result = "none"

Request ==
  /\ \E m \in DOMAIN Configurations \cup DOMAIN Triggers : requested' = Append(requested, m)
  /\ result' = "none"
  /\ UNCHANGED <<acks, commands, told>>

Refuse ==
  /\ result' # "none"
  /\ UNCHANGED <<requested, acks, commands, told>>

CarryOut ==
  /\ requested # <<>> /\ requested' = Tail(requested)
  /\ \/ /\ Head(requested) \in DOMAIN Configurations
        /\ acks' = Append(acks, Configurations[Head(requested)])
        /\ UNCHANGED commands
     \/ /\ Head(requested) \in DOMAIN Triggers
        /\ commands' = Append(commands, Triggers[Head(requested)])
        /\ UNCHANGED acks
  /\ UNCHANGED <<told, result>>

Tell ==
  /\ acks # <<>> /\ acks' = Tail(acks) /\ told' = <<Head(acks)>>
  /\ UNCHANGED <<requested, commands, result>>

TakeCommand ==
  /\ commands # <<>> /\ commands' = Tail(commands)
  /\ UNCHANGED <<requested, acks, told, result>>

Next == Request \/ Refuse \/ CarryOut \/ Tell \/ TakeCommand

Spec == Init /\ [][Next]_<<requested, acks, commands, told, result>>
=============================================================================
