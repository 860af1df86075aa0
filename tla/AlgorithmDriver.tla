-------------------------- MODULE AlgorithmDriver --------------------------
(***************************************************************************)
(* The host library: AlgorithmDriver, which sends configurations and       *)
(* triggers and tries again while the DMA has no room; StandAloneTrigger,  *)
(* which sends triggers and does not try again; AlgorithmDispatcher, which *)
(* hands each message received to the user's handler.                      *)
(*                                                                         *)
(* Both senders use the stream "user0".  A message is known by its number; *)
(* Requests gives what the user asked for.  An argument is its size and    *)
(* its bytes, these taken as one value.                                    *)
(***************************************************************************)
EXTENDS HlsStream, HostMessages

CONSTANTS
  Requests,  (* per message number, the configuration or trigger asked   *)
  Asks,      (* per sender, the messages it is asked to send             *)
  TxDepth    (* messages the DMA takes from the host before it is full   *)

ASSUME DriverAssumption ==
  /\ 0 \notin DOMAIN Requests
  /\ \A m \in DOMAIN Requests : Requests[m].kind \in {"configuration", "trigger"}
  /\ Asks \in [{"driver", "standalone"} -> SUBSET DOMAIN Requests]
  /\ \A m \in Asks["standalone"] : Requests[m].kind = "trigger"
  /\ TxDepth \in Nat \ {0}

VARIABLES
  c2a_stream,  \* messages sent and not yet taken by the design
  call,        \* per sender, the message of the call under way
  result       \* the error code the last call returned, "none" or "error"

driverVars == <<c2a_stream, call, result>>

MsgIds == DOMAIN Requests
Senders == {"driver", "standalone"}
NoCall == 0

LocalInit ==
  /\ c2a_stream = <<>> /\ call = [s \in Senders |-> NoCall] /\ result = "none"
-----------------------------------------------------------------------------
(* The bytes of a 16 bit integer of the host, a little-endian machine, as  *)
(* the design reads them.                                                  *)
Native16(n) == (n % 2^8) * 2^8 + n \div 2^8

buildCpuToFpgaHeader(module, size) ==
  [version |-> 1, dest |-> module, msg_type |-> 1, ack_request |-> 1, reserved |-> 1,
   timestamp |-> 0, length |-> Native16(size)]

(* bind_arguments: an argument of more than 16 bytes is refused, an empty  *)
(* one leaves its bit and its bytes 0.                                     *)
Binds(args) == \A i \in 1..5 : args[i].size =< 16
BitOf(args, i, n) == IF args[i].size # 0 THEN 2^n ELSE 0

Bitmap(args) == BitOf(args, 1, 0) + BitOf(args, 2, 1) + BitOf(args, 3, 2)
                  + BitOf(args, 4, 3) + BitOf(args, 5, 4)
Arg(args, i) == IF args[i].size = 0 THEN 0 ELSE args[i].bytes

bind_arguments(collection, args) ==
  [collection_id |-> Native16(collection), arg_bitmap |-> Bitmap(args),
   arg0 |-> Arg(args, 1), arg1 |-> Arg(args, 2), arg2 |-> Arg(args, 3),
   arg3 |-> Arg(args, 4), arg4 |-> Arg(args, 5)]

(* The fields of each request's message.  The user puts those of a         *)
(* configuration in network order, as the demo does.                       *)
Message ==
  [m \in MsgIds |->
     LET r == Requests[m]
     IN IF r.kind = "configuration"
        THEN Join(buildCpuToFpgaHeader(8, SizeOf.configuration), r.fields)
        ELSE Join(buildCpuToFpgaHeader(9, SizeOf.trigger),
                  bind_arguments(r.collection, r.args))]
-----------------------------------------------------------------------------
Returns(s, error) == call' = [call EXCEPT ![s] = NoCall] /\ result' = error

(* sendConfiguration, trigger: a trigger whose arguments do not bind       *)
(* returns at once.                                                        *)
Call(s, m) ==
  /\ call[s] = NoCall
  /\ IF Requests[m].kind = "trigger" /\ ~Binds(Requests[m].args)
     THEN Returns(s, "error")
     ELSE call' = [call EXCEPT ![s] = m] /\ UNCHANGED result
  /\ UNCHANGED c2a_stream

(* A try that finds room sends the message whole. *)
Send(s) ==
  /\ call[s] # NoCall
  /\ CanWrite(c2a_stream, TxDepth)
  /\ c2a_stream' = Append(c2a_stream, call[s])
  /\ Returns(s, "none")

(* Mutant: the last try's error is lost. *)
GiveUpForgets(s) ==
  /\ call[s] # NoCall /\ ~CanWrite(c2a_stream, TxDepth)
  /\ Returns(s, "none")
  /\ UNCHANGED c2a_stream

(* A try that finds no room, and is the last: StandAloneTrigger tries once,*)
(* the driver until 100 ms are over (retry_on_eagain_with_timeout).  A try *)
(* of the driver that is not the last changes nothing.                     *)
GiveUp(s) ==
  /\ call[s] # NoCall /\ ~CanWrite(c2a_stream, TxDepth)
  /\ Returns(s, "error")
  /\ UNCHANGED c2a_stream

(* The DMA refuses a try for another reason: no sender tries again. *)
SendFails(s) ==
  /\ call[s] # NoCall
  /\ Returns(s, "error")
  /\ UNCHANGED c2a_stream

Sending(s) == Send(s) \/ GiveUp(s)
-----------------------------------------------------------------------------
(* The messages of the modules the dispatcher knows, by source. *)
Known ==
  [source \in {8, 10, 11} |->
     CASE source = 8  -> [on |-> "ack", layout |-> InstrumentConfigurationAckMessage]
       [] source = 10 -> [on |-> "tick2cancel", layout |-> TickToCancelNotificationMessage]
       [] source = 11 -> [on |-> "tick2trade", layout |-> TickToTradeNotificationMessage]]

(* AlgorithmDispatcher::operator(): what the user's handler is called with *)
(* for a message of that many bytes.                                       *)
Dispatched(size, header) ==
  IF size =< 8 \/ header.length # size \/ header.version # 1 THEN "CORRUPTED_APPLICATION_HEADER"
  ELSE IF header.source \notin DOMAIN Known THEN "UNKNOWN_ALGORITHM_MESSAGE"
  ELSE Known[header.source].on
=============================================================================
