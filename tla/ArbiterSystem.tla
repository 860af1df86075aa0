--------------------------- MODULE ArbiterSystem ---------------------------
(***************************************************************************)
(* The arbiter with one source per bus, each writing packets of any number *)
(* of words, and a consumer of the trigger bus.                            *)
(***************************************************************************)
EXTENDS Arbiter

CONSTANT BusDepth

ASSUME ArbiterSystemAssumption == BusDepth \in Nat \ {0}

VARIABLES
  taken_word,  \* the last word the consumer took
  waited       \* per bus, packets granted to others while it had a word ready

arbiterSystemVars == <<bus_in, out, arbiterVars, taken_word, waited>>

CommandWord == [bus: Buses, last: BOOLEAN]

ArbiterInit ==
  /\ ArbiterLocalInit
  /\ bus_in = [b \in Buses |-> <<>>] /\ out = <<>>
  /\ taken_word = [bus |-> 0, last |-> TRUE]
  /\ waited = [b \in Buses |-> 0]

Produce(b) ==
  /\ CanWrite(bus_in[b], BusDepth)
  /\ \E last \in BOOLEAN :
       bus_in' = [bus_in EXCEPT ![b] = Append(@, [bus |-> b, last |-> last])]
  /\ UNCHANGED <<out, arbiterVars, taken_word, waited>>

(* A grant is one more packet all other buses with a word ready wait for.  *)
(* The count stops at BusCount, where BoundedWait is already violated.     *)
GrantCounted ==
  /\ Grant
  /\ waited' = [b \in Buses |->
                 IF b = last_used_bus_id' \/ bus_in[b] = <<>> THEN 0
                 ELSE IF waited[b] < BusCount THEN waited[b] + 1 ELSE BusCount]
  /\ UNCHANGED taken_word

ContinueCounted == Continue /\ UNCHANGED <<taken_word, waited>>

TakeTrigger ==
  /\ out # <<>>
  /\ taken_word' = Head(out) /\ out' = Tail(out)
  /\ UNCHANGED <<bus_in, arbiterVars, waited>>

ArbiterNext ==
  \/ \E b \in Buses : Produce(b)
  \/ GrantCounted \/ ContinueCounted \/ TakeTrigger

ArbiterSpec == ArbiterInit /\ [][ArbiterNext]_arbiterSystemVars

(* A source goes on with a packet it began; whether it begins another is   *)
(* its own affair.  The arbiter runs at every clock.                       *)
MidPacket(b) == state = "FORWARDING" /\ last_used_bus_id = b
ArbiterFairSpec ==
  /\ ArbiterSpec
  /\ WF_arbiterSystemVars(GrantCounted \/ ContinueCounted) /\ WF_arbiterSystemVars(TakeTrigger)
  /\ \A b \in Buses : WF_arbiterSystemVars(MidPacket(b) /\ bus_in[b] = <<>> /\ Produce(b))
-----------------------------------------------------------------------------
(* The streams hold words of their own bus.                                *)
ArbiterTypeOK ==
  /\ IsBus(bus_in, Buses, CommandWord, BusDepth)
  /\ IsStream(out, CommandWord, TriggerDepth)
  /\ last_used_bus_id \in Buses
  /\ state \in {"IDLE", "FORWARDING"}
  /\ taken_word \in CommandWord
  /\ waited \in [Buses -> Nat]
  /\ \A b \in Buses : \A j \in 1..Len(bus_in[b]) : bus_in[b][j].bus = b

(* What the consumer sees, from the last word it took on. *)
Seen == <<taken_word>> \o out
LastSeen == Seen[Len(Seen)]

(* Packets are never interleaved on the trigger bus: after a word that is  *)
(* not the last of its packet comes a word of the same bus.                *)
NoInterleaving ==
  \A j \in 1..(Len(Seen) - 1) : Seen[j].last \/ Seen[j + 1].bus = Seen[j].bus

(* The arbiter is in the middle of a packet exactly when the last word out *)
(* was not its packet's last, and then it is that packet's bus it serves.  *)
StateMatchesOutput ==
  /\ (state = "IDLE") <=> LastSeen.last
  /\ state = "FORWARDING" => LastSeen.bus = last_used_bus_id

(* How far the scan is from a bus: 1 is looked at first. *)
Distance(b) ==
  IF b > last_used_bus_id THEN b - last_used_bus_id
                          ELSE b - last_used_bus_id + BusCount

(* A bus with a word ready sees at most BusCount - 1 packets of the others *)
(* go before its own, and one less for each place the scan has come        *)
(* nearer.                                                                 *)
BoundedWait == \A b \in Buses : waited[b] + Distance(b) =< BusCount

(* Every command reaches the trigger bus, if the packets begun are ended.  *)
(* A source may write packets that never end: these are excluded.          *)
EveryBusServed ==
  ([]<>(state = "IDLE")) =>
    \A b \in Buses : [](Len(bus_in[b]) = BusDepth => <>(Len(bus_in[b]) < BusDepth))
=============================================================================
