------------------------------ MODULE Arbiter ------------------------------
(***************************************************************************)
(* The round robin arbiter of arbiter.hpp, which merges the trigger        *)
(* commands of the strategies, the TCP consumer and the software trigger.  *)
(* A bus is granted for a whole packet, to its last word.                  *)
(*                                                                         *)
(* One iteration reads a word and writes it.  The word the iteration holds *)
(* while its write blocks is counted in TriggerDepth.                          *)
(***************************************************************************)
EXTENDS HlsStream

CONSTANTS BusCount, TriggerDepth

ASSUME ArbiterAssumption == BusCount \in Nat \ {0} /\ TriggerDepth \in Nat \ {0}

VARIABLES bus_in, out, last_used_bus_id, state

arbiterVars == <<last_used_bus_id, state>>

Buses == 0..(BusCount - 1)

ArbiterLocalInit == last_used_bus_id = 0 /\ state = "IDLE"

(* Mutant: the scan starts again at the bus served last. *)
ScannedFromSame(i) ==
  LET b == last_used_bus_id + i - 1 IN IF b >= BusCount THEN b - BusCount ELSE b

(* The i-th bus looked at: the one served last comes last. *)
Scanned(i) ==
  LET b == last_used_bus_id + i IN IF b >= BusCount THEN b - BusCount ELSE b

Forward(b) ==
  /\ bus_in[b] # <<>>
  /\ CanWrite(out, TriggerDepth)
  /\ bus_in' = [bus_in EXCEPT ![b] = Tail(@)]
  /\ out' = Append(out, Head(bus_in[b]))

(* Mutant: the grant ends with every word. *)
GrantWord ==
  /\ state = "IDLE"
  /\ \E i \in 1..BusCount :
       /\ \A j \in 1..(i - 1) : bus_in[Scanned(j)] = <<>>
       /\ Forward(Scanned(i))
       /\ last_used_bus_id' = Scanned(i)
  /\ UNCHANGED state

(* IDLE: the first bus of the scan with a word is granted. *)
Grant ==
  /\ state = "IDLE"
  /\ \E i \in 1..BusCount :
       /\ \A j \in 1..(i - 1) : bus_in[Scanned(j)] = <<>>
       /\ Forward(Scanned(i))
       /\ last_used_bus_id' = Scanned(i)
       /\ state' = IF Head(bus_in[Scanned(i)]).last THEN "IDLE" ELSE "FORWARDING"

(* FORWARDING: no other bus is looked at before the packet's last word. *)
Continue ==
  /\ state = "FORWARDING"
  /\ Forward(last_used_bus_id)
  /\ state' = IF Head(bus_in[last_used_bus_id]).last THEN "IDLE" ELSE "FORWARDING"
  /\ UNCHANGED last_used_bus_id

p_arbitrate == Grant \/ Continue
=============================================================================
