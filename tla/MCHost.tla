------------------------------- MODULE MCHost -------------------------------
(***************************************************************************)
(* Two updates of one instrument, by the driver; a trigger with its        *)
(* second, fourth and last arguments left out, and one with an argument    *)
(* that is too long, by the standalone trigger.  Every field of a request  *)
(* has a value of its own.                                                 *)
(***************************************************************************)
EXTENDS HostSystem

MCInstruments == {0}
MCPrices == 0..30
MCPackets == {0}

Update(enabled, base) ==
  [kind |-> "configuration",
   fields |-> [instr_id |-> 0, enabled |-> enabled, t2c_threshold |-> base + 1,
               t2c_collection |-> base + 2, bid_price |-> base + 3,
               bid_collection |-> base + 4, ask_price |-> base + 5,
               ask_collection |-> base + 6]]

TriggerOf(sizes) ==
  [kind |-> "trigger", collection |-> 1,
   args |-> [i \in 1..5 |-> [size |-> sizes[i], bytes |-> 100 + i]]]

MCRequests ==
  <<Update(1, 10), Update(2, 20), TriggerOf(<<16, 0, 1, 0, 0>>), TriggerOf(<<1, 17, 1, 1, 1>>)>>
MCAsks == [driver |-> {1, 2}, standalone |-> {3, 4}]
MCNotifying == {"tick2trade", "tcp"}
=============================================================================
