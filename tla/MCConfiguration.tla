-------------------------- MODULE MCConfiguration --------------------------
(***************************************************************************)
(* Two instruments and two updates of the first of them, the second with   *)
(* a byte other than 0 or 1 in enabled.  Every field tells the messages    *)
(* apart.  Tick2cancel may have two reads under way, Tick2trade one.       *)
(***************************************************************************)
EXTENDS ConfigurationSystem, TLC

MCInstruments == {0, 1}
MCPrices == 0..2
MCPackets == {0}
MCMessages == 0..2

Fields(instr, enabled, m) ==
  [instr_id |-> instr, enabled |-> enabled, t2c_threshold |-> m, t2c_collection |-> m,
   bid_price |-> m, bid_collection |-> m, ask_price |-> m, ask_collection |-> m]
MCConf == [m \in MCMessages |-> Fields(0, m, m)]

MCMaxAsked == 0 :> 2 @@ 1 :> 1

Updates == {"configuration"} \X {1, 2}
Triggers == {<<"software_trigger", 2>>}
AllPackets == Updates \cup Triggers \cup {<<"two_word_unknown", 1>>}
UpdatesAndOneWord == Updates \cup {<<"one_word_unknown", 1>>}
=============================================================================
