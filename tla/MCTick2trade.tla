---------------------------- MODULE MCTick2trade ----------------------------
(***************************************************************************)
(* Two instruments: 0 can fire on both sides, 1 on the buy side only and   *)
(* at another price.  The feed has packets, trades of both instruments and *)
(* sides, and a trade that spans two words.                                *)
(***************************************************************************)
EXTENDS Tick2tradeSystem, TLC

MCInstruments == {0, 1}
MCPrices == 0..5
MCPackets == {0, 1}

Word(opcode, eoe, side, price, instr, p) ==
  [opcode |-> opcode, end_of_extra |-> eoe, buy_nsell |-> side, price |-> price,
   instr_id |-> instr, packet |-> p, level |-> 0]

MCFeed == {Word("PKT_INFO", TRUE, 0, 0, 0, 1),
           Word("TRADE_SUMMARY", TRUE, 1, 4, 0, 0), Word("TRADE_SUMMARY", TRUE, 0, 1, 0, 0),
           Word("TRADE_SUMMARY", TRUE, 1, 4, 1, 0), Word("TRADE_SUMMARY", FALSE, 0, 1, 1, 0),
           Word("OTHER", TRUE, 0, 3, 0, 0)}

Conf(enabled, bid, ask, collection) ==
  [enabled |-> enabled, t2c_threshold |-> 0, t2c_collection |-> 0,
   bid_price |-> bid, bid_collection |-> collection,
   ask_price |-> ask, ask_collection |-> collection + 1]

MCConfOf == (0 :> Conf(TRUE, 3, 2, 7)) @@ (1 :> Conf(TRUE, 2, 0, 9))
=============================================================================
