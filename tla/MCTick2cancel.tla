--------------------------- MODULE MCTick2cancel ---------------------------
(***************************************************************************)
(* Two instruments with different configurations and books: instrument 0   *)
(* can fire on either side, instrument 1 on the bid side only and with     *)
(* other numbers, so an answer taken for the wrong instrument changes the  *)
(* verdict.  The feed has packet announcements, trades of both instruments *)
(* and a trade that spans two words, the second looking like a trade.      *)
(***************************************************************************)
EXTENDS Tick2cancelSystem, TLC

MCInstruments == {0, 1}
MCPrices == 0..5
MCPackets == {0, 1}

Word(opcode, eoe, price, instr, p) ==
  [opcode |-> opcode, end_of_extra |-> eoe, buy_nsell |-> 0, price |-> price,
   instr_id |-> instr, packet |-> p, level |-> 0]

MCFeed == {Word("PKT_INFO", TRUE, 0, 0, 1),
           Word("TRADE_SUMMARY", TRUE, 1, 0, 0), Word("TRADE_SUMMARY", TRUE, 5, 0, 0),
           Word("TRADE_SUMMARY", TRUE, 1, 1, 0), Word("TRADE_SUMMARY", FALSE, 5, 1, 0),
           Word("OTHER", TRUE, 3, 0, 0)}

Conf(enabled, threshold, collection) ==
  [enabled |-> enabled, t2c_threshold |-> threshold, t2c_collection |-> collection,
   bid_price |-> 0, bid_collection |-> 0, ask_price |-> 0, ask_collection |-> 0]
Half(present, price) == [present |-> present, toplevel_price |-> price]

MCConfOf == (0 :> Conf(TRUE, 1, 7)) @@ (1 :> Conf(TRUE, 2, 9))
MCBookOf == (0 :> [s \in Side |-> IF s = 0 THEN Half(TRUE, 4) ELSE Half(TRUE, 2)])
         @@ (1 :> [s \in Side |-> IF s = 0 THEN Half(FALSE, 0) ELSE Half(TRUE, 3)])
=============================================================================
