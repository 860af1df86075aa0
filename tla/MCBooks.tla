------------------------------ MODULE MCBooks ------------------------------
(***************************************************************************)
(* Two instruments, level 0 updates of one and of several words, updates   *)
(* of a deeper level of one and of several words, and extra words.         *)
(* Tick2cancel may have two reads under way, Tick2trade one.               *)
(***************************************************************************)
EXTENDS BooksSystem, TLC

MCInstruments == {0, 1}
MCPrices == 0..3
MCPackets == {0}

Word(opcode, eoe, side, price, instr, level) ==
  [opcode |-> opcode, end_of_extra |-> eoe, buy_nsell |-> side, price |-> price,
   instr_id |-> instr, packet |-> 0, level |-> level]

MCMaxAsked == 0 :> 2 @@ 1 :> 1

MCFeed == {Word("BOOK_UPDATE", TRUE, 0, 1, 0, 0), Word("BOOK_UPDATE", FALSE, 0, 2, 0, 0),
           Word("BOOK_UPDATE", TRUE, 1, 3, 1, 0),
           Word("BOOK_UPDATE", FALSE, 1, 1, 1, 1), Word("OTHER", TRUE, 0, 3, 0, 1)}
=============================================================================
