-------------------------------- MODULE Nxbus --------------------------------
(***************************************************************************)
(* The words of the nxBus market data bus (nxbus.hpp), reduced to the      *)
(* fields the decision blocks look at.  A command is one word or several;  *)
(* end_of_extra marks its last word.  On an extra word the opcode field    *)
(* carries data, so it may read as any opcode.                             *)
(***************************************************************************)
EXTENDS Integers

CONSTANTS
  Instruments, (* instrument ids the feed may carry                        *)
  Prices,      (* the prices, a set of integers                            *)
  Packets      (* market packets: the sequence number and source id a      *)
               (* PKT_INFO word carries in data0 and data1, as one number; *)
               (* 0 is the value of the statics before the first one       *)

ASSUME NxbusAssumption ==
  /\ Instruments \subseteq Nat /\ 0 \in Instruments
  /\ Prices \subseteq Nat /\ 0 \in Prices
  /\ Packets \subseteq Nat /\ 0 \in Packets

(* The opcodes the blocks tell apart, and one they all ignore. *)
Opcode == {"PKT_INFO", "TRADE_SUMMARY", "BOOK_UPDATE", "OTHER"}

(* buy_nsell: 1 on the buy side, 0 on the sell side. *)
Side == {0, 1}

nxbus == [opcode: Opcode, end_of_extra: BOOLEAN, buy_nsell: Side,
          price: Prices, instr_id: Instruments, packet: Packets,
          level: {0, 1}]

(* What the strategies retain of a trade summary, with its packet. *)
Trade == [instr_id: Instruments, price: Prices, packet: Packets]

(* One entry of the instrument configuration memory, configuration.hpp. *)
ConfItem == [enabled: BOOLEAN, t2c_threshold: Prices, t2c_collection: Nat,
             bid_price: Prices, bid_collection: Nat,
             ask_price: Prices, ask_collection: Nat]

(* One half of a book, and the book the strategies read: index 0 is the    *)
(* sell side, index 1 the buy side.                                        *)
HalfBook == [present: BOOLEAN, toplevel_price: Prices]
Book == [Side -> HalfBook]
=============================================================================
