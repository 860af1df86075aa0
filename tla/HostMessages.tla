---------------------------- MODULE HostMessages ----------------------------
(***************************************************************************)
(* The messages between the host and the design, as each side lays them    *)
(* out: the packed structs of the host library (Protocol.hpp), the bits of *)
(* the 128 bit DMA words read_word and write_word use.                     *)
(*                                                                         *)
(* A layout gives each field its first bit on the wire and its width; bit  *)
(* 0 is the high bit of the first byte, the high bit of the first word.  A *)
(* field that one side lays out otherwise than the other reads as Garbled. *)
(***************************************************************************)
EXTENDS Integers

Garbled == -1

(* One function on the arguments of two, which have none in common. *)
Join(f, g) ==
  [x \in (DOMAIN f) \cup (DOMAIN g) |-> IF x \in DOMAIN f THEN f[x] ELSE g[x]]

(* The layout of a message cut into words: per field its word, high bit    *)
(* and low bit.                                                            *)
Bits(table) ==
  [name \in DOMAIN table |->
     <<128 * (table[name][1] - 1) + 127 - table[name][2],
       table[name][2] - table[name][3] + 1>>]

(* Per field of the reader's layout, the field of the writer's that is on  *)
(* the same bits.                                                          *)
FieldSent(writer, reader) ==
  [f \in DOMAIN reader |-> {g \in DOMAIN writer : writer[g] = reader[f]}]

(* What is read of a message of these values. *)
Read(sent, given) ==
  [f \in DOMAIN sent |->
     IF sent[f] = {} THEN Garbled ELSE given[CHOOSE g \in sent[f] : TRUE]]
-----------------------------------------------------------------------------
(* Of two bit-fields in a byte the first declared has the low bits. *)
CpuToFpgaHeader ==
  [version |-> <<0, 4>>, dest |-> <<4, 4>>, msg_type |-> <<8, 4>>, ack_request |-> <<12, 1>>,
   reserved |-> <<13, 3>>, timestamp |-> <<16, 32>>, length |-> <<48, 16>>]

FpgaToCpuHeader ==
  [version |-> <<0, 4>>, source |-> <<4, 4>>, msg_type |-> <<8, 4>>, error |-> <<12, 1>>,
   reserved |-> <<13, 3>>, timestamp |-> <<16, 32>>, length |-> <<48, 16>>]

(* It follows a header of 64 bits. *)
ConfigurationFields ==
  [t2c_threshold |-> <<64, 64>>, bid_price |-> <<128, 64>>, ask_price |-> <<192, 64>>,
   instr_id |-> <<256, 32>>, bid_collection |-> <<288, 16>>, t2c_collection |-> <<304, 16>>,
   ask_collection |-> <<320, 16>>, enabled |-> <<336, 8>>]

InstrumentConfigurationMessage == Join(CpuToFpgaHeader, ConfigurationFields)
InstrumentConfigurationAckMessage == Join(FpgaToCpuHeader, ConfigurationFields)

TriggerWithArgsMessage ==
  Join(CpuToFpgaHeader,
       [collection_id |-> <<64, 16>>, arg_bitmap |-> <<80, 8>>,
        arg0 |-> <<128, 128>>, arg1 |-> <<256, 128>>, arg2 |-> <<384, 128>>,
        arg3 |-> <<512, 128>>, arg4 |-> <<640, 128>>])

TickToCancelNotificationMessage ==
  Join(FpgaToCpuHeader,
       [trade_summary_price |-> <<64, 64>>, book_top_level_price |-> <<128, 64>>,
        threshold |-> <<192, 64>>, instrument_id |-> <<256, 32>>,
        sent_collection_id |-> <<288, 16>>, is_bid |-> <<304, 8>>])

TickToTradeNotificationMessage ==
  Join(FpgaToCpuHeader,
       [trade_summary_price |-> <<64, 64>>, threshold_price |-> <<128, 64>>,
        instrument_id |-> <<192, 32>>, sent_collection_id |-> <<224, 16>>,
        is_bid |-> <<240, 8>>])

(* sizeof the messages, in bytes. *)
SizeOf == [configuration |-> 48, trigger |-> 96]
-----------------------------------------------------------------------------
(* The header is the high half of the first word. *)
cpu2fpga_header ==
  [version |-> <<1, 127, 124>>, dest |-> <<1, 123, 120>>, msg_type |-> <<1, 119, 116>>,
   ack_request |-> <<1, 115, 115>>, reserved |-> <<1, 114, 112>>,
   timestamp |-> <<1, 111, 80>>, length |-> <<1, 79, 64>>]

fpga2cpu_header ==
  [version |-> <<1, 127, 124>>, source |-> <<1, 123, 120>>, msg_type |-> <<1, 119, 116>>,
   error |-> <<1, 115, 115>>, reserved |-> <<1, 114, 112>>,
   timestamp |-> <<1, 111, 80>>, length |-> <<1, 79, 64>>]

UpdateBits ==
  [t2c_threshold |-> <<1, 63, 0>>, bid_price |-> <<2, 127, 64>>, ask_price |-> <<2, 63, 0>>,
   instr_id |-> <<3, 127, 96>>, bid_collection |-> <<3, 95, 80>>,
   t2c_collection |-> <<3, 79, 64>>, ask_collection |-> <<3, 63, 48>>,
   enabled |-> <<3, 47, 40>>]

AckBits ==
  [t2c_threshold |-> <<1, 63, 0>>, bid_price |-> <<2, 127, 64>>, ask_price |-> <<2, 63, 0>>,
   instr_id |-> <<3, 127, 96>>, bid_collection |-> <<3, 95, 80>>,
   t2c_collection |-> <<3, 79, 64>>, ask_collection |-> <<3, 63, 48>>,
   enabled |-> <<3, 47, 40>>]

SoftwareTriggerBits ==
  [collection_id |-> <<1, 63, 48>>, arg_bitmap |-> <<1, 47, 40>>,
   arg0 |-> <<2, 127, 0>>, arg1 |-> <<3, 127, 0>>, arg2 |-> <<4, 127, 0>>,
   arg3 |-> <<5, 127, 0>>, arg4 |-> <<6, 127, 0>>]

(* notification_to_word, per module. *)
NotificationBits ==
  [tick2cancel |->
     [trade_summary_price |-> <<1, 63, 0>>, book_top_level_price |-> <<2, 127, 64>>,
      threshold |-> <<2, 63, 0>>, instrument_id |-> <<3, 127, 96>>,
      sent_collection_id |-> <<3, 95, 80>>, is_bid |-> <<3, 79, 72>>],
   tick2trade |->
     [trade_summary_price |-> <<1, 63, 0>>, threshold_price |-> <<2, 127, 64>>,
      instrument_id |-> <<2, 63, 32>>, sent_collection_id |-> <<2, 31, 16>>,
      is_bid |-> <<2, 15, 8>>],
   tcp |->
     [words |-> <<1, 63, 32>>, bytes |-> <<1, 31, 0>>, keep |-> <<2, 127, 102>>,
      user |-> <<2, 101, 96>>, session |-> <<2, 95, 80>>]]
=============================================================================
