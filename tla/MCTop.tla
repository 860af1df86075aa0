------------------------------- MODULE MCTop -------------------------------
(***************************************************************************)
(* One instrument, configured so that every trade fires in Tick2trade, and *)
(* in Tick2cancel when its book has an update older than the trade.  The   *)
(* last two feeds have an update before their last trade that is exactly   *)
(* Lag words older, and one more: the words between let the feed run on.   *)
(***************************************************************************)
EXTENDS Top, TLC

MCPrices == 0..6

MCLoaded == 0 :> [instr_id |-> 0, enabled |-> 1, t2c_threshold |-> 1, t2c_collection |-> 7,
                  bid_price |-> 0, bid_collection |-> 0,
                  ask_price |-> 6, ask_collection |-> 9]

U == "BOOK_UPDATE"
T == "TRADE_SUMMARY"
O == "OTHER"
MCFeeds == {<<T, T, T>>, <<U, T, T>>, <<T, U, T>>,
            <<U, O, T, O, T>>, <<U, O, T, O, O, T>>}

(* The feed is at its end and so is its treatment: not a deadlock, while a *)
(* state that is not drained and has no next step is reported as one.      *)
Finished == Drained /\ UNCHANGED vars
MCSpec == Init /\ [][Next \/ Finished]_vars
=============================================================================
