---------------------------- MODULE BooksSystem ----------------------------
(***************************************************************************)
(* The two book processes with a feed of nxBus words and two clients.      *)
(* History variables record what the feed said and what was asked.         *)
(***************************************************************************)
EXTENDS BooksData

CONSTANTS
  Feed,      (* the words the feed may carry, one of them at any place     *)
  MaxWords,  (* bound on the words fed                                     *)
  MaxAsked   (* per client, bound on the reads it has under way            *)

ASSUME BooksSystemAssumption ==
  Feed \subseteq nxbus /\ MaxWords \in Nat /\ MaxAsked \in [Clients -> Nat]

VARIABLES
  fed,      \* number of words fed
  opening,  \* the first word of the command p_book_updates is reading
  told,     \* the best prices the completed level 0 updates told
  asked     \* per client, the reads not taken yet: their instrument, and
            \* the books the memory held for it since they were asked

vars == <<updatesVars, requestsVars, booksStreams, fed, opening, told, asked>>

BookAt(memory, i) == [s \in Side |-> memory[s][i]]

Init ==
  /\ LocalInit
  /\ nxbus_outputs = [i \in {UpdateBus} |-> <<>>] /\ book_update_bus = <<>>
  /\ read_book_request_bus = [i \in Clients |-> <<>>]
  /\ books = [i \in Clients |-> <<>>]
  /\ fed = 0 /\ opening = <<>>
  /\ told = books_data
  /\ asked = [i \in Clients |-> <<>>]

FeedWord ==
  /\ fed < MaxWords /\ fed' = fed + 1
  /\ CanWrite(nxbus_outputs[UpdateBus], StreamDepth)
  /\ \E word \in Feed :
       nxbus_outputs' = [nxbus_outputs EXCEPT ![UpdateBus] = Append(@, word)]
  /\ UNCHANGED <<updatesVars, requestsVars, book_update_bus, read_book_request_bus,
                 books, opening, told, asked>>

(* p_book_updates, and what the word it reads tells: at the last word of a *)
(* level 0 book update the first word's price is the best of its side.     *)
Updates ==
  /\ p_book_updates
  /\ IF updates_at = "read"
     THEN LET word == Head(nxbus_outputs[UpdateBus])
              first == IF opening = <<>> THEN word ELSE opening[1]
          IN /\ opening' = IF word.end_of_extra THEN <<>> ELSE <<first>>
             /\ told' = IF /\ word.end_of_extra
                           /\ first.opcode = "BOOK_UPDATE" /\ first.level = 0
                        THEN WithUpdate(told, [side |-> first.buy_nsell,
                                               book_index |-> first.instr_id,
                                               toplevel_price |-> first.price])
                        ELSE told
     ELSE UNCHANGED <<opening, told>>
  /\ UNCHANGED <<fed, asked>>

Requests ==
  /\ p_book_requests
  /\ asked' = [i \in Clients |-> [j \in 1..Len(asked[i]) |->
                 [asked[i][j] EXCEPT !.held = @ \cup {BookAt(books_data', asked[i][j].instr)}]]]
  /\ UNCHANGED <<fed, opening, told>>

Ask(i) ==
  /\ Len(asked[i]) < MaxAsked[i]
  /\ CanWrite(read_book_request_bus[i], StreamDepth)
  /\ \E instr \in Instruments :
       /\ read_book_request_bus' = [read_book_request_bus EXCEPT ![i] = Append(@, instr)]
       /\ asked' = [asked EXCEPT ![i] =
                      Append(@, [instr |-> instr, held |-> {BookAt(books_data, instr)}])]
  /\ UNCHANGED <<updatesVars, requestsVars, nxbus_outputs, book_update_bus, books,
                 fed, opening, told>>

TakeAnswer(i) ==
  /\ books[i] # <<>>
  /\ books' = [books EXCEPT ![i] = Tail(@)]
  /\ asked' = [asked EXCEPT ![i] = Tail(@)]
  /\ UNCHANGED <<updatesVars, requestsVars, nxbus_outputs, book_update_bus,
                 read_book_request_bus, fed, opening, told>>

Next == \/ FeedWord \/ Updates \/ Requests
        \/ \E i \in Clients : Ask(i) \/ TakeAnswer(i)

Spec == Init /\ [][Next]_vars

(* Both processes run at every clock, and the strategies take answers. *)
FairSpec == /\ Spec /\ WF_vars(Updates) /\ WF_vars(Requests)
            /\ \A i \in Clients : WF_vars(TakeAnswer(i))
-----------------------------------------------------------------------------
UpdateRequest == [book_index: Instruments, side: Side, toplevel_price: Prices]

(* The streams hold at most their depth of well-formed words. *)
TypeOK ==
  /\ IsBus(nxbus_outputs, {UpdateBus}, nxbus, StreamDepth)
  /\ IsStream(book_update_bus, UpdateRequest, StreamDepth)
  /\ IsBus(read_book_request_bus, Clients, Instruments, StreamDepth)
  /\ IsBus(books, Clients, Book, StreamDepth)
  /\ start_of_nxbus_command \in BOOLEAN /\ current_opcode \in Opcode
  /\ output \in UpdateRequest /\ updates_at \in {"read", "write"}
  /\ books_data \in [Side -> [Instruments -> HalfBook]]
  /\ requests_at \in {"turn", "serve", "answer"}
  /\ book_client \in Clients /\ book_answer \in Book

(* The updates p_book_requests has yet to apply. *)
PendingUpdates ==
  IF updates_at = "write" THEN Append(book_update_bus, output) ELSE book_update_bus

(* The last one of them that is of this half book. *)
Updated(s, i, n) ==
  PendingUpdates[n].side = s /\ PendingUpdates[n].book_index = i
IsLastUpdate(s, i, n) ==
  Updated(s, i, n) /\ \A m \in (n + 1)..Len(PendingUpdates) : ~Updated(s, i, m)

(* What a half book may hold once every update is applied: the latest      *)
(* level 0 price the feed told of it, or, of a half book it told nothing   *)
(* of, nothing.  The one exception is the sell side of instrument 0, which *)
(* the static output names after a reset: a command of several words on    *)
(* another level sends output as it is, at price 0.                        *)
Expected(s, i) ==
  IF told[s][i].present THEN {told[s][i]}
  ELSE {NoBook[s]} \cup IF s = 0 /\ i = 0 THEN {[present |-> TRUE, toplevel_price |-> 0]}
                        ELSE {}

(* Once the updates under way are applied, every half book is the latest   *)
(* the feed told on level 0, and one it told nothing of is absent, but for *)
(* the half book of Expected's exception: an update of several words is    *)
(* neither lost nor applied half read, and the update sent again by a      *)
(* command on another level puts nothing out of date back.                 *)
LatestPrices ==
  \A s \in Side, i \in Instruments :
    \/ \E n \in 1..Len(PendingUpdates) :
         /\ IsLastUpdate(s, i, n)
         /\ [present |-> TRUE, toplevel_price |-> PendingUpdates[n].toplevel_price]
              \in Expected(s, i)
    \/ /\ \A n \in 1..Len(PendingUpdates) : ~Updated(s, i, n)
       /\ books_data[s][i] \in Expected(s, i)

(* What books.hpp:142 says of p_book_updates, "only keep level 0 of buy or *)
(* sell side": a half book is present only if the feed told its level 0.   *)
OnlyLevel0 ==
  \A s \in Side, i \in Instruments : books_data[s][i].present => told[s][i].present

(* Each client gets one answer per read, in order, and each answer is a    *)
(* book the memory held for that instrument between the request and the    *)
(* answer: never another instrument's and never older than the request.    *)
FreshReads ==
  \A i \in Clients :
    LET held == IF requests_at = "answer" /\ book_client = i THEN <<book_answer>> ELSE <<>>
        answers == books[i] \o held
    IN /\ Len(asked[i]) = Len(answers) + Len(read_book_request_bus[i])
       /\ \A j \in 1..Len(answers) : answers[j] \in asked[i][j].held
       /\ \A j \in 1..Len(read_book_request_bus[i]) :
            read_book_request_bus[i][j] = asked[i][Len(answers) + j].instr

(* Every read is answered once the updates pause, whichever client it is   *)
(* of and however often the other one asks.                                *)
EveryReadAnswered ==
  \A i \in Clients : read_book_request_bus[i] # <<>> ~> read_book_request_bus[i] = <<>>
=============================================================================
