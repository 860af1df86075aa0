----------------------------- MODULE BooksData -----------------------------
(***************************************************************************)
(* The books of books.hpp: p_book_updates filters the market data into     *)
(* updates of the best price of one side of one instrument, and            *)
(* p_book_requests applies them to the memory and answers the strategies'  *)
(* reads, updates first.                                                   *)
(***************************************************************************)
EXTENDS HlsStream, Nxbus

CONSTANT StreamDepth

ASSUME BooksDepthAssumption == StreamDepth \in Nat \ {0}

Clients == {0, 1}
UpdateBus == 2  \* nxbus_outputs[2]

VARIABLES
  nxbus_outputs, book_update_bus, read_book_request_bus, books,
  start_of_nxbus_command, current_opcode, output,  \* statics of p_book_updates
  updates_at,   \* "read" or "write"
  books_data,   \* the memory, one half book per side and instrument
  requests_at,  \* "turn", "serve" or "answer"
  book_client,  \* the loop index of the serving loop
  book_answer   \* the book read for that client

updatesVars == <<start_of_nxbus_command, current_opcode, output, updates_at>>
requestsVars == <<books_data, requests_at, book_client, book_answer>>
booksStreams == <<nxbus_outputs, book_update_bus, read_book_request_bus, books>>

NoBook == [s \in Side |-> [present |-> FALSE, toplevel_price |-> 0]]

LocalInit ==
  /\ start_of_nxbus_command = TRUE
  /\ current_opcode = "OTHER"
  /\ output = [book_index |-> 0, side |-> 0, toplevel_price |-> 0]
  /\ updates_at = "read"
  /\ books_data = [s \in Side |-> [i \in Instruments |-> NoBook[s]]]
  /\ requests_at = "turn" /\ book_client = 0 /\ book_answer = NoBook
-----------------------------------------------------------------------------
(* p_book_updates *)

(* A command of one word on level 0, or its first word. *)
OpensLevel0(word) ==
  start_of_nxbus_command /\ word.opcode = "BOOK_UPDATE" /\ word.level = 0

(* Mutant: the update is sent at the first word of a command, and again at *)
(* the last.                                                               *)
SendsAtOnce(word) ==
  \/ OpensLevel0(word)
  \/ ~start_of_nxbus_command /\ current_opcode = "BOOK_UPDATE" /\ word.end_of_extra

(* The word completes an update.  The extra words of a command are not     *)
(* asked whether its level was 0.                                          *)
Sends(word) ==
  /\ word.end_of_extra
  /\ OpensLevel0(word) \/ (~start_of_nxbus_command /\ current_opcode = "BOOK_UPDATE")

ReadUpdateWord ==
  /\ updates_at = "read" /\ nxbus_outputs[UpdateBus] # <<>>
  /\ LET word == Head(nxbus_outputs[UpdateBus])
     IN /\ output' = IF OpensLevel0(word)
                     THEN [book_index |-> word.instr_id, side |-> word.buy_nsell,
                           toplevel_price |-> word.price]
                     ELSE output
        /\ updates_at' = IF Sends(word) THEN "write" ELSE "read"
        /\ current_opcode' = IF start_of_nxbus_command THEN word.opcode ELSE current_opcode
        /\ start_of_nxbus_command' = word.end_of_extra
  /\ nxbus_outputs' = [nxbus_outputs EXCEPT ![UpdateBus] = Tail(@)]
  /\ UNCHANGED <<requestsVars, book_update_bus, read_book_request_bus, books>>

WriteUpdate ==
  /\ updates_at = "write"
  /\ CanWrite(book_update_bus, StreamDepth)
  /\ book_update_bus' = Append(book_update_bus, output)
  /\ updates_at' = "read"
  /\ UNCHANGED <<requestsVars, start_of_nxbus_command, current_opcode, output,
                 nxbus_outputs, read_book_request_bus, books>>

p_book_updates == ReadUpdateWord \/ WriteUpdate
-----------------------------------------------------------------------------
(* p_book_requests *)

WithUpdate(memory, update) ==
  [memory EXCEPT ![update.side][update.book_index] =
     [present |-> TRUE, toplevel_price |-> update.toplevel_price]]

ApplyUpdate ==
  /\ requests_at = "turn" /\ book_update_bus # <<>>
  /\ books_data' = WithUpdate(books_data, Head(book_update_bus))
  /\ book_update_bus' = Tail(book_update_bus)
  /\ UNCHANGED <<updatesVars, requests_at, book_client, book_answer, nxbus_outputs,
                 read_book_request_bus, books>>

(* No update to apply: the process turns to the requests.  A turn that     *)
(* would find no request is a stutter and is left out.                     *)
TurnToRequests ==
  /\ requests_at = "turn" /\ book_update_bus = <<>>
  /\ \E i \in Clients : read_book_request_bus[i] # <<>>
  /\ requests_at' = "serve" /\ book_client' = 0
  /\ UNCHANGED <<updatesVars, booksStreams, books_data, book_answer>>

(* The loop over the clients goes on, or the turn is over. *)
NextClient ==
  IF book_client = 0 THEN book_client' = 1 /\ requests_at' = "serve"
                     ELSE book_client' = 0 /\ requests_at' = "turn"

SkipClient ==
  /\ requests_at = "serve" /\ read_book_request_bus[book_client] = <<>>
  /\ NextClient
  /\ UNCHANGED <<updatesVars, booksStreams, books_data, book_answer>>

(* Mutant: the request stays in its stream. *)
PeekRequest ==
  /\ requests_at = "serve" /\ read_book_request_bus[book_client] # <<>>
  /\ book_answer' = [s \in Side |-> books_data[s][Head(read_book_request_bus[book_client])]]
  /\ requests_at' = "answer"
  /\ UNCHANGED <<updatesVars, booksStreams, books_data, book_client>>

ReadRequest ==
  /\ requests_at = "serve" /\ read_book_request_bus[book_client] # <<>>
  /\ book_answer' = [s \in Side |-> books_data[s][Head(read_book_request_bus[book_client])]]
  /\ read_book_request_bus' = [read_book_request_bus EXCEPT ![book_client] = Tail(@)]
  /\ requests_at' = "answer"
  /\ UNCHANGED <<updatesVars, books_data, book_client, nxbus_outputs,
                 book_update_bus, books>>

(* Mutant: the second client is not reached when the first was served. *)
AnswerAndBreak ==
  /\ requests_at = "answer"
  /\ CanWrite(books[book_client], StreamDepth)
  /\ books' = [books EXCEPT ![book_client] = Append(@, book_answer)]
  /\ book_client' = 0 /\ requests_at' = "turn" /\ book_answer' = NoBook
  /\ UNCHANGED <<updatesVars, books_data, nxbus_outputs,
                 book_update_bus, read_book_request_bus>>

(* Blocks the process, its updates included, while the client's answer     *)
(* stream is full.                                                         *)
WriteAnswer ==
  /\ requests_at = "answer"
  /\ CanWrite(books[book_client], StreamDepth)
  /\ books' = [books EXCEPT ![book_client] = Append(@, book_answer)]
  /\ NextClient /\ book_answer' = NoBook
  /\ UNCHANGED <<updatesVars, books_data, nxbus_outputs,
                 book_update_bus, read_book_request_bus>>

p_book_requests == \/ ApplyUpdate \/ TurnToRequests \/ SkipClient
                   \/ ReadRequest \/ WriteAnswer
=============================================================================
