----------------------------- MODULE BooksProofs -----------------------------
(***************************************************************************)
(* The book processes proved for every feed, any number of instruments and *)
(* prices, every depth of the streams and any number of reads under way.   *)
(***************************************************************************)
EXTENDS BooksSystem, HlsStreamProofs

Memory == [Side -> [Instruments -> HalfBook]]

(* The depth of the streams is a natural number. *)
LEMMA DepthType == StreamDepth \in Nat
BY BooksDepthAssumption

(* An update replaces the half book it is of and no other. *)
LEMMA WithUpdateEffect ==
  ASSUME NEW memory \in Memory, NEW u \in UpdateRequest
  PROVE  /\ WithUpdate(memory, u) \in Memory
         /\ \A s \in Side, i \in Instruments :
              WithUpdate(memory, u)[s][i] =
                IF u.side = s /\ u.book_index = i
                THEN [present |-> TRUE, toplevel_price |-> u.toplevel_price]
                ELSE memory[s][i]
<1>. DEFINE half == [present |-> TRUE, toplevel_price |-> u.toplevel_price]
<1>1. u.side \in Side /\ u.book_index \in Instruments /\ half \in HalfBook
  BY DEF UpdateRequest, HalfBook
<1>2. WithUpdate(memory, u) =
        [s \in Side |-> [i \in Instruments |->
           IF u.side = s /\ u.book_index = i THEN half ELSE memory[s][i]]]
  <2>. HIDE DEF half
  <2>. QED  BY <1>1 DEF WithUpdate, Memory, half
<1>. HIDE DEF half
<1>3. QED  BY <1>1, <1>2 DEF Memory, half

(* The book of an instrument in the memory is a book. *)
LEMMA BookAtType ==
  ASSUME NEW memory \in Memory, NEW i \in Instruments
  PROVE  BookAt(memory, i) \in Book
BY DEF BookAt, Memory, Book

(* The step of one action preserves the types of the book processes.       *)
LEMMA TypeStep ==
  ASSUME TypeOK, [Next]_vars
  PROVE  TypeOK'
<1>. USE DepthType DEF TypeOK
<1>0. UpdateBus \in {UpdateBus}
  OBVIOUS
<1>1. CASE FeedWord
  <2>. USE <1>1 DEF FeedWord
  <2>1. PICK word \in nxbus :
          nxbus_outputs' = [nxbus_outputs EXCEPT ![UpdateBus] = Append(@, word)]
    BY BooksSystemAssumption
  <2>2. IsBus(nxbus_outputs, {UpdateBus}, nxbus, StreamDepth)'
    BY <1>0, <2>1, WriteBus
  <2>. QED  BY <2>2 DEF updatesVars, requestsVars
<1>2. CASE ReadUpdateWord
  <2>. USE <1>2 DEF ReadUpdateWord
  <2>1. Head(nxbus_outputs[UpdateBus]) \in nxbus
    BY <1>0, BusStream, ReadStream
  <2>2. IsBus(nxbus_outputs, {UpdateBus}, nxbus, StreamDepth)'
    BY <1>0, ReadBus
  <2>3. /\ output' \in UpdateRequest /\ current_opcode' \in Opcode
        /\ start_of_nxbus_command' \in BOOLEAN /\ updates_at' \in {"read", "write"}
    BY <2>1 DEF nxbus, UpdateRequest
  <2>. QED  BY <2>2, <2>3 DEF requestsVars
<1>3. CASE WriteUpdate
  <2>. USE <1>3 DEF WriteUpdate
  <2>1. IsStream(book_update_bus, UpdateRequest, StreamDepth)'
    BY WriteStream
  <2>. QED  BY <2>1 DEF requestsVars
<1>4. CASE ApplyUpdate
  <2>. USE <1>4 DEF ApplyUpdate
  <2>1. /\ Head(book_update_bus) \in UpdateRequest
        /\ IsStream(book_update_bus, UpdateRequest, StreamDepth)'
    BY ReadStream
  <2>2. books_data' \in Memory
    BY <2>1, WithUpdateEffect DEF Memory
  <2>. QED  BY <2>1, <2>2 DEF updatesVars, Memory
<1>5. CASE TurnToRequests
  BY <1>5 DEF TurnToRequests, updatesVars, booksStreams, Clients
<1>6. CASE SkipClient
  BY <1>6 DEF SkipClient, NextClient, updatesVars, booksStreams, Clients
<1>7. CASE ReadRequest
  <2>. USE <1>7 DEF ReadRequest
  <2>1. Head(read_book_request_bus[book_client]) \in Instruments
    BY BusStream, ReadStream
  <2>2. IsBus(read_book_request_bus, Clients, Instruments, StreamDepth)'
    BY ReadBus
  <2>3. book_answer' \in Book
    BY <2>1 DEF Book
  <2>. QED  BY <2>2, <2>3 DEF updatesVars
<1>8. CASE WriteAnswer
  <2>. USE <1>8 DEF WriteAnswer
  <2>1. IsBus(books, Clients, Book, StreamDepth)'
    BY WriteBus
  <2>2. NoBook \in Book
    BY NxbusAssumption DEF NoBook, Book, HalfBook
  <2>. QED  BY <2>1, <2>2 DEF NextClient, updatesVars, Clients
<1>9. ASSUME NEW i \in Clients, Ask(i)
      PROVE  TypeOK'
  <2>. USE <1>9 DEF Ask
  <2>1. PICK instr \in Instruments :
          read_book_request_bus' = [read_book_request_bus EXCEPT ![i] = Append(@, instr)]
    OBVIOUS
  <2>2. IsBus(read_book_request_bus, Clients, Instruments, StreamDepth)'
    BY <2>1, WriteBus
  <2>. QED  BY <2>2 DEF updatesVars, requestsVars
<1>10. ASSUME NEW i \in Clients, TakeAnswer(i)
       PROVE  TypeOK'
  <2>. USE <1>10 DEF TakeAnswer
  <2>1. IsBus(books, Clients, Book, StreamDepth)'
    BY ReadBus
  <2>. QED  BY <2>1 DEF updatesVars, requestsVars
<1>11. CASE UNCHANGED vars
  BY <1>11 DEF vars, updatesVars, requestsVars, booksStreams
<1>. QED
  BY <1>1, <1>2, <1>3, <1>4, <1>5, <1>6, <1>7, <1>8, <1>9, <1>10, <1>11
  DEF Next, Updates, Requests, p_book_updates, p_book_requests

(* The statics and the memory start with their types. *)
LEMMA InitTypes == Init => TypeOK
BY DepthType, NxbusAssumption
DEF Init, LocalInit, TypeOK, IsBus, IsStream, UpdateRequest, Side, Opcode, Clients,
    HalfBook, Book, NoBook

(* Type correctness: no stream of the books overflows, for any depth, feed *)
(* and reads.                                                              *)
THEOREM TypeCorrect == Spec => []TypeOK
BY InitTypes, TypeStep, PTL DEF Spec
-----------------------------------------------------------------------------
(* What LatestPrices says of one half book: the updates that wait, applied *)
(* to the memory, leave in it a half book that is expected of it.          *)
LastOf(updates, s, i, n) ==
  /\ updates[n].side = s /\ updates[n].book_index = i
  /\ \A m \in (n + 1)..Len(updates) : ~(updates[m].side = s /\ updates[m].book_index = i)

HalfOf(update) == [present |-> TRUE, toplevel_price |-> update.toplevel_price]

Shows(updates, half, expected, s, i) ==
  \/ \E n \in 1..Len(updates) :
       LastOf(updates, s, i, n) /\ HalfOf(updates[n]) \in expected
  \/ /\ \A n \in 1..Len(updates) : ~(updates[n].side = s /\ updates[n].book_index = i)
     /\ half \in expected

LEMMA LatestIsShows ==
  LatestPrices <=> \A s \in Side, i \in Instruments :
                     Shows(PendingUpdates, books_data[s][i], Expected(s, i), s, i)
BY DEF LatestPrices, Shows, LastOf, HalfOf, IsLastUpdate, Updated

(* An update more that waits: it is what is expected of its half book.     *)
LEMMA ShowsAppend ==
  ASSUME NEW updates \in Seq(UpdateRequest), NEW u \in UpdateRequest,
         NEW s \in Side, NEW i \in Instruments,
         NEW half, NEW old, NEW expected, Shows(updates, half, old, s, i),
         u.side = s /\ u.book_index = i => HalfOf(u) \in expected,
         ~(u.side = s /\ u.book_index = i) => expected = old
  PROVE  Shows(Append(updates, u), half, expected, s, i)
<1>. DEFINE more == Append(updates, u)
<1>1. /\ more \in Seq(UpdateRequest) /\ Len(more) = Len(updates) + 1 /\ Len(updates) \in Nat
      /\ more[Len(updates) + 1] = u
      /\ \A n \in 1..Len(updates) : more[n] = updates[n]
  OBVIOUS
<1>. HIDE DEF more
<1>2. CASE u.side = s /\ u.book_index = i
  <2>1. LastOf(more, s, i, Len(updates) + 1)
    BY <1>1, <1>2 DEF LastOf
  <2>. QED  BY <1>1, <1>2, <2>1 DEF Shows, more
<1>3. CASE ~(u.side = s /\ u.book_index = i)
  <2>1. ASSUME NEW n \in 1..Len(updates), LastOf(updates, s, i, n)
        PROVE  LastOf(more, s, i, n)
    BY <1>1, <1>3, <2>1 DEF LastOf
  <2>. QED  BY <1>1, <1>3, <2>1 DEF Shows, more
<1>. QED  BY <1>2, <1>3

(* The oldest update is applied. *)
LEMMA ShowsApplied ==
  ASSUME NEW updates \in Seq(UpdateRequest), updates # <<>>,
         NEW s \in Side, NEW i \in Instruments, NEW memory \in Memory,
         NEW expected, Shows(updates, memory[s][i], expected, s, i)
  PROVE  Shows(Tail(updates), WithUpdate(memory, Head(updates))[s][i], expected, s, i)
<1>. DEFINE rest == Tail(updates)
            u == Head(updates)
            half == WithUpdate(memory, u)[s][i]
<1>1. /\ rest \in Seq(UpdateRequest) /\ Len(rest) = Len(updates) - 1 /\ Len(rest) \in Nat
      /\ \A n \in 1..Len(rest) : rest[n] = updates[n + 1]
      /\ u = updates[1] /\ u \in UpdateRequest
  OBVIOUS
<1>2. half = IF u.side = s /\ u.book_index = i THEN HalfOf(u) ELSE memory[s][i]
  BY <1>1, WithUpdateEffect DEF HalfOf
<1>. HIDE DEF rest, u, half
<1>. SUFFICES Shows(rest, half, expected, s, i)
  BY DEF rest, u, half
<1>3. CASE \A n \in 1..Len(updates) : ~(updates[n].side = s /\ updates[n].book_index = i)
  <2>1. \A n \in 1..Len(rest) : ~(rest[n].side = s /\ rest[n].book_index = i)
    BY <1>1, <1>3
  <2>2. memory[s][i] \in expected
    BY <1>3 DEF Shows, LastOf
  <2>. QED  BY <1>1, <1>2, <1>3, <2>1, <2>2 DEF Shows
<1>4. ASSUME NEW n \in 1..Len(updates), LastOf(updates, s, i, n),
             HalfOf(updates[n]) \in expected
      PROVE  Shows(rest, half, expected, s, i)
  <2>1. CASE n = 1
    <3>1. \A m \in 1..Len(rest) : ~(rest[m].side = s /\ rest[m].book_index = i)
      BY <1>1, <1>4, <2>1 DEF LastOf
    <3>2. half \in expected
      BY <1>1, <1>2, <1>4, <2>1 DEF LastOf
    <3>. QED  BY <3>1, <3>2 DEF Shows
  <2>2. CASE n # 1
    <3>1. n - 1 \in 1..Len(rest) /\ rest[n - 1] = updates[n]
      BY <1>1, <2>2
    <3>2. ASSUME NEW m \in ((n - 1) + 1)..Len(rest)
          PROVE  ~(rest[m].side = s /\ rest[m].book_index = i)
      <4>1. m + 1 \in (n + 1)..Len(updates) /\ m \in 1..Len(rest)
        BY <1>1, <2>2
      <4>. QED  BY <1>1, <1>4, <4>1 DEF LastOf
    <3>3. LastOf(rest, s, i, n - 1)
      BY <1>4, <3>1, <3>2 DEF LastOf
    <3>. QED  BY <1>4, <3>1, <3>3 DEF Shows
  <2>. QED  BY <2>1, <2>2
<1>. QED  BY <1>3, <1>4 DEF Shows

(* The strengthening of LatestPrices: the statics of p_book_updates are    *)
(* those of the command being read, and once no level 0 update is being    *)
(* read, sending output again gives its half book what is expected of it:  *)
(* what was last told, or price 0 on the half book it names after a reset. *)
IsLevel0(word) == word.opcode = "BOOK_UPDATE" /\ word.level = 0

Told(word) == [book_index |-> word.instr_id, side |-> word.buy_nsell,
               toplevel_price |-> word.price]

Reading ==
  /\ told \in Memory
  /\ start_of_nxbus_command <=> opening = <<>>
  /\ opening # <<>> =>
       /\ opening = <<opening[1]>> /\ opening[1] \in nxbus
       /\ current_opcode = opening[1].opcode
       /\ IsLevel0(opening[1]) => output = Told(opening[1])
  /\ (opening = <<>> \/ ~IsLevel0(opening[1])) =>
       HalfOf(output) \in Expected(output.side, output.book_index)

(* A word is read: what it tells, and what it makes of the updates.        *)
LEMMA ReadingStep ==
  ASSUME TypeOK, Reading, LatestPrices, Updates, ReadUpdateWord
  PROVE  Reading' /\ LatestPrices'
<1>. DEFINE word == Head(nxbus_outputs[UpdateBus])
            first == IF opening = <<>> THEN word ELSE opening[1]
            tells == word.end_of_extra /\ IsLevel0(first)
<1>0. word \in nxbus
  <2>1. UpdateBus \in {UpdateBus}
    OBVIOUS
  <2>. QED  BY <2>1, DepthType, BusStream, ReadStream DEF TypeOK, ReadUpdateWord
<1>1. first \in nxbus /\ Told(first) \in UpdateRequest
  BY <1>0 DEF Reading, Told, nxbus, UpdateRequest
<1>2. /\ opening' = IF word.end_of_extra THEN <<>> ELSE <<first>>
      /\ told' = IF tells THEN WithUpdate(told, Told(first)) ELSE told
  BY DEF Updates, ReadUpdateWord, Told, IsLevel0
<1>3. /\ output' = IF opening = <<>> /\ IsLevel0(word) THEN Told(word) ELSE output
      /\ updates_at = "read"
      /\ updates_at' = IF /\ word.end_of_extra
                          /\ \/ opening = <<>> /\ IsLevel0(word)
                             \/ opening # <<>> /\ opening[1].opcode = "BOOK_UPDATE"
                       THEN "write" ELSE "read"
      /\ current_opcode' = first.opcode
      /\ start_of_nxbus_command' = word.end_of_extra
      /\ UNCHANGED <<book_update_bus, books_data>>
  BY DEF ReadUpdateWord, requestsVars, OpensLevel0, Sends, IsLevel0, Told, Reading
<1>. HIDE DEF word
<1>4. IsLevel0(first) => output' = Told(first)
  BY <1>3 DEF Reading
<1>5. ~IsLevel0(first) => output' = output /\ told' = told
  BY <1>2, <1>3 DEF Reading
<1>6. output \in UpdateRequest /\ output' \in UpdateRequest
  BY <1>3, <1>0, <1>1 DEF TypeOK, Told, nxbus, UpdateRequest
<1>. HIDE DEF first
<1>7. told' \in Memory
  BY <1>1, <1>2, WithUpdateEffect DEF Reading
<1>8. tells => /\ told'[output'.side][output'.book_index] = HalfOf(output')
               /\ \A s \in Side, i \in Instruments :
                    ~(output'.side = s /\ output'.book_index = i) => told'[s][i] = told[s][i]
  <2>. SUFFICES ASSUME tells
                PROVE  /\ told'[output'.side][output'.book_index] = HalfOf(output')
                       /\ \A s \in Side, i \in Instruments :
                            ~(output'.side = s /\ output'.book_index = i)
                              => told'[s][i] = told[s][i]
    OBVIOUS
  <2>1. told' = WithUpdate(told, output') /\ told \in Memory
    BY <1>2, <1>4 DEF tells, Reading
  <2>2. output'.side \in Side /\ output'.book_index \in Instruments
    BY <1>6 DEF UpdateRequest
  <2>3. \A s \in Side, i \in Instruments :
          WithUpdate(told, output')[s][i] =
            IF output'.side = s /\ output'.book_index = i THEN HalfOf(output')
            ELSE told[s][i]
    BY <1>6, <2>1, WithUpdateEffect DEF HalfOf
  <2>. QED  BY <2>1, <2>2, <2>3
<1>9. ~IsLevel0(first) =>
        /\ HalfOf(output') \in Expected(output.side, output.book_index)
        /\ UNCHANGED Expected(output.side, output.book_index)
  <2>. SUFFICES ASSUME ~IsLevel0(first)
                PROVE  /\ HalfOf(output') \in Expected(output.side, output.book_index)
                       /\ UNCHANGED Expected(output.side, output.book_index)
    OBVIOUS
  <2>1. HalfOf(output) \in Expected(output.side, output.book_index)
    BY DEF Reading, first
  <2>. QED  BY <1>5, <2>1 DEF Expected
<1>10. tells \/ ~IsLevel0(first) =>
         /\ HalfOf(output') \in Expected(output.side, output.book_index)'
         /\ \A s \in Side, i \in Instruments :
              ~(output'.side = s /\ output'.book_index = i) => Expected(s, i)' = Expected(s, i)
  <2>1. CASE ~IsLevel0(first)
    BY <1>5, <1>9, <2>1 DEF Expected
  <2>2. CASE tells
    <3>1. HalfOf(output').present
      BY DEF HalfOf
    <3>. QED  BY <1>8, <2>2, <3>1 DEF Expected
  <2>. QED  BY <2>1, <2>2
<1>11. Reading'
  <2>1. start_of_nxbus_command' <=> opening' = <<>>
    BY <1>2, <1>3, <1>0 DEF nxbus
  <2>2. opening' # <<>> =>
          /\ opening' = <<first>> /\ opening'[1] = first
          /\ current_opcode' = first.opcode
          /\ IsLevel0(first) => output' = Told(first)
    BY <1>2, <1>3, <1>4
  <2>3. (opening' = <<>> \/ ~IsLevel0(opening'[1])) => tells \/ ~IsLevel0(first)
    BY <1>2, <2>2 DEF tells
  <2>. QED  BY <1>1, <1>7, <1>10, <2>1, <2>2, <2>3 DEF Reading
<1>12. PendingUpdates = book_update_bus /\ book_update_bus \in Seq(UpdateRequest)
  BY <1>3 DEF PendingUpdates, TypeOK, IsStream
<1>13. ASSUME NEW s \in Side, NEW i \in Instruments
       PROVE  Shows(PendingUpdates', books_data[s][i], Expected(s, i)', s, i)
  <2>1. Shows(book_update_bus, books_data[s][i], Expected(s, i), s, i)
    BY <1>12, LatestIsShows
  <2>2. CASE updates_at' = "write"
    <3>1. PendingUpdates' = Append(book_update_bus, output')
      BY <1>3, <2>2 DEF PendingUpdates
    <3>2. tells \/ ~IsLevel0(first)
      BY <1>3, <2>2 DEF tells, first, IsLevel0
    <3>3. /\ output'.side = s /\ output'.book_index = i => HalfOf(output') \in Expected(s, i)'
          /\ ~(output'.side = s /\ output'.book_index = i) => Expected(s, i)' = Expected(s, i)
      BY <1>10, <3>2 DEF Expected
    <3>. QED  BY <1>6, <1>12, <2>1, <3>1, <3>3, ShowsAppend
  <2>3. CASE updates_at' # "write"
    <3>1. ~tells
      BY <1>3, <2>3 DEF tells, first, IsLevel0
    <3>2. told' = told /\ PendingUpdates' = book_update_bus
      BY <1>2, <1>3, <2>3, <3>1 DEF PendingUpdates
    <3>. QED  BY <2>1, <3>2 DEF Expected
  <2>. QED  BY <2>2, <2>3
<1>. QED
  BY <1>3, <1>11, <1>13 DEF LatestPrices, Shows, LastOf, HalfOf, IsLastUpdate, Updated

(* The latest prices are shown, whatever the step. *)
LEMMA LatestStep ==
  ASSUME TypeOK, Reading, LatestPrices, [Next]_vars
  PROVE  Reading' /\ LatestPrices'
<1>. USE DEF updatesVars, requestsVars, booksStreams
<1>1. CASE Updates /\ ReadUpdateWord
  BY <1>1, ReadingStep
<1>2. CASE Updates /\ WriteUpdate
  <2>1. UNCHANGED <<told, opening, start_of_nxbus_command, current_opcode, output, books_data>>
    BY <1>2 DEF Updates, WriteUpdate
  <2>2. PendingUpdates' = PendingUpdates
    BY <1>2 DEF WriteUpdate, PendingUpdates
  <2>3. Reading'
    BY <2>1 DEF Reading, Expected, HalfOf
  <2>. \A s \in Side, i \in Instruments : UNCHANGED Expected(s, i)
    BY <2>1 DEF Expected
  <2>4. LatestPrices'
    BY <2>1, <2>2 DEF LatestPrices, IsLastUpdate, Updated
  <2>. QED  BY <2>3, <2>4
<1>3. CASE Requests /\ ApplyUpdate
  <2>. DEFINE update == Head(book_update_bus)
  <2>1. /\ UNCHANGED <<told, opening, start_of_nxbus_command, current_opcode, output, updates_at>>
        /\ books_data' = WithUpdate(books_data, update)
        /\ book_update_bus # <<>> /\ book_update_bus' = Tail(book_update_bus)
    BY <1>3 DEF Requests, ApplyUpdate
  <2>2. /\ book_update_bus \in Seq(UpdateRequest) /\ output \in UpdateRequest
        /\ books_data \in Memory
    BY DEF TypeOK, IsStream, Memory
  <2>3. /\ PendingUpdates \in Seq(UpdateRequest) /\ PendingUpdates # <<>>
        /\ Head(PendingUpdates) = update /\ PendingUpdates' = Tail(PendingUpdates)
    <3>1. /\ Append(book_update_bus, output) # <<>>
          /\ Head(Append(book_update_bus, output)) = update
          /\ Tail(Append(book_update_bus, output)) = Append(Tail(book_update_bus), output)
      BY <2>1, <2>2
    <3>2. CASE updates_at = "write"
      <4>1. /\ PendingUpdates = Append(book_update_bus, output)
            /\ PendingUpdates' = Append(Tail(book_update_bus), output)
        BY <2>1, <3>2 DEF PendingUpdates
      <4>. QED  BY <2>2, <3>1, <4>1
    <3>3. CASE updates_at # "write"
      <4>1. PendingUpdates = book_update_bus /\ PendingUpdates' = Tail(book_update_bus)
        BY <2>1, <3>3 DEF PendingUpdates
      <4>. QED  BY <2>1, <2>2, <4>1
    <3>. QED  BY <3>2, <3>3
  <2>. HIDE DEF update
  <2>4. ASSUME NEW s \in Side, NEW i \in Instruments
        PROVE  Shows(PendingUpdates', books_data'[s][i], Expected(s, i), s, i)
    <3>1. Shows(PendingUpdates, books_data[s][i], Expected(s, i), s, i)
      BY LatestIsShows
    <3>. QED  BY <2>1, <2>2, <2>3, <3>1, ShowsApplied
  <2>5. \A s \in Side, i \in Instruments : UNCHANGED Expected(s, i)
    BY <2>1 DEF Expected
  <2>6. \A s \in Side, i \in Instruments :
          Shows(PendingUpdates', books_data'[s][i], Expected(s, i)', s, i)
    BY <2>4, <2>5
  <2>7. LatestPrices'
    BY <2>6 DEF LatestPrices, Shows, LastOf, HalfOf, IsLastUpdate, Updated
  <2>. QED  BY <2>1, <2>7 DEF Reading, Expected, HalfOf
<1>4. ASSUME UNCHANGED <<told, opening, start_of_nxbus_command, current_opcode, output,
                         updates_at, book_update_bus, books_data>>
      PROVE  Reading' /\ LatestPrices'
  <2>1. Reading'
    BY <1>4 DEF Reading, Expected, HalfOf
  <2>. UNCHANGED PendingUpdates /\ \A s \in Side, i \in Instruments : UNCHANGED Expected(s, i)
    BY <1>4 DEF PendingUpdates, Expected
  <2>2. LatestPrices'
    BY <1>4 DEF LatestPrices, IsLastUpdate, Updated
  <2>. QED  BY <2>1, <2>2
<1>5. CASE FeedWord \/ UNCHANGED vars
  BY <1>4, <1>5 DEF FeedWord, vars
<1>6. CASE Requests /\ ~ApplyUpdate
  BY <1>4, <1>6 DEF Requests, p_book_requests, TurnToRequests, SkipClient, ReadRequest, WriteAnswer
<1>7. ASSUME NEW i \in Clients, Ask(i) \/ TakeAnswer(i)
      PROVE  Reading' /\ LatestPrices'
  BY <1>4, <1>7 DEF Ask, TakeAnswer
<1>8. Updates => ReadUpdateWord \/ WriteUpdate
  BY DEF Updates, p_book_updates
<1>. QED  BY <1>1, <1>2, <1>3, <1>5, <1>6, <1>7, <1>8 DEF Next

LEMMA LatestInit == Init => Reading /\ LatestPrices
<1>. SUFFICES ASSUME Init
              PROVE  Reading /\ LatestPrices
  OBVIOUS
<1>1. /\ \A s \in Side, i \in Instruments : books_data[s][i] = NoBook[s] /\ ~told[s][i].present
      /\ output = [book_index |-> 0, side |-> 0, toplevel_price |-> 0]
  BY DEF Init, LocalInit, NoBook
<1>2. told \in Memory /\ output.side \in Side /\ output.book_index \in Instruments
  BY InitTypes DEF Init, TypeOK, Memory, UpdateRequest
<1>3. HalfOf(output) \in Expected(output.side, output.book_index)
  BY <1>1, <1>2 DEF HalfOf, Expected
<1>4. PendingUpdates = <<>>
  BY DEF Init, LocalInit, PendingUpdates
<1>5. LatestPrices
  BY <1>1, <1>4 DEF LatestPrices, Expected
<1>. QED  BY <1>2, <1>3, <1>5 DEF Reading, Init, LocalInit

(* The latest prices told by the feed are those in the memory, once the    *)
(* updates under way are applied, however the feed cuts its commands.      *)
THEOREM AlwaysLatest == Spec => []LatestPrices
BY InitTypes, TypeStep, LatestInit, LatestStep, PTL DEF Spec
-----------------------------------------------------------------------------
(* What FreshReads says of one client: of its reads, the first are         *)
(* answered and the others still asked.                                    *)
Fresh(reads, answers, requests) ==
  /\ Len(reads) = Len(answers) + Len(requests)
  /\ \A j \in 1..Len(answers) : answers[j] \in reads[j].held
  /\ \A j \in 1..Len(requests) : requests[j] = reads[Len(answers) + j].instr

Held(i) == IF requests_at = "answer" /\ book_client = i THEN <<book_answer>> ELSE <<>>
Answers(i) == books[i] \o Held(i)

(* The reads under way: each knows the book the memory now holds for it.   *)
Read == [instr: Instruments, held: SUBSET Book]
Current(reads, memory) == \A j \in 1..Len(reads) : BookAt(memory, reads[j].instr) \in reads[j].held

(* The reads once they have been told of the memory, as Requests does.     *)
Widened(reads, memory) ==
  [j \in 1..Len(reads) |-> [reads[j] EXCEPT !.held = @ \cup {BookAt(memory, reads[j].instr)}]]

LEMMA WidenedKeeps ==
  ASSUME NEW reads \in Seq(Read), NEW memory \in Memory, NEW answers, NEW requests,
         Len(answers) \in Nat, Fresh(reads, answers, requests), Len(requests) \in Nat
  PROVE  /\ Widened(reads, memory) \in Seq(Read)
         /\ Current(Widened(reads, memory), memory)
         /\ Fresh(Widened(reads, memory), answers, requests)
<1>. DEFINE wide == Widened(reads, memory)
<1>1. Len(reads) \in Nat
  OBVIOUS
<1>2. ASSUME NEW j \in 1..Len(reads)
      PROVE  /\ wide[j] \in Read /\ wide[j].instr = reads[j].instr
             /\ wide[j].held = reads[j].held \cup {BookAt(memory, reads[j].instr)}
  <2>1. reads[j] \in Read
    OBVIOUS
  <2>2. BookAt(memory, reads[j].instr) \in Book
    BY <2>1, BookAtType DEF Read
  <2>. QED  BY <2>1, <2>2 DEF Widened, Read
<1>3. wide \in Seq(Read) /\ Len(wide) = Len(reads)
  BY <1>1, <1>2 DEF Widened
<1>. HIDE DEF wide
<1>4. Current(wide, memory)
  BY <1>2, <1>3 DEF Current
<1>5. /\ Len(reads) = Len(answers) + Len(requests)
      /\ \A j \in 1..Len(answers) : j \in 1..Len(reads) /\ answers[j] \in reads[j].held
  BY DEF Fresh
<1>6. \A j \in 1..Len(answers) : answers[j] \in wide[j].held
  BY <1>2, <1>5
<1>7. ASSUME NEW j \in 1..Len(requests)
      PROVE  requests[j] = wide[Len(answers) + j].instr
  <2>1. requests[j] = reads[Len(answers) + j].instr
    BY DEF Fresh
  <2>2. Len(answers) + j \in 1..Len(reads)
    BY <1>5
  <2>. QED  BY <1>2, <2>1, <2>2
<1>8. Fresh(wide, answers, requests)
  BY <1>3, <1>5, <1>6, <1>7 DEF Fresh
<1>. QED  BY <1>3, <1>4, <1>8 DEF wide

LEMMA FreshAsk ==
  ASSUME NEW reads \in Seq(Read), NEW answers, NEW requests \in Seq(Instruments),
         Len(answers) \in Nat, Fresh(reads, answers, requests), NEW r \in Read
  PROVE  Fresh(Append(reads, r), answers, Append(requests, r.instr))
<1>1. r.instr \in Instruments
  BY DEF Read
<1>2. /\ Len(Append(reads, r)) = Len(reads) + 1
      /\ \A j \in 1..Len(reads) : Append(reads, r)[j] = reads[j]
      /\ Append(reads, r)[Len(reads) + 1] = r
  OBVIOUS
<1>3. /\ Len(Append(requests, r.instr)) = Len(requests) + 1
      /\ \A j \in 1..Len(requests) : Append(requests, r.instr)[j] = requests[j]
      /\ Append(requests, r.instr)[Len(requests) + 1] = r.instr
  BY <1>1
<1>. QED  BY <1>2, <1>3 DEF Fresh

LEMMA FreshRead ==
  ASSUME NEW reads \in Seq(Read), NEW answers \in Seq(Book), NEW requests \in Seq(Instruments),
         NEW memory, Fresh(reads, answers, requests), Current(reads, memory), requests # <<>>,
         BookAt(memory, Head(requests)) \in Book
  PROVE  Fresh(reads, Append(answers, BookAt(memory, Head(requests))), Tail(requests))
<1>. DEFINE answer == BookAt(memory, Head(requests))
            rest == Tail(requests)
            more == Append(answers, answer)
            n == Len(answers)
<1>1. /\ Len(rest) = Len(requests) - 1 /\ Len(requests) >= 1
      /\ \A j \in 1..Len(rest) : rest[j] = requests[j + 1]
      /\ Head(requests) = requests[1]
  OBVIOUS
<1>2. /\ Len(more) = n + 1 /\ more[n + 1] = answer
      /\ \A j \in 1..n : more[j] = answers[j]
  OBVIOUS
<1>3. n \in Nat /\ Len(requests) \in Nat
  OBVIOUS
<1>4. answer \in reads[n + 1].held
  BY <1>1, <1>3 DEF Fresh, Current
<1>. HIDE DEF answer, rest, more, n
<1>5. Len(reads) = Len(more) + Len(rest)
  BY <1>1, <1>2, <1>3 DEF Fresh, n
<1>6. ASSUME NEW j \in 1..Len(more)
      PROVE  more[j] \in reads[j].held
  <2>1. \A k \in 1..n : answers[k] \in reads[k].held
    BY DEF Fresh, n
  <2>2. j \in 1..n \/ j = n + 1
    BY <1>2, <1>3
  <2>. QED  BY <1>2, <1>4, <2>1, <2>2
<1>7. \A j \in 1..Len(rest) : rest[j] = reads[Len(more) + j].instr
  <2>. SUFFICES ASSUME NEW j \in 1..Len(rest)
                PROVE  rest[j] = reads[Len(more) + j].instr
    OBVIOUS
  <2>1. requests[j + 1] = reads[n + (j + 1)].instr /\ n + (j + 1) = Len(more) + j
    BY <1>1, <1>2, <1>3 DEF Fresh, n
  <2>. QED  BY <1>1, <2>1
<1>. QED  BY <1>5, <1>6, <1>7 DEF Fresh, answer, rest, more

LEMMA FreshTake ==
  ASSUME NEW reads \in Seq(Read), NEW answers \in Seq(Book), NEW requests \in Seq(Instruments),
         Fresh(reads, answers, requests), answers # <<>>
  PROVE  Fresh(Tail(reads), Tail(answers), requests) /\ Tail(reads) \in Seq(Read)
<1>1. Len(answers) \in Nat \ {0} /\ Len(requests) \in Nat
  OBVIOUS
<1>2. Len(reads) \in Nat \ {0} /\ reads # <<>>
  BY <1>1 DEF Fresh
<1>3. /\ Tail(reads) \in Seq(Read) /\ Len(Tail(reads)) = Len(reads) - 1
      /\ \A j \in 1..(Len(reads) - 1) : Tail(reads)[j] = reads[j + 1]
  BY <1>2
<1>4. /\ Len(Tail(answers)) = Len(answers) - 1
      /\ \A j \in 1..(Len(answers) - 1) : Tail(answers)[j] = answers[j + 1]
  BY <1>1
<1>5. \A j \in 1..Len(requests) : requests[j] = Tail(reads)[Len(Tail(answers)) + j].instr
  <2>. SUFFICES ASSUME NEW j \in 1..Len(requests)
                PROVE  requests[j] = Tail(reads)[Len(Tail(answers)) + j].instr
    OBVIOUS
  <2>. DEFINE k == Len(Tail(answers)) + j
  <2>1. k \in 1..(Len(reads) - 1) /\ k + 1 = Len(answers) + j
    BY <1>1, <1>2, <1>4 DEF Fresh
  <2>. HIDE DEF k
  <2>. QED  BY <1>3, <2>1 DEF Fresh, k
<1>6. \A j \in 1..Len(Tail(answers)) : Tail(answers)[j] \in Tail(reads)[j].held
  BY <1>1, <1>3, <1>4 DEF Fresh
<1>7. Len(Tail(reads)) = Len(Tail(answers)) + Len(requests)
  BY <1>1, <1>3, <1>4 DEF Fresh
<1>. QED  BY <1>5, <1>6, <1>7 DEF Fresh

(* FreshReads with what it needs: the reads know the book the memory holds. *)
Known ==
  /\ asked \in [Clients -> Seq(Read)]
  /\ \A i \in Clients : Current(asked[i], books_data)

LEMMA FreshIs ==
  FreshReads <=> \A i \in Clients : Fresh(asked[i], Answers(i), read_book_request_bus[i])
BY DEF FreshReads, Fresh, Answers, Held

(* The types of what Fresh relates. *)
LEMMA FreshTypes ==
  ASSUME TypeOK, NEW i \in Clients
  PROVE  /\ Answers(i) \in Seq(Book) /\ books[i] \in Seq(Book) /\ Held(i) \in Seq(Book)
         /\ read_book_request_bus[i] \in Seq(Instruments)
         /\ Len(Answers(i)) \in Nat /\ Len(read_book_request_bus[i]) \in Nat
         /\ books_data \in Memory
<1>1. books[i] \in Seq(Book) /\ read_book_request_bus[i] \in Seq(Instruments)
  BY DEF TypeOK, IsBus
<1>2. Held(i) \in Seq(Book)
  BY DEF TypeOK, Held
<1>3. Answers(i) \in Seq(Book)
  BY <1>1, <1>2 DEF Answers
<1>. QED  BY <1>1, <1>2, <1>3 DEF TypeOK, Memory

(* A step of the requests that leaves each client's reads Fresh but for    *)
(* what the memory now holds.                                              *)
LEMMA FreshRequests ==
  ASSUME TypeOK, TypeOK', Known, Requests,
         \A i \in Clients : Fresh(asked[i], Answers(i)', read_book_request_bus'[i])
  PROVE  Known' /\ FreshReads'
<1>1. asked' = [i \in Clients |-> Widened(asked[i], books_data')]
  BY DEF Requests, Widened
<1>2. ASSUME NEW i \in Clients
      PROVE  /\ asked'[i] \in Seq(Read) /\ Current(asked'[i], books_data')
             /\ Fresh(asked'[i], Answers(i)', read_book_request_bus'[i])
  <2>1. /\ asked[i] \in Seq(Read) /\ books_data' \in Memory
        /\ Len(Answers(i)') \in Nat /\ Len(read_book_request_bus'[i]) \in Nat
    <3>1. /\ books'[i] \in Seq(Book) /\ Held(i)' \in Seq(Book)
          /\ read_book_request_bus'[i] \in Seq(Instruments)
      BY DEF TypeOK, IsBus, Held
    <3>2. Answers(i)' \in Seq(Book)
      BY <3>1 DEF Answers
    <3>. QED  BY <3>1, <3>2 DEF Known, TypeOK, Memory
  <2>2. Fresh(asked[i], Answers(i)', read_book_request_bus'[i])
    OBVIOUS
  <2>3. asked'[i] = Widened(asked[i], books_data')
    BY <1>1
  <2>. QED  BY <2>1, <2>2, <2>3, WidenedKeeps
<1>3. Known'
  BY <1>1, <1>2 DEF Known
<1>. QED  BY <1>2, <1>3 DEF FreshReads, Fresh, Answers, Held

(* No step makes an answer stale, gives it to another read or loses one.   *)
LEMMA FreshStep ==
  ASSUME TypeOK, TypeOK', Known, FreshReads, [Next]_vars
  PROVE  Known' /\ FreshReads'
<1>0. ASSUME NEW i \in Clients
      PROVE  /\ Fresh(asked[i], Answers(i), read_book_request_bus[i])
             /\ asked[i] \in Seq(Read) /\ Current(asked[i], books_data)
  BY FreshIs DEF Known
<1>1. CASE Requests /\ (ApplyUpdate \/ TurnToRequests \/ SkipClient)
  <2>1. ASSUME NEW i \in Clients
        PROVE  Answers(i)' = Answers(i) /\ read_book_request_bus'[i] = read_book_request_bus[i]
    BY <1>1 DEF ApplyUpdate, TurnToRequests, SkipClient, NextClient, Answers, Held, booksStreams
  <2>. QED  BY <1>0, <1>1, <2>1, FreshRequests
<1>2. CASE Requests /\ ReadRequest
  <2>. DEFINE c == book_client
  <2>1. /\ c \in Clients /\ read_book_request_bus[c] # <<>> /\ books' = books
        /\ book_answer' = BookAt(books_data, Head(read_book_request_bus[c]))
        /\ read_book_request_bus' = [read_book_request_bus EXCEPT ![c] = Tail(@)]
        /\ requests_at = "serve" /\ requests_at' = "answer" /\ book_client' = c
        /\ DOMAIN read_book_request_bus = Clients
    BY <1>2 DEF ReadRequest, BookAt, TypeOK, IsBus
  <2>2. ASSUME NEW i \in Clients
        PROVE  Fresh(asked[i], Answers(i)', read_book_request_bus'[i])
    <3>1. Answers(i) = books[i]
      BY <2>1, FreshTypes DEF Answers, Held
    <3>2. CASE i = c
      <4>1. Answers(i)' = Append(Answers(i), BookAt(books_data, Head(read_book_request_bus[i])))
        <5>1. Answers(i)' = books[i] \o <<book_answer'>>
          BY <2>1, <3>2 DEF Answers, Held
        <5>. QED  BY <2>1, <3>1, <3>2, <5>1, FreshTypes
      <4>2. read_book_request_bus'[i] = Tail(read_book_request_bus[i])
        BY <2>1, <3>2
      <4>3. BookAt(books_data, Head(read_book_request_bus[i])) \in Book
        BY <2>1, <3>2 DEF TypeOK
      <4>. QED  BY <1>0, <2>1, <3>2, <4>1, <4>2, <4>3, FreshTypes, FreshRead
    <3>3. CASE i # c
      <4>1. Answers(i)' = Answers(i) /\ read_book_request_bus'[i] = read_book_request_bus[i]
        BY <2>1, <3>3 DEF Answers, Held
      <4>. QED  BY <1>0, <4>1
    <3>. QED  BY <3>2, <3>3
  <2>. QED  BY <1>2, <2>2, FreshRequests
<1>3. CASE Requests /\ WriteAnswer
  <2>. DEFINE c == book_client
  <2>1. /\ c \in Clients /\ books' = [books EXCEPT ![c] = Append(@, book_answer)]
        /\ requests_at = "answer" /\ requests_at' # "answer"
        /\ UNCHANGED read_book_request_bus /\ DOMAIN books = Clients
    BY <1>3 DEF WriteAnswer, NextClient, TypeOK, IsBus
  <2>2. ASSUME NEW i \in Clients
        PROVE  Answers(i)' = Answers(i)
    <3>1. Answers(i)' = books'[i]
      <4>1. Held(i)' = <<>> /\ books'[i] \in Seq(Book)
        BY <2>1 DEF Held, TypeOK, IsBus
      <4>. QED  BY <4>1 DEF Answers
    <3>2. CASE i = c
      <4>1. Answers(i) = books[i] \o <<book_answer>> /\ books'[i] = Append(books[i], book_answer)
        BY <2>1, <3>2 DEF Answers, Held
      <4>. QED  BY <3>1, <4>1, FreshTypes
    <3>3. CASE i # c
      BY <2>1, <3>1, <3>3, FreshTypes DEF Answers, Held
    <3>. QED  BY <3>2, <3>3
  <2>. QED  BY <1>0, <1>3, <2>1, <2>2, FreshRequests
<1>4. ASSUME NEW c \in Clients, Ask(c)
      PROVE  Known' /\ FreshReads'
  <2>1. PICK instr \in Instruments :
          /\ read_book_request_bus' = [read_book_request_bus EXCEPT ![c] = Append(@, instr)]
          /\ asked' = [asked EXCEPT ![c] =
                         Append(@, [instr |-> instr, held |-> {BookAt(books_data, instr)}])]
    BY <1>4 DEF Ask
  <2>. DEFINE r == [instr |-> instr, held |-> {BookAt(books_data, instr)}]
  <2>2. r \in Read /\ r.instr = instr /\ BookAt(books_data, r.instr) \in r.held
    BY BookAtType DEF Read, TypeOK, Memory
  <2>3. UNCHANGED <<books, books_data, requests_at, book_client, book_answer>>
    BY <1>4 DEF Ask, requestsVars
  <2>4. DOMAIN asked = Clients /\ DOMAIN read_book_request_bus = Clients
    BY DEF Known, TypeOK, IsBus
  <2>5. ASSUME NEW i \in Clients
        PROVE  /\ asked'[i] \in Seq(Read) /\ Current(asked'[i], books_data)
               /\ Fresh(asked'[i], Answers(i), read_book_request_bus'[i])
    <3>1. CASE i = c
      <4>1. asked'[i] = Append(asked[i], r) /\ read_book_request_bus'[i]
                                               = Append(read_book_request_bus[i], r.instr)
        BY <2>1, <2>2, <2>4, <3>1
      <4>2. asked[i] \in Seq(Read) /\ Current(asked[i], books_data)
        BY <1>0
      <4>. HIDE DEF r
      <4>3. Append(asked[i], r) \in Seq(Read) /\ Current(Append(asked[i], r), books_data)
        BY <2>2, <4>2 DEF Current
      <4>. QED  BY <1>0, <2>2, <4>1, <4>2, <4>3, FreshAsk, FreshTypes
    <3>2. CASE i # c
      BY <1>0, <2>1, <2>4, <3>2
    <3>. QED  BY <3>1, <3>2
  <2>6. Known'
    BY <2>1, <2>3, <2>4, <2>5 DEF Known
  <2>. QED  BY <2>3, <2>5, <2>6 DEF FreshReads, Fresh, Answers, Held
<1>5. ASSUME NEW c \in Clients, TakeAnswer(c)
      PROVE  Known' /\ FreshReads'
  <2>1. /\ books[c] # <<>> /\ books' = [books EXCEPT ![c] = Tail(@)]
        /\ asked' = [asked EXCEPT ![c] = Tail(@)]
        /\ UNCHANGED <<read_book_request_bus, books_data, requests_at, book_client, book_answer>>
    BY <1>5 DEF TakeAnswer, requestsVars
  <2>2. DOMAIN asked = Clients /\ DOMAIN books = Clients
    BY DEF Known, TypeOK, IsBus
  <2>3. ASSUME NEW i \in Clients
        PROVE  /\ asked'[i] \in Seq(Read) /\ Current(asked'[i], books_data)
               /\ Fresh(asked'[i], Answers(i)', read_book_request_bus[i])
    <3>1. CASE i = c
      <4>1. books'[i] = Tail(books[i]) /\ asked'[i] = Tail(asked[i])
        BY <2>1, <2>2, <3>1
      <4>2. Answers(i) # <<>> /\ Answers(i)' = Tail(Answers(i))
        <5>1. /\ books[i] \in Seq(Book) /\ Held(i) \in Seq(Book) /\ books[i] # <<>>
              /\ Held(i)' = Held(i)
          BY <2>1, <3>1, FreshTypes DEF Held
        <5>2. books[i] \o Held(i) # <<>> /\ Tail(books[i] \o Held(i)) = Tail(books[i]) \o Held(i)
          BY <5>1, TailOfConcat
        <5>. QED  BY <4>1, <5>1, <5>2 DEF Answers
      <4>3. Fresh(Tail(asked[i]), Tail(Answers(i)), read_book_request_bus[i])
              /\ Tail(asked[i]) \in Seq(Read)
        BY <1>0, <4>2, FreshTypes, FreshTake
      <4>4. asked[i] # <<>>
        BY <1>0, <4>2, FreshTypes DEF Fresh
      <4>5. Current(Tail(asked[i]), books_data)
        <5>1. /\ Len(Tail(asked[i])) = Len(asked[i]) - 1
              /\ \A j \in 1..(Len(asked[i]) - 1) : Tail(asked[i])[j] = asked[i][j + 1]
              /\ Len(asked[i]) \in Nat
          BY <1>0, <4>4
        <5>. QED  BY <1>0, <5>1 DEF Current
      <4>. QED  BY <4>1, <4>2, <4>3, <4>5
    <3>2. CASE i # c
      BY <1>0, <2>1, <2>2, <3>2 DEF Answers, Held
    <3>. QED  BY <3>1, <3>2
  <2>4. Known'
    BY <2>1, <2>2, <2>3 DEF Known
  <2>. QED  BY <2>1, <2>3, <2>4 DEF FreshReads, Fresh, Answers, Held
<1>6. ASSUME UNCHANGED <<books, books_data, requests_at, book_client, book_answer,
                         asked, read_book_request_bus>>
      PROVE  Known' /\ FreshReads'
  BY <1>6 DEF Known, FreshReads
<1>7. CASE FeedWord \/ UNCHANGED vars
  BY <1>6, <1>7 DEF FeedWord, vars, requestsVars, booksStreams
<1>8. CASE Updates
  BY <1>6, <1>8 DEF Updates, p_book_updates, ReadUpdateWord, WriteUpdate, requestsVars
<1>9. Requests => ApplyUpdate \/ TurnToRequests \/ SkipClient \/ ReadRequest \/ WriteAnswer
  BY DEF Requests, p_book_requests
<1>. QED  BY <1>1, <1>2, <1>3, <1>4, <1>5, <1>7, <1>8, <1>9 DEF Next

LEMMA FreshInit == Init => Known /\ FreshReads
BY DEF Init, LocalInit, Known, Current, FreshReads, Clients

(* Every read is answered with a book its memory held between the request  *)
(* and the answer, in the order of the reads of each client, whatever the  *)
(* feed and the other client do.                                           *)
THEOREM AlwaysFresh == Spec => []FreshReads
<1>1. TypeOK /\ Known /\ FreshReads /\ [Next]_vars => TypeOK' /\ Known' /\ FreshReads'
  BY TypeStep, FreshStep
<1>. QED  BY InitTypes, FreshInit, <1>1, PTL DEF Spec
=============================================================================
