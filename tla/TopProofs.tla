----------------------------- MODULE TopProofs -----------------------------
(***************************************************************************)
(* The blocks of the market data side composed, for every feed and every   *)
(* depth of the streams.  First the questions and answers of both          *)
(* strategies are counted through the streams and the memories: what a     *)
(* stream carries does not matter there, only how much.  Then what the     *)
(* streams carry, by the place of each word in the feed: no trade is       *)
(* decided on a book older than Lag words.  At last, from the counts, that *)
(* the blocks never lock each other up.                                    *)
(***************************************************************************)
EXTENDS Top, HlsStreamProofs

IsSequence(s) == \E W : s \in Seq(W)

LEMMA AppendSequence ==
  ASSUME NEW s, IsSequence(s), NEW e
  PROVE  IsSequence(Append(s, e)) /\ Len(Append(s, e)) = Len(s) + 1 /\ Len(s) \in Nat
<1>1. PICK W : s \in Seq(W)
  BY DEF IsSequence
<1>. DEFINE V == W \cup {e}
<1>2. s \in Seq(V) /\ e \in V
  BY <1>1
<1>. HIDE DEF V
<1>3. Append(s, e) \in Seq(V) /\ Len(Append(s, e)) = Len(s) + 1 /\ Len(s) \in Nat
  BY <1>2
<1>. QED  BY <1>3 DEF IsSequence

LEMMA TailSequence ==
  ASSUME NEW s, IsSequence(s), s # <<>>
  PROVE  IsSequence(Tail(s)) /\ Len(Tail(s)) = Len(s) - 1 /\ Len(s) \in Nat
<1>1. PICK W : s \in Seq(W)
  BY DEF IsSequence
<1>2. Tail(s) \in Seq(W) /\ Len(Tail(s)) = Len(s) - 1 /\ Len(s) \in Nat
  BY <1>1
<1>. QED  BY <1>2 DEF IsSequence

(* An array with a stream for each strategy. *)
IsArray(bus) == DOMAIN bus = Strategies /\ \A i \in Strategies : IsSequence(bus[i])

LEMMA StrategyIds == Strategies = {0, 1}
BY DEF Strategies, T2c!Me, T2t!Me

LEMMA ArrayLengths ==
  ASSUME NEW bus, IsArray(bus), NEW i \in Strategies
  PROVE  Len(bus[i]) \in Nat
<1>1. PICK W : bus[i] \in Seq(W)
  BY DEF IsArray, IsSequence
<1>. QED  BY <1>1

(* One write or read changes the length of one stream by one. *)
Changed(old, new, c) ==
  IsArray(old) /\ IsArray(new) /\ \A i \in Strategies : i # c => new[i] = old[i]
Grew(old, new, c) == Changed(old, new, c) /\ Len(new[c]) = Len(old[c]) + 1
Shrank(old, new, c) == Changed(old, new, c) /\ Len(new[c]) = Len(old[c]) - 1

LEMMA ArrayWrite ==
  ASSUME NEW bus, IsArray(bus), NEW c \in Strategies, NEW e
  PROVE  Grew(bus, [bus EXCEPT ![c] = Append(@, e)], c)
<1>. DEFINE new == [bus EXCEPT ![c] = Append(@, e)]
<1>1. DOMAIN new = Strategies /\ new[c] = Append(bus[c], e)
  BY DEF IsArray
<1>2. \A i \in Strategies : i # c => new[i] = bus[i]
  BY DEF IsArray
<1>. HIDE DEF new
<1>3. IsSequence(new[c]) /\ Len(new[c]) = Len(bus[c]) + 1
  BY <1>1, AppendSequence DEF IsArray
<1>4. \A i \in Strategies : IsSequence(new[i])
  BY <1>2, <1>3 DEF IsArray
<1>5. IsArray(new)
  BY <1>1, <1>4 DEF IsArray
<1>6. Grew(bus, new, c)
  BY <1>2, <1>3, <1>5 DEF Grew, Changed
<1>. QED  BY <1>6 DEF new

LEMMA ArrayRead ==
  ASSUME NEW bus, IsArray(bus), NEW c \in Strategies, bus[c] # <<>>
  PROVE  Shrank(bus, [bus EXCEPT ![c] = Tail(@)], c)
<1>. DEFINE new == [bus EXCEPT ![c] = Tail(@)]
<1>1. DOMAIN new = Strategies /\ new[c] = Tail(bus[c])
  BY DEF IsArray
<1>2. \A i \in Strategies : i # c => new[i] = bus[i]
  BY DEF IsArray
<1>. HIDE DEF new
<1>3. IsSequence(new[c]) /\ Len(new[c]) = Len(bus[c]) - 1
  BY <1>1, TailSequence DEF IsArray
<1>4. \A i \in Strategies : IsSequence(new[i])
  BY <1>2, <1>3 DEF IsArray
<1>5. IsArray(new)
  BY <1>1, <1>4 DEF IsArray
<1>6. Shrank(bus, new, c)
  BY <1>2, <1>3, <1>5 DEF Shrank, Changed
<1>. QED  BY <1>6 DEF new

(* The streams are sequences and the memories serve one of the strategies. *)
Shape ==
  /\ IsArray(instrument_read_bus) /\ IsArray(instrument_read_responses)
  /\ IsArray(read_book_request_bus) /\ IsArray(books)
  /\ IsSequence(t2c_context)
  /\ client \in Strategies /\ book_client \in Strategies

TopInv == Shape /\ InStep

ShapeVars == <<instrument_read_bus, instrument_read_responses, read_book_request_bus,
               books, t2c_context>>

LEMMA Lengths ==
  ASSUME Shape
  PROVE  /\ \A i \in Strategies :
              /\ Len(instrument_read_bus[i]) \in Nat /\ Len(instrument_read_responses[i]) \in Nat
              /\ Len(read_book_request_bus[i]) \in Nat /\ Len(books[i]) \in Nat
         /\ Len(t2c_context) \in Nat
<1>1. PICK W : t2c_context \in Seq(W)
  BY DEF Shape, IsSequence
<1>2. Len(t2c_context) \in Nat
  BY <1>1
<1>. QED  BY <1>2, ArrayLengths DEF Shape

(* What a count is the sum of: questions, answers, the one a memory holds. *)
ConfAsked(i) == Len(instrument_read_bus[i])
ConfAnswered(i) == Len(instrument_read_responses[i])
ConfHeld(i) == IF config_at = "answer" /\ client = i THEN 1 ELSE 0
BookAsked(i) == Len(read_book_request_bus[i])
BookAnswered(i) == Len(books[i])
BookHeld(i) == IF requests_at = "answer" /\ book_client = i THEN 1 ELSE 0

LEMMA Sums ==
  ASSUME NEW i
  PROVE  /\ ConfUnderWay(i) = ConfAsked(i) + ConfAnswered(i) + ConfHeld(i)
         /\ ConfUnderWay(i)' = ConfAsked(i)' + ConfAnswered(i)' + ConfHeld(i)'
         /\ BookUnderWay(i) = BookAsked(i) + BookAnswered(i) + BookHeld(i)
         /\ BookUnderWay(i)' = BookAsked(i)' + BookAnswered(i)' + BookHeld(i)'
BY DEF ConfUnderWay, BookUnderWay, UnderWay, ConfHeld, BookHeld, ConfAsked, ConfAnswered,
       BookAsked, BookAnswered

LEMMA Counts ==
  ASSUME Shape, NEW i \in {0, 1}
  PROVE  /\ ConfAsked(i) \in Nat /\ ConfAnswered(i) \in Nat /\ ConfHeld(i) \in Nat
         /\ BookAsked(i) \in Nat /\ BookAnswered(i) \in Nat /\ BookHeld(i) \in Nat
BY Lengths, StrategyIds DEF ConfHeld, BookHeld, ConfAsked, ConfAnswered, BookAsked, BookAnswered

LEMMA TotalCounts ==
  ASSUME Shape
  PROVE  /\ \A i \in {0, 1} : ConfUnderWay(i) \in Nat /\ BookUnderWay(i) \in Nat
         /\ Len(t2c_context) \in Nat
<1>1. ASSUME NEW i \in {0, 1}
      PROVE  ConfUnderWay(i) \in Nat /\ BookUnderWay(i) \in Nat
  BY Counts, Sums
<1>2. Len(t2c_context) \in Nat
  BY Lengths
<1>. QED  BY <1>1, <1>2

(* What both counts of a strategy are made of does not change. *)
LEMMA SameCounts ==
  ASSUME TopInv, UNCHANGED ShapeVars,
         client' \in Strategies, book_client' \in Strategies,
         /\ (config_at = "answer" \/ config_at' = "answer") => UNCHANGED <<config_at, client>>
         /\ (requests_at = "answer" \/ requests_at' = "answer")
              => UNCHANGED <<requests_at, book_client>>,
         /\ preprocess_at' \in {"instrument", "book"} \/ preprocess_at \in {"instrument", "book"}
              => UNCHANGED preprocess_at
         /\ algo_at' \in {"book", "waiting"} \/ algo_at \in {"book", "waiting"}
              => UNCHANGED algo_at
  PROVE  TopInv'
<1>1. Shape'
  BY DEF TopInv, Shape, ShapeVars
<1>2. ASSUME NEW i \in {0, 1}
      PROVE  ConfUnderWay(i)' = ConfUnderWay(i) /\ BookUnderWay(i)' = BookUnderWay(i)
  BY DEF ConfUnderWay, BookUnderWay, UnderWay, ShapeVars
<1>3. Len(t2c_context') = Len(t2c_context)
  BY DEF ShapeVars
<1>. QED  BY <1>1, <1>2, <1>3 DEF TopInv, InStep

(* Tick2cancel asks for a configuration and a book per context, and takes  *)
(* an answer of each with it.                                              *)
LEMMA Tick2cancelStep ==
  ASSUME TopInv, preprocess_nxbus \/ trigger
  PROVE  TopInv'
<1>. USE StrategyIds
<1>0. /\ Shape /\ InStep
      /\ UNCHANGED <<algo_at, config_at, client, requests_at, book_client>>
  BY DEF TopInv, preprocess_nxbus, trigger, OutsideT2c, t2tVars, booksVars, configVars
<1>1. CASE T2c!WriteContext
  <2>1. /\ preprocess_at = "context" /\ preprocess_at' = "instrument"
        /\ t2c_context' = Append(t2c_context, t2c_decision_data)
        /\ UNCHANGED <<instrument_read_bus, instrument_read_responses,
                       read_book_request_bus, books>>
    BY <1>1 DEF T2c!WriteContext
  <2>2. IsSequence(t2c_context') /\ Len(t2c_context') = Len(t2c_context) + 1
    BY <1>0, <2>1, AppendSequence DEF Shape
  <2>3. Shape'
    BY <1>0, <2>1, <2>2 DEF Shape
  <2>4. \A i \in {0, 1} :
          ConfUnderWay(i)' = ConfUnderWay(i) /\ BookUnderWay(i)' = BookUnderWay(i)
    BY <1>0, <2>1 DEF ConfUnderWay, BookUnderWay, UnderWay
  <2>5. InStep'
    BY <1>0, <2>1, <2>2, <2>4, TotalCounts DEF InStep
  <2>. QED  BY <2>3, <2>5 DEF TopInv
<1>2. CASE T2c!RequestInstrument
  <2>1. /\ preprocess_at = "instrument" /\ preprocess_at' = "book"
        /\ instrument_read_bus' =
             [instrument_read_bus EXCEPT ![0] = Append(@, t2c_decision_data.instr_id)]
        /\ UNCHANGED <<t2c_context, instrument_read_responses, read_book_request_bus, books>>
    BY <1>2 DEF T2c!RequestInstrument, T2c!Me, T2c!preprocessVars
  <2>2. Grew(instrument_read_bus, instrument_read_bus', 0)
    BY <1>0, <2>1, ArrayWrite DEF Shape
  <2>3. Shape'
    BY <1>0, <2>1, <2>2 DEF Shape, Grew, Changed
  <2>4. ConfUnderWay(0)' = ConfUnderWay(0) + 1 /\ ConfUnderWay(1)' = ConfUnderWay(1)
    <3>1. ConfAsked(0)' = ConfAsked(0) + 1
      BY <2>2, Zenon DEF Grew, ConfAsked
    <3>2. instrument_read_bus'[1] = instrument_read_bus[1]
      BY <2>2 DEF Grew, Changed
    <3>3. ConfAsked(1)' = ConfAsked(1)
      BY <3>2 DEF ConfAsked
    <3>4. \A i \in {0, 1} : ConfAnswered(i)' = ConfAnswered(i) /\ ConfHeld(i)' = ConfHeld(i)
      BY <1>0, <2>1 DEF ConfAnswered, ConfHeld
    <3>. QED  BY <1>0, <3>1, <3>3, <3>4, Counts, Sums
  <2>5. \A i \in {0, 1} : BookUnderWay(i)' = BookUnderWay(i)
    BY <1>0, <2>1 DEF BookUnderWay, UnderWay
  <2>6. InStep'
    BY <1>0, <2>1, <2>4, <2>5, TotalCounts DEF InStep
  <2>. QED  BY <2>3, <2>6 DEF TopInv
<1>3. CASE T2c!RequestBook
  <2>1. /\ preprocess_at = "book" /\ preprocess_at' = "read"
        /\ read_book_request_bus' =
             [read_book_request_bus EXCEPT ![0] = Append(@, t2c_decision_data.instr_id)]
        /\ UNCHANGED <<t2c_context, instrument_read_responses, instrument_read_bus, books>>
    BY <1>3 DEF T2c!RequestBook, T2c!Me, T2c!preprocessVars
  <2>2. Grew(read_book_request_bus, read_book_request_bus', 0)
    BY <1>0, <2>1, ArrayWrite DEF Shape
  <2>3. Shape'
    BY <1>0, <2>1, <2>2 DEF Shape, Grew, Changed
  <2>4. BookUnderWay(0)' = BookUnderWay(0) + 1 /\ BookUnderWay(1)' = BookUnderWay(1)
    <3>1. BookAsked(0)' = BookAsked(0) + 1
      BY <2>2, Zenon DEF Grew, BookAsked
    <3>2. read_book_request_bus'[1] = read_book_request_bus[1]
      BY <2>2 DEF Grew, Changed
    <3>3. BookAsked(1)' = BookAsked(1)
      BY <3>2 DEF BookAsked
    <3>4. \A i \in {0, 1} : BookAnswered(i)' = BookAnswered(i) /\ BookHeld(i)' = BookHeld(i)
      BY <1>0, <2>1 DEF BookAnswered, BookHeld
    <3>. QED  BY <1>0, <3>1, <3>3, <3>4, Counts, Sums
  <2>5. \A i \in {0, 1} : ConfUnderWay(i)' = ConfUnderWay(i)
    BY <1>0, <2>1 DEF ConfUnderWay, UnderWay
  <2>6. InStep'
    BY <1>0, <2>1, <2>4, <2>5, TotalCounts DEF InStep
  <2>. QED  BY <2>3, <2>6 DEF TopInv
<1>4. CASE T2c!TriggerRead
  <2>1. /\ instrument_read_responses[0] # <<>> /\ books[0] # <<>> /\ t2c_context # <<>>
        /\ instrument_read_responses' = [instrument_read_responses EXCEPT ![0] = Tail(@)]
        /\ books' = [books EXCEPT ![0] = Tail(@)]
        /\ t2c_context' = Tail(t2c_context)
        /\ UNCHANGED <<preprocess_at, instrument_read_bus, read_book_request_bus>>
    BY <1>4 DEF T2c!TriggerRead, T2c!Me, T2c!preprocessVars
  <2>2. Shrank(instrument_read_responses, instrument_read_responses', 0)
    BY <1>0, <2>1, ArrayRead DEF Shape
  <2>3. Shrank(books, books', 0)
    BY <1>0, <2>1, ArrayRead DEF Shape
  <2>4. IsSequence(t2c_context') /\ Len(t2c_context') = Len(t2c_context) - 1
    BY <1>0, <2>1, TailSequence DEF Shape
  <2>5. Shape'
    BY <1>0, <2>1, <2>2, <2>3, <2>4 DEF Shape, Shrank, Changed
  <2>6. ConfUnderWay(0)' = ConfUnderWay(0) - 1 /\ ConfUnderWay(1)' = ConfUnderWay(1)
    <3>1. ConfAnswered(0)' = ConfAnswered(0) - 1
      BY <2>2, Zenon DEF Shrank, ConfAnswered
    <3>2. instrument_read_responses'[1] = instrument_read_responses[1]
      BY <2>2 DEF Shrank, Changed
    <3>3. ConfAnswered(1)' = ConfAnswered(1)
      BY <3>2 DEF ConfAnswered
    <3>4. \A i \in {0, 1} : ConfAsked(i)' = ConfAsked(i) /\ ConfHeld(i)' = ConfHeld(i)
      BY <1>0, <2>1 DEF ConfAsked, ConfHeld
    <3>. QED  BY <1>0, <3>1, <3>3, <3>4, Counts, Sums
  <2>7. BookUnderWay(0)' = BookUnderWay(0) - 1 /\ BookUnderWay(1)' = BookUnderWay(1)
    <3>1. BookAnswered(0)' = BookAnswered(0) - 1
      BY <2>3, Zenon DEF Shrank, BookAnswered
    <3>2. books'[1] = books[1]
      BY <2>3 DEF Shrank, Changed
    <3>3. BookAnswered(1)' = BookAnswered(1)
      BY <3>2 DEF BookAnswered
    <3>4. \A i \in {0, 1} : BookAsked(i)' = BookAsked(i) /\ BookHeld(i)' = BookHeld(i)
      BY <1>0, <2>1 DEF BookAsked, BookHeld
    <3>. QED  BY <1>0, <3>1, <3>3, <3>4, Counts, Sums
  <2>8. InStep'
    BY <1>0, <2>1, <2>4, <2>6, <2>7, TotalCounts DEF InStep
  <2>. QED  BY <2>5, <2>8 DEF TopInv
<1>5. CASE T2c!PreprocessRead \/ T2c!WriteCommand \/ T2c!WriteNotification
  <2>1. /\ UNCHANGED ShapeVars
        /\ \/ preprocess_at' = preprocess_at
           \/ preprocess_at = "read" /\ preprocess_at' \in {"context", "read"}
    BY <1>5 DEF T2c!PreprocessRead, T2c!WriteCommand, T2c!WriteNotification, ShapeVars,
       T2c!preprocessVars
  <2>. QED  BY <1>0, <2>1, SameCounts DEF Shape, TopInv
<1>. QED  BY <1>1, <1>2, <1>3, <1>4, <1>5
  DEF preprocess_nxbus, trigger, T2c!Preprocess, T2c!Trigger

(* Tick2trade asks for one of each and waits for both.                     *)
LEMMA Tick2tradeStep ==
  ASSUME TopInv, p_algo
  PROVE  TopInv'
<1>. USE StrategyIds
<1>0. /\ Shape /\ InStep
      /\ UNCHANGED <<t2c_context, preprocess_at, config_at, client, requests_at, book_client>>
  BY DEF TopInv, p_algo, t2cVars, booksVars, configVars
<1>1. CASE T2t!RequestInstrument
  <2>1. /\ algo_at = "instrument" /\ algo_at' = "book"
        /\ instrument_read_bus' =
             [instrument_read_bus EXCEPT ![1] = Append(@, pending_nxbus_data.instr_id)]
        /\ UNCHANGED <<instrument_read_responses, read_book_request_bus, books>>
    BY <1>1 DEF T2t!RequestInstrument, T2t!Me
  <2>2. Grew(instrument_read_bus, instrument_read_bus', 1)
    BY <1>0, <2>1, ArrayWrite DEF Shape
  <2>3. Shape'
    BY <1>0, <2>1, <2>2 DEF Shape, Grew, Changed
  <2>4. ConfUnderWay(1)' = ConfUnderWay(1) + 1 /\ ConfUnderWay(0)' = ConfUnderWay(0)
    <3>1. ConfAsked(1)' = ConfAsked(1) + 1
      BY <2>2, Zenon DEF Grew, ConfAsked
    <3>2. instrument_read_bus'[0] = instrument_read_bus[0]
      BY <2>2 DEF Grew, Changed
    <3>3. ConfAsked(0)' = ConfAsked(0)
      BY <3>2 DEF ConfAsked
    <3>4. \A i \in {0, 1} : ConfAnswered(i)' = ConfAnswered(i) /\ ConfHeld(i)' = ConfHeld(i)
      BY <1>0, <2>1 DEF ConfAnswered, ConfHeld
    <3>. QED  BY <1>0, <3>1, <3>3, <3>4, Counts, Sums
  <2>5. \A i \in {0, 1} : BookUnderWay(i)' = BookUnderWay(i)
    BY <1>0, <2>1 DEF BookUnderWay, UnderWay
  <2>6. InStep'
    BY <1>0, <2>1, <2>4, <2>5, TotalCounts DEF InStep
  <2>. QED  BY <2>3, <2>6 DEF TopInv
<1>2. CASE T2t!RequestBook
  <2>1. /\ algo_at = "book" /\ algo_at' = "waiting"
        /\ read_book_request_bus' =
             [read_book_request_bus EXCEPT ![1] = Append(@, pending_nxbus_data.instr_id)]
        /\ UNCHANGED <<instrument_read_responses, instrument_read_bus, books>>
    BY <1>2 DEF T2t!RequestBook, T2t!Me
  <2>2. Grew(read_book_request_bus, read_book_request_bus', 1)
    BY <1>0, <2>1, ArrayWrite DEF Shape
  <2>3. Shape'
    BY <1>0, <2>1, <2>2 DEF Shape, Grew, Changed
  <2>4. BookUnderWay(1)' = BookUnderWay(1) + 1 /\ BookUnderWay(0)' = BookUnderWay(0)
    <3>1. BookAsked(1)' = BookAsked(1) + 1
      BY <2>2, Zenon DEF Grew, BookAsked
    <3>2. read_book_request_bus'[0] = read_book_request_bus[0]
      BY <2>2 DEF Grew, Changed
    <3>3. BookAsked(0)' = BookAsked(0)
      BY <3>2 DEF BookAsked
    <3>4. \A i \in {0, 1} : BookAnswered(i)' = BookAnswered(i) /\ BookHeld(i)' = BookHeld(i)
      BY <1>0, <2>1 DEF BookAnswered, BookHeld
    <3>. QED  BY <1>0, <3>1, <3>3, <3>4, Counts, Sums
  <2>5. \A i \in {0, 1} : ConfUnderWay(i)' = ConfUnderWay(i)
    BY <1>0, <2>1 DEF ConfUnderWay, UnderWay
  <2>6. InStep'
    BY <1>0, <2>1, <2>4, <2>5, TotalCounts DEF InStep
  <2>. QED  BY <2>3, <2>6 DEF TopInv
<1>3. CASE T2t!Decide
  <2>1. /\ instrument_read_responses[1] # <<>> /\ books[1] # <<>>
        /\ instrument_read_responses' = [instrument_read_responses EXCEPT ![1] = Tail(@)]
        /\ books' = [books EXCEPT ![1] = Tail(@)]
        /\ algo_at = "waiting" /\ algo_at' \in {"ready", "command"}
        /\ UNCHANGED <<instrument_read_bus, read_book_request_bus>>
    BY <1>3 DEF T2t!Decide, T2t!Me
  <2>2. Shrank(instrument_read_responses, instrument_read_responses', 1)
    BY <1>0, <2>1, ArrayRead DEF Shape
  <2>3. Shrank(books, books', 1)
    BY <1>0, <2>1, ArrayRead DEF Shape
  <2>4. Shape'
    BY <1>0, <2>1, <2>2, <2>3 DEF Shape, Shrank, Changed
  <2>5. ConfUnderWay(1)' = ConfUnderWay(1) - 1 /\ ConfUnderWay(0)' = ConfUnderWay(0)
    <3>1. ConfAnswered(1)' = ConfAnswered(1) - 1
      BY <2>2, Zenon DEF Shrank, ConfAnswered
    <3>2. instrument_read_responses'[0] = instrument_read_responses[0]
      BY <2>2 DEF Shrank, Changed
    <3>3. ConfAnswered(0)' = ConfAnswered(0)
      BY <3>2 DEF ConfAnswered
    <3>4. \A i \in {0, 1} : ConfAsked(i)' = ConfAsked(i) /\ ConfHeld(i)' = ConfHeld(i)
      BY <1>0, <2>1 DEF ConfAsked, ConfHeld
    <3>. QED  BY <1>0, <3>1, <3>3, <3>4, Counts, Sums
  <2>6. BookUnderWay(1)' = BookUnderWay(1) - 1 /\ BookUnderWay(0)' = BookUnderWay(0)
    <3>1. BookAnswered(1)' = BookAnswered(1) - 1
      BY <2>3, Zenon DEF Shrank, BookAnswered
    <3>2. books'[0] = books[0]
      BY <2>3 DEF Shrank, Changed
    <3>3. BookAnswered(0)' = BookAnswered(0)
      BY <3>2 DEF BookAnswered
    <3>4. \A i \in {0, 1} : BookAsked(i)' = BookAsked(i) /\ BookHeld(i)' = BookHeld(i)
      BY <1>0, <2>1 DEF BookAsked, BookHeld
    <3>. QED  BY <1>0, <3>1, <3>3, <3>4, Counts, Sums
  <2>7. InStep'
    BY <1>0, <2>1, <2>5, <2>6, TotalCounts DEF InStep
  <2>. QED  BY <2>4, <2>7 DEF TopInv
<1>4. CASE T2t!ReadNxbus \/ T2t!WriteCommand \/ T2t!WriteNotification
  <2>1. /\ UNCHANGED ShapeVars
        /\ algo_at \in {"ready", "command", "notification"}
        /\ algo_at' \in {"ready", "instrument", "notification"}
    BY <1>0, <1>4 DEF T2t!ReadNxbus, T2t!WriteCommand, T2t!WriteNotification, ShapeVars
  <2>. QED  BY <1>0, <2>1, SameCounts DEF Shape, TopInv
<1>. QED  BY <1>1, <1>2, <1>3, <1>4 DEF p_algo, T2t!p_algo

(* A memory takes one question of a strategy and holds one answer for it.  *)
LEMMA BooksStep ==
  ASSUME TopInv, p_book_updates \/ p_book_requests
  PROVE  TopInv'
<1>. USE StrategyIds
<1>0. /\ Shape /\ InStep
      /\ UNCHANGED <<instrument_read_bus, instrument_read_responses, t2c_context,
                     preprocess_at, algo_at, config_at, client>>
  BY DEF TopInv, p_book_updates, p_book_requests, OutsideBooks, t2cVars, t2tVars, configVars
<1>c. PICK c \in {0, 1} : c = book_client
  BY <1>0 DEF Shape
<1>1. CASE Memory!ReadRequest
  <2>1. /\ requests_at = "serve" /\ requests_at' = "answer" /\ book_client' = c
        /\ read_book_request_bus[c] # <<>> /\ books' = books /\ c \in Strategies
        /\ read_book_request_bus' = [read_book_request_bus EXCEPT ![c] = Tail(@)]
    BY <1>0, <1>c, <1>1 DEF Memory!ReadRequest, Shape
  <2>2. Shrank(read_book_request_bus, read_book_request_bus', c)
    BY <1>0, <2>1, ArrayRead DEF Shape
  <2>3. ASSUME NEW i \in {0, 1} PROVE BookUnderWay(i)' = BookUnderWay(i)
    <3>1. i # c => BookHeld(i)' = BookHeld(i)
      BY <1>0, <1>c, <2>1 DEF BookHeld
    <3>2. BookHeld(c) = 0 /\ BookHeld(c)' = 1
      BY <1>0, <1>c, <2>1 DEF BookHeld
    <3>3. BookAsked(c)' = BookAsked(c) - 1
      BY <2>2, Zenon DEF Shrank, BookAsked
    <3>4. i # c => read_book_request_bus'[i] = read_book_request_bus[i]
      BY <2>2 DEF Shrank, Changed
    <3>5. i # c => BookAsked(i)' = BookAsked(i)
      BY <3>4 DEF BookAsked
    <3>6. BookAnswered(i)' = BookAnswered(i)
      BY <1>0, <2>1 DEF BookAnswered
    <3>7. CASE i = c
      BY <1>0, <3>2, <3>3, <3>6, <3>7, Counts, Sums
    <3>8. CASE i # c
      BY <1>0, <3>1, <3>5, <3>6, <3>8, Counts, Sums
    <3>. QED  BY <3>7, <3>8
  <2>4. \A i \in {0, 1} : ConfUnderWay(i)' = ConfUnderWay(i)
    BY <1>0 DEF ConfUnderWay, UnderWay
  <2>5. Shape'
    BY <1>0, <2>1, <2>2 DEF Shape, Shrank, Changed
  <2>6. InStep'
    BY <1>0, <2>3, <2>4 DEF InStep
  <2>. QED  BY <2>5, <2>6 DEF TopInv
<1>2. CASE Memory!WriteAnswer
  <2>1. /\ requests_at = "answer" /\ requests_at' # "answer" /\ book_client' \in Strategies
        /\ read_book_request_bus' = read_book_request_bus /\ c \in Strategies
        /\ books' = [books EXCEPT ![c] = Append(@, book_answer)]
    BY <1>0, <1>c, <1>2 DEF Memory!WriteAnswer, Memory!NextClient, Shape
  <2>2. Grew(books, books', c)
    BY <1>0, <2>1, ArrayWrite DEF Shape
  <2>3. ASSUME NEW i \in {0, 1} PROVE BookUnderWay(i)' = BookUnderWay(i)
    <3>1. i # c => BookHeld(i)' = BookHeld(i)
      BY <1>0, <1>c, <2>1 DEF BookHeld
    <3>2. BookHeld(c) = 1 /\ BookHeld(c)' = 0
      BY <1>0, <1>c, <2>1 DEF BookHeld
    <3>3. BookAnswered(c)' = BookAnswered(c) + 1
      BY <2>2, Zenon DEF Grew, BookAnswered
    <3>4. i # c => books'[i] = books[i]
      BY <2>2 DEF Grew, Changed
    <3>5. i # c => BookAnswered(i)' = BookAnswered(i)
      BY <3>4 DEF BookAnswered
    <3>6. BookAsked(i)' = BookAsked(i)
      BY <1>0, <2>1 DEF BookAsked
    <3>7. CASE i = c
      BY <1>0, <3>2, <3>3, <3>6, <3>7, Counts, Sums
    <3>8. CASE i # c
      BY <1>0, <3>1, <3>5, <3>6, <3>8, Counts, Sums
    <3>. QED  BY <3>7, <3>8
  <2>4. \A i \in {0, 1} : ConfUnderWay(i)' = ConfUnderWay(i)
    BY <1>0 DEF ConfUnderWay, UnderWay
  <2>5. Shape'
    BY <1>0, <2>1, <2>2 DEF Shape, Grew, Changed
  <2>6. InStep'
    BY <1>0, <2>3, <2>4 DEF InStep
  <2>. QED  BY <2>5, <2>6 DEF TopInv
<1>3. CASE \/ p_book_updates
           \/ Memory!ApplyUpdate \/ Memory!TurnToRequests \/ Memory!SkipClient
  <2>1. /\ UNCHANGED ShapeVars /\ book_client' \in Strategies
        /\ (requests_at = "answer" \/ requests_at' = "answer")
             => UNCHANGED <<requests_at, book_client>>
    BY <1>0, <1>3 DEF p_book_updates, Memory!p_book_updates, Memory!ReadUpdateWord,
       Memory!WriteUpdate, Memory!ApplyUpdate, Memory!TurnToRequests, Memory!SkipClient,
       Memory!NextClient, ShapeVars, Shape, Memory!updatesVars, Memory!requestsVars,
       Memory!booksStreams
  <2>. QED  BY <1>0, <2>1, SameCounts DEF Shape, TopInv
<1>. QED  BY <1>1, <1>2, <1>3 DEF p_book_requests, Memory!p_book_requests

LEMMA ConfigurationStep ==
  ASSUME TopInv, p_handle_instrument_configuration
  PROVE  TopInv'
<1>. USE StrategyIds
<1>0. /\ Shape /\ InStep
      /\ UNCHANGED <<read_book_request_bus, books, t2c_context, preprocess_at, algo_at,
                     requests_at, book_client>>
  BY DEF TopInv, p_handle_instrument_configuration, t2cVars, t2tVars, booksVars
<1>c. PICK c \in {0, 1} : c = client
  BY <1>0 DEF Shape
<1>1. CASE Config!ReadRequest
  <2>1. /\ config_at = "serve" /\ config_at' = "answer" /\ client' = c
        /\ instrument_read_bus[c] # <<>> /\ c \in Strategies
        /\ instrument_read_responses' = instrument_read_responses
        /\ instrument_read_bus' = [instrument_read_bus EXCEPT ![c] = Tail(@)]
    BY <1>0, <1>c, <1>1 DEF Config!ReadRequest, Shape
  <2>2. Shrank(instrument_read_bus, instrument_read_bus', c)
    BY <1>0, <2>1, ArrayRead DEF Shape
  <2>3. ASSUME NEW i \in {0, 1} PROVE ConfUnderWay(i)' = ConfUnderWay(i)
    <3>1. i # c => ConfHeld(i)' = ConfHeld(i)
      BY <1>0, <1>c, <2>1 DEF ConfHeld
    <3>2. ConfHeld(c) = 0 /\ ConfHeld(c)' = 1
      BY <1>0, <1>c, <2>1 DEF ConfHeld
    <3>3. ConfAsked(c)' = ConfAsked(c) - 1
      BY <2>2, Zenon DEF Shrank, ConfAsked
    <3>4. i # c => instrument_read_bus'[i] = instrument_read_bus[i]
      BY <2>2 DEF Shrank, Changed
    <3>5. i # c => ConfAsked(i)' = ConfAsked(i)
      BY <3>4 DEF ConfAsked
    <3>6. ConfAnswered(i)' = ConfAnswered(i)
      BY <1>0, <2>1 DEF ConfAnswered
    <3>7. CASE i = c
      BY <1>0, <3>2, <3>3, <3>6, <3>7, Counts, Sums
    <3>8. CASE i # c
      BY <1>0, <3>1, <3>5, <3>6, <3>8, Counts, Sums
    <3>. QED  BY <3>7, <3>8
  <2>4. \A i \in {0, 1} : BookUnderWay(i)' = BookUnderWay(i)
    BY <1>0 DEF BookUnderWay, UnderWay
  <2>5. Shape'
    BY <1>0, <2>1, <2>2 DEF Shape, Shrank, Changed
  <2>6. InStep'
    BY <1>0, <2>3, <2>4 DEF InStep
  <2>. QED  BY <2>5, <2>6 DEF TopInv
<1>2. CASE Config!WriteAnswer
  <2>1. /\ config_at = "answer" /\ config_at' # "answer" /\ client' \in Strategies
        /\ instrument_read_bus' = instrument_read_bus /\ c \in Strategies
        /\ instrument_read_responses' =
             [instrument_read_responses EXCEPT ![c] = Append(@, answer)]
    BY <1>0, <1>c, <1>2 DEF Config!WriteAnswer, Config!NextClient, Shape
  <2>2. Grew(instrument_read_responses, instrument_read_responses', c)
    BY <1>0, <2>1, ArrayWrite DEF Shape
  <2>3. ASSUME NEW i \in {0, 1} PROVE ConfUnderWay(i)' = ConfUnderWay(i)
    <3>1. i # c => ConfHeld(i)' = ConfHeld(i)
      BY <1>0, <1>c, <2>1 DEF ConfHeld
    <3>2. ConfHeld(c) = 1 /\ ConfHeld(c)' = 0
      BY <1>0, <1>c, <2>1 DEF ConfHeld
    <3>3. ConfAnswered(c)' = ConfAnswered(c) + 1
      BY <2>2, Zenon DEF Grew, ConfAnswered
    <3>4. i # c => instrument_read_responses'[i] = instrument_read_responses[i]
      BY <2>2 DEF Grew, Changed
    <3>5. i # c => ConfAnswered(i)' = ConfAnswered(i)
      BY <3>4 DEF ConfAnswered
    <3>6. ConfAsked(i)' = ConfAsked(i)
      BY <1>0, <2>1 DEF ConfAsked
    <3>7. CASE i = c
      BY <1>0, <3>2, <3>3, <3>6, <3>7, Counts, Sums
    <3>8. CASE i # c
      BY <1>0, <3>1, <3>5, <3>6, <3>8, Counts, Sums
    <3>. QED  BY <3>7, <3>8
  <2>4. \A i \in {0, 1} : BookUnderWay(i)' = BookUnderWay(i)
    BY <1>0 DEF BookUnderWay, UnderWay
  <2>5. Shape'
    BY <1>0, <2>1, <2>2 DEF Shape, Grew, Changed
  <2>6. InStep'
    BY <1>0, <2>3, <2>4 DEF InStep
  <2>. QED  BY <2>5, <2>6 DEF TopInv
<1>3. CASE ~Config!ReadRequest /\ ~Config!WriteAnswer
  <2>1. \/ Config!ReadHeader \/ Config!ReadConfWord2 \/ Config!ReadConfWord3
        \/ Config!WriteAck \/ Config!ReadSwTrigArg \/ Config!IssueTrigger
        \/ Config!IgnoreWord \/ Config!TurnToRequests \/ Config!SkipClient
    BY <1>3 DEF p_handle_instrument_configuration, Config!p_handle_instrument_configuration
  <2>2. /\ UNCHANGED <<instrument_read_bus, instrument_read_responses>>
        /\ client' \in Strategies
        /\ config_at # "answer" /\ config_at' # "answer"
    BY <1>0, <2>1 DEF Config!ReadHeader, Config!ReadConfWord2, Config!ReadConfWord3,
       Config!WriteAck, Config!ReadSwTrigArg, Config!IssueTrigger, Config!IgnoreWord,
       Config!TakeWord, Config!TurnToRequests, Config!SkipClient, Config!NextClient, Shape,
       Config!configStreams
  <2>. QED  BY <1>0, <2>2, SameCounts DEF Shape, ShapeVars, TopInv
<1>. QED  BY <1>1, <1>2, <1>3

LEMMA TopInvStep ==
  ASSUME TopInv, [Next]_vars
  PROVE  TopInv'
<1>1. CASE \/ p_demux \/ (\E i \in Strategies : TakeCommand(i)) \/ TakeNotification
           \/ UNCHANGED vars
  <2>1. UNCHANGED <<ShapeVars, config_at, client, requests_at, book_client,
                    preprocess_at, algo_at>>
    BY <1>1 DEF p_demux, TakeCommand, TakeNotification, OutsideNotifs, vars, ShapeVars,
       t2cVars, t2tVars, booksVars, configVars
  <2>. QED  BY <2>1, SameCounts DEF TopInv, Shape
<1>. QED  BY <1>1, Tick2cancelStep, Tick2tradeStep, BooksStep, ConfigurationStep DEF Next

LEMMA TopInvInit == Init => TopInv
<1>. SUFFICES ASSUME Init
              PROVE  TopInv
  OBVIOUS
<1>1. IsSequence(<<>>) /\ Len(<<>>) = 0
  BY DEF IsSequence
<1>2. /\ instrument_read_bus = [i \in Strategies |-> <<>>]
      /\ instrument_read_responses = [i \in Strategies |-> <<>>]
      /\ read_book_request_bus = [i \in Strategies |-> <<>>]
      /\ books = [i \in Strategies |-> <<>>] /\ t2c_context = <<>>
      /\ client = 0 /\ book_client = 0 /\ config_at = "word" /\ requests_at = "turn"
      /\ preprocess_at = "read" /\ algo_at = "ready"
  BY DEF Init, Empty, T2c!LocalInit, T2t!LocalInit, Memory!LocalInit
<1>3. Shape
  BY <1>1, <1>2, StrategyIds DEF Shape, IsArray
<1>4. InStep
  BY <1>1, <1>2, StrategyIds DEF InStep, ConfUnderWay, BookUnderWay, UnderWay
<1>. QED  BY <1>3, <1>4 DEF TopInv

(* The questions each strategy asked of each memory are in step with the   *)
(* trades they are for, with the memories as they are and not any that     *)
(* answers, for every feed and every depth of the streams.                 *)
THEOREM AlwaysInStep == Spec => []InStep
<1>1. TopInv => InStep
  BY DEF TopInv
<1>2. TopInv /\ [Next]_vars => TopInv'
  BY TopInvStep
<1>. QED  BY TopInvInit, <1>1, <1>2, PTL DEF Spec
-----------------------------------------------------------------------------
(* Where the words of the feed are.  Every stream of market data holds a   *)
(* window of the feed: its last word is the last one written to it.        *)
FeedWord(f, n) == [opcode |-> f[n], end_of_extra |-> TRUE, buy_nsell |-> 0,
                   price |-> n, instr_id |-> 0, packet |-> 0, level |-> 0]

IsWindow(f, s, end) ==
  /\ IsSequence(s) /\ Len(s) =< end
  /\ \A k \in 1..Len(s) : s[k] = FeedWord(f, end - Len(s) + k)

LEMMA WindowWrite ==
  ASSUME NEW f, NEW s, NEW end \in Nat, IsWindow(f, s, end)
  PROVE  /\ IsWindow(f, Append(s, FeedWord(f, end + 1)), end + 1)
         /\ Len(Append(s, FeedWord(f, end + 1))) = Len(s) + 1
<1>1. PICK W : s \in Seq(W)
  BY DEF IsWindow, IsSequence
<1>. DEFINE e == FeedWord(f, end + 1)
            t == Append(s, e)
<1>2. IsSequence(t) /\ Len(t) = Len(s) + 1 /\ Len(s) \in Nat
  BY AppendSequence DEF IsWindow
<1>3. s \in Seq(W \cup {e}) /\ e \in W \cup {e}
  BY <1>1
<1>4. \A k \in 1..Len(s) : t[k] = s[k]
  BY <1>3
<1>5. t[Len(s) + 1] = e
  BY <1>3
<1>. HIDE DEF t
<1>6. \A k \in 1..Len(t) : t[k] = FeedWord(f, (end + 1) - Len(t) + k)
  <2>1. TAKE k \in 1..Len(t)
  <2>2. (end + 1) - Len(t) + k = end - Len(s) + k
    BY <1>2
  <2>3. CASE k \in 1..Len(s)
    BY <1>4, <2>2, <2>3 DEF IsWindow
  <2>4. CASE k = Len(s) + 1
    <3>1. (end + 1) - Len(t) + k = end + 1
      BY <1>2, <2>4
    <3>. QED  BY <1>5, <2>4, <3>1
  <2>. QED  BY <1>2, <2>3, <2>4
<1>7. Len(t) =< end + 1
  BY <1>2 DEF IsWindow
<1>. QED  BY <1>2, <1>6, <1>7 DEF IsWindow, t

LEMMA WindowRead ==
  ASSUME NEW f, NEW s, NEW end \in Nat, IsWindow(f, s, end), s # <<>>
  PROVE  /\ IsWindow(f, Tail(s), end)
         /\ Len(Tail(s)) = Len(s) - 1 /\ Len(s) \in Nat /\ Len(s) > 0
         /\ Head(s) = FeedWord(f, end - Len(s) + 1)
<1>1. PICK W : s \in Seq(W)
  BY DEF IsWindow, IsSequence
<1>. DEFINE t == Tail(s)
<1>2. IsSequence(t) /\ Len(t) = Len(s) - 1 /\ Len(s) \in Nat
  BY TailSequence DEF IsWindow
<1>3. Len(s) > 0 /\ Head(s) = s[1]
  BY <1>1
<1>4. \A k \in 1..(Len(s) - 1) : t[k] = s[k + 1]
  BY <1>1
<1>. HIDE DEF t
<1>5. \A k \in 1..Len(t) : t[k] = FeedWord(f, end - Len(t) + k)
  <2>1. TAKE k \in 1..Len(t)
  <2>2. k + 1 \in 1..Len(s) /\ end - Len(s) + (k + 1) = end - Len(t) + k
    BY <1>2
  <2>3. s[k + 1] = FeedWord(f, end - Len(s) + (k + 1))
    BY <2>2 DEF IsWindow
  <2>. QED  BY <1>2, <1>4, <2>2, <2>3
<1>6. Len(t) =< end
  BY <1>2 DEF IsWindow
<1>7. s[1] = FeedWord(f, end - Len(s) + 1)
  BY <1>2, <1>3 DEF IsWindow
<1>. QED  BY <1>2, <1>3, <1>5, <1>6, <1>7 DEF IsWindow, t

(* The words the demuxer has read, those it has given to a block, and      *)
(* those the block has taken.                                              *)
Fed == Len(feed) - Len(nxbus_in)
Given(i) == IF demux_at > i THEN Fed ELSE Fed - 1
Held(i) == Len(nxbus_outputs[i])
Taken(i) == Given(i) - Held(i)

Blocks == 0..2

FeedInv ==
  /\ feed \in Seq(Opcode)
  /\ IsWindow(feed, nxbus_in, Len(feed))
  /\ demux_at \in 0..3
  /\ demux_at < 3 => Fed >= 1 /\ demux_word = <<FeedWord(feed, Fed)>>
  /\ DOMAIN nxbus_outputs = Blocks
  /\ \A i \in Blocks : /\ IsWindow(feed, nxbus_outputs[i], Given(i))
                       /\ Held(i) =< StreamDepth

(* A block lags behind the demuxer by what its stream holds and the word   *)
(* in the demuxer's hands.                                                 *)
LEMMA FeedBounds ==
  ASSUME FeedInv
  PROVE  /\ Len(feed) \in Nat /\ Fed \in 0..Len(feed) /\ StreamDepth \in Nat
         /\ \A i \in Blocks : /\ Held(i) \in Nat /\ Given(i) \in Nat
                              /\ Given(i) =< Fed
                              /\ Taken(i) \in 0..Fed
                              /\ Fed =< Taken(i) + StreamDepth + 1
<1>1. Len(feed) \in Nat /\ StreamDepth \in Nat
  BY TopAssumption DEF FeedInv
<1>2. PICK W : nxbus_in \in Seq(W)
  BY DEF FeedInv, IsWindow, IsSequence
<1>3. Len(nxbus_in) \in Nat /\ Len(nxbus_in) =< Len(feed)
  BY <1>2 DEF FeedInv, IsWindow
<1>4. Fed \in 0..Len(feed)
  BY <1>1, <1>3 DEF Fed
<1>5. ASSUME NEW i \in Blocks
      PROVE  /\ Held(i) \in Nat /\ Given(i) \in Nat /\ Given(i) =< Fed
             /\ Taken(i) \in 0..Fed /\ Fed =< Taken(i) + StreamDepth + 1
  <2>1. PICK V : nxbus_outputs[i] \in Seq(V)
    BY DEF FeedInv, IsWindow, IsSequence
  <2>2. Held(i) \in Nat
    BY <2>1 DEF Held
  <2>3. Given(i) \in Nat /\ Given(i) =< Fed /\ Fed =< Given(i) + 1
    BY <1>4 DEF Given, FeedInv, Blocks
  <2>4. Held(i) =< Given(i) /\ Held(i) =< StreamDepth
    BY DEF FeedInv, IsWindow, Held
  <2>5. Taken(i) \in 0..Fed /\ Fed =< Taken(i) + StreamDepth + 1
    <3>. DEFINE g == Given(i)
                h == Held(i)
    <3>1. g \in Nat /\ h \in Nat /\ h =< g /\ g =< Fed /\ Fed =< g + 1 /\ h =< StreamDepth
      BY <2>2, <2>3, <2>4
    <3>2. Taken(i) = g - h
      BY DEF Taken
    <3>. HIDE DEF g, h
    <3>. QED  BY <1>1, <1>4, <3>1, <3>2
  <2>. QED  BY <2>2, <2>3, <2>5
<1>. QED  BY <1>1, <1>4, <1>5

(* The demuxer moves words towards the blocks, which have taken none.      *)
LEMMA DemuxerStep ==
  ASSUME FeedInv, p_demux
  PROVE  FeedInv' /\ feed' = feed /\ \A i \in Blocks : Taken(i)' = Taken(i)
<1>1. feed' = feed
  BY DEF p_demux
<1>2. CASE Demux!ReadWord
  <2>1. /\ demux_at = 3 /\ nxbus_in # <<>> /\ demux_at' = 0
        /\ demux_word' = <<Head(nxbus_in)>> /\ nxbus_in' = Tail(nxbus_in)
        /\ nxbus_outputs' = nxbus_outputs
    BY <1>2 DEF Demux!ReadWord
  <2>2. /\ IsWindow(feed, nxbus_in', Len(feed))
        /\ Len(nxbus_in') = Len(nxbus_in) - 1
        /\ Len(nxbus_in) \in Nat /\ Len(feed) \in Nat
        /\ Head(nxbus_in) = FeedWord(feed, Len(feed) - Len(nxbus_in) + 1)
    BY <2>1, WindowRead, FeedBounds DEF FeedInv
  <2>3. Fed' = Fed + 1 /\ Fed + 1 = Len(feed) - Len(nxbus_in) + 1
    BY <1>1, <2>2 DEF Fed
  <2>4. demux_word' = <<FeedWord(feed, Fed')>>
    BY <2>1, <2>2, <2>3
  <2>5. ASSUME NEW i \in Blocks PROVE Given(i)' = Given(i)
    <3>1. Given(i) = Fed /\ Given(i)' = Fed' - 1
      BY <2>1 DEF Given, Blocks
    <3>. QED  BY <2>3, <3>1, FeedBounds
  <2>6. \A i \in Blocks : Held(i)' = Held(i) /\ Taken(i)' = Taken(i)
    BY <2>1, <2>5 DEF Held, Taken
  <2>7. Fed' >= 1
    BY <2>3, FeedBounds
  <2>8. FeedInv'
    BY <1>1, <2>1, <2>2, <2>4, <2>5, <2>6, <2>7 DEF FeedInv
  <2>. QED  BY <1>1, <2>6, <2>8
<1>3. CASE Demux!WriteNext
  <2>0. PICK c \in 0..2 : c = demux_at
    BY <1>3 DEF Demux!WriteNext, Demux!Outputs
  <2>1. /\ demux_at' = c + 1 /\ nxbus_in' = nxbus_in
        /\ nxbus_outputs' = [nxbus_outputs EXCEPT ![c] = Append(@, demux_word[1])]
        /\ demux_at' = 3 \/ demux_word' = demux_word
        /\ Len(nxbus_outputs[c]) < StreamDepth
    BY <1>3, <2>0 DEF Demux!WriteNext, Demux!CanWrite, CanWrite
  <2>2. Fed' = Fed /\ Fed \in Nat /\ Fed >= 1 /\ demux_word[1] = FeedWord(feed, Fed)
    BY <1>1, <2>0, <2>1, FeedBounds DEF Fed, FeedInv
  <2>3. \A i \in Blocks : i # c => nxbus_outputs'[i] = nxbus_outputs[i]
    BY <2>1 DEF FeedInv
  <2>4. \A i \in Blocks : i # c => Held(i)' = Held(i) /\ Given(i)' = Given(i)
    BY <2>0, <2>1, <2>2, <2>3 DEF Held, Given, Blocks
  <2>5. Given(c) = Fed - 1 /\ Given(c)' = Fed /\ Given(c) \in Nat
    BY <2>0, <2>1, <2>2 DEF Given
  <2>6. nxbus_outputs'[c] = Append(nxbus_outputs[c], FeedWord(feed, Given(c) + 1))
    BY <2>1, <2>2, <2>5 DEF FeedInv, Blocks
  <2>7. IsWindow(feed, nxbus_outputs'[c], Given(c)') /\ Held(c)' = Held(c) + 1
    <3>1. /\ IsWindow(feed, nxbus_outputs'[c], Given(c) + 1)
          /\ Len(nxbus_outputs'[c]) = Len(nxbus_outputs[c]) + 1
      BY <2>5, <2>6, WindowWrite DEF FeedInv, Blocks
    <3>2. Given(c)' = Given(c) + 1
      BY <2>2, <2>5
    <3>3. Held(c)' = Held(c) + 1
      BY <3>1, Zenon DEF Held
    <3>. QED  BY <3>1, <3>2, <3>3
  <2>8. ASSUME NEW i \in Blocks PROVE Taken(i)' = Taken(i)
    <3>1. CASE i = c
      <4>1. Taken(c)' = Given(c)' - Held(c)' /\ Taken(c) = Given(c) - Held(c)
        BY DEF Taken
      <4>2. Held(c) \in Nat
        BY FeedBounds DEF Blocks
      <4>3. Given(c)' = Given(c) + 1
        BY <2>2, <2>5
      <4>4. Given(c)' - Held(c)' = Given(c) - Held(c)
        BY <2>5, <2>7, <4>2, <4>3
      <4>5. Taken(c)' = Taken(c)
        BY <4>1, <4>4
      <4>. QED  BY <3>1, <4>5
    <3>2. CASE i # c
      BY <2>4, <3>2 DEF Taken
    <3>. QED  BY <3>1, <3>2
  <2>9. ASSUME NEW i \in Blocks
        PROVE  IsWindow(feed, nxbus_outputs'[i], Given(i)') /\ Held(i)' =< StreamDepth
    <3>1. Held(c) \in Nat /\ StreamDepth \in Nat /\ Held(c) < StreamDepth
      BY <2>1, FeedBounds DEF Blocks, Held
    <3>2. CASE i = c
      BY <2>7, <3>1, <3>2
    <3>3. CASE i # c
      BY <2>3, <2>4, <3>3 DEF FeedInv
    <3>. QED  BY <3>2, <3>3
  <2>10. demux_at' \in 0..3 /\ DOMAIN nxbus_outputs' = Blocks
    BY <2>1 DEF FeedInv
  <2>11. demux_at' < 3 => Fed' >= 1 /\ demux_word' = <<FeedWord(feed, Fed')>>
    BY <2>0, <2>1, <2>2 DEF FeedInv
  <2>12. FeedInv'
    BY <1>1, <2>1, <2>9, <2>10, <2>11 DEF FeedInv
  <2>. QED  BY <1>1, <2>8, <2>12
<1>. QED  BY <1>2, <1>3 DEF p_demux, Demux!p_demux

(* A block that reads takes the next word of the feed.                     *)
LEMMA TakeWord ==
  ASSUME FeedInv, NEW c \in Blocks, nxbus_outputs[c] # <<>>,
         nxbus_outputs' = [nxbus_outputs EXCEPT ![c] = Tail(@)],
         UNCHANGED <<feed, nxbus_in, demuxVars>>
  PROVE  /\ FeedInv'
         /\ Taken(c)' = Taken(c) + 1
         /\ \A i \in Blocks : i # c => Taken(i)' = Taken(i)
         /\ Head(nxbus_outputs[c]) = FeedWord(feed, Taken(c) + 1)
         /\ Taken(c) + 1 \in 1..Len(feed)
<1>1. /\ feed' = feed /\ nxbus_in' = nxbus_in /\ demux_at' = demux_at
      /\ demux_word' = demux_word
  BY DEF demuxVars
<1>2. Fed' = Fed /\ \A i \in Blocks : Given(i)' = Given(i)
  BY <1>1 DEF Fed, Given
<1>3. \A i \in Blocks : i # c => nxbus_outputs'[i] = nxbus_outputs[i]
  BY DEF FeedInv
<1>4. nxbus_outputs'[c] = Tail(nxbus_outputs[c])
  BY DEF FeedInv
<1>5. /\ IsWindow(feed, nxbus_outputs'[c], Given(c))
      /\ Len(nxbus_outputs'[c]) = Len(nxbus_outputs[c]) - 1 /\ Len(nxbus_outputs[c]) > 0
      /\ Head(nxbus_outputs[c]) = FeedWord(feed, Given(c) - Len(nxbus_outputs[c]) + 1)
  BY <1>4, WindowRead, FeedBounds DEF FeedInv
<1>6. /\ Held(c)' = Held(c) - 1 /\ Held(c) > 0
      /\ Head(nxbus_outputs[c]) = FeedWord(feed, Given(c) - Held(c) + 1)
  BY <1>5, Zenon DEF Held
<1>7. \A i \in Blocks : i # c => Held(i)' = Held(i) /\ Taken(i)' = Taken(i)
  BY <1>2, <1>3 DEF Held, Taken
<1>8. Taken(c)' = Given(c)' - Held(c)' /\ Taken(c) = Given(c) - Held(c)
  BY DEF Taken
<1>9. Taken(c)' = Taken(c) + 1 /\ Taken(c) + 1 \in 1..Len(feed)
  BY <1>2, <1>6, <1>8, FeedBounds
<1>10. Head(nxbus_outputs[c]) = FeedWord(feed, Taken(c) + 1)
  BY <1>6, <1>8
<1>11. ASSUME NEW i \in Blocks
       PROVE  IsWindow(feed, nxbus_outputs'[i], Given(i)) /\ Held(i)' =< StreamDepth
  <2>1. CASE i = c
    BY <1>5, <1>6, <2>1, FeedBounds DEF FeedInv
  <2>2. CASE i # c
    BY <1>3, <1>7, <2>2 DEF FeedInv
  <2>. QED  BY <2>1, <2>2
<1>12. FeedInv'
  BY <1>1, <1>2, <1>11 DEF FeedInv
<1>. QED  BY <1>7, <1>9, <1>10, <1>12

LEMMA SameFeed ==
  ASSUME UNCHANGED <<feed, nxbus_in, nxbus_outputs, demuxVars>>
  PROVE  /\ FeedInv => FeedInv'
         /\ \A i \in Blocks : Taken(i)' = Taken(i)
BY DEF FeedInv, Taken, Given, Held, Fed, demuxVars

FeedVars == <<feed, nxbus_in, nxbus_outputs, demuxVars>>

(* Four steps move words of the feed. *)
LEMMA FeedMoves ==
  ASSUME [Next]_vars
  PROVE  \/ p_demux
         \/ preprocess_nxbus /\ T2c!PreprocessRead
         \/ p_algo /\ T2t!ReadNxbus
         \/ p_book_updates /\ Memory!ReadUpdateWord
         \/ UNCHANGED FeedVars
<1>1. CASE preprocess_nxbus \/ trigger
  BY <1>1 DEF preprocess_nxbus, trigger, OutsideT2c, T2c!Preprocess, T2c!Trigger,
     T2c!WriteContext, T2c!RequestInstrument, T2c!RequestBook, T2c!TriggerRead,
     T2c!WriteCommand, T2c!WriteNotification, FeedVars
<1>2. CASE p_algo
  BY <1>2 DEF p_algo, T2t!p_algo, T2t!RequestInstrument, T2t!RequestBook, T2t!Decide,
     T2t!WriteCommand, T2t!WriteNotification, FeedVars
<1>3. CASE p_book_updates \/ p_book_requests
  BY <1>3 DEF p_book_updates, p_book_requests, OutsideBooks, Memory!p_book_updates,
     Memory!p_book_requests, Memory!WriteUpdate, Memory!ApplyUpdate, Memory!TurnToRequests,
     Memory!SkipClient, Memory!ReadRequest, Memory!WriteAnswer, Memory!booksStreams, FeedVars
<1>4. CASE \/ p_handle_instrument_configuration \/ TakeNotification
           \/ (\E i \in Strategies : TakeCommand(i)) \/ UNCHANGED vars
  BY <1>4 DEF p_handle_instrument_configuration, TakeNotification, TakeCommand,
     OutsideNotifs, vars, FeedVars
<1>. QED  BY <1>1, <1>2, <1>3, <1>4 DEF Next

LEMMA FeedStep ==
  ASSUME FeedInv, [Next]_vars
  PROVE  /\ FeedInv' /\ feed' = feed
         /\ \A i \in Blocks : Taken(i)' \in {Taken(i), Taken(i) + 1}
<1>1. CASE p_demux
  BY <1>1, DemuxerStep
<1>2. ASSUME NEW c \in Blocks, nxbus_outputs[c] # <<>>,
             nxbus_outputs' = [nxbus_outputs EXCEPT ![c] = Tail(@)],
             UNCHANGED <<feed, nxbus_in, demuxVars>>
      PROVE  /\ FeedInv' /\ feed' = feed
             /\ \A i \in Blocks : Taken(i)' \in {Taken(i), Taken(i) + 1}
  BY <1>2, TakeWord
<1>3. CASE preprocess_nxbus /\ T2c!PreprocessRead
  BY <1>2, <1>3 DEF preprocess_nxbus, T2c!PreprocessRead, OutsideT2c, T2c!Me, Blocks
<1>4. CASE p_algo /\ T2t!ReadNxbus
  BY <1>2, <1>4 DEF p_algo, T2t!ReadNxbus, T2t!Me, Blocks
<1>5. CASE p_book_updates /\ Memory!ReadUpdateWord
  BY <1>2, <1>5 DEF p_book_updates, Memory!ReadUpdateWord, OutsideBooks, Memory!UpdateBus,
     Blocks
<1>6. CASE UNCHANGED FeedVars
  BY <1>6, SameFeed DEF FeedVars
<1>. QED  BY <1>1, <1>3, <1>4, <1>5, <1>6, FeedMoves

LEMMA FeedInvInit == Init => FeedInv
<1>. SUFFICES ASSUME Init
              PROVE  FeedInv
  OBVIOUS
<1>1. /\ feed \in Seq(Opcode) /\ Len(feed) \in Nat /\ DOMAIN feed = 1..Len(feed)
      /\ nxbus_in = [n \in 1..Len(feed) |-> FeedWord(feed, n)]
      /\ nxbus_outputs = [i \in Blocks |-> <<>>] /\ demux_at = 3
  <2>1. feed \in Seq(Opcode)
    BY TopAssumption DEF Init
  <2>2. Len(feed) \in Nat /\ DOMAIN feed = 1..Len(feed)
    BY <2>1
  <2>. QED  BY <2>1, <2>2 DEF Init, WordAt, FeedWord, Empty, Blocks, Demux!LocalInit
<1>2. nxbus_in \in Seq({FeedWord(feed, n) : n \in 1..Len(feed)}) /\ Len(nxbus_in) = Len(feed)
  <2>1. nxbus_in \in [1..Len(feed) -> {FeedWord(feed, n) : n \in 1..Len(feed)}]
    BY <1>1
  <2>. QED  BY <1>1, <2>1, FunctionIsSeq
<1>3. IsWindow(feed, nxbus_in, Len(feed))
  <2>1. ASSUME NEW k \in 1..Len(nxbus_in)
        PROVE  nxbus_in[k] = FeedWord(feed, Len(feed) - Len(nxbus_in) + k)
    <3>1. Len(feed) - Len(nxbus_in) + k = k /\ k \in 1..Len(feed)
      BY <1>1, <1>2
    <3>. QED  BY <1>1, <3>1
  <2>2. IsSequence(nxbus_in)
    BY <1>2 DEF IsSequence
  <2>3. Len(nxbus_in) =< Len(feed)
    BY <1>1, <1>2
  <2>. QED  BY <2>1, <2>2, <2>3 DEF IsWindow
<1>4. Fed = 0
  BY <1>1, <1>2 DEF Fed
<1>5. ASSUME NEW i \in Blocks
      PROVE  IsWindow(feed, nxbus_outputs[i], Given(i)) /\ Held(i) =< StreamDepth
  <2>1. Given(i) = 0
    BY <1>1, <1>4 DEF Given, Blocks
  <2>2. nxbus_outputs[i] = <<>> /\ IsSequence(<<>>) /\ Len(<<>>) = 0
    BY <1>1 DEF IsSequence
  <2>3. StreamDepth \in Nat
    BY TopAssumption
  <2>. QED  BY <2>1, <2>2, <2>3 DEF IsWindow, Held
<1>. QED  BY <1>1, <1>3, <1>5 DEF FeedInv

LEMMA WiderSeq ==
  ASSUME NEW V, NEW W, V \subseteq W, NEW s \in Seq(V)
  PROVE  s \in Seq(W)
OBVIOUS

(* Tick2cancel asks for the book of the one instrument, and the trades it  *)
(* retains are words it has taken.                                         *)
TradeUpTo(m) == [instr_id: {0}, price: 0..m, packet: {0}]

TradesInv ==
  /\ t2c_start
  /\ t2c_decision_data \in TradeUpTo(Taken(0))
  /\ t2c_context \in Seq(TradeUpTo(Taken(0)))
  /\ read_book_request_bus[0] \in Seq({0})

LEMMA MoreTrades ==
  ASSUME FeedInv, [Next]_vars
  PROVE  TradeUpTo(Taken(0)) \subseteq TradeUpTo(Taken(0)')
<1>1. Taken(0) \in Nat /\ Taken(0)' \in Nat /\ Taken(0) =< Taken(0)'
  <2>1. Taken(0) \in Nat /\ 0 \in Blocks
    BY FeedBounds DEF Blocks
  <2>. QED  BY <2>1, FeedStep
<1>2. 0..Taken(0) \subseteq 0..(Taken(0)')
  BY <1>1
<1>. QED  BY <1>2 DEF TradeUpTo

LEMMA TradesStep ==
  ASSUME FeedInv, TradesInv, Shape, [Next]_vars
  PROVE  TradesInv'
<1>. USE StrategyIds
<1>. DEFINE old == TradeUpTo(Taken(0))
            new == TradeUpTo(Taken(0)')
<1>1. /\ t2c_start /\ t2c_decision_data \in old /\ t2c_decision_data \in new
      /\ t2c_context \in Seq(old) /\ t2c_context \in Seq(new)
      /\ read_book_request_bus[0] \in Seq({0})
      /\ DOMAIN read_book_request_bus = {0, 1}
  BY MoreTrades, WiderSeq DEF TradesInv, Shape, IsArray
<1>2. TradesInv' <=> /\ t2c_start' /\ t2c_decision_data' \in new
                     /\ t2c_context' \in Seq(new)
                     /\ read_book_request_bus'[0] \in Seq({0})
  BY DEF TradesInv
<1>. HIDE DEF old, new
<1>3. CASE preprocess_nxbus /\ T2c!PreprocessRead
  <2>. DEFINE word == FeedWord(feed, Taken(0) + 1)
  <2>1. /\ nxbus_outputs[0] # <<>> /\ UNCHANGED <<feed, nxbus_in, demuxVars>>
        /\ nxbus_outputs' = [nxbus_outputs EXCEPT ![0] = Tail(@)]
        /\ t2c_decision_data' = T2c!DataAfter(Head(nxbus_outputs[0]))
        /\ t2c_start' = Head(nxbus_outputs[0]).end_of_extra
        /\ UNCHANGED <<t2c_context, read_book_request_bus>>
    BY <1>3 DEF preprocess_nxbus, OutsideT2c, T2c!PreprocessRead, T2c!Me
  <2>2. Head(nxbus_outputs[0]) = word /\ Taken(0)' = Taken(0) + 1 /\ Taken(0) + 1 \in Nat
    BY <2>1, TakeWord, FeedBounds DEF Blocks
  <2>3. word.end_of_extra /\ word.price = Taken(0) + 1 /\ word.instr_id = 0 /\ word.packet = 0
    BY DEF FeedWord
  <2>. HIDE DEF word
  <2>4. t2c_decision_data' \in new
    <3>1. t2c_decision_data' \in {[t2c_decision_data EXCEPT !.packet = 0], t2c_decision_data,
            [t2c_decision_data EXCEPT !.price = Taken(0) + 1, !.instr_id = 0]}
      BY <2>1, <2>2, <2>3 DEF T2c!DataAfter
    <3>2. Taken(0) + 1 \in 0..(Taken(0)')
      BY <2>2
    <3>. QED  BY <1>1, <3>1, <3>2 DEF new, TradeUpTo
  <2>. QED  BY <1>1, <1>2, <2>1, <2>2, <2>3, <2>4
<1>4. CASE preprocess_nxbus /\ T2c!WriteContext
  <2>1. /\ t2c_context' = Append(t2c_context, t2c_decision_data)
        /\ UNCHANGED <<t2c_start, t2c_decision_data, read_book_request_bus>>
    BY <1>4 DEF T2c!WriteContext
  <2>2. t2c_context' \in Seq(new)
    BY <1>1, <2>1
  <2>. QED  BY <1>1, <1>2, <2>1, <2>2
<1>5. CASE preprocess_nxbus /\ T2c!RequestInstrument
  BY <1>1, <1>2, <1>5 DEF T2c!RequestInstrument
<1>6. CASE preprocess_nxbus /\ T2c!RequestBook
  <2>1. /\ read_book_request_bus' =
             [read_book_request_bus EXCEPT ![0] = Append(@, t2c_decision_data.instr_id)]
        /\ UNCHANGED <<t2c_start, t2c_decision_data, t2c_context>>
    BY <1>6 DEF T2c!RequestBook, T2c!Me
  <2>2. t2c_decision_data.instr_id = 0
    BY <1>1 DEF old, TradeUpTo
  <2>3. read_book_request_bus'[0] = Append(read_book_request_bus[0], 0)
    BY <1>1, <2>1, <2>2
  <2>4. read_book_request_bus'[0] \in Seq({0})
    BY <1>1, <2>3
  <2>. QED  BY <1>1, <1>2, <2>1, <2>4
<1>7. CASE trigger
  <2>1. /\ \/ t2c_context # <<>> /\ t2c_context' = Tail(t2c_context)
           \/ t2c_context' = t2c_context
        /\ UNCHANGED <<t2c_start, t2c_decision_data, read_book_request_bus>>
    BY <1>7 DEF trigger, T2c!Trigger, T2c!TriggerRead, T2c!WriteCommand,
       T2c!WriteNotification, T2c!preprocessVars
  <2>2. t2c_context # <<>> => Tail(t2c_context) \in Seq(new)
    BY <1>1
  <2>3. t2c_context' \in Seq(new)
    BY <1>1, <2>1, <2>2, Zenon
  <2>. QED  BY <1>1, <1>2, <2>1, <2>3
<1>8. CASE p_algo
  <2>1. /\ UNCHANGED <<t2c_context, t2c_start, t2c_decision_data>>
        /\ \/ UNCHANGED read_book_request_bus
           \/ \E e : read_book_request_bus' = [read_book_request_bus EXCEPT ![1] = Append(@, e)]
    BY <1>8 DEF p_algo, T2t!p_algo, T2t!ReadNxbus, T2t!RequestInstrument, T2t!RequestBook,
       T2t!Decide, T2t!WriteCommand, T2t!WriteNotification, T2t!Me, t2cVars
  <2>2. read_book_request_bus'[0] = read_book_request_bus[0]
    BY <1>1, <2>1
  <2>. QED  BY <1>1, <1>2, <2>1, <2>2
<1>9. CASE p_book_requests /\ Memory!ReadRequest
  <2>1. PICK c \in {0, 1} : c = book_client
    BY DEF Shape
  <2>2. /\ UNCHANGED <<t2c_context, t2c_start, t2c_decision_data>>
        /\ read_book_request_bus[c] # <<>>
        /\ read_book_request_bus' = [read_book_request_bus EXCEPT ![c] = Tail(@)]
    BY <1>9, <2>1 DEF p_book_requests, OutsideBooks, t2cVars, Memory!ReadRequest
  <2>3. read_book_request_bus'[0] \in Seq({0})
    <3>1. CASE c = 0
      <4>1. read_book_request_bus'[0] = Tail(read_book_request_bus[0])
        BY <1>1, <2>2, <3>1
      <4>. QED  BY <1>1, <2>2, <3>1, <4>1
    <3>2. CASE c = 1
      BY <1>1, <2>2, <3>2
    <3>. QED  BY <3>1, <3>2
  <2>. QED  BY <1>1, <1>2, <2>2, <2>3
<1>10. CASE p_book_updates \/ (p_book_requests /\ ~Memory!ReadRequest)
  <2>1. UNCHANGED <<t2c_context, t2c_start, t2c_decision_data, read_book_request_bus>>
    BY <1>10 DEF p_book_updates, p_book_requests, OutsideBooks, t2cVars,
       Memory!p_book_updates, Memory!p_book_requests, Memory!ReadUpdateWord,
       Memory!WriteUpdate, Memory!ApplyUpdate, Memory!TurnToRequests, Memory!SkipClient,
       Memory!WriteAnswer, Memory!booksStreams
  <2>. QED  BY <1>1, <1>2, <2>1
<1>11. CASE \/ p_demux \/ p_handle_instrument_configuration \/ TakeNotification
            \/ (\E i \in Strategies : TakeCommand(i)) \/ UNCHANGED vars
  <2>1. UNCHANGED <<t2c_context, t2c_start, t2c_decision_data, read_book_request_bus>>
    BY <1>11 DEF p_demux, p_handle_instrument_configuration, TakeNotification, TakeCommand,
       OutsideNotifs, vars, t2cVars
  <2>. QED  BY <1>1, <1>2, <2>1
<1>. QED  BY <1>3, <1>4, <1>5, <1>6, <1>7, <1>8, <1>9, <1>10, <1>11
       DEF Next, preprocess_nxbus, T2c!Preprocess

(* Nobody takes words of a block's share but the block. *)
LEMMA OwnShare ==
  ASSUME FeedInv, [Next]_vars
  PROVE  /\ (p_book_updates /\ Memory!ReadUpdateWord) \/ Taken(2)' = Taken(2)
         /\ (p_algo /\ T2t!ReadNxbus) \/ Taken(1)' = Taken(1)
<1>1. CASE p_demux
  BY <1>1, DemuxerStep DEF Blocks
<1>2. CASE UNCHANGED FeedVars
  BY <1>2, SameFeed DEF FeedVars, Blocks
<1>3. ASSUME NEW c \in Blocks, nxbus_outputs[c] # <<>>,
             nxbus_outputs' = [nxbus_outputs EXCEPT ![c] = Tail(@)],
             UNCHANGED <<feed, nxbus_in, demuxVars>>
      PROVE  \A i \in Blocks : i # c => Taken(i)' = Taken(i)
  BY <1>3, TakeWord
<1>4. CASE preprocess_nxbus /\ T2c!PreprocessRead
  BY <1>3, <1>4 DEF preprocess_nxbus, T2c!PreprocessRead, OutsideT2c, T2c!Me, Blocks
<1>5. CASE p_algo /\ T2t!ReadNxbus
  BY <1>3, <1>5 DEF p_algo, T2t!ReadNxbus, T2t!Me, Blocks
<1>6. CASE p_book_updates /\ Memory!ReadUpdateWord
  BY <1>3, <1>6 DEF p_book_updates, Memory!ReadUpdateWord, OutsideBooks, Memory!UpdateBus,
     Blocks
<1>. QED  BY <1>1, <1>2, <1>4, <1>5, <1>6, FeedMoves

(* Updates on their way to the memory, in the order of their positions.    *)
Update(p) == [book_index |-> 0, side |-> 0, toplevel_price |-> p]
Carries(s, n) == \E j \in 1..Len(s) : s[j].toplevel_price = n
InOrder(s, low, high) ==
  /\ s \in Seq([book_index: {0}, side: {0}, toplevel_price: Nat])
  /\ \A j \in 1..Len(s) : low =< s[j].toplevel_price /\ s[j].toplevel_price =< high
  /\ \A j, k \in 1..Len(s) : j < k => s[j].toplevel_price =< s[k].toplevel_price

LEMMA PriceOf ==
  ASSUME NEW low, NEW high, NEW s, InOrder(s, low, high), NEW j \in 1..Len(s)
  PROVE  /\ s[j] = Update(s[j].toplevel_price) /\ s[j].toplevel_price \in Nat
         /\ low =< s[j].toplevel_price /\ s[j].toplevel_price =< high
<1>. DEFINE W == [book_index: {0}, side: {0}, toplevel_price: Nat]
<1>1. s \in Seq(W)
  BY DEF InOrder
<1>. HIDE DEF W
<1>2. s[j] \in W
  BY <1>1
<1>. QED  BY <1>2 DEF InOrder, Update, W

LEMMA HigherBound ==
  ASSUME NEW low \in Nat, NEW high \in Nat, NEW s, InOrder(s, low, high)
  PROVE  InOrder(s, low, high + 1)
<1>1. ASSUME NEW j \in 1..Len(s)
      PROVE  low =< s[j].toplevel_price /\ s[j].toplevel_price =< high + 1
  BY PriceOf
<1>. QED  BY <1>1 DEF InOrder

LEMMA UpdateWritten ==
  ASSUME NEW low \in Nat, NEW high \in Nat, low =< high, NEW s, InOrder(s, low, high)
  PROVE  /\ InOrder(Append(s, Update(high)), low, high)
         /\ Carries(Append(s, Update(high)), high)
         /\ \A n : Carries(s, n) => Carries(Append(s, Update(high)), n)
<1>. DEFINE t == Append(s, Update(high))
<1>1. /\ Update(high) \in [book_index: {0}, side: {0}, toplevel_price: Nat]
      /\ Update(high).toplevel_price = high
  BY DEF Update
<1>2. /\ t \in Seq([book_index: {0}, side: {0}, toplevel_price: Nat])
      /\ Len(t) = Len(s) + 1 /\ Len(s) \in Nat
      /\ \A j \in 1..Len(s) : t[j] = s[j]
      /\ t[Len(s) + 1] = Update(high)
  BY <1>1 DEF InOrder
<1>. HIDE DEF t
<1>3. ASSUME NEW j \in 1..Len(t)
      PROVE  low =< t[j].toplevel_price /\ t[j].toplevel_price =< high
  BY <1>1, <1>2 DEF InOrder
<1>4. ASSUME NEW j \in 1..Len(t), NEW k \in 1..Len(t), j < k
      PROVE  t[j].toplevel_price =< t[k].toplevel_price
  <2>1. j \in 1..Len(s) /\ t[j] = s[j]
    BY <1>2, <1>4
  <2>2. CASE k = Len(s) + 1
    BY <1>1, <1>2, <2>1, <2>2 DEF InOrder
  <2>3. CASE k \in 1..Len(s)
    BY <1>2, <1>4, <2>1, <2>3 DEF InOrder
  <2>. QED  BY <1>2, <2>2, <2>3
<1>5. InOrder(t, low, high)
  BY <1>2, <1>3, <1>4 DEF InOrder
<1>6. Carries(t, high)
  <2>1. Len(s) + 1 \in 1..Len(t) /\ t[Len(s) + 1].toplevel_price = high
    BY <1>1, <1>2
  <2>. QED  BY <2>1 DEF Carries
<1>7. ASSUME NEW n, Carries(s, n)
      PROVE  Carries(t, n)
  <2>1. PICK j \in 1..Len(s) : s[j].toplevel_price = n
    BY <1>7 DEF Carries
  <2>2. j \in 1..Len(t) /\ t[j].toplevel_price = n
    BY <1>2, <2>1
  <2>. QED  BY <2>2 DEF Carries
<1>. QED  BY <1>5, <1>6, <1>7 DEF t

LEMMA UpdateApplied ==
  ASSUME NEW low \in Nat, NEW high \in Nat, NEW s, InOrder(s, low, high), s # <<>>
  PROVE  LET p == Head(s).toplevel_price
         IN  /\ Head(s) = Update(p) /\ p \in low..high
             /\ InOrder(Tail(s), p, high)
             /\ \A n : Carries(s, n) => n = p \/ Carries(Tail(s), n)
<1>. DEFINE p == Head(s).toplevel_price
            t == Tail(s)
            W == [book_index: {0}, side: {0}, toplevel_price: Nat]
<1>1. s \in Seq(W)
  BY DEF InOrder
<1>2. /\ t \in Seq(W) /\ Len(t) = Len(s) - 1 /\ Len(s) \in Nat /\ Len(s) > 0
      /\ \A j \in 1..(Len(s) - 1) : t[j] = s[j + 1]
      /\ Head(s) = s[1]
  <2>. HIDE DEF W
  <2>. QED  BY <1>1
<1>3. 1 \in 1..Len(s)
  BY <1>2
<1>4. Head(s) = Update(p) /\ p \in Nat /\ low =< p /\ p =< high
  BY <1>2, <1>3, PriceOf
<1>5. p \in low..high
  BY <1>4
<1>. HIDE DEF t
<1>6. ASSUME NEW j \in 1..Len(t)
      PROVE  p =< t[j].toplevel_price /\ t[j].toplevel_price =< high
  <2>1. j + 1 \in 1..Len(s) /\ 1 \in 1..Len(s) /\ 1 < j + 1 /\ t[j] = s[j + 1]
    BY <1>2
  <2>. QED  BY <1>2, <2>1 DEF InOrder
<1>7. ASSUME NEW j \in 1..Len(t), NEW k \in 1..Len(t), j < k
      PROVE  t[j].toplevel_price =< t[k].toplevel_price
  <2>1. /\ j + 1 \in 1..Len(s) /\ k + 1 \in 1..Len(s) /\ j + 1 < k + 1
        /\ t[j] = s[j + 1] /\ t[k] = s[k + 1]
    BY <1>2, <1>7
  <2>. QED  BY <2>1 DEF InOrder
<1>8. InOrder(t, p, high)
  BY <1>2, <1>6, <1>7 DEF InOrder
<1>9. ASSUME NEW n, Carries(s, n), n # p
      PROVE  Carries(t, n)
  <2>1. PICK j \in 1..Len(s) : s[j].toplevel_price = n
    BY <1>9 DEF Carries
  <2>2. j # 1
    BY <1>2, <1>9, <2>1
  <2>3. j - 1 \in 1..Len(t) /\ t[j - 1] = s[j]
    BY <1>2, <2>2
  <2>. QED  BY <2>1, <2>3 DEF Carries
<1>. QED  BY <1>4, <1>5, <1>8, <1>9 DEF t

(* The position of the update the memory was last given.  Every update the *)
(* books took is in the memory, on its way, or held by p_book_updates.     *)
Shown == books_data[0][0].toplevel_price

MemoryInv ==
  /\ books_start
  /\ 0 \in DOMAIN books_data /\ 0 \in DOMAIN books_data[0]
  /\ Shown \in Nat /\ Shown =< Taken(2)
  /\ updates_at = "write" => output = Update(Taken(2))
  /\ InOrder(book_update_bus, Shown, Taken(2))
  /\ \A n \in 1..Taken(2) : feed[n] = "BOOK_UPDATE" =>
       n =< Shown \/ Carries(book_update_bus, n) \/ (updates_at = "write" /\ n = Taken(2))

LEMMA MemoryStep ==
  ASSUME FeedInv, MemoryInv, [Next]_vars
  PROVE  MemoryInv'
<1>1. Taken(2) \in Nat /\ feed' = feed /\ Shown \in Nat /\ Shown =< Taken(2)
  BY FeedBounds, FeedStep DEF Blocks, MemoryInv
<1>2. CASE p_book_updates /\ Memory!ReadUpdateWord
  <2>. DEFINE word == FeedWord(feed, Taken(2) + 1)
  <2>1. /\ nxbus_outputs[2] # <<>> /\ UNCHANGED <<feed, nxbus_in, demuxVars>>
        /\ nxbus_outputs' = [nxbus_outputs EXCEPT ![2] = Tail(@)]
        /\ updates_at = "read" /\ UNCHANGED <<books_data, book_update_bus>>
    BY <1>2 DEF p_book_updates, OutsideBooks, Memory!ReadUpdateWord, Memory!UpdateBus,
       Memory!requestsVars
  <2>2. /\ Head(nxbus_outputs[2]) = word /\ Taken(2)' = Taken(2) + 1
        /\ Taken(2) + 1 \in 1..Len(feed)
    BY <2>1, TakeWord DEF Blocks
  <2>3. /\ word.end_of_extra /\ word.price = Taken(2) + 1 /\ word.instr_id = 0
        /\ word.level = 0 /\ word.buy_nsell = 0 /\ word.opcode = feed[Taken(2) + 1]
    BY DEF FeedWord
  <2>4. /\ updates_at' = IF Memory!Sends(word) THEN "write" ELSE "read"
        /\ Memory!OpensLevel0(word) => output' = [book_index |-> word.instr_id,
             side |-> word.buy_nsell, toplevel_price |-> word.price]
        /\ books_start' = word.end_of_extra
    BY <1>2, <2>2 DEF Memory!ReadUpdateWord, Memory!UpdateBus
  <2>. HIDE DEF word
  <2>5. /\ Memory!OpensLevel0(word) <=> feed[Taken(2) + 1] = "BOOK_UPDATE"
        /\ Memory!Sends(word) <=> feed[Taken(2) + 1] = "BOOK_UPDATE"
    BY <2>3 DEF Memory!OpensLevel0, Memory!Sends, MemoryInv
  <2>6. updates_at' = "write" => output' = Update(Taken(2)')
    BY <2>2, <2>3, <2>4, <2>5 DEF Update
  <2>7. Shown' = Shown /\ Shown' =< Taken(2)'
    BY <1>1, <2>1, <2>2 DEF Shown
  <2>8. InOrder(book_update_bus', Shown', Taken(2)')
    <3>1. InOrder(book_update_bus, Shown, Taken(2) + 1)
      BY <1>1, HigherBound DEF MemoryInv
    <3>. QED  BY <2>1, <2>2, <2>7, <3>1
  <2>9. ASSUME NEW n \in 1..(Taken(2)'), feed'[n] = "BOOK_UPDATE"
        PROVE  \/ n =< Shown' \/ Carries(book_update_bus', n)
               \/ updates_at' = "write" /\ n = Taken(2)'
    <3>1. CASE n = Taken(2) + 1
      BY <1>1, <2>2, <2>4, <2>5, <2>9, <3>1
    <3>2. CASE n \in 1..Taken(2)
      BY <1>1, <2>1, <2>7, <2>9, <3>2 DEF MemoryInv
    <3>. QED  BY <1>1, <2>2, <3>1, <3>2
  <2>. QED  BY <1>1, <2>1, <2>3, <2>4, <2>6, <2>7, <2>8, <2>9 DEF MemoryInv
<1>3. CASE p_book_updates /\ Memory!WriteUpdate
  <2>1. /\ updates_at = "write" /\ updates_at' = "read"
        /\ book_update_bus' = Append(book_update_bus, output)
        /\ UNCHANGED <<books_data, books_start, output>>
        /\ ~Memory!ReadUpdateWord
    BY <1>3 DEF Memory!WriteUpdate, Memory!ReadUpdateWord, Memory!requestsVars
  <2>2. Taken(2)' = Taken(2) /\ Shown' = Shown
    BY <2>1, OwnShare DEF Shown
  <2>3. book_update_bus' = Append(book_update_bus, Update(Taken(2)))
    BY <2>1 DEF MemoryInv
  <2>4. /\ InOrder(book_update_bus', Shown, Taken(2)) /\ Carries(book_update_bus', Taken(2))
        /\ \A n : Carries(book_update_bus, n) => Carries(book_update_bus', n)
    <3>1. InOrder(book_update_bus, Shown, Taken(2))
      BY DEF MemoryInv
    <3>. QED  BY <1>1, <2>3, <3>1, UpdateWritten
  <2>5. ASSUME NEW n \in 1..Taken(2), feed[n] = "BOOK_UPDATE"
        PROVE  n =< Shown \/ Carries(book_update_bus', n)
    BY <2>4, <2>5 DEF MemoryInv
  <2>. QED  BY <1>1, <2>1, <2>2, <2>4, <2>5 DEF MemoryInv
<1>4. CASE p_book_requests /\ Memory!ApplyUpdate
  <2>. DEFINE p == Head(book_update_bus).toplevel_price
  <2>1. /\ book_update_bus # <<>> /\ book_update_bus' = Tail(book_update_bus)
        /\ books_data' = Memory!WithUpdate(books_data, Head(book_update_bus))
        /\ UNCHANGED <<books_start, updates_at, output>>
        /\ ~Memory!ReadUpdateWord
    BY <1>4 DEF Memory!ApplyUpdate, Memory!ReadUpdateWord, Memory!updatesVars
  <2>2. Taken(2)' = Taken(2)
    BY <2>1, OwnShare
  <2>3. /\ Head(book_update_bus) = Update(p) /\ p \in Shown..Taken(2)
        /\ InOrder(book_update_bus', p, Taken(2))
        /\ \A n : Carries(book_update_bus, n) => n = p \/ Carries(book_update_bus', n)
    <3>1. InOrder(book_update_bus, Shown, Taken(2))
      BY DEF MemoryInv
    <3>. QED  BY <1>1, <2>1, <3>1, UpdateApplied
  <2>. HIDE DEF p
  <2>4. books_data' = [books_data EXCEPT ![0][0] = [present |-> TRUE, toplevel_price |-> p]]
    <3>1. books_data' = Memory!WithUpdate(books_data, Update(p))
      BY <2>1, <2>3
    <3>2. Update(p).side = 0 /\ Update(p).book_index = 0 /\ Update(p).toplevel_price = p
      BY DEF Update
    <3>. QED  BY <3>1, <3>2 DEF Memory!WithUpdate
  <2>5. /\ 0 \in DOMAIN books_data' /\ 0 \in DOMAIN books_data'[0]
        /\ books_data'[0][0] = [present |-> TRUE, toplevel_price |-> p]
    BY <2>4 DEF MemoryInv
  <2>6. Shown' = p
    BY <2>5 DEF Shown
  <2>7. ASSUME NEW n \in 1..Taken(2), feed[n] = "BOOK_UPDATE"
        PROVE  n =< p \/ Carries(book_update_bus', n) \/ (updates_at = "write" /\ n = Taken(2))
    <3>1. CASE n =< Shown
      BY <1>1, <2>3, <3>1
    <3>2. CASE Carries(book_update_bus, n)
      BY <1>1, <2>3, <3>2
    <3>. QED  BY <2>7, <3>1, <3>2 DEF MemoryInv
  <2>8. p \in Nat /\ p =< Taken(2)
    BY <1>1, <2>3
  <2>. QED  BY <1>1, <2>1, <2>2, <2>3, <2>5, <2>6, <2>7, <2>8 DEF MemoryInv
<1>5. CASE ~p_book_updates /\ ~(p_book_requests /\ Memory!ApplyUpdate)
  <2>1. UNCHANGED <<books_data, books_start, updates_at, output, book_update_bus>>
    <3>1. CASE p_book_requests
      BY <1>5, <3>1 DEF p_book_requests, Memory!p_book_requests, Memory!TurnToRequests,
         Memory!SkipClient, Memory!ReadRequest, Memory!WriteAnswer, Memory!booksStreams,
         Memory!updatesVars
    <3>2. CASE p_algo
      BY <3>2 DEF p_algo, booksVars
    <3>3. CASE preprocess_nxbus \/ trigger
      BY <3>3 DEF preprocess_nxbus, trigger, OutsideT2c, booksVars
    <3>4. CASE \/ p_demux \/ p_handle_instrument_configuration \/ TakeNotification
               \/ (\E i \in Strategies : TakeCommand(i)) \/ UNCHANGED vars
      BY <3>4 DEF p_demux, p_handle_instrument_configuration, TakeNotification, TakeCommand,
         OutsideNotifs, vars, booksVars
    <3>. QED  BY <1>5, <3>1, <3>2, <3>3, <3>4 DEF Next
  <2>2. Taken(2)' = Taken(2) /\ Shown' = Shown
    BY <1>5, <2>1, OwnShare DEF Shown
  <2>. QED  BY <1>1, <2>1, <2>2 DEF MemoryInv
<1>. QED  BY <1>2, <1>3, <1>4, <1>5 DEF p_book_updates, Memory!p_book_updates

(* The updates the memory lacks are at most a share of the feed, and the   *)
(* word in the demuxer's hands, before the m-th word.                      *)
Behind(m) ==
  \A n \in 1..Len(feed) :
    feed[n] = "BOOK_UPDATE" /\ n > Shown => m =< n + StreamDepth + 1

(* The trade that the oldest read of Tick2cancel not yet answered is for.  *)
NextTrade == t2c_context[BookAnswered(0) + 1].price

Recent(book, price) ==
  \A n \in 1..Len(feed) :
    feed[n] = "BOOK_UPDATE" /\ n + Lag < price => n =< book[0].toplevel_price

(* When the memory comes to serve Tick2cancel, one of the two strategies   *)
(* had made it turn to the reads with all updates applied, and has waited  *)
(* for its answer since.                                                   *)
AnswersInv ==
  /\ requests_at = "serve" /\ book_client = 0 =>
       \/ read_book_request_bus[1] # <<>> /\ Behind(Taken(1))
       \/ read_book_request_bus[0] # <<>> /\ Behind(NextTrade)
  /\ requests_at = "answer" /\ book_client = 0 => Recent(book_answer, NextTrade)
  /\ \A j \in 1..BookAnswered(0) : Recent(books[0][j], t2c_context[j].price)

(* An answer, and a read without one, is for a trade in t2c_context;       *)
(* Tick2trade takes no market data while a read of it is under way.        *)
LEMMA ReadsUnderWay ==
  ASSUME TopInv
  PROVE  /\ BookAnswered(0) \in Nat /\ Len(t2c_context) \in Nat
         /\ BookAnswered(0) =< Len(t2c_context)
         /\ \/ read_book_request_bus[0] # <<>>
            \/ requests_at = "answer" /\ book_client = 0
            => BookAnswered(0) + 1 \in 1..Len(t2c_context)
         /\ read_book_request_bus[1] # <<>> => algo_at = "waiting"
<1>. USE StrategyIds
<1>1. Shape /\ InStep
  BY DEF TopInv
<1>2. \A i \in {0, 1} : BookAsked(i) \in Nat /\ BookAnswered(i) \in Nat /\ BookHeld(i) \in Nat
  BY <1>1, Counts
<1>3. \A i \in {0, 1} : BookUnderWay(i) = BookAsked(i) + BookAnswered(i) + BookHeld(i)
  BY Sums
<1>4. BookUnderWay(0) =< Len(t2c_context) /\ Len(t2c_context) \in Nat
  BY <1>1, TotalCounts DEF InStep
<1>5. ASSUME NEW i \in {0, 1}, read_book_request_bus[i] # <<>>
      PROVE  BookAsked(i) > 0
  <2>1. PICK W : read_book_request_bus[i] \in Seq(W)
    BY <1>1 DEF Shape, IsArray, IsSequence
  <2>2. Len(read_book_request_bus[i]) > 0
    BY <1>5, <2>1
  <2>. QED  BY <2>2 DEF BookAsked
<1>6. requests_at = "answer" /\ book_client = 0 => BookHeld(0) = 1
  BY DEF BookHeld
<1>7. BookAnswered(0) =< Len(t2c_context)
  BY <1>2, <1>3, <1>4
<1>8. ASSUME \/ read_book_request_bus[0] # <<>>
             \/ requests_at = "answer" /\ book_client = 0
      PROVE  BookAnswered(0) + 1 \in 1..Len(t2c_context)
  <2>1. BookAsked(0) > 0 \/ BookHeld(0) = 1
    BY <1>5, <1>6, <1>8
  <2>. QED  BY <1>2, <1>3, <1>4, <2>1
<1>9. ASSUME read_book_request_bus[1] # <<>>
      PROVE  algo_at = "waiting"
  <2>1. BookUnderWay(1) > 0
    BY <1>2, <1>3, <1>5, <1>9
  <2>. QED  BY <1>1, <2>1 DEF InStep
<1>. QED  BY <1>2, <1>4, <1>7, <1>8, <1>9

(* A step that takes no answer and applies no update. *)
LEMMA SameAnswers ==
  ASSUME TopInv, AnswersInv, feed' = feed,
         UNCHANGED <<requests_at, book_client, book_answer, books_data>>,
         books'[0] = books[0],
         \A j \in 1..Len(t2c_context) : t2c_context'[j] = t2c_context[j],
         \A i \in {0, 1} : read_book_request_bus[i] # <<>> => read_book_request_bus'[i] # <<>>,
         read_book_request_bus[1] # <<>> => Taken(1)' = Taken(1)
  PROVE  AnswersInv'
<1>1. BookAnswered(0)' = BookAnswered(0) /\ Shown' = Shown
  BY DEF BookAnswered, Shown
<1>2. \/ read_book_request_bus[0] # <<>> \/ (requests_at = "answer" /\ book_client = 0)
      => NextTrade' = NextTrade
  BY <1>1, ReadsUnderWay DEF NextTrade
<1>3. \A j \in 1..BookAnswered(0) : t2c_context'[j] = t2c_context[j]
  BY ReadsUnderWay
<1>4. ASSUME requests_at = "serve", book_client = 0
      PROVE  \/ read_book_request_bus'[1] # <<>> /\ Behind(Taken(1))'
             \/ read_book_request_bus'[0] # <<>> /\ Behind(NextTrade)'
  <2>1. CASE read_book_request_bus[1] # <<>> /\ Behind(Taken(1))
    BY <1>1, <2>1 DEF Behind
  <2>2. CASE read_book_request_bus[0] # <<>> /\ Behind(NextTrade)
    BY <1>1, <1>2, <2>2 DEF Behind
  <2>. QED  BY <1>4, <2>1, <2>2 DEF AnswersInv
<1>5. ASSUME requests_at = "answer", book_client = 0
      PROVE  Recent(book_answer, NextTrade)'
  BY <1>2, <1>5 DEF AnswersInv, Recent
<1>6. ASSUME NEW j \in 1..BookAnswered(0)
      PROVE  Recent(books[0][j], t2c_context[j].price)'
  BY <1>3, <1>6 DEF AnswersInv, Recent
<1>. QED  BY <1>1, <1>4, <1>5, <1>6 DEF AnswersInv

(* With no update waiting the memory lacks none but those still in the     *)
(* books' share of the feed and the one p_book_updates holds.              *)
LEMMA CaughtUp ==
  ASSUME FeedInv, MemoryInv, book_update_bus = <<>>
  PROVE  Behind(Fed)
<1>1. /\ Taken(2) \in Nat /\ Fed \in Nat /\ Fed =< Taken(2) + StreamDepth + 1
      /\ StreamDepth \in Nat /\ Len(feed) \in Nat
  BY FeedBounds DEF Blocks
<1>2. ASSUME NEW n \in 1..Len(feed), feed[n] = "BOOK_UPDATE", n > Shown
      PROVE  Fed =< n + StreamDepth + 1
  <2>1. ~Carries(book_update_bus, n)
    <3>1. Len(book_update_bus) = 0
      OBVIOUS
    <3>. QED  BY <3>1 DEF Carries
  <2>2. n >= Taken(2)
    <3>1. CASE n \in 1..Taken(2)
      BY <1>1, <1>2, <2>1, <3>1 DEF MemoryInv
    <3>2. CASE n > Taken(2)
      BY <1>1, <3>2
    <3>. QED  BY <1>1, <3>1, <3>2
  <2>. QED  BY <1>1, <2>2
<1>. QED  BY <1>2 DEF Behind

LEMMA BehindLess ==
  ASSUME NEW m \in Nat, NEW k \in Nat, k =< m, Behind(m), StreamDepth \in Nat
  PROVE  Behind(k)
<1>1. ASSUME NEW n \in 1..Len(feed), feed[n] = "BOOK_UPDATE", n > Shown
      PROVE  k =< n + StreamDepth + 1
  <2>1. m =< n + StreamDepth + 1 /\ n \in Int
    BY <1>1 DEF Behind
  <2>. QED  BY <2>1
<1>. QED  BY <1>1 DEF Behind

(* The book read for Tick2cancel has every update that came more than Lag  *)
(* words before the trade.                                                 *)
LEMMA BookRead ==
  ASSUME TopInv, FeedInv, TradesInv, MemoryInv, AnswersInv, Memory!ReadRequest,
         book_client = 0
  PROVE  Recent(book_answer', NextTrade)
<1>1. /\ requests_at = "serve" /\ read_book_request_bus[0] # <<>>
      /\ book_answer' = [s \in {0, 1} |-> books_data[s][Head(read_book_request_bus[0])]]
  BY DEF Memory!ReadRequest, Memory!Side, Side
<1>2. Head(read_book_request_bus[0]) = 0
  <2>1. Head(read_book_request_bus[0]) \in {0}
    BY <1>1 DEF TradesInv
  <2>. QED  BY <2>1
<1>3. book_answer'[0].toplevel_price = Shown
  BY <1>1, <1>2 DEF Shown
<1>4. /\ Fed \in Nat /\ StreamDepth \in Nat /\ Taken(1) \in Nat /\ Taken(0) \in Nat
      /\ Fed =< Taken(1) + StreamDepth + 1 /\ Taken(0) =< Fed
  BY FeedBounds DEF Blocks
<1>5. NextTrade \in Nat /\ NextTrade =< Fed
  <2>1. t2c_context[BookAnswered(0) + 1] \in TradeUpTo(Taken(0))
    BY <1>1, ReadsUnderWay DEF TradesInv
  <2>2. NextTrade \in 0..Taken(0)
    BY <2>1 DEF TradeUpTo, NextTrade
  <2>. QED  BY <1>4, <2>2
<1>6. ASSUME NEW n \in 1..Len(feed), feed[n] = "BOOK_UPDATE", n + Lag < NextTrade
      PROVE  n =< Shown
  <2>1. Shown \in Nat /\ n \in Nat /\ Lag = StreamDepth + StreamDepth + 2 /\ Len(feed) \in Nat
    BY <1>4, FeedBounds DEF MemoryInv, Lag
  <2>2. SUFFICES ASSUME n > Shown
                 PROVE  FALSE
    BY <2>1
  <2>3. CASE Behind(Taken(1))
    <3>1. Taken(1) =< n + StreamDepth + 1
      BY <1>6, <2>2, <2>3 DEF Behind
    <3>. QED  BY <1>4, <1>5, <1>6, <2>1, <3>1
  <2>4. CASE Behind(NextTrade)
    <3>1. NextTrade =< n + StreamDepth + 1
      BY <1>6, <2>2, <2>4 DEF Behind
    <3>. QED  BY <1>4, <1>5, <1>6, <2>1, <3>1
  <2>. QED  BY <1>1, <2>3, <2>4 DEF AnswersInv
<1>. QED  BY <1>3, <1>6 DEF Recent

(* trigger takes the oldest answer together with the trade it is for. *)
LEMMA AnswerTaken ==
  ASSUME TopInv, FeedInv, TradesInv, AnswersInv, [Next]_vars, trigger, T2c!TriggerRead
  PROVE  AnswersInv'
<1>. USE StrategyIds
<1>1. /\ UNCHANGED <<feed, requests_at, book_client, book_answer, books_data,
                     read_book_request_bus>>
      /\ books[0] # <<>> /\ t2c_context # <<>>
      /\ books' = [books EXCEPT ![0] = Tail(@)] /\ t2c_context' = Tail(t2c_context)
      /\ UNCHANGED FeedVars
  BY DEF trigger, T2c!TriggerRead, T2c!Me, OutsideT2c, booksVars, FeedVars
<1>2. Taken(1)' = Taken(1) /\ Shown' = Shown
  BY <1>1, SameFeed DEF FeedVars, Shown, Blocks
<1>. DEFINE last == BookAnswered(0)
            count == Len(t2c_context)
<1>3. /\ last \in Nat /\ count \in Nat /\ last =< count
      /\ \/ read_book_request_bus[0] # <<>>
         \/ requests_at = "answer" /\ book_client = 0
         => last + 1 \in 1..count
  BY ReadsUnderWay
<1>4. BookAnswered(0)' = last - 1 /\ \A j \in 1..(last - 1) : books'[0][j] = books[0][j + 1]
  <2>1. books'[0] = Tail(books[0]) /\ \E W : books[0] \in Seq(W)
    BY <1>1 DEF TopInv, Shape, IsArray, IsSequence
  <2>2. PICK W : books[0] \in Seq(W)
    BY <2>1
  <2>3. ASSUME NEW s \in Seq(W), s # <<>>
        PROVE  Len(Tail(s)) = Len(s) - 1 /\ \A j \in 1..(Len(s) - 1) : Tail(s)[j] = s[j + 1]
    BY <2>3
  <2>4. /\ Len(books'[0]) = Len(books[0]) - 1
        /\ \A j \in 1..(Len(books[0]) - 1) : books'[0][j] = books[0][j + 1]
    BY <1>1, <2>1, <2>2, <2>3
  <2>. QED  BY <2>4 DEF BookAnswered
<1>5. \A j \in 1..(count - 1) : t2c_context'[j] = t2c_context[j + 1]
  BY <1>1 DEF TradesInv
<1>6. last > 0
  <2>1. PICK W : books[0] \in Seq(W)
    BY DEF TopInv, Shape, IsArray, IsSequence
  <2>2. Len(books[0]) > 0
    BY <1>1, <2>1
  <2>. QED  BY <2>2 DEF BookAnswered
<1>. HIDE DEF last, count
<1>7. \/ read_book_request_bus[0] # <<>> \/ (requests_at = "answer" /\ book_client = 0)
      => NextTrade' = NextTrade
  <2>1. NextTrade = t2c_context[last + 1].price /\ NextTrade' = t2c_context'[last].price
    <3>1. BookAnswered(0)' + 1 = last
      BY <1>3, <1>4
    <3>. QED  BY <3>1 DEF NextTrade, last
  <2>2. last + 1 \in 1..count => t2c_context'[last] = t2c_context[last + 1]
    BY <1>3, <1>5, <1>6
  <2>. QED  BY <1>3, <2>1, <2>2
<1>8. ASSUME NEW j \in 1..(last - 1)
      PROVE  Recent(books[0][j], t2c_context[j].price)'
  <2>1. /\ j + 1 \in 1..last /\ j \in 1..(count - 1)
        /\ books'[0][j] = books[0][j + 1] /\ t2c_context'[j] = t2c_context[j + 1]
    BY <1>3, <1>4, <1>5
  <2>2. Recent(books[0][j + 1], t2c_context[j + 1].price)
    BY <2>1 DEF AnswersInv, last
  <2>. QED  BY <1>1, <2>1, <2>2 DEF Recent
<1>9. ASSUME requests_at = "serve", book_client = 0
      PROVE  \/ read_book_request_bus'[1] # <<>> /\ Behind(Taken(1))'
             \/ read_book_request_bus'[0] # <<>> /\ Behind(NextTrade)'
  <2>1. CASE read_book_request_bus[1] # <<>> /\ Behind(Taken(1))
    BY <1>1, <1>2, <2>1 DEF Behind
  <2>2. CASE read_book_request_bus[0] # <<>> /\ Behind(NextTrade)
    BY <1>1, <1>2, <1>7, <2>2 DEF Behind
  <2>. QED  BY <1>9, <2>1, <2>2 DEF AnswersInv
<1>10. ASSUME requests_at = "answer", book_client = 0
       PROVE  Recent(book_answer, NextTrade)'
  BY <1>1, <1>7, <1>10 DEF AnswersInv, Recent
<1>. QED  BY <1>1, <1>4, <1>8, <1>9, <1>10 DEF AnswersInv

LEMMA ServingStep ==
  ASSUME TopInv, FeedInv, TradesInv, MemoryInv, AnswersInv, [Next]_vars, p_book_requests
  PROVE  AnswersInv'
<1>. USE StrategyIds
<1>c. PICK c \in {0, 1} : c = book_client
  BY DEF TopInv, Shape
<1>0. /\ UNCHANGED <<feed, t2c_context>> /\ BookAnswered(0) \in Nat
      /\ UNCHANGED FeedVars /\ Taken(1)' = Taken(1)
  <2>1. UNCHANGED <<feed, t2c_context>> /\ UNCHANGED FeedVars
    BY DEF p_book_requests, OutsideBooks, Memory!p_book_requests, Memory!ApplyUpdate,
       Memory!TurnToRequests, Memory!SkipClient, Memory!ReadRequest, Memory!WriteAnswer,
       Memory!booksStreams, FeedVars
  <2>. QED  BY <2>1, SameFeed, ReadsUnderWay DEF FeedVars, Blocks
(* What was answered stays right, whatever the memory is given. *)
<1>1. ASSUME books'[0] = books[0],
             requests_at' = "serve" /\ book_client' = 0 =>
               \/ read_book_request_bus'[1] # <<>> /\ Behind(Taken(1))'
               \/ read_book_request_bus'[0] # <<>> /\ Behind(NextTrade)',
             requests_at' = "answer" /\ book_client' = 0 => Recent(book_answer, NextTrade)'
      PROVE  AnswersInv'
  <2>1. BookAnswered(0)' = BookAnswered(0)
    BY <1>1 DEF BookAnswered
  <2>2. ASSUME NEW j \in 1..BookAnswered(0)
        PROVE  Recent(books[0][j], t2c_context[j].price)'
    BY <1>0, <1>1, <2>2 DEF AnswersInv, Recent
  <2>. QED  BY <1>1, <2>1, <2>2 DEF AnswersInv
<1>2. CASE Memory!ApplyUpdate
  BY <1>1, <1>2 DEF Memory!ApplyUpdate
<1>3. CASE Memory!TurnToRequests
  <2>1. /\ UNCHANGED <<books, read_book_request_bus, books_data>> /\ requests_at' = "serve"
        /\ book_update_bus = <<>>
        /\ read_book_request_bus[0] # <<>> \/ read_book_request_bus[1] # <<>>
    BY <1>3 DEF Memory!TurnToRequests, Memory!booksStreams, Memory!Clients
  <2>2. Behind(Fed) /\ Fed \in Nat /\ StreamDepth \in Nat
    BY <2>1, CaughtUp, FeedBounds
  <2>3. Taken(1) \in Nat /\ Taken(1) =< Fed /\ Taken(0) \in Nat /\ Taken(0) =< Fed
    BY FeedBounds DEF Blocks
  <2>4. Behind(Taken(1))
    BY <2>2, <2>3, BehindLess
  <2>5. read_book_request_bus[0] # <<>> => Behind(NextTrade)
    <3>1. SUFFICES ASSUME read_book_request_bus[0] # <<>>
                   PROVE  Behind(NextTrade)
      OBVIOUS
    <3>2. t2c_context[BookAnswered(0) + 1] \in TradeUpTo(Taken(0))
      BY <3>1, ReadsUnderWay DEF TradesInv
    <3>3. NextTrade \in 0..Taken(0)
      BY <3>2 DEF TradeUpTo, NextTrade
    <3>4. NextTrade \in Nat /\ NextTrade =< Fed
      BY <2>2, <2>3, <3>3
    <3>. QED  BY <2>2, <3>4, BehindLess
  <2>6. NextTrade' = NextTrade /\ Shown' = Shown
    BY <1>0, <2>1 DEF NextTrade, BookAnswered, Shown
  <2>7. \/ read_book_request_bus'[1] # <<>> /\ Behind(Taken(1))'
        \/ read_book_request_bus'[0] # <<>> /\ Behind(NextTrade)'
    BY <1>0, <2>1, <2>4, <2>5, <2>6 DEF Behind
  <2>. QED  BY <1>1, <2>1, <2>7
<1>4. CASE Memory!SkipClient
  <2>1. /\ UNCHANGED books
        /\ ~(requests_at' = "serve" /\ book_client' = 0) /\ requests_at' # "answer"
    BY <1>4 DEF Memory!SkipClient, Memory!NextClient, Memory!booksStreams
  <2>. QED  BY <1>1, <2>1
<1>5. CASE Memory!ReadRequest
  <2>1. UNCHANGED <<books, books_data, book_client>> /\ requests_at' = "answer"
    BY <1>5 DEF Memory!ReadRequest
  <2>2. NextTrade' = NextTrade
    BY <1>0, <2>1 DEF NextTrade, BookAnswered
  <2>3. book_client = 0 => Recent(book_answer', NextTrade)
    BY <1>5, BookRead
  <2>4. book_client' = 0 => Recent(book_answer, NextTrade)'
    BY <1>0, <2>1, <2>2, <2>3 DEF Recent
  <2>. QED  BY <1>1, <2>1, <2>4
<1>6. CASE Memory!WriteAnswer
  <2>1. /\ requests_at = "answer"
        /\ books' = [books EXCEPT ![c] = Append(@, book_answer)]
        /\ ~(requests_at' = "serve" /\ book_client' = 0) /\ requests_at' # "answer"
    BY <1>c, <1>6 DEF Memory!WriteAnswer, Memory!NextClient
  <2>2. CASE c = 1
    <3>1. books'[0] = books[0]
      BY <2>1, <2>2 DEF TopInv, Shape, IsArray
    <3>. QED  BY <1>1, <2>1, <3>1
  <2>3. CASE c = 0
    <3>1. books'[0] = Append(books[0], book_answer) /\ \E W : books[0] \in Seq(W)
      BY <2>1, <2>3 DEF TopInv, Shape, IsArray, IsSequence
    <3>2. PICK W : books[0] \in Seq(W)
      BY <3>1
    <3>3. /\ Len(books'[0]) = Len(books[0]) + 1
          /\ \A j \in 1..Len(books[0]) : books'[0][j] = books[0][j]
          /\ books'[0][Len(books[0]) + 1] = book_answer
      <4>1. books[0] \in Seq(W \cup {book_answer})
        BY <3>2
      <4>. QED  BY <3>1, <4>1
    <3>4. /\ BookAnswered(0)' = BookAnswered(0) + 1
          /\ \A j \in 1..BookAnswered(0) : books'[0][j] = books[0][j]
          /\ books'[0][BookAnswered(0) + 1] = book_answer
      BY <3>3 DEF BookAnswered
    <3>5. Recent(book_answer, NextTrade)
      BY <1>c, <2>1, <2>3 DEF AnswersInv
    <3>6. ASSUME NEW j \in 1..(BookAnswered(0) + 1)
          PROVE  Recent(books[0][j], t2c_context[j].price)'
      <4>1. CASE j = BookAnswered(0) + 1
        BY <1>0, <3>4, <3>5, <4>1 DEF Recent, NextTrade
      <4>2. CASE j \in 1..BookAnswered(0)
        BY <1>0, <3>4, <4>2 DEF Recent, AnswersInv
      <4>. QED  BY <1>0, <4>1, <4>2
    <3>. QED  BY <2>1, <3>4, <3>6 DEF AnswersInv
  <2>. QED  BY <2>2, <2>3
<1>. QED  BY <1>2, <1>3, <1>4, <1>5, <1>6 DEF p_book_requests, Memory!p_book_requests

LEMMA AnswersStep ==
  ASSUME TopInv, FeedInv, TradesInv, MemoryInv, AnswersInv, [Next]_vars
  PROVE  AnswersInv'
<1>. USE StrategyIds
<1>1. feed' = feed
  BY FeedStep
<1>2. CASE p_book_requests
  BY <1>2, ServingStep
<1>3. CASE trigger /\ T2c!TriggerRead
  BY <1>3, AnswerTaken
<1>4. ASSUME ~(p_algo /\ T2t!ReadNxbus)
      PROVE  Taken(1)' = Taken(1)
  BY <1>4, OwnShare
<1>5. CASE p_algo
  <2>1. UNCHANGED <<requests_at, book_client, book_answer, books_data, t2c_context>>
    BY <1>5 DEF p_algo, booksVars
  <2>2. /\ DOMAIN books = {0, 1} /\ DOMAIN read_book_request_bus = {0, 1}
        /\ \A i \in {0, 1} : IsSequence(read_book_request_bus[i])
    BY DEF TopInv, Shape, IsArray
  <2>3. /\ books'[0] = books[0]
        /\ \/ UNCHANGED read_book_request_bus
           \/ \E e : read_book_request_bus' = [read_book_request_bus EXCEPT ![1] = Append(@, e)]
    BY <1>5, <2>2 DEF p_algo, T2t!p_algo, T2t!ReadNxbus, T2t!RequestInstrument,
       T2t!RequestBook, T2t!Decide, T2t!WriteCommand, T2t!WriteNotification, T2t!Me
  <2>4. ASSUME NEW i \in {0, 1}, read_book_request_bus[i] # <<>>
        PROVE  read_book_request_bus'[i] # <<>>
    <3>1. ASSUME NEW e
          PROVE  Append(read_book_request_bus[1], e) # <<>>
      <4>1. IsSequence(read_book_request_bus[1])
        BY <2>2
      <4>2. Len(Append(read_book_request_bus[1], e)) > 0
        BY <4>1, AppendSequence
      <4>3. Len(<<>>) = 0
        OBVIOUS
      <4>. QED  BY <4>2, <4>3
    <3>. QED  BY <2>2, <2>3, <2>4, <3>1
  <2>5. read_book_request_bus[1] # <<>> => Taken(1)' = Taken(1)
    <3>1. read_book_request_bus[1] # <<>> => ~T2t!ReadNxbus
      BY ReadsUnderWay DEF T2t!ReadNxbus
    <3>. QED  BY <1>4, <3>1
  <2>. QED  BY <1>1, <2>1, <2>3, <2>4, <2>5, SameAnswers
<1>6. CASE preprocess_nxbus /\ T2c!WriteContext /\ ~p_algo
  <2>1. /\ UNCHANGED <<requests_at, book_client, book_answer, books_data, books,
                       read_book_request_bus>>
        /\ t2c_context' = Append(t2c_context, t2c_decision_data)
    BY <1>6 DEF preprocess_nxbus, OutsideT2c, booksVars, T2c!WriteContext
  <2>2. \A j \in 1..Len(t2c_context) : t2c_context'[j] = t2c_context[j]
    BY <2>1 DEF TradesInv
  <2>. QED  BY <1>1, <1>4, <1>6, <2>1, <2>2, SameAnswers
<1>7. CASE preprocess_nxbus /\ T2c!RequestBook /\ ~p_algo
  <2>1. /\ UNCHANGED <<requests_at, book_client, book_answer, books_data, books, t2c_context>>
        /\ read_book_request_bus' =
             [read_book_request_bus EXCEPT ![0] = Append(@, t2c_decision_data.instr_id)]
    BY <1>7 DEF preprocess_nxbus, OutsideT2c, booksVars, T2c!RequestBook, T2c!Me
  <2>2. Grew(read_book_request_bus, read_book_request_bus', 0)
    BY <2>1, ArrayWrite DEF TopInv, Shape
  <2>3. read_book_request_bus'[0] # <<>>
    <3>1. Len(read_book_request_bus'[0]) = Len(read_book_request_bus[0]) + 1
          /\ Len(read_book_request_bus[0]) \in Nat
      BY <2>2, ArrayLengths DEF Grew, Changed
    <3>. QED  BY <3>1
  <2>4. read_book_request_bus'[1] = read_book_request_bus[1]
    BY <2>2 DEF Grew, Changed
  <2>. QED  BY <1>1, <1>4, <1>7, <2>1, <2>3, <2>4, SameAnswers
<1>8. CASE \/ preprocess_nxbus /\ (T2c!PreprocessRead \/ T2c!RequestInstrument)
           \/ trigger /\ (T2c!WriteCommand \/ T2c!WriteNotification)
  <2>1. UNCHANGED <<requests_at, book_client, book_answer, books_data, books, t2c_context,
                    read_book_request_bus>>
    BY <1>8 DEF preprocess_nxbus, trigger, OutsideT2c, booksVars, T2c!PreprocessRead,
       T2c!RequestInstrument, T2c!WriteCommand, T2c!WriteNotification
  <2>. QED  BY <1>1, <1>4, <1>5, <2>1, SameAnswers
<1>9. CASE p_book_updates
  <2>1. UNCHANGED <<requests_at, book_client, book_answer, books_data, books, t2c_context,
                    read_book_request_bus>>
    BY <1>9 DEF p_book_updates, OutsideBooks, Memory!p_book_updates, Memory!ReadUpdateWord,
       Memory!WriteUpdate, Memory!requestsVars
  <2>. QED  BY <1>1, <1>4, <1>5, <2>1, SameAnswers
<1>10. CASE \/ p_demux \/ p_handle_instrument_configuration \/ TakeNotification
            \/ (\E i \in Strategies : TakeCommand(i)) \/ UNCHANGED vars
  <2>1. UNCHANGED <<requests_at, book_client, book_answer, books_data, books, t2c_context,
                    read_book_request_bus>>
    BY <1>10 DEF p_demux, p_handle_instrument_configuration, TakeNotification, TakeCommand,
       OutsideNotifs, vars, booksVars
  <2>. QED  BY <1>1, <1>4, <1>5, <2>1, SameAnswers
<1>. QED  BY <1>2, <1>3, <1>5, <1>6, <1>7, <1>8, <1>9, <1>10
       DEF Next, preprocess_nxbus, trigger, T2c!Preprocess, T2c!Trigger

LagInv == TopInv /\ FeedInv /\ TradesInv /\ MemoryInv /\ AnswersInv

LEMMA LagInvInit == Init => LagInv
<1>. SUFFICES ASSUME Init
              PROVE  LagInv
  OBVIOUS
<1>. USE StrategyIds
<1>1. TopInv /\ FeedInv
  BY TopInvInit, FeedInvInit
<1>2. /\ demux_at = 3 /\ nxbus_outputs = [i \in Blocks |-> <<>>]
      /\ book_update_bus = <<>> /\ t2c_context = <<>> /\ updates_at = "read"
      /\ read_book_request_bus = [i \in {0, 1} |-> <<>>] /\ books = [i \in {0, 1} |-> <<>>]
      /\ books_start = TRUE /\ t2c_start = TRUE /\ requests_at = "turn"
      /\ t2c_decision_data = [instr_id |-> 0, price |-> 0, packet |-> 0]
      /\ books_data = [s \in {0, 1} |-> [i \in Instruments |->
                         [present |-> FALSE, toplevel_price |-> 0]]]
  BY DEF Init, Empty, Blocks, Demux!LocalInit, T2c!LocalInit, Memory!LocalInit,
     Memory!NoBook, Memory!Side, Side
<1>3. Taken(0) \in Nat /\ Taken(2) \in Nat
  BY <1>1, FeedBounds DEF Blocks
<1>4. TradesInv
  BY <1>2, <1>3 DEF TradesInv, TradeUpTo
<1>5. Taken(2) = 0
  <2>1. Fed = 0
    <3>1. feed \in Seq(Opcode) /\ Len(nxbus_in) = Len(feed)
      <4>1. feed \in Seq(Opcode)
        BY <1>1 DEF FeedInv
      <4>2. DOMAIN feed = 1..Len(feed) /\ Len(feed) \in Nat
        BY <4>1
      <4>3. nxbus_in = [n \in 1..Len(feed) |-> WordAt(n)]
        BY <4>2 DEF Init
      <4>4. nxbus_in \in [1..Len(feed) -> {WordAt(n) : n \in 1..Len(feed)}]
        BY <4>3
      <4>. QED  BY <4>1, <4>2, <4>4, FunctionIsSeq
    <3>. QED  BY <3>1 DEF Fed
  <2>2. Taken(2) =< Fed
    BY <1>1, FeedBounds DEF Blocks
  <2>. QED  BY <1>3, <2>1, <2>2
<1>6. MemoryInv
  <2>1. 0 \in Instruments
    BY NxbusAssumption
  <2>2. Shown = 0
    BY <1>2, <2>1 DEF Shown
  <2>3. InOrder(book_update_bus, Shown, Taken(2))
    BY <1>2 DEF InOrder
  <2>. QED  BY <1>2, <1>5, <2>1, <2>2, <2>3 DEF MemoryInv
<1>7. AnswersInv
  <2>1. BookAnswered(0) = 0
    BY <1>2 DEF BookAnswered
  <2>. QED  BY <1>2, <2>1 DEF AnswersInv
<1>. QED  BY <1>1, <1>4, <1>6, <1>7 DEF LagInv

(* Whatever the feed and the depths of the streams: no book answered for a *)
(* trade lacks an update that came more than Lag words before the trade.   *)
(* The memory looks at the reads only when no update waits, and a read it  *)
(* has not served by then cannot have let the feed run far ahead.          *)
THEOREM NeverOlderThanLag == Spec => []BookNotOlderThanLag
<1>1. LagInv /\ [Next]_vars => LagInv'
  BY TopInvStep, FeedStep, TradesStep, MemoryStep, AnswersStep DEF LagInv, TopInv
<1>2. LagInv => BookNotOlderThanLag
  <2>. SUFFICES ASSUME LagInv
                PROVE  BookNotOlderThanLag
    OBVIOUS
  <2>1. DOMAIN feed = 1..Len(feed)
    BY DEF LagInv, FeedInv
  <2>2. ASSUME NEW j \in 1..Len(books[0]), NEW n \in DOMAIN feed,
               feed[n] = "BOOK_UPDATE", n + Lag < t2c_context[j].price
        PROVE  books[0][j][0].toplevel_price >= n
    <3>1. Recent(books[0][j], t2c_context[j].price)
      BY DEF LagInv, AnswersInv, BookAnswered
    <3>2. n =< books[0][j][0].toplevel_price
      BY <2>1, <2>2, <3>1 DEF Recent
    <3>. QED  BY <3>2
  <2>. QED  BY <2>2 DEF BookNotOlderThanLag
<1>. QED  BY LagInvInit, <1>1, <1>2, PTL DEF Spec
-----------------------------------------------------------------------------
(* Where a process can be stopped, and the streams nothing is written to   *)
(* while the host is silent.                                               *)
Places ==
  /\ preprocess_at \in {"read", "context", "instrument", "book"}
  /\ trigger_at \in {"read", "command", "notification"}
  /\ algo_at \in {"ready", "instrument", "book", "waiting", "command", "notification"}
  /\ updates_at \in {"read", "write"}
  /\ requests_at \in {"turn", "serve", "answer"}
  /\ config_at \in {"word", "serve", "answer"}

Silence ==
  /\ current_state = "IDLE" /\ user_dma_channel_data_in = <<>>
  /\ decisions_outputs = [i \in 0..3 |-> decisions_outputs[i]]
  /\ decisions_outputs[2] = <<>> /\ decisions_outputs[3] = <<>>
  /\ nxbus_outputs = [i \in 0..2 |-> nxbus_outputs[i]]

PlacesInv == Places /\ Silence

PlacesVars == <<preprocess_at, trigger_at, algo_at, updates_at, requests_at, config_at,
                current_state, user_dma_channel_data_in, decisions_outputs, nxbus_outputs>>

(* A write to, or a read of, one entry of an array leaves an array. *)
LEMMA StillArray ==
  ASSUME NEW n, NEW s, s = [i \in 0..n |-> s[i]], NEW c, NEW e
  PROVE  /\ [s EXCEPT ![c] = e] = [i \in 0..n |-> [s EXCEPT ![c] = e][i]]
         /\ \A i \in 0..n : i # c => [s EXCEPT ![c] = e][i] = s[i]
<1>1. DOMAIN s = 0..n
  OBVIOUS
<1>. QED  BY <1>1

LEMMA PlacesStep ==
  ASSUME PlacesInv, [Next]_vars
  PROVE  PlacesInv'
<1>. USE DEF PlacesInv, Places, Silence
<1>1. CASE p_demux
  <2>1. UNCHANGED <<preprocess_at, trigger_at, algo_at, updates_at, requests_at, config_at,
                    current_state, user_dma_channel_data_in, decisions_outputs>>
    BY <1>1 DEF p_demux, t2cVars, t2tVars, booksVars, configVars
  <2>2. \/ nxbus_outputs' = nxbus_outputs
        \/ \E c, e : nxbus_outputs' = [nxbus_outputs EXCEPT ![c] = e]
    BY <1>1 DEF p_demux, Demux!p_demux, Demux!ReadWord, Demux!WriteNext
  <2>3. nxbus_outputs' = [i \in 0..2 |-> nxbus_outputs'[i]]
    BY <2>2, StillArray
  <2>. QED  BY <2>1, <2>3
<1>2. CASE preprocess_nxbus
  <2>1. UNCHANGED <<trigger_at, algo_at, updates_at, requests_at, config_at,
                    current_state, user_dma_channel_data_in, decisions_outputs>>
    BY <1>2 DEF preprocess_nxbus, OutsideT2c, t2tVars, booksVars, configVars, T2c!Preprocess,
       T2c!PreprocessRead, T2c!WriteContext, T2c!RequestInstrument, T2c!RequestBook,
       T2c!triggerVars
  <2>2. /\ preprocess_at' \in {"read", "context", "instrument", "book"}
        /\ \/ nxbus_outputs' = nxbus_outputs
           \/ \E c, e : nxbus_outputs' = [nxbus_outputs EXCEPT ![c] = e]
    BY <1>2 DEF preprocess_nxbus, T2c!Preprocess,
       T2c!PreprocessRead, T2c!WriteContext, T2c!RequestInstrument, T2c!RequestBook
  <2>3. nxbus_outputs' = [i \in 0..2 |-> nxbus_outputs'[i]]
    BY <2>2, StillArray
  <2>. QED  BY <2>1, <2>2, <2>3
<1>3. CASE trigger
  <2>1. UNCHANGED <<preprocess_at, algo_at, updates_at, requests_at, config_at,
                    current_state, user_dma_channel_data_in, nxbus_outputs>>
    BY <1>3 DEF trigger, OutsideT2c, t2tVars, booksVars, configVars, T2c!Trigger,
       T2c!TriggerRead, T2c!WriteCommand, T2c!WriteNotification, T2c!preprocessVars
  <2>2. /\ trigger_at' \in {"read", "command", "notification"}
        /\ \/ decisions_outputs' = decisions_outputs
           \/ \E e : decisions_outputs' = [decisions_outputs EXCEPT ![0] = e]
    BY <1>3 DEF trigger, T2c!Trigger, T2c!TriggerRead, T2c!WriteCommand,
       T2c!WriteNotification, T2c!Me
  <2>3. /\ decisions_outputs' = [i \in 0..3 |-> decisions_outputs'[i]]
        /\ decisions_outputs'[2] = <<>> /\ decisions_outputs'[3] = <<>>
    BY <2>2, StillArray
  <2>. QED  BY <2>1, <2>2, <2>3
<1>4. CASE p_algo
  <2>1. UNCHANGED <<preprocess_at, trigger_at, updates_at, requests_at, config_at,
                    current_state, user_dma_channel_data_in>>
    BY <1>4 DEF p_algo, t2cVars, booksVars, configVars
  <2>2. /\ algo_at' \in {"ready", "instrument", "book", "waiting", "command", "notification"}
        /\ \/ nxbus_outputs' = nxbus_outputs
           \/ \E c, e : nxbus_outputs' = [nxbus_outputs EXCEPT ![c] = e]
        /\ \/ decisions_outputs' = decisions_outputs
           \/ \E e : decisions_outputs' = [decisions_outputs EXCEPT ![1] = e]
    BY <1>4 DEF p_algo, T2t!p_algo, T2t!ReadNxbus, T2t!RequestInstrument, T2t!RequestBook,
       T2t!Decide, T2t!WriteCommand, T2t!WriteNotification, T2t!Me
  <2>3. nxbus_outputs' = [i \in 0..2 |-> nxbus_outputs'[i]]
    BY <2>2, StillArray
  <2>4. /\ decisions_outputs' = [i \in 0..3 |-> decisions_outputs'[i]]
        /\ decisions_outputs'[2] = <<>> /\ decisions_outputs'[3] = <<>>
    BY <2>2, StillArray
  <2>. QED  BY <2>1, <2>2, <2>3, <2>4
<1>5. CASE p_book_updates
  <2>1. UNCHANGED <<preprocess_at, trigger_at, algo_at, requests_at, config_at,
                    current_state, user_dma_channel_data_in, decisions_outputs>>
    BY <1>5 DEF p_book_updates, OutsideBooks, t2cVars, t2tVars, configVars,
       Memory!p_book_updates, Memory!ReadUpdateWord, Memory!WriteUpdate, Memory!requestsVars
  <2>2. /\ updates_at' \in {"read", "write"}
        /\ \/ nxbus_outputs' = nxbus_outputs
           \/ \E c, e : nxbus_outputs' = [nxbus_outputs EXCEPT ![c] = e]
    BY <1>5 DEF p_book_updates, Memory!p_book_updates, Memory!ReadUpdateWord,
       Memory!WriteUpdate
  <2>3. nxbus_outputs' = [i \in 0..2 |-> nxbus_outputs'[i]]
    BY <2>2, StillArray
  <2>. QED  BY <2>1, <2>2, <2>3
<1>6. CASE p_book_requests
  <2>1. UNCHANGED <<preprocess_at, trigger_at, algo_at, updates_at, config_at,
                    current_state, user_dma_channel_data_in, decisions_outputs, nxbus_outputs>>
    BY <1>6 DEF p_book_requests, OutsideBooks, t2cVars, t2tVars, configVars,
       Memory!p_book_requests, Memory!ApplyUpdate, Memory!TurnToRequests, Memory!SkipClient,
       Memory!ReadRequest, Memory!WriteAnswer, Memory!updatesVars, Memory!booksStreams
  <2>2. requests_at' \in {"turn", "serve", "answer"}
    BY <1>6 DEF p_book_requests, Memory!p_book_requests, Memory!ApplyUpdate,
       Memory!TurnToRequests, Memory!SkipClient, Memory!ReadRequest, Memory!WriteAnswer,
       Memory!NextClient
  <2>. QED  BY <2>1, <2>2
<1>7. CASE p_handle_instrument_configuration
  <2>0. /\ Config!TurnToRequests \/ Config!SkipClient \/ Config!ReadRequest \/ Config!WriteAnswer
        /\ UNCHANGED <<preprocess_at, trigger_at, algo_at, updates_at, requests_at, nxbus_outputs>>
    BY <1>7 DEF p_handle_instrument_configuration, Config!p_handle_instrument_configuration,
       Config!ReadHeader, Config!ReadConfWord2, Config!ReadConfWord3, Config!WriteAck,
       Config!ReadSwTrigArg, Config!IssueTrigger, Config!IgnoreWord, Config!TakeWord,
       t2cVars, t2tVars, booksVars
  <2>1. UNCHANGED <<current_state, user_dma_channel_data_in, decisions_outputs>>
    BY <2>0 DEF Config!TurnToRequests, Config!SkipClient, Config!ReadRequest,
       Config!WriteAnswer, Config!configStreams
  <2>2. config_at' \in {"word", "serve", "answer"}
    BY <2>0 DEF Config!TurnToRequests, Config!SkipClient, Config!ReadRequest,
       Config!WriteAnswer, Config!NextClient
  <2>. QED  BY <2>0, <2>1, <2>2
<1>8. ASSUME NEW c \in Strategies, TakeCommand(c)
      PROVE  PlacesInv'
  <2>1. UNCHANGED <<preprocess_at, trigger_at, algo_at, updates_at, requests_at, config_at,
                    current_state, user_dma_channel_data_in, nxbus_outputs>>
    BY <1>8 DEF TakeCommand, t2cVars, t2tVars, booksVars, configVars
  <2>2. c # 2 /\ c # 3 /\ \E e : decisions_outputs' = [decisions_outputs EXCEPT ![c] = e]
    BY <1>8, StrategyIds DEF TakeCommand
  <2>3. /\ decisions_outputs' = [i \in 0..3 |-> decisions_outputs'[i]]
        /\ decisions_outputs'[2] = <<>> /\ decisions_outputs'[3] = <<>>
    BY <2>2, StillArray
  <2>. QED  BY <2>1, <2>3
<1>9. CASE TakeNotification \/ UNCHANGED vars
  <2>1. UNCHANGED PlacesVars
    BY <1>9 DEF TakeNotification, OutsideNotifs, vars, t2cVars, t2tVars, booksVars,
       configVars, PlacesVars
  <2>. QED  BY <2>1 DEF PlacesVars
<1>. QED  BY <1>1, <1>2, <1>3, <1>4, <1>5, <1>6, <1>7, <1>8, <1>9 DEF Next

LEMMA PlacesInit == Init => PlacesInv
BY DEF Init, PlacesInv, Places, Silence, Empty, T2c!LocalInit, T2t!LocalInit, Memory!LocalInit
-----------------------------------------------------------------------------
(* No process has what it waits for. *)
Stuck == TopInv /\ FeedInv /\ PlacesInv /\ ~SomeoneReady

LEMMA EmptySequence ==
  ASSUME NEW s, IsSequence(s)
  PROVE  s = <<>> <=> Len(s) = 0
BY DEF IsSequence

LEMMA Room ==
  /\ CanWrite(<<>>, StreamDepth) /\ CanWrite(<<>>, NotifDepth)
  /\ StreamDepth \in Nat \ {0} /\ ContextDepth \in Nat \ {0}
BY TopAssumption DEF CanWrite

(* Commands and notifications are taken, so nothing waits to write one. *)
LEMMA StuckOutputs ==
  ASSUME Stuck
  PROVE  /\ decisions_outputs[0] = <<>> /\ decisions_outputs[1] = <<>>
         /\ tick2cancel_to_notifs = <<>> /\ tick2trade_to_notifs = <<>>
         /\ trigger_at = "read" /\ algo_at \notin {"command", "notification"}
<1>1. /\ decisions_outputs[0] = <<>> /\ decisions_outputs[1] = <<>>
      /\ tick2cancel_to_notifs = <<>> /\ tick2trade_to_notifs = <<>>
  BY StrategyIds DEF Stuck, SomeoneReady, OutputsReady
<1>2. trigger_at = "read"
  BY <1>1, Room DEF Stuck, SomeoneReady, TriggerReady, PlacesInv, Places
<1>3. algo_at \notin {"command", "notification"}
  BY <1>1, Room DEF Stuck, SomeoneReady, AlgoReady
<1>. QED  BY <1>1, <1>2, <1>3

(* The counts of InStep, without their names. *)
LEMMA StuckCounts ==
  ASSUME Stuck
  PROVE  /\ ConfAsked(0) + ConfAnswered(0) + ConfHeld(0)
              + (IF preprocess_at = "instrument" THEN 1 ELSE 0) = Len(t2c_context)
         /\ BookAsked(0) + BookAnswered(0) + BookHeld(0)
              + (IF preprocess_at \in {"instrument", "book"} THEN 1 ELSE 0) = Len(t2c_context)
         /\ ConfAsked(1) + ConfAnswered(1) + ConfHeld(1)
              = IF algo_at \in {"book", "waiting"} THEN 1 ELSE 0
         /\ BookAsked(1) + BookAnswered(1) + BookHeld(1) = IF algo_at = "waiting" THEN 1 ELSE 0
         /\ Len(t2c_context) \in Nat
         /\ \A i \in {0, 1} :
              /\ ConfAsked(i) \in Nat /\ ConfAnswered(i) \in Nat /\ ConfHeld(i) \in {0, 1}
              /\ BookAsked(i) \in Nat /\ BookAnswered(i) \in Nat /\ BookHeld(i) \in {0, 1}
         /\ \A i \in {0, 1} :
              /\ instrument_read_bus[i] = <<>> <=> ConfAsked(i) = 0
              /\ instrument_read_responses[i] = <<>> <=> ConfAnswered(i) = 0
              /\ read_book_request_bus[i] = <<>> <=> BookAsked(i) = 0
              /\ books[i] = <<>> <=> BookAnswered(i) = 0
         /\ t2c_context = <<>> <=> Len(t2c_context) = 0
<1>1. TopInv /\ Shape /\ InStep
  BY DEF Stuck, TopInv
<1>2. \A i \in {0, 1} :
        /\ ConfAsked(i) \in Nat /\ ConfAnswered(i) \in Nat /\ ConfHeld(i) \in {0, 1}
        /\ BookAsked(i) \in Nat /\ BookAnswered(i) \in Nat /\ BookHeld(i) \in {0, 1}
  BY <1>1, Counts DEF ConfHeld, BookHeld
<1>3. \A i \in {0, 1} :
        /\ IsSequence(instrument_read_bus[i]) /\ IsSequence(instrument_read_responses[i])
        /\ IsSequence(read_book_request_bus[i]) /\ IsSequence(books[i])
  BY <1>1, StrategyIds DEF Shape, IsArray
<1>4. \A i \in {0, 1} :
        /\ instrument_read_bus[i] = <<>> <=> ConfAsked(i) = 0
        /\ instrument_read_responses[i] = <<>> <=> ConfAnswered(i) = 0
        /\ read_book_request_bus[i] = <<>> <=> BookAsked(i) = 0
        /\ books[i] = <<>> <=> BookAnswered(i) = 0
  BY <1>3, EmptySequence DEF ConfAsked, ConfAnswered, BookAsked, BookAnswered
<1>5. t2c_context = <<>> <=> Len(t2c_context) = 0
  BY <1>1, EmptySequence DEF Shape
<1>6. Len(t2c_context) \in Nat
  BY <1>1, Lengths
<1>7. \A i \in {0, 1} : /\ ConfUnderWay(i) = ConfAsked(i) + ConfAnswered(i) + ConfHeld(i)
                        /\ BookUnderWay(i) = BookAsked(i) + BookAnswered(i) + BookHeld(i)
  BY Sums
<1>8. /\ ConfUnderWay(0) + (IF preprocess_at = "instrument" THEN 1 ELSE 0) = Len(t2c_context)
      /\ BookUnderWay(0) + (IF preprocess_at \in {"instrument", "book"} THEN 1 ELSE 0)
           = Len(t2c_context)
      /\ ConfUnderWay(1) = IF algo_at \in {"book", "waiting"} THEN 1 ELSE 0
      /\ BookUnderWay(1) = IF algo_at = "waiting" THEN 1 ELSE 0
  BY <1>1 DEF InStep
<1>. QED  BY <1>2, <1>4, <1>5, <1>6, <1>7, <1>8

(* The contexts are as many as the questions of Tick2cancel to each memory *)
(* that it has not taken the answer of, or one more.                       *)
LEMMA Owed ==
  ASSUME Stuck
  PROVE  /\ Len(t2c_context) - (ConfAsked(0) + ConfAnswered(0) + ConfHeld(0)) \in {0, 1}
         /\ Len(t2c_context) - (BookAsked(0) + BookAnswered(0) + BookHeld(0)) \in {0, 1}
<1>1. PICK c \in Nat : c = ConfAsked(0) + ConfAnswered(0) + ConfHeld(0)
  BY StuckCounts
<1>2. PICK b \in Nat : b = BookAsked(0) + BookAnswered(0) + BookHeld(0)
  BY StuckCounts
<1>3. PICK n \in Nat : n = Len(t2c_context)
  BY StuckCounts
<1>4. n - c \in {0, 1} /\ n - b \in {0, 1}
  <2>1. PICK x \in {0, 1} : x = IF preprocess_at = "instrument" THEN 1 ELSE 0
    OBVIOUS
  <2>2. PICK y \in {0, 1} : y = IF preprocess_at \in {"instrument", "book"} THEN 1 ELSE 0
    OBVIOUS
  <2>3. c + x = n
    BY <1>1, <1>3, <2>1, StuckCounts
  <2>4. b + y = n
    BY <1>2, <1>3, <2>2, StuckCounts
  <2>. QED  BY <2>3, <2>4
<1>. QED  BY <1>1, <1>2, <1>3, <1>4

(* A memory that holds an answer of Tick2trade can give it.  One that      *)
(* cannot give its answer to Tick2cancel has given it one before, so two   *)
(* contexts are there, and trigger waits for the other memory: which has   *)
(* a question of Tick2cancel and goes on.                                  *)
LEMMA MemoriesIdle ==
  ASSUME Stuck
  PROVE  /\ config_at = "word" /\ requests_at = "turn" /\ book_update_bus = <<>>
         /\ \A i \in {0, 1} : /\ instrument_read_bus[i] = <<>> /\ read_book_request_bus[i] = <<>>
                              /\ ConfHeld(i) = 0 /\ BookHeld(i) = 0
<1>0. /\ client \in {0, 1} /\ book_client \in {0, 1}
      /\ config_at \in {"word", "serve", "answer"} /\ requests_at \in {"turn", "serve", "answer"}
      /\ current_state = "IDLE" /\ user_dma_channel_data_in = <<>>
      /\ ~ConfigurationReady /\ ~RequestsReady /\ ~TriggerReady
  BY StrategyIds DEF Stuck, TopInv, Shape, PlacesInv, Places, Silence, SomeoneReady
<1>1. config_at # "serve" /\ requests_at # "serve"
  BY <1>0 DEF ConfigurationReady, RequestsReady
<1>2. config_at = "word" => ConfAsked(0) = 0 /\ ConfAsked(1) = 0
  BY <1>0, StuckCounts, StrategyIds DEF ConfigurationReady
<1>3. requests_at = "turn" => BookAsked(0) = 0 /\ BookAsked(1) = 0
  BY <1>0, StuckCounts, StrategyIds DEF RequestsReady
<1>4. t2c_context = <<>> \/ ConfAnswered(0) = 0 \/ BookAnswered(0) = 0
  BY <1>0, StuckCounts, StuckOutputs DEF TriggerReady
<1>5. config_at = "answer" => client = 0 /\ ConfHeld(0) = 1 /\ ConfHeld(1) = 0 /\ ConfAnswered(0) >= 1
  <2>. SUFFICES ASSUME config_at = "answer"
                PROVE  client = 0 /\ ConfHeld(0) = 1 /\ ConfHeld(1) = 0 /\ ConfAnswered(0) >= 1
    OBVIOUS
  <2>1. ConfHeld(client) = 1 /\ (client = 0 => ConfHeld(1) = 0)
    BY DEF ConfHeld
  <2>2. PICK i \in {0, 1} : i = client
    BY <1>0
  <2>3. ConfAnswered(client) >= 1
    <3>1. ~CanWrite(instrument_read_responses[i], StreamDepth)
      BY <1>0, <2>2 DEF ConfigurationReady
    <3>2. ConfAnswered(i) # 0
      BY <3>1, Room, StuckCounts
    <3>3. ConfAnswered(i) \in Nat
      BY StuckCounts
    <3>. QED  BY <2>2, <3>2, <3>3
  <2>4. client # 1
    BY <2>1, <2>3, StuckCounts
  <2>. QED  BY <1>0, <2>1, <2>3, <2>4
<1>6. requests_at = "answer" =>
        book_client = 0 /\ BookHeld(0) = 1 /\ BookHeld(1) = 0 /\ BookAnswered(0) >= 1
  <2>. SUFFICES ASSUME requests_at = "answer"
                PROVE  /\ book_client = 0 /\ BookHeld(0) = 1 /\ BookHeld(1) = 0
                       /\ BookAnswered(0) >= 1
    OBVIOUS
  <2>1. BookHeld(book_client) = 1 /\ (book_client = 0 => BookHeld(1) = 0)
    BY DEF BookHeld
  <2>2. PICK i \in {0, 1} : i = book_client
    BY <1>0
  <2>3. BookAnswered(book_client) >= 1
    <3>1. ~CanWrite(books[i], StreamDepth)
      BY <1>0, <2>2 DEF RequestsReady
    <3>2. BookAnswered(i) # 0
      BY <3>1, Room, StuckCounts
    <3>3. BookAnswered(i) \in Nat
      BY StuckCounts
    <3>. QED  BY <2>2, <3>2, <3>3
  <2>4. book_client # 1
    BY <2>1, <2>3, StuckCounts
  <2>. QED  BY <1>0, <2>1, <2>3, <2>4
<1>7. /\ config_at # "answer" => ConfHeld(0) = 0 /\ ConfHeld(1) = 0
      /\ requests_at # "answer" => BookHeld(0) = 0 /\ BookHeld(1) = 0
  BY DEF ConfHeld, BookHeld
<1>8. config_at = "word"
  <2>. SUFFICES ASSUME config_at = "answer"
                PROVE  FALSE
    BY <1>0, <1>1
  <2>1. Len(t2c_context) >= 2 /\ BookAnswered(0) = 0
    <3>1. ConfAsked(0) + ConfAnswered(0) + ConfHeld(0) >= 2
      BY <1>5, StuckCounts
    <3>2. Len(t2c_context) >= 2
      BY <3>1, Owed, StuckCounts
    <3>. QED  BY <1>4, <1>5, <3>2, StuckCounts
  <2>2. requests_at = "turn"
    BY <1>0, <1>1, <1>6, <2>1
  <2>3. BookAsked(0) + BookAnswered(0) + BookHeld(0) = 0
    BY <1>3, <1>7, <2>1, <2>2
  <2>4. Len(t2c_context) \in Nat
    BY StuckCounts
  <2>5. Len(t2c_context) - 0 \in {0, 1}
    BY <2>3, Owed
  <2>. QED  BY <2>1, <2>4, <2>5
<1>9. requests_at = "turn"
  <2>. SUFFICES ASSUME requests_at = "answer"
                PROVE  FALSE
    BY <1>0, <1>1
  <2>1. Len(t2c_context) >= 2 /\ ConfAnswered(0) = 0
    <3>1. BookAsked(0) + BookAnswered(0) + BookHeld(0) >= 2
      BY <1>6, StuckCounts
    <3>2. Len(t2c_context) >= 2
      BY <3>1, Owed, StuckCounts
    <3>. QED  BY <1>4, <1>6, <3>2, StuckCounts
  <2>2. ConfAsked(0) + ConfAnswered(0) + ConfHeld(0) = 0
    BY <1>2, <1>7, <1>8, <2>1
  <2>3. Len(t2c_context) \in Nat
    BY StuckCounts
  <2>4. Len(t2c_context) - 0 \in {0, 1}
    BY <2>2, Owed
  <2>. QED  BY <2>1, <2>3, <2>4
<1>10. book_update_bus = <<>>
  BY <1>0, <1>9 DEF RequestsReady
<1>. QED  BY <1>2, <1>3, <1>7, <1>8, <1>9, <1>10, StuckCounts

(* The memories have nothing to do, so nothing waits for them either.      *)
LEMMA StrategiesIdle ==
  ASSUME Stuck
  PROVE  /\ preprocess_at = "read" /\ t2c_context = <<>> /\ algo_at = "ready"
         /\ updates_at = "read" /\ \A i \in 0..2 : nxbus_outputs[i] = <<>>
<1>0. /\ preprocess_at \in {"read", "context", "instrument", "book"}
      /\ algo_at \in {"ready", "instrument", "book", "waiting", "command", "notification"}
      /\ updates_at \in {"read", "write"}
      /\ ~PreprocessReady /\ ~TriggerReady /\ ~AlgoReady /\ ~UpdatesReady
  BY DEF Stuck, PlacesInv, Places, SomeoneReady
<1>1. preprocess_at \notin {"instrument", "book"}
  BY <1>0, MemoriesIdle, Room DEF PreprocessReady
<1>2. ConfAnswered(0) = Len(t2c_context) /\ BookAnswered(0) = Len(t2c_context)
  BY <1>1, MemoriesIdle, StuckCounts
<1>3. t2c_context = <<>>
  BY <1>0, <1>2, StuckCounts, StuckOutputs DEF TriggerReady
<1>4. preprocess_at = "read" /\ nxbus_outputs[0] = <<>>
  <2>1. CanWrite(t2c_context, ContextDepth)
    BY <1>3, Room DEF CanWrite
  <2>. QED  BY <1>0, <1>1, <2>1 DEF PreprocessReady
<1>5. algo_at = "ready" /\ nxbus_outputs[1] = <<>>
  <2>1. algo_at # "instrument" /\ algo_at # "book"
    BY <1>0, MemoriesIdle, Room DEF AlgoReady
  <2>2. algo_at # "waiting"
    <3>. SUFFICES ASSUME algo_at = "waiting"
                  PROVE  FALSE
      OBVIOUS
    <3>1. ConfAnswered(1) = 1 /\ BookAnswered(1) = 1
      BY MemoriesIdle, StuckCounts
    <3>. QED  BY <1>0, <3>1, StuckCounts DEF AlgoReady
  <2>3. algo_at = "ready"
    BY <1>0, <2>1, <2>2, StuckOutputs
  <2>. QED  BY <1>0, <2>3 DEF AlgoReady
<1>6. updates_at = "read" /\ nxbus_outputs[2] = <<>>
  BY <1>0, MemoriesIdle, Room DEF UpdatesReady
<1>. QED  BY <1>3, <1>4, <1>5, <1>6

(* Nothing stops the demuxer then, and all of the feed went through it.    *)
LEMMA StuckIsDrained ==
  ASSUME Stuck
  PROVE  Drained
<1>1. demux_at \in 0..3 /\ ~DemuxReady
  BY DEF Stuck, FeedInv, SomeoneReady
<1>2. demux_at = 3 /\ nxbus_in = <<>>
  <2>1. CASE demux_at \in 0..2
    BY <1>1, <2>1, StrategiesIdle, Room DEF DemuxReady
  <2>. QED  BY <1>1, <2>1 DEF DemuxReady
<1>3. nxbus_outputs = Empty(0..2)
  BY StrategiesIdle DEF Stuck, PlacesInv, Silence, Empty
<1>4. decisions_outputs = Empty(0..3)
  <2>1. \A i \in 0..3 : decisions_outputs[i] = <<>>
    BY StuckOutputs DEF Stuck, PlacesInv, Silence
  <2>. QED  BY <2>1 DEF Stuck, PlacesInv, Silence, Empty
<1>. QED  BY <1>2, <1>3, <1>4, StuckOutputs, MemoriesIdle, StrategiesIdle DEF Drained

(* However slow the blocks, for any feed and any depths of the streams:    *)
(* while something of the feed is under way, some process of the market    *)
(* data side has what it waits for.                                        *)
THEOREM NeverLocks == Spec => []NeverLockedUp
<1>1. TopInv /\ FeedInv /\ PlacesInv /\ [Next]_vars => (TopInv /\ FeedInv /\ PlacesInv)'
  BY TopInvStep, FeedStep, PlacesStep
<1>2. TopInv /\ FeedInv /\ PlacesInv => NeverLockedUp
  BY StuckIsDrained DEF Stuck, NeverLockedUp
<1>. QED  BY TopInvInit, FeedInvInit, PlacesInit, <1>1, <1>2, PTL DEF Spec
=============================================================================
