--------------------------- MODULE HlsStreamProofs ---------------------------
(***************************************************************************)
(* What the operations on a stream preserve, whatever its words are.       *)
(***************************************************************************)
EXTENDS HlsStream, TLAPS

(* A write that found room keeps the stream within its depth and leaves    *)
(* what was in it in place.                                                *)
LEMMA WriteStream ==
  ASSUME NEW W, NEW d \in Nat, NEW s, IsStream(s, W, d), CanWrite(s, d), NEW e \in W
  PROVE  /\ IsStream(Append(s, e), W, d)
         /\ Len(Append(s, e)) = Len(s) + 1
         /\ \A j \in 1..Len(s) : Append(s, e)[j] = s[j]
         /\ Append(s, e)[Len(s) + 1] = e
BY DEF IsStream, CanWrite

(* A read takes the oldest word and moves the others up by one place.      *)
LEMMA ReadStream ==
  ASSUME NEW W, NEW d \in Nat, NEW s, IsStream(s, W, d), s # <<>>
  PROVE  /\ IsStream(Tail(s), W, d)
         /\ Head(s) \in W
         /\ Len(s) > 0
         /\ Head(s) = s[1]
         /\ Len(Tail(s)) = Len(s) - 1
         /\ \A j \in 1..Len(Tail(s)) : Tail(s)[j] = s[j + 1]
BY DEF IsStream

(* The same two facts for one stream of an array of streams.               *)
LEMMA WriteBus ==
  ASSUME NEW W, NEW d \in Nat, NEW Ids, NEW bus, IsBus(bus, Ids, W, d),
         NEW i \in Ids, CanWrite(bus[i], d), NEW e \in W
  PROVE  /\ IsBus([bus EXCEPT ![i] = Append(@, e)], Ids, W, d)
         /\ [bus EXCEPT ![i] = Append(@, e)][i] = Append(bus[i], e)
BY DEF IsBus, CanWrite

(* A read of one stream of an array leaves the others alone and the array  *)
(* well formed.                                                            *)
LEMMA ReadBus ==
  ASSUME NEW W, NEW d \in Nat, NEW Ids, NEW bus, IsBus(bus, Ids, W, d),
         NEW i \in Ids, bus[i] # <<>>
  PROVE  /\ IsBus([bus EXCEPT ![i] = Tail(@)], Ids, W, d)
         /\ [bus EXCEPT ![i] = Tail(@)][i] = Tail(bus[i])
<1>1. /\ Tail(bus[i]) \in Seq(W)
      /\ Len(Tail(bus[i])) =< d
  BY DEF IsBus
<1>. QED  BY <1>1 DEF IsBus

(* Each stream of an array is a stream. *)
LEMMA BusStream ==
  ASSUME NEW W, NEW d, NEW Ids, NEW bus, IsBus(bus, Ids, W, d), NEW i \in Ids
  PROVE  IsStream(bus[i], W, d)
BY DEF IsBus, IsStream

(* A stream of depth 1: a word written to it when empty is what it holds,  *)
(* and reading that word leaves it empty.                                  *)
LEMMA OneWord ==
  ASSUME NEW e
  PROVE  Append(<<>>, e) = <<e>> /\ Head(<<e>>) = e /\ Tail(<<e>>) = <<>>
<1>1. Append(<<>>, e) = <<e>>
  OBVIOUS
<1>2. Head(<<e>>) = e
  OBVIOUS
<1>3. Tail(<<e>>) = <<>>
  OBVIOUS
<1>. QED  BY <1>1, <1>2, <1>3

(* A function on the first n places is a sequence of n words. *)
LEMMA FunctionIsSeq ==
  ASSUME NEW W, NEW n \in Nat, NEW f \in [1..n -> W]
  PROVE  f \in Seq(W) /\ Len(f) = n
<1>1. f \in Seq(W)
  OBVIOUS
<1>. QED  BY <1>1

(* What a sequence of at least one word holds after its first word. *)
LEMMA TailPlaces ==
  ASSUME NEW W, NEW s \in Seq(W), NEW n \in Nat, Len(s) = n + 1
  PROVE  Tail(s) \in Seq(W) /\ Tail(s) = [k \in 1..n |-> s[k + 1]]
<1>1. s # <<>> /\ Len(s) - 1 = n
  OBVIOUS
<1>2. Tail(s) \in Seq(W)
  BY <1>1
<1>3. Len(Tail(s)) = n /\ \A k \in 1..n : Tail(s)[k] = s[k + 1]
  BY <1>1
<1>. DEFINE rest == Tail(s)
<1>4. rest \in Seq(W) /\ Len(rest) = n
  BY <1>2, <1>3
<1>. HIDE DEF rest
<1>5. DOMAIN rest = 1..n /\ rest \in [1..n -> W]
  BY <1>4
<1>6. rest = [k \in 1..n |-> rest[k]]
  BY <1>5
<1>. QED  BY <1>2, <1>3, <1>6 DEF rest

(* What is read of a stream continued by another is read of its front. *)
LEMMA TailOfConcat ==
  ASSUME NEW W, NEW front \in Seq(W), NEW back \in Seq(W), front # <<>>
  PROVE  /\ front \o back # <<>> /\ Tail(front \o back) = Tail(front) \o back
         /\ front \o back \in Seq(W) /\ (front \o back)[1] = Head(front)
<1>. DEFINE left == Tail(front \o back)
            right == Tail(front) \o back
<1>1. /\ Len(front \o back) = Len(front) + Len(back) /\ Len(front) >= 1
      /\ front \o back \in Seq(W) /\ Len(back) \in Nat /\ Len(front) \in Nat
  OBVIOUS
<1>2. front \o back # <<>>
  BY <1>1
<1>3. left \in Seq(W) /\ Len(left) = Len(front) + Len(back) - 1
  BY <1>1, <1>2
<1>4. Tail(front) \in Seq(W) /\ Len(Tail(front)) = Len(front) - 1
  OBVIOUS
<1>5. right \in Seq(W) /\ Len(right) = Len(front) + Len(back) - 1
  BY <1>1, <1>4
<1>6. ASSUME NEW j \in 1..(Len(front) + Len(back) - 1)
      PROVE  left[j] = right[j]
  <2>1. left[j] = (front \o back)[j + 1]
    BY <1>1, <1>2
  <2>2. CASE j + 1 <= Len(front)
    BY <1>1, <1>4, <2>1, <2>2
  <2>3. CASE j + 1 > Len(front)
    BY <1>1, <1>4, <2>1, <2>3
  <2>. QED  BY <1>1, <2>2, <2>3
<1>. HIDE DEF left, right
<1>7. left = right
  <2>1. left \in Seq(W) /\ right \in Seq(W) /\ Len(left) = Len(right)
    BY <1>3, <1>5
  <2>2. \A j \in 1..Len(left) : left[j] = right[j]
    BY <1>3, <1>6, Zenon
  <2>3. left = [j \in 1..Len(left) |-> left[j]]
    BY <2>1
  <2>4. right = [j \in 1..Len(left) |-> right[j]]
    BY <2>1
  <2>. QED  BY <2>2, <2>3, <2>4, Zenon
<1>. QED  BY <1>1, <1>2, <1>7 DEF left, right

(* A word moved from the front of one sequence to the end of another       *)
(* leaves what they are together.                                          *)
LEMMA DeliverOne ==
  ASSUME NEW W, NEW s \in Seq(W), NEW t \in Seq(W), t # <<>>
  PROVE  Append(s, Head(t)) \o Tail(t) = s \o t
<1>. DEFINE left == Append(s, Head(t)) \o Tail(t)
            right == s \o t
<1>1. /\ Append(s, Head(t)) \in Seq(W) /\ Len(Append(s, Head(t))) = Len(s) + 1
      /\ Tail(t) \in Seq(W) /\ Len(Tail(t)) = Len(t) - 1
      /\ Len(s) \in Nat /\ Len(t) \in Nat
      /\ Head(t) = t[1] /\ \A k \in 1..(Len(t) - 1) : Tail(t)[k] = t[k + 1]
  OBVIOUS
<1>2. left \in Seq(W) /\ Len(left) = Len(s) + Len(t)
  BY <1>1
<1>3. right \in Seq(W) /\ Len(right) = Len(s) + Len(t)
  OBVIOUS
<1>4. ASSUME NEW j \in 1..(Len(s) + Len(t))
      PROVE  left[j] = right[j]
  <2>1. CASE j =< Len(s)
    BY <1>1, <2>1
  <2>2. CASE j = Len(s) + 1
    BY <1>1, <2>2
  <2>3. CASE j > Len(s) + 1
    BY <1>1, <2>3
  <2>. QED  BY <1>1, <2>1, <2>2, <2>3
<1>. HIDE DEF left, right
<1>5. left = right
  BY <1>2, <1>3, <1>4
<1>. QED  BY <1>5 DEF left, right
-----------------------------------------------------------------------------
(* A stream that carries packets: the words of each item of a queue, one   *)
(* item after the other, cut[e] being the words of e.  The place of a word *)
(* is the place of its item in the queue and its own in the item; this is  *)
(* the place of the word that comes after it.                              *)
After(cut, queue, place) ==
  IF place[2] = Len(cut[queue[place[1]]]) THEN <<place[1] + 1, 1>>
                                          ELSE <<place[1], place[2] + 1>>

(* The words of s, at the places p, are cut one after the other from the   *)
(* items of the queue; the last place of p is the one that follows them.   *)
Spelled(cut, queue, p, s) ==
  /\ p \in [1..(Len(s) + 1) -> Nat \X Nat]
  /\ \A k \in 1..Len(s) :
       /\ p[k][1] \in 1..Len(queue) /\ p[k][2] \in 1..Len(cut[queue[p[k][1]]])
       /\ s[k] = cut[queue[p[k][1]]][p[k][2]] /\ p[k + 1] = After(cut, queue, p[k])
  /\ \A j, k \in 1..(Len(s) + 1) : j =< k => p[j][1] =< p[k][1]

(* The place that follows is one, and no earlier in the queue. *)
LEMMA AfterType ==
  ASSUME NEW cut, NEW queue, Len(queue) \in Nat, NEW place \in Nat \X Nat,
         place[1] \in 1..Len(queue), place[2] \in 1..Len(cut[queue[place[1]]])
  PROVE  /\ After(cut, queue, place) \in Nat \X Nat
         /\ After(cut, queue, place)[1] >= place[1]
<1>1. place[1] \in Nat /\ place[2] \in Nat
  OBVIOUS
<1>. QED  BY <1>1 DEF After

(* A word written at the place that follows goes on with the words.        *)
LEMMA SpelledWrite ==
  ASSUME NEW cut, NEW queue, Len(queue) \in Nat, NEW W, NEW s \in Seq(W), NEW p,
         Spelled(cut, queue, p, s), NEW place, place = p[Len(s) + 1],
         place[1] \in 1..Len(queue), place[2] \in 1..Len(cut[queue[place[1]]]),
         NEW w \in W, w = cut[queue[place[1]]][place[2]]
  PROVE  \E q : /\ Spelled(cut, queue, q, Append(s, w)) /\ q[1] = p[1]
               /\ q[Len(s) + 2] = After(cut, queue, place)
<1>. DEFINE n == Len(s)
            t == Append(s, w)
            next == After(cut, queue, place)
            q == [k \in 1..(n + 2) |-> IF k = n + 2 THEN next ELSE p[k]]
<1>1. /\ n \in Nat /\ Len(t) = n + 1 /\ t[n + 1] = w
      /\ \A k \in 1..n : t[k] = s[k]
  OBVIOUS
<1>2. /\ p \in [1..(n + 1) -> Nat \X Nat]
      /\ \A k \in 1..n :
           /\ p[k][1] \in 1..Len(queue) /\ p[k][2] \in 1..Len(cut[queue[p[k][1]]])
           /\ s[k] = cut[queue[p[k][1]]][p[k][2]] /\ p[k + 1] = After(cut, queue, p[k])
      /\ \A j, k \in 1..(n + 1) : j =< k => p[j][1] =< p[k][1]
  BY DEF Spelled
<1>3. place \in Nat \X Nat /\ n + 1 \in 1..(n + 1)
  BY <1>1, <1>2
<1>4. next \in Nat \X Nat /\ next[1] >= place[1]
  BY <1>3, AfterType
<1>. HIDE DEF n, t, next
<1>5. /\ q \in [1..(n + 2) -> Nat \X Nat]
      /\ q[n + 2] = next /\ \A k \in 1..(n + 1) : q[k] = p[k]
      /\ place = p[n + 1]
  BY <1>1, <1>2, <1>4 DEF n
<1>. HIDE DEF q
<1>6. ASSUME NEW k \in 1..(n + 1)
      PROVE  /\ q[k][1] \in 1..Len(queue) /\ q[k][2] \in 1..Len(cut[queue[q[k][1]]])
             /\ t[k] = cut[queue[q[k][1]]][q[k][2]] /\ q[k + 1] = After(cut, queue, q[k])
  <2>1. CASE k = n + 1
    <3>1. q[k] = place /\ t[k] = w /\ q[k + 1] = next
      BY <1>1, <1>5, <2>1
    <3>. QED  BY <3>1 DEF next
  <2>2. CASE k # n + 1
    <3>1. k \in 1..n /\ k + 1 \in 1..(n + 1)
      BY <1>1, <2>2
    <3>2. q[k] = p[k] /\ t[k] = s[k] /\ q[k + 1] = p[k + 1]
      BY <1>1, <1>5, <3>1
    <3>. QED  BY <1>2, <3>1, <3>2
  <2>. QED  BY <2>1, <2>2
<1>7. ASSUME NEW j \in 1..(n + 2), NEW k \in 1..(n + 2), j =< k
      PROVE  q[j][1] =< q[k][1]
  <2>1. CASE k = n + 2 /\ j # n + 2
    <3>1. j \in 1..(n + 1) /\ n + 1 \in 1..(n + 1) /\ j =< n + 1
      BY <1>1, <1>7, <2>1
    <3>2. p[j][1] =< place[1] /\ p[j][1] \in Nat /\ place[1] \in Nat /\ next[1] \in Nat
      BY <1>2, <1>3, <1>4, <1>5, <3>1
    <3>. QED  BY <1>4, <1>5, <2>1, <3>1, <3>2
  <2>2. CASE k # n + 2
    <3>0. n \in Nat /\ j \in 1..(n + 2) /\ k \in 1..(n + 2) /\ j =< k /\ k # n + 2
      BY <1>1, <1>7, <2>2
    <3>1. j \in 1..(n + 1) /\ k \in 1..(n + 1)
      BY <3>0
    <3>. QED  BY <1>2, <1>5, <1>7, <3>1
  <2>3. CASE j = n + 2
    <3>1. k = j
      BY <1>1, <1>7, <2>3
    <3>2. q[k][1] \in Nat
      BY <1>4, <1>5, <2>3, <3>1
    <3>. QED  BY <3>1, <3>2
  <2>. QED  BY <2>1, <2>2, <2>3
<1>8. Spelled(cut, queue, q, t)
  <2>1. Len(t) = n + 1 /\ (n + 1) + 1 = n + 2
    BY <1>1
  <2>. QED  BY <1>5, <1>6, <1>7, <2>1 DEF Spelled
<1>9. q[1] = p[1] /\ q[Len(s) + 2] = After(cut, queue, place)
  BY <1>1, <1>5 DEF n, next
<1>. QED  BY <1>8, <1>9 DEF t

(* An item that joins the queue leaves the words where they are. *)
LEMMA SpelledJoin ==
  ASSUME NEW cut, NEW T, NEW queue \in Seq(T), NEW e \in T, NEW s, NEW p, Spelled(cut, queue, p, s)
  PROVE  Spelled(cut, Append(queue, e), p, s)
<1>1. /\ Len(Append(queue, e)) = Len(queue) + 1 /\ Len(queue) \in Nat
      /\ \A i \in 1..Len(queue) : Append(queue, e)[i] = queue[i]
  OBVIOUS
<1>. DEFINE longer == Append(queue, e)
<1>. HIDE DEF longer
<1>2. ASSUME NEW k \in 1..Len(s)
      PROVE  /\ p[k][1] \in 1..Len(longer) /\ longer[p[k][1]] = queue[p[k][1]]
  <2>1. p[k][1] \in 1..Len(queue)
    BY DEF Spelled
  <2>. QED  BY <1>1, <2>1 DEF longer
<1>3. ASSUME NEW k \in 1..Len(s)
      PROVE  After(cut, longer, p[k]) = After(cut, queue, p[k])
  BY <1>2 DEF After
<1>4. Spelled(cut, longer, p, s)
  BY <1>2, <1>3 DEF Spelled
<1>. QED  BY <1>4 DEF longer

(* A word read leaves the places of the others. *)
LEMMA SpelledRead ==
  ASSUME NEW cut, NEW queue, NEW W, NEW s \in Seq(W), s # <<>>, NEW p, Spelled(cut, queue, p, s)
  PROVE  Spelled(cut, queue, [k \in 1..Len(s) |-> p[k + 1]], Tail(s))
<1>. DEFINE n == Len(Tail(s))
            q == [k \in 1..Len(s) |-> p[k + 1]]
            t == Tail(s)
<1>1. /\ n \in Nat /\ Len(s) = n + 1 /\ \A k \in 1..n : t[k] = s[k + 1]
  OBVIOUS
<1>2. n = Len(t)
  OBVIOUS
<1>. HIDE DEF n, t
<1>3. /\ p \in [1..(n + 2) -> Nat \X Nat]
      /\ \A k \in 1..(n + 1) :
           /\ p[k][1] \in 1..Len(queue) /\ p[k][2] \in 1..Len(cut[queue[p[k][1]]])
           /\ s[k] = cut[queue[p[k][1]]][p[k][2]] /\ p[k + 1] = After(cut, queue, p[k])
      /\ \A j, k \in 1..(n + 2) : j =< k => p[j][1] =< p[k][1]
  <2>1. Len(s) + 1 = n + 2
    BY <1>1
  <2>. QED  BY <1>1, <2>1 DEF Spelled
<1>4. /\ q \in [1..(n + 1) -> Nat \X Nat]
      /\ \A k \in 1..(n + 1) : q[k] = p[k + 1] /\ k + 1 \in 1..(n + 2)
  BY <1>1, <1>3
<1>. HIDE DEF q
<1>5. \A k \in 1..n : k + 1 \in 1..(n + 1) /\ k \in 1..(n + 1)
  BY <1>1
<1>6. ASSUME NEW k \in 1..n
      PROVE  /\ q[k][1] \in 1..Len(queue) /\ q[k][2] \in 1..Len(cut[queue[q[k][1]]])
             /\ t[k] = cut[queue[q[k][1]]][q[k][2]] /\ q[k + 1] = After(cut, queue, q[k])
  BY <1>1, <1>3, <1>4, <1>5
<1>7. ASSUME NEW j \in 1..(n + 1), NEW k \in 1..(n + 1), j =< k
      PROVE  q[j][1] =< q[k][1]
  <2>1. j + 1 =< k + 1
    BY <1>1, <1>7
  <2>. QED  BY <1>3, <1>4, <2>1
<1>8. Spelled(cut, queue, q, t)
  BY <1>2, <1>4, <1>6, <1>7 DEF Spelled
<1>. QED  BY <1>8 DEF q, t

(* An item all of whose words have been read leaves the queue. *)
LEMMA SpelledDone ==
  ASSUME NEW cut, NEW T, NEW queue \in Seq(T), queue # <<>>, NEW W, NEW s \in Seq(W), NEW p,
         Spelled(cut, queue, p, s), p[1][1] = 2
  PROVE  Spelled(cut, Tail(queue), [k \in 1..(Len(s) + 1) |-> <<p[k][1] - 1, p[k][2]>>], s)
<1>. DEFINE n == Len(s)
            q == [k \in 1..(n + 1) |-> <<p[k][1] - 1, p[k][2]>>]
            rest == Tail(queue)
<1>1. /\ n \in Nat /\ Len(queue) \in Nat /\ Len(rest) = Len(queue) - 1
      /\ \A i \in 1..(Len(queue) - 1) : rest[i] = queue[i + 1]
  OBVIOUS
<1>. HIDE DEF rest
<1>2. /\ p \in [1..(n + 1) -> Nat \X Nat]
      /\ \A k \in 1..n :
           /\ p[k][1] \in 1..Len(queue) /\ p[k][2] \in 1..Len(cut[queue[p[k][1]]])
           /\ s[k] = cut[queue[p[k][1]]][p[k][2]] /\ p[k + 1] = After(cut, queue, p[k])
      /\ \A j, k \in 1..(n + 1) : j =< k => p[j][1] =< p[k][1]
  BY DEF Spelled
<1>. HIDE DEF n
<1>3. ASSUME NEW k \in 1..(n + 1)
      PROVE  /\ p[k][1] \in Nat /\ p[k][1] >= 2 /\ p[k][2] \in Nat
             /\ q[k] = <<p[k][1] - 1, p[k][2]>>
  <2>1. 1 \in 1..(n + 1) /\ 1 =< k
    BY <1>1
  <2>2. p[1][1] =< p[k][1]
    BY <1>2, <2>1
  <2>3. p[k][1] \in Nat /\ p[k][2] \in Nat
    BY <1>2
  <2>. QED  BY <2>2, <2>3
<1>4. q \in [1..(n + 1) -> Nat \X Nat]
  <2>1. ASSUME NEW k \in 1..(n + 1)
        PROVE  <<p[k][1] - 1, p[k][2]>> \in Nat \X Nat
    <3>1. PICK a \in Nat : a = p[k][1] /\ a >= 2
      BY <1>3
    <3>2. a - 1 \in Nat
      BY <3>1
    <3>3. p[k][1] - 1 \in Nat /\ p[k][2] \in Nat
      BY <1>3, <3>1, <3>2
    <3>. QED  BY <3>3
  <2>. QED  BY <2>1
<1>. HIDE DEF q
<1>5. ASSUME NEW k \in 1..n
      PROVE  /\ q[k][1] \in 1..Len(rest) /\ q[k][2] \in 1..Len(cut[rest[q[k][1]]])
             /\ s[k] = cut[rest[q[k][1]]][q[k][2]] /\ q[k + 1] = After(cut, rest, q[k])
  <2>1. k \in 1..(n + 1) /\ k + 1 \in 1..(n + 1)
    BY <1>1
  <2>2. PICK a \in Nat, i \in Nat : a = p[k][1] /\ i = p[k][2]
    BY <1>3, <2>1
  <2>3. /\ a \in 1..Len(queue) /\ a >= 2 /\ i \in 1..Len(cut[queue[a]])
        /\ s[k] = cut[queue[a]][i] /\ q[k] = <<a - 1, i>>
    BY <1>2, <1>3, <2>1, <2>2
  <2>4. a - 1 \in 1..Len(rest) /\ rest[a - 1] = queue[a]
    <3>1. a - 1 \in 1..(Len(queue) - 1) /\ (a - 1) + 1 = a
      BY <1>1, <2>3
    <3>. QED  BY <1>1, <3>1
  <2>5. /\ q[k][1] = a - 1 /\ q[k][2] = i
    BY <2>3
  <2>6. q[k + 1] = After(cut, rest, q[k])
    <3>1. p[k + 1] = IF i = Len(cut[queue[a]]) THEN <<a + 1, 1>> ELSE <<a, i + 1>>
      BY <1>2, <2>2 DEF After
    <3>2. q[k + 1] = <<p[k + 1][1] - 1, p[k + 1][2]>>
      BY <1>3, <2>1
    <3>3. After(cut, rest, q[k]) = IF i = Len(cut[queue[a]]) THEN <<(a - 1) + 1, 1>>
                                                            ELSE <<a - 1, i + 1>>
      BY <2>4, <2>5 DEF After
    <3>4. (a + 1) - 1 = (a - 1) + 1
      BY <2>2
    <3>5. CASE i = Len(cut[queue[a]])
      <4>1. p[k + 1] = <<a + 1, 1>>
        BY <3>1, <3>5
      <4>2. q[k + 1] = <<(a + 1) - 1, 1>>
        BY <3>2, <4>1
      <4>. QED  BY <3>3, <3>4, <3>5, <4>2
    <3>6. CASE i # Len(cut[queue[a]])
      <4>1. p[k + 1] = <<a, i + 1>>
        BY <3>1, <3>6
      <4>2. q[k + 1] = <<a - 1, i + 1>>
        BY <3>2, <4>1
      <4>. QED  BY <3>3, <3>6, <4>2
    <3>. QED  BY <3>5, <3>6
  <2>. QED  BY <2>3, <2>4, <2>5, <2>6
<1>6. ASSUME NEW j \in 1..(n + 1), NEW k \in 1..(n + 1), j =< k
      PROVE  q[j][1] =< q[k][1]
  <2>1. p[j][1] =< p[k][1]
    BY <1>2, <1>6
  <2>2. q[j][1] = p[j][1] - 1 /\ q[k][1] = p[k][1] - 1
    BY <1>3
  <2>. QED  BY <1>3, <2>1, <2>2
<1>7. Spelled(cut, rest, q, s)
  BY <1>4, <1>5, <1>6 DEF Spelled, n
<1>. QED  BY <1>7 DEF q, rest, n
=============================================================================
