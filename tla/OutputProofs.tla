---------------------------- MODULE OutputProofs ----------------------------
(***************************************************************************)
(* Proofs about the processes at the outputs of the design.  The one that  *)
(* merges the notifications delivers every one of them whole, once and in  *)
(* its module's order, for any modules, depths and numbers of              *)
(* notifications.  The TCP consumer, one of the modules, answers every     *)
(* packet on its own words, for every length of packet and every session.  *)
(* The arbiter, which merges the trigger commands, keeps every packet      *)
(* whole and serves every bus, for any number of buses and any depths.     *)
(***************************************************************************)
EXTENDS ArbiterSystem, TcpConsumerSystem, NotificationsSystem, HlsStreamProofs

(* The word of index i cut from a notification taken. *)
Cut(taken, i) ==
  [source |-> taken[1], id |-> taken[2], index |-> i, last |-> i = LastIndex(taken[1])]

Taken == Sources \X Ids

(* The words of each notification, in their order. *)
NoticeWords == [taken \in Taken |-> [i \in 1..LastIndex(taken[1]) |-> Cut(taken, i)]]

(* The place of the word p_broadcast_notifications writes next. *)
Place ==
  CASE current_state = "IDLE"  -> <<Len(line) + 1, 1>>
    [] current_state = "WORD1" -> <<Len(line), 1>>
    [] current_state = "WORD2" -> <<Len(line), 2>>
    [] current_state = "WORD3" -> <<Len(line), 3>>

(* The words in the DMA channel continue those the host has, up to the one *)
(* written next.                                                           *)
WordsInPlace ==
  \E p : /\ Spelled(NoticeWords, line, p, conf_out)
        /\ p[1] = <<1, Len(packet) + 1>> /\ p[Len(conf_out) + 1] = Place

(* The host holds the first words of the oldest notification in the line,  *)
(* never all of them.                                                      *)
HostHolds ==
  packet # <<>> =>
    /\ line # <<>> /\ Len(packet) < LastIndex(line[1][1])
    /\ \A k \in 1..Len(packet) : packet[k] = Cut(line[1], k)

(* The notification being written is the newest of the line, and a third   *)
(* word is written only of one that has three.                             *)
WritesNewest ==
  current_state # "IDLE" =>
    /\ line # <<>> /\ line[Len(line)] = <<input_type, notif>>
    /\ current_state = "WORD3" => LastIndex(input_type) = 3

NotificationsInv == TypeOK /\ WordsInPlace /\ HostHolds /\ WritesNewest

LEMMA Depths == InDepth \in Nat /\ OutDepth \in Nat
BY NotificationsSystemAssumption, NotificationsAssumption

LEMMA LastIndexes == ASSUME NEW s PROVE LastIndex(s) \in {2, 3}
BY DEF LastIndex

LEMMA WordsOfNotice ==
  ASSUME NEW taken \in Taken
  PROVE  /\ Len(NoticeWords[taken]) = LastIndex(taken[1])
         /\ \A i \in 1..LastIndex(taken[1]) : NoticeWords[taken][i] = Cut(taken, i)
<1>1. LastIndex(taken[1]) \in Nat
  BY LastIndexes
<1>. QED  BY <1>1 DEF NoticeWords
-----------------------------------------------------------------------------
LEMMA NotificationsInitInv == Init => NotificationsInv
<1>. SUFFICES ASSUME Init
              PROVE  NotificationsInv
  OBVIOUS
<1>1. TypeOK
  <2>1. 0 \in Ids
    BY NotificationsAssumption
  <2>. QED  BY <2>1, Depths DEF Init, LocalInit, TypeOK, IsBus, IsStream
<1>2. WordsInPlace
  <2>. DEFINE p == [k \in 1..1 |-> <<1, 1>>]
  <2>1. Len(conf_out) = 0 /\ Len(line) = 0 /\ Len(packet) = 0 /\ current_state = "IDLE"
    BY DEF Init, LocalInit
  <2>2. p \in [1..(Len(conf_out) + 1) -> Nat \X Nat] /\ p[1] = <<1, 1>>
    BY <2>1
  <2>. HIDE DEF p
  <2>3. Spelled(NoticeWords, line, p, conf_out)
    BY <2>1, <2>2 DEF Spelled
  <2>4. Place = <<1, 1>>
    BY <2>1 DEF Place
  <2>. QED  BY <2>1, <2>2, <2>3, <2>4 DEF WordsInPlace
<1>3. HostHolds /\ WritesNewest
  BY DEF Init, LocalInit, HostHolds, WritesNewest
<1>. QED  BY <1>1, <1>2, <1>3 DEF NotificationsInv

(* What holds of the line and of what the host has does not depend on what *)
(* a module posts.                                                         *)
LEMMA NotifyStep ==
  ASSUME NotificationsInv, NEW s \in Sources, Notify(s)
  PROVE  NotificationsInv'
<1>1. PICK id \in Ids : notifs_in' = [notifs_in EXCEPT ![s] = Append(@, id)]
  BY DEF Notify
<1>2. IsBus(notifs_in', Sources, Ids, InDepth)
  BY <1>1, WriteBus, Depths DEF Notify, NotificationsInv, TypeOK
<1>3. UNCHANGED <<conf_out, current_state, input_type, notif, packet, received, line>>
  BY DEF Notify, notificationsVars, hostVars
<1>4. TypeOK'
  BY <1>2, <1>3 DEF NotificationsInv, TypeOK
<1>5. WordsInPlace' /\ HostHolds' /\ WritesNewest'
  BY <1>3 DEF NotificationsInv, WordsInPlace, Place, HostHolds, WritesNewest
<1>. QED  BY <1>4, <1>5 DEF NotificationsInv

LEMMA TakeStep ==
  ASSUME NotificationsInv, NEW s \in Sources, Take(s), Broadcast
  PROVE  /\ NotificationsInv'
         /\ line' = Append(line, <<s, Head(notifs_in[s])>>)
<1>. DEFINE e == <<s, Head(notifs_in[s])>>
<1>1. /\ notifs_in[s] # <<>> /\ notifs_in' = [notifs_in EXCEPT ![s] = Tail(@)]
      /\ input_type' = s /\ notif' = Head(notifs_in[s])
      /\ current_state = "IDLE" /\ current_state' = "WORD1"
      /\ UNCHANGED <<conf_out, packet, received>>
  BY DEF Take, Broadcast, hostVars
<1>2. IsStream(notifs_in[s], Ids, InDepth)
  BY BusStream DEF NotificationsInv, TypeOK
<1>3. Head(notifs_in[s]) \in Ids /\ IsBus(notifs_in', Sources, Ids, InDepth)
  BY <1>1, <1>2, ReadStream, ReadBus, Depths DEF NotificationsInv, TypeOK
<1>4. e \in Taken
  BY <1>3 DEF Taken
<1>5. line' = Append(line, e) /\ line \in Seq(Taken) /\ e = <<input_type', notif'>>
  BY <1>1 DEF Broadcast, NotificationsInv, TypeOK, Taken
<1>. HIDE DEF e
<1>6. /\ line' \in Seq(Taken) /\ Len(line') = Len(line) + 1 /\ Len(line) \in Nat
      /\ line'[Len(line')] = e /\ \A i \in 1..Len(line) : line'[i] = line[i]
  BY <1>4, <1>5
<1>7. TypeOK'
  BY <1>1, <1>3, <1>6 DEF NotificationsInv, TypeOK, Taken
<1>8. WordsInPlace'
  <2>1. PICK p : /\ Spelled(NoticeWords, line, p, conf_out)
                 /\ p[1] = <<1, Len(packet) + 1>> /\ p[Len(conf_out) + 1] = Place
    BY DEF NotificationsInv, WordsInPlace
  <2>2. Spelled(NoticeWords, line', p, conf_out)
    BY <1>4, <1>5, <2>1, SpelledJoin
  <2>3. Place' = Place
    BY <1>1, <1>6 DEF Place
  <2>. QED  BY <1>1, <2>1, <2>2, <2>3 DEF WordsInPlace
<1>9. HostHolds'
  <2>1. CASE line = <<>>
    BY <1>1, <2>1 DEF NotificationsInv, HostHolds
  <2>2. CASE line # <<>>
    <3>1. line'[1] = line[1] /\ line' # <<>>
      BY <1>5, <1>6, <2>2
    <3>. QED  BY <1>1, <3>1 DEF NotificationsInv, HostHolds
  <2>. QED  BY <2>1, <2>2
<1>10. WritesNewest'
  BY <1>1, <1>5, <1>6 DEF WritesNewest
<1>. QED  BY <1>5, <1>7, <1>8, <1>9, <1>10 DEF NotificationsInv, e

(* A word is written at its place, and the next one is at the place that   *)
(* follows or, after the last of its notification, at a new one.           *)
LEMMA WriteStep ==
  ASSUME NotificationsInv, Broadcast, WriteWord1 \/ WriteWord2 \/ WriteWord3
  PROVE  NotificationsInv' /\ UNCHANGED line
<1>. DEFINE place == Place
            w == Cut(<<input_type, notif>>, place[2])
<1>1. /\ current_state # "IDLE" /\ current_state \in {"WORD1", "WORD2", "WORD3"}
      /\ UNCHANGED <<notifs_in, input_type, notif, packet, received, line>>
      /\ CanWrite(conf_out, OutDepth)
  BY DEF Broadcast, WriteWord1, WriteWord2, WriteWord3, Write, hostVars
<1>2. /\ line \in Seq(Taken) /\ line # <<>> /\ line[Len(line)] = <<input_type, notif>>
      /\ Len(line) \in Nat /\ Len(line) >= 1
      /\ input_type \in Sources /\ notif \in Ids
  <2>1. /\ line \in Seq(Taken) /\ line # <<>> /\ line[Len(line)] = <<input_type, notif>>
    BY <1>1 DEF NotificationsInv, TypeOK, WritesNewest, Taken
  <2>2. Len(line) \in Nat /\ Len(line) >= 1
    BY <2>1
  <2>3. line[Len(line)] \in Taken
    BY <2>1, <2>2
  <2>. QED  BY <2>1, <2>2, <2>3 DEF Taken
<1>3. LastIndex(input_type) \in {2, 3}
  BY LastIndexes
<1>4. place[1] = Len(line) /\ place[2] \in 1..3 /\ place[2] =< LastIndex(input_type)
  BY <1>1, <1>3 DEF Place, NotificationsInv, WritesNewest
<1>5. /\ conf_out' = Append(conf_out, w)
      /\ current_state' = IF place[2] = LastIndex(input_type) THEN "IDLE"
                          ELSE IF place[2] = 1 THEN "WORD2" ELSE "WORD3"
  <2>1. CASE WriteWord1
    BY <1>2, <1>3, <2>1 DEF WriteWord1, Write, Place, Word, Cut
  <2>2. CASE WriteWord2
    BY <1>2, <1>3, <2>2 DEF WriteWord2, Write, Place, Word, Cut, LastIndex
  <2>3. CASE WriteWord3
    BY <1>1, <1>2, <1>3, <2>3 DEF WriteWord3, Write, Place, Word, Cut,
         NotificationsInv, WritesNewest
  <2>. QED  BY <2>1, <2>2, <2>3
<1>6. w \in DmaWord
  BY <1>2, <1>4 DEF Cut, DmaWord
<1>7. Place' = After(NoticeWords, line, place)
  <2>1. line[place[1]] \in Taken /\ line[place[1]][1] = input_type
    BY <1>2, <1>4
  <2>5. Len(NoticeWords[line[place[1]]]) = LastIndex(input_type)
    BY <2>1, WordsOfNotice
  <2>2. After(NoticeWords, line, place) = IF place[2] = LastIndex(input_type)
                             THEN <<Len(line) + 1, 1>> ELSE <<Len(line), place[2] + 1>>
    BY <1>4, <2>5 DEF After
  <2>3. CASE place[2] = LastIndex(input_type)
    BY <1>1, <1>5, <2>2, <2>3 DEF Place
  <2>4. CASE place[2] # LastIndex(input_type)
    <3>1. place[2] = 1 \/ place[2] = 2
      BY <1>3, <1>4, <2>4
    <3>2. CASE place[2] = 1
      <4>1. current_state' = "WORD2" /\ After(NoticeWords, line, place) = <<Len(line), 2>>
        BY <1>5, <2>2, <2>4, <3>2
      <4>. QED  BY <1>1, <4>1 DEF Place
    <3>3. CASE place[2] = 2
      <4>1. current_state' = "WORD3" /\ After(NoticeWords, line, place) = <<Len(line), 3>>
        BY <1>5, <2>2, <2>4, <3>3
      <4>. QED  BY <1>1, <4>1 DEF Place
    <3>. QED  BY <3>1, <3>2, <3>3
  <2>. QED  BY <2>3, <2>4
<1>8. /\ w = NoticeWords[line[place[1]]][place[2]] /\ place[1] \in 1..Len(line)
      /\ place[2] \in 1..Len(NoticeWords[line[place[1]]])
  <2>1. /\ line[place[1]] = <<input_type, notif>> /\ <<input_type, notif>> \in Taken
        /\ place[2] \in 1..LastIndex(input_type) /\ place[1] \in 1..Len(line)
    BY <1>2, <1>3, <1>4 DEF Taken
  <2>2. /\ Len(NoticeWords[<<input_type, notif>>]) = LastIndex(input_type)
        /\ NoticeWords[<<input_type, notif>>][place[2]] = Cut(<<input_type, notif>>, place[2])
    BY <2>1, WordsOfNotice
  <2>. QED  BY <2>1, <2>2
<1>. HIDE DEF w, place
<1>9. IsStream(conf_out', DmaWord, OutDepth) /\ Len(conf_out') = Len(conf_out) + 1
  BY <1>1, <1>5, <1>6, WriteStream, Depths DEF NotificationsInv, TypeOK
<1>10. WordsInPlace'
  <2>1. PICK p : /\ Spelled(NoticeWords, line, p, conf_out)
                 /\ p[1] = <<1, Len(packet) + 1>> /\ p[Len(conf_out) + 1] = place
    BY DEF NotificationsInv, WordsInPlace, place
  <2>2. conf_out \in Seq(DmaWord)
    BY DEF NotificationsInv, TypeOK, IsStream
  <2>3. \E q : /\ Spelled(NoticeWords, line, q, Append(conf_out, w)) /\ q[1] = p[1]
              /\ q[Len(conf_out) + 2] = After(NoticeWords, line, place)
    <3>1. /\ Len(line) \in Nat /\ conf_out \in Seq(DmaWord) /\ w \in DmaWord
          /\ Spelled(NoticeWords, line, p, conf_out) /\ place = p[Len(conf_out) + 1]
          /\ place[1] \in 1..Len(line) /\ place[2] \in 1..Len(NoticeWords[line[place[1]]])
          /\ w = NoticeWords[line[place[1]]][place[2]]
      BY <1>2, <1>6, <1>8, <2>1, <2>2
    <3>. QED  BY <3>1, SpelledWrite, SMTT(30)
  <2>4. (Len(conf_out) + 1) + 1 = Len(conf_out) + 2
    BY <2>2
  <2>7. PICK q : /\ Spelled(NoticeWords, line, q, Append(conf_out, w)) /\ q[1] = p[1]
                 /\ q[Len(conf_out) + 2] = After(NoticeWords, line, place)
    BY <2>3
  <2>5. q[Len(conf_out') + 1] = Place'
    BY <1>7, <1>9, <2>7, <2>4
  <2>6. Spelled(NoticeWords, line', q, conf_out') /\ q[1] = <<1, Len(packet') + 1>>
    BY <1>1, <1>5, <2>1, <2>7
  <2>. QED  BY <2>5, <2>6 DEF WordsInPlace
<1>11. TypeOK'
  <2>1. current_state' \in {"IDLE", "WORD1", "WORD2", "WORD3"}
    BY <1>5
  <2>. QED  BY <1>1, <1>9, <2>1 DEF NotificationsInv, TypeOK
<1>12. HostHolds'
  BY <1>1 DEF NotificationsInv, HostHolds
<1>13. WritesNewest'
  <2>1. current_state' = "WORD3" => LastIndex(input_type) = 3
    BY <1>3, <1>4, <1>5
  <2>. QED  BY <1>1, <1>2, <2>1 DEF WritesNewest
<1>. QED  BY <1>1, <1>10, <1>11, <1>12, <1>13 DEF NotificationsInv

(* The word the host reads continues those it has, and its last mark ends  *)
(* the notification: what it puts together then is the oldest of the line. *)
LEMMA ReadWord ==
  ASSUME NotificationsInv, HostReads
  PROVE  /\ conf_out \in Seq(DmaWord) /\ line \in Seq(Taken) /\ line # <<>>
         /\ packet \in Seq(DmaWord) /\ line[1] \in Taken
         /\ Head(conf_out) \in DmaWord
         /\ Head(conf_out) = Cut(line[1], Len(packet) + 1)
         /\ Len(packet) + 1 =< LastIndex(line[1][1])
         /\ \A k \in 1..Len(packet) : packet[k] = Cut(line[1], k)
<1>1. conf_out \in Seq(DmaWord) /\ packet \in Seq(DmaWord) /\ line \in Seq(Taken)
  BY DEF NotificationsInv, TypeOK, IsStream, Taken
<1>2. /\ conf_out # <<>> /\ Len(conf_out) \in Nat /\ Len(conf_out) >= 1
      /\ Head(conf_out) = conf_out[1] /\ Head(conf_out) \in DmaWord
  BY <1>1 DEF HostReads
<1>3. PICK p : Spelled(NoticeWords, line, p, conf_out) /\ p[1] = <<1, Len(packet) + 1>>
  BY DEF NotificationsInv, WordsInPlace
<1>4. 1 \in 1..Len(conf_out)
  BY <1>2
<1>8. /\ 1 \in 1..Len(line) /\ Len(packet) + 1 \in 1..Len(NoticeWords[line[1]])
      /\ conf_out[1] = NoticeWords[line[1]][Len(packet) + 1]
  BY <1>3, <1>4 DEF Spelled
<1>9. line[1] \in Taken
  BY <1>1, <1>8
<1>5. /\ 1 \in 1..Len(line) /\ Len(packet) + 1 =< LastIndex(line[1][1])
      /\ conf_out[1] = Cut(line[1], Len(packet) + 1)
  <2>1. Len(NoticeWords[line[1]]) = LastIndex(line[1][1])
    BY <1>9, WordsOfNotice
  <2>2. Len(packet) + 1 \in 1..LastIndex(line[1][1])
    BY <1>8, <2>1
  <2>. QED  BY <1>8, <1>9, <2>2, LastIndexes, WordsOfNotice
<1>6. line # <<>> /\ line[1] \in Taken
  BY <1>1, <1>5
<1>7. \A k \in 1..Len(packet) : packet[k] = Cut(line[1], k)
  <2>1. CASE packet = <<>>
    BY <2>1
  <2>2. CASE packet # <<>>
    BY <2>2 DEF NotificationsInv, HostHolds
  <2>. QED  BY <2>1, <2>2
<1>. QED  BY <1>1, <1>2, <1>5, <1>6, <1>7

(* A word that is not the last of its packet waits for the others. *)
LEMMA ReadMoreStep ==
  ASSUME NotificationsInv, HostReads, ~Head(conf_out).last
  PROVE  NotificationsInv' /\ UNCHANGED <<line, received, notifs_in>>
<1>. DEFINE w == Head(conf_out)
            m == Len(packet)
<1>1. /\ conf_out \in Seq(DmaWord) /\ line \in Seq(Taken) /\ line # <<>>
      /\ packet \in Seq(DmaWord) /\ line[1] \in Taken
      /\ w \in DmaWord /\ w = Cut(line[1], m + 1) /\ m + 1 =< LastIndex(line[1][1])
      /\ \A k \in 1..m : packet[k] = Cut(line[1], k)
  BY ReadWord
<1>2. /\ conf_out # <<>> /\ conf_out' = Tail(conf_out) /\ packet' = Append(packet, w)
      /\ UNCHANGED <<line, received, notifs_in, current_state, input_type, notif>>
      /\ ~w.last
  BY DEF HostReads, notificationsVars
<1>. HIDE DEF w
<1>3. /\ m \in Nat /\ Len(packet') = m + 1 /\ packet' \in Seq(DmaWord)
      /\ packet'[m + 1] = w /\ \A k \in 1..m : packet'[k] = packet[k]
  BY <1>1, <1>2
<1>. HIDE DEF m
<1>4. LastIndex(line[1][1]) \in {2, 3}
  BY LastIndexes
<1>5. m + 1 < LastIndex(line[1][1])
  <2>1. w.last = (m + 1 = LastIndex(line[1][1]))
    BY <1>1 DEF Cut
  <2>2. m + 1 # LastIndex(line[1][1])
    BY <1>2, <2>1
  <2>. QED  BY <1>1, <1>3, <1>4, <2>2
<1>6. IsStream(conf_out', DmaWord, OutDepth)
  BY <1>2, ReadStream, Depths DEF NotificationsInv, TypeOK
<1>7. TypeOK'
  <2>1. IsStream(packet', DmaWord, 2)
    BY <1>3, <1>4, <1>5 DEF IsStream
  <2>. QED  BY <1>2, <1>6, <2>1 DEF NotificationsInv, TypeOK
<1>8. HostHolds'
  <2>1. ASSUME NEW k \in 1..Len(packet')
        PROVE  packet'[k] = Cut(line[1], k)
    <3>1. CASE k = m + 1
      BY <1>1, <1>3, <3>1
    <3>2. CASE k # m + 1
      <4>1. k \in 1..m
        BY <1>3, <3>2
      <4>. QED  BY <1>1, <1>3, <4>1
    <3>. QED  BY <3>1, <3>2
  <2>2. Len(packet') < LastIndex(line[1][1])
    BY <1>3, <1>5
  <2>. QED  BY <1>1, <1>2, <2>1, <2>2 DEF HostHolds
<1>9. WordsInPlace'
  <2>1. PICK p : /\ Spelled(NoticeWords, line, p, conf_out)
                 /\ p[1] = <<1, m + 1>> /\ p[Len(conf_out) + 1] = Place
    BY DEF NotificationsInv, WordsInPlace, m
  <2>. DEFINE q == [k \in 1..Len(conf_out) |-> p[k + 1]]
  <2>2. Spelled(NoticeWords, line, q, Tail(conf_out))
    BY <1>1, <1>2, <2>1, SpelledRead
  <2>3. Len(conf_out) \in Nat /\ Len(conf_out) >= 1 /\ Len(Tail(conf_out)) = Len(conf_out) - 1
    BY <1>1, <1>2
  <2>4. q[1] = p[2] /\ q[Len(conf_out)] = p[Len(conf_out) + 1]
    BY <2>3
  <2>5. p[2] = <<1, (m + 1) + 1>>
    <3>1. p[2] = After(NoticeWords, line, p[1])
      <4>1. 1 \in 1..Len(conf_out) /\ 1 + 1 = 2
        BY <2>3
      <4>2. p[1 + 1] = After(NoticeWords, line, p[1])
        BY <2>1, <4>1 DEF Spelled
      <4>. QED  BY <4>1, <4>2
    <3>2. p[1][1] = 1 /\ p[1][2] = m + 1 /\ m + 1 # LastIndex(line[1][1])
      BY <1>3, <1>4, <1>5, <2>1
    <3>3. Len(NoticeWords[line[1]]) = LastIndex(line[1][1])
      BY <1>1, WordsOfNotice
    <3>. QED  BY <3>1, <3>2, <3>3 DEF After
  <2>. HIDE DEF q
  <2>6. q[Len(conf_out') + 1] = Place' /\ q[1] = <<1, Len(packet') + 1>>
    <3>1. Place' = Place
      BY <1>2 DEF Place
    <3>2. Len(conf_out') + 1 = Len(conf_out)
      BY <1>2, <2>3
    <3>. QED  BY <1>3, <2>1, <2>4, <2>5, <3>1, <3>2
  <2>. QED  BY <1>2, <2>2, <2>6 DEF WordsInPlace
<1>10. WritesNewest'
  BY <1>2 DEF NotificationsInv, WritesNewest
<1>. QED  BY <1>2, <1>7, <1>8, <1>9, <1>10 DEF NotificationsInv

(* The last word of a packet makes the host receive the oldest             *)
(* notification of the line.                                               *)
LEMMA ReadLastStep ==
  ASSUME NotificationsInv, HostReads, Head(conf_out).last
  PROVE  /\ NotificationsInv' /\ line # <<>> /\ line' = Tail(line)
         /\ received' = Head(line) /\ UNCHANGED notifs_in
<1>. DEFINE w == Head(conf_out)
            m == Len(packet)
            all == Append(packet, w)
<1>1. /\ conf_out \in Seq(DmaWord) /\ line \in Seq(Taken) /\ line # <<>>
      /\ packet \in Seq(DmaWord) /\ line[1] \in Taken
      /\ w \in DmaWord /\ w = Cut(line[1], m + 1) /\ m + 1 =< LastIndex(line[1][1])
      /\ \A k \in 1..m : packet[k] = Cut(line[1], k)
  BY ReadWord
<1>2. /\ conf_out # <<>> /\ conf_out' = Tail(conf_out) /\ packet' = <<>> /\ line' = Tail(line)
      /\ UNCHANGED <<notifs_in, current_state, input_type, notif>>
      /\ received' = (IF IsMessage(all) THEN <<all[1].source, all[1].id>> ELSE <<"corrupted">>)
      /\ w.last
  BY DEF HostReads, notificationsVars
<1>3. /\ m \in Nat /\ Len(all) = m + 1
      /\ all[m + 1] = w /\ \A k \in 1..m : all[k] = packet[k]
  BY <1>1
<1>. HIDE DEF w, all, m
<1>4. LastIndex(line[1][1]) \in {2, 3}
  BY LastIndexes
<1>5. m + 1 = LastIndex(line[1][1])
  BY <1>1, <1>2 DEF Cut
<1>6. ASSUME NEW k \in 1..(m + 1)
      PROVE  all[k] = Cut(line[1], k)
  <2>1. CASE k = m + 1
    BY <1>1, <1>3, <2>1
  <2>2. CASE k # m + 1
    <3>1. k \in 1..m
      BY <1>3, <2>2
    <3>. QED  BY <1>1, <1>3, <3>1
  <2>. QED  BY <2>1, <2>2
<1>7. received' = Head(line)
  <2>1. 1 \in 1..(m + 1)
    BY <1>3
  <2>2. ASSUME NEW k \in 1..(m + 1)
        PROVE  all[k].index = k /\ all[k].source = line[1][1] /\ all[k].id = line[1][2]
    <3>1. all[k] = Cut(line[1], k)
      BY <1>6
    <3>. QED  BY <3>1 DEF Cut
  <2>8. all[1].source = line[1][1] /\ all[1].id = line[1][2]
    BY <2>1, <2>2
  <2>3. ASSUME NEW k \in 1..(m + 1)
        PROVE  all[k].index = k /\ all[k].source = all[1].source /\ all[k].id = all[1].id
    BY <2>2, <2>8
  <2>4. IsMessage(all)
    BY <1>3, <1>5, <2>8, <2>3 DEF IsMessage
  <2>5. received' = <<line[1][1], line[1][2]>>
    BY <1>2, <2>8, <2>4
  <2>6. <<line[1][1], line[1][2]>> = line[1]
    BY <1>1 DEF Taken
  <2>7. Head(line) = line[1]
    BY <1>1
  <2>. QED  BY <2>5, <2>6, <2>7
<1>8. IsStream(conf_out', DmaWord, OutDepth)
  BY <1>2, ReadStream, Depths DEF NotificationsInv, TypeOK
<1>9. /\ Len(line) \in Nat /\ Len(line) >= 1 /\ line' \in Seq(Taken) /\ Len(line') = Len(line) - 1
      /\ \A i \in 1..(Len(line) - 1) : line'[i] = line[i + 1]
  BY <1>1, <1>2
<1>10. TypeOK'
  <2>1. IsStream(packet', DmaWord, 2) /\ line' \in Seq(Sources \X Ids)
    BY <1>2, <1>9 DEF IsStream, Taken
  <2>. QED  BY <1>2, <1>8, <2>1 DEF NotificationsInv, TypeOK
<1>11. HostHolds'
  BY <1>2 DEF HostHolds
<1>12. PICK p : /\ Spelled(NoticeWords, line, p, conf_out)
                /\ p[1] = <<1, m + 1>> /\ p[Len(conf_out) + 1] = Place
  BY DEF NotificationsInv, WordsInPlace, m
<1>13. /\ Len(conf_out) \in Nat /\ Len(conf_out) >= 1 /\ Len(Tail(conf_out)) = Len(conf_out) - 1
       /\ Tail(conf_out) \in Seq(DmaWord)
  BY <1>1, <1>2
<1>14. p[2] = <<2, 1>>
  <2>1. p[2] = After(NoticeWords, line, p[1])
    <3>1. 1 \in 1..Len(conf_out) /\ 1 + 1 = 2
      BY <1>13
    <3>2. p[1 + 1] = After(NoticeWords, line, p[1])
      BY <1>12, <3>1 DEF Spelled
    <3>. QED  BY <3>1, <3>2
  <2>2. Len(NoticeWords[line[1]]) = LastIndex(line[1][1])
    BY <1>1, WordsOfNotice
  <2>. QED  BY <1>5, <1>12, <2>1, <2>2 DEF After
<1>15. current_state # "IDLE" => Len(line) >= 2
  <2>1. 2 \in 1..(Len(conf_out) + 1) /\ Len(conf_out) + 1 \in 1..(Len(conf_out) + 1)
        /\ 2 =< Len(conf_out) + 1
    BY <1>13
  <2>2. p[2][1] =< p[Len(conf_out) + 1][1]
    BY <1>12, <2>1 DEF Spelled
  <2>. QED  BY <1>12, <1>14, <2>2 DEF Place, NotificationsInv, TypeOK
<1>16. WordsInPlace'
  <2>. DEFINE q == [k \in 1..Len(conf_out) |-> p[k + 1]]
              r == [k \in 1..(Len(Tail(conf_out)) + 1) |-> <<q[k][1] - 1, q[k][2]>>]
  <2>1. Spelled(NoticeWords, line, q, Tail(conf_out))
    BY <1>1, <1>2, <1>12, SpelledRead
  <2>2. q[1] = <<2, 1>> /\ q[Len(conf_out)] = Place
    BY <1>12, <1>13, <1>14
  <2>. HIDE DEF q
  <2>3. Spelled(NoticeWords, Tail(line), r, Tail(conf_out))
    <3>1. q[1][1] = 2
      BY <2>2
    <3>. QED  BY <1>1, <1>13, <2>1, <3>1, SpelledDone
  <2>4. r[1] = <<2 - 1, 1>> /\ r[Len(conf_out)] = <<Place[1] - 1, Place[2]>>
    BY <1>13, <2>2
  <2>. HIDE DEF r
  <2>5. Place' = <<Place[1] - 1, Place[2]>>
    BY <1>2, <1>9 DEF Place, NotificationsInv, TypeOK
  <2>6. r[Len(conf_out') + 1] = Place'
    <3>1. Len(conf_out') + 1 = Len(conf_out)
      BY <1>2, <1>13
    <3>. QED  BY <2>4, <2>5, <3>1
  <2>7. r[1] = <<1, Len(packet') + 1>>
    BY <1>2, <2>4
  <2>. QED  BY <1>2, <2>3, <2>6, <2>7 DEF WordsInPlace
<1>17. WritesNewest'
  <2>1. CASE current_state = "IDLE"
    BY <1>2, <2>1 DEF WritesNewest
  <2>2. CASE current_state # "IDLE"
    <3>1. line[Len(line)] = <<input_type, notif>> /\ Len(line) >= 2
          /\ (current_state = "WORD3" => LastIndex(input_type) = 3)
      BY <1>15, <2>2 DEF NotificationsInv, WritesNewest
    <3>2. Len(line') \in 1..(Len(line) - 1) /\ Len(line') + 1 = Len(line)
      BY <1>9, <3>1
    <3>3. line'[Len(line')] = line[Len(line)] /\ line' # <<>>
      BY <1>9, <3>2
    <3>. QED  BY <1>2, <3>1, <3>3 DEF WritesNewest
  <2>. QED  BY <2>1, <2>2
<1>. QED  BY <1>1, <1>2, <1>7, <1>10, <1>11, <1>16, <1>17 DEF NotificationsInv
-----------------------------------------------------------------------------
LEMMA NotificationsStep ==
  ASSUME NotificationsInv, [Next]_vars
  PROVE  NotificationsInv'
<1>1. CASE \E s \in Notifying : Notify(s)
  BY <1>1, NotifyStep, NotificationsSystemAssumption
<1>2. CASE Broadcast
  BY <1>2, TakeStep, WriteStep DEF Broadcast, p_broadcast_notifications
<1>3. CASE HostReads
  BY <1>3, ReadMoreStep, ReadLastStep
<1>4. CASE UNCHANGED vars
  BY <1>4 DEF vars, notificationsVars, hostVars, NotificationsInv, TypeOK, WordsInPlace,
       Place, HostHolds, WritesNewest
<1>. QED  BY <1>1, <1>2, <1>3, <1>4 DEF Next

LEMMA NotificationsInvariant == Spec => []NotificationsInv
BY NotificationsInitInv, NotificationsStep, PTL DEF Spec

(* No stream of the notifications overflows, and the host never has to     *)
(* hold more than two words of a notification it has not received: every   *)
(* packet it is sent ends in time, whatever the modules and the depths.    *)
THEOREM NotificationsTyped == Spec => []TypeOK
<1>1. NotificationsInv => TypeOK
  BY DEF NotificationsInv
<1>. QED  BY <1>1, NotificationsInvariant, PTL

(* The host receives every notification of every module, whole, once and   *)
(* in its module's order: the words of p_broadcast_notifications implement *)
(* the channel, for any modules, notifications and depths.                 *)
THEOREM Delivers == Spec => ImplementsChannel
<1>1. Init => Channel!Init
  BY DEF Init, Channel!Init
<1>2. NotificationsInv /\ [Next]_vars => [Channel!Next]_<<notifs_in, line, received>>
  <2>. SUFFICES ASSUME NotificationsInv, [Next]_vars
                PROVE  Channel!Next \/ UNCHANGED <<notifs_in, line, received>>
    OBVIOUS
  <2>1. ASSUME NEW s \in Notifying, Notify(s)
        PROVE  Channel!Post(s)
    BY <2>1 DEF Notify, Channel!Post, hostVars
  <2>2. ASSUME NEW s \in Sources, Take(s), Broadcast
        PROVE  Channel!Take(s)
    BY <2>2, TakeStep DEF Take, Broadcast, Channel!Take, hostVars
  <2>3. CASE Broadcast /\ (WriteWord1 \/ WriteWord2 \/ WriteWord3)
    BY <2>3, WriteStep DEF Broadcast, WriteWord1, WriteWord2, WriteWord3, Write, hostVars
  <2>4. CASE HostReads /\ Head(conf_out).last
    BY <2>4, ReadLastStep DEF Channel!Next, Channel!Deliver
  <2>5. CASE HostReads /\ ~Head(conf_out).last
    BY <2>5, ReadMoreStep
  <2>6. CASE UNCHANGED vars
    BY <2>6 DEF vars, hostVars
  <2>. QED
    BY <2>1, <2>2, <2>3, <2>4, <2>5, <2>6, NotificationsSystemAssumption
    DEF Next, Broadcast, p_broadcast_notifications, Channel!Next
<1>. QED
  BY <1>1, <1>2, NotificationsInvariant, PTL DEF Spec, ImplementsChannel, Channel!Spec

-----------------------------------------------------------------------------
(* The depth of the streams is a natural number. *)
LEMMA TcpDepthType == StreamDepth \in Nat
BY TcpConsumerAssumption

(* The session of a word fits in 8 bits. *)
LEMMA SessionType ==
  ASSUME TcpTypeOK, NEW word \in tcp_reply_payload
  PROVE  word.id % 2^8 \in 0..255 /\ Session(word) \in 0..255
<1>0. 2^20 \in Nat
  BY SMT
<1>1. word.id \in Nat
  <2>1. word.id \in 0..(2^20 - 1)
    BY TcpConsumerAssumption DEF tcp_reply_payload
  <2>. QED  BY <1>0, <2>1, SMT
<1>2. 2^8 = 256
  OBVIOUS
<1>3. word.id % 2^8 \in 0..255
  BY <1>1, <1>2
<1>. QED  BY <1>3 DEF Session, TcpTypeOK

(* Type correctness: no stream overflows, and what is to be written is a   *)
(* command or a notification according to where the process is.            *)
LEMMA TcpTypeStep ==
  ASSUME TcpTypeOK, [TcpNext]_tcpSystemVars
  PROVE  TcpTypeOK'
<1>. USE TcpDepthType DEF TcpTypeOK
<1>1. CASE Send
  <2>. USE <1>1 DEF Send
  <2>1. PICK word \in tcp_reply_payload : tcp_replies_in' = Append(tcp_replies_in, word)
    OBVIOUS
  <2>2. IsStream(tcp_replies_in, tcp_reply_payload, StreamDepth)'
    BY <2>1, WriteStream
  <2>. QED  BY <2>2 DEF tcpVars
<1>2. CASE ReadReply /\ Consume
  <2>. USE <1>2 DEF ReadReply
  <2>1. /\ IsStream(tcp_replies_in, tcp_reply_payload, StreamDepth)'
        /\ Head(tcp_replies_in) \in tcp_reply_payload
    BY ReadStream
  <2>. DEFINE word == Head(tcp_replies_in)
  <2>2. Session(word) \in 0..255
    BY <2>1, SessionType
  <2>3. word.offset \in Offsets
    BY <2>1 DEF tcp_reply_payload
  <2>. HIDE DEF word
  <2>4. words' \in Nat /\ bytes' \in Nat /\ session' \in 0..255
    BY <2>2 DEF word
  <2>5. /\ tcp_at' \in {"read", "trigger", "notify"}
        /\ tcp_at' = "trigger" => tcp_sending' \in Command
        /\ tcp_at' = "notify" => tcp_sending' \in Nat \X Nat \X (0..255)
    BY <2>2, <2>3 DEF word, flat_popcount, Command
  <2>. QED  BY <2>1, <2>4, <2>5
<1>3. CASE WriteTrigger /\ Consume
  BY <1>3, WriteStream DEF WriteTrigger
<1>4. CASE WriteNotification /\ Consume
  BY <1>4, WriteStream DEF WriteNotification
<1>5. CASE TakeCommand
  BY <1>5, ReadStream DEF TakeCommand, tcpVars
<1>6. CASE TakeNotification
  BY <1>6, ReadStream DEF TakeNotification, tcpVars
<1>7. CASE UNCHANGED tcpSystemVars
  BY <1>7 DEF tcpSystemVars, tcpVars
<1>. QED  BY <1>1, <1>2, <1>3, <1>4, <1>5, <1>6, <1>7 DEF TcpNext, Consume, p_consume_tcp

(* The invariant JustAnswer needs: the count and the session are those of  *)
(* the packet being read, and start anew with it.                          *)
Counted ==
  /\ read \in Seq(tcp_reply_payload)
  /\ words = IF read = <<>> \/ Ended THEN 0 ELSE Len(read)
  /\ words # 0 => session = read[1].id % 2^8

(* What Counted says once the next word has been read, and what the process *)
(* then decides.                                                           *)
LEMMA CountedRead ==
  ASSUME TcpTypeOK, Counted, ReadReply, Consume
  PROVE  /\ Counted'
         /\ read'[Len(read')] = Head(tcp_replies_in)
         /\ Len(read') = words + 1
         /\ Session(Head(tcp_replies_in)) = read'[1].id % 2^8
         /\ Ended' <=> Head(tcp_replies_in).last
<1>. DEFINE word == Head(tcp_replies_in)
<1>. USE TcpDepthType
<1>1. word \in tcp_reply_payload
  BY ReadStream DEF TcpTypeOK, ReadReply
<1>2. read' = IF Ended THEN <<word>> ELSE Append(read, word)
  BY DEF Consume, ReadReply
<1>. HIDE DEF word
<1>3. CASE read = <<>> \/ Ended
  <2>1. words = 0
    BY <1>3 DEF Counted
  <2>2. read' = <<word>>
    BY <1>2, <1>3, OneWord
  <2>3. Len(read') = 1 /\ read'[1] = word /\ read' \in Seq(tcp_reply_payload)
    BY <1>1, <2>2
  <2>4. Session(word) = word.id % 2^8
    BY <2>1 DEF Session
  <2>5. Ended' <=> word.last
    BY <2>2, <2>3 DEF Ended
  <2>6. words' = IF word.last THEN 0 ELSE 1
    BY <2>1 DEF ReadReply, word
  <2>7. session' = word.id % 2^8
    BY <2>4 DEF ReadReply, word
  <2>8. Counted'
    BY <2>2, <2>3, <2>5, <2>6, <2>7 DEF Counted
  <2>. QED  BY <2>1, <2>3, <2>4, <2>5, <2>8 DEF word
<1>4. CASE ~(read = <<>> \/ Ended)
  <2>1. words = Len(read) /\ Len(read) \in Nat /\ Len(read) # 0
    BY <1>4 DEF Counted
  <2>2. read' = Append(read, word)
    BY <1>2, <1>4
  <2>3. /\ Len(read') = Len(read) + 1 /\ read'[Len(read')] = word
        /\ read'[1] = read[1] /\ read' \in Seq(tcp_reply_payload) /\ read' # <<>>
    BY <1>1, <2>1, <2>2 DEF Counted
  <2>4. Session(word) = read[1].id % 2^8
    BY <2>1 DEF Session, Counted
  <2>5. Ended' <=> word.last
    BY <2>3 DEF Ended
  <2>6. words' = IF word.last THEN 0 ELSE words + 1
    BY DEF ReadReply, word
  <2>7. session' = read[1].id % 2^8
    BY <2>4 DEF ReadReply, word
  <2>8. Counted'
    BY <2>1, <2>3, <2>5, <2>6, <2>7 DEF Counted
  <2>. QED  BY <2>1, <2>3, <2>4, <2>5, <2>8 DEF word
<1>. QED  BY <1>3, <1>4

(* Counted is inductive together with the types. *)
LEMMA CountedStep ==
  ASSUME TcpTypeOK, Counted, [TcpNext]_tcpSystemVars
  PROVE  Counted'
<1>1. CASE Consume
  <2>1. CASE ReadReply
    BY <1>1, <2>1, CountedRead
  <2>2. CASE WriteTrigger \/ WriteNotification
    BY <1>1, <2>2 DEF Consume, WriteTrigger, WriteNotification, Counted, Ended
  <2>. QED  BY <1>1, <2>1, <2>2 DEF Consume, p_consume_tcp
<1>2. CASE Send \/ TakeCommand \/ TakeNotification \/ UNCHANGED tcpSystemVars
  BY <1>2 DEF Send, TakeCommand, TakeNotification, tcpSystemVars, tcpVars, Counted, Ended
<1>. QED  BY <1>1, <1>2 DEF TcpNext

LEMMA TcpInitTypes == TcpInit => TcpTypeOK /\ Counted
BY TcpDepthType DEF TcpInit, TcpLocalInit, TcpTypeOK, IsStream, Counted, Ended

(* Type correctness for any depth, sessions and packets. *)
THEOREM TcpTyped == TcpSpec => []TcpTypeOK
<1>. QED  BY TcpInitTypes, TcpTypeStep, PTL DEF TcpSpec

(* Every packet is answered on its own words alone: whatever packets came  *)
(* before, of any length, the count and the 8 bits of session the process  *)
(* decides on are those of the packet that ends.                           *)
THEOREM AlwaysJust == TcpSpec => JustAnswer
<1>. DEFINE Answer ==
       Len(tcp_replies_in') < Len(tcp_replies_in) =>
         LET end == read'[Len(read')]
             low == read'[1].id % 2^8
         IN /\ (tcp_at' = "trigger") <=> (Ended' /\ low = 64 /\ ~end.error)
            /\ (tcp_at' = "notify") <=> (Ended' /\ low = 96)
            /\ tcp_at' = "trigger" => tcp_sending' = <<1024 + end.offset>>
            /\ tcp_at' = "notify" =>
                 tcp_sending'[1] = Len(read') - 1 /\ tcp_sending'[3] = low
<1>1. ASSUME TcpTypeOK, Counted, TcpNext
      PROVE  Answer
  <2>1. CASE Consume /\ ReadReply
    <3>. DEFINE word == Head(tcp_replies_in)
    <3>1. /\ read'[Len(read')] = word
          /\ Len(read') = words + 1
          /\ Session(word) = read'[1].id % 2^8
          /\ Ended' <=> word.last
      BY <1>1, <2>1, CountedRead
    <3>2. /\ session' = Session(word) /\ tcp_at = "read"
          /\ CASE word.last /\ Session(word) = 64 /\ ~word.error ->
                    tcp_at' = "trigger" /\ tcp_sending' = <<1024 + word.offset>>
               [] word.last /\ Session(word) = 96 ->
                    /\ tcp_at' = "notify"
                    /\ tcp_sending' = <<words, bytes + flat_popcount, session'>>
               [] OTHER -> UNCHANGED <<tcp_at, tcp_sending>>
      BY <2>1 DEF ReadReply
    <3>3. words \in Nat
      BY <1>1 DEF TcpTypeOK
    <3>. HIDE DEF word
    <3>. QED  BY <3>1, <3>2, <3>3
  <2>2. CASE ~(Consume /\ ReadReply)
    <3>1. Len(tcp_replies_in') >= Len(tcp_replies_in)
      <4>1. CASE Send
        <5>1. PICK word \in tcp_reply_payload :
                tcp_replies_in' = Append(tcp_replies_in, word)
          BY <4>1 DEF Send
        <5>. QED  BY <1>1, <5>1 DEF TcpTypeOK, IsStream
      <4>2. CASE ~Send
        BY <1>1, <2>2, <4>2 DEF TcpNext, Consume, p_consume_tcp, WriteTrigger,
             WriteNotification, TakeCommand, TakeNotification, TcpTypeOK, IsStream
      <4>. QED  BY <4>1, <4>2
    <3>. QED  BY <1>1, <3>1 DEF TcpTypeOK, IsStream
  <2>. QED  BY <2>1, <2>2
<1>2. TcpTypeOK /\ Counted /\ [TcpNext]_tcpSystemVars => [Answer]_tcpSystemVars
  BY <1>1
<1>3. TcpTypeOK /\ Counted /\ [TcpNext]_tcpSystemVars => TcpTypeOK' /\ Counted'
  BY TcpTypeStep, CountedStep
<1>. HIDE DEF Answer
<1>4. TcpSpec => [][Answer]_tcpSystemVars
  BY TcpInitTypes, <1>2, <1>3, PTL DEF TcpSpec
<1>. QED  BY <1>4 DEF JustAnswer, Answer
-----------------------------------------------------------------------------
(* What the assumptions say of the numbers of the arbiter: buses counted   *)
(* from 0, and depths that are not 0.                                      *)
LEMMA Numbers ==
  /\ BusCount \in Nat /\ BusCount > 0
  /\ TriggerDepth \in Nat /\ BusDepth \in Nat
BY ArbiterAssumption, ArbiterSystemAssumption

USE Numbers

(* The scan stays on the buses and reaches each of them once, the i-th     *)
(* being at distance i.                                                    *)
LEMMA ScanOrder ==
  ASSUME last_used_bus_id \in Buses
  PROVE  /\ \A i \in 1..BusCount : Scanned(i) \in Buses /\ Distance(Scanned(i)) = i
         /\ \A b \in Buses : Distance(b) \in 1..BusCount /\ Scanned(Distance(b)) = b
BY DEF Buses, Scanned, Distance

(* However far the scan has to go to come to a bus, it looks at no more    *)
(* buses than there are.                                                   *)
LEMMA DistanceBound ==
  ASSUME NEW l \in Buses, NEW b \in Buses
  PROVE  (IF b > l THEN b - l ELSE b - l + BusCount) \in 1..BusCount
BY DEF Buses

(* The stream each source writes and the arbiter reads is a bounded stream *)
(* of words of that source.                                                *)
LEMMA BusTyped ==
  ASSUME ArbiterTypeOK, NEW b \in Buses
  PROVE  /\ IsStream(bus_in[b], CommandWord, BusDepth)
         /\ \A j \in 1..Len(bus_in[b]) : bus_in[b][j].bus = b
BY BusStream DEF ArbiterTypeOK

(* A word forwarded is a word of its bus, and the streams stay well formed.*)
LEMMA ForwardTyped ==
  ASSUME ArbiterTypeOK, NEW b \in Buses, Forward(b)
  PROVE  /\ Head(bus_in[b]) \in CommandWord /\ Head(bus_in[b]).bus = b
         /\ IsStream(out', CommandWord, TriggerDepth)
         /\ IsBus(bus_in', Buses, CommandWord, BusDepth)
         /\ \A c \in Buses : \A j \in 1..Len(bus_in'[c]) : bus_in'[c][j].bus = c
         /\ \A c \in Buses \ {b} : bus_in'[c] = bus_in[c]
<1>1. IsStream(bus_in[b], CommandWord, BusDepth) /\ bus_in[b] # <<>>
  BY BusTyped DEF Forward
<1>2. /\ Head(bus_in[b]) \in CommandWord /\ Len(bus_in[b]) > 0 /\ Head(bus_in[b]) = bus_in[b][1]
      /\ Len(Tail(bus_in[b])) = Len(bus_in[b]) - 1
  BY <1>1, ReadStream
<1>T. \A j \in 1..Len(Tail(bus_in[b])) : Tail(bus_in[b])[j] = bus_in[b][j + 1]
  BY <1>1, ReadStream
<1>3. Len(bus_in[b]) \in Nat
  BY <1>1 DEF IsStream
<1>4. Head(bus_in[b]).bus = b
  BY <1>2, <1>3, BusTyped
<1>5. IsStream(out', CommandWord, TriggerDepth)
  BY <1>2, WriteStream DEF ArbiterTypeOK, Forward
<1>R. /\ IsBus(bus_in, Buses, CommandWord, BusDepth)
      /\ bus_in' = [bus_in EXCEPT ![b] = Tail(@)]
  BY DEF ArbiterTypeOK, Forward
<1>6. IsBus(bus_in', Buses, CommandWord, BusDepth) /\ bus_in'[b] = Tail(bus_in[b])
  <2>1. IsBus([bus_in EXCEPT ![b] = Tail(@)], Buses, CommandWord, BusDepth)
    BY <1>1, <1>R, ReadBus
  <2>2. [bus_in EXCEPT ![b] = Tail(@)][b] = Tail(bus_in[b])
    BY <1>R DEF IsBus
  <2>. QED  BY <1>R, <2>1, <2>2
<1>7. \A c \in Buses \ {b} : bus_in'[c] = bus_in[c]
  BY DEF ArbiterTypeOK, IsBus, Forward
<1>8. \A j \in 1..Len(Tail(bus_in[b])) : Tail(bus_in[b])[j].bus = b
  BY <1>2, <1>3, <1>T, BusTyped
<1>9. \A c \in Buses : \A j \in 1..Len(bus_in'[c]) : bus_in'[c][j].bus = c
  BY <1>6, <1>7, <1>8, BusTyped
<1>. QED  BY <1>2, <1>4, <1>5, <1>6, <1>7, <1>9

(* The streams of the arbiter never overflow and never carry the word of   *)
(* another bus.                                                            *)
THEOREM ArbiterTyped == ArbiterSpec => []ArbiterTypeOK
<1>1. ArbiterInit => ArbiterTypeOK
  BY DEF ArbiterInit, ArbiterLocalInit, ArbiterTypeOK, IsBus, IsStream, CommandWord, Buses
<1>2. ArbiterTypeOK /\ [ArbiterNext]_arbiterSystemVars => ArbiterTypeOK'
  <2>. SUFFICES ASSUME ArbiterTypeOK, [ArbiterNext]_arbiterSystemVars
                PROVE  ArbiterTypeOK'
    OBVIOUS
  <2>1. ASSUME NEW b \in Buses, Produce(b)
        PROVE  ArbiterTypeOK'
    <3>1. PICK last \in BOOLEAN :
            bus_in' = [bus_in EXCEPT ![b] = Append(@, [bus |-> b, last |-> last])]
      BY <2>1 DEF Produce
    <3>. DEFINE w == [bus |-> b, last |-> last]
    <3>2. w \in CommandWord
      BY DEF CommandWord
    <3>R. /\ IsBus(bus_in, Buses, CommandWord, BusDepth)
          /\ CanWrite(bus_in[b], BusDepth)
          /\ bus_in' = [bus_in EXCEPT ![b] = Append(@, w)]
      BY <2>1, <3>1 DEF ArbiterTypeOK, Produce
    <3>. HIDE DEF w
    <3>3. IsBus(bus_in', Buses, CommandWord, BusDepth) /\ bus_in'[b] = Append(bus_in[b], w)
      <4>1. IsBus([bus_in EXCEPT ![b] = Append(@, w)], Buses, CommandWord, BusDepth)
        BY <3>2, <3>R, WriteBus
      <4>2. [bus_in EXCEPT ![b] = Append(@, w)][b] = Append(bus_in[b], w)
        BY <3>R DEF IsBus
      <4>. QED  BY <3>R, <4>1, <4>2
    <3>4. /\ Len(Append(bus_in[b], w)) = Len(bus_in[b]) + 1
          /\ \A j \in 1..Len(bus_in[b]) : Append(bus_in[b], w)[j] = bus_in[b][j]
          /\ Append(bus_in[b], w)[Len(bus_in[b]) + 1] = w
          /\ Len(bus_in[b]) \in Nat
      BY <2>1, <3>2, BusTyped, WriteStream DEF Produce, IsStream
    <3>5. \A j \in 1..Len(Append(bus_in[b], w)) : Append(bus_in[b], w)[j].bus = b
      BY <3>4, BusTyped DEF w
    <3>6. \A c \in Buses \ {b} : bus_in'[c] = bus_in[c]
      BY <3>R DEF IsBus
    <3>7. \A c \in Buses : \A j \in 1..Len(bus_in'[c]) : bus_in'[c][j].bus = c
      BY <3>3, <3>5, <3>6, BusTyped
    <3>. QED  BY <2>1, <3>3, <3>7 DEF ArbiterTypeOK, Produce, arbiterVars
  <2>2. CASE GrantCounted
    <3>1. PICK i \in 1..BusCount :
            /\ Forward(Scanned(i)) /\ last_used_bus_id' = Scanned(i)
            /\ state' = IF Head(bus_in[Scanned(i)]).last THEN "IDLE" ELSE "FORWARDING"
      BY <2>2 DEF GrantCounted, Grant
    <3>2. Scanned(i) \in Buses
      BY ScanOrder DEF ArbiterTypeOK
    <3>3. waited' \in [Buses -> Nat]
      BY <2>2 DEF GrantCounted, ArbiterTypeOK
    <3>. QED  BY <2>2, <3>1, <3>2, <3>3, ForwardTyped DEF GrantCounted, ArbiterTypeOK
  <2>3. CASE ContinueCounted
    BY <2>3, ForwardTyped DEF ContinueCounted, Continue, ArbiterTypeOK
  <2>4. CASE TakeTrigger
    BY <2>4, ReadStream DEF TakeTrigger, ArbiterTypeOK, arbiterVars
  <2>5. CASE UNCHANGED arbiterSystemVars
    BY <2>5 DEF ArbiterTypeOK, arbiterSystemVars, arbiterVars
  <2>. QED  BY <2>1, <2>2, <2>3, <2>4, <2>5 DEF ArbiterNext
<1>. QED  BY <1>1, <1>2, PTL DEF ArbiterSpec
-----------------------------------------------------------------------------
(* The word seen last on the trigger bus, when there is one, is a word of a*)
(* source.                                                                 *)
LEMMA SeenWords ==
  ASSUME ArbiterTypeOK
  PROVE  /\ Seen \in Seq(CommandWord) /\ Len(Seen) = Len(out) + 1 /\ Len(out) \in Nat
         /\ Seen[1] = taken_word
         /\ \A j \in 1..Len(out) : Seen[j + 1] = out[j]
         /\ LastSeen = IF out = <<>> THEN taken_word ELSE out[Len(out)]
BY DEF ArbiterTypeOK, IsStream, Seen, LastSeen

(* A word sent after the last one seen keeps packets whole if it goes on   *)
(* with the packet of that one or begins a new one.                        *)
LEMMA SeenAfterForward ==
  ASSUME ArbiterTypeOK, ArbiterTypeOK', NoInterleaving, UNCHANGED taken_word,
         NEW w \in CommandWord, out' = Append(out, w),
         LastSeen.last \/ w.bus = LastSeen.bus
  PROVE  NoInterleaving' /\ LastSeen' = w
<1>1. /\ Len(Seen) \in Nat /\ Len(Seen) >= 1 /\ Len(Seen') = Len(Seen) + 1
      /\ \A j \in 1..Len(Seen) : Seen'[j] = Seen[j]
      /\ Seen'[Len(Seen')] = w
  BY DEF ArbiterTypeOK, IsStream, Seen
<1>2. ASSUME NEW j \in 1..(Len(Seen') - 1)
      PROVE  Seen'[j].last \/ Seen'[j + 1].bus = Seen'[j].bus
  <2>1. CASE j = Len(Seen)
    BY <1>1, <2>1 DEF LastSeen
  <2>2. CASE j # Len(Seen)
    BY <1>1, <2>2 DEF NoInterleaving
  <2>. QED  BY <2>1, <2>2
<1>. QED  BY <1>1, <1>2 DEF NoInterleaving, LastSeen

(* What a step forwards continues the packet the state says. *)
LEMMA Forwarded == ArbiterSpec => [](NoInterleaving /\ StateMatchesOutput)
<1>1. ArbiterInit => NoInterleaving /\ StateMatchesOutput
  BY DEF ArbiterInit, ArbiterLocalInit, NoInterleaving, StateMatchesOutput, Seen, LastSeen
<1>2. /\ ArbiterTypeOK /\ ArbiterTypeOK' /\ NoInterleaving /\ StateMatchesOutput
      /\ [ArbiterNext]_arbiterSystemVars
      => NoInterleaving' /\ StateMatchesOutput'
  <2>. SUFFICES ASSUME ArbiterTypeOK, ArbiterTypeOK', NoInterleaving, StateMatchesOutput,
                       [ArbiterNext]_arbiterSystemVars
                PROVE  NoInterleaving' /\ StateMatchesOutput'
    OBVIOUS
  <2>1. CASE GrantCounted
    <3>1. PICK i \in 1..BusCount :
            /\ Forward(Scanned(i)) /\ last_used_bus_id' = Scanned(i)
            /\ state' = IF Head(bus_in[Scanned(i)]).last THEN "IDLE" ELSE "FORWARDING"
      BY <2>1 DEF GrantCounted, Grant
    <3>. DEFINE w == Head(bus_in[Scanned(i)])
    <3>2. Scanned(i) \in Buses
      BY ScanOrder DEF ArbiterTypeOK
    <3>3. w \in CommandWord /\ w.bus = Scanned(i)
      BY <3>1, <3>2, ForwardTyped
    <3>4. LastSeen.last /\ UNCHANGED taken_word
      BY <2>1 DEF GrantCounted, Grant, StateMatchesOutput
    <3>5. out' = Append(out, w)
      BY <3>1 DEF Forward
    <3>6. NoInterleaving' /\ LastSeen' = w
      BY <3>3, <3>4, <3>5, SeenAfterForward
    <3>7. w.last \in BOOLEAN
      BY <3>3 DEF CommandWord
    <3>. HIDE DEF w
    <3>. QED  BY <3>1, <3>3, <3>6, <3>7 DEF StateMatchesOutput, w
  <2>2. CASE ContinueCounted
    <3>. DEFINE w == Head(bus_in[last_used_bus_id])
    <3>1. /\ Forward(last_used_bus_id) /\ state = "FORWARDING"
          /\ state' = IF w.last THEN "IDLE" ELSE "FORWARDING"
          /\ UNCHANGED <<last_used_bus_id, taken_word>>
      BY <2>2 DEF ContinueCounted, Continue
    <3>2. w \in CommandWord /\ w.bus = last_used_bus_id
      BY <3>1, ForwardTyped DEF ArbiterTypeOK
    <3>3. LastSeen.bus = w.bus
      BY <3>1, <3>2 DEF StateMatchesOutput
    <3>4. out' = Append(out, w)
      BY <3>1 DEF Forward
    <3>5. NoInterleaving' /\ LastSeen' = w
      BY <3>1, <3>2, <3>3, <3>4, SeenAfterForward
    <3>6. w.last \in BOOLEAN
      BY <3>2 DEF CommandWord
    <3>. HIDE DEF w
    <3>. QED  BY <3>1, <3>2, <3>5, <3>6 DEF StateMatchesOutput
  <2>3. CASE TakeTrigger
    <3>1. /\ Len(Seen) \in Nat /\ Len(Seen) >= 2 /\ Len(Seen') = Len(Seen) - 1
          /\ \A j \in 1..Len(Seen') : Seen'[j] = Seen[j + 1]
      <4>1. /\ out' = Tail(out) /\ taken_word' = Head(out) /\ out # <<>>
            /\ out \in Seq(CommandWord)
        BY <2>3 DEF TakeTrigger, ArbiterTypeOK, IsStream
      <4>2. /\ Len(out) \in Nat /\ Len(out) >= 1 /\ Len(out') = Len(out) - 1
            /\ taken_word' = out[1]
            /\ \A j \in 1..Len(out') : out'[j] = out[j + 1]
        BY <4>1
      <4>3. /\ Len(Seen) = Len(out) + 1 /\ Len(Seen') = Len(out') + 1
            /\ Seen[1] = taken_word /\ Seen'[1] = taken_word'
            /\ \A j \in 1..Len(out) : Seen[j + 1] = out[j]
            /\ \A j \in 1..Len(out') : Seen'[j + 1] = out'[j]
        BY <4>1 DEF Seen
      <4>4. Len(Seen') = Len(Seen) - 1 /\ Len(Seen) >= 2 /\ Len(Seen) \in Nat
        BY <4>2, <4>3
      <4>5. ASSUME NEW j \in 1..Len(Seen')
            PROVE  Seen'[j] = Seen[j + 1]
        <5>1. CASE j = 1
          BY <4>2, <4>3, <5>1
        <5>2. CASE j # 1
          <6>1. /\ j - 1 \in 1..Len(out') /\ j \in 1..Len(out)
                /\ (j - 1) + 1 = j
            BY <4>2, <4>3, <5>2
          <6>2. Seen'[(j - 1) + 1] = out'[j - 1] /\ out'[j - 1] = out[(j - 1) + 1]
            BY <4>2, <4>3, <6>1
          <6>3. Seen[j + 1] = out[j]
            BY <4>3, <6>1
          <6>. QED  BY <6>1, <6>2, <6>3
        <5>. QED  BY <5>1, <5>2
      <4>. QED  BY <4>4, <4>5
    <3>2. LastSeen' = LastSeen
      BY <3>1 DEF LastSeen
    <3>3. NoInterleaving'
      BY <3>1 DEF NoInterleaving
    <3>. QED  BY <2>3, <3>2, <3>3 DEF StateMatchesOutput, TakeTrigger, arbiterVars
  <2>4. CASE UNCHANGED <<out, arbiterVars, taken_word>>
    BY <2>4 DEF NoInterleaving, StateMatchesOutput, Seen, LastSeen, arbiterVars
  <2>. QED  BY <2>1, <2>2, <2>3, <2>4 DEF ArbiterNext, Produce, arbiterSystemVars
<1>. QED  BY <1>1, <1>2, ArbiterTyped, PTL DEF ArbiterSpec

(* Packets are never interleaved on the trigger bus, whatever the number   *)
(* of buses and of words in their packets.                                 *)
THEOREM NeverInterleaved == ArbiterSpec => []NoInterleaving
BY Forwarded, PTL

(* The arbiter goes on with a packet exactly while the last word it sent   *)
(* was not the last of its packet.                                         *)
THEOREM AlwaysForwards == ArbiterSpec => []StateMatchesOutput
BY Forwarded, PTL

(* No source waits for more than one packet of each of the others.         *)
THEOREM WaitIsBounded == ArbiterSpec => []BoundedWait
<1>1. ArbiterInit => BoundedWait
  BY DEF ArbiterInit, ArbiterLocalInit, BoundedWait, Distance, Buses
<1>2. ArbiterTypeOK /\ BoundedWait /\ [ArbiterNext]_arbiterSystemVars => BoundedWait'
  <2>. SUFFICES ASSUME ArbiterTypeOK, BoundedWait, [ArbiterNext]_arbiterSystemVars
                PROVE  BoundedWait'
    OBVIOUS
  <2>1. CASE GrantCounted
    <3>1. PICK i \in 1..BusCount :
            /\ \A j \in 1..(i - 1) : bus_in[Scanned(j)] = <<>>
            /\ last_used_bus_id' = Scanned(i)
      BY <2>1 DEF GrantCounted, Grant
    <3>2. /\ last_used_bus_id \in Buses
          /\ waited \in [Buses -> Nat]
      BY <3>1, ScanOrder DEF ArbiterTypeOK
    <3>4. Distance(Scanned(i)) = i
      BY <3>2, ScanOrder
    <3>5. last_used_bus_id' \in Buses
      BY <3>1, <3>2, ScanOrder
    <3>3. ASSUME NEW b \in Buses
          PROVE  waited'[b] + Distance(b)' =< BusCount
      <4>1. Distance(b) \in 1..BusCount /\ Scanned(Distance(b)) = b
        BY <3>2, ScanOrder
      <4>2. Distance(b)' \in 1..BusCount
        BY <3>5, DistanceBound DEF Distance
      <4>3. CASE b = last_used_bus_id' \/ bus_in[b] = <<>>
        BY <2>1, <4>2, <4>3 DEF GrantCounted
      <4>4. CASE b # last_used_bus_id' /\ bus_in[b] # <<>>
        <5>1. waited'[b] = waited[b] + 1
          <6>1. waited[b] < BusCount
            BY <3>2, <4>1 DEF BoundedWait
          <6>. QED  BY <2>1, <4>4, <6>1 DEF GrantCounted
        <5>2. Distance(b) > i
          BY <3>1, <3>4, <4>1, <4>4
        <5>3. Distance(b)' = Distance(b) - i
          BY <3>1, <3>2, <5>2, <4>4 DEF Distance, Buses, Scanned
        <5>. QED  BY <3>2, <4>1, <5>1, <5>2, <5>3 DEF BoundedWait
      <4>. QED  BY <4>3, <4>4
    <3>. QED  BY <3>3 DEF BoundedWait
  <2>2. CASE UNCHANGED <<last_used_bus_id, waited>>
    BY <2>2 DEF BoundedWait, Distance
  <2>. QED
    BY <2>1, <2>2 DEF ArbiterNext, Produce, ContinueCounted, Continue, TakeTrigger,
         arbiterSystemVars, arbiterVars
<1>. QED  BY <1>1, <1>2, ArbiterTyped, PTL DEF ArbiterSpec
=============================================================================
