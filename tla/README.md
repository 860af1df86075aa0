# A specification of the nxAccess HLS framework

The repository builds a trading FPGA's sandbox with high level synthesis: a feed of
market data comes in, two demonstration strategies decide on it, and commands
go out to the order entry core, with notifications to a host. These modules
specify the control of that design (`src/hw/project_nxaccess_hls`) and the host
library that talks to it (`src/sw/enyx-oe-hwstrat-hls-engine`).

`H/` stands for `src/hw/project_nxaccess_hls/` and `SW/` for
`src/sw/enyx-oe-hwstrat-hls-engine/` below.

## 1. The system

`H/src/top.cpp` is one dataflow region. Each process is a function called once
per clock, with `static` variables for its state; processes share nothing but
`hls::stream` FIFOs. A read is guarded by `empty()`; a write blocks in the middle
of the function when the FIFO is full. Most FIFOs hold one entry, so a process
is often stopped between two of its writes, and this is where the
interleavings are.

```
                     +-> Tick2cancel: preprocess -> t2c_context -> trigger --+--> decisions 0
 nxBus -> demuxer ---+-> Tick2trade: p_algo ---------------------------------+--> decisions 1
                     +-> books: p_book_updates -> p_book_requests            |
                              ^ reads/answers (client 0 = T2C, 1 = T2T)      |
 DMA in -> configuration <----+ reads/answers of configurations -------------+--> decisions 3
 TCP replies -> p_consume_tcp -----------------------------------------------+--> decisions 2
                                                       decisions 0..3 -> arbiter -> trigger bus
 config, T2T, T2C, TCP notifications -> p_broadcast_notifications -> DMA out

 program -> AlgorithmDriver ---+-> c2a_stream ("user0") -> DMA in
            StandAloneTrigger -+
 DMA out -> poll -> AlgorithmDispatcher -> the program's handler
```

### Inventory

| Component | State it keeps | Operations | Correct when |
|---|---|---|---|
| Streams (`top.cpp`) | the entries of each FIFO | write if not full, read if not empty | no entry lost, doubled, reordered |
| Demuxer (`demuxer.hpp`) | none between calls; blocked between its three writes | copy a feed word to the three blocks | all blocks see the same feed; a blocked one only delays the others |
| Tick2cancel (`tick2cancel.cpp`) | framing flag and decision data of `preprocess`; the decision `trigger` is writing | decode a word, store the context and ask both memories; take the three answers, decide, fire, notify | the three heads are of one trade; each trade is decided once and in order |
| Tick2trade (`tick2trade.cpp`) | waiting flag, pending word, last packet, framing flag | decode a word, ask both memories, wait, decide, fire, notify | no answer is taken for another trade's; it always comes back to the feed |
| Books (`books.hpp`) | one half book per side and instrument; opcode, framing flag and update under way | turn words into updates; apply an update or serve reads, updates first | the memory has the latest level 0 prices and no others; reads are answered in order with a book no older than the request |
| Configuration (`configuration.cpp`) | the memory, the FSM, the three words of an update, the six of a trigger | parse a packet word by word, store, acknowledge, fire, serve reads | no torn configuration or trigger; acknowledgements tell the memory; reads are answered |
| Arbiter (`arbiter.hpp`) | FSM and last bus used | grant a bus round robin, forward its packet to the end | no packet mixed with another, no bus starved |
| Notifications (`notifications.cpp`) | FSM, type and notification held | take the first stream that has one, send its two or three words | each notification whole, once, in its module's order |
| TCP consumer (`tcp_consumer.cpp`) | counts of words and bytes, session | add a word; at the end of a packet fire, notify or do nothing | each packet answered on its own words |
| nxBus, nxOE layouts (`nxbus.hpp`, `nxoe.hpp`) | none | pack and unpack fields | pure |
| DMA messages and headers (`messages.hpp`, `msg_headers.hpp`, `hfp.hpp`, `Protocol.hpp`) | none | pack and unpack fields, once on each side | the two ends agree on the bits, lengths and ids of every message |
| HLS helpers (`helpers.hpp`, `string.hpp`, `word_traits.hpp`) | none | conversions | pure |
| Host library (`SW/lib`) | the stream it opened, the call under way, handlers | send a configuration or a trigger, again until a timeout or only once; bind arguments; poll and dispatch by source | a request reported as sent is carried out once, in order, as asked; one reported as failed leaves no trace; every notification is recognised |
| Demo, tools, Python binding (`SW/demo`, `SW/python-binding`) | the exit flag | send, then poll until a signal or an error | it hears of every update it sent |
| Test benches, Python test suite, firmware scripts | none of the system's | | not modelled; read for what they assert |

### What is hard in it

* two processes and two memories meet again at three streams whose entries do
  not say which trade they belong to (`tick2cancel.cpp:138`);
* blocks form cycles of blocking writes over streams of depth 1;
* packets and commands of several words are parsed by counting, so one word
  too many or too few shifts everything that follows;
* reads of a memory race the update of the same instrument;
* priorities are fixed in the books and notifications, round robin in the
  arbiter, and depend on the FSM's state in the configuration;
* bytes of the host are stored in fewer bits than they came in;
* the thread that retries a send is the one that polls, so while it waits for
  room it makes none (`Helper.hpp:108`);
* a send is tried again until it finds room or a time has passed, by one object of the library and not
  by the other;
* each side of the DMA lays out every message for itself.

Nothing is persisted or restarted, and no message is lost between the host and the
hardware. `PROJECT.json` lists each hazard at its line.

## 2. The modules

`HlsStream` has the FIFO (`CanWrite`, `IsStream`, `IsBus`), `Nxbus` the words of the
feed. For each block there is

* a module that models the code (`Tick2cancel`, `Tick2trade`, `BooksData`,
  `InstrumentConfiguration`, `Arbiter`, `Notifications`, `TcpConsumer`): its
  variables have the names of the `static` variables and streams, and one
  action is the part of a call between two blocking writes. A variable
  `..._at` tells at which write the call is stopped;
* a `...System` module that closes it with what it sees of its neighbours, and
  states the properties;
* an `MC...` module with the values of the runs, and where there are theorems
  a `...Proofs` module.

| Module | Code | Remarks |
|---|---|---|
| `Tick2cancel` | `preprocess_nxbus`, `trigger` | contexts written before the two requests, in that order |
| `Tick2trade` | `p_algo` | the asked/waiting flag and the busy wait are `algo_at` |
| `TradeDecisions` | | abstract: trades queue up, each is decided once and in order, its outputs leave command first |
| `BooksData` | `p_book_updates`, `p_book_requests` | the update is a `static` that survives between words, as in the code; in the model as well |
| `InstrumentConfiguration` | `p_handle_instrument_configuration` | the FSM; the loops that serve reads are part of the states that have them |
| `Arbiter` | `p_arbitrate_n` | generic in the number of buses and the words of a packet like the template, although every command of this design is one word with its last bit set (`nxoe.hpp:176`); `TriggerDepth` is the room of its output, `BusDepth` (`ArbiterSystem`) that of each bus |
| `NotificationChannel` | | abstract: per module a queue of whole notifications, then one line of those taken, delivered from its head |
| `Notifications` | `p_broadcast_notifications` | the end of a packet is said by the conversions, apart from the states, as in the code; `NotificationsSystem` records in the history variable `line` what was taken and not yet received |
| `Demuxer` | `p_demux` | one step per output, as many outputs as the template has |
| `Top` | the streams of `top.cpp` between demuxer, strategies, books and configuration | instances of the five modules above over shared streams; the output side is sinks |
| `TcpConsumer` | `p_consume_tcp` | the bit count of `keep` as its `switch` computes it |
| `HostMessages` | the structs of `Protocol.hpp`; `read_word`, `write_word` and the headers of the design | a layout is a table of bits; what one side writes is read by where it is on the wire |
| `AlgorithmDriver` | `AlgorithmDriver`, `StandAloneTrigger`, `AlgorithmDispatcher`, the send helpers | a call is `call`, from its start to its return; a try either finds room or is the last one, and one that is neither changes nothing |
| `AlgorithmService` | | abstract: a request sent is carried out once and in order, then told or issued |
| `HostSystem` | the demo's loop and handler, the DMA | composes `AlgorithmDriver` with the real `InstrumentConfiguration`; the notifications come as `NotificationChannel` allows, which `Notifications` implements; the history variable `requested` holds the requests sent whose last word the design has not read. It has both senders of the library on the stream, which `StandAloneTrigger.hpp:27` excludes: what holds with both holds with either |

The proof modules are `HlsStreamProofs` (what writes and reads do to a stream),
`Tick2cancelProofs`, `Tick2tradeProofs`, `BooksProofs`, `ConfigurationProofs`, `OutputProofs` (the
notifications, the TCP consumer and the arbiter), `TopProofs` and `HostProofs`. A history variable
appears in no guard and in no other variable's next value: it is there for a refinement to be stated without
a recursion over the words of a stream.

Definitions introduced by a comment "Mutant:" are faulty variants of another operator. They are not part of the model:
put in the place of the operator they show that a property notices the fault.

What is abstracted everywhere: the bits of the feed and of the commands, and text
conversions; prices, packets and payloads are small sets; a command is a word with its
last bit. The bits of the DMA messages are kept, in `HostMessages`.

## 3. The runs

| Run | Shows | Bounds |
|---|---|---|
| `tick2cancel` | streams in step, just verdicts, `TradeDecisions` implemented, the cycle through the memories drains | 4 feed words, 2 instruments, depths 1, contexts 2, notifications 1 |
| `tick2trade` | lockstep with both memories, `TradeDecisions` implemented, `p_algo` comes back to its input | 4 feed words, 2 instruments, depths 1 |
| `configuration` | no torn configuration or trigger, acknowledgements tell the memory (of the byte of `enabled` its low bit), answers in order, readers starve only behind software triggers without an end | packets of 3 kinds without an end, 3 messages on 2 instruments, 2 reads under way for one client and 1 for the other |
| `books` | the latest level 0 prices are in the memory and nothing else, but for the sell book of instrument 0 (see `books_level`); reads answered in order and fresh, both clients served once updates pause | 3 feed words, reads as in `configuration` |
| `arbiter` | no interleaving, bounded wait, every bus served | 4 buses, packets of any length |
| `notifications` | `NotificationChannel` implemented, a stream stays full only behind a stream before it that goes on | 4 modules, 2 ids, channel of 2 words |
| `tcp_consumer` | each packet answered on its own words and the low 8 bits of its own session | packets of up to 3 words, 4 sessions |
| `host` | `AlgorithmService` implemented through library, DMA and configuration process; a program that goes on calling and polling finds room again and again; a handler that goes on polling hears of every update and of every notification but TCP's | 2 updates of one instrument, a trigger with arguments left out and one with an argument too long, 2 other modules that notify, depths 1 |
| `top` | with the real demuxer and memories the streams of both strategies stay in step, a trade is decided on a book at most `Lag` words old (four with these depths), nothing locks up | 1 configured instrument, five feeds of 3 to 6 words, depths 1 |

Why the bounds are enough. The deepest cycle, preprocess to trigger, holds
three trades (one per stream, one in hand), so four words fill it and meet
back pressure. In the configuration packets follow one another without an end, so each
parse state has packets of each kind before and after it, with and without reads between their words. Books: three
words are an update of several words followed by a word, or two updates of one
instrument with a read between. The feeds of `top` are chosen: as many trades as
the cycle holds (`<<T,T,T>>`), trades that fire in both strategies after an update
(`<<U,T,T>>`), an update between two trades (`<<T,U,T>>`), and an update exactly `Lag` words
before the last trade and one word more (`<<U,O,T,O,T>>`, `<<U,O,T,O,O,T>>`): on the first the decision may
miss the update, on the second it may not. In `host` a message has three or six words and every stream holds
one entry, so a second message finds the DMA full and the calls are tried again, time out and meet the
other sender's.
Depths above 1 add no step that depth 1 does
not have but remove blocked states; contexts and notifications are given 2
where the question is about several entries. The theorems below do not depend on any of these
bounds.

Deadlock is checked in the runs of the configuration, books, arbiter,
notifications and the TCP consumer. In `host` a signal to exit is always possible, so there `CallsFindRoom` and
`ToldWhilePolled` say that nothing is stuck. The runs whose feed is bounded stop when it
ends: in the strategies' runs `Drains` says that nothing was left inside. In
`top` the specification of the run has a step of its own, `Finished`, for a state where everything was taken,
command and notification included, so deadlock is checked there as well. `NeverLockedUp` says the same
in terms of what each process waits for, written out so that it can be proved: where the condition of a
process holds but its action could not be taken, the deadlock check would find it.

### Runs that find a violation

Each of these states what a comment of the code says and shows a behaviour of
the code that does otherwise (`findings` in `PROJECT.json` quotes the lines).

| Run | What it shows |
|---|---|
| `configuration_ignore` | after an unknown packet of one word the next packet is ignored |
| `books_level` | a book update of several words on another level than 0, before any on level 0, makes the sell book of instrument 0 present at price 0: its last word sends the static update, which a reset leaves zero |
| `host_collection` | the standalone trigger writes the collection id in the host's byte order and the design reads the high byte first: 1 triggers 256 |

Further observations are not runs of their own.

* After a level 0 update the extra words of another level send that same update again (`books.hpp:166`), which
  puts nothing out of date back: `LatestPrices` says so of every half book, and names the one of
  `books_level` as its exception.
* The notification of a bid decision has `is_bid` 0, the value of an ask one (`tick2trade.cpp:148`), beside a `msg_type`
  that says the bid side (`tick2trade.hpp:43`).
* The `enabled` byte is stored in one bit (`configuration.cpp:44`) and acknowledged whole
  (`configuration.cpp:409`), so an even byte other than 0 is acknowledged as enabled and stored as disabled. The
  runs `configuration` and `host` have such an update; `AckTellsMemory` and `ToldIsStored` compare the memory
  with the low bit of what is told, and with every other field as it is.
* The session of a TCP packet is kept in 8 of its 20 bits (`tcp_consumer.cpp:84`), so one of session 320
  fires as one of session 64 does. `JustAnswer` knows a session by these 8 bits: it says that packets are not taken for one another,
  not that sessions are not.
* The byte count of the TCP consumer falls through its cases (`tcp_consumer.cpp:42`), so the last word of
  every packet counts 36 bytes, where `messages.hpp:117` says "length of ingress data packet in bytes".
* The TCP notification states a length of 16 in a message of 32 bytes, so the library takes it for a
  corrupted header and the demo exits on it (`OnlyTcpIsLost`).
* The configuration process answers reads in some states only, and the states that parse a software
  trigger are not among them nor is `IDLE` when a word is there: a host that sends triggers without a pause
  keeps every strategy waiting. `AnsweredBetweenTriggers` says that nothing else does.

### Fairness

Every function of the dataflow region is called at every clock, so each process
has weak fairness: it takes its step if nothing blocks it. Sinks (the order
entry core, the DMA towards the host) are fair where a liveness property needs
them to take what they are given. Nothing is assumed of the host or of the feed,
which may stop or go on for ever, except that in `arbiter` a source that
began a packet ends it. In `host` a call goes on until it returns (`WF` of each sender's steps): the
timeout of the code ends it even where there is never room, and `CallsFindRoom` fails without it; a call refused by the DMA for another reason (`SendFails`), a new call,
a notification of another module and the signal to exit are not fair. `PollAck` has strong
fairness: the program polls between its calls, again and again, but a call or the exit makes polling
impossible for a while, and `ToldWhilePolled` is about a program that has not been asked
to exit.

## 4. The proofs

`tlapm` checks these for every value of the constants that satisfies the named
assumptions.

| Theorem | Says | Argument |
|---|---|---|
| `Tick2cancelProofs!TypeCorrect` | `Spec => []TypeOK`: no stream overflows, for any depths, instruments and feed | inductive as it stands, one step per action; `HlsStreamProofs` has what a write and a read do to a stream |
| `Tick2cancelProofs!AlwaysAligned` | `Spec => []Aligned`: the heads `trigger` takes are of one trade | `Aligned` counts, per memory, answers + requests + the one still owed against the contexts. It is inductive with `TypeOK`. One lemma per way a memory's streams change (context, request, answer, read) |
| `Tick2cancelProofs!AlwaysJust` | `Spec => []JustVerdict` | from `Aligned`: the heads are the first context's, so the verdict is on its own data |
| `Tick2cancelProofs!Implements` | `Spec => DecidesEveryTrade`: it implements `TradeDecisions` | the pending trades are the contexts and the one `preprocess` is about to write; `TypeOK` and `JustVerdict` make the read of `trigger` the abstract `Decide`; writes to and answers of the memories are stutters |
| `Tick2tradeProofs!TypeCorrect` | `Spec => []TypeOK` | inductive |
| `Tick2tradeProofs!AlwaysInLockstep` | `Spec => []Lockstep`: no answer is left for a later trade | inductive with `TypeOK`; a path to a memory is empty or holds one question, and a request, an answer and a read each have a lemma |
| `Tick2tradeProofs!Implements` | `Spec => DecidesEveryTrade` | `Lockstep` says the answer taken is the pending trade's |
| `OutputProofs!NotificationsTyped` | `Spec => []TypeOK`: no stream overflows, the host never holds more than two words of a packet | from `NotificationsInv`, below |
| `OutputProofs!Delivers` | `Spec => ImplementsChannel` | the words the host holds, those in the channel and those the process has yet to write are, put one after the other, the packets of the notifications of `line`, in order (`NotificationsInv`). So the words up to a last one are a message, the head of `line`; taking a notification is `Take`, reading a last word `Deliver`, the rest stutters |
| `OutputProofs!ArbiterTyped` | `ArbiterSpec => []ArbiterTypeOK` | inductive |
| `OutputProofs!NeverInterleaved`, `AlwaysForwards` | `[]NoInterleaving` and `[]StateMatchesOutput` | inductive together: in the state that continues a packet the last word sent is of that bus and not the last of its packet |
| `OutputProofs!WaitIsBounded` | `[]BoundedWait`: no bus waits for more than one packet of each other | the number of grants since a bus began to wait is bounded by the distance of the scan to it |
| `OutputProofs!TcpTyped`, `AlwaysJust` | no overflow; every packet is answered on its own words and the low 8 bits of its own session | the counts the process keeps are those of the words of the packet under way |
| `BooksProofs!TypeCorrect`, `AlwaysLatest`, `AlwaysFresh` | no overflow; the memory has the latest prices and, the sell book of instrument 0 apart, no others; reads are answered in order and fresh | for `LatestPrices`, the fields of the update kept between words are those of the words it came from, and sending the update again is expected of its half book (`Reading`); for `FreshReads`, the answers and questions of a client are those asked of it, split between the streams and the one the memory holds, and each held answer is a book of that time |
| `ConfigurationProofs!TypeCorrect`, `NeverTorn`, `NeverMixed`, `AckAlwaysTells`, `AlwaysInOrder` | the five invariants of the run `configuration` | `WholeConfigurations` is not inductive: it needs that the words still to come continue the packet the FSM is parsing, word for word (`WordsInStep`), and that the fields read so far are of that one packet. The invariant allows for the packet that a one word packet before it makes the FSM ignore |
| `TopProofs!AlwaysInStep` | `Spec => []InStep` with the real memories and feed | inductive with the mere fact that the streams are sequences: how much is in them is counted, not what. Each count is questions + answers + the one the memory holds; each action moves one of them |
| `TopProofs!NeverOlderThanLag` | `Spec => []BookNotOlderThanLag`, for any feed and depths | four invariants beside `InStep`. Every stream of the feed is a window of it, so where a word is follows from lengths (`FeedInv`). The contexts are trades of words already taken, in order (`TradesInv`). The updates on the way to the memory are in order, and together with the memory hold every update taken (`MemoryInv`). When the memory turns to a read of Tick2cancel it had no update left and some read was there: what it lacks is in the demuxer's stream or hand, and the feed cannot have run further ahead than those hold (`AnswersInv`) |
| `TopProofs!NeverLocks` | `Spec => []NeverLockedUp`, for any feed and depths | from the counts of `InStep`. Suppose no process has what it waits for. Commands and notifications are taken, so `trigger` reads. A memory that cannot give its answer has given Tick2cancel one before, so two contexts are there, and `trigger` lacks the other memory's answer: that one has a question or an answer of Tick2cancel, and goes on. So both memories are idle, the strategies have all their answers and read the feed, and it is at its end (`StuckIsDrained`) |
| `HostProofs!HostTyped` | `Spec => []TypeOK` of the host, the DMA and the design | from `HostInv`: the words in the DMA's stream are those that follow the ones the process has parsed, up to the one the DMA gives next, of the messages of `requested`, in order. It is what makes the counting of words safe: a state of the FSM, a position in a message and the words to come agree |
| `HostProofs!AlwaysToldIsStored` | `Spec => []ToldIsStored` | `ToldInv`: each acknowledgement on the way, and what was told, is stored (of the byte of `enabled` its low bit) or followed by another acknowledgement of its instrument |
| `HostProofs!OnlyTcpLost` | `Spec => OnlyTcpIsLost` | at most one notification waits; the layouts of the two sides agree bit for bit but for TCP's length |
| `HostProofs!Serves` | `Spec => ImplementsService` | a try that finds room is `Request`; a refusal, a failure or a timeout is `Refuse`; reading the last word of a message is `CarryOut`, with the values asked for because the two sides' layouts agree in every field the design reads; `PollAck` is `Tell`; the rest stutters |

Assumptions: depths are positive, the feed and
the contents of the memories have their types, there is at least one bus; messages are
numbers whose words and conversions have the types `ConfigurationSystem` and
`InstrumentConfiguration` assume. For the host (`DriverAssumption`, `HostAssumption`): a request is a configuration
or a trigger, the standalone sender is asked for triggers only, and the fields of a configuration are values
of the types they have in the design, of an instrument the memory holds. For the composition (`TopAssumption`): the
feed is one of words about one instrument whose prices number the words, which is what lets
`BookNotOlderThanLag` speak of age.

Only model-checked, because TLAPS has no rules for `ENABLED` and none for the well-founded arguments that
fairness needs:

* the liveness properties `Drains` (both strategies), `AnsweredBetweenTriggers`, `EveryReadAnswered`,
  `EveryBusServed`, `NoStreamStaysFull`, `CallsFindRoom` and `ToldWhilePolled`;
* the freedom from deadlock of the other runs, and that in `top` a process that has what it waits for can
  take its step, which are about `ENABLED`.

Every other invariant, action property and refinement of the passing runs is a theorem.

## 5. Plan

Done in this order: Tick2cancel (the block with two processes and two memories),
configuration, Tick2trade, books, arbiter, notifications, TCP consumer; proofs
of both strategies and of the arbiter; demuxer and the composition of the market data side;
the host library with its messages and the composition with the configuration process;
proofs of the TCP consumer, the books, the configuration and the composition's counts; proofs of the
age of a book in the composition and of its freedom from deadlock, of the notifications' refinement and of
the host with its refinement.

To come:

1. The output side in a composition: configuration, arbiter and notifications with a slow
   host and a slow order entry core. Question: who blocks whom when the notification
   streams (4 entries in the pragmas, 32 in a comment) are full. `host` has it for the configuration
   alone.

## 6. Not modelled

* The text and bit conversions of `helpers.hpp`, `string.hpp`, `word_traits.hpp`, `byte.hpp` and the
  padding of command arguments: pure, and no property of the control depends on them. The layout of the
  feed's words and of the commands, of which the blocks' fields are kept.
* The uncross depth of the books, which nothing reads.
* An instrument id of an update outside the memory of 256 items
  (`configuration.cpp:388`): what it does depends on the synthesis.
* In the host library: the search for the accelerator and its streams, which happens once before anything
  else; the values of error codes (an error is "error"); the printing of notifications. The time of the retry
  is a choice: a try that finds no room may be the last or not, and one that is not changes nothing.
* In the demo and the Python binding: command lines, and the byte order and scaling the demo gives its
  arguments, which are those of `Requests`.
* The test benches, the Python test suite and the firmware scripts: they keep no state of the system.
