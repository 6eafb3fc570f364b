# Verification of anedya-dev-core

TLA+ models of the Anedya device SDK core (`src/src/*.c`, `src/include/*.h`),
model-checked with TLC and proved with TLAPS. File names below are
those of the repository; `client.c` is short for `src/src/anedya_client.c`, and
likewise for the others.

## 1. Inventory

| part | state | operations | interacts with |
|---|---|---|---|
| transaction store (`client.c` 139-197) | `txns[]`, `txn_slot_free[]`, `aquired_time[]`, `_lock`; the descriptor in each transaction | init, acquire, release | called by every API function and by completion, from any thread |
| transactions (`txn.c`) | `is_complete`, `is_success`, `_op`, callback, `_rxbody` | register, complete | store, callbacks of the application |
| operations (`op_*.c`, `operations.c`, `ota.c`) | none of their own; 20 API functions | check the connection, set `_op`, register, build the body, publish or post | store, JSON builder, platform |
| response dispatch (`client.c` 266-441) | static buffers | look up by `reqId`, choose the handler by `_op`, complete | store (read without the lock), response parsers |
| response parsers (`op_getvaluestore.c`, `op_valuestore_listobj.c`, `op_cmd_list.c`, `op_cmd_next.c`, `ota.c`) | the response structures of the application | read an answer into them | JSON parser, UUID |
| connection (`client.c` 94-136, 227-262) | `is_connected` | connect, disconnect; on-connect and on-disconnect handlers | platform MQTT task, application callbacks |
| events (`client.c` 443-504, `op_commands.c` 5-89, `op_vsupdates.c`) | none; structures on the stack of the MQTT task | choose by topic, parse, call the event handler | JSON parser, UUID, base64 |
| configuration (`config.c`) | `anedya_config_t` | setters; device id to UUID bytes | read by the client |
| JSON builder (`json_builder.c`) | destination pointer and marker | open, close, append | operations |
| JSON parser (`json_parse.c`) | pool of 32 nodes on the caller's stack, the text itself | create, get | parsers, events |
| utilities (`utils.c`) | none | hex, UUID, base64 | configuration, parsers, events |
| log, error names, certificates | constants | none that changes state | |

The core owns no thread. Application threads call the API functions; with MQTT
the platform's network task calls the message and connection handlers (and
through them the callbacks of the application), with HTTP the calling thread
does everything. The shared state is the store, the transactions and
`is_connected`; the only synchronisation is the byte `_lock`, which is never
waited for: a caller that meets it gets `ANEDYA_ERR_LOCK_FAILED`.

What is hard here: task switches between two statements of that lock; a release
that fails unnoticed; answers that come late, out of order or never, matched by
slot number alone; callbacks that call the API before the slot of their own
transaction is released; handlers that race with connect and disconnect on one
flag; functions that fail after they have registered; handlers that give up half
way through an answer; a parser and a builder that work in place, at the edge of
fixed buffers, and report nothing.

What makes the parts correct:

- store: a slot is given to one transaction at a time, a free slot is found when
  there is one, errors are returned for cause, the lock is always given back;
- transactions: an answer reaches the operation it was sent for and the handler
  that understands it, completes it, and releases the slot of that operation;
- connection: the flag follows the connection, a shutdown is final, a
  connection that is made is noticed, one that is lost comes back;
- response parsers: a complete answer arrives whole, and the application can
  tell an incomplete one;
- events: what the event handler can rely on is of the message it is told about;
- JSON builder: the text stays in its buffer, and what fits is written whole;
- JSON parser: the tree says what the document said, or there is none;
- conversions: what is written is read back.

## 2. Modules

| module | models | how |
|---|---|---|
| `SlotPool` | what the store promises | a pool of slots, one effect per call, no lock, flags or loop |
| `TxnStore` | the store | one action per statement that matters to another thread, for any set of threads |
| `Transactions` | API functions, dispatch, completion | `EXTENDS TxnStore`: every store access is a step of that module |
| `Connection` | connect, disconnect, handlers | application thread and MQTT task, with the platform's event queue |
| `JsonBuilder` | the builder | one action per call of the builder, one per character of a text value |
| `JsonParser` | the parser | one action per turn of the loop in `objValue`, on the text it overwrites |
| `JsonDocuments` | what is parsed, and what the handlers read | the texts of documents as a server writes them, and the tree as a document |
| `Codec` | hex, UUID, base64, device id | operators, beside the definitions of the formats |
| `Answers` | the six response parsers | operators from structure and answer to structure |
| `Events` | command and update parsers | operators from message to structure |
| `Inbound` | configuration, answers, events, acknowledgement | composes `Answers`, `Events` and `Codec` in a state machine |
| `TxnStoreProofs`, `TxnStoreRefinement`, `TransactionsProofs`, `ConnectionProofs`, `JsonBuilderProofs`, `JsonParserProofs`, `CodecProofs`, `InboundProofs` | theorems | section 6 |
| `MC*` | instances for TLC | |

### TxnStore

`pc[th]` names the next statement of thread `th` inside
`_anedya_txn_store_aquire_slot` (labels `Acq...`) or
`_anedya_txn_store_release_slot` (`Rel...`), `idx[th]` is its loop variable,
`arg[th]` its parameter. Slots are numbered from 1 as descriptors are.
`AtomicLock` chooses whether a task switch can fall between `if (_lock == 1)`
and `_lock = 1`: the C code allows it (FALSE); TRUE is a platform on which it
cannot happen, for instance because the tasks are cooperative. Two pairs of
adjacent writes are one step each (168-169 and 170-171): with an atomic lock
nobody else writes between them, and the only reader outside the lock reads
`txns` alone. `aquired_time` starts at 0; the code does not initialise it, and
reads it only for slots that are taken. `SetClock` is the platform setting the
wall clock, back or forth.

### Transactions

`Begin` is what the 20 API functions share up to the call of the store: the check
of `is_connected` (compiled for MQTT only), `txn->_op`, the registration; each
function is an operator that gives it its name and its `_op`, and
`Functions[th]` are those a thread calls. A refused call
changes nothing and is no step. After the store's own steps the function goes on
with `RegisterDone`, then `Published`, or for HTTP `PostFailed`, `PostEmpty` or
`PostAnswered`; `SendFailed` is a publish that fails, a post that fails in a
function that only returns the error, or `anedya_op_cmd_status_update` finding
its data invalid (`op_commands.c` 138, 143). `Receive`, `Deliver`,
`MarkComplete`, `CallbackDone`, `HandlerDone` are the response handler and
`_anedya_txn_complete`, with a step boundary wherever another thread can see the
difference: the look-up, the verdict, `is_complete`, the callback, the release.
`air` holds requests that were sent and not answered; an answer is such a request
with a verdict. Bodies are reduced to the slot number they carry; the record also
names the operation it was sent for (`txn`, `n`, `fn`), which the code cannot see
and the properties compare with. `LinkChange` is for MQTT: over HTTP nothing that
is compiled reads the flag.

### Connection

The application's connect and disconnect, the connection handlers and the
platform: connects that succeed or fail at once, a lost link, events queued for
the MQTT task in the order they happened. `wanted` is what the application asked
for last, `overlapped` whether the last disconnect began while a handler ran or a
connect event was waiting; no code reads them. A failed connect leaves no trace
and is no step; a disconnect may fail; a subscribe fails when the connection is
gone and succeeds when it is alive (with failures there, the topics of
`LinkMeansReady` are not guaranteed: the handler ignores the results). The
client's memory is zero before `anedya_client_init` (`ZeroedClient`), which does
not set the flag for MQTT.

### JsonBuilder

`buf` is the destination buffer with the byte after it, the position `dest` (the
pointer every call returns) and `marker`, the room that is counted. The helpers
of the code (`chtoa`, `atoa`, `strname`, `primitivename`, the number formatting)
are operators from buffer to buffer; `anedya_json_nstr` is three actions, since
`atoesc` stops wherever the room ends. Calls come in the orders the API functions
make them: names inside objects, none inside arrays, every bracket closed, `end`
last. `nest` and `whole` put together, without a buffer, the document the calls
describe. `\u00XX` steps over a byte that nobody writes (`Skip`,
`json_builder.c` 140-183); `plain` records that no value needed that. A character
that is escaped takes part as one of a class (`Control`, `Escaped`).

### JsonParser and JsonDocuments

`str` is the text, `ptr` and `obj` the variables of `objValue`, `pool` and `free`
the nodes. `Property` is a turn that reads a property, with its name, value,
terminators and the append to the open block; `CloseBlock`, `Comma` and
`EndOfText` are the others. All blanks, escapes and hexadecimal digits the code
knows are there, and the comparison of long integers with the limits of 64 bits
(`Fits`, `json_parse.c` 321-340). What a document is, `JsonParser` does not ask:
its constant `Render` gives any text whatever.

`JsonDocuments` gives it a value: `ServerText` writes a document as a server may,
`Tree` reads it as `json_getChild`, `json_getSibling`, `json_getName` and
`json_getValue` do. The parser keeps one `?` for every `\u` escape, as the code
does; so does `Readable`, the document as an application can get at it. The two
modules are apart because documents and trees recur, and what recurs over data
cannot be proved about.

### Answers, Events, Codec, Inbound

An answer is a record of what the parsers look at: whether the operation
succeeded, how many elements its list has and says it has, how many entries of
metadata there are, the one property it lacks, whether its ids are UUIDs. A field of a response structure is a tag that
names where its value came from: a copy out of element k of the answer to
operation n, or a pointer into the text the transaction keeps (`_rxbody`), which
changes with the next answer. The metadata of a deployment is one field,
`assetMeta`, that stands for as many entries as the answer has: a structure keeps no
count of them, so fewer entries than before leave old ones behind, which the model
does not tell apart. Each handler is the list of its steps in the code's
order (`steps`), cut at the first that fails (`Before`). The structures of events
are on the stack and start unwritten; an id that is parsed half way leaves the
rest of its bytes as they were. Conversions are done on characters and bytes.

`Inbound` runs the device from its configuration (`anedya_parse_device_id`,
`anedya_config_init`, which resets the handlers, then the registration of the
event handler) through operations on several transactions with answers, and
messages from the server, which call the event handler; from there the
application acknowledges a command, the one place where the core sends back what
it received. `PoolSize` nodes are enough or not: `Nodes` counts every property,
element and entry of metadata of an answer, and one with more nodes than that
does not parse, and the code goes on with the null document (`phase = "fault"`).

### Definitions that end in a variant's name

`RelTest_NoTest`, `Skip_PastEnd` and the like are single definitions with a
plausible bug. They are used by no specification; each shows that a property
would notice that bug when it replaces the definition whose name it begins with.

## 3. Runs

| run | shows | bounds |
|---|---|---|
| `store_atomic` | type, mutual exclusion, agreement of the arrays, complete search, no slot taken twice, refinement of `SlotPool` | 2 threads, 2 transactions, 2 slots, timeout 1, clock to 2, set at any time |
| `store_preempt` | with the window in the lock: a set lock has an owner, and is freed again and again | 2 threads, 1 transaction, 2 slots, timeout 0, clock to 1, set at any time |
| `store_race` | violated: two threads inside at once | 2 threads, 2 transactions, 2 slots, the clock standing still |
| `client_mqtt` | answers reach their operation, find their slot and complete it in the end; a handler releases its own slot | 1 application thread and the MQTT task, callbacks that call the API, 2 transactions, the messages of one of which may be lost, 2 slots, 3 operations, clock to 3 |
| `client_http` | all 20 functions: answers go to the handler that reads them, the callback sees the verdict | 2 threads (one calls everything, one sends heartbeats), 2 transactions, 2 slots, 2 operations, clock to 2 |
| `client_leak` | violated: the slot stays taken after a completed answer | as `client_mqtt`, every message may be lost |
| `connection_interleaved` | flag and link agree when nothing is pending, a shutdown that overlaps no connect is final, a connection is noticed, a lost one leads to an attempt to connect | event queue of 4, everything interleaved |
| `connection_shutdown` | violated: the core reconnects after a shutdown that overlaps a connect | event queue of 4 |
| `builder` | the room is counted rightly, the text is terminated, what fits is whole, what is short was not cut | buffers of 14 sizes from 2 to 19 bytes, up to 5 calls, brackets 2 deep |
| `builder_escape` | violated: a byte nobody wrote behind the escape of a control character | as `builder` |
| `parser` | the tree is the document, a cut text is rejected, a whole one only for want of nodes, the parser ends | documents of two levels and the largest and smallest integer in two styles, cut at every character, 5 nodes |
| `inbound` | what the application finds in its structures, and what the server gets back, is of the right message | 2 transactions, 2 operations, 2 messages from the server, limits of 2 and 5 and lists up to one more, room for 1 and 2 deployments and up to 3 of them, up to 17 entries of metadata, 32 nodes |

Two threads are enough for every race of the store, because the critical section
is entered by one test and left by one write. Two slots and two transactions
give a first and a last slot, a search that skips one, a full table, and a
transaction that holds two slots after a failed publish. The timeout is 1 so
that a slot can be of age 1 (kept) and 2 (taken back) within the clock's bound.
Three operations give reuse of a transaction while another is under way. The
proofs of section 6 hold for every value of these constants.

The sizes of the builder's buffers put the end of the buffer into every part of
every call; from 14 bytes on some documents of five calls fit. Values have none
or two characters, a character to escape, or a control character; a value of one
character and a longer one differ in nothing the escape loop sees. Five nodes are
exceeded by some documents of the parser and exactly used up by others; two
levels give a block that closes into a block, and a sibling after it. In `inbound`
two operations are the least at which a structure or `_rxbody` is used again, and
lists and metadata lie on both sides of what 32 nodes can hold, to the entry.
Lists are also longer than their count. Answers are complete, failed, carry ids
that are none, or lack one property: each in turn, around the list or in an
element of it, but for those the code uses without a check (below).

`CHECK_DEADLOCK FALSE` stands where the number of calls or messages is bounded and
the instance stops when they are used up: `client_http`, `builder`, `parser` (a
text is parsed once) and `inbound`.

### What the client runs assume

The first three are needed: without any of them `ReleasesOwnSlot` or
`AnswerFindsSlot` fails on the same instance.

- No task switch inside the lock's test and write (`AtomicLock`).
- An answer that comes, comes and is handled within the store's timeout of the
  call (`MaxReplyAge` no larger than `TxnTimeout`). A later answer finds the slot
  empty or, worse, with another transaction in it.
- The application uses a transaction again only when its answer has been handled
  to the end, the call has returned an error, or the operation is older than the
  timeout (`Reuse = "handled"`). `is_complete` is not enough: it is set before
  the slot is released. The code gives no other sign, so an application has to
  make its own, such as waiting past the return of its callback.
- The clock goes on and is not set (`ClientTick` has no `SetClock`). A jump forward is an
  answer that comes late; the store keeps its promises with any clock.

Further: a publish that returns an error has sent nothing; with HTTP callbacks do
not call the API, and the application clears `is_success` before it uses a
transaction again (`Clears`), without which a malformed answer shows the verdict
of the operation before (with MQTT that is not needed, as the theorem about
`CallbackSeesVerdict` says; `client_mqtt` clears too, for fewer states). MQTT
answers are JSON objects with a `reqId` that the server copied from a request;
duplicates do not occur at QoS 0.

### What the other runs assume

In `inbound` (`InboundAssumption`, which TLC evaluates on the run's answers,
commands and updates and the proofs take for all of them) the server's listings of
keys and commands count no more elements than were asked for, however many they
have (`ServerAnswers`; `op_cmd_list.c` 113 and 136 go by the count and never look at the
room), its ids have no `g`, `h` or `i` for a digit and its binary data is base64
and never empty (`ServerCommands`), and the
properties the code uses without a look at them are there: `reqId`, `success`,
`errorcode`, `available`, the value of a stored float (`op_getvaluestore.c` 185),
`assetMeta` of the next deployment (`ota.c` 185-188), and scope, key, value and
modification time of an update (`op_vsupdates.c`, the value at 96, 169, 243, 316:
`ServerUpdates`). The device is given the server's id, in capitals or not, or a text
that is no id (`DeviceAssumption`), and an answer has at most one property that
nobody reads (`PoolAssumption`, which only `LimitedListsArrive` needs). The
application gives the event handler and its structures as the header files ask, a structure for text where the stored value is text, and a zero
byte behind what `base64_decode` leaves. In `parser` texts are those a server
writes for a document, and every beginning of them; the proofs about `JsonParser` take
any text (`ParserAssumption`: characters, none of them the terminator, and a pool of
at least one node), and only `CutTextsRejected` that the server ends its text with the
bracket that closes the document (`WholeTexts`, `DocumentAssumption` of the run).

## 4. Fairness

- `FairSpec` of `TxnStore`: weak fairness of each thread's statements. A thread
  inside the store makes no call that waits, so a scheduler that runs every ready
  thread gives it. Nothing is assumed about callers.
- `ClientFairSpec` of `Transactions`: weak fairness of what a thread does once it
  was called (`Working`), and of receiving what has arrived. No function of the
  core waits for another thread; the platform's network task reads what arrives.
  Nothing makes the application call, and nothing makes a server answer: for the
  transactions in `Lossy` no answer may ever come.
- `ConnFairSpec` of `Connection`: weak fairness of the MQTT task and of the
  second half of a disconnect. Attempts to connect may fail for ever.
- `ParserSpec`: weak fairness of the parser's own steps, a loop in one thread.

## 5. Disagreements between the code and its texts

Shown by a run:

1. `store_race`: the lock does not exclude (`client.c` 152/157, "Take lock" 156).
2. `client_leak`: `_anedya_txn_complete` ignores a failed release (`txn.c` 29,
   "Then release the slot" 27).
3. `connection_shutdown`: the connect handler overwrites the flag that signifies
   a shutdown (`client.c` 241, 105, 255).
4. `builder_escape`: the escape of a control character is followed by a byte that
   nobody wrote (`json_builder.c` 143, `anedya_json_builder.h` 49).

Plain to see, without a run:

- `config->timeout` is never read; the store compares with 30 (`client.c` 161,
  `anedya_config.h` 104).
- One attempt to connect again, no retry (`client.c` 258, with a TODO at 259;
  `anedya_interface.h` 78).
- `is_connected` is not looked at over HTTP (`op_heartbeat.c` 6-10 and the like;
  `anedya_client.h` 171-172).

## 6. Proofs

`TxnStoreProofs` and `TxnStoreRefinement` prove, for every set of threads and of
transactions, every number of slots below 256, every timeout and every clock,
from `StoreAssumption` alone (and `AtomicLock` where said):

- `TypeCorrect`: `Spec => []TypeOK`. Type correctness needs to know that a thread
  inside the store has a transaction as its argument and that a release was
  called with a descriptor that is not 0: `CallsOK`, the second half of `TypeInv`.
- `LockNeverLeftBehind`: `Spec => []LockOwned`, without `AtomicLock`. With two
  threads inside, one may clear the lock under the other; what stays true is that
  a set lock has somebody inside.
- `MutualExclusion`: `AtomicLock` gives `Spec => []OneThreadInside`. The inductive
  invariant `LockInv` adds the converse of `LockOwned` (somebody inside means the
  lock is set) and that nobody is between test and write.
- `TableCorrect`: `AtomicLock` gives `SlotsAgree`, `SearchComplete`,
  `TakesFreeSlot`. `CursorInv` says what each label knows about the slot at its
  loop index, `TableInv` joins it with the three. None of them is inductive by
  itself: that a slot is free at `AcqTake` is known from the test one step before,
  and survives only because `LockInv` keeps everyone else out.
- `StoreImplementsPool`: `AtomicLock` gives `Spec => Pool!PoolSpec`. The refinement
  mapping shows a slot as granted when its descriptor is written (`AcqStamp`) and
  vacated when its pointer is cleared (`RelClear`); one lemma per kind of step
  shows that it is a step of the pool or none.

`TransactionsProofs` proves about `Transactions`, from `StoreAssumption` and
`ClientAssumption`, for every set of threads, transactions and API functions, both
transports and with or without calls from callbacks:

- `ClientUsesStore`: `ClientSpec => Spec`. Every step of the client is a step of
  the store or leaves it alone, so the theorems above hold of the client.
- `ClientTypesCorrect`: `ClientTypeOK`, with `Places`: at each place a thread can
  be in, the function or handler has its transaction and the answer its descriptor.
- `AnswersReachOwners`, `AnswersFindSlots`, `HandlersReleaseOwnSlots`:
  `ReplyReachesOwner`, `AnswerFindsSlot`, and `ReleasesOwnSlot` with
  `ReleaseWorks`, under `Discipline`, the first three assumptions of section 3.
  That an answer finds its slot is nothing a single step can keep; `ClientInv`
  says it of an operation wherever it is. Each call that has its slot, each message
  and each handler is of the current operation of an open transaction
  (`Current`), which holds the slot it names since it registered and is recent
  (`OwnsSlot`, `Recent`), so that no acquire may take the slot back; and an
  operation is in one place at a time (`Apart`), so that no two of them race for
  one release. `StoreStepKeepsSlot` is the lemma that joins the store to this.
- `CallbacksSeeVerdicts`: `CallbackSeesVerdict`, over MQTT or with `Clears`. From
  dispatch on, the verdict is that of the answer, or the operation is still as
  the application left it (`Verdicts`).

`ConnectionProofs` proves, from `ConnectionAssumption` and `ZeroedClient`, for
every length of the event queue and with or without a callback that connects:

- `FlagFollowsLink`: `ConnTypeOK`, `FlagMeansLink` and `LinkMeansReady`. They speak
  of moments when nothing is pending, so the inductive invariant `ConnInv` has to
  say what a pending event or a running handler will still do: the last event that
  waits tells the state of the connection (`EventsTellLink`); with no event
  waiting, a lost connection leaves a set flag only while the disconnect handler
  has yet to look at it (`LossHandled`), and a live one has been subscribed as far
  as the connect handler has come (`ConnectHandled`).
- `QuietShutdown`: `QuietShutdownIsFinal`. `ReconnectExcused` follows the reason to
  reconnect backwards, from the reconnect to the flag, to the connect handler, to
  the event that waits for it: each had been wanted, or was overlapped by the
  disconnect.

`JsonBuilderProofs` proves, for every size of buffer, all names, values and
numbers and any number of calls:

- `RoomAlwaysCounted`: `BuilderTypeOK`, `RoomCounted` and `Terminated`. A lemma per
  helper says that a sound buffer (position and room add up to the size, `Sound`)
  stays sound and does not get shorter, and that it has an end (`Ended`).
  `BuilderInv` adds what dropping a comma needs, that there is a character before
  the position once a call was made, and says that the text is terminated except
  inside the loop of `atoesc`.

- `BodiesAreWhole`: `WholeWhenFits` and `ShortMeansWhole`, which compare the buffer
  with the whole document. `Streams` says what the calls so far have asked for:
  every open object or array begins with its name and its bracket and goes on with
  its items, each with a comma. `Written` says that a text is in the buffer if it
  fits, and that the buffer is full, without a terminator but in its last byte, if
  not; a lemma per helper (`PutWrites`, `atoaWrites`, `NumberWrites` and so on) says
  that what it puts behind a written text is written. `ContentInv` joins the two,
  and says of a text value under way what is left to copy. Two places are delicate.
  A number that just fits loses its last digit to the terminator of `snprintf`: it
  is `Written` only together with its comma, which does not fit either. And a text
  that stops at the end of the buffer gets its quote all the same, at a buffer that
  is full: nothing is written. `EscapedText` recurs over the value; that it is
  defined, and that it can be taken apart at its first character, is shown by a
  least counterexample (`UpToExists`). The proof needs from `BuilderAssumption` that
  no character of a name or value is the terminator and that no number is an empty
  text.

`JsonParserProofs` proves, for every text, whether it is JSON or not, cut anywhere,
and every size of the pool, from `ParserAssumption`:

- `ParserTypes`: `ParserTypeOK`. A text is overwritten while it is parsed, so the type
  invariant has to say that its last terminator is never one of the characters that
  are overwritten. `Reads` says it of every function that reads a value: if it
  succeeds, the text is as long as before, the new position is behind the old one and
  no further than the terminator, and nothing was written but between the two. One
  lemma per function (`StringReads`, `NameReads`, `WordReads`, `NumberReads`), and
  `PropertyTurns` for the turn that calls them. `parseString` recurs from the end of
  the text to its start; that its recursion is defined (`PiecesExist`) and never
  yields more characters than were read (`PiecesFair`), which is why a string can be
  written back in place, is shown by a least counterexample.
- `WhatLiesAhead`, `WhatLiesBehind`: `AheadUntouched` and `BehindFinal`. The position
  separates the text as it arrived from the text as it stays: what is still to be read
  was not written to, and a name or value that a node points to is not written again.
- `EveryTurnMoves`: `TurnsMoveOn`. The loop has no counter; each turn moves on, so
  there are at most as many turns as characters.
- `NodesAreATree`: `NodesFormTree`. `sibling` is a link when a node is closed and the
  parent while it is open; no node says which. `Forest` is the inductive invariant:
  the blocks that point back are the open ones, from the current one by its parents up
  to the root (`OpenBlocks`), links of the others go forward, the last child of a block
  ends its chain or is open (`LinksForward`) and is the last child of no other, and
  each node is linked from one place (`OnePlace`). `AddForest` and `CloseForest` say
  that adding a node and closing a block keep it. So a handler that follows
  `json_getChild` and `json_getSibling` comes to an end on whatever was accepted.
- `AcceptedAtItsEnd`, `CutTextsRejected`: `AcceptedAtEnd` and `CutRejected`. The
  parser never counts brackets, so it has to be shown that it stops at the right one.
  `Nesting` counts them from the text alone, and knows which are inside quotes.
  `NestInv` is the inductive invariant: where the parser is, as many brackets are open
  as nodes are open blocks, and no quote is. A value that is no block passes over
  none (`Skips`, a lemma per function as for `Reads`); for a string that means that
  `parseString` sees the same closing quote as `Nesting`, whatever is escaped before
  it (`PieceEnds`). So a text is accepted at the bracket that closes the first one
  (`AcceptedAtItsEnd`, from `ParserAssumption` alone). A text that ends there
  (`WholeTexts`: the server writes nothing behind the document) is therefore never
  accepted when it was cut off. TLC evaluates `WholeTexts` on the run's documents
  (`DocumentAssumption`). It is needed: of a text with a line feed behind the
  document, all but the line feed is accepted.

`AheadUntouched`, `BehindFinal`, `TurnsMoveOn`, `NodesFormTree` and `AcceptedAtEnd` are
not among the properties of the runs: they are stated for their theorems only.

`CodecProofs` proves about the operators of `Codec`, for data and texts of any
length and content and from no assumption:

- `MarshalledId`, `DeviceIdRoundTrip`, `ParsedIdIsRead`: what is printed of sixteen
  bytes is their id; `anedya_parse_device_id` takes the texts of ids and no others,
  and they come back in small letters; what `_anedya_uuid_parse` takes for an id, it
  reads as that id. The last needs that `g`, `h` and `i` do not occur: the code
  takes them for digits.
- `DecodeInvertsServer`, `ServerInvertsEncode`: base64 as the server writes and
  reads it, by its bits, and as the code does, by sums and divisions, invert each
  other. Three bytes make a number; `DigitsOfSum` and `BytesOfSum` say what the
  encoder and the decoder take out of it, `SextetsOfBytes` and `BytesOfSextets` what
  the format puts together bit by bit. No induction over the data is needed, since
  a text is a function of the position; that a string has a first zero byte comes
  from the well-foundedness of the numbers (`Least`).

`InboundProofs` proves about `Inbound`, for all texts, answers, commands and updates
that `InboundAssumption` allows, and any number of transactions, operations,
messages and elements (what these leave out is in section 3: listings that count
more than was asked for, and answers and updates without a property the code uses
unchecked):

- `DeviceKeepsId`: `DeviceIdKept`, from `DeviceAssumption` and the round trip.
- `EventsKnowTheirFields`, `AcknowledgementsEcho`, `UpdatesArrive`:
  `EventKnowsItsFields`, `AckEchoes`, `UpdateArrives`. `EventInv` says that what the
  event handler was called with is what the parsers make of one message from the
  server, complete or not, and that an acknowledgement is of the command it was
  called with; the rest are the theorems of `CodecProofs`.
- `CompleteAnswersFill`, `LastFieldVouches`, `DeploymentsAreCurrent`,
  `InboundTypeCorrect`: `CompleteAnswerFills`, `LastFieldMeansAll`,
  `NoStaleDeployment`, `InboundTypeOK`. They speak of a structure when its answer was
  handled, but structures are used again, and what the operation before left in
  them decides. `OperationsInv` says of each transaction that nothing in its
  structures is younger than its operation (`Shaped`, `Kept`): a field that is of
  this operation was then written by this answer, and by the lemma about its handler
  the last field is written only when every other one was, or is left as it was
  (`Vouched`), and all of them when the answer is complete (`Whole`). The last field
  does not vouch for the signature and the metadata of an ongoing deployment
  (`Unnoticed`: the handler skips what is not there, `ota.c` 443-450, and writes the
  status all the same), nor for the id of the next command, which may be half
  parsed. `InboundTypeOK` holds for lists of any length, but only with listings that
  count no more than was asked for. `Serves` is what
  a handler has to keep, with one lemma per handler.
- `SafeListsArrive`: `LimitedListsArrive`, from `PoolAssumption` (32 nodes, at most
  one property that nobody reads): three keys, or four without ids, four commands,
  two deployments; 16 entries of metadata with the next deployment, 14 with one that
  is ongoing, two with two. `FaultInv` ties the fault to the answer that did not parse.

The proofs led to one correction of the models: `Nodes` had been a `CASE` with guards
that overlap, whose value TLA+ does not determine.

Left to TLC: that the tree says what the document said and that texts are rejected
for cause (`TreeIsDocument`, `FailsForCause`), for which one has to recur over
documents; and liveness (`LockFreedAgain`, `AnswersComplete`,
`ConnectionNoticed`, `LossRetried`, `Finishes`), which is beyond the prover, as is
`ENABLED`. Of `Finishes` the theorem `EveryTurnMoves` proves the bound on the turns.

## 7. Not modelled

Left out for good: certificates, error names, the empty log function, dynamic
allocation (a TODO in the source), URL and topic strings, `_anedya_strcmp`,
`anedya_client_destroy` (forwards to the platform), setters of one assignment,
the variant `NO_SPRINTF` of the builder (it does not compile with the marker
argument), and UTF-8. The choice
of an event by its topic is taken as made. The static buffers of the response
handler work for one task at a time; the models have one MQTT task.

Met while modelling, and part of the models:

- The builder counts no room for the terminator, and its callers start the count
  with the size of the buffer, so the terminator of a body that fills the buffer
  is the byte after it (`mem` has that byte).
- A response handler sets `is_success` before it reads the rest, so an answer that
  lacks a property is a success with some old fields (`LastFieldMeansAll`).
- Over MQTT an answer with more than 32 nodes leads to the null document, which is
  used as if it were one. That begins with four keys (five without ids), five
  commands or three ongoing deployments; and, with signed assets and one property
  more in the answer, with 17 entries of metadata of the next deployment, 15 of one
  ongoing deployment or three of two (`LimitedListsArrive`).
- An ongoing deployment that comes without signature or metadata keeps in its
  structure those of an earlier answer, and the entries of metadata are not counted for
  the application, so that old ones may follow the new (`ota.c` 188-208, 443-468).
- A stored float or an update without a value, and a next deployment without
  `assetMeta`, make the code ask for the type or child of a null property before it
  checks (`op_getvaluestore.c` 185, `op_vsupdates.c` 96, 169, 243, 316, `ota.c` 185-188). The
  models assume these properties present.
- The count of ongoing deployments is the room of the application when the data
  ends first, and its request does not look at `obj` (`ota.c` 269-332).
- An update of a value of the global scope leaves the scope unset, with a TODO;
  `value_len` is set by no update.
- `g`, `h` and `i` pass for hexadecimal digits in the id of a command, where the
  comment says a-f (`utils.c` 14-15); the server sends none (`ServerCommands`).
- The data of an acknowledgement ends at its first zero byte (`strlen`), whatever
  `data_len` says. Base64 of nothing is not decoded.
- `anedya_config_init` takes the handlers away again, so it has to come first.
- `anedya_op_ota_next_req` clears `deployment_available` before it looks at the
  connection. `ANEDYA_OP_OTA_UPDATE_STATUS` is defined and used by nobody.
- Over HTTP an answer without a body ends the call with `ANEDYA_OK` and leaves the
  operation open (`client.c` 268).

## 8. Plan

Done: `SlotPool`, `TxnStore` and their proofs; `Transactions` and its proofs;
`Connection` and its proofs; `Codec`, `Answers`, `Events`, `Inbound`;
`JsonBuilder` and its proofs; `JsonParser`, `JsonDocuments` and the proofs of the
parser; the proofs of `Codec` and `Inbound`.

Left, in order of importance:

1. Liveness of operations over HTTP, once an answer without a body completes them.
2. Retries of a lost connection, once the core makes them.
