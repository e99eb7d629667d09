# Verification of the Bristlemouth example application

The repository holds a Linux program that puts a Bristlemouth node on a raw
Ethernet socket: `app/example_app` is the program, `lib/bm_core` the node
library, `lib/concurrentqueue` and `lib/readerwriterqueue` are vendored
header-only queues. This directory holds TLA+ models of the program's own
logic, the TLC configurations that check them and TLAPS proofs about them.

## 1. The system

| Part | State | Operations | Interacts with |
|---|---|---|---|
| Application lifecycle (`example_app.cpp`, `main.cpp`) | `exit_`, the io_context with its signal set and timer, the screen, the two thread objects | constructor, `run`, `handle_signal`, `update_handler`, `exit`, destructor | everything: the main thread runs the event loop, the UI thread `screen_.Loop`, the reader thread `read_frame` |
| User interface log (`FTXUISink`, log renderer) | `log_buffer_`, the sink's mutex | `sink_it_` on any thread that logs, the renderer on the UI thread | shares `log_buffer_`, which only the sink locks |
| UI layout and counters | menu selection, two atomic counters | menu entries | Exit calls `exit()` on the UI thread |
| Frame reception (`read_frame`, `process_frame`, `parse_packet`, `recv_bcmp_message`) | `input_buffer_`, reused for every frame | read, parse, accept or drop | reader thread only |
| Heartbeat sending (`update`, `send_bcmp_heartbeat`) | `_last_hb`, the timer's expiry, `output_buffer_` | timer handler every 10 ms, a heartbeat every second | main thread; `write_frame` on the socket the reader uses |
| Message checksum (`lwip_pseudo.hpp`) | none | `ip6_chksum_pseudo` | heartbeat sending |
| Ethernet FCS (`example_app.cpp`) | a table | `ethernet_fcs` | called by nothing |
| Network device (`network_device.cpp`) | socket, address, MAC | constructor, `read_frame`, `write_frame`, destructor | reader thread and main thread |
| Network interface, node | two addresses, devices | constructor; `send_bcmp_message` is empty | created by the application's constructor |
| Neighbor table | - | not in the build | nothing |
| Command line (`main.cpp`) | log level | option parsing, `set_log_level` | creates the application |
| Single-producer queues (`readerwriterqueue.h`, `readerwritercircularbuffer.h`, semaphores in `atomicops.h`) | a ring, or a circle of blocks; `m_count` and the kernel's semaphore | enqueue, dequeue, peek and pop; try, wait, wait with a limit; destructor | one producer and one consumer thread share the ring and the counts; included by no source of the application |
| Multi-producer queue (`concurrentqueue.h`, `blockingconcurrentqueue.h`, `lightweightsemaphore.h`) | a sub-queue for each producer with its blocks and block index, a pool of blocks, one semaphore | single and bulk enqueue and dequeue, waits; destructor | any number of threads; included by no source of the application |

What is hard: three threads that end each other through an atomic flag, the
screen and the io_context, in an order no test fixes; a signal that one of two
parties takes; a destructor that joins; a thread that may fail to start; a
vector read without the lock it is written under; a receive buffer whose tail
is older than its head; a timer that catches up; a heartbeat whose loss nobody
notices. In the queues: a count and a kernel semaphore that change in two
steps while a waiter's time is up; a consumer that decides on two looks at a
block the producer is leaving; claims made before it is known whether there is
anything to claim; a block index that is overwritten, or replaced, under its
readers; bulk operations that fail halfway; indices that wrap. Nothing is
persisted, so there is no recovery to speak of.

What makes each part correct:

* lifecycle: no thread runs on an object that is not there; every way of
  ending run() ends the process; a running loop always has its timer armed;
* log: the buffer is the newest lines in order; what the renderer draws is in
  order and exists;
* reception: a frame is judged by its own bytes; the program's own heartbeats
  are understood;
* heartbeat: no bursts, no end, and a lease that bridges losses;
* checksum: the Internet checksum for every length and address;
* device: on every failure path what was opened is closed, once; what comes in
  once a device is complete comes from the interface it was made for;
* queues: what goes in comes out once, from one producer in order, and every
  slot is constructed while free and destroyed while used; the permits of a
  semaphore are exactly the elements, or free slots, that are there; no wakeup
  is lost; a call is refused for a reason only.

`PROJECT.json` lists the hazards at their lines with the properties for each.

## 2. The modules

| Module | Models | Kind |
|---|---|---|
| `AppLifecycle` | lifecycle of the application and its three threads | specification |
| `WorkerShutdown` | what an owner of worker threads promises | abstract specification, implemented by `AppLifecycle` |
| `LogView` | `FTXUISink` and the log renderer | specification |
| `BoundedLog` | a log of the newest `MaxLines` lines | abstract specification, implemented by `LogView` |
| `FrameRx` | frame reception, and the frame the sender builds | specification |
| `Heartbeat` | the timer, heartbeats and a peer's lease | specification |
| `InetChecksum` | the checksum functions and their reference | functions over enumerated messages |
| `NetworkDevice` | descriptors and packet sockets of a node's devices | specification |
| `CircularBuffer` | `BlockingReaderWriterCircularBuffer` and its two `LightweightSemaphore`s | specification |
| `ReaderWriterQueue` | `ReaderWriterQueue`, and `BlockingReaderWriterQueue` around it | specification |
| `BoundedFifo` | what a queue for one producer and one consumer promises | abstract specification, implemented by `CircularBuffer` and by `ReaderWriterQueue` |
| `BlockingConcurrentQueue` | the semaphore around a `ConcurrentQueue`, bulk operations included | specification |
| `SubQueue` | one producer's sub-queue of a `ConcurrentQueue` and its consumers | specification |
| `MC*` | values of the constants for TLC | instances |
| `*Proof` | theorems and proofs about the module of that name; `HeartbeatProof` is about `Heartbeat`, `InetChecksum` and `FrameRx` | proofs |

### AppLifecycle

`mainPc`, `uiPc` and `readerPc` say where each thread is; an action is one step
between two accesses to shared state. `Construct` and `ConstructThrows` are the
constructor, `AttachSignals` to `RunReturns` the body of `run()` with the
handlers asio calls from it, `DtorFlag`, `JoinReader` and `JoinUi` the
destructor, `NotifyAndRethrow` the catch clause of `main()`. The UI thread goes
from `UiEnterLoop` to the three steps of `exit()` (`ExitFlag`, `ExitQuit`,
`ExitStop`), which it takes inside the loop when the user selects Exit and once
more after the loop returned. The reader tests `exit_`, receives or times out,
and processes.

Three facts about libraries are modelled as the code relies on them: a stopped
io_context runs no more handlers and stays stopped; `ExitLoopClosure` makes the
screen loop return; a thread constructor may throw. Both the screen loop and
asio register for SIGINT and SIGTERM, so either may take a signal while the
loop runs. `rcvTimeo` is chosen by the
constructor: `setsockopt` may fail and the program goes on.

`Owner` maps the state to `WorkerShutdown`: the object is new, up, stopping or
released; a thread is absent, live or has left; "asked" is `exit_`.

### LogView

A line is its number in the log. `EnterSink`, `Push` and `Trim` are a call of
the sink under its mutex; the renderer is the chain `ViewTest`, then
`ViewBegin`, `ViewEnd` (a line is selected) or `ViewSpan`, `ReadFirst`,
`ReadLast` (none is), then one `ReadLine` for each element. Each `size()` and
each element read is a step of its own because another thread can be in the
sink. `log_index` is a local of the constructor that lambdas refer to after it
returned, so every read of it gives any integer the code can tell apart.
`Abstract` maps the buffer to `BoundedLog`: a line over the limit that is still
to be erased counts as erased.

What the elements' storage does when the vector grows under a reader is
undefined behaviour of C++ that the model does not represent: an element read
is one step and gives the element, or nothing past the end.

### FrameRx

The buffer is a record of the fields the code looks at, with their real
offsets; a frame overwrites the fields that end within it, mixes the one it
ends in, and leaves the rest as earlier frames left it. `AcceptHeartbeat`,
`AcceptUdp` and `Drop` are the outcomes of `process_frame`; a frame's content
is arbitrary. `Reception` is the specification. `OwnFrame` is the frame `send_bcmp_heartbeat` builds.

### Heartbeat

Times are ages counted in timer periods: since `_last_hb`, since the timer's
expiry, since a peer heard the last heartbeat. `Tick` lets time pass,
`UpdateSends` and `UpdateOnly` are the timer handler. Whether a heartbeat is
delivered is open up to `MaxLost` losses in a row: `write_frame` may fail, its
result is ignored, and the network may lose the frame.

### InetChecksum

The functions are translated with a byte of `Base` values, so `u16_t` wraps at
`Base^2` and `u32_t` at `Base^4`, and compared with the sum modulo
`Base^2 - 1`. The state only builds messages byte by byte (`FirstMessage`,
`NextMessage`). The host is little-endian. Two things of the code limit what the
properties say: `proto_len` is a `u16_t`, so `ChecksumIsComplement` and
`ReceiverAccepts` are about messages shorter than `U16Mod`; and the words of an
address are few enough (eight in the code) that two addresses cannot overflow
the sum, which `ChecksumConstants` states as `2 * Len(a) <= U16Mod`.

### NetworkDevice

`main` is the next call of a device's constructor (`OpenSocket` to `Bind`, and
a `...Fails` or `InterfaceMissing` for each that can fail) or the place in the
node's life afterwards; `cur` is the device of `NetworkInterface`'s loop. A
constructor that throws goes to `unwind`, where the devices complete by then
are destroyed, as they are in `down` after the reader was joined. `holder` is
the kernel's view of each descriptor and `others` what the rest of the process
believes it has: they differ when something is closed twice. The receive buffer
of the first device, the only one anybody reads, holds frames with the
interface they came in on; the socket hears all of them until it is bound.

The calls between `socket` and `bind` that keep nothing a property needs are
one step with their neighbour: `setsockopt`, whose failure is only printed, and
the MAC address, which nobody uses.

### CircularBuffer

A semaphore is known by the thread that waits on it: `count` and `kernel` are
`m_count` and `m_sema`, `slots_` for the producer, `items` for the consumer.
`Call` to `Post` are the paths through `tryWait`, `wait`, the timed `wait` and
`signal`: `Take` and `Refuse` without the kernel, `Announce` and `Wake` with it,
`TimeOut`, `Restore`, `Retake` and `Retry` when the time is up. `Construct` and
`MoveOut` are the work on the slot. The indices count modulo `Wrap`, a power of
two as `size_t`'s range is.

### ReaderWriterQueue

Each block has the four indices of the code, two of each thread. The producer
goes from `EnqueueRoom` and `EnqueueReadFront` to `Write` and `Publish` in its
block, `NextIsFree` to `PublishAhead` into the block ahead, `MakeBlock` and
`Link` into a new one, or `RefuseEnqueue`. The consumer's `StartLocal`,
`StartReadTail`, `CheckTailBlock`, `Recheck`, `PeekNext` to `EnterNext`,
`TakeOut` and `Bump` are `try_dequeue`; `peek` and `pop` share its steps. The
blocking queue's semaphore is a count of permits here: how it comes to be one
is `CircularBuffer`'s subject, for the two semaphores have the same code.

The constructor takes a size of zero as well and then makes a block of one
slot, which counts as full and as empty at once (readerwriterqueue.h:116): the
first enqueue goes on to a second block. A dequeue that later passes through
the block of one slot finds no element in it and reads one all the same. The
specification assumes a size of one at least.

`ContentFrom` follows the circle from a block to the tail block and joins what
the blocks hold (`Joined`, a recursive function on block numbers); from the
front block on, without the element being moved out, these are the queue's
`Elements`, which refine the `queue` of `BoundedFifo`.

### BlockingConcurrentQueue

`size` counts the inner queue's elements, of which `Redeem` takes one or more; a
`try_dequeue_bulk` that returns none is called again and changes nothing here. Producers `Enqueue`, `Signal` and `Post`;
consumers wait as in `CircularBuffer`, but many on one count, take several
permits at once (`TakeMore`) and owe themselves as many elements. A bulk wait
for no element at all is not a call here: it returns no permit, where
`waitMany` asserts that it has some (lightweightsemaphore.h:405).

### SubQueue

`shape` says whether the producer is explicit (has a token) or implicit and how
large everything is. Its enqueue, single or bulk, goes from `Begin` through
`TakeAhead`, `LeaveCircle`, `Full`, `GrowExplicit`, `GrowImplicit`, `Enter`,
`TakeExplicit` and `TakeImplicit`, one block after the other, to `Expose`,
`Construct` and `Publish`, or to one of the ways to fail. A consumer's call is
`LoadOvercommit`, `SeemsEmpty` or `SeemsFilled`, `Claim`, `Recheck`, `GiveBack`,
`Advance`; then `LoadHeader`, `LoadLast` and `Locate` find the block in the
index, and `TakeOut`, `SetEmpty`, `Return` and `NextBlock` empty one block
after the other. `Destroy` is the destructor of either producer. A block has
its elements, the slots marked empty and its place in the circle; the pool is a
set, whose free list is external to the sub-queue.

Three things the model was built around because the code does them:

* A bulk enqueue that fails halfway keeps the blocks it linked into the circle
  and sets `pr_blockIndexSlotsUsed` back (2097, 2104, 2119). Reusing such a
  block later does not count it (1862), so the count stays low, and the
  destructor looks for the partly dequeued block behind its entry: the
  assertion at 1803 fails, and without assertions the wrong block is taken.
  This is the run `sub_queue_destructor`.
* `MAX_SUBQUEUE_SIZE` is compared where a block is requisitioned, not where the
  block ahead is reused (1857): an explicit producer can hold more.
* A constructor that throws in an explicit enqueue leaves the block ahead
  marked as not empty (1915-1928), and nobody will ever empty it. Throwing
  constructors are modelled for the implicit producer only.

## 3. The runs

| Run | Property | Result |
|---|---|---|
| `app` | `NoUseAfterDestroy`, `UpdateStaysArmed`, `OwnerSpec`, `ExitTerminates`, `RunEndJoinsReader`, `ScreenSignalTerminates` | hold |
| `app_signal` | `SignalTerminates` | violated: the handler stops the event loop, not the UI |
| `log_view` | `SizeBounded`, `BoundedLogSpec`, `FrameInOrder`, `OverrunIsTransient`, `FollowShowsNewest` | hold |
| `frame_rx` | `WholeFrameIsItself`, `HeadersAreItsOwn`, `OwnHeartbeatHeard` | hold |
| `heartbeat` | `NoBurst`, `LeaseHolds`, `HeartbeatsRecur` | hold |
| `device` | `AllReturned`, `OthersUndisturbed`, `ReceivesOnOwnSocket`, `HearsNamedInterface` | hold |
| `checksum` | `SumIsInternetSum`, `ChecksumIsComplement`, `ReceiverAccepts` | hold |
| `circular_buffer` | `PermitsInv`, `SlotsInv`, `FifoSpec`, `WaitEnds` | hold |
| `rw_queue` | `AssertionsHold`, `FifoSpec`, `RefusalsAreRight` | hold |
| `blocking_cq` | `PermitsInv`, `PermitsAreRedeemed`, `ElementsAreClaimed` | hold |
| `sub_queue` | `CountersMatch`, `ElementsAreTheirOwn`, `RefusalsHaveReason` | hold |
| `sub_queue_destructor` | `HeadBlockIsFound` | violated: the count of index entries stays too low after a failed bulk enqueue |

The runs `app`, `log_view` and `device` also have their type invariants. The
one of `Heartbeat` is proved instead, those of the semaphores are the first
conjunct of `PermitsInv`; `FrameRx` has one to read it by.

Four definitions state what the code does not keep, though a reader might
expect it. No run has them; given to TLC as invariants they fail:
`NotificationReachesSink` (`main` reports an unhandled exception to a sink whose
buffer is destroyed), `LineExists` (an element is erased between `size()` and
its read), `HeartbeatIsEntire` (the declared length is trusted, and the end of
the message may be an earlier frame's), `ReadsNamedInterface` (frames of other
interfaces were queued before `bind()`).

`HearsNamedInterface` is about frames that come in once the device is complete,
and `ReadsNamedInterface` about all it is given. `ElementsAreTheirOwn` holds the
destructor to the elements that are left, whenever it may run: it destroys each
of them and no slot without one.

`RefusalsHaveReason` speaks of calls without a rival: another consumer's
optimistic claim, or a tail that was read before the last enqueue, may leave a
call empty-handed: after a refusal the queue is "likely but not guaranteed to
be empty", as the code's comments put it.

Every property that holds has a mutant in `PROJECT.json`: a plausible mistake in
one definition that makes the run fail.

`FollowShowsNewest` needs two lines logged when the frame was begun. With one
line the frame can come out empty: the span is taken as one, the buffer then
fills up to one over its limit, and an erase falls between the two other reads
of `size()`.

### Bounds, and why they are enough

* `MaxSignals = 2`, `MaxFrames = 2`: a signal before, during and after the
  handling of another; a reader that finds a frame each time it looks and one
  that does not. The guards of the environment hold the bounds; the program's
  own actions have none.
* `MaxLines = 4`, `Back = Ahead = Span = 2` for 100, 9, 8 and 10; `MaxCount = 7`
  lines: the buffer overflows three times, also while one frame is drawn. Two
  writers, one of them the UI thread, which does not log while it draws.
* Frame lengths before, at and after each length the code compares with (14,
  54, 62, 72) and inside the fields it does not (55, 61, 71); declared lengths
  5, 17 and 18 around the two compared (6 and 18); two stamps tell a frame's
  own from an earlier one's.
* `Second = 3`, `Lease = 30`, `MaxLate = 7`, `MaxLost = 2` keep the ratio of
  lease to second; the loop may be held up for more than two seconds and must
  not make up for the heartbeats it missed; a third loss would not fit in the
  lease, and the specification's assumption says so. `LeaseIsLongEnough` proves
  it for every other choice.
* `Base = 4`, six bytes: every message whose sum carries, wraps to all ones or
  has a byte left over, with addresses that add nothing, a carry and all ones.
  `HeartbeatProof` has the same for bytes of eight bits and messages of any
  length.
* Two devices, four descriptors, two interfaces, two frames in a buffer: a
  device fails after another is complete, a closed descriptor is given to
  others at once, and a frame from before `bind()` is followed by one from
  after it. The descriptors are symmetric: nothing compares them.
* `CircularBuffer`: three elements in a ring of four slots, so that the capacity
  and not the ring is the limit, and indices that wrap at eight, after twice
  the ring. Calls are not bounded.
* `ReaderWriterQueue`: block sizes of two and four slots, constructor sizes
  that give one block, a block doubled by an enqueue, and a circle of five;
  `malloc` gives a queue no more than the `limit` of its shape, eight or ten
  slots, that is up to four or five blocks, after which it fails. Elements
  are numbered modulo 2: the queue never looks at them, and a queue that loses,
  repeats or swaps neighbours shows with two numbers.
* `BlockingConcurrentQueue`: two producers, two consumers, bulk operations of
  two, three elements: a signal that answers both waiters, one of them late.
* `SubQueue`: blocks of two slots, three blocks, two consumers. `ExplicitWraps`
  and `ImplicitWraps` start two short of the wrap at 16 and enqueue five
  elements, so that blocks are reused and a full index is replaced;
  `ExplicitBulk` and `ImplicitBulk` have bulk operations of three over two
  blocks, and the size limit or the pool makes some fail, with constructors that
  may throw. `2 * total < wrap` keeps comparisons modulo the wrap meaningful, as
  64 bits do. The overcommit count has no bound; it goes round the wrap, at 32 for
  the shapes with bulk dequeues, so that half a round is more than two consumers
  can ask for. Consumers are symmetric; that run states safety only.

### Fairness

`AppLifecycle`: each thread takes its enabled steps (weak fairness per step).
The signal handler gets strong fairness, because timer handlers compete with
it and asio serves a ready handler eventually; the return of the screen loop
likewise, because menu events compete with it. Nothing is assumed about the
user, about signals and frames arriving, or about calls that may fail. The
properties that wait for the reader are conditional on `rcvTimeo`: without the
receive timeout a quiet link holds the reader forever, and `setsockopt`'s
failure is only printed.

`Heartbeat`: time passes and the loop runs an expired timer.

`CircularBuffer` and `BlockingConcurrentQueue`: a thread inside a call goes on
with it, and the kernel wakes a sleeper it has a post for. Nobody has to make a
call, and no waiter's time has to be up. For `PermitsAreRedeemed` that means
that a loop around `try_dequeue` finds an element eventually if the queue has
one; `RefusalsHaveReason` of `SubQueue` is what the loop relies on: a call can
only miss an element while a rival is at work or the element is just coming in.

The other modules state safety only.

## 4. The proofs

All theorems hold for every value of the constants that satisfies the modules'
named assumptions.

* `AppLifecycleProof`: `TypeCorrect`, `ThreadsUseLiveObject`, `LoopKeepsTimer`,
  `ImplementsOwner`. `NoUseAfterDestroy` is not inductive: a join step must
  know that the reader has left, and that nobody starts after it. The invariant
  `IInv` adds what each thread may be doing while the main thread is at each
  place (`ObjFollowsMain`, `ThreadsFollowMain`), that nobody leaves before
  `exit_` (`FlagBeforeLeaving`), and that the timer is armed from `StartTimer`
  on (`TimerFollowsMain`). Types and the rest are preserved by separate lemmas,
  one case per action. For `ImplementsOwner` each step is shown to be one step
  of `WorkerShutdown` or none.
* `LogViewProof`: `SizeIsBounded`, `FramesInOrder`, `OverrunsAreTransient`,
  `FollowingShowsNewest`, `ImplementsBoundedLog`, `TypeCorrect`. The invariant says that one thread is
  in the sink and owns the line over the limit (`SinkInv`), that the lines are
  consecutive (`LogInv`), that the renderer's idea of the size is old by one
  line at most (`ViewInv`), and that lines drawn are older than the one at the
  loop's position (`FrameInv`), which an erase under the loop preserves.
  `FollowInv` adds what the three reads of `size()` leave of a frame without a
  selected line: its window is never empty, its end is new enough, and so is
  the last line drawn.
* `HeartbeatProof`: `CatchingUpSendsOne`, `LeaseIsLongEnough`, `TypeCorrect`.
  A heartbeat that is due waits no longer than the loop is late (`DueIsSoon`),
  so two are at most `Second + MaxLate` apart, and what the peer has not heard
  for is bounded by the losses (`HeardBound`).

  And about the checksum: `SumsAreInternetSums`, `ChecksumsAreComplements`,
  `ReceiversAccept`, for bytes of any size and messages of any length up to
  `MaxLen`, which may be twice 2^16. A word *stands for* a sum (`Same`) if the
  two are equal modulo 2^16 - 1 and are zero only together; that is what
  one's complement addition keeps, and a number below 2^16 that stands for a sum
  is its `OnesSum` (`SameUnique`). `Fold` keeps it and two folds of a `u32_t`
  fit a `u16_t` (`FoldTwice`); swapping the bytes of a word multiplies it by
  2^8 (`SwapIsSame`), and doing so twice by 2^16, which stands for one. So the
  words of a buffer at an odd address stand for 2^8 times those at an even one
  (`OddIsSame`), and the last swap of `lwip_standard_chksum` makes up for it.
  `TotalFits` shows that no `u32_t` overflows on the way. The sums themselves are
  a recursive function; a lemma about all of them looks at the least place where
  it would fail (`LeastNat`, `Sums`).

  And about the reception of frames (`FrameRx`): `WholeFramesAreThemselves`,
  `HeadersAreOwn`, `OwnHeartbeatsHeard`. They need no history: each step
  establishes them from any buffer, by the fields that end within the frame.
* `NetworkDeviceProof`: `TypeCorrect`, `NothingLeaks`, `NothingClosedTwice`,
  `ReaderHasSocket`, `HearsOnlyNamed`, for any number of devices. The invariant
  is an account of descriptors: a device has one of its own exactly while its
  socket is open (`SocketsAreOwn`), `set_promiscuous_mode` only while it runs
  (`PromiscIsOwn`), and every descriptor the program holds is remembered by one
  of them (`HeldIsKnown`), so that an end with no devices leaves none. It needs
  the order of construction (`DevicesFollowMain`) and that the reader is joined
  first (`ReaderIsJoined`).

* `CircularBufferProof`: `PermitsAreKept`, `SlotsAreOwn`, `ImplementsFifo`, for
  every capacity and every range of the indices that the ring divides. For each
  semaphore the count is what the other thread signalled minus what its waiter
  has taken or announced, and the kernel's semaphore, with a post still to be
  made, holds one exactly if the announcement was answered (`PermitsMatch`).
  That is inductive together with the types; `NeverOverfull` follows, because a
  permit that is taken stands for a slot or an element that is still there.
  With the permits, `RingHolds` is inductive: the slots from the consumer's on
  hold elements and all others are raw. Lemmas on remainders show that a wrap
  changes no slot (`AtSurvivesWrap`) and that the elements and the free slot
  after them are apart (`SlotsApart`); so constructing appends to the abstract
  queue (`ConstructAppends`) and moving out takes its head.
* `BlockingConcurrentQueueProof`: `PermitsAreKept`, for any number of threads and
  bulk operations of any length. `PermitsInv` is inductive as it stands: two
  balances, of elements against permits and of posts against answered waiters,
  with what a consumer may be owed at each place. The sums over threads are
  cardinalities, so a lemma says how one changes with one of its summands
  (`TotalChanges`); then a step of one thread is arithmetic on its own share.

* `ReaderWriterQueueProof`: `AssertionsAreKept`, `QueueIsFifo`,
  `RefusalsHaveReasons`, for every size, block size and number of blocks. The
  invariant is `\E d : Inv(d)`, where `d` numbers the blocks by how far each is
  before the tail block; it is not part of the state, and each step says how the
  numbering changes (linking a block puts it farthest, advancing the tail block
  turns the circle by one). `CircleInv` says that the blocks are one circle,
  `PathInv` that from the front block to the tail block every block has elements,
  those in between are full and the others are empty, but for the block the
  producer is about to go on to; `SlotInv` says which slots have elements,
  `SeenInv` that what a thread remembers of the other's index errs on its safe
  side, `TurnInv` what a thread has found out and may still rely on when it
  acts, such as that the block the consumer is about to leave stays empty.
  `AssertionsAreKept` follows from these.

  For `QueueIsFifo` the elements of the chain of blocks (`Chain`) are shown to
  change by one element at one end or not at all: a step in a block changes its
  part of the chain only, and an empty block may be left out or put in. That
  the queue never holds more than `MaxSlots` follows from one free slot in each
  block. `RefusalsHaveReasons` needs what a call knows besides (`CallInv`): that
  for each signalled element there is a permit, in the count or in the
  consumer's hand (`PermitInv`), that a call which saw an element has one ahead
  in each of its looks (`SawInv`, `AheadInv`), and that a producer that meets the
  consumer in the block ahead has filled all others (`PromiseInv`).

* `SubQueueProof`: `CountersAlwaysBalance`, `CountersStayMatched`,
  `RefusalsAreJustified`, for any number of consumers, every shape of sub-queue
  and every wrap.

  `CountersAlwaysBalance` has no condition. It is the first half of
  `CountersMatch` (`CountersBalance`): what was asked for, less what is claimed
  and overcommitted, is in the consumers' hands. `BalanceInv` is inductive: each
  step moves a counter and a consumer's share of the sum alike, up to a multiple
  of the wrap (`BalanceStep`).

  The other half, that no more is claimed than was published, does not follow
  from `SubQueueConstants` for every number of consumers. Two consumers can make
  each other's claims fail again and again, each time adding to both optimistic
  counters, while a third holds an overcommit count it read long ago; half a
  round later its difference has the wrong sign. With 64-bit indices that takes
  2^63 failed claims during one sleep, but nothing in the code rules it out, so
  the theorems name it: `NobodyOversleeps`, in `SubQueue`, says that what was
  asked for is at most half a round ahead of the head (less the elements there
  may be), less what is overcommitted now and less what a consumer that is about
  to claim takes for overcommitted. `CountersStayMatched` and
  `RefusalsAreJustified` are about behaviours that always satisfy it. It is no
  empty condition: in every reachable state of the run `sub_queue` it is true,
  as TLC confirms when it is added to the invariants of `SubQueue.cfg`.

  `AccountsInv` says that there are numbers `T`, `H`, `O` and `V` that the four
  counters are remainders of, and for each consumer numbers that its locals are
  remainders of, with `O - V = H +` all that is in the consumers' hands
  (`Balanced`). The consumers' hands hold more than there is, so the bound on
  what is claimed must say who will get how much: when a claim is rechecked, it
  gets what lies before the tail (`Among`), and the *share* of a consumer is what
  it has or will get if the tail is `t` by then. For every `t` from the tail on,
  the head plus all shares is at most `t`. A claim begins where everything asked
  for before it ends, or later, because the overcommit count it subtracts can
  only be too small; so it adds no more than lies between that and `t`. A stale
  tail makes a consumer ask for too little, never too much. The condition is
  needed where a remainder is taken for a difference (`WithinLeeway`, `SeemIs`,
  `ActualIs`).

  For `RefusalsAreJustified` a consumer that had elements and no rival since it
  began (`Sure`) has read a tail ahead of the head and the overcommit count that
  still holds; nobody else has anything in hand, so what it asks for is there.

Only model-checked: all liveness (`ExitTerminates`, `RunEndJoinsReader`,
`ScreenSignalTerminates`, `HeartbeatsRecur`, `WaitEnds`, `PermitsAreRedeemed`,
`ElementsAreClaimed`), which rests on fairness the prover does not reason
about; and `ElementsAreTheirOwn` of `SubQueue`. That one is not true for every
value of the constants: after a bulk enqueue that failed halfway the
destructor of an explicit producer takes the wrong block for the one that is
partly dequeued (the run `sub_queue_destructor`), and then it destroys the wrong
slots. The shapes of the run `sub_queue` fail only where nothing was taken yet
or all is returned. A theorem would have to be about the block index without
that mistake.

## 5. Not modelled, and the plan

Not modelled: option parsing and log levels; the widgets' layout and the two
atomic counters, which nothing else depends on; formatting of log lines; the
neighbor table, which is not built; `send_bcmp_message`, which is empty; the
storage of vector elements.

Of the queues: how a consumer chooses among the sub-queues of a
`ConcurrentQueue`, with tokens and their rotation; the hash from threads to
implicit producers and its recycling when a thread ends; the reference counts
of the free list; move and swap, which no other thread may race with; the size
estimates, which change nothing. Memory orders are not modelled: the models
are sequentially consistent, so what a weaker order could add is not seen here.

Next, in this order:

1. `HeartbeatMessage`: the fields of the heartbeat with their units (the time
   field is filled with nanoseconds where the struct says microseconds), bound
   to `FrameRx`'s reader and to the lease of `Heartbeat`.
2. `NodeAddress`: addresses from 64-bit identifiers, distinct nodes get
   distinct addresses, prefixes of the two kinds; `Crc32`: the table-driven FCS
   against division by the polynomial.
3. `Startup`: option parsing order, help, log level and the default logger.
4. `FreeList`: the reference counts with which blocks come back to the pool,
   and a `ConcurrentQueue` that composes several sub-queues.
5. Proofs: the block index of `SubQueue`, for shapes in which no bulk enqueue
   fails halfway; the header fields of `HeartbeatMessage` once it is there.
