# A verification project for timestamping_demo

timestamping_demo measures, in hardware, how long a device under test holds every
single Ethernet frame: two taps copy each frame before and after the device, a network
card stamps both copies, and a chain of programs pairs the stamps, prints the delays
and plots them.  A second, independent part of the repository generates traffic for the
bench by querying Tinkerforge sensors.

The TLA+ modules in this directory model the parts of these programs in which order,
interleaving or arithmetic decide whether a measurement is right.  TLC checks them on
small instances; every safety property that it checks is also proved with TLAPS, for all
values of the constants.

```
tlc -workers 2 -config Connection.cfg Connection.tla     # any run of the table below
tlapm MatcherProofs.tla                                  # any of the *Proofs modules
```

`PROJECT.json` lists the components, the runs with their properties, for every property a
mutation of the model that breaks it, the source lines every definition stands for, the
hazards of the code, and the theorems.


## 1. The system

### Components

| Component | Source | State | Operations |
|---|---|---|---|
| Shared-memory ring | `ts-bin/ring_buffer.c` | `head`, `tail`, `size`, the slots | `ring_init`, `ring_push`, `ring_pop` |
| Capture process, one per interface | `ts-bin/main_rxring.c`, `packet_receive` | the position in the kernel's RX ring, the record being built | poll a slot, skip or build, push, release |
| Matching process | `ts-bin/process_timestamps.c` | two tables of captures that wait for their counterpart, the ring to poll next, the output files | poll: store, report, collide |
| Processes and signals | `ts-bin/main_rxring.c`, `sighandler.c`, `process_timestamps.c` | three processes, the pids each knows, pending signals, `f_ptr` | fork, set up, open the pipe, the two signal handlers |
| UI session and pipe reader | `ui/main.py` | `RUNNING`, `DETECTING`, `CALIBRATING`, `CAPTURE_PROCESS`, timers, `LINECACHE`, `DATA*` | `detect`, `stop_detecting`, `start_plot`, `stop_plot`, calibration, `drop_data`, `refresh`, `evaluate_pipe` |
| Sliding window | `ui/main.py`, `ui/binutils.py` | `DATA_IF*`, `WINDOW_CUMM_DATA`, histogram columns, `START_TIME`, `BUCKETS` | `evaluate_pipe`, `refresh_buckets`, `drop_older_than`, `update_timedelta` |
| Histogram search | `ui/binutils.py` | `i_min`, `i_max`, the fills | `Bins.push` |
| Token bucket | `ui/tsncalc.py` | `size`, `filllevel`, `lastts` | `validate_envelope_bucket` |
| Sensor processes | `sensors/query-sensors/sensor_main.c`, `ring_buffer.c`, `sighandler.c` | per sensor clock, period and counter; rings; the batch that is gathered | `query_*`, `aggregate_thread`, `main`, `sig_handler` |
| IP connection | `sensors/query-sensors/ip_connection.c` | socket and its number, callback context and queue, flags, `socket_mutex`, four kinds of threads | connect, request, lose, reconnect, destroy |
| Requests to devices | the same file | device objects with reference counts, expected response, event, packet, two mutexes, `next_sequence_number` | send, answer, time out, check the identity, replace, destroy |
| Bricklet drivers | `sensors/query-sensors/bricklet_*.c`, `.h` | none | one function per request |

Not modelled: options and capture filter of `ts-bin`; threads, hashes and conversions of
`ip_connection.c`; sensor view and sensor web UI; plots, grids and colours (section 8).

### Interactions

* A capture process and the kernel share the slots of a memory-mapped RX ring and
  hand them to each other through one status word per slot.
* Each capture process pushes into a ring in shared memory which the matching process
  pops; no lock, one producer, one consumer.
* The matching process writes lines into named pipes; the UI reads them in a timer
  callback, and starts, kills and restarts the tool by `killall` and `Popen`.
* `kill(pid, SIGTERM)` from within signal handlers is the only way in which the three
  processes of the tool tell each other to stop.
* The UI keeps rows, volumes and histogram columns of a sliding window and feeds ordered
  time stamps to the token bucket.
* Sensor processes call driver functions; these send packets over the IP connection and
  wait on an event of the device object, which the receive thread sets.  Losses are
  reported to a queue that the callback thread takes its work from.

### What is hard here

Lock-free communication at the granularity of single stores; a matcher that sees the two
captures of a frame in any order, with losses, repetitions and hash collisions; signal
handlers that interrupt each other while the processes come up; buttons and one-shot
timers that overlap in any order; counters that are added to line by line and subtracted
from window by window; requests of two threads to one device that has one event and one
packet for responses; a connection whose loss three threads may notice, one after the
other and late.  `PROJECT.json`, "hazards", lists them line by line.


## 2. The modules

| Module | Models | Uses |
|---|---|---|
| `BoundedFifo` | the abstract queue: what a ring promises | |
| `RingBuffer` | the ring, every shared access a step of its own | implements `BoundedFifo` |
| `Capture` | `packet_receive` against the kernel | ring = queue |
| `Matcher`, `MCMatcher` | the matching process and the traffic | ring = queue |
| `Pipeline` | two kernels, two captures, two rings, the matcher | extends `Capture`, instantiates `Matcher` and implements it |
| `Lifecycle`, `MCLifecycle` | processes and signals of `ts-bin` | |
| `UiSession` | buttons, timers, tools, pipes and line cache | |
| `FlowWindow` | the sliding window of one interface | |
| `BinSearch`, `MCBinSearch` | `Bins.push` | |
| `TokenBucket` | `validate_envelope_bucket_calc` | |
| `Sensors`, `MCSensors` | the sensor programs | ring = queue |
| `Bricklets` | what the driver functions differ in | |
| `Requests`, `MCRequests` | requests, responses and device objects | `Bricklets` for the functions |
| `Connection` | threads, socket, queue and flags of an IP connection | |
| `RingBufferProofs`, `MatcherProofs`, `UiSessionProofs`, `SensorsProofs`, `RequestsProofs`, `ConnectionProofs` | theorems and proofs about the module of that name | extend it |
| `TsBinProofs` | theorems and proofs about `Capture`, `Pipeline` and `Lifecycle` | extends them; cites `MatcherProofs` |
| `StatisticsProofs` | theorems and proofs about `BinSearch`, `TokenBucket` and `FlowWindow` | extends them |

Variables have the names of the source wherever there is one.  Modules that one proof module
extends together have specifications of different names (`LifecycleSpec`, `SearchSpec`,
`BucketSpec`, and `Spec` for the third).  An action stands for
everything its handler does; it is split only where another thread, process or callback
can come between.

**Ring** (`RingBuffer`).  `ring_push` is: read `tail` and compare (`PushStart`,
`PushFull`), copy the record piece by piece (`PushCopy`), store `head` (`PushPublish`);
`ring_pop` mirrors it.  A record consists of pieces, so that a torn one would be seen.

**Capture** and **Pipeline**.  The kernel's part is external: it fills the slots in turn, hands
a slot over by its status and drops a frame whose slot it does not own.  `packet_receive`
polls (`Poll`), skips what is not IPv4 (`Skip`) or builds a record (`Build`), pushes it,
spinning while the ring is full (`Push`), and gives the slot back (`Release`).  `Pipeline` joins two
of them with the matcher's steps of `Matcher`.

**Matcher**.  One action per outcome of a poll.  A frame is a number, the order in which it
passes the taps, and has a content hash; frames of equal hash may be repetitions or
collisions.  `Capture` is the step by which a frame reaches a ring; copies may be lost.
Two kinds of traffic are considered: anything, and that of a bench which loses nothing
and repeats a frame only after the earlier one has been processed on both sides.

**Lifecycle**.  A process is a program counter, its copies of the pid variables, the set of
pending signals and the stack of handlers that interrupt each other.  A signal is not
delivered into its own handler but into any other.  `kill(0, ...)` reaches the group;
`kill(-1, ...)`, which a failed `fork` leads to, everybody but the caller.  Main opens one named
pipe, or with `-r` three, each of which waits for a reader; one reader stands for all.  A line is there
to print only if captures have come: of both interfaces, or with `-r` of either.

**UiSession**.  Every callback runs to its end in one event loop and is one action; between
two callbacks a tool may write a line into a pipe that has room.  Lines are numbers, and
whole: `print_msgdata_to_fptr` flushes after each line of about a hundred bytes
(`process_timestamps.c:112-116`), a write of fewer than `PIPE_BUF` (4096) bytes enters a pipe in one
piece, and `readlines` reads on until the pipe is empty.  What `evaluate_pipe` puts off and glues to the
next read is therefore always whole lines; it takes them apart again by their commas, ten fields at a time.

**FlowWindow**.  One refresh reads a batch of frames, adds their volume, pushes a histogram
column, drops what has left the window and feeds the buckets; a `ValueError` on the way
leaves some buckets fed and others not.  A refresh may find no line and only drop.  Time stamps are what
`evaluate_pipe` makes of them: less `START_TIME`, and on interface 2 less `DELAY` too, which
`stop_calibration` changes at any moment.  Interface 1 is the instance in which `DELAY` stays 0.

**BinSearch**, **TokenBucket**.  The loops, one iteration a step.  The token bucket keeps the
history of tokens earned and spent, which its specification is about.

**Sensors**.  Each process of `sensor_main.c` with its clock; `main` forks five children in
order, the last of which aggregates values from the rings in turn.  A fork may fail, and the
aggregating process may end in `setup_socket`: that process is then gone from the start.

**Requests**.  Every step of `device_check_validity`, `packet_header_create`,
`device_send_request`, `ipcon_handle_response` and `ipcon_dispatch_packet` between two accesses
to what threads share.  The application thread calls one function of a driver, the
callback thread checks devices before it hands on callbacks, the receive thread pairs
responses with the request that waits.  A packet carries an identifier only if it is a complete
answer to a request for it, and `Judge` compares what the packet carries that the thread got.
A behaviour is about one function; `Bricklets`
has all of them, so that the run covers every combination of response flag, identity
check and response structure that a driver has.

**Connection**.  The client, one callback thread per context, one probe and one receive
thread per socket.  `socket_mutex` is taken by the client and the callback threads only,
and the flags are accessed without it, as in the code.


## 3. The runs

All runs but the last one pass.  Where deadlock is not checked, the program may really end.

| Run | States | What it shows |
|---|---|---|
| `ring` | 21,778 | Producer and consumer interleave at every shared access: the two copies never touch one slot (`DisjointAccess`), the ring is a bounded queue (`ImplementsFifo`), each record pushed is popped (`EveryRecordRead`). |
| `matcher` | 80,688 | Losses, repetitions, collisions, `-r`: a line compares captures of equal content (`LinesMatch`), no capture is printed twice (`ReportedOnce`), the raw output and what waits in the rings are all that was pushed, in order (`RawIsAll`).  On the bench's traffic a line is about one frame (`PairsOneFrame`) and each frame gets one (`EveryFrameReported`). |
| `pipeline` | 318,112 | Two kernels, two captures, two rings and the matcher: slots are read only while owned (`OwnsWhatItReads`) and go back in turn (`HandedOver`); the whole implements `Matcher` (`ImplementsMatcher`); what both kernels accepted is reported (`AcceptedIsReported`). |
| `lifecycle` | 430,308 | Signals at any stage, forks and set-ups that fail: under SIGTERM the file is closed at most once, and main crashes only of closing a file it has not opened yet (`ClosedOnce`); all processes end unless main crashes in `fclose` before it has told the others (`AllStop`); they also end when the readers go away while both interfaces are captured (`ReaderGoneStops`). |
| `ui_session` | 21,828 | Buttons, timers, whole lines that reads put off and glue to the next: one tool writes (`OneWriter`), lines stay complete and in order (`LinesKept`), and a line followed by another is worked on (`FollowedLineRead`). |
| `flow_window` | 1,010,984 | Batches of several flows, windows and `DELAY` that change, restarts: the volume is that of the rows in the window (`VolumeOfWindow`); a histogram counts no frame twice, no gap but those of successive frames and, unless `DELAY` was raised, no frame outside the window (`BinsInWindow`); a refresh fails with a `ValueError` only if the first time stamp is negative or `DELAY` was raised (`OrderedForBucket`). |
| `bin_search` | 124,994 | In each of the program's three lists of boundaries, the one that does not ascend included, a value is counted in a bin it lies in (`CountedInItsBin`), and the search ends (`SearchEnds`). |
| `token_bucket` | 22,621 | The reported bucket suffices (`Sufficient`) and is the smallest that does (`Minimal`). |
| `sensors` | 683,686 | Late answers, full rings, failures of forks, connections and requests, signals: one request a period (`OnePerPeriod`), each value sent, waiting or refused once and in order (`AllAccountedFor`), every value that waits in a ring is taken (`EveryValueTaken`), a signal ends everything (`AllStop`). |
| `requests` | 1,701,083 | Any driver function against checks, replacement, destruction, failed sends and late answers: numbers and counters in range (`TypeOK`), a call gets the answer to its own request (`OwnAnswer`), a verdict on a device's type is right, made from the identifier in a complete answer to the request for it (`VerdictRight`), devices in use are alive (`DevicesAlive`), the table names the current object (`TableCurrent`), no function times out that was answered in time (`NoFalseTimeout`), calls return (`CallReturns`). |
| `connection` | 3,735 | A loss noticed by several threads and a client that may destroy at any time: the probe has a socket (`ProbeHasSocket`), a healthy connection is kept (`HealthyKept`), a loss is repaired (`LossRepaired`), `ipcon_destroy` returns (`DestroyReturns`). |
| `connection_destroy` | violation | Not every thread has ended when `ipcon_destroy` returns (`ThreadsTerminated`). |

### Bounds, and why they are enough

* `ring`: three records, so that indices wrap; records of two pieces and two values, so
  that torn or exchanged records differ.
* `matcher`: three frames and four hashes, among them 0 and two that share a table slot:
  a pair, a repetition and a collision fit into one behaviour.
* `pipeline`: more frames than slots in the kernel's ring, and rings of one record; every
  queue fills up and every index wraps.
* `lifecycle`: at most two signals from outside, with and without `-r`.  The signals the
  processes send each other are not bounded.
* `ui_session`: three tools (detection, start, restart), pipes of two lines.
* `flow_window`: five frames, two flows, windows of one and two time units, any batches; calibrations that
  raise and lower `DELAY` by two units, so that columns and frames change their order.
* `bin_search`: two searches in a row, in each list of `ui/main.py:54-56`, for values on, just below and
  just above every boundary of any of them.
* `token_bucket`: four packets; gains and costs that are and are not whole bits.
* `sensors`: the first and the last sensor of the aggregator's turn, one with two clock
  units a period and one with one; rings of one value.
* `requests`: one call and one callback; two objects of one device.  That makes at most three requests
  with three numbers, so that no number comes twice in the run: numbers that repeat are reached by the
  theorems only, under the assumption on them (section 5).
* `connection`: one loss of the first connection; a second, and by a late reconnect a
  third one.  What is remembered of an earlier loss are flags and news in the queue, which one
  loss can leave behind already.  All four properties also hold with two losses (`MaxLosses = 2`,
  `MaxSockets = 4`: 228,760 states), an instance too slow for a regular run.  `MaxSockets` must leave
  room for a last connection, or its being used up would look like a daemon that never accepts.

### Fairness, and why the code justifies it

* `ring`, `matcher`, `pipeline`, `sensors`: weak fairness of each process.  They busy-wait and
  never block, so a scheduler that runs them is all that is assumed.  The network, the kernel's
  drops and the choice of what is captured are not fair.
* `lifecycle`: weak fairness of the handlers of each process: the kernel delivers a signal and the
  handler runs on.  Nothing is assumed of coming up (`fopen` may wait for ever), of those who send
  signals or of the reader.  Of the network, that frames keep passing both interfaces while both are
  captured, so that main keeps having lines to print; `ReaderGoneStops` rests on it.
* `ui_session`: weak fairness of each timer; nothing of the user or the tool.
* `bin_search`: weak fairness of the loop.
* `requests`: weak fairness of the steps of each thread.  Whether a device answers, and what
  the application does next, is open.  A wait ends by its timeout.
* `connection`: weak fairness of each thread; strong fairness for taking `socket_mutex` and for
  the connection being accepted after refusals, that is, mutexes are handed out in turn and the
  daemon does not refuse for ever.  Neither request, destroy, the probe's interval nor data are fair.


## 4. What is proved

Every invariant and action property of the passing runs is a theorem, for all constants
that satisfy the modules' named assumptions.  Each proof follows one pattern: an inductive
invariant, one lemma per action or per group of actions that disturbs the same
part of it, and a theorem that combines them.

**`RingBufferProofs`**, for every capacity and set of records: `TypeCorrect`; `WholeRecords`
(`RingInv`), the inductive invariant: the slots from `tail` to `head` hold the records pushed and
not popped, complete and in order, what the producer is writing lies outside of them, and
what the consumer reads is the first of them; from it `Disjoint` (producer and consumer
never work on one slot) and `RingImplementsFifo`, the refinement of `BoundedFifo` under the mapping
`Queue`, by one lemma per action.  It justifies that all other modules take a ring for a queue.
`RingInv` is needed because disjointness alone does not say what the slots hold.

**`MatcherProofs`**, for any number of frames, hashes and table length: `TypeCorrect`; `MatchCorrect`
(`MatchInv`): at most one side waits in a slot, rings are ordered, what waits came by, belongs
into its slot and has not been reported; from it `OneSide`, `Matching` (a line compares captures of
equal content) and `AtMostOnce` (no capture is reported twice).  `RawComplete`: with `-r` the raw output
and the ring together are all that the capture process pushed, in order, whatever became of the other
copy, and a capture is in the raw output before it waits or is reported.  `ReportedOnce` is not inductive
by itself: that the entry a report takes is new follows from the waiters being fresh.
`BenchInvCorrect` adds, for the bench, that the tables hold exactly the frames popped on one side
only; with it `BenchCorrect`: a line compares the two captures of one frame.

**`TsBinProofs`, capturing**, for any number of frames, size and division into blocks of the kernel's
ring and capacity of the ring to the matcher: `TypeCorrect`; `CaptureCorrect` (`CaptureInv`), the
inductive invariant.  Seen from the slot the process works on, the slots it owns are the next *n*, the
kernel's next is behind them, and their frames are in the order they came and later than those pushed.
From it `SlotOwned` and `RingHandedOver`.  That the process owns the slot it reads is not inductive alone:
after a release it follows from how the others are arranged.  `WrapIsMod` and `AddressIsIndex` do the
arithmetic of blocks and remainders once.

**`TsBinProofs`, the pipeline**, for all those sizes, hashes and table lengths: `PipelineImplementsMatcher`.
A push is `Matcher`'s step of a frame reaching a ring, because `CaptureInv` says that the frame is later than
all before it; the other steps of a capture are stutters.  The theorems of `MatcherProofs` thereby hold for
the composition: `PipelineMatching` and `PipelineAtMostOnce`.

**`TsBinProofs`, going down**, for any plans of signals: `ClosesOnce`.  That the file is closed at most once is not
inductive; `CloseInv` adds that handlers do not nest with their like, that nothing but SIGTERM and main's own
SIGPIPE reaches main when no SIGINT or SIGHUP is sent, and that once the file is closed the handler that did
it is still on main's stack, past its `fclose`.  A second handler about to close would be a second one for
SIGTERM; hence also that main crashes only while the file is not open yet.

**`StatisticsProofs`, histogram search**, for any boundaries and values: `SearchTypeCorrect`; `SearchCorrect`
(the value lies between the bounds the search still holds); `CountsCorrectly`: with ascending boundaries the
fill that is incremented is that of the bin the value lies in.  For the list of the delays, which does not ascend,
the run shows the same of a bin the value lies in.

**`StatisticsProofs`, token bucket**, for all gains, costs, units and numbers of packets: `BucketTypeCorrect`;
`EnvelopeCorrect` (`EnvelopeInv`: the deficit covers every burst that ends with the last packet) and from it
`SizeSuffices`; `MinimalCorrect` (`MinimalInv`: the deficit is such a burst) and from it `SizeIsMinimal`.  The
two invariants meet: the deficit is the largest burst that may still grow.

**`StatisticsProofs`, sliding window**, for any flows, flows selected, numbers of frames, window lengths and
delays, whatever batches, changes of the window, calibrations and restarts there are:

* `VolumeDoesNotDrift`: the bytes counted are those of the rows.  The invariant is inductive with the types
  (`WindowTypes`); the work is in `BytesAdd`, that the sizes of disjoint sets of frames add up.  The library's
  sum over a set picks elements with `CHOOSE`; `SumSetIsSum` shows that it comes to the sum taken in the order of the
  frames (`Adds`), which `AddsUnion` adds up.
* `BucketsGetOrdered`: a refresh fails only if the first time stamp of the interface is negative, because the
  line that set `START_TIME` is of a later frame or because `DELAY` is larger than the difference, or if a
  calibration has raised `DELAY` between two frames of the session.  Otherwise time stamps are in the order of
  the frames, and `BucketInv` says that no bucket knows one later than that of the last frame read.
* `BinsStayInWindow`: columns count no frame twice, only gaps between successive
  frames and, unless `DELAY` was raised, only frames of the window.
  `BinsInWindow` alone does not survive `drop_older_than`, which looks at time stamps of columns and
  never at frames: `BinsInv` adds that columns follow each other in time and that every frame lies between the
  time stamp of its column and that of the next (`DroppedOlder` is about the columns that stay).  `LastInv` says
  that `LAST_TS` is the time stamp of the flow's last frame in this session, which `LastBeforeFacts` carries
  to each line of a batch.

**`UiSessionProofs`**, for any pipes, number of tools, calibrations and lines: `TypeCorrect`; `SingleWriter`;
`EveryLineKept`.  The inductive invariant keeps three runs per pipe (data, text put off, pipe), each
of which follows the one before (`Places`).  One lemma per operation on the runs (`WritePlaces` and those
after it) says that a line goes from one to the next; what the buttons do is then about flags only.

**`SensorsProofs`**, for any sensors, delays, durations, batches and capacities:

* `AskedOncePerPeriod`.  `PeriodInv`: until a process asks again it waits for the beginning of a period
  (`step` is a multiple of its delay) that is later than every request so far.  `NextStepIsLater` does the
  arithmetic of remainders.
* `NothingIsLost`.  `WaysInv`: seen from the datagrams back to the ring, a sensor's values are in order, and
  their numbers are those below its counter but for the refused ones.  `PopKeeps`, `SendKeeps` and
  `AnswerKeeps` say what one step does to this way; the lemmas on `Concat` before them that order and numbers
  of a concatenation follow from those of its parts.
* Both rest on `ForkInv`: a sensor's process is born once, before which it has done nothing.

**`RequestsProofs`**, for any drivers, any numbers of calls and callbacks and any cycle of sequence numbers
from three on.  `Inv` is inductive: types, what follows from where a thread is (`Places`), `VerdictRight`, and

* `RefInv`: the references to an object are the application's, the callback thread's and the receive thread's,
  and its count is their number; the table names an object somebody holds.  From it `NoDanglingDevice`
  and `SuccessorStays`, and with `QueueInv` the ranges in `TypeCorrect`.
* `AnswerInv`: two requests in flight have different numbers, and a packet with the number of a request in
  flight, wherever it is (network, receive thread, the object's `response_packet`), belongs to that request.
  From it `AnswersOwn`.  `OwnAnswer` speaks of the end of a call only.
* `TruthInv`: a packet that passes for the answer to GET_IDENTITY, wherever it is, holds the device's
  identifier.  With `AnswerInv` it gives `VerdictsRight`: what is judged is such an answer and nothing else, not a
  late packet, an error, one too short or the answer to another request.

`TimeoutsTrue` needs `TimeInv` as well: `request_mutex` is
held by the thread that waits (`LockInv`); every packet under way has a thread that waits for it, at the object
the receive thread takes it to (`WaitInv`); and the number a failed request left behind as expected is not
that of a request through the other object (`StaleInv`), which needs to count how many numbers have been
given out since; there the proof uses that the
cycle has at least three (15 in the code).

**`ConnectionProofs`**, for any number of sockets, losses and callback threads: `TypeCorrect`;
`SocketOfProbe`; the action property `HealthyStays`.  `LockInv` says who holds `socket_mutex` where, and that only
a holder replaces or takes away the socket, after the probe thread has ended.  `NewsInv` follows the news of a
loss from the thread that notices it through the queue to the callback thread: it stays *stale*, that is, about a
socket whose peer is gone or which has been replaced (`StaleStays`), so that `MetaLock`'s comparison of numbers
finds a healthy socket only when it is another one.  `HealthyKept` alone says nothing about news on their way.

**Only model-checked** are the liveness properties: `EveryRecordRead`, `EveryFrameReported`, `AcceptedIsReported`,
`FollowedLineRead`, `SearchEnds`, `LossRepaired`, `DestroyReturns`, `CallReturns`, `AllStop` and `ReaderGoneStops` of
`Lifecycle`, `AllStop` and `EveryValueTaken` of `Sensors`.  Proofs of liveness under fairness, and `ENABLED`, are
beyond the prover.  So are the library's induction theorems, which take a predicate as a parameter; where a
proof needs induction, it uses that a set of natural numbers that is not empty has a least element (`LeastNat`,
`InductionByASet`).


## 5. Assumptions

* Stores become visible to other processes in the order of the source.  It holds on
  x86 without optimisation, which is how the Makefile builds (`-O0`); neither barriers nor atomics
  enforce it elsewhere.  The Makefile's comment "Even -O3 should run fine" (line 13) is beyond this
  assumption: an optimising compiler may move the accesses, and nothing here speaks for it.
* Time stamps and rates are exact; the rounding of floating point is left out.
* A line enters and leaves a pipe in one piece (section 2, **UiSession**): each is flushed by itself and shorter
  than `PIPE_BUF`.  A writer that did otherwise could have its lines cut by reads, and what is then glued
  together is not modelled.
* `DELAY` takes whole values; in the code it is the difference of two means.  Only the order of time stamps
  matters to the properties.
* A frame's position in the order of passing the taps stands for its time stamp at both.
* `Requests`: when a sequence number is used again, the older request with this number is over and its
  response has come or is lost (`Gone`; there are 15 of them and nothing enforces it); a second object for a device is
  created while the first is held by the application or after everybody has let go of it (`AddDevice`,
  see below).
* `Sensors`: clock readings do not go backwards.
* `Lifecycle`: plans with SIGINT or SIGHUP consist of that one signal.


## 6. What the models show of the code

One run expects a violation.  `ip_connection.h:469` says of `ipcon_destroy` that the "threads of
the IP Connection are terminated".  `connection_destroy` shows that `ipcon_disconnect`
returns `E_NOT_CONNECTED` without ending the callback thread when the socket is gone and the
reconnect not yet pending, for example while the callback thread sleeps in line 1703 of
`ip_connection.c`; `ipcon_destroy` ignores that and frees everything the thread uses.

Behaviour that the models follow and that a reader should know of:

* The hash 0 marks an empty slot, so that a frame whose hash is 0 is never matched.
* Two contents that share a table slot: the capture that just came is given up
  (`process_timestamps.c:343`), although the comment in line 275 speaks of dropping the entry
  that waits.  Identical frames in flight at a time shift the pairing; only on the bench's traffic is it right.
* SIGINT's handler is interrupted by the SIGTERM it sends to its own process and closes the
  output file twice.  A single SIGTERM to main while `fopen` waits for a reader closes a null pointer: main
  crashes before it has told the receivers, which live on.  `ClosedOnce` says that under SIGTERM
  this is the only crash; `AllStop` excepts crashes.
* When `mkfifo` fails, main exits and leaves both receivers behind.  When both receivers have failed
  to set up, main gets no line to print: the reader of its pipe may go away and it spins on.
* The help text of `-r` (`main_rxring.c:474`) says "Write unmatched packets per interface"; every capture
  is written, the matched ones too (`process_timestamps.c:335`, `377`).  `RawIsAll` states what the code does.
* `drop_data` leaves what is in the pipes: lines of the old session are data of the new
  one.  A line that arrives alone is put off until another one follows.
* The timer of a detection is not cancelled by Start and Stop: when it fires, it kills whatever
  tool runs by then.
* `get_identity` does not check the device, so it may be called on an object that has been replaced: the
  response goes to the other object and the call times out.  `NoFalseTimeout` excludes it.
* With only flow 0 selected its histograms stay empty, because a line is counted only if its own flow
  is active.
* `START_TIME` is set by the first line of whichever pipe is read first; frames of the other
  pipes may precede it, and then `refresh_buckets` fails with a `ValueError`.  On interface 2 it also does when
  `DELAY` makes the first time stamp negative, or when a calibration raises `DELAY` while a plot runs and the
  next time stamps fall below earlier ones.  `OrderedForBucket` has these cases.
* A raised `DELAY` also makes histogram columns of interface 2 begin out of order; `drop_older_than` counts the
  columns that are too old and drops that many from the front, which are then others (`BinsInWindow`
  excepts it).
* `LAST_TS` says by -1 that a flow has no earlier frame; a time stamp before `START_TIME` is negative too, so
  that the inter-arrival time after it is not counted.
* The boundaries of the delay histogram (`ui/main.py:54`) do not ascend: 6000000 stands between 450000
  and 700000, so that values from 700000 to 6000000 lie in several bins.  `Bins.push` always ends and counts a
  value in one it lies in, but two of the bins (those up to 700000 and 900000) never count anything, and
  what belongs there is counted in that of 450000 to 6000000.
* Stopping a calibration with no data makes `DELAY` a NaN for good.  (Seen in the source; `FlowWindow` has
  whole delays only.)
* Values gathered by the aggregating process when it is stopped are not sent; with one value a
  datagram no ring exists and the process spins for nothing.
* The least delay accepted by `sensor_main.c` is 1 us although the message says 1000 us.
* A loss that the receive thread meets before `ipcon_connect_unlocked` has cleared
  `auto_reconnect_allowed` (line 2152) is never repaired; `LossRepaired` starts after it.
* A thread that reports a loss after the client has detached the callback context uses a null
  pointer; a receive thread whose socket the callback thread closed is not joined and may receive on a null pointer or
  on the next socket; sending to a closed peer raises SIGPIPE, which ends the process.  These
  are the outcomes "crashed" and "killed" of `Connection`.
* Between inserting a device object and marking the one it replaces, another thread may
  release the old one for the last time, which then takes the new one out of the table
  (lines 1238, 2512).  `sensor_main.c` creates each device once; the model assumes it away.


## 7. Hazards and properties

Every property is there for a hazard of the code; the table in `PROJECT.json` relates them.
A mutation for every property, for instance a dropped check, a missing reset or a lock that is
not released, shows that the property notices the mistake it is meant for.


## 8. Not modelled, and why

* *Options, capture filter* (`main_rxring.c`): `getopt` and `pcap_compile` run once before anything is
  shared.
* *Threads, hashes and conversions of `ip_connection.c`*: wrappers of pthread, socket and
  semaphore calls, SHA1, base58, byte order: libraries without state of their own.
* *Authentication and enumeration*: two further requests to the daemon, which go the way of
  `Requests` (the daemon's two functions are among those of `Bricklets`), and a broadcast.
* *Payloads of the drivers*: values and conversions are straight-line code; the callback
  wrappers check a length, convert and call.
* *Sensor view, sensor web UI*: one receiver thread per port that appends to a queue, and
  buttons that start and kill a program with the helper that is modelled for the UI.
* *Plots, grids, colours*: presentation.
* *`get_conflicts`* (`ui/tsncalc.py`): unfinished in the source.
* In `FlowWindow`, `CUMMVOL`, a sum that is never subtracted from, and the histogram of the delays,
  which follows the pattern of the sizes.
* In `UiSession`, a writer whose lines reads could cut (section 5).
* In `FlowWindow`, a `DELAY` that is a NaN or not whole.
* In `Sensors`, what `kill(-1, ...)` after a failed fork does to processes of the user outside the
  program; in `Lifecycle` likewise.
* In `Requests`, sequence numbers used again while an old response is under way, and entering a new device
  object while another thread releases the old one for the last time (section 5, 6).
* In `Connection`: failures to create a thread, auto-reconnect switched off, a second connect by the
  client.


## 9. What could follow

A ring with store buffers, which would show what `head` and `tail` need on other machines; a
second call in `Requests` after a timeout, with a state space that a larger machine can hold (its
theorems hold for any number of calls); `Sensors` with the rings of `RingBuffer` in place of queues, and its
refinement; pids that are used again in `Lifecycle`.
