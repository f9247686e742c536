------------------------------- MODULE FlowWindow -------------------------------
(***************************************************************************)
(* ui/main.py, what evaluate_pipe and refresh_buckets keep of one          *)
(* interface: the rows of a sliding window, the volume per flow in that    *)
(* window, the histogram columns per flow, and the order of time stamps    *)
(* the token bucket relies on.                                             *)
(*                                                                         *)
(* Frames are numbered in the order they pass the interface; a frame's     *)
(* number is its time stamp, and its size too, so that sizes differ.  The  *)
(* UI subtracts START_TIME from a time stamp, and on interface 2 DELAY     *)
(* too, which a calibration changes at any moment: Delays = {0} is         *)
(* interface 1.                                                            *)
(* Flow 0 stands for all traffic.                                          *)
(***************************************************************************)
EXTENDS Integers, Sequences, FiniteSetsExt

CONSTANTS
    MaxFrame,       \* frames (bound)
    Flow,           \* flows with a number above 0
    ACTIVE_FLOWS,   \* the flows selected in the table, maybe 0 among them
    Deltas,         \* lengths the window can be given
    Delays          \* values calibrations give DELAY

ASSUME FlowAssumption ==
    /\ MaxFrame \in Nat
    /\ Flow \subseteq Nat \ {0}
    /\ ACTIVE_FLOWS \subseteq Flow \cup {0}
    /\ Deltas \subseteq Nat
    /\ Delays \subseteq Int

FCS == 4
None == 0
Frame == 1 .. MaxFrame

VARIABLES
    flowOf,             \* the flow of each frame
    TIMEDELTA,          \* length of the window
    DELAY,              \* what is subtracted from the time stamps of interface 2
    read,               \* the last frame read from the pipe
    START_TIME,         \* the time stamp that counts as 0, or None
    ts,                 \* column ts_if1 or ts_if2 of the rows, those that have left included
    DATA,               \* the frames with a row in DATA_IF1 or DATA_IF2
    WINDOW_CUMM_DATA,   \* per active flow, the bytes counted
    bins,               \* per active flow, the columns of SIZE_BINS and IAT_BINS: the
                        \* time stamp a column begins with, the frames and the gaps
                        \* between frames it counts
    LAST_TS,            \* per flow, the time stamp of its last frame, or -1
    lastts,             \* per active flow, Bucket.lastts
    failed,             \* did the last refresh pass a bucket time stamps out of order?
    origin              \* the first frame read since Start, or None

vars == <<flowOf, TIMEDELTA, DELAY, read, START_TIME, ts, DATA, WINDOW_CUMM_DATA, bins,
          LAST_TS, lastts, failed, origin>>

Init ==
    /\ flowOf \in [Frame -> Flow]
    /\ TIMEDELTA \in Deltas
    /\ DELAY = 0
    /\ read = 0
    /\ START_TIME = None
    /\ ts = [f \in Frame |-> 0]
    /\ DATA = {}
    /\ WINDOW_CUMM_DATA = [fl \in ACTIVE_FLOWS |-> 0]
    /\ bins = [fl \in ACTIVE_FLOWS |-> <<>>]
    /\ LAST_TS = [fl \in Flow \cup {0} |-> -1]
    /\ lastts = [fl \in ACTIVE_FLOWS |-> 0]
    /\ failed = FALSE
    /\ origin = None

\* drop_data, but for the buckets
Forget ==
    /\ START_TIME' = None
    /\ ts' = [f \in Frame |-> 0]
    /\ DATA' = {}
    /\ WINDOW_CUMM_DATA' = [fl \in ACTIVE_FLOWS |-> 0]
    /\ bins' = [fl \in ACTIVE_FLOWS |-> <<>>]
    /\ LAST_TS' = [fl \in Flow \cup {0} |-> -1]
    /\ failed' = FALSE
    /\ origin' = None
    /\ UNCHANGED <<flowOf, TIMEDELTA, DELAY, read>>

\* Faulty variant of Start: START_TIME is reset and the buckets are not
StartKeepsBuckets == Forget /\ UNCHANGED lastts

\* start_plot and drop_data; DELAY stays
Start == Forget /\ lastts' = [fl \in ACTIVE_FLOWS |-> 0]

\* update_timedelta
UpdateTimedelta(delta) ==
    /\ TIMEDELTA' = delta
    /\ UNCHANGED <<flowOf, DELAY, read, START_TIME, ts, DATA, WINDOW_CUMM_DATA, bins,
                   LAST_TS, lastts, failed, origin>>

\* stop_calibration: the mean difference of the pairs in DATA is added to DELAY
StopCalibration(delay) ==
    /\ DELAY' = delay
    /\ UNCHANGED <<flowOf, TIMEDELTA, read, START_TIME, ts, DATA, WINDOW_CUMM_DATA, bins,
                   LAST_TS, lastts, failed, origin>>

Of(fl, frames) == IF fl = 0 THEN frames ELSE {f \in frames : flowOf[f] = fl}
Bytes(frames) == SumSet(frames) + FCS * Cardinality(frames)

\* Faulty variant of Dropped: sizes without FCS subtracted
DroppedWithoutFcs(frames) == SumSet(frames)

\* The size column of the rows that leave the window
Dropped(frames) == Bytes(frames)

\* The frames SIZE_BINS counts for a flow: all of an active flow, and for flow 0
\* those of any active flow
Counted(fl, frames) == {f \in Of(fl, frames) : flowOf[f] \in ACTIVE_FLOWS}

\* LAST_TS[fl] when the line of frame f is reached, one of the lines new
LastBefore(fl, f, new, stamp) ==
    LET earlier == {g \in Of(fl, new) : g < f}
    IN  IF earlier = {} THEN LAST_TS[fl] ELSE stamp[Max(earlier)]

\* The gaps IAT_BINS counts for a flow, each with the frame that ends it: none for the first
\* frame of a flow, nor after a time stamp below 0, which looks the same
Gaps(fl, new, stamp) ==
    {[frame |-> f, gap |-> stamp[f] - LastBefore(fl, f, new, stamp)] :
        f \in {g \in Counted(fl, new) : LastBefore(flowOf[g], g, new, stamp) > -1}}

\* Faulty variant of OlderDropped: one column too few goes
OlderDroppedLate(cols, minTs) ==
    LET n == Cardinality({k \in 1 .. Len(cols) : cols[k].ts < minTs})
    IN  SubSeq(cols, IF n = 0 THEN 1 ELSE n, Len(cols))

\* drop_older_than: as many columns off the front as begin before minTs
OlderDropped(cols, minTs) ==
    SubSeq(cols, 1 + Cardinality({k \in 1 .. Len(cols) : cols[k].ts < minTs}), Len(cols))

\* One refresh that reads the frames read+1 .. last of the interface, none if last = read
RefreshWith(last, start) ==
    LET new == read + 1 .. last
        stamp == [f \in Frame |-> IF f \in new THEN f - start - DELAY ELSE ts[f]]
        rows == DATA \cup new
        minTs == Max({stamp[f] : f \in rows}) - TIMEDELTA
        old == {f \in rows : stamp[f] < minTs}
        column(fl) == [ts |-> stamp[read + 1], frames |-> Counted(fl, new),
                       gaps |-> Gaps(fl, new, stamp)]
        pushed(fl) == IF new = {} THEN bins[fl] ELSE Append(bins[fl], column(fl))
        late == {fl \in ACTIVE_FLOWS : \E f \in Of(fl, new) : stamp[f] < lastts[fl]}
    IN
    /\ START_TIME' = start
    /\ origin' = IF origin = None THEN read + 1 ELSE origin
    /\ read' = last
    /\ ts' = stamp
    /\ DATA' = rows \ old
    /\ WINDOW_CUMM_DATA' = [fl \in ACTIVE_FLOWS |->
          WINDOW_CUMM_DATA[fl] + Bytes(Of(fl, new)) - Dropped(Of(fl, old))]
    /\ bins' = [fl \in ACTIVE_FLOWS |-> OlderDropped(pushed(fl), minTs)]
    /\ LAST_TS' = [fl \in DOMAIN LAST_TS |->
          IF Of(fl, new) = {} THEN LAST_TS[fl] ELSE stamp[Max(Of(fl, new))]]
    /\ failed' = (late # {})
    \* refresh_buckets: the first late flow, of either interface, ends it with tsncalc's
    \* ValueError after some of the others
    /\ \E done \in SUBSET (ACTIVE_FLOWS \ late) :
          lastts' = [fl \in ACTIVE_FLOWS |->
                IF fl \in done THEN Max({lastts[fl]} \cup {stamp[f] : f \in Of(fl, new)})
                               ELSE lastts[fl]]
    /\ UNCHANGED <<flowOf, TIMEDELTA, DELAY>>

\* refresh reads the pipes of the pairs, of interface 1 and of interface 2 in turn, and the
\* first line of a session sets START_TIME: it may be of an earlier or a later frame than
\* the interface's first, and stamped by the other one's clock.  Without a row nothing
\* happens.
Refresh(last) ==
    /\ last >= read /\ (last > read \/ DATA # {})
    /\ \E start \in Frame : START_TIME \in {None, start} /\ RefreshWith(last, start)

Next ==
    \/ Start
    \/ \E delta \in Deltas : UpdateTimedelta(delta)
    \/ \E delay \in Delays : StopCalibration(delay)
    \/ \E last \in Frame : Refresh(last)

Spec == Init /\ [][Next]_vars
-------------------------------------------------------------------------------

\* The frames read since Start
Session == IF origin = None THEN {} ELSE origin .. read

\* The DELAY a frame was stamped with
StampedWith(f) == f - START_TIME - ts[f]

\* A calibration has raised DELAY between two frames of this session.
DelayRaised == \E f, g \in Session : f < g /\ StampedWith(f) < StampedWith(g)

\* The volume the rate of a flow is computed from is that of its rows in the
\* window: adding per line and subtracting per window leave no drift, although
\* lines are added for every flow and subtracted for the active ones only, and
\* although a calibration may move the window back.
VolumeOfWindow ==
    \A fl \in ACTIVE_FLOWS : WINDOW_CUMM_DATA[fl] = Bytes(Of(fl, DATA))

\* A gap lies between two successive frames of the flow, both of this session.
Successive(fl, g) ==
    \E p \in Of(fl, Session) :
        /\ p < g.frame /\ Of(fl, p + 1 .. g.frame - 1) = {}
        /\ g.gap = ts[g.frame] - ts[p]

\* A histogram counts no frame twice, and the inter-arrival times it counts are those of
\* successive frames, across batches, windows and restarts; and it counts no frame
\* that has left the window, although columns are dropped by number and not by what
\* they hold, unless DELAY was raised: then columns do not begin in order.
BinsInWindow ==
    \A fl \in ACTIVE_FLOWS : \A k \in 1 .. Len(bins[fl]) :
        /\ ~DelayRaised => bins[fl][k].frames \subseteq Of(fl, DATA)
        /\ \A g \in bins[fl][k].gaps : g.frame \in bins[fl][k].frames /\ Successive(fl, g)
        /\ \A l \in 1 .. Len(bins[fl]) :
              k # l => bins[fl][k].frames \cap bins[fl][l].frames = {}

\* "The timestamps should be passed ordered to tsncalc" (refresh_buckets): with
\* whatever batches, windows and restarts, a refresh of interface 1 ends with tsncalc's
\* ValueError only if the line that set START_TIME is of a later frame than the first
\* capture of the interface; one of interface 2 also if DELAY makes its first time stamp
\* negative, or was raised since.
OrderedForBucket == failed => ts[origin] < 0 \/ DelayRaised
=============================================================================
