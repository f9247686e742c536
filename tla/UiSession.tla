------------------------------- MODULE UiSession -------------------------------
(***************************************************************************)
(* ui/main.py as the supervisor and the reader of ts_ring_hw: the buttons  *)
(* Detect, Start, Stop and Calibrate, the timers they set, the periodic    *)
(* refresh and the named pipes.  Every callback runs to its end in one     *)
(* event loop, so each is one action; between two callbacks the tool may   *)
(* write, and any timer may be the next to fire.                           *)
(*                                                                         *)
(* The UI holds the reading ends of the pipes open all its life: what a    *)
(* tool wrote stays there when the tool is killed.                         *)
(*                                                                         *)
(* A line is whole or not there.  The tool flushes each line, of some 100  *)
(* bytes, by itself (process_timestamps.c:112-116); a write of fewer than  *)
(* PIPE_BUF bytes enters a pipe in one piece, also when the writer blocks  *)
(* or is killed, and readlines reads to the end of what is there.  So what *)
(* the UI puts off is always a whole line, never the first part of one.    *)
(***************************************************************************)
EXTENDS Integers, Sequences

CONSTANTS
    Pipe,       \* the pipes read: 0 for the pairs, 1 and 2 for the interfaces
    PipeSize,   \* lines a pipe holds before its writer blocks
    MaxTool,    \* tools started (bound)
    MaxCal,     \* calibrations under way at a time (bound)
    MaxLine     \* lines written per pipe (bound)

ASSUME UiAssumption ==
    /\ Pipe \subseteq 0 .. 2
    /\ PipeSize \in Nat \ {0}
    /\ MaxTool \in Nat \ {0}
    /\ MaxCal \in Nat
    /\ MaxLine \in Nat

Tool == 1 .. MaxTool
None == 0
Line == 1 .. MaxLine     \* a line, by its number in its pipe

VARIABLES
    RUNNING, DETECTING, CALIBRATING,
    CAPTURE_PROCESS,    \* the tool the UI remembers, or None
    tools,              \* how many were started so far; the last is the newest
    alive,              \* the tools that live
    raw,                \* those that were started with -r
    timers,             \* stop_detecting timers that are still to fire
    calTimers,          \* stop_calibration timers that are still to fire
    written,            \* per pipe, the number of the last line written
    pipe,               \* per pipe, the lines not read yet
    LINECACHE,          \* per pipe, the lines put off
    DATA,               \* per pipe, the lines worked on since drop_data, in
                        \* DATA, DATA_IF1, DATA_IF2 (before they grow old)
    dropped             \* per pipe, the last line that drop_data deleted

flags == <<RUNNING, DETECTING, CALIBRATING>>
procs == <<CAPTURE_PROCESS, tools, alive, raw>>
lines == <<written, pipe, LINECACHE, DATA, dropped>>
vars == <<RUNNING, DETECTING, CALIBRATING, CAPTURE_PROCESS, tools, alive, raw,
          timers, calTimers, written, pipe, LINECACHE, DATA, dropped>>

\* CAPTURE_PROCESS = subprocess.Popen(APP...) when `living` tools live on
Popen(living, withRaw) ==
    /\ tools < MaxTool
    /\ tools' = tools + 1
    /\ alive' = living \cup {tools'}
    /\ CAPTURE_PROCESS' = tools'
    /\ raw' = IF withRaw THEN raw \cup {tools'} ELSE raw

\* startup: the pipes are opened and the first detection runs
Init ==
    /\ RUNNING = FALSE /\ DETECTING = TRUE /\ CALIBRATING = FALSE
    /\ tools = 1 /\ alive = {1} /\ CAPTURE_PROCESS = 1 /\ raw = {}
    /\ timers = 1 /\ calTimers = 0
    /\ written = [i \in Pipe |-> 0]
    /\ pipe = [i \in Pipe |-> <<>>]
    /\ LINECACHE = [i \in Pipe |-> <<>>]
    /\ DATA = [i \in Pipe |-> <<>>]
    /\ dropped = [i \in Pipe |-> 0]

(***************************************************************************)
(* The tool                                                                *)
(***************************************************************************)

\* print_msgdata_to_fptr: one line, in one piece; the pairs always, the interfaces only
\* with -r
Write(t, i) ==
    /\ t \in alive
    /\ i = 0 \/ t \in raw
    /\ written[i] < MaxLine
    /\ Len(pipe[i]) < PipeSize
    /\ written' = [written EXCEPT ![i] = @ + 1]
    /\ pipe' = [pipe EXCEPT ![i] = Append(@, written'[i])]
    /\ UNCHANGED <<flags, procs, timers, calTimers, LINECACHE, DATA, dropped>>

(***************************************************************************)
(* The buttons and the timers                                              *)
(***************************************************************************)

\* detect.  (Its RUNNING = True only sets a local variable.)
Detect ==
    /\ Popen(alive \ {CAPTURE_PROCESS}, FALSE)
    /\ DETECTING' = TRUE
    /\ timers' = timers + 1
    /\ UNCHANGED <<RUNNING, CALIBRATING, calTimers, lines>>

\* Faulty variant of StopDetecting: the tool is forgotten and not killed
StopDetectingForgets ==
    /\ timers > 0
    /\ timers' = timers - 1
    /\ DETECTING' = FALSE
    /\ CAPTURE_PROCESS' = None
    /\ UNCHANGED <<RUNNING, CALIBRATING, alive, tools, raw, calTimers, lines>>

\* stop_detecting, from the timer
StopDetecting ==
    /\ timers > 0
    /\ timers' = timers - 1
    /\ DETECTING' = FALSE
    /\ alive' = alive \ {CAPTURE_PROCESS}
    /\ CAPTURE_PROCESS' = None
    /\ UNCHANGED <<RUNNING, CALIBRATING, tools, raw, calTimers, lines>>

\* drop_data.  What is still in the pipes it leaves there.
DropData ==
    /\ LINECACHE' = [i \in Pipe |-> <<>>]
    /\ DATA' = [i \in Pipe |-> <<>>]
    /\ dropped' = [i \in Pipe |-> written[i] - Len(pipe[i])]

\* start_plot: stop_plot if RUNNING, drop_data, killall, Popen with -r
Start ==
    /\ Popen({}, TRUE)
    /\ RUNNING' = TRUE
    /\ DropData
    /\ UNCHANGED <<DETECTING, CALIBRATING, timers, calTimers, written, pipe>>

\* stop_plot
Stop ==
    /\ RUNNING' = FALSE
    /\ alive' = {}
    /\ CAPTURE_PROCESS' = None
    /\ UNCHANGED <<DETECTING, CALIBRATING, tools, raw, timers, calTimers, lines>>

\* start_calibration and stop_calibration, without what they compute
StartCalibration ==
    /\ calTimers < MaxCal
    /\ CALIBRATING' = TRUE
    /\ calTimers' = calTimers + 1
    /\ UNCHANGED <<RUNNING, DETECTING, procs, timers, lines>>

StopCalibration ==
    /\ calTimers > 0
    /\ CALIBRATING' = FALSE
    /\ calTimers' = calTimers - 1
    /\ UNCHANGED <<RUNNING, DETECTING, procs, timers, lines>>

(***************************************************************************)
(* refresh                                                                 *)
(***************************************************************************)

Front(s) == SubSeq(s, 1, Len(s) - 1)
Last(s) == s[Len(s)]

\* Faulty variant of Taken: what was put off is not put in front
TakenWithoutCache(cache, text) == IF Len(text) < 2 THEN <<>> ELSE Front(text)

\* evaluate_pipe reads all lines, glues the put-off text to the first one, puts
\* the last one off and works through the others.  A single line is thereby
\* glued, put off and not worked on.  The put-off text consists of whole lines, each
\* still with the comma at its end: glued to another line it is taken apart again, ten
\* fields at a time.
Taken(cache, text) == IF Len(text) < 2 THEN <<>> ELSE cache \o Front(text)
PutOff(cache, text) ==
    CASE text = <<>>    -> cache
      [] Len(text) = 1  -> cache \o text
      [] OTHER          -> <<Last(text)>>

Evaluate(read) ==
    LET Work(i) == DATA[i] \o Taken(LINECACHE[i], pipe[i])
        Keep(i) == PutOff(LINECACHE[i], pipe[i])
    IN
    /\ DATA' = [i \in Pipe |-> IF i \in read THEN Work(i) ELSE DATA[i]]
    /\ LINECACHE' = [i \in Pipe |-> IF i \in read THEN Keep(i) ELSE LINECACHE[i]]
    /\ pipe' = [i \in Pipe |-> IF i \in read THEN <<>> ELSE pipe[i]]

\* Faulty variant of Refresh: the pipes of the interfaces are forgotten
RefreshPairsOnly ==
    /\ RUNNING \/ DETECTING \/ CALIBRATING
    /\ Evaluate({0})
    /\ UNCHANGED <<flags, procs, timers, calTimers, written, dropped>>

\* refresh.  (The pipes are read one after the other, pipe 0 twice when a
\* detection or a calibration meets a running plot, while the tool writes.  For
\* each pipe that is one or two of these reads, and nothing below relates two.)
Refresh ==
    /\ RUNNING \/ DETECTING \/ CALIBRATING
    /\ Evaluate(IF RUNNING THEN Pipe ELSE {0})
    /\ UNCHANGED <<flags, procs, timers, calTimers, written, dropped>>

Buttons == Detect \/ Start \/ Stop \/ StartCalibration
Timers == StopDetecting \/ StopCalibration \/ Refresh

Next ==
    \/ Buttons
    \/ Timers
    \/ \E t \in Tool, i \in Pipe : Write(t, i)

Spec == Init /\ [][Next]_vars

\* Timers fire.  Nothing is promised of the user or of the tool.
FairSpec ==
    /\ Spec
    /\ WF_vars(Refresh) /\ WF_vars(StopDetecting) /\ WF_vars(StopCalibration)
-------------------------------------------------------------------------------
TypeOK ==
    /\ RUNNING \in BOOLEAN /\ DETECTING \in BOOLEAN /\ CALIBRATING \in BOOLEAN
    /\ CAPTURE_PROCESS \in Tool \cup {None}
    /\ tools \in Tool
    /\ alive \subseteq 1 .. tools
    /\ raw \subseteq 1 .. tools
    /\ timers \in 0 .. MaxTool
    /\ calTimers \in 0 .. MaxCal
    /\ written \in [Pipe -> 0 .. MaxLine]
    /\ pipe \in [Pipe -> Seq(Line)]
    /\ LINECACHE \in [Pipe -> Seq(Line)]
    /\ DATA \in [Pipe -> Seq(Line)]
    /\ dropped \in [Pipe -> 0 .. MaxLine]

\* Whatever is clicked while whichever timer runs: no tool lives that the UI does
\* not know, so two never write to the pipes at once and Stop stops them all.
OneWriter == alive \subseteq {CAPTURE_PROCESS}

\* What the data, the put-off lines and the pipe hold is every line written since
\* the data were last dropped, once and in order: nothing between the tool and
\* the data gets lost or doubled, whichever line a read ends with and puts off, and
\* however reads, kills and restarts fall.
LinesKept ==
    \A i \in Pipe :
        LET all == DATA[i] \o LINECACHE[i] \o pipe[i] IN
        /\ Len(all) = written[i] - dropped[i]
        /\ \A k \in 1 .. Len(all) : all[k] = dropped[i] + k

\* Line n was worked on, or a button has been pressed that may keep it from being
Settled(i, n, t) ==
    \/ \E k \in 1 .. Len(DATA[i]) : DATA[i][k] = n
    \/ ~RUNNING
    \/ tools # t

\* With a plot running, a line that has a successor in the pipe is worked on,
\* whatever was put off before it.
FollowedLineRead ==
    \A i \in Pipe : \A n \in 1 .. MaxLine : \A t \in Tool :
        (RUNNING /\ tools = t /\ \E k \in 1 .. Len(pipe[i]) - 1 : pipe[i][k] = n)
            ~> Settled(i, n, t)

=============================================================================
