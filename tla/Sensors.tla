-------------------------------- MODULE Sensors --------------------------------
(***************************************************************************)
(* sensors/query-sensors: main forks one process per sensor and one that   *)
(* aggregates.  A sensor process asks its bricklet for a value in every    *)
(* period of its delay and sends it in a datagram of its own, or pushes it *)
(* into its ring when values are aggregated; the aggregating process takes *)
(* the rings in turn and sends a datagram for every `batch` values.        *)
(*                                                                         *)
(* The rings are those of ts-bin (RingBuffer implements BoundedFifo), so   *)
(* that pushing and popping are one step here.  A value is its sensor and  *)
(* its number: what was measured is left out.                              *)
(***************************************************************************)
EXTENDS Naturals, Sequences, FiniteSets, SequencesExt

CONSTANTS
    Enabled,    \* the sensors that an option enables
    Capacity,   \* of a ring, 10000 in main
    Batches,    \* the values of --aggregate_pkts
    Delay,      \* per enabled sensor, its period
    Duration    \* how long a sensor process asks

\* aggregate_thread's switch, case 0 to 3
Turn == <<"hum", "tem", "ptc", "lig">>
Sensor == ToSet(Turn)
Proc == Sensor \cup {"aggregator", "main"}

ASSUME SensorsAssumption ==
    /\ Enabled \subseteq Sensor
    /\ Capacity \in Nat \ {0} /\ Duration \in Nat \ {0}
    /\ Batches \subseteq Nat
    /\ Delay \in [Enabled -> Nat \ {0}]

VARIABLES
    batch,      \* aggregate_pkts
    pc,         \* per process: "unborn", "start", "look", "asked", "pushed",
                \* "gather", "wait", "fork" or "ended"
    start, current, step, counter, \* the locals of query_*
    asked,      \* per sensor, the clock readings that led to a request
    full,       \* per sensor, the numbers of the values a full ring refused
    ring,       \* per sensor, the values (records of id and seq) pushed and not popped
    c, buff,    \* the locals of aggregate_thread
    sent,       \* the values in the datagrams sent, in this order (a history)
    signalled   \* the processes with a terminating signal pending

loop == <<start, current, step, counter, asked, full>>
data == <<ring, c, buff, sent>>
vars == <<batch, pc, loop, data, signalled>>

Aggregate == batch > 1
NextStep(s, t) == t - (t % Delay[s]) + Delay[s]
Alive(p) == pc[p] \notin {"unborn", "ended"}

\* A process takes a step of its own only when no signal is pending
At(p, place) == pc[p] = place /\ p \notin signalled

Init ==
    /\ batch \in Batches
    /\ pc = [p \in Proc |-> IF p = "main" THEN "fork" ELSE "unborn"]
    /\ start = [s \in Enabled |-> 0]
    /\ current = [s \in Enabled |-> 0]
    /\ step = [s \in Enabled |-> 0]
    /\ counter = [s \in Enabled |-> 0]
    /\ asked = [s \in Enabled |-> <<>>]
    /\ full = [s \in Enabled |-> {}]
    /\ ring = [s \in Enabled |-> <<>>]
    /\ c = 0
    /\ buff = <<>>
    /\ sent = <<>>
    /\ signalled = {}

(***************************************************************************)
(* main                                                                    *)
(***************************************************************************)

\* t1 to t5, in this order
Children == <<"lig", "ptc", "tem", "hum", "aggregator">>
Forked == {p \in ToSet(Children) : pc[p] # "unborn"}

\* What a child does first; one whose sensor is not enabled, or that has nothing to
\* aggregate, returns from main
Born(p) ==
    CASE p \in Enabled -> "start"
      [] p = "aggregator" /\ batch > 0 -> "gather"
      [] OTHER -> "ended"

\* fork fails, or the aggregator's setup_socket does: that process is gone at once, and
\* main goes on.  (The pid is then -1, and kill(-1, ...) reaches all others, as does
\* the 0 of a pid that is not set.)
Fork ==
    /\ At("main", "fork")
    /\ LET child == Children[Cardinality(Forked) + 1]
       IN \E place \in {Born(child), "ended"} :
              pc' = [pc EXCEPT ![child] = place,
                               !["main"] = IF child = "aggregator" THEN "wait" ELSE "fork"]
    /\ UNCHANGED <<batch, loop, data, signalled>>

\* SIGCHLD is ignored, so that wait(NULL) returns when the last child has ended
Waited ==
    /\ At("main", "wait")
    /\ \A p \in ToSet(Children) : pc[p] = "ended"
    /\ pc' = [pc EXCEPT !["main"] = "ended"]
    /\ UNCHANGED <<batch, loop, data, signalled>>

(***************************************************************************)
(* query_light, query_temp_ptc, query_temp_amb, query_humidity             *)
(***************************************************************************)

End(p) ==
    /\ pc' = [pc EXCEPT ![p] = "ended"]
    /\ UNCHANGED <<batch, loop, data, signalled>>

\* What timespec_get may return; processes share no clock readings, so that each has a
\* clock of its own, and a reading that shows no progress is no step.  The end of the loop
\* is not overshot by more than a unit (bound).
Readings(s) == current[s] .. start[s] + Duration + 1

\* ipcon_connect, and the first reading: at any point of a period
Connect(s) ==
    /\ At(s, "start")
    /\ pc' = [pc EXCEPT ![s] = "look"]
    /\ \E t \in 0 .. Delay[s] - 1 :
          /\ start' = [start EXCEPT ![s] = t]
          /\ current' = [current EXCEPT ![s] = t]
          /\ step' = [step EXCEPT ![s] = NextStep(s, t)]
    /\ UNCHANGED <<batch, counter, asked, full, data, signalled>>

ConnectFails(s) == At(s, "start") /\ End(s)

InTime(s) == current[s] < start[s] + Duration

\* Nothing to do yet: read the clock again
Look(s) ==
    /\ At(s, "look") /\ InTime(s) /\ current[s] < step[s]
    /\ \E t \in Readings(s) \ {current[s]} : current' = [current EXCEPT ![s] = t]
    /\ UNCHANGED <<batch, pc, start, step, counter, asked, full, data, signalled>>

Ask(s) ==
    /\ At(s, "look") /\ InTime(s) /\ current[s] >= step[s]
    /\ pc' = [pc EXCEPT ![s] = "asked"]
    /\ asked' = [asked EXCEPT ![s] = Append(@, current[s])]
    /\ UNCHANGED <<batch, start, current, step, counter, full, data, signalled>>

\* The bricklet does not answer in time, or the datagram cannot be sent
AskFails(s) == At(s, "asked") /\ End(s)

Value(s) == [id |-> s, seq |-> counter[s]]

\* ring_push, whose failure is reported and nothing else
Push(s) ==
    IF Len(ring[s]) < Capacity
    THEN /\ ring' = [ring EXCEPT ![s] = Append(@, Value(s))]
         /\ full' = full
    ELSE /\ full' = [full EXCEPT ![s] = @ \cup {counter[s]}]
         /\ ring' = ring

Answer(s) ==
    /\ At(s, "asked")
    /\ IF Aggregate
       THEN Push(s) /\ sent' = sent
       ELSE /\ sent' = Append(sent, Value(s))
            /\ UNCHANGED <<ring, full>>
    /\ counter' = [counter EXCEPT ![s] = @ + 1]
    /\ pc' = [pc EXCEPT ![s] = "pushed"]
    /\ UNCHANGED <<batch, start, current, step, asked, c, buff, signalled>>

\* Faulty variant of Reschedule: as in the line that is commented out
RescheduleAdds(s) ==
    /\ At(s, "pushed")
    /\ \E t \in Readings(s) : current' = [current EXCEPT ![s] = t]
    /\ step' = [step EXCEPT ![s] = @ + Delay[s]]
    /\ pc' = [pc EXCEPT ![s] = "look"]
    /\ UNCHANGED <<batch, start, counter, asked, full, data, signalled>>

\* The next period is the one that follows the answer: periods may be skipped
Reschedule(s) ==
    /\ At(s, "pushed")
    /\ \E t \in Readings(s) :
          /\ current' = [current EXCEPT ![s] = t]
          /\ step' = [step EXCEPT ![s] = NextStep(s, t)]
    /\ pc' = [pc EXCEPT ![s] = "look"]
    /\ UNCHANGED <<batch, start, counter, asked, full, data, signalled>>

Finish(s) == At(s, "look") /\ ~InTime(s) /\ End(s)

(***************************************************************************)
(* aggregate_thread                                                        *)
(***************************************************************************)

\* The ring whose turn it is; it is NULL (here: empty) if its sensor is not enabled or
\* nothing is aggregated
Pop(s) ==
    /\ s \in Enabled /\ ring[s] # <<>>
    /\ buff' = Append(buff, Head(ring[s]))
    /\ ring' = [ring EXCEPT ![s] = Tail(@)]

\* Faulty variant of Gather: stay with a ring until it has a value
GatherWaits ==
    /\ At("aggregator", "gather") /\ Len(buff) < batch
    /\ Pop(Turn[c + 1])
    /\ c' = (c + 1) % 4
    /\ UNCHANGED <<batch, pc, loop, sent, signalled>>

Gather ==
    /\ At("aggregator", "gather") /\ Len(buff) < batch
    /\ LET s == Turn[c + 1]
       IN \/ Pop(s)
          \/ (s \in Enabled => ring[s] = <<>>) /\ UNCHANGED <<ring, buff>>
    /\ c' = (c + 1) % 4
    /\ UNCHANGED <<batch, pc, loop, sent, signalled>>

\* Faulty variant of Send: without i = 0 for the last value
SendKeepsLast ==
    /\ At("aggregator", "gather") /\ Len(buff) = batch
    /\ sent' = sent \o buff
    /\ buff' = <<Last(buff)>>
    /\ UNCHANGED <<batch, pc, loop, ring, c, signalled>>

Send ==
    /\ At("aggregator", "gather") /\ Len(buff) = batch
    /\ sent' = sent \o buff
    /\ buff' = <<>>
    /\ UNCHANGED <<batch, pc, loop, ring, c, signalled>>

SendFails == At("aggregator", "gather") /\ Len(buff) = batch /\ End("aggregator")

(***************************************************************************)
(* Signals                                                                 *)
(***************************************************************************)

\* SIGINT, SIGTERM or SIGHUP to one process (bound)
Signal(p) ==
    /\ signalled = {} /\ Alive(p)
    /\ signalled' = {p}
    /\ UNCHANGED <<batch, pc, loop, data>>

\* Faulty variant of Targets: t5 is left out
TargetsButT5(p) ==
    IF p = "main" /\ pc["main"] = "wait" THEN ToSet(Children) \ {"aggregator"}
                                         ELSE {q \in Proc : Alive(q)}

\* The targets of sig_handler in process p.  A pid that is not set is 0, the whole process
\* group: in a child that is its own, in main those that it has not forked yet.
Targets(p) ==
    IF p = "main" /\ pc["main"] = "wait" THEN ToSet(Children) ELSE {q \in Proc : Alive(q)}

Handle(p) ==
    /\ p \in signalled
    /\ signalled' = (signalled \cup {q \in Targets(p) : Alive(q)}) \ {p}
    /\ pc' = [pc EXCEPT ![p] = "ended"]
    /\ UNCHANGED <<batch, loop, data>>

Query(s) ==
    \/ Connect(s) \/ ConnectFails(s) \/ Look(s) \/ Ask(s) \/ AskFails(s)
    \/ Answer(s) \/ Reschedule(s) \/ Finish(s)
Main == Fork \/ Waited
AggregateThread == Gather \/ Send \/ SendFails

Next ==
    \/ Main \/ AggregateThread
    \/ \E s \in Enabled : Query(s)
    \/ \E p \in Proc : Signal(p) \/ Handle(p)

Spec == Init /\ [][Next]_vars

\* The scheduler runs every process, time passes and a pending signal is delivered
Fairness ==
    /\ WF_vars(Main) /\ WF_vars(AggregateThread)
    /\ \A s \in Enabled : WF_vars(Query(s))
    /\ \A p \in Proc : WF_vars(Handle(p))

FairSpec == Spec /\ Fairness

(***************************************************************************)
(* Properties                                                              *)
(***************************************************************************)
\* However long requests take, a sensor is asked at most once in each period of its delay:
\* late answers skip periods and never cause a burst.
OnePerPeriod ==
    \A s \in Enabled : \A i \in 2 .. Len(asked[s]) :
        asked[s][i] \div Delay[s] > asked[s][i - 1] \div Delay[s]

\* What was sent, is gathered or waits in the ring of s, in this order
Way(s) == sent \o buff \o ring[s]

\* The numbers of the values of s among these
Numbers(s, values) == {values[i].seq : i \in {j \in 1 .. Len(values) : values[j].id = s}}

\* No value overtakes an earlier one of its sensor.
InOrder(s, values) ==
    \A i, j \in 1 .. Len(values) :
        values[i].id = s /\ values[j].id = s /\ i < j => values[i].seq < values[j].seq

\* Across ring, aggregation and datagrams no value is lost, doubled or overtaken by a later
\* one of its sensor: the numbers have gaps exactly where a push found the ring full.
AllAccountedFor ==
    \A s \in Enabled :
        /\ InOrder(s, Way(s))
        /\ Numbers(s, Way(s)) = (0 .. counter[s] - 1) \ full[s]

Waits(s, n) == \E i \in 1 .. Len(ring[s]) : ring[s][i].seq = n

\* The aggregating process, while it lives, takes every value out of its ring, whether or
\* not the other sensors deliver anything.  (A sensor is asked at most Duration - 1 times.)
EveryValueTaken ==
    \A s \in Enabled : \A n \in 0 .. Duration - 2 :
        Waits(s, n) ~> (~Waits(s, n) \/ ~Alive("aggregator"))

\* A signal to any process, while they come up too, ends all of them.
AllStop == (signalled # {}) ~> (\A p \in Proc : ~Alive(p))
=============================================================================
