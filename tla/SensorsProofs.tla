----------------------------- MODULE SensorsProofs -----------------------------
(***************************************************************************)
(* Proofs about Sensors, for all sensors, rings, batches, delays and       *)
(* durations: children come up in their order; a sensor is asked at most   *)
(* once in each period of its delay; and no value is lost, doubled or      *)
(* overtaken on its way into a datagram.                                   *)
(***************************************************************************)
EXTENDS Sensors, Integers, FiniteSetTheorems, SequenceTheorems, TLAPS

(***************************************************************************)
(* Periods                                                                 *)
(***************************************************************************)

LEMMA DivMod ==
    ASSUME NEW D \in Nat \ {0}, NEW t \in Nat
    PROVE  /\ t \div D \in Nat /\ t % D \in 0 .. D - 1
           /\ t = D * (t \div D) + (t % D)
<1>1. t % D \in 0 .. D - 1
    OBVIOUS
<1>2. t \div D \in Int
    OBVIOUS
<1>3. D * (t \div D) = t - (t % D)
    OBVIOUS
<1>4. t \div D >= 0
    OBVIOUS
<1> QED
    BY <1>1, <1>2, <1>3, <1>4

LEMMA MulMono == ASSUME NEW D \in Nat \ {0}, NEW x \in Int, NEW y \in Int, D * x < D * y + D
                 PROVE x <= y
<1> SUFFICES ASSUME x >= y + 1 PROVE FALSE
    OBVIOUS
<1>1. D * x >= D * (y + 1)
    OBVIOUS
<1> QED
    BY <1>1

LEMMA DivLess ==
    ASSUME NEW D \in Nat \ {0}, NEW a \in Nat, NEW m \in Nat, NEW t \in Nat, a < m, m % D = 0, m <= t
    PROVE  a \div D < t \div D
<1> DEFINE qa == a \div D
           qm == m \div D
           qt == t \div D
<1>1. /\ qa \in Nat /\ qm \in Nat /\ qt \in Nat
      /\ a = D * qa + (a % D) /\ a % D \in 0 .. D - 1
      /\ m = D * qm
      /\ t = D * qt + (t % D) /\ t % D \in 0 .. D - 1
  <2>1. qa \in Nat /\ a = D * qa + (a % D) /\ a % D \in 0 .. D - 1
      BY DivMod
  <2>2. qm \in Nat /\ m = D * qm + (m % D)
      BY DivMod
  <2>3. qt \in Nat /\ t = D * qt + (t % D) /\ t % D \in 0 .. D - 1
      BY DivMod
  <2> HIDE DEF qa, qm, qt
  <2> QED
      BY <2>1, <2>2, <2>3
<1> HIDE DEF qa, qm, qt
<1>2. D * qa < D * qm /\ D * qm < D * qt + D
    BY <1>1
<1>3. qm <= qt
    BY <1>1, <1>2, MulMono
<1>4. qa < qm
    BY <1>1, <1>2
<1> QED
    BY <1>1, <1>3, <1>4 DEF qa, qt

LEMMA NextStepIsLater ==
    ASSUME NEW D \in Nat \ {0}, NEW t \in Nat
    PROVE  /\ t - (t % D) + D \in Nat
           /\ t - (t % D) + D > t
           /\ (t - (t % D) + D) % D = 0
<1> DEFINE q == t \div D
<1>1. q \in Nat /\ t = D * q + (t % D) /\ t % D \in 0 .. D - 1
    BY DivMod
<1> HIDE DEF q
<1>2. t - (t % D) + D = D * (q + 1)
    BY <1>1
<1>3. (D * (q + 1)) % D = 0
  <2> DEFINE n == D * (q + 1)
  <2>1. n \in Nat
      BY <1>1
  <2>2. n = D * (n \div D) + (n % D) /\ n % D \in 0 .. D - 1 /\ n \div D \in Nat
      BY <2>1, DivMod
  <2> HIDE DEF n
  <2>3. n = D * (q + 1)
      BY DEF n
  <2>4. n \div D <= q + 1
      BY <1>1, <2>2, <2>3, MulMono
  <2>5. q + 1 <= n \div D
      BY <1>1, <2>2, <2>3, MulMono
  <2>6. n \div D = q + 1
      BY <1>1, <2>2, <2>4, <2>5
  <2>7. n = D * (q + 1) + (n % D)
      BY <2>2, <2>6
  <2>8. n % D = 0
      BY <1>1, <2>2, <2>3, <2>7
  <2> QED
      BY <2>3, <2>8
<1> QED
    BY <1>1, <1>2, <1>3

(***************************************************************************)
(* Types                                                                   *)
(***************************************************************************)

Places == {"unborn", "start", "look", "asked", "pushed", "gather", "wait", "fork", "ended"}
Values == [id : Enabled, seq : Nat]

ProcTypes ==
    /\ batch \in Nat
    /\ pc \in [Proc -> Places]
    /\ signalled \subseteq Proc

LoopTypes ==
    /\ start \in [Enabled -> Nat] /\ current \in [Enabled -> Nat]
    /\ step \in [Enabled -> Nat] /\ counter \in [Enabled -> Nat]
    /\ asked \in [Enabled -> Seq(Nat)]
    /\ full \in [Enabled -> SUBSET Nat]

DataTypes ==
    /\ ring \in [Enabled -> Seq(Values)]
    /\ c \in 0 .. 3
    /\ buff \in Seq(Values) /\ sent \in Seq(Values)

Types == ProcTypes /\ LoopTypes /\ DataTypes

\* Children are born once, in their order, and signals go to those who were born.
ForkInv ==
    /\ pc["main"] # "unborn"
    /\ \A p \in signalled : pc[p] # "unborn"
    /\ \E n \in 0 .. 5 :
          /\ \A k \in 1 .. 5 : pc[Children[k]] # "unborn" <=> k <= n
          /\ pc["main"] = "fork" => n < 5

\* Until it asks again, a sensor process waits for a period that begins after all it asked in.
PeriodOf(s) ==
    /\ pc[s] \in {"unborn", "start"} => asked[s] = <<>>
    /\ pc[s] = "look" =>
          /\ step[s] % Delay[s] = 0
          /\ \A i \in 1 .. Len(asked[s]) : asked[s][i] < step[s]
    /\ pc[s] \in {"asked", "pushed"} =>
          \A i \in 1 .. Len(asked[s]) : asked[s][i] <= current[s]

\* OnePerPeriod for one sensor
Spread(s) ==
    \A i \in 2 .. Len(asked[s]) : asked[s][i] \div Delay[s] > asked[s][i - 1] \div Delay[s]

PeriodInv == \A s \in Enabled : PeriodOf(s) /\ Spread(s)

\* All values of this sequence are earlier ones of s than those of that
Before(s, earlier, later) ==
    \A i \in 1 .. Len(earlier) : \A j \in 1 .. Len(later) :
        earlier[i].id = s /\ later[j].id = s => earlier[i].seq < later[j].seq

\* AllAccountedFor for one sensor, whose ring holds no other's values and which only what it
\* has measured is missing from
WayInv(s) ==
    /\ \A i \in 1 .. Len(ring[s]) : ring[s][i].id = s
    /\ full[s] \subseteq 0 .. counter[s] - 1
    /\ InOrder(s, Way(s))
    /\ Numbers(s, Way(s)) = (0 .. counter[s] - 1) \ full[s]

\* Without aggregation nothing passes the rings.
Unused == ~Aggregate => buff = <<>> /\ \A s \in Enabled : ring[s] = <<>>

WaysInv == Unused /\ \A s \in Enabled : WayInv(s)

LEMMA SensorFacts ==
    /\ Enabled \subseteq {"hum", "tem", "ptc", "lig"}
    /\ Enabled \subseteq Proc /\ "main" \in Proc /\ "aggregator" \in Proc
    /\ "main" \notin Enabled /\ "aggregator" \notin Enabled
    /\ \A k \in 1 .. 5 : Children[k] \in Proc
    /\ \A s \in Enabled : Delay[s] \in Nat \ {0}
<1>1. Sensor = {"hum", "tem", "ptc", "lig"}
    BY DEF Sensor, ToSet, Turn
<1> QED
    BY <1>1, SensorsAssumption DEF Proc, Children

LEMMA ChildrenFacts ==
    /\ \A k \in 1 .. 5 : Children[k] \in Proc \ {"main"} /\ (Children[k] = "aggregator" <=> k = 5)
    /\ \A k, l \in 1 .. 5 : Children[k] = Children[l] => k = l
<1>1. Proc = {"hum", "tem", "ptc", "lig", "aggregator", "main"}
    BY DEF Proc, Sensor, ToSet, Turn
<1>2. /\ Children[1] = "lig" /\ Children[2] = "ptc" /\ Children[3] = "tem"
      /\ Children[4] = "hum" /\ Children[5] = "aggregator"
    BY DEF Children
<1> HIDE DEF Children
<1> QED
    BY <1>1, <1>2

LEMMA TypesInit == Init => Types
<1> SUFFICES ASSUME Init PROVE Types
    OBVIOUS
<1>1. ProcTypes
    BY SensorFacts, SensorsAssumption DEF Init, ProcTypes, Places
<1>2. LoopTypes
    BY EmptySeq DEF Init, LoopTypes
<1>3. DataTypes
    BY EmptySeq DEF Init, DataTypes
<1> QED
    BY <1>1, <1>2, <1>3 DEF Types

LEMMA ProcTypesStep == ASSUME Types, Next PROVE ProcTypes'
<1>t. pc \in [Proc -> Places] /\ signalled \subseteq Proc /\ batch \in Nat
    BY DEF Types, ProcTypes
<1>f. Enabled \subseteq Proc /\ "main" \in Proc /\ "aggregator" \in Proc
    BY SensorFacts
<1> SUFFICES pc' \in [Proc -> Places] /\ signalled' \subseteq Proc /\ batch' \in Nat
    BY DEF ProcTypes
<1>1. CASE Fork
  <2> DEFINE child == Children[Cardinality(Forked) + 1]
  <2>1. Born(child) \in Places /\ "wait" \in Places /\ "fork" \in Places
      BY DEF Born, Places
  <2>2. \E place, at \in Places : pc' = [pc EXCEPT ![child] = place, !["main"] = at]
      BY <1>1, <2>1 DEF Fork, Places
  <2> HIDE DEF child
  <2> QED
      BY <1>t, <1>1, <2>1, <2>2 DEF Fork
<1>2. CASE Waited
    BY <1>t, <1>2 DEF Waited, Places
<1>3. CASE Gather \/ Send
    BY <1>t, <1>3 DEF Gather, Send
<1>4. CASE SendFails
    BY <1>t, <1>4 DEF SendFails, End, Places
<1>5. ASSUME NEW s \in Enabled, Query(s) PROVE ProcTypes'
  <2>1. UNCHANGED <<batch, signalled>>
      BY <1>5 DEF Query, Connect, ConnectFails, Look, Ask, AskFails, Answer, Reschedule, Finish, End, data
  <2>2. \E at \in Places : pc' = [pc EXCEPT ![s] = at]
    <3>1. pc = [pc EXCEPT ![s] = pc[s]] /\ pc[s] \in Places
        BY <1>t, <1>f
    <3>2. {"look", "asked", "pushed", "ended"} \subseteq Places
        BY DEF Places
    <3> QED
        BY <1>5, <3>1, <3>2
           DEF Query, Connect, ConnectFails, Look, Ask, AskFails, Answer, Reschedule, Finish, End
  <2> QED
      BY <1>t, <1>f, <2>1, <2>2 DEF ProcTypes
<1>6. ASSUME NEW p \in Proc, Signal(p) PROVE ProcTypes'
    BY <1>t, <1>6 DEF Signal, ProcTypes
<1>7. ASSUME NEW p \in Proc, Handle(p) PROVE ProcTypes'
  <2>1. Targets(p) \subseteq Proc
      BY SensorFacts DEF Targets, ToSet, Children, Proc, Sensor, Turn
  <2> QED
      BY <1>t, <1>7, <2>1 DEF Handle, ProcTypes, Places
<1> QED
    BY <1>1, <1>2, <1>3, <1>4, <1>5, <1>6, <1>7 DEF Next, Main, AggregateThread, ProcTypes

LEMMA LoopTypesStep == ASSUME Types, Next PROVE LoopTypes'
<1>t. LoopTypes
    BY DEF Types
<1>1. ASSUME Main \/ AggregateThread \/ \E p \in Proc : Signal(p) \/ Handle(p)
      PROVE  LoopTypes'
  <2>1. UNCHANGED loop
      BY <1>1 DEF Main, Fork, Waited, AggregateThread, Gather, Send, SendFails, End, Signal, Handle
  <2> QED
      BY <1>t, <2>1 DEF loop, LoopTypes
<1>2. ASSUME NEW s \in Enabled, Query(s) PROVE LoopTypes'
  <2>1. CASE Connect(s)
    <3>1. PICK t \in 0 .. Delay[s] - 1 :
              /\ start' = [start EXCEPT ![s] = t]
              /\ current' = [current EXCEPT ![s] = t]
              /\ step' = [step EXCEPT ![s] = NextStep(s, t)]
        BY <2>1 DEF Connect
    <3>2. t \in Nat /\ NextStep(s, t) \in Nat
      <4>1. Delay[s] \in Nat \ {0}
          BY SensorFacts
      <4>2. t \in Nat
          BY <4>1
      <4> QED
          BY <4>1, <4>2, NextStepIsLater DEF NextStep
    <3>3. UNCHANGED <<counter, asked, full>>
        BY <2>1 DEF Connect
    <3> QED
        BY <1>t, <3>1, <3>2, <3>3 DEF LoopTypes
  <2>2. CASE ConnectFails(s) \/ AskFails(s) \/ Finish(s)
      BY <1>t, <2>2 DEF ConnectFails, AskFails, Finish, End, loop, LoopTypes
  <2>3. CASE Look(s)
    <3>1. PICK t \in Readings(s) : current' = [current EXCEPT ![s] = t]
        BY <2>3 DEF Look
    <3>2. t \in Nat
      <4>1. current[s] \in Nat /\ start[s] \in Nat /\ Duration \in Nat
          BY <1>t, SensorsAssumption DEF LoopTypes
      <4> QED
          BY <4>1 DEF Readings
    <3>3. UNCHANGED <<start, step, counter, asked, full>>
        BY <2>3 DEF Look
    <3> QED
        BY <1>t, <3>1, <3>2, <3>3 DEF LoopTypes
  <2>4. CASE Ask(s)
    <3>1. Append(asked[s], current[s]) \in Seq(Nat)
        BY <1>t, AppendProperties DEF LoopTypes
    <3> QED
        BY <1>t, <2>4, <3>1 DEF Ask, LoopTypes
  <2>5. CASE Answer(s)
    <3>1. full' = full \/ full' = [full EXCEPT ![s] = @ \cup {counter[s]}]
        BY <2>5 DEF Answer, Push
    <3>2. counter' = [counter EXCEPT ![s] = @ + 1] /\ UNCHANGED <<start, current, step, asked>>
        BY <2>5 DEF Answer
    <3>3. counter[s] \in Nat /\ counter[s] + 1 \in Nat /\ full[s] \cup {counter[s]} \in SUBSET Nat
        BY <1>t DEF LoopTypes
    <3>4. counter' \in [Enabled -> Nat]
        BY <1>t, <3>2, <3>3 DEF LoopTypes
    <3>5. full' \in [Enabled -> SUBSET Nat]
        BY <1>t, <3>1, <3>3 DEF LoopTypes
    <3> QED
        BY <1>t, <3>2, <3>4, <3>5 DEF LoopTypes
  <2>6. CASE Reschedule(s)
    <3>1. PICK t \in Readings(s) :
              /\ current' = [current EXCEPT ![s] = t]
              /\ step' = [step EXCEPT ![s] = NextStep(s, t)]
        BY <2>6 DEF Reschedule
    <3>2. t \in Nat
      <4>1. current[s] \in Nat /\ start[s] \in Nat /\ Duration \in Nat
          BY <1>t, SensorsAssumption DEF LoopTypes
      <4> QED
          BY <4>1 DEF Readings
    <3>3. NextStep(s, t) \in Nat
        BY <3>2, SensorFacts, NextStepIsLater DEF NextStep
    <3>4. UNCHANGED <<start, counter, asked, full>>
        BY <2>6 DEF Reschedule
    <3> QED
        BY <1>t, <3>1, <3>2, <3>3, <3>4 DEF LoopTypes
  <2> QED
      BY <1>2, <2>1, <2>2, <2>3, <2>4, <2>5, <2>6 DEF Query
<1> QED
    BY <1>1, <1>2 DEF Next

LEMMA DataTypesStep == ASSUME Types, Next PROVE DataTypes'
<1>t. DataTypes
    BY DEF Types
<1>1. ASSUME Main \/ \E p \in Proc : Signal(p) \/ Handle(p) PROVE DataTypes'
  <2>1. UNCHANGED data
      BY <1>1 DEF Main, Fork, Waited, Signal, Handle
  <2> QED
      BY <1>t, <2>1 DEF data, DataTypes
<1>2. CASE Gather
  <2>1. c' \in 0 .. 3
      BY <1>t, <1>2 DEF Gather, DataTypes
  <2>2. ASSUME NEW s, Pop(s) PROVE ring' \in [Enabled -> Seq(Values)] /\ buff' \in Seq(Values)
    <3>1. s \in Enabled /\ ring[s] \in Seq(Values) /\ ring[s] # <<>>
        BY <1>t, <2>2 DEF Pop, DataTypes
    <3>2. Head(ring[s]) \in Values /\ Tail(ring[s]) \in Seq(Values)
        BY <3>1, HeadTailProperties
    <3>3. Append(buff, Head(ring[s])) \in Seq(Values)
        BY <1>t, <3>2, AppendProperties DEF DataTypes
    <3> QED
        BY <1>t, <2>2, <3>1, <3>2, <3>3 DEF Pop, DataTypes
  <2>3. ring' \in [Enabled -> Seq(Values)] /\ buff' \in Seq(Values)
      BY <1>t, <1>2, <2>2 DEF Gather, DataTypes
  <2> QED
      BY <1>t, <1>2, <2>1, <2>3 DEF Gather, DataTypes
<1>3. CASE Send
  <2>1. sent \o buff \in Seq(Values)
      BY <1>t, ConcatProperties DEF DataTypes
  <2> QED
      BY <1>t, <1>3, <2>1, EmptySeq DEF Send, DataTypes
<1>4. CASE SendFails
    BY <1>t, <1>4 DEF SendFails, End, data, DataTypes
<1>5. ASSUME NEW s \in Enabled, Query(s) PROVE DataTypes'
  <2>1. CASE Connect(s) \/ ConnectFails(s) \/ Look(s) \/ Ask(s) \/ AskFails(s) \/ Reschedule(s) \/ Finish(s)
    <3>1. UNCHANGED data
        BY <2>1 DEF Connect, ConnectFails, Look, Ask, AskFails, Reschedule, Finish, End
    <3> QED
        BY <1>t, <3>1 DEF data, DataTypes
  <2>2. CASE Answer(s)
    <3>1. Value(s) \in Values
        BY DEF Types, LoopTypes, Value, Values
    <3>2. Append(ring[s], Value(s)) \in Seq(Values) /\ Append(sent, Value(s)) \in Seq(Values)
        BY <1>t, <3>1, AppendProperties DEF DataTypes
    <3>3. ring' = ring \/ ring' = [ring EXCEPT ![s] = Append(ring[s], Value(s))]
        BY <2>2 DEF Answer, Push
    <3>4. sent' = sent \/ sent' = Append(sent, Value(s))
        BY <2>2 DEF Answer
    <3>5. UNCHANGED <<c, buff>>
        BY <2>2 DEF Answer
    <3> QED
        BY <1>t, <3>2, <3>3, <3>4, <3>5 DEF DataTypes
  <2> QED
      BY <1>5, <2>1, <2>2 DEF Query
<1> QED
    BY <1>1, <1>2, <1>3, <1>4, <1>5 DEF Next, AggregateThread

LEMMA TypesAlways == Spec => []Types
<1>1. ASSUME Types, UNCHANGED vars PROVE Types'
    BY <1>1 DEF Types, ProcTypes, LoopTypes, DataTypes, vars, loop, data
<1>2. Types /\ [Next]_vars => Types'
    BY <1>1, ProcTypesStep, LoopTypesStep, DataTypesStep DEF Types
<1> QED
    BY TypesInit, <1>2, PTL DEF Spec

(***************************************************************************)
(* Children come up in their order                                         *)
(***************************************************************************)

\* The number of the children that were forked is the position of the last one.
LEMMA ForkedCount ==
    ASSUME NEW n \in 0 .. 5, \A k \in 1 .. 5 : pc[Children[k]] # "unborn" <=> k <= n
    PROVE  Cardinality(Forked) = n
<1> DEFINE First(m) == {Children[k] : k \in 1 .. m}
<1>1. Forked = First(n)
  <2>1. ToSet(Children) = {Children[k] : k \in 1 .. 5}
      BY DEF ToSet, Children
  <2>2. 1 .. n = {k \in 1 .. 5 : k <= n}
      OBVIOUS
  <2> QED
      BY <2>1, <2>2 DEF Forked
<1>2. \A m \in 0 .. 4 : First(m + 1) = First(m) \cup {Children[m + 1]}
  <2>1. \A m \in 0 .. 4 : 1 .. (m + 1) = (1 .. m) \cup {m + 1}
      OBVIOUS
  <2> QED
      BY <2>1
<1>3. \A m \in 0 .. 4 : Children[m + 1] \notin First(m)
  <2>1. \A k, l \in 1 .. 5 : Children[k] = Children[l] => k = l
      BY DEF Children
  <2>2. ASSUME NEW m \in 0 .. 4, NEW k \in 1 .. m, Children[m + 1] = Children[k] PROVE FALSE
    <3>1. m + 1 \in 1 .. 5 /\ k \in 1 .. 5 /\ k # m + 1
        BY <2>2
    <3> QED
        BY <2>1, <2>2, <3>1
  <2> QED
      BY <2>2
<1>4. IsFiniteSet(First(0)) /\ Cardinality(First(0)) = 0
  <2>1. First(0) = {}
      OBVIOUS
  <2> HIDE DEF First
  <2> QED
      BY <2>1, FS_EmptySet
<1> HIDE DEF First
<1>5. ASSUME NEW m \in 0 .. 4, IsFiniteSet(First(m)), Cardinality(First(m)) = m
      PROVE  IsFiniteSet(First(m + 1)) /\ Cardinality(First(m + 1)) = m + 1
  <2>1. Children[m + 1] \notin First(m)
      BY <1>3
  <2> DEFINE x == Children[m + 1]
  <2> HIDE DEF x
  <2>2. IsFiniteSet(First(m) \cup {x}) /\ Cardinality(First(m) \cup {x}) = m + 1
      BY <1>5, <2>1, FS_AddElement DEF x
  <2> QED
      BY <1>2, <2>2 DEF x
<1>6. IsFiniteSet(First(1)) /\ Cardinality(First(1)) = 1
    BY <1>4, <1>5
<1>7. IsFiniteSet(First(2)) /\ Cardinality(First(2)) = 2
    BY <1>5, <1>6
<1>8. IsFiniteSet(First(3)) /\ Cardinality(First(3)) = 3
    BY <1>5, <1>7
<1>9. IsFiniteSet(First(4)) /\ Cardinality(First(4)) = 4
    BY <1>5, <1>8
<1>10. Cardinality(First(5)) = 5
    BY <1>5, <1>9
<1> QED
    BY <1>1, <1>4, <1>6, <1>7, <1>8, <1>9, <1>10

\* Who is forked next was not there before.
LEMMA ForkIsNew ==
    ASSUME Types, ForkInv, Fork
    PROVE  \E n \in 0 .. 4 :
              /\ \A k \in 1 .. 5 : pc[Children[k]] # "unborn" <=> k <= n
              /\ pc[Children[n + 1]] = "unborn" /\ Children[n + 1] \in Proc \ {"main"}
              /\ \E place \in {Born(Children[n + 1]), "ended"} :
                    pc' = [pc EXCEPT ![Children[n + 1]] = place,
                                     !["main"] = IF n = 4 THEN "wait" ELSE "fork"]
<1>1. PICK n \in 0 .. 5 : /\ \A k \in 1 .. 5 : pc[Children[k]] # "unborn" <=> k <= n
                          /\ pc["main"] = "fork" => n < 5
    BY DEF ForkInv
<1>2. n \in 0 .. 4
    BY <1>1 DEF Fork, At
<1>3. Cardinality(Forked) = n
    BY <1>1, ForkedCount
<1>4. n + 1 \in 1 .. 5 /\ pc[Children[n + 1]] = "unborn"
    BY <1>1, <1>2
<1>5. Children[n + 1] \in Proc \ {"main"} /\ (Children[n + 1] = "aggregator" <=> n = 4)
    BY <1>4, ChildrenFacts
<1>6. \E place \in {Born(Children[n + 1]), "ended"} :
          pc' = [pc EXCEPT ![Children[n + 1]] = place,
                           !["main"] = IF n = 4 THEN "wait" ELSE "fork"]
    BY <1>3, <1>5 DEF Fork
<1> QED
    BY <1>1, <1>2, <1>4, <1>5, <1>6

LEMMA ForkInvStep == ASSUME Types, ForkInv, Next PROVE ForkInv'
<1>t. pc \in [Proc -> Places] /\ signalled \subseteq Proc
    BY DEF Types, ProcTypes
<1>f. Enabled \subseteq Proc /\ "main" \in Proc /\ "aggregator" \in Proc /\ "main" \notin Enabled
    BY SensorFacts
\* A process that was born stays born, and main goes back to forking never.
<1>1. ASSUME signalled' \subseteq {p \in Proc : pc[p] # "unborn"},
             pc' \in [Proc -> Places],
             \A p \in Proc : pc'[p] # "unborn" <=> pc[p] # "unborn",
             pc'["main"] = "fork" => pc["main"] = "fork"
      PROVE  ForkInv'
  <2>1. \A k \in 1 .. 5 : Children[k] \in Proc
      BY SensorFacts
  <2> QED
      BY <1>1, <1>f, <2>1 DEF ForkInv
<1>2. CASE Fork
  <2>1. PICK n \in 0 .. 4 :
              /\ \A k \in 1 .. 5 : pc[Children[k]] # "unborn" <=> k <= n
              /\ pc[Children[n + 1]] = "unborn" /\ Children[n + 1] \in Proc \ {"main"}
              /\ \E place \in {Born(Children[n + 1]), "ended"} :
                    pc' = [pc EXCEPT ![Children[n + 1]] = place,
                                     !["main"] = IF n = 4 THEN "wait" ELSE "fork"]
      BY <1>2, ForkIsNew
  <2>2. Born(Children[n + 1]) # "unborn"
      BY DEF Born
  <2>3. \A k \in 1 .. 5 : Children[k] \in Proc \ {"main"} /\ (Children[k] = Children[n + 1] <=> k = n + 1)
    <3>1. n + 1 \in 1 .. 5
        OBVIOUS
    <3> QED
        BY <3>1, ChildrenFacts
  <2>4. \A k \in 1 .. 5 : pc'[Children[k]] # "unborn" <=> k <= n + 1
      BY <1>t, <2>1, <2>2, <2>3
  <2>5. pc'["main"] = IF n = 4 THEN "wait" ELSE "fork"
      BY <1>t, <1>f, <2>1
  <2>6. \A p \in signalled' : pc'[p] # "unborn"
    <3>1. signalled' = signalled
        BY <1>2 DEF Fork
    <3>2. \A p \in Proc : pc[p] # "unborn" => pc'[p] # "unborn"
        BY <1>t, <1>f, <2>1, <2>2
    <3> QED
        BY <1>t, <3>1, <3>2 DEF ForkInv
  <2>7. n + 1 \in 0 .. 5 /\ (pc'["main"] = "fork" => n + 1 < 5)
      BY <2>5
  <2> QED
      BY <2>4, <2>5, <2>6, <2>7 DEF ForkInv
<1>3. CASE Waited \/ AggregateThread
  <2>1. signalled' = signalled
      BY <1>3 DEF Waited, AggregateThread, Gather, Send, SendFails, End
  <2>2. \/ pc' = pc
        \/ pc["main"] = "wait" /\ pc' = [pc EXCEPT !["main"] = "ended"]
        \/ pc["aggregator"] = "gather" /\ pc' = [pc EXCEPT !["aggregator"] = "ended"]
      BY <1>3 DEF Waited, AggregateThread, Gather, Send, SendFails, End, At
  <2> QED
      BY <1>1, <1>t, <1>f, <2>1, <2>2 DEF ForkInv, Places
<1>4. ASSUME NEW s \in Enabled, Query(s) PROVE ForkInv'
  <2>1. signalled' = signalled
      BY <1>4 DEF Query, Connect, ConnectFails, Look, Ask, AskFails, Answer, Reschedule, Finish, End
  <2>2. pc[s] # "unborn"
      BY <1>4 DEF Query, Connect, ConnectFails, Look, Ask, AskFails, Answer, Reschedule, Finish, At
  <2>3. pc' = pc \/ \E at \in {"look", "asked", "pushed", "ended"} : pc' = [pc EXCEPT ![s] = at]
      BY <1>4 DEF Query, Connect, ConnectFails, Look, Ask, AskFails, Answer, Reschedule, Finish, End
  <2>4. {"look", "asked", "pushed", "ended"} \subseteq Places \ {"unborn", "fork"}
      BY DEF Places
  <2> QED
      BY <1>1, <1>t, <1>f, <2>1, <2>2, <2>3, <2>4 DEF ForkInv
<1>5. ASSUME NEW p \in Proc, Signal(p) PROVE ForkInv'
    BY <1>1, <1>t, <1>5 DEF Signal, Alive
<1>6. ASSUME NEW p \in Proc, Handle(p) PROVE ForkInv'
  <2>1. pc[p] # "unborn" /\ pc' = [pc EXCEPT ![p] = "ended"]
      BY <1>6 DEF Handle, ForkInv
  <2>2. Targets(p) \subseteq Proc
      BY SensorFacts DEF Targets, ToSet, Children, Proc, Sensor, Turn
  <2>3. signalled' \subseteq {q \in Proc : pc[q] # "unborn"}
      BY <1>t, <1>6, <2>2 DEF Handle, ForkInv, Alive
  <2> QED
      BY <1>1, <1>t, <2>1, <2>3 DEF Places
<1> QED
    BY <1>2, <1>3, <1>4, <1>5, <1>6 DEF Next, Main, AggregateThread

LEMMA ForkInvAlways == Spec => []ForkInv
<1>1. Init => ForkInv
  <2> SUFFICES ASSUME Init PROVE ForkInv
      OBVIOUS
  <2>1. \A k \in 1 .. 5 : Children[k] \in Proc /\ Children[k] # "main"
      BY ChildrenFacts
  <2>2. \A k \in 1 .. 5 : pc[Children[k]] # "unborn" <=> k <= 0
      BY <2>1 DEF Init
  <2> QED
      BY <2>2, SensorFacts DEF Init, ForkInv
<1>2. Types /\ ForkInv /\ [Next]_vars => ForkInv'
    BY ForkInvStep DEF ForkInv, vars
<1> QED
    BY <1>1, <1>2, TypesAlways, PTL DEF Spec

(***************************************************************************)
(* Once in a period                                                        *)
(***************************************************************************)

\* What leaves a sensor's loop alone, or ends it, keeps the invariant of that sensor.
LEMMA PeriodFrame ==
    ASSUME NEW s \in Enabled, PeriodOf(s) /\ Spread(s),
           asked'[s] = asked[s],
           \/ pc'[s] = "ended"
           \/ pc'[s] = pc[s] /\ step'[s] = step[s] /\ current'[s] = current[s]
    PROVE  (PeriodOf(s) /\ Spread(s))'
BY DEF PeriodOf, Spread

\* What a step of one sensor's process leaves of the others
LEMMA QueryFrame ==
    ASSUME Types, NEW s \in Enabled, Query(s), NEW r \in Enabled \ {s}
    PROVE  /\ asked'[r] = asked[r] /\ pc'[r] = pc[r]
           /\ step'[r] = step[r] /\ current'[r] = current[r]
<1>t. pc \in [Proc -> Places] /\ Enabled \subseteq Proc /\ LoopTypes
    BY SensorFacts DEF Types, ProcTypes
<1>1. CASE ConnectFails(s) \/ AskFails(s) \/ Finish(s)
    BY <1>t, <1>1 DEF ConnectFails, AskFails, Finish, End, loop, LoopTypes
<1>2. CASE Connect(s) \/ Look(s) \/ Ask(s)
    BY <1>t, <1>2 DEF Connect, Look, Ask, LoopTypes
<1>3. CASE Answer(s) \/ Reschedule(s)
    BY <1>t, <1>3 DEF Answer, Reschedule, LoopTypes
<1> QED
    BY <1>1, <1>2, <1>3 DEF Query

\* The step on which the property rests: a request is made only in a period that is new.
LEMMA AskSpreads ==
    ASSUME Types, NEW s \in Enabled, PeriodOf(s) /\ Spread(s), Ask(s)
    PROVE  (PeriodOf(s) /\ Spread(s))'
<1> DEFINE a == asked[s]
           t == current[s]
           D == Delay[s]
           m == step[s]
<1>1. /\ a \in Seq(Nat) /\ t \in Nat /\ m \in Nat /\ D \in Nat \ {0}
      /\ pc[s] = "look" /\ m <= t /\ m % D = 0
      /\ \A i \in 1 .. Len(a) : a[i] < m
    BY SensorFacts DEF Types, LoopTypes, Ask, At, PeriodOf
<1>2. pc'[s] = "asked" /\ asked'[s] = Append(a, t) /\ current'[s] = t
    BY SensorFacts DEF Types, ProcTypes, LoopTypes, Ask
<1>3. \A i \in 2 .. Len(a) : a[i] \div D > a[i - 1] \div D
    BY DEF Spread
<1> HIDE DEF a, t, D, m
<1>4. /\ Len(Append(a, t)) = Len(a) + 1 /\ Len(a) \in Nat
      /\ \A i \in 1 .. Len(a) : Append(a, t)[i] = a[i]
      /\ Append(a, t)[Len(a) + 1] = t
    BY <1>1, AppendProperties, LenProperties
<1>5. \A i \in 1 .. Len(a) : a[i] \in Nat /\ a[i] \div D < t \div D
  <2>1. \A i \in 1 .. Len(a) : a[i] \in Nat
      BY <1>1, ElementOfSeq
  <2> SUFFICES ASSUME NEW i \in 1 .. Len(a) PROVE a[i] \div D < t \div D
      BY <2>1
  <2> DEFINE b == a[i]
  <2>2. b \in Nat /\ b < m
      BY <1>1, <2>1
  <2> HIDE DEF b
  <2>3. b \div D < t \div D
      BY <1>1, <2>2, DivLess
  <2> QED
      BY <2>3 DEF b
<1>6. PeriodOf(s)'
  <2>1. \A i \in 1 .. Len(a) + 1 : Append(a, t)[i] <= t
    <3>1. \A i \in 1 .. Len(a) : a[i] \in Nat
        BY <1>1, ElementOfSeq
    <3>2. \A i \in 1 .. Len(a) : a[i] <= t
        BY <1>1, <3>1
    <3> QED
        BY <1>1, <1>4, <3>2
  <2> QED
      BY <1>2, <1>4, <2>1 DEF PeriodOf
<1>7. \A i \in 2 .. Len(a) + 1 : Append(a, t)[i] \div D > Append(a, t)[i - 1] \div D
  <2> DEFINE b == Append(a, t)
             q(x) == x \div D
  <2>1. /\ \A i \in 1 .. Len(a) : b[i] = a[i]
        /\ b[Len(a) + 1] = t
      BY <1>4
  <2>2. \A i \in 2 .. Len(a) : q(a[i]) > q(a[i - 1])
      BY <1>3
  <2>3. \A i \in 1 .. Len(a) : q(a[i]) < q(t)
      BY <1>5
  <2>4. \A i \in 1 .. Len(a) : q(a[i]) \in Int
      BY <1>1, <1>5
  <2>5. q(t) \in Int /\ Len(a) \in Nat
      BY <1>1, <1>4
  <2> HIDE DEF b, q
  <2>6. \A i \in 2 .. Len(a) + 1 : q(b[i]) > q(b[i - 1])
    <3> SUFFICES ASSUME NEW i \in 2 .. Len(a) + 1 PROVE q(b[i]) > q(b[i - 1])
        OBVIOUS
    <3>1. CASE i \in 2 .. Len(a)
      <4>1. i \in 1 .. Len(a) /\ i - 1 \in 1 .. Len(a)
          BY <3>1, <2>5
      <4>2. b[i] = a[i] /\ b[i - 1] = a[i - 1]
          BY <4>1, <2>1
      <4> QED
          BY <3>1, <4>2, <2>2
    <3>2. CASE i = Len(a) + 1
      <4>1. i - 1 \in 1 .. Len(a)
          BY <3>2, <2>5
      <4>2. q(a[i - 1]) < q(t) /\ b[i - 1] = a[i - 1] /\ b[i] = t
          BY <4>1, <3>2, <2>1, <2>3
      <4> QED
          BY <4>1, <4>2, <2>4, <2>5
    <3> QED
        BY <3>1, <3>2, <2>5
  <2> QED
      BY <2>6 DEF b, q
<1> QED
    BY <1>2, <1>4, <1>6, <1>7 DEF Spread, D

LEMMA PeriodInvStep == ASSUME Types, ForkInv, PeriodInv, Next PROVE PeriodInv'
<1>t. pc \in [Proc -> Places] /\ LoopTypes
    BY DEF Types, ProcTypes
<1>f. /\ Enabled \subseteq Proc /\ "main" \in Proc /\ "aggregator" \in Proc
      /\ "main" \notin Enabled /\ "aggregator" \notin Enabled
    BY SensorFacts
<1> SUFFICES ASSUME NEW r \in Enabled PROVE (PeriodOf(r) /\ Spread(r))'
    BY DEF PeriodInv
<1>i. PeriodOf(r) /\ Spread(r)
    BY DEF PeriodInv
<1>1. CASE Fork
  <2>1. PICK n \in 0 .. 4 :
              /\ pc[Children[n + 1]] = "unborn" /\ Children[n + 1] \in Proc \ {"main"}
              /\ \E place \in {Born(Children[n + 1]), "ended"} :
                    pc' = [pc EXCEPT ![Children[n + 1]] = place,
                                     !["main"] = IF n = 4 THEN "wait" ELSE "fork"]
      BY <1>1, ForkIsNew
  <2>2. asked' = asked /\ step' = step /\ current' = current
      BY <1>1 DEF Fork, loop
  <2>3. CASE Children[n + 1] = r
    <3>1. pc'[r] \in {"start", "ended"} /\ pc[r] = "unborn"
        BY <1>t, <1>f, <2>1, <2>3 DEF Born
    <3> QED
        BY <1>i, <2>2, <3>1 DEF PeriodOf, Spread
  <2>4. CASE Children[n + 1] # r
    <3>1. pc'[r] = pc[r]
        BY <1>t, <1>f, <2>1, <2>4
    <3> QED
        BY <1>i, <2>2, <3>1, PeriodFrame
  <2> QED
      BY <2>3, <2>4
<1>2. CASE Waited \/ AggregateThread
  <2>1. UNCHANGED loop
      BY <1>2 DEF Waited, AggregateThread, Gather, Send, SendFails, End
  <2>2. pc'[r] = pc[r]
      BY <1>t, <1>f, <1>2 DEF Waited, AggregateThread, Gather, Send, SendFails, End
  <2> QED
      BY <1>i, <2>1, <2>2, PeriodFrame DEF loop
<1>3. ASSUME NEW p \in Proc, Signal(p) \/ Handle(p) PROVE (PeriodOf(r) /\ Spread(r))'
  <2>1. UNCHANGED loop
      BY <1>3 DEF Signal, Handle
  <2>2. pc'[r] \in {pc[r], "ended"}
      BY <1>t, <1>f, <1>3 DEF Signal, Handle
  <2> QED
      BY <1>i, <2>1, <2>2, PeriodFrame DEF loop
<1>4. ASSUME NEW s \in Enabled, Query(s), s # r PROVE (PeriodOf(r) /\ Spread(r))'
    BY <1>4, <1>i, QueryFrame, PeriodFrame
<1>5. CASE Query(r)
  <2>1. CASE ConnectFails(r) \/ AskFails(r) \/ Finish(r)
    <3>1. pc'[r] = "ended" /\ asked' = asked
        BY <1>t, <1>f, <2>1 DEF ConnectFails, AskFails, Finish, End, loop
    <3> QED
        BY <1>i, <3>1, PeriodFrame
  <2>2. CASE Connect(r)
    <3>1. PICK t \in 0 .. Delay[r] - 1 : step' = [step EXCEPT ![r] = NextStep(r, t)]
        BY <2>2 DEF Connect
    <3>2. t \in Nat /\ Delay[r] \in Nat \ {0}
      <4>1. Delay[r] \in Nat \ {0}
          BY SensorFacts
      <4> QED
          BY <4>1
    <3>3. NextStep(r, t) % Delay[r] = 0
        BY <3>2, NextStepIsLater DEF NextStep
    <3>4. pc[r] = "start" /\ pc'[r] = "look" /\ asked'[r] = asked[r] /\ step'[r] = NextStep(r, t)
        BY <1>t, <1>f, <2>2, <3>1 DEF Connect, At, LoopTypes
    <3>5. asked'[r] = <<>>
        BY <1>i, <3>4 DEF PeriodOf
    <3> QED
        BY <3>3, <3>4, <3>5 DEF PeriodOf, Spread
  <2>3. CASE Look(r)
    <3>1. pc'[r] = "look" /\ pc[r] = "look" /\ asked'[r] = asked[r] /\ step'[r] = step[r]
        BY <2>3 DEF Look, At
    <3> QED
        BY <1>i, <3>1 DEF PeriodOf, Spread
  <2>4. CASE Ask(r)
      BY <1>i, <2>4, AskSpreads
  <2>5. CASE Answer(r)
    <3>1. /\ pc'[r] = "pushed" /\ pc[r] = "asked"
          /\ asked'[r] = asked[r] /\ current'[r] = current[r]
        BY <1>t, <1>f, <2>5 DEF Answer, At
    <3> QED
        BY <1>i, <3>1 DEF PeriodOf, Spread
  <2>6. CASE Reschedule(r)
    <3>1. PICK t \in Readings(r) : step' = [step EXCEPT ![r] = NextStep(r, t)]
        BY <2>6 DEF Reschedule
    <3>2. t \in Nat /\ Delay[r] \in Nat \ {0} /\ current[r] \in Nat /\ current[r] <= t
      <4>1. current[r] \in Nat /\ start[r] \in Nat /\ Duration \in Nat
          BY <1>t, SensorsAssumption DEF LoopTypes
      <4> QED
          BY <4>1, SensorFacts DEF Readings
    <3>3. NextStep(r, t) % Delay[r] = 0 /\ NextStep(r, t) > t /\ NextStep(r, t) \in Nat
        BY <3>2, NextStepIsLater DEF NextStep
    <3>4. pc[r] = "pushed" /\ pc'[r] = "look" /\ asked'[r] = asked[r] /\ step'[r] = NextStep(r, t)
        BY <1>t, <1>f, <2>6, <3>1 DEF Reschedule, At, LoopTypes
    <3>5. \A i \in 1 .. Len(asked[r]) : asked[r][i] \in Nat /\ asked[r][i] <= current[r]
      <4>1. asked[r] \in Seq(Nat)
          BY <1>t DEF LoopTypes
      <4> QED
          BY <4>1, <1>i, <3>4, ElementOfSeq DEF PeriodOf
    <3>6. Spread(r)'
        BY <1>i, <3>4 DEF Spread
    <3>7. \A i \in 1 .. Len(asked[r]) : asked[r][i] < NextStep(r, t)
        BY <3>2, <3>3, <3>5
    <3> QED
        BY <3>3, <3>4, <3>6, <3>7 DEF PeriodOf
  <2> QED
      BY <1>5, <2>1, <2>2, <2>3, <2>4, <2>5, <2>6 DEF Query
<1> QED
    BY <1>1, <1>2, <1>3, <1>4, <1>5 DEF Next, Main

\* No burst: a sensor is asked at most once in each period of its delay, however late the
\* answers come (OnePerPeriod, of the loops of query_*).
THEOREM AskedOncePerPeriod == Spec => []OnePerPeriod
<1>1. Init => PeriodInv
  <2> SUFFICES ASSUME Init, NEW s \in Enabled PROVE PeriodOf(s) /\ Spread(s)
      BY DEF PeriodInv
  <2>1. pc[s] = "unborn" /\ asked[s] = <<>>
      BY SensorFacts DEF Init
  <2> QED
      BY <2>1 DEF PeriodOf, Spread
<1>2. ASSUME PeriodInv, UNCHANGED vars PROVE PeriodInv'
    BY <1>2 DEF PeriodInv, PeriodOf, Spread, vars, loop
<1>3. Types /\ ForkInv /\ PeriodInv /\ [Next]_vars => PeriodInv'
    BY <1>2, PeriodInvStep
<1>4. PeriodInv => OnePerPeriod
    BY DEF PeriodInv, Spread, OnePerPeriod
<1> QED
    BY <1>1, <1>3, <1>4, TypesAlways, ForkInvAlways, PTL DEF Spec

(***************************************************************************)
(* What is on its way                                                      *)
(***************************************************************************)

LEMMA ConcatParts ==
    ASSUME NEW a \in Seq(Values), NEW b \in Seq(Values)
    PROVE  /\ a \o b \in Seq(Values)
           /\ \A i \in 1 .. Len(a) : i \in 1 .. Len(a \o b) /\ (a \o b)[i] = a[i]
           /\ \A i \in 1 .. Len(b) : Len(a) + i \in 1 .. Len(a \o b) /\ (a \o b)[Len(a) + i] = b[i]
           /\ \A i \in 1 .. Len(a \o b) :
                  i \in 1 .. Len(a) \/ \E k \in 1 .. Len(b) : i = Len(a) + k
<1>1. /\ a \o b \in Seq(Values)
      /\ Len(a \o b) = Len(a) + Len(b)
      /\ \A i \in 1 .. Len(a) + Len(b) : (a \o b)[i] = IF i <= Len(a) THEN a[i] ELSE b[i - Len(a)]
    BY ConcatProperties
<1>2. Len(a) \in Nat /\ Len(b) \in Nat
    BY LenProperties
<1>3. \A i \in 1 .. Len(b) : Len(a) + i \in 1 .. Len(a) + Len(b) /\ ~(Len(a) + i <= Len(a))
                             /\ Len(a) + i - Len(a) = i
    BY <1>2
<1>4. \A i \in 1 .. Len(b) : (a \o b)[Len(a) + i] = b[i]
    BY <1>1, <1>3
<1>5. \A i \in 1 .. Len(a) : i \in 1 .. Len(a) + Len(b) /\ (a \o b)[i] = a[i]
    BY <1>1, <1>2
<1>6. ASSUME NEW i \in 1 .. Len(a) + Len(b), i \notin 1 .. Len(a)
      PROVE  \E k \in 1 .. Len(b) : i = Len(a) + k
  <2>1. i - Len(a) \in 1 .. Len(b) /\ i = Len(a) + (i - Len(a))
      BY <1>2, <1>6
  <2> QED
      BY <2>1
<1> QED
    BY <1>1, <1>3, <1>4, <1>5, <1>6

LEMMA ElementFacts ==
    ASSUME NEW a \in Seq(Values)
    PROVE  Len(a) \in Nat /\ \A i \in 1 .. Len(a) : a[i] \in Values /\ a[i].seq \in Nat
<1>1. Len(a) \in Nat /\ \A i \in 1 .. Len(a) : a[i] \in Values
    BY ElementOfSeq, LenProperties
<1>2. \A v \in Values : v.seq \in Nat
    BY DEF Values
<1> QED
    BY <1>1, <1>2

LEMMA ConcatNumbers ==
    ASSUME NEW a \in Seq(Values), NEW b \in Seq(Values), NEW s
    PROVE  Numbers(s, a \o b) = Numbers(s, a) \cup Numbers(s, b)
<1> DEFINE d == a \o b
<1>1. /\ \A i \in 1 .. Len(a) : i \in 1 .. Len(d) /\ d[i] = a[i]
      /\ \A i \in 1 .. Len(b) : Len(a) + i \in 1 .. Len(d) /\ d[Len(a) + i] = b[i]
      /\ \A i \in 1 .. Len(d) : i \in 1 .. Len(a) \/ \E k \in 1 .. Len(b) : i = Len(a) + k
    BY ConcatParts
<1> HIDE DEF d
<1>2. \A e, n : n \in Numbers(s, e) <=> \E i \in 1 .. Len(e) : e[i].id = s /\ e[i].seq = n
  <2> SUFFICES ASSUME NEW e, NEW n
               PROVE  n \in Numbers(s, e) <=> \E i \in 1 .. Len(e) : e[i].id = s /\ e[i].seq = n
      OBVIOUS
  <2> QED
      BY DEF Numbers
<1>3. ASSUME NEW n \in Numbers(s, d) PROVE n \in Numbers(s, a) \cup Numbers(s, b)
  <2>1. PICK i \in 1 .. Len(d) : d[i].id = s /\ d[i].seq = n
      BY <1>2, <1>3
  <2>2. CASE i \in 1 .. Len(a)
    <3>1. a[i].id = s /\ a[i].seq = n
        BY <1>1, <2>1, <2>2
    <3> QED
        BY <1>2, <2>2, <3>1
  <2>3. ASSUME NEW k \in 1 .. Len(b), i = Len(a) + k PROVE n \in Numbers(s, b)
    <3>1. b[k].id = s /\ b[k].seq = n
        BY <1>1, <2>1, <2>3
    <3> QED
        BY <1>2, <3>1
  <2> QED
      BY <1>1, <2>2, <2>3
<1>4. ASSUME NEW n \in Numbers(s, a) PROVE n \in Numbers(s, d)
  <2>1. PICK i \in 1 .. Len(a) : a[i].id = s /\ a[i].seq = n
      BY <1>2, <1>4
  <2> QED
      BY <1>1, <1>2, <2>1
<1>5. ASSUME NEW n \in Numbers(s, b) PROVE n \in Numbers(s, d)
  <2>1. PICK i \in 1 .. Len(b) : b[i].id = s /\ b[i].seq = n
      BY <1>2, <1>5
  <2> QED
      BY <1>1, <1>2, <2>1
<1> QED
    BY <1>3, <1>4, <1>5 DEF d

LEMMA ConcatBefore ==
    ASSUME NEW a \in Seq(Values), NEW b \in Seq(Values), NEW e \in Seq(Values), NEW s
    PROVE  /\ Before(s, a \o b, e) <=> Before(s, a, e) /\ Before(s, b, e)
           /\ Before(s, e, a \o b) <=> Before(s, e, a) /\ Before(s, e, b)
<1> DEFINE d == a \o b
<1>1. /\ \A i \in 1 .. Len(a) : i \in 1 .. Len(d) /\ d[i] = a[i]
      /\ \A i \in 1 .. Len(b) : Len(a) + i \in 1 .. Len(d) /\ d[Len(a) + i] = b[i]
      /\ \A i \in 1 .. Len(d) : i \in 1 .. Len(a) \/ \E k \in 1 .. Len(b) : i = Len(a) + k
    BY ConcatParts
<1> HIDE DEF d
<1>2. Before(s, d, e) => Before(s, a, e) /\ Before(s, b, e)
    BY <1>1 DEF Before
<1>3. ASSUME Before(s, a, e), Before(s, b, e), NEW i \in 1 .. Len(d), NEW j \in 1 .. Len(e),
             d[i].id = s, e[j].id = s
      PROVE  d[i].seq < e[j].seq
  <2>1. CASE i \in 1 .. Len(a)
      BY <1>1, <1>3, <2>1 DEF Before
  <2>2. ASSUME NEW k \in 1 .. Len(b), i = Len(a) + k PROVE d[i].seq < e[j].seq
      BY <1>1, <1>3, <2>2 DEF Before
  <2> QED
      BY <1>1, <2>1, <2>2
<1>4. Before(s, e, d) => Before(s, e, a) /\ Before(s, e, b)
    BY <1>1 DEF Before
<1>5. ASSUME Before(s, e, a), Before(s, e, b), NEW i \in 1 .. Len(d), NEW j \in 1 .. Len(e),
             d[i].id = s, e[j].id = s
      PROVE  e[j].seq < d[i].seq
  <2>1. CASE i \in 1 .. Len(a)
      BY <1>1, <1>5, <2>1 DEF Before
  <2>2. ASSUME NEW k \in 1 .. Len(b), i = Len(a) + k PROVE e[j].seq < d[i].seq
      BY <1>1, <1>5, <2>2 DEF Before
  <2> QED
      BY <1>1, <2>1, <2>2
<1>6. Before(s, a, e) /\ Before(s, b, e) => Before(s, d, e)
    BY <1>3 DEF Before
<1>7. Before(s, e, a) /\ Before(s, e, b) => Before(s, e, d)
    BY <1>5 DEF Before
<1> QED
    BY <1>2, <1>4, <1>6, <1>7 DEF d

LEMMA ConcatInOrder ==
    ASSUME NEW a \in Seq(Values), NEW b \in Seq(Values), NEW s
    PROVE  InOrder(s, a \o b) <=> InOrder(s, a) /\ InOrder(s, b) /\ Before(s, a, b)
<1> DEFINE d == a \o b
<1>1. /\ \A i \in 1 .. Len(a) : i \in 1 .. Len(d) /\ d[i] = a[i]
      /\ \A i \in 1 .. Len(b) : Len(a) + i \in 1 .. Len(d) /\ d[Len(a) + i] = b[i]
      /\ \A i \in 1 .. Len(d) : i \in 1 .. Len(a) \/ \E k \in 1 .. Len(b) : i = Len(a) + k
    BY ConcatParts
<1>l. Len(a) \in Nat /\ Len(b) \in Nat
    BY ElementFacts
<1> HIDE DEF d
<1>2. ASSUME InOrder(s, d) PROVE InOrder(s, a) /\ InOrder(s, b) /\ Before(s, a, b)
  <2>1. InOrder(s, a)
      BY <1>1, <1>2 DEF InOrder
  <2>2. ASSUME NEW i \in 1 .. Len(b), NEW j \in 1 .. Len(b), b[i].id = s, b[j].id = s, i < j
        PROVE  b[i].seq < b[j].seq
    <3>1. Len(a) + i < Len(a) + j
        BY <1>l, <2>2
    <3> QED
        BY <1>1, <1>2, <2>2, <3>1 DEF InOrder
  <2>3. ASSUME NEW i \in 1 .. Len(a), NEW j \in 1 .. Len(b), a[i].id = s, b[j].id = s
        PROVE  a[i].seq < b[j].seq
    <3>1. i < Len(a) + j
        BY <1>l, <2>3
    <3> QED
        BY <1>1, <1>2, <2>3, <3>1 DEF InOrder
  <2>4. InOrder(s, b)
      BY <2>2 DEF InOrder
  <2>5. Before(s, a, b)
      BY <2>3 DEF Before
  <2> QED
      BY <2>1, <2>4, <2>5
<1>3. ASSUME InOrder(s, a), InOrder(s, b), Before(s, a, b),
             NEW i \in 1 .. Len(d), NEW j \in 1 .. Len(d), d[i].id = s, d[j].id = s, i < j
      PROVE  d[i].seq < d[j].seq
  <2>1. CASE i \in 1 .. Len(a) /\ j \in 1 .. Len(a)
      BY <1>1, <1>3, <2>1 DEF InOrder
  <2>2. ASSUME i \in 1 .. Len(a), NEW k \in 1 .. Len(b), j = Len(a) + k
        PROVE  d[i].seq < d[j].seq
      BY <1>1, <1>3, <2>2 DEF Before
  <2>3. ASSUME NEW l \in 1 .. Len(b), i = Len(a) + l, NEW k \in 1 .. Len(b), j = Len(a) + k
        PROVE  d[i].seq < d[j].seq
    <3>1. l < k
        BY <1>l, <1>3, <2>3
    <3> QED
        BY <1>1, <1>3, <2>3, <3>1 DEF InOrder
  <2>4. ASSUME NEW l \in 1 .. Len(b), i = Len(a) + l PROVE j \notin 1 .. Len(a)
      BY <1>l, <1>3, <2>4
  <2> QED
      BY <1>1, <2>1, <2>2, <2>3, <2>4
<1>4. InOrder(s, a) /\ InOrder(s, b) /\ Before(s, a, b) => InOrder(s, d)
    BY <1>3 DEF InOrder
<1> QED
    BY <1>2, <1>4 DEF d

LEMMA OneValue ==
    ASSUME NEW v \in Values, NEW s
    PROVE  /\ <<v>> \in Seq(Values) /\ InOrder(s, <<v>>)
           /\ Numbers(s, <<v>>) = IF v.id = s THEN {v.seq} ELSE {}
           /\ \A a : /\ Before(s, a, <<v>>) <=> (v.id = s => \A n \in Numbers(s, a) : n < v.seq)
                     /\ v.id # s => Before(s, <<v>>, a)
<1> DEFINE o == <<v>>
<1>1. o \in Seq(Values) /\ Len(o) = 1 /\ o[1] = v
    OBVIOUS
<1> HIDE DEF o
<1>2. InOrder(s, o)
    BY <1>1 DEF InOrder
<1>3. Numbers(s, o) = IF v.id = s THEN {v.seq} ELSE {}
    BY <1>1 DEF Numbers
<1>4. ASSUME NEW a PROVE Before(s, a, o) <=> (v.id = s => \A n \in Numbers(s, a) : n < v.seq)
    BY <1>1 DEF Before, Numbers
<1>5. ASSUME NEW a, v.id # s PROVE Before(s, o, a)
    BY <1>1, <1>5 DEF Before
<1> QED
    BY <1>1, <1>2, <1>3, <1>4, <1>5 DEF o

LEMMA NoValue ==
    ASSUME NEW s
    PROVE  /\ <<>> \in Seq(Values) /\ InOrder(s, <<>>) /\ Numbers(s, <<>>) = {}
           /\ \A a : Before(s, a, <<>>) /\ Before(s, <<>>, a)
BY EmptySeq DEF InOrder, Numbers, Before

\* InOrder and Numbers of what is on its way, part by part
LEMMA WayParts ==
    ASSUME NEW x \in Seq(Values), NEW y \in Seq(Values), NEW z \in Seq(Values), NEW s
    PROVE  /\ x \o y \o z \in Seq(Values)
           /\ InOrder(s, x \o y \o z) <=>
                 /\ InOrder(s, x) /\ InOrder(s, y) /\ InOrder(s, z)
                 /\ Before(s, x, y) /\ Before(s, x, z) /\ Before(s, y, z)
           /\ Numbers(s, x \o y \o z) = Numbers(s, x) \cup Numbers(s, y) \cup Numbers(s, z)
<1> DEFINE w == x \o y
<1>1. w \in Seq(Values)
    BY ConcatParts
<1>2. /\ InOrder(s, w) <=> InOrder(s, x) /\ InOrder(s, y) /\ Before(s, x, y)
      /\ Numbers(s, w) = Numbers(s, x) \cup Numbers(s, y)
      /\ Before(s, w, z) <=> Before(s, x, z) /\ Before(s, y, z)
    BY ConcatInOrder, ConcatNumbers, ConcatBefore
<1> HIDE DEF w
<1>3. /\ w \o z \in Seq(Values)
      /\ InOrder(s, w \o z) <=> InOrder(s, w) /\ InOrder(s, z) /\ Before(s, w, z)
      /\ Numbers(s, w \o z) = Numbers(s, w) \cup Numbers(s, z)
    BY <1>1, ConcatParts, ConcatInOrder, ConcatNumbers
<1> QED
    BY <1>2, <1>3 DEF w

\* A sensor none of whose values, numbers or rings changes keeps its invariant.
LEMMA WayFrame ==
    ASSUME NEW s \in Enabled, WayInv(s), UNCHANGED data,
           counter'[s] = counter[s], full'[s] = full[s]
    PROVE  WayInv(s)'
<1>1. Way(s)' = Way(s)
    BY DEF Way, data
<1> QED
    BY <1>1 DEF WayInv, data

LEMMA DataFacts ==
    ASSUME Types, NEW s \in Enabled
    PROVE  /\ sent \in Seq(Values) /\ buff \in Seq(Values) /\ ring[s] \in Seq(Values)
           /\ counter[s] \in Nat
BY DEF Types, DataTypes, LoopTypes

\* A value passes from a ring to the datagram that is gathered.
LEMMA PopKeeps ==
    ASSUME Types, NEW p, Pop(p), UNCHANGED <<sent, counter, full>>,
           \A s \in Enabled : WayInv(s), NEW r \in Enabled
    PROVE  WayInv(r)'
<1> DEFINE h == Head(ring[p])
           t == Tail(ring[p])
<1>1. /\ p \in Enabled /\ ring[p] \in Seq(Values) /\ ring[p] # <<>>
      /\ buff' = Append(buff, h) /\ ring' = [ring EXCEPT ![p] = t]
    BY DEF Pop, Types, DataTypes
<1>2. /\ h \in Values /\ t \in Seq(Values) /\ ring[p] = <<h>> \o t
      /\ h = ring[p][1] /\ Len(t) = Len(ring[p]) - 1 /\ Len(ring[p]) \in Nat \ {0}
      /\ \A i \in 1 .. Len(t) : t[i] = ring[p][i + 1]
    BY <1>1, HeadTailProperties
<1>3. h.id = p /\ \A i \in 1 .. Len(t) : t[i].id = p
  <2>1. \A i \in 1 .. Len(ring[p]) : ring[p][i].id = p
      BY <1>1 DEF WayInv
  <2> DEFINE q == ring[p]
  <2>2. /\ h = q[1] /\ Len(t) = Len(q) - 1 /\ Len(q) \in Nat \ {0}
        /\ \A i \in 1 .. Len(t) : t[i] = q[i + 1]
        /\ \A i \in 1 .. Len(q) : q[i].id = p
      BY <1>2, <2>1
  <2> HIDE DEF q, h, t
  <2>3. 1 \in 1 .. Len(q) /\ \A i \in 1 .. Len(t) : i + 1 \in 1 .. Len(q)
      BY <2>2
  <2> QED
      BY <2>2, <2>3
<1>4. sent \in Seq(Values) /\ buff \in Seq(Values) /\ ring[r] \in Seq(Values)
    BY DataFacts
<1>r. ring'[p] = t /\ (r # p => ring'[r] = ring[r])
    BY <1>1 DEF Types, DataTypes
<1> HIDE DEF h, t
<1>5. buff' = buff \o <<h>> /\ <<h>> \in Seq(Values) /\ buff' \in Seq(Values)
  <2>1. buff' = buff \o <<h>>
      BY <1>1, <1>2, <1>4, AppendIsConcat
  <2>2. <<h>> \in Seq(Values)
      BY <1>2, OneValue
  <2> QED
      BY <1>4, <2>1, <2>2, ConcatParts
<1>6. CASE r = p
  <2>1. sent' \o buff' \o ring'[r] = sent \o buff \o ring[r]
    <3> DEFINE o == <<h>>
    <3>1. o \in Seq(Values) /\ buff' = buff \o o /\ ring[p] = o \o t /\ ring'[p] = t /\ t \in Seq(Values)
        BY <1>2, <1>5, <1>r
    <3> HIDE DEF o
    <3>2. sent \o (buff \o o) = (sent \o buff) \o o
        BY <1>4, <3>1, ConcatAssociative
    <3>3. sent \o buff \in Seq(Values)
        BY <1>4, ConcatParts
    <3>4. ((sent \o buff) \o o) \o t = (sent \o buff) \o (o \o t)
        BY <3>1, <3>3, ConcatAssociative
    <3> QED
        BY <1>6, <3>1, <3>2, <3>4
  <2>2. Way(r)' = Way(r)
      BY <2>1 DEF Way
  <2>3. \A i \in 1 .. Len(ring'[r]) : ring'[r][i].id = r
      BY <1>3, <1>6, <1>r
  <2> QED
      BY <2>2, <2>3 DEF WayInv
<1>7. CASE r # p
  <2> DEFINE o == <<h>>
  <2>1. /\ o \in Seq(Values) /\ buff' = buff \o o /\ buff' \in Seq(Values)
        /\ InOrder(r, o) /\ Numbers(r, o) = {}
        /\ Before(r, buff, o) /\ Before(r, sent, o) /\ Before(r, o, ring[r])
      BY <1>2, <1>3, <1>5, <1>7, OneValue
  <2> HIDE DEF o
  <2>2. WayInv(r)
      OBVIOUS
  <2>3. /\ InOrder(r, sent) /\ InOrder(r, buff) /\ InOrder(r, ring[r])
        /\ Before(r, sent, buff) /\ Before(r, sent, ring[r]) /\ Before(r, buff, ring[r])
        /\ Numbers(r, sent) \cup Numbers(r, buff) \cup Numbers(r, ring[r])
              = (0 .. counter[r] - 1) \ full[r]
      BY <1>4, <2>2, WayParts DEF WayInv, Way
  <2>4. /\ InOrder(r, buff') /\ Before(r, sent, buff') /\ Before(r, buff', ring[r])
        /\ Numbers(r, buff') = Numbers(r, buff)
    <3>1. InOrder(r, buff \o o)
        BY <1>4, <2>1, <2>3, ConcatInOrder
    <3>2. Before(r, sent, buff \o o) /\ Before(r, buff \o o, ring[r])
        BY <1>4, <2>1, <2>3, ConcatBefore
    <3>3. Numbers(r, buff \o o) = Numbers(r, buff) \cup Numbers(r, o)
        BY <1>4, <2>1, ConcatNumbers
    <3> QED
        BY <2>1, <3>1, <3>2, <3>3
  <2>5. /\ InOrder(r, sent \o buff' \o ring[r])
        /\ Numbers(r, sent \o buff' \o ring[r]) = (0 .. counter[r] - 1) \ full[r]
    <3> DEFINE y == buff'
    <3>1. y \in Seq(Values)
        BY <2>1
    <3> HIDE DEF y
    <3>2. /\ InOrder(r, sent \o y \o ring[r]) <=>
                 /\ InOrder(r, sent) /\ InOrder(r, y) /\ InOrder(r, ring[r])
                 /\ Before(r, sent, y) /\ Before(r, sent, ring[r]) /\ Before(r, y, ring[r])
          /\ Numbers(r, sent \o y \o ring[r])
                 = Numbers(r, sent) \cup Numbers(r, y) \cup Numbers(r, ring[r])
        BY <1>4, <3>1, WayParts
    <3> QED
        BY <2>3, <2>4, <3>2 DEF y
  <2>6. Way(r)' = sent \o buff' \o ring[r]
      BY <1>7, <1>r DEF Way
  <2> QED
      BY <1>7, <1>r, <2>2, <2>5, <2>6 DEF WayInv
<1> QED
    BY <1>6, <1>7

LEMMA SendKeeps ==
    ASSUME Types, Send, NEW s \in Enabled, WayInv(s)
    PROVE  WayInv(s)'
<1>1. sent' = sent \o buff /\ buff' = <<>> /\ UNCHANGED <<ring, counter, full>>
    BY DEF Send, loop
<1>2. sent \in Seq(Values) /\ buff \in Seq(Values)
    BY DataFacts
<1>3. sent' \o buff' = sent \o buff
    BY <1>1, <1>2, ConcatParts, ConcatEmptySeq
<1>4. Way(s)' = Way(s)
    BY <1>1, <1>3 DEF Way
<1> QED
    BY <1>1, <1>4 DEF WayInv

\* The next value of s joins the end of its way.
LEMMA AnswerExtends ==
    ASSUME Types, NEW s \in Enabled, WayInv(s)
    PROVE  LET w == Way(s) \o <<Value(s)>>
           IN  /\ InOrder(s, w)
               /\ Numbers(s, w) = (0 .. counter[s]) \ full[s]
<1> DEFINE v == Value(s)
           o == <<v>>
           w == Way(s)
           n == counter[s]
<1>1. v \in Values /\ v.id = s /\ v.seq = n /\ n \in Nat
    BY DataFacts DEF Value, Values
<1>2. w \in Seq(Values)
    BY DataFacts, WayParts DEF Way
<1>3. InOrder(s, w) /\ Numbers(s, w) = (0 .. n - 1) \ full[s] /\ full[s] \subseteq 0 .. n - 1
    BY DEF WayInv
<1>4. /\ o \in Seq(Values) /\ InOrder(s, o) /\ Numbers(s, o) = {n}
      /\ Before(s, w, o) <=> \A m \in Numbers(s, w) : m < n
  <2> HIDE DEF v, w
  <2> QED
      BY <1>1, OneValue
<1> HIDE DEF o, w, n
<1>5. Before(s, w, o)
    BY <1>1, <1>3, <1>4
<1>6. InOrder(s, w \o o) /\ Numbers(s, w \o o) = Numbers(s, w) \cup {n}
    BY <1>2, <1>3, <1>4, <1>5, ConcatInOrder, ConcatNumbers
<1>7. ((0 .. n - 1) \ full[s]) \cup {n} = (0 .. n) \ full[s]
  <2>1. 0 .. n = (0 .. n - 1) \cup {n} /\ n \notin 0 .. n - 1
      BY <1>1
  <2> QED
      BY <1>3, <2>1
<1> QED
    BY <1>3, <1>6, <1>7 DEF o, w, n

\* A value of one sensor changes nothing for another.
LEMMA AnswerSpares ==
    ASSUME Types, NEW s \in Enabled, NEW r \in Enabled \ {s}, WayInv(r), WaysInv, Answer(s)
    PROVE  WayInv(r)'
<1> DEFINE v == Value(s)
           o == <<v>>
<1>t. Types /\ counter'[r] = counter[r] /\ full'[r] = full[r] /\ ring'[r] = ring[r] /\ buff' = buff
  <2>1. full' = full \/ full' = [full EXCEPT ![s] = @ \cup {counter[s]}]
      BY DEF Answer, Push
  <2>2. ring' = ring \/ ring' = [ring EXCEPT ![s] = Append(@, Value(s))]
      BY DEF Answer, Push
  <2>3. counter' = [counter EXCEPT ![s] = @ + 1] /\ buff' = buff
      BY DEF Answer
  <2> QED
      BY <2>1, <2>2, <2>3 DEF Types, LoopTypes, DataTypes
<1>1. CASE Aggregate
  <2>1. sent' = sent
      BY <1>1 DEF Answer
  <2>2. Way(r)' = Way(r)
      BY <1>t, <2>1 DEF Way
  <2> QED
      BY <1>t, <2>2 DEF WayInv
<1>2. CASE ~Aggregate
  <2>1. v \in Values /\ v.id = s
      BY DataFacts DEF Value, Values
  <2>2. sent \in Seq(Values) /\ buff = <<>> /\ ring[r] = <<>> /\ sent' = Append(sent, v)
      BY <1>2, DataFacts DEF WaysInv, Unused, Answer
  <2> HIDE DEF v
  <2>3. sent' = sent \o o
      BY <2>1, <2>2, AppendIsConcat
  <2>4. /\ o \in Seq(Values) /\ InOrder(r, o) /\ Numbers(r, o) = {} /\ Before(r, sent, o)
      BY <2>1, OneValue
  <2> HIDE DEF o
  <2>5. sent' \in Seq(Values)
      BY <2>2, <2>3, <2>4, ConcatParts
  <2>6. Way(r) = sent /\ Way(r)' = sent'
      BY <1>t, <2>2, <2>5, ConcatEmptySeq DEF Way
  <2>7. InOrder(r, sent \o o) /\ Numbers(r, sent \o o) = Numbers(r, sent)
    <3>1. InOrder(r, sent)
        BY <2>6 DEF WayInv
    <3>2. InOrder(r, sent \o o)
        BY <2>2, <2>4, <3>1, ConcatInOrder
    <3>3. Numbers(r, sent \o o) = Numbers(r, sent) \cup Numbers(r, o)
        BY <2>2, <2>4, ConcatNumbers
    <3> QED
        BY <2>4, <3>2, <3>3
  <2>8. Way(r)' = sent \o o
      BY <2>3, <2>6
  <2> QED
      BY <1>t, <2>6, <2>7, <2>8 DEF WayInv
<1> QED
    BY <1>1, <1>2

LEMMA AnswerKeeps ==
    ASSUME Types, WaysInv, NEW s \in Enabled, Answer(s)
    PROVE  WayInv(s)'
<1> DEFINE v == Value(s)
           o == <<v>>
<1>1. v \in Values /\ v.id = s /\ o \in Seq(Values)
  <2>1. v \in Values /\ v.id = s
      BY DataFacts DEF Value, Values
  <2> HIDE DEF v
  <2> QED
      BY <2>1, OneValue
<1>2. sent \in Seq(Values) /\ buff \in Seq(Values) /\ ring[s] \in Seq(Values) /\ counter[s] \in Nat
    BY DataFacts
<1>3. WayInv(s)
    BY DEF WaysInv
<1>4. InOrder(s, Way(s) \o o) /\ Numbers(s, Way(s) \o o) = (0 .. counter[s]) \ full[s]
    BY <1>3, AnswerExtends
<1>5. counter'[s] = counter[s] + 1 /\ buff' = buff
    BY DEF Answer, Types, LoopTypes
<1> HIDE DEF v, o
\* The next number is on the way, or was refused.
<1>6. ASSUME Way(s)' = Way(s) \o o, full'[s] = full[s],
             \A i \in 1 .. Len(ring'[s]) : ring'[s][i].id = s
      PROVE  WayInv(s)'
  <2>1. counter'[s] - 1 = counter[s] /\ full[s] \subseteq 0 .. counter[s]
      BY <1>2, <1>3, <1>5 DEF WayInv
  <2> QED
      BY <1>4, <1>6, <2>1 DEF WayInv
<1>7. CASE Aggregate /\ Len(ring[s]) < Capacity
  <2>1. ring' = [ring EXCEPT ![s] = Append(@, v)] /\ full' = full /\ sent' = sent
      BY <1>7 DEF Answer, Push, v
  <2>2. ring'[s] = ring[s] \o o
      BY <1>1, <1>2, <2>1, AppendIsConcat DEF Types, DataTypes, o
  <2>3. Way(s)' = Way(s) \o o
    <3> DEFINE x == sent \o buff
               z == ring[s]
    <3>1. x \in Seq(Values) /\ z \in Seq(Values)
        BY <1>2, ConcatParts
    <3> HIDE DEF x, z
    <3>2. (x \o z) \o o = x \o (z \o o)
        BY <1>1, <3>1, ConcatAssociative
    <3> USE DEF x, z
    <3> QED
        BY <1>5, <2>1, <2>2, <3>2 DEF Way
  <2>4. \A i \in 1 .. Len(ring'[s]) : ring'[s][i].id = s
    <3>1. ring'[s] = Append(ring[s], v)
        BY <2>1 DEF Types, DataTypes
    <3>2. /\ Len(Append(ring[s], v)) = Len(ring[s]) + 1 /\ Len(ring[s]) \in Nat
          /\ \A i \in 1 .. Len(ring[s]) : Append(ring[s], v)[i] = ring[s][i]
          /\ Append(ring[s], v)[Len(ring[s]) + 1] = v
        BY <1>1, <1>2, AppendProperties, LenProperties
    <3>3. \A i \in 1 .. Len(ring[s]) + 1 : i \in 1 .. Len(ring[s]) \/ i = Len(ring[s]) + 1
        BY <3>2
    <3> QED
        BY <1>1, <1>3, <3>1, <3>2, <3>3 DEF WayInv
  <2> QED
      BY <1>6, <2>1, <2>3, <2>4
<1>8. CASE Aggregate /\ ~(Len(ring[s]) < Capacity)
  <2>1. ring' = ring /\ sent' = sent /\ full' = [full EXCEPT ![s] = @ \cup {counter[s]}]
      BY <1>8 DEF Answer, Push
  <2>2. full'[s] = full[s] \cup {counter[s]}
      BY <2>1 DEF Types, LoopTypes
  <2>3. Way(s)' = Way(s)
      BY <1>5, <2>1 DEF Way
  <2>4. (0 .. counter[s] - 1) \ full[s] = (0 .. counter[s]) \ (full[s] \cup {counter[s]})
    <3>1. 0 .. counter[s] = (0 .. counter[s] - 1) \cup {counter[s]} /\ counter[s] \notin 0 .. counter[s] - 1
        BY <1>2
    <3> QED
        BY <3>1
  <2>5. full'[s] \subseteq 0 .. counter[s]
    <3>1. full[s] \subseteq 0 .. counter[s] - 1
        BY <1>3 DEF WayInv
    <3> QED
        BY <1>2, <2>2, <3>1
  <2>6. counter'[s] - 1 = counter[s]
      BY <1>2, <1>5
  <2>7. InOrder(s, Way(s)) /\ Numbers(s, Way(s)) = (0 .. counter[s] - 1) \ full[s]
      BY <1>3 DEF WayInv
  <2>8. \A i \in 1 .. Len(ring'[s]) : ring'[s][i].id = s
      BY <1>3, <2>1 DEF WayInv
  <2> QED
      BY <2>2, <2>3, <2>4, <2>5, <2>6, <2>7, <2>8 DEF WayInv
<1>9. CASE ~Aggregate
  <2>1. sent' = Append(sent, v) /\ ring' = ring /\ full' = full
      BY <1>9 DEF Answer, v
  <2>2. sent' = sent \o o
      BY <1>1, <1>2, <2>1, AppendIsConcat DEF o
  <2>3. buff = <<>> /\ ring[s] = <<>>
      BY <1>9 DEF WaysInv, Unused
  <2>4. sent \o o \in Seq(Values)
      BY <1>1, <1>2, ConcatParts
  <2>5. Way(s) = sent /\ Way(s)' = sent \o o
      BY <1>2, <1>5, <2>1, <2>2, <2>3, <2>4, ConcatEmptySeq DEF Way
  <2>6. \A i \in 1 .. Len(ring'[s]) : ring'[s][i].id = s
      BY <1>3, <2>1 DEF WayInv
  <2> QED
      BY <1>6, <2>1, <2>5, <2>6
<1> QED
    BY <1>7, <1>8, <1>9

LEMMA UnusedStep == ASSUME Types, Unused, Next PROVE Unused'
<1>1. batch' = batch
    BY DEF Next, Main, Fork, Waited, AggregateThread, Gather, Send, SendFails, End, Query, Connect,
           ConnectFails, Look, Ask, AskFails, Answer, Reschedule, Finish, Signal, Handle
<1> SUFFICES ASSUME ~Aggregate PROVE buff' = <<>> /\ \A s \in Enabled : ring'[s] = <<>>
    BY <1>1 DEF Unused, Aggregate
<1>2. buff = <<>> /\ \A s \in Enabled : ring[s] = <<>>
    BY DEF Unused
<1>3. CASE Gather
    BY <1>2, <1>3 DEF Gather, Pop
<1>4. CASE Send
    BY <1>2, <1>4 DEF Send
<1>5. CASE SendFails \/ Main \/ \E p \in Proc : Signal(p) \/ Handle(p)
    BY <1>2, <1>5 DEF SendFails, End, Main, Fork, Waited, Signal, Handle, data
<1>6. ASSUME NEW s \in Enabled, Query(s) PROVE ring' = ring /\ buff' = buff
    BY <1>6 DEF Query, Connect, ConnectFails, Look, Ask, AskFails, Answer, Reschedule, Finish, End, data
<1> QED
    BY <1>2, <1>3, <1>4, <1>5, <1>6 DEF Next, AggregateThread

LEMMA WaysInvStep == ASSUME Types, WaysInv, Next PROVE WaysInv'
<1>1. Unused'
    BY UnusedStep DEF WaysInv
<1> SUFFICES ASSUME NEW r \in Enabled PROVE WayInv(r)'
    BY <1>1 DEF WaysInv
<1>i. \A s \in Enabled : WayInv(s)
    BY DEF WaysInv
<1>2. ASSUME UNCHANGED <<data, counter, full>> PROVE WayInv(r)'
    BY <1>i, <1>2, WayFrame
<1>3. CASE Main \/ SendFails \/ \E p \in Proc : Signal(p) \/ Handle(p)
  <2>1. UNCHANGED <<data, counter, full>>
      BY <1>3 DEF Main, Fork, Waited, SendFails, End, Signal, Handle, loop
  <2> QED
      BY <1>2, <2>1
<1>4. CASE Gather
  <2>1. UNCHANGED <<sent, counter, full>>
      BY <1>4 DEF Gather, loop
  <2>2. ASSUME UNCHANGED <<ring, buff>> PROVE WayInv(r)'
    <3>1. Way(r)' = Way(r)
        BY <2>1, <2>2 DEF Way
    <3> QED
        BY <1>i, <2>1, <2>2, <3>1 DEF WayInv
  <2>3. ASSUME NEW p, Pop(p) PROVE WayInv(r)'
      BY <1>i, <2>1, <2>3, PopKeeps
  <2> QED
      BY <1>4, <2>2, <2>3 DEF Gather
<1>5. CASE Send
    BY <1>i, <1>5, SendKeeps
<1>6. ASSUME NEW s \in Enabled, Query(s) PROVE WayInv(r)'
  <2>1. CASE Answer(s)
    <3>1. CASE r = s
        BY <2>1, <3>1, AnswerKeeps
    <3>2. CASE r # s
        BY <1>i, <2>1, <3>2, AnswerSpares
    <3> QED
        BY <3>1, <3>2
  <2>2. CASE ~Answer(s)
    <3>1. UNCHANGED <<data, counter, full>>
        BY <1>6, <2>2 DEF Query, Connect, ConnectFails, Look, Ask, AskFails, Reschedule, Finish, End, loop
    <3> QED
        BY <1>2, <3>1
  <2> QED
      BY <2>1, <2>2
<1> QED
    BY <1>3, <1>4, <1>5, <1>6 DEF Next, AggregateThread

\* From the rings through aggregation into the datagrams, no value is lost, doubled or
\* overtaken (AllAccountedFor, of ring_push, aggregate_thread and the sends).
THEOREM NothingIsLost == Spec => []AllAccountedFor
<1>1. Init => WaysInv
  <2> SUFFICES ASSUME Init PROVE WaysInv
      OBVIOUS
  <2>1. Unused
      BY DEF Init, Unused
  <2>2. ASSUME NEW s \in Enabled PROVE WayInv(s)
    <3>1. sent = <<>> /\ buff = <<>> /\ ring[s] = <<>> /\ counter[s] = 0 /\ full[s] = {}
        BY DEF Init
    <3>2. Way(s) = <<>>
        BY <3>1 DEF Way
    <3>3. 0 .. 0 - 1 = {}
        OBVIOUS
    <3> QED
        BY <3>1, <3>2, <3>3, NoValue DEF WayInv
  <2> QED
      BY <2>1, <2>2 DEF WaysInv
<1>2. ASSUME WaysInv, UNCHANGED vars PROVE WaysInv'
  <2>1. UNCHANGED <<data, counter, full, batch>>
      BY <1>2 DEF vars, loop
  <2>2. Unused'
      BY <1>2, <2>1 DEF WaysInv, Unused, Aggregate, data
  <2>3. ASSUME NEW s \in Enabled PROVE WayInv(s)'
    <3>1. WayInv(s)
        BY <1>2 DEF WaysInv
    <3> QED
        BY <2>1, <3>1, WayFrame
  <2> QED
      BY <2>2, <2>3 DEF WaysInv
<1>3. Types /\ WaysInv /\ [Next]_vars => WaysInv'
    BY <1>2, WaysInvStep
<1>4. WaysInv => AllAccountedFor
    BY DEF WaysInv, WayInv, AllAccountedFor
<1> QED
    BY <1>1, <1>3, <1>4, TypesAlways, PTL DEF Spec
===============================================================================
