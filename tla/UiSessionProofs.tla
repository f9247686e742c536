--------------------------- MODULE UiSessionProofs ---------------------------
(***************************************************************************)
(* What a session of the UI guarantees for any set and size of pipes and   *)
(* any number of tools, calibrations and lines.                            *)
(***************************************************************************)
EXTENDS UiSession, SequenceTheorems, TLAPS

(***************************************************************************)
(* Runs of consecutive lines                                               *)
(***************************************************************************)

\* s holds the lines that follow line a
After(a, s) == \A k \in 1 .. Len(s) : s[k] = a + k

\* Two runs of which one follows the other are a run.
LEMMA AfterConcat ==
    ASSUME NEW s \in Seq(Line), NEW t \in Seq(Line), NEW a \in Int,
           After(a, s), After(a + Len(s), t)
    PROVE  s \o t \in Seq(Line) /\ Len(s \o t) = Len(s) + Len(t) /\ After(a, s \o t)
<1>1. /\ s \o t \in Seq(Line) /\ Len(s \o t) = Len(s) + Len(t)
      /\ \A k \in 1 .. Len(s) + Len(t) : (s \o t)[k] = IF k <= Len(s) THEN s[k] ELSE t[k - Len(s)]
    BY ConcatProperties
<1>2. Len(s) \in Nat /\ Len(t) \in Nat
    BY LenProperties
<1>3. ASSUME NEW k \in 1 .. Len(s) + Len(t) PROVE (s \o t)[k] = a + k
  <2>1. CASE k <= Len(s)
      BY <1>1, <1>2, <2>1 DEF After
  <2>2. CASE k > Len(s)
    <3>1. k - Len(s) \in 1 .. Len(t)
        BY <1>2, <2>2
    <3> QED
        BY <1>1, <1>2, <2>2, <3>1 DEF After
  <2> QED
      BY <1>2, <2>1, <2>2
<1> QED
    BY <1>1, <1>3 DEF After

\* Front and Last split s.
LEMMA FrontLast ==
    ASSUME NEW s \in Seq(Line), Len(s) >= 2, NEW a \in Int, After(a, s)
    PROVE  /\ Front(s) \in Seq(Line) /\ Len(Front(s)) = Len(s) - 1 /\ After(a, Front(s))
           /\ <<Last(s)>> \in Seq(Line) /\ Len(<<Last(s)>>) = 1
           /\ After(a + Len(s) - 1, <<Last(s)>>)
<1>1. Len(s) \in Nat
    BY LenProperties
<1>2. \A k \in 1 .. Len(s) : s[k] \in Line
    BY ElementOfSeq
<1>3. /\ Front(s) \in Seq(Line) /\ Len(Front(s)) = Len(s) - 1
      /\ \A k \in 1 .. Len(s) - 1 : Front(s)[k] = s[k]
    BY <1>1, <1>2 DEF Front
<1>4. Last(s) \in Line /\ Last(s) = a + Len(s)
    BY <1>1, <1>2 DEF Last, After
<1> QED
    BY <1>1, <1>3, <1>4 DEF After

(***************************************************************************)
(* The places of a line: the data, the text put off, the pipe.  Each holds *)
(* a run of lines that follows the one before.                             *)
(***************************************************************************)

\* w is the last line of the three and d the one before the first
Places(d, D, L, p, w) ==
    /\ d + Len(D) + Len(L) + Len(p) = w
    /\ After(d, D)
    /\ After(d + Len(D), L)
    /\ After(d + Len(D) + Len(L), p)

\* A line written goes to the end of its pipe.
LEMMA WritePlaces ==
    ASSUME NEW D \in Seq(Line), NEW L \in Seq(Line), NEW p \in Seq(Line),
           NEW d \in Nat, NEW w \in Nat, Places(d, D, L, p, w), w + 1 \in Line
    PROVE  Append(p, w + 1) \in Seq(Line) /\ Places(d, D, L, Append(p, w + 1), w + 1)
<1>1. Len(D) \in Nat /\ Len(L) \in Nat /\ Len(p) \in Nat
    BY LenProperties
<1>2. /\ Append(p, w + 1) \in Seq(Line)
      /\ Len(Append(p, w + 1)) = Len(p) + 1
      /\ \A k \in 1 .. Len(p) : Append(p, w + 1)[k] = p[k]
      /\ Append(p, w + 1)[Len(p) + 1] = w + 1
    BY AppendProperties
<1>3. d + Len(D) + Len(L) + (Len(p) + 1) = w + 1
    BY <1>1 DEF Places
<1>4. ASSUME NEW k \in 1 .. Len(p) + 1
      PROVE  Append(p, w + 1)[k] = d + Len(D) + Len(L) + k
  <2>1. CASE k = Len(p) + 1
      BY <1>2, <1>3, <2>1
  <2>2. CASE k \in 1 .. Len(p)
      BY <1>2, <2>2 DEF Places, After
  <2> QED
      BY <1>1, <2>1, <2>2
<1> QED
    BY <1>2, <1>3, <1>4 DEF Places, After

\* drop_data forgets all lines but those in the pipe.
LEMMA DropPlaces ==
    ASSUME NEW D \in Seq(Line), NEW L \in Seq(Line), NEW p \in Seq(Line),
           NEW d \in Nat, NEW w \in Nat, Places(d, D, L, p, w)
    PROVE  w - Len(p) \in 0 .. w /\ Places(w - Len(p), <<>>, <<>>, p, w)
<1>1. Len(D) \in Nat /\ Len(L) \in Nat /\ Len(p) \in Nat
    BY LenProperties
<1>2. w - Len(p) = d + Len(D) + Len(L)
    BY <1>1 DEF Places
<1>3. w - Len(p) \in 0 .. w
    BY <1>1, <1>2
<1> QED
    BY <1>1, <1>2, <1>3 DEF Places, After

LEMMA ZeroOneMore ==
    \A n \in Nat : /\ n = 0 \/ n = 1 \/ n >= 2
                   /\ n >= 2 => n # 0 /\ n # 1 /\ ~(n < 2)
    OBVIOUS

\* evaluate_pipe moves lines on and keeps their order, whether it finds none, one
\* or more in the pipe.
LEMMA EvaluatePlaces ==
    ASSUME NEW D \in Seq(Line), NEW L \in Seq(Line), NEW p \in Seq(Line),
           NEW d \in Nat, NEW w \in Nat, Places(d, D, L, p, w)
    PROVE  /\ D \o Taken(L, p) \in Seq(Line)
           /\ PutOff(L, p) \in Seq(Line)
           /\ Places(d, D \o Taken(L, p), PutOff(L, p), <<>>, w)
<1>1. Len(D) \in Nat /\ Len(L) \in Nat /\ Len(p) \in Nat
    BY LenProperties
<1>2. d \in Int /\ d + Len(D) \in Int /\ d + Len(D) + Len(L) \in Int
    BY <1>1
<1>3. CASE Len(p) = 0
  <2>1. p = <<>>
      BY <1>3, EmptySeq
  <2>2. Taken(L, p) = <<>> /\ PutOff(L, p) = L /\ D \o <<>> = D
      BY <1>3, <2>1, ConcatEmptySeq DEF Taken, PutOff
  <2> QED
      BY <2>1, <2>2
<1>4. CASE Len(p) = 1
  <2>1. Taken(L, p) = <<>> /\ PutOff(L, p) = L \o p /\ D \o <<>> = D
      BY <1>4, EmptySeq, ConcatEmptySeq DEF Taken, PutOff
  <2>2. L \o p \in Seq(Line) /\ Len(L \o p) = Len(L) + Len(p) /\ After(d + Len(D), L \o p)
      BY <1>2, AfterConcat DEF Places
  <2>3. Places(d, D, L \o p, <<>>, w)
      BY <1>1, <2>2 DEF Places, After
  <2> QED
      BY <2>1, <2>2, <2>3
<1>5. CASE Len(p) >= 2
  <2>1. PICK F : F = Front(p)
      OBVIOUS
  <2>2. PICK E : E = <<Last(p)>>
      OBVIOUS
  <2>3. /\ F \in Seq(Line) /\ Len(F) = Len(p) - 1 /\ After(d + Len(D) + Len(L), F)
        /\ E \in Seq(Line) /\ Len(E) = 1 /\ After(d + Len(D) + Len(L) + Len(p) - 1, E)
      BY <1>2, <1>5, <2>1, <2>2, FrontLast DEF Places
  <2>4. PICK M : M = L \o F
      OBVIOUS
  <2>5. M \in Seq(Line) /\ Len(M) = Len(L) + Len(F) /\ After(d + Len(D), M)
      BY <1>2, <2>3, <2>4, AfterConcat DEF Places
  <2>6. D \o M \in Seq(Line) /\ Len(D \o M) = Len(D) + Len(M) /\ After(d, D \o M)
    <3>1. After(d, D)
        BY DEF Places
    <3> QED
        BY <1>2, <2>5, <3>1, AfterConcat
  <2>7. PICK N : N = D \o M
      OBVIOUS
  <2>8. N \in Seq(Line) /\ d + Len(N) = d + Len(D) + Len(L) + Len(p) - 1 /\ After(d, N)
    <3>1. Len(N) = Len(D) + Len(M) /\ Len(M) = Len(L) + Len(F) /\ Len(F) = Len(p) - 1
        BY <2>3, <2>5, <2>6, <2>7
    <3>2. Len(N) = Len(D) + Len(L) + Len(p) - 1
        BY <1>1, <3>1
    <3>3. d + (Len(D) + Len(L) + Len(p) - 1) = d + Len(D) + Len(L) + Len(p) - 1
        BY <1>1
    <3> QED
        BY <2>6, <2>7, <3>2, <3>3, Zenon
  <2>9. Places(d, N, E, <<>>, w)
      BY <1>1, <2>3, <2>8 DEF Places, After
  <2>10. Taken(L, p) = M /\ PutOff(L, p) = E
    <3>1. p # <<>> /\ Len(p) # 1 /\ ~(Len(p) < 2)
      <4>1. Len(<<>>) = 0
          OBVIOUS
      <4> QED
          BY <1>1, <1>5, <4>1, ZeroOneMore, Zenon
    <3> QED
        BY <2>1, <2>2, <2>4, <3>1 DEF Taken, PutOff
  <2> QED
      BY <2>3, <2>7, <2>8, <2>9, <2>10
<1>6. Len(p) = 0 \/ Len(p) = 1 \/ Len(p) >= 2
    BY <1>1, ZeroOneMore, Zenon
<1> QED
    BY <1>3, <1>4, <1>5, <1>6

(***************************************************************************)
(* The invariant                                                           *)
(***************************************************************************)

PipeInv(i) == Places(dropped[i], DATA[i], LINECACHE[i], pipe[i], written[i])

PipeTypes(i) ==
    /\ DATA[i] \in Seq(Line) /\ LINECACHE[i] \in Seq(Line) /\ pipe[i] \in Seq(Line)
    /\ dropped[i] \in 0 .. MaxLine /\ written[i] \in 0 .. MaxLine

ToolInv ==
    /\ CAPTURE_PROCESS \in Tool \cup {None}
    /\ tools \in Tool
    /\ alive \subseteq 1 .. tools
    /\ raw \subseteq 1 .. tools
    /\ timers \in 0 .. MaxTool
    /\ timers <= tools
    /\ OneWriter

FlagTypes == RUNNING \in BOOLEAN /\ DETECTING \in BOOLEAN /\ CALIBRATING \in BOOLEAN

\* That the pipes' variables are functions is all TypeOK adds to the above.
Functions ==
    /\ written = [i \in Pipe |-> written[i]]
    /\ pipe = [i \in Pipe |-> pipe[i]]
    /\ LINECACHE = [i \in Pipe |-> LINECACHE[i]]
    /\ DATA = [i \in Pipe |-> DATA[i]]
    /\ dropped = [i \in Pipe |-> dropped[i]]

Inv ==
    /\ FlagTypes
    /\ ToolInv
    /\ calTimers \in 0 .. MaxCal
    /\ Functions
    /\ \A i \in Pipe : PipeTypes(i) /\ PipeInv(i)

LEMMA InvInit == Init => Inv
<1> SUFFICES ASSUME Init PROVE Inv
    OBVIOUS
<1>1. FlagTypes
    BY Zenon DEF Init, FlagTypes
<1>2. ToolInv
    BY UiAssumption DEF Init, ToolInv, OneWriter, Tool
<1>3. calTimers \in 0 .. MaxCal /\ Functions
    BY UiAssumption DEF Init, Functions
<1>4. ASSUME NEW i \in Pipe PROVE PipeTypes(i) /\ PipeInv(i)
  <2>1. /\ DATA[i] = <<>> /\ LINECACHE[i] = <<>> /\ pipe[i] = <<>>
        /\ written[i] = 0 /\ dropped[i] = 0
      BY <1>4 DEF Init
  <2>2. Places(0, <<>>, <<>>, <<>>, 0)
      BY DEF Places, After
  <2> QED
      BY <2>1, <2>2, UiAssumption DEF PipeTypes, PipeInv
<1> QED
    BY <1>1, <1>2, <1>3, <1>4 DEF Inv

\* Popen leaves one tool alive, the one it starts.
LEMMA PopenInv ==
    ASSUME ToolInv, NEW living, living \subseteq {}, NEW withRaw, Popen(living, withRaw),
           timers' \in {timers, timers + 1}
    PROVE  ToolInv'
    BY UiAssumption DEF ToolInv, Popen, OneWriter, Tool

\* What a step that leaves the lines alone leaves alone.
LEMMA LinesStay ==
    ASSUME Inv, UNCHANGED lines
    PROVE  Functions' /\ \A i \in Pipe : PipeTypes(i)' /\ PipeInv(i)'
    BY DEF Inv, lines, Functions, PipeTypes, PipeInv

LEMMA WriteInv == ASSUME Inv, NEW t \in Tool, NEW i \in Pipe, Write(t, i) PROVE Inv'
<1>1. PipeTypes(i) /\ PipeInv(i) /\ Functions
    BY DEF Inv
<1>2. PICK w : w = written[i]
    OBVIOUS
<1>3. w \in Nat /\ w + 1 \in Line /\ written' = [written EXCEPT ![i] = w + 1]
    BY <1>1, <1>2, UiAssumption DEF Write, PipeTypes, Line
<1>4. written'[i] = w + 1 /\ \A j \in Pipe : j # i => written'[j] = written[j]
    BY <1>1, <1>3 DEF Functions
<1>5. pipe'[i] = Append(pipe[i], w + 1) /\ \A j \in Pipe : j # i => pipe'[j] = pipe[j]
    BY <1>1, <1>4 DEF Write, Functions
<1>6. LINECACHE' = LINECACHE /\ DATA' = DATA /\ dropped' = dropped
    BY DEF Write
<1>7. dropped[i] \in Nat
    BY <1>1, UiAssumption DEF PipeTypes
<1>8. /\ pipe'[i] \in Seq(Line)
      /\ Places(dropped[i], DATA[i], LINECACHE[i], pipe'[i], written'[i])
    BY <1>1, <1>2, <1>3, <1>4, <1>5, <1>7, WritePlaces DEF PipeTypes, PipeInv
<1>9. PipeTypes(i)' /\ PipeInv(i)'
    BY <1>1, <1>3, <1>4, <1>6, <1>8, UiAssumption DEF PipeTypes, PipeInv, Line
<1>10. ASSUME NEW j \in Pipe, j # i PROVE PipeTypes(j)' /\ PipeInv(j)'
    BY <1>4, <1>5, <1>6, <1>10 DEF Inv, PipeTypes, PipeInv
<1>11. Functions'
    BY <1>1, <1>6 DEF Write, Functions
<1>12. FlagTypes' /\ ToolInv' /\ calTimers' \in 0 .. MaxCal
    BY Zenon DEF Write, Inv, FlagTypes, ToolInv, OneWriter, flags, procs
<1> QED
    BY <1>9, <1>10, <1>11, <1>12 DEF Inv

LEMMA StartInv == ASSUME Inv, Start PROVE Inv'
<1>1. ASSUME NEW i \in Pipe PROVE PipeTypes(i)' /\ PipeInv(i)'
  <2>1. PipeTypes(i) /\ PipeInv(i) /\ dropped[i] \in Nat /\ written[i] \in Nat
      BY UiAssumption DEF Inv, PipeTypes
  <2>2. /\ DATA'[i] = <<>> /\ LINECACHE'[i] = <<>> /\ pipe' = pipe /\ written' = written
        /\ dropped'[i] = written[i] - Len(pipe[i])
      BY DEF Start, DropData
  <2>3. /\ dropped'[i] \in 0 .. written[i]
        /\ Places(dropped'[i], <<>>, <<>>, pipe[i], written[i])
      BY <2>1, <2>2, DropPlaces DEF PipeTypes, PipeInv
  <2> QED
      BY <2>1, <2>2, <2>3, UiAssumption DEF PipeTypes, PipeInv
<1>2. Functions'
    BY DEF Inv, Functions, Start, DropData
<1>3. ToolInv'
    BY PopenInv DEF Inv, Start
<1>4. FlagTypes' /\ calTimers' \in 0 .. MaxCal
    BY Zenon DEF Start, Inv, FlagTypes
<1> QED
    BY <1>1, <1>2, <1>3, <1>4 DEF Inv

LEMMA RefreshInv == ASSUME Inv, Refresh PROVE Inv'
<1>1. PICK read : Evaluate(read)
    BY DEF Refresh
<1>2. ASSUME NEW i \in Pipe PROVE PipeTypes(i)' /\ PipeInv(i)'
  <2>1. PipeTypes(i) /\ PipeInv(i) /\ dropped[i] \in Nat /\ written[i] \in Nat
      BY UiAssumption DEF Inv, PipeTypes
  <2>2. written' = written /\ dropped' = dropped
      BY DEF Refresh
  <2>3. CASE i \in read
    <3>1. /\ DATA'[i] = DATA[i] \o Taken(LINECACHE[i], pipe[i])
          /\ LINECACHE'[i] = PutOff(LINECACHE[i], pipe[i])
          /\ pipe'[i] = <<>>
        BY <1>1, <2>3 DEF Evaluate
    <3>2. /\ DATA'[i] \in Seq(Line) /\ LINECACHE'[i] \in Seq(Line) /\ pipe'[i] \in Seq(Line)
          /\ Places(dropped[i], DATA'[i], LINECACHE'[i], pipe'[i], written[i])
        BY <2>1, <3>1, EvaluatePlaces, EmptySeq DEF PipeTypes, PipeInv
    <3> QED
        BY <2>1, <2>2, <3>2 DEF PipeTypes, PipeInv
  <2>4. CASE i \notin read
    <3>1. DATA'[i] = DATA[i] /\ LINECACHE'[i] = LINECACHE[i] /\ pipe'[i] = pipe[i]
        BY <1>1, <2>4 DEF Evaluate
    <3> QED
        BY <2>1, <2>2, <3>1 DEF PipeTypes, PipeInv
  <2> QED
      BY <2>3, <2>4
<1>3. Functions'
    BY <1>1 DEF Inv, Functions, Refresh, Evaluate
<1>4. FlagTypes' /\ ToolInv' /\ calTimers' \in 0 .. MaxCal
    BY Zenon DEF Refresh, Inv, FlagTypes, ToolInv, OneWriter, flags, procs
<1> QED
    BY <1>2, <1>3, <1>4 DEF Inv

LEMMA InvStep == Inv /\ [Next]_vars => Inv'
<1> SUFFICES ASSUME Inv, [Next]_vars PROVE Inv'
    OBVIOUS
<1>1. CASE Detect
  <2>1. ToolInv'
    <3>1. alive \ {CAPTURE_PROCESS} \subseteq {}
        BY DEF Inv, ToolInv, OneWriter
    <3> QED
        BY <1>1, <3>1, PopenInv DEF Inv, Detect
  <2>2. FlagTypes' /\ calTimers' \in 0 .. MaxCal /\ UNCHANGED lines
      BY <1>1, Zenon DEF Detect, Inv, FlagTypes
  <2> QED
      BY <2>1, <2>2, LinesStay DEF Inv
<1>2. CASE Start
    BY <1>2, StartInv
<1>3. CASE Stop
  <2>1. ToolInv'
      BY <1>3 DEF Stop, Inv, ToolInv, OneWriter
  <2>2. FlagTypes' /\ calTimers' \in 0 .. MaxCal /\ UNCHANGED lines
      BY <1>3, Zenon DEF Stop, Inv, FlagTypes
  <2> QED
      BY <2>1, <2>2, LinesStay DEF Inv
<1>4. CASE StartCalibration
  <2>1. calTimers' \in 0 .. MaxCal
      BY <1>4, UiAssumption DEF StartCalibration, Inv
  <2>2. FlagTypes' /\ ToolInv' /\ UNCHANGED lines
      BY <1>4, Zenon DEF StartCalibration, Inv, FlagTypes, ToolInv, OneWriter, procs
  <2> QED
      BY <2>1, <2>2, LinesStay DEF Inv
<1>5. CASE StopDetecting
  <2>1. ToolInv'
      BY <1>5, UiAssumption DEF StopDetecting, Inv, ToolInv, OneWriter, Tool
  <2>2. FlagTypes' /\ calTimers' \in 0 .. MaxCal /\ UNCHANGED lines
      BY <1>5, Zenon DEF StopDetecting, Inv, FlagTypes
  <2> QED
      BY <2>1, <2>2, LinesStay DEF Inv
<1>6. CASE StopCalibration
  <2>1. calTimers' \in 0 .. MaxCal
      BY <1>6, UiAssumption DEF StopCalibration, Inv
  <2>2. FlagTypes' /\ ToolInv' /\ UNCHANGED lines
      BY <1>6, Zenon DEF StopCalibration, Inv, FlagTypes, ToolInv, OneWriter, procs
  <2> QED
      BY <2>1, <2>2, LinesStay DEF Inv
<1>7. CASE Refresh
    BY <1>7, RefreshInv
<1>8. ASSUME NEW t \in Tool, NEW i \in Pipe, Write(t, i) PROVE Inv'
    BY <1>8, WriteInv
<1>9. CASE UNCHANGED vars
  <2>1. FlagTypes' /\ ToolInv' /\ calTimers' \in 0 .. MaxCal /\ UNCHANGED lines
      BY <1>9, Zenon DEF vars, lines, Inv, FlagTypes, ToolInv, OneWriter
  <2> QED
      BY <2>1, LinesStay DEF Inv
<1> QED
    BY <1>1, <1>2, <1>3, <1>4, <1>5, <1>6, <1>7, <1>8, <1>9 DEF Next, Buttons, Timers

-------------------------------------------------------------------------------
\* The invariant holds in every reachable state.
LEMMA InvCorrect == Spec => []Inv
    BY InvInit, InvStep, PTL DEF Spec

\* The flags of main.py, its CAPTURE_PROCESS and the lines on their way keep their types.
THEOREM TypeCorrect == Spec => []TypeOK
<1>1. ASSUME Inv PROVE TypeOK
  <2>1. RUNNING \in BOOLEAN /\ DETECTING \in BOOLEAN /\ CALIBRATING \in BOOLEAN
      BY <1>1, Zenon DEF Inv, FlagTypes
  <2>2. /\ written \in [Pipe -> 0 .. MaxLine] /\ pipe \in [Pipe -> Seq(Line)]
        /\ LINECACHE \in [Pipe -> Seq(Line)] /\ DATA \in [Pipe -> Seq(Line)]
        /\ dropped \in [Pipe -> 0 .. MaxLine]
      BY <1>1 DEF Inv, Functions, PipeTypes
  <2> QED
      BY <1>1, <2>1, <2>2, Zenon DEF Inv, ToolInv, TypeOK
<1> QED
    BY <1>1, InvCorrect, PTL

\* No tool lives that CAPTURE_PROCESS does not name, whatever buttons and timers do: two
\* never write to the pipes at once.
THEOREM SingleWriter == Spec => []OneWriter
<1>1. Inv => OneWriter
    BY DEF Inv, ToolInv
<1> QED
    BY <1>1, InvCorrect, PTL

LEMMA PlacesKept ==
    ASSUME NEW D \in Seq(Line), NEW L \in Seq(Line), NEW p \in Seq(Line),
           NEW d \in Nat, NEW w \in Nat, Places(d, D, L, p, w)
    PROVE  Len(D \o L \o p) = w - d /\ After(d, D \o L \o p)
<1>1. Len(D) \in Nat /\ Len(L) \in Nat /\ Len(p) \in Nat
    BY LenProperties
<1>2. PICK DL : DL = D \o L
    OBVIOUS
<1>3. DL \in Seq(Line) /\ Len(DL) = Len(D) + Len(L) /\ After(d, DL)
    BY <1>2, AfterConcat DEF Places
<1>4. After(d + Len(DL), p)
  <2>1. d + Len(DL) = d + Len(D) + Len(L)
      BY <1>1, <1>3
  <2> QED
      BY <2>1 DEF Places
<1>5. Len(DL \o p) = Len(DL) + Len(p) /\ After(d, DL \o p)
  <2>1. d \in Int /\ After(d, DL)
      BY <1>3
  <2> QED
      BY <1>3, <1>4, <2>1, AfterConcat
<1>6. Len(DL) + Len(p) = w - d
    BY <1>1, <1>3 DEF Places
<1> QED
    BY <1>2, <1>5, <1>6

\* Between the tool and the data, no whole line is lost, doubled or moved: evaluate_pipe,
\* which puts off the last line of every read and glues it to the next, and drop_data keep
\* each of them, once and in order, however batches, kills and restarts fall.
THEOREM EveryLineKept == Spec => []LinesKept
<1>1. ASSUME Inv, NEW i \in Pipe
      PROVE  /\ Len(DATA[i] \o LINECACHE[i] \o pipe[i]) = written[i] - dropped[i]
             /\ After(dropped[i], DATA[i] \o LINECACHE[i] \o pipe[i])
  <2>1. /\ PipeTypes(i) /\ Places(dropped[i], DATA[i], LINECACHE[i], pipe[i], written[i])
        /\ dropped[i] \in Nat /\ written[i] \in Nat
      BY <1>1, UiAssumption DEF Inv, PipeTypes, PipeInv
  <2> QED
      BY <2>1, PlacesKept DEF PipeTypes
<1>2. Inv => LinesKept
    BY <1>1 DEF LinesKept, After
<1> QED
    BY <1>2, InvCorrect, PTL
=============================================================================
