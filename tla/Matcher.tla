-------------------------------- MODULE Matcher --------------------------------
(***************************************************************************)
(* ts-bin/process_timestamps.c: the process that pairs the two captures of *)
(* one frame.  It polls the rings of interface 1 and interface 2 in turn   *)
(* and keeps, per interface, a table of captures whose counterpart has not *)
(* come yet, indexed by content hash modulo the table's length.            *)
(*                                                                         *)
(* Frames are numbered in the order they pass the taps; every interface    *)
(* sees them in that order, and a frame's number stands for the hardware   *)
(* time stamp it gets there.  content[f] is the FNV hash packet_receive    *)
(* computes of frame f: identical frames have equal hashes, and so may     *)
(* different ones.  The rings are the bounded queues of BoundedFifo, which *)
(* RingBuffer implements.                                                  *)
(***************************************************************************)
EXTENDS Integers, Sequences

CONSTANTS
    MaxFrame,       \* frames that pass the taps (bound)
    Hash,           \* the hashes their contents can have
    Slots,          \* table length: hashprime of process_timestamps
    Capacity,       \* capacity of each ring
    Traffics,       \* the kinds of traffic, see below
    PerInterface    \* the -r option: also print every single capture

ASSUME MaxFrameAssumption == MaxFrame \in Nat
ASSUME HashAssumption == Hash \subseteq Nat
ASSUME SlotsAssumption == Slots \in Nat \ {0}
\* lossy: may a copy get lost before its ring (device under test, network card,
\* kernel ring)?  spaced: do identical frames keep such a distance that one is
\* processed on both sides before the next is captured?
ASSUME TrafficAssumption == Traffics \subseteq [lossy : BOOLEAN, spaced : BOOLEAN]
ASSUME PerInterfaceAssumption == PerInterface \in BOOLEAN

If == {1, 2}
Other(i) == 3 - i
Frame == 1 .. MaxFrame
Entry == [hash : Hash \cup {0}, time : Frame \cup {0}]

\* getindex
Index(hash) == hash % Slots
Slot == 0 .. Slots - 1

VARIABLES
    traffic,    \* the kind of traffic there is
    content,    \* the hash of every frame's content
    came,       \* per interface, the frames that entered its ring so far
    seen,       \* the last of them, or 0
    ring,       \* per interface, the frames in its ring, oldest first
    map,        \* map_if1p and map_if2p; hash 0 marks an empty slot
    turn,       \* the ring that is polled next
    lines,      \* the lines written to f_ptr
    raw         \* per interface, the lines written to f_raw_1 and f_raw_2

env == <<traffic, content, came, seen>>
vars == <<traffic, content, came, seen, ring, map, turn, lines, raw>>

\* default_v of the table initialisation
Empty == [hash |-> 0, time |-> 0]

Init ==
    /\ traffic \in Traffics
    /\ content \in [Frame -> Hash]
    /\ came = [i \in If |-> <<>>]
    /\ seen = [i \in If |-> 0]
    /\ ring = [i \in If |-> <<>>]
    /\ map = [i \in If |-> [s \in Slot |-> Empty]]
    /\ turn = 1
    /\ lines = <<>>
    /\ raw = [i \in If |-> <<>>]

(***************************************************************************)
(* The interfaces                                                          *)
(***************************************************************************)

\* Frame f came by interface i and is neither in its ring nor behind it
Popped(i, f) ==
    /\ f \in 1 .. seen[i]
    /\ \A k \in 1 .. Len(ring[i]) : f < ring[i][k]

Processed(f) == \A i \in If : Popped(i, f)

\* The capture process of interface i puts its next frame, f, into its ring (it
\* retries while the ring is full).  Copies of frames between the last one and f
\* were lost on the way: in the device under test, the network card or the
\* kernel's ring.
Capture(i, f) ==
    /\ f > seen[i]
    /\ ~traffic.lossy => f = seen[i] + 1
    /\ traffic.spaced => \A g \in Frame : g < f /\ content[g] = content[f] => Processed(g)
    /\ Len(ring[i]) < Capacity
    /\ came' = [came EXCEPT ![i] = Append(@, f)]
    /\ seen' = [seen EXCEPT ![i] = f]
    /\ ring' = [ring EXCEPT ![i] = Append(@, f)]
    /\ UNCHANGED <<traffic, content, map, turn, lines, raw>>

(***************************************************************************)
(* The loop body, once per ring                                            *)
(***************************************************************************)

\* ring_pop succeeds and -r prints what it returned
Pop(i) ==
    /\ turn = i
    /\ ring[i] # <<>>
    /\ ring' = [ring EXCEPT ![i] = Tail(@)]
    /\ raw' = IF PerInterface THEN [raw EXCEPT ![i] = Append(@, Head(ring[i]))]
                              ELSE raw

\* Faulty variant of PollEmpty: ring 2 is left out when ring 1 is empty
PollEmptyRestart(i) ==
    /\ turn = i
    /\ ring[i] = <<>>
    /\ turn' = 1
    /\ UNCHANGED <<env, ring, map, lines, raw>>

\* ring_pop finds its ring empty
PollEmpty(i) ==
    /\ turn = i
    /\ ring[i] = <<>>
    /\ turn' = Other(i)
    /\ UNCHANGED <<env, ring, map, lines, raw>>

\* Faulty variants of Report: hashes not compared; the slot not cleared; the
\* slot of the wrong table cleared
ReportFaulty(i, compare, cleared) ==
    LET f == Head(ring[i])
        s == Index(content[f])
        waiting == map[Other(i)][s]
    IN
    /\ Pop(i)
    /\ waiting.hash # 0
    /\ compare => waiting.hash = content[f]
    /\ lines' = Append(lines, [hash |-> content[f],
                   time |-> [j \in If |-> IF j = i THEN f ELSE waiting.time]])
    /\ map' = [j \in If |-> IF j \in cleared THEN [map[j] EXCEPT ![s].hash = 0] ELSE map[j]]
    /\ turn' = Other(i)
    /\ UNCHANGED env

ReportAnyHash(i) == ReportFaulty(i, FALSE, {Other(i)})
ReportNoReset(i) == ReportFaulty(i, TRUE, {})
ReportResetOwn(i) == ReportFaulty(i, TRUE, {i})

\* The other table holds the same hash: print the pair and clear the slot
Report(i) ==
    LET f == Head(ring[i])
        s == Index(content[f])
        waiting == map[Other(i)][s]
    IN
    /\ Pop(i)
    /\ waiting.hash # 0
    /\ waiting.hash = content[f]
    /\ lines' = Append(lines, [hash |-> content[f],
                   time |-> [j \in If |-> IF j = i THEN f ELSE waiting.time]])
    /\ map' = [map EXCEPT ![Other(i)][s].hash = 0]
    /\ turn' = Other(i)
    /\ UNCHANGED env

\* Faulty variant of Collide: the raw output is written after the tables are looked at
CollideUnwritten(i) ==
    LET f == Head(ring[i])
        waiting == map[Other(i)][Index(content[f])]
    IN
    /\ turn = i
    /\ ring[i] # <<>>
    /\ ring' = [ring EXCEPT ![i] = Tail(@)]
    /\ waiting.hash # 0
    /\ waiting.hash # content[f]
    /\ turn' = 1
    /\ UNCHANGED <<env, map, lines, raw>>

\* The other table holds another hash: the capture is given up, and `continue`
\* starts the loop over with ring 1
Collide(i) ==
    LET f == Head(ring[i])
        waiting == map[Other(i)][Index(content[f])]
    IN
    /\ Pop(i)
    /\ waiting.hash # 0
    /\ waiting.hash # content[f]
    /\ turn' = 1
    /\ UNCHANGED <<env, map, lines>>

\* Nothing waits in the other table: wait in the own one, over whatever the
\* slot held
Store(i) ==
    LET f == Head(ring[i])
        s == Index(content[f])
    IN
    /\ Pop(i)
    /\ map[Other(i)][s].hash = 0
    /\ map' = [map EXCEPT ![i][s] = [hash |-> content[f], time |-> f]]
    /\ turn' = Other(i)
    /\ UNCHANGED <<env, lines>>

Poll(i) == PollEmpty(i) \/ Report(i) \/ Collide(i) \/ Store(i)

Next == \E i \in If : Poll(i) \/ \E f \in Frame : Capture(i, f)

Spec == Init /\ [][Next]_vars

\* process_timestamps polls without ever blocking on its rings, and each
\* capture process busy-waits for its frames.
FairSpec ==
    /\ Spec
    /\ \A i \in If : WF_vars(\E f \in Frame : Capture(i, f))
    /\ WF_vars(\E i \in If : Poll(i))
-------------------------------------------------------------------------------
(***************************************************************************)
(* Properties                                                              *)
(***************************************************************************)

Line == [hash : Hash, time : [If -> Frame]]

TypeOK ==
    /\ traffic \in Traffics
    /\ content \in [Frame -> Hash]
    /\ came \in [If -> Seq(Frame)]
    /\ seen \in [If -> 0 .. MaxFrame]
    /\ ring \in [If -> Seq(Frame)]
    /\ map \in [If -> [Slot -> Entry]]
    /\ turn \in If
    /\ lines \in Seq(Line)
    /\ raw \in [If -> Seq(Frame)]

Waits(i, s) == map[i][s].hash # 0

\* At most one side waits in a slot.  It is what makes "the other table's slot
\* is taken" mean "the counterpart came first" (process_timestamps.c:341, 381).
OneSideWaits == \A s \in Slot : ~(Waits(1, s) /\ Waits(2, s))

\* A line compares two captures of equal content, the one of interface 1 first
\* (lines 356 and 394 order the two times by hand).
LinesMatch ==
    \A k \in 1 .. Len(lines) : \A i \in If :
        content[lines[k].time[i]] = lines[k].hash

\* No capture is reported twice, however stores, reports, collisions and
\* overwritten entries follow on each other (the reset of lines 367 and 405).
ReportedOnce ==
    \A k, l \in 1 .. Len(lines) : \A i \in If :
        lines[k].time[i] = lines[l].time[i] => k = l

\* Frames stay in order between the tap and the matcher
RingsOrdered ==
    \A i \in If : \A k \in 1 .. Len(ring[i]) :
        /\ ring[i][k] <= seen[i]
        /\ \A l \in 1 .. Len(ring[i]) : k < l => ring[i][k] < ring[i][l]

\* What waits in a slot came by, belongs there and is not reported yet
WaitersFresh ==
    \A i \in If : \A s \in Slot : Waits(i, s) =>
        LET f == map[i][s].time IN
        /\ Popped(i, f)
        /\ content[f] = map[i][s].hash
        /\ Index(content[f]) = s
        /\ \A k \in 1 .. Len(lines) : lines[k].time[i] # f

\* What is reported came by
LinesPopped ==
    \A k \in 1 .. Len(lines) : \A i \in If : Popped(i, lines[k].time[i])

\* The three invariants above and what they rest on.  (With TypeOK inductive.)
MatchInv ==
    /\ OneSideWaits
    /\ RingsOrdered
    /\ WaitersFresh
    /\ LinesPopped
    /\ LinesMatch
    /\ ReportedOnce

\* The raw output of interface i has frame f.
Written(i, f) == \E k \in 1 .. Len(raw[i]) : raw[i][k] = f

\* With -r the raw output of an interface is, capture by capture and in order, what its
\* capture process pushed but for what is still in the ring: whatever is lost before, given
\* up by a collision or overwritten later, no capture is missing and none is there twice
\* (lines 335, 377 come before the tables are looked at).  The UI counts the volume of an
\* interface from it.  And what waits or is reported was captured and written before.
\* (The help text, main_rxring.c:474, speaks of unmatched packets; the matched ones are
\* there too.)
RawIsAll ==
    PerInterface => \A i \in If :
        /\ raw[i] \o ring[i] = came[i]
        /\ \A k \in 1 .. Len(lines) : Written(i, lines[k].time[i])
        /\ \A s \in Slot : Waits(i, s) => Written(i, map[i][s].time)

\* The bench the README describes, made precise: no copy is lost, identical
\* frames keep their distance, no two contents share a slot and none has the
\* hash 0.
BenchConditions ==
    /\ ~traffic.lossy
    /\ traffic.spaced
    /\ \A f \in Frame : content[f] # 0
    /\ \A f, g \in Frame : Index(content[f]) = Index(content[g]) => content[f] = content[g]

\* The ring holds the last frames seen, without a gap
RingsDense ==
    \A i \in If : \A k \in 1 .. Len(ring[i]) :
        ring[i][k] = seen[i] - Len(ring[i]) + k

\* A repetition is captured only when what it repeats is behind both rings
RepeatsApart ==
    \A i \in If : \A g \in 1 .. seen[i] : \A f \in 1 .. g - 1 :
        content[f] = content[g] => Processed(f)

\* On a bench, the tables hold exactly the frames popped on one side only.
WaitersHalfPopped ==
    /\ \A i \in If : \A f \in Frame : Popped(i, f) /\ ~Popped(Other(i), f) =>
          map[i][Index(content[f])] = [hash |-> content[f], time |-> f]
    /\ \A i \in If : \A s \in Slot : Waits(i, s) =>
          ~Popped(Other(i), map[i][s].time)

\* On a bench, a line compares the two captures of one and the same frame: the
\* delay printed is a delay of the device under test.
LinesPairOneFrame ==
    \A k \in 1 .. Len(lines) : lines[k].time[1] = lines[k].time[2]

PairsOneFrame == BenchConditions => LinesPairOneFrame

\* Why PairsOneFrame holds.  (With TypeOK and MatchInv inductive.)
BenchInv ==
    BenchConditions => RingsDense /\ RepeatsApart /\ WaitersHalfPopped /\ LinesPairOneFrame

\* On a bench, every frame is reported.
EveryFrameReported ==
    \A f \in Frame :
        BenchConditions ~> \E k \in 1 .. Len(lines) : lines[k].time = [i \in If |-> f]
=============================================================================
