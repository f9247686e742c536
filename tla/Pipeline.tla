------------------------------- MODULE Pipeline -------------------------------
(***************************************************************************)
(* The whole of ts-bin at work: two capture processes (Capture) and the    *)
(* matching process (Matcher) of main_rxring.c:591-620, joined by the two  *)
(* rings r1_1 and r2_1.  Both taps deliver the same frames, each kernel    *)
(* drops on its own, and a full ring holds its capture process up.  Where  *)
(* Capture has Take, there are the steps of process_timestamps here.       *)
(***************************************************************************)
EXTENDS Capture

\* as in Matcher
CONSTANTS Hash, Slots

ASSUME PipelineAssumption ==
    /\ Interface = {1, 2}
    /\ Hash \subseteq Nat
    /\ Slots \in Nat \ {0}

VARIABLES content, map, turn, lines, raw

\* The last frame each capture process pushed: what Matcher knows of it
Last == [i \in Interface |-> IF pushed[i] = <<>> THEN 0 ELSE pushed[i][Len(pushed[i])]]

\* process_timestamps, with -r not given; to it, frames that were dropped or are
\* not IPv4 are lost
M == INSTANCE Matcher WITH
        came <- pushed, seen <- Last, PerInterface <- FALSE,
        Traffics <- {[lossy |-> TRUE, spaced |-> FALSE]},
        traffic <- [lossy |-> TRUE, spaced |-> FALSE]

captureVars == <<ipv4, arrived, kIdx, status, frameAt, pc, idx, tphdr, datap, pushed>>
matcherVars == <<content, map, turn, lines, raw>>
pipelineVars == <<captureVars, ring, matcherVars>>

PipelineInit == Init /\ M!Init

\* A step of the kernel or of packet_receive
CaptureStep(i) == Step(i) /\ UNCHANGED matcherVars

\* A step of process_timestamps
MatcherStep(i) == UNCHANGED captureVars /\ M!Poll(i)

PipelineNext == \E i \in Interface : CaptureStep(i) \/ MatcherStep(i)

PipelineSpec == PipelineInit /\ [][PipelineNext]_pipelineVars

\* All three processes busy-wait and the scheduler runs each of them.
PipelineFairSpec ==
    /\ PipelineSpec
    /\ \A i \in Interface : WF_pipelineVars(PacketReceive(i) /\ UNCHANGED matcherVars)
    /\ WF_pipelineVars(\E i \in Interface : MatcherStep(i))
-------------------------------------------------------------------------------
\* The captures of Capture drive the matching process as Matcher assumes: in
\* order, never twice, held up by a full ring and not overwriting it.
ImplementsMatcher == M!Spec

\* Interface i's kernel gave frame f a slot: it is still there, or pushed by now
Accepted(i, f) ==
    \/ \E a \in Addr : status[i][a] = "user" /\ frameAt[i][a] = f
    \/ \E k \in 1 .. Len(pushed[i]) : pushed[i][k] = f

Reported(f) == \E k \in 1 .. Len(lines) : lines[k].time = [i \in Interface |-> f]

\* An IPv4 frame that both kernels accepted, at whatever distance in time, is
\* reported as long as no other frame shares its table slot: neither the full
\* rings nor the turns of the matching process lose it or stop its way.
AcceptedIsReported ==
    \A f \in Frame :
        /\ f \in ipv4
        /\ \A g \in Frame \ {f} : M!Index(content[g]) # M!Index(content[f])
        /\ \A i \in Interface : Accepted(i, f)
        ~> Reported(f)
=============================================================================
