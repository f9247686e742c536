------------------------------- MODULE BinSearch -------------------------------
(***************************************************************************)
(* ui/binutils.py, Bins.push: find by binary search the bin of a value     *)
(* among bins separated by a list of boundaries, and count it there.  The  *)
(* delays, inter-arrival times and sizes the UI plots are counted so, each *)
(* with a table of its own; the table of the delays does not ascend.       *)
(* bin_boundaries[k] is bin_boundaries[k - 1] of the code; bins are        *)
(* numbered from 0 in both.                                                *)
(***************************************************************************)
EXTENDS Integers, Sequences

CONSTANTS
    Tables,         \* the lists of boundaries Bins are made with
    Value           \* the values that are counted

ASSUME TablesAssumption == Tables \subseteq Seq(Int)
ASSUME ValueAssumption == Value \subseteq Int

VARIABLES
    bin_boundaries, \* the boundaries of these bins
    pc,         \* "idle" or "search"
    val,        \* the value of the running push
    i_min,      \* the bins that are still possible
    i_max,
    counted     \* what the last push counted: the value and the bin, if any

searchVars == <<bin_boundaries, pc, val, i_min, i_max, counted>>

N == Len(bin_boundaries)
Bin == 0 .. N

Mid == (i_max + i_min) \div 2

SearchInit ==
    /\ bin_boundaries \in Tables
    /\ pc = "idle"
    /\ val \in Value
    /\ i_min = 0
    /\ i_max = N
    /\ counted = {}

\* push is called
Push(v) ==
    /\ pc = "idle"
    /\ pc' = "search"
    /\ val' = v
    /\ i_min' = 0
    /\ i_max' = N
    /\ UNCHANGED <<bin_boundaries, counted>>

\* val < bin_boundaries[mid]
Lower ==
    /\ pc = "search" /\ i_max - i_min > 0
    /\ val < bin_boundaries[Mid + 1]
    /\ i_max' = Mid
    /\ UNCHANGED <<bin_boundaries, pc, val, i_min, counted>>

\* Faulty variants of Higher: the bin below the boundary stays in; the bin above
\* the boundary goes out as well
HigherStays ==
    /\ pc = "search" /\ i_max - i_min > 0
    /\ val > bin_boundaries[Mid + 1]
    /\ i_min' = Mid
    /\ UNCHANGED <<bin_boundaries, pc, val, i_max, counted>>

HigherSkips ==
    /\ pc = "search" /\ i_max - i_min > 0
    /\ val > bin_boundaries[Mid + 1]
    /\ i_min' = Mid + 2
    /\ UNCHANGED <<bin_boundaries, pc, val, i_max, counted>>

\* val > bin_boundaries[mid]
Higher ==
    /\ pc = "search" /\ i_max - i_min > 0
    /\ val > bin_boundaries[Mid + 1]
    /\ i_min' = Mid + 1
    /\ UNCHANGED <<bin_boundaries, pc, val, i_max, counted>>

\* neither: i_min = i_max = mid; break
Hit ==
    /\ pc = "search" /\ i_max - i_min > 0
    /\ val = bin_boundaries[Mid + 1]
    /\ i_min' = Mid
    /\ i_max' = Mid
    /\ UNCHANGED <<bin_boundaries, pc, val, counted>>

\* the loop ends: bin_fills[-1][i_min] += 1
Count ==
    /\ pc = "search" /\ ~(i_max - i_min > 0)
    /\ counted' = {<<val, i_min>>}
    /\ pc' = "idle"
    /\ UNCHANGED <<bin_boundaries, val, i_min, i_max>>

Search == Lower \/ Higher \/ Hit \/ Count
SearchNext == Search \/ \E v \in Value : Push(v)

SearchSpec == SearchInit /\ [][SearchNext]_searchVars

\* push is plain code: it runs on once it is called.
FairSpec == SearchSpec /\ WF_searchVars(Search)
-------------------------------------------------------------------------------
\* Value v lies between the boundaries of bin k, the upper one included
InBin(v, k) ==
    /\ k > 0 => bin_boundaries[k] < v
    /\ k < N => v <= bin_boundaries[k + 1]

Ascending == \A k, l \in 1 .. N : k < l => bin_boundaries[k] < bin_boundaries[l]

SearchTypeOK ==
    /\ bin_boundaries \in Tables
    /\ pc \in {"idle", "search"}
    /\ val \in Value
    /\ i_min \in Bin
    /\ i_max \in Bin
    /\ counted \subseteq Value \X Bin

\* Every value is counted in a bin it lies in, values equal to a boundary and beyond the
\* first and last boundary included.  With ascending boundaries that is the only one; in
\* the table of the delays it is one of several, so that two bins never count anything.
CountedInItsBin == \A f \in counted : InBin(f[1], f[2])

\* Why, with ascending boundaries: the bins ruled out lie on the right side.  (With
\* SearchTypeOK inductive.)
SearchInv ==
    Ascending =>
        /\ CountedInItsBin
        /\ pc = "search" =>
              /\ i_min <= i_max
              /\ i_min > 0 => bin_boundaries[i_min] < val
              /\ i_max < N => val <= bin_boundaries[i_max + 1]

\* Every push ends, also with boundaries that do not ascend, as those of the delays: the
\* loop goes on as long as i_max > i_min, and the two may meet on either side of the value.
SearchEnds == (pc = "search") ~> (pc = "idle")
=============================================================================
