------------------------------ MODULE MCBinSearch ------------------------------
(***************************************************************************)
(* The boundary lists of ui/main.py:54-56 for BinSearch.  In the list of   *)
(* the delays 700000 follows 6000000.                                      *)
(***************************************************************************)
EXTENDS BinSearch

DelayBoundaries ==
    <<6000, 7000, 9000, 12000, 16000, 21000, 30000, 45000, 60000, 70000, 90000, 120000,
      160000, 210000, 300000, 450000, 6000000, 700000, 900000, 1200000, 1600000, 2100000,
      3000000, 4500000, 6000000>>
IatBoundaries == <<1000000, 2000000, 6000000, 10000000, 20000000, 60000000>>
SizeBoundaries == <<128, 256, 512, 1024>>
AllBoundaries == {DelayBoundaries, IatBoundaries, SizeBoundaries}

\* On, below and above every boundary of any list
Around(b) == UNION {{b[k] - 1, b[k], b[k] + 1} : k \in 1 .. Len(b)}
AroundAll == UNION {Around(b) : b \in AllBoundaries}
=============================================================================
