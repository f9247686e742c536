------------------------------- MODULE MCMatcher -------------------------------
(***************************************************************************)
(* The matching process under two kinds of traffic: anything, and a bench  *)
(* that loses nothing and keeps identical frames apart.                    *)
(***************************************************************************)
EXTENDS Matcher

AnyTraffic == {[lossy |-> TRUE, spaced |-> FALSE], [lossy |-> FALSE, spaced |-> TRUE]}
=============================================================================
