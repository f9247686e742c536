------------------------------ MODULE MCLifecycle ------------------------------
(***************************************************************************)
(* Who stops the tool, and how: killall's SIGTERM, once or on two          *)
(* processes at about the same time, or one SIGINT or SIGHUP.              *)
(***************************************************************************)
EXTENDS Lifecycle

StopPlans == {<<"TERM", "TERM">>, <<"INT">>, <<"HUP">>}
=============================================================================
