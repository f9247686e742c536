------------------------------- MODULE Lifecycle -------------------------------
(***************************************************************************)
(* How the three processes of ts-bin come up and go down: main forks the   *)
(* capture process of interface 1, which forks the one of interface 2      *)
(* (main_rxring.c:588-611); main turns into the matching process, opens    *)
(* its named pipes, one or with -r three, and writes to them               *)
(* (process_timestamps.c:121-235); a regular file in their place is a pipe *)
(* whose reader is there and stays.  One reader stands for all.  Every     *)
(* terminating signal runs sig_handler, which passes SIGTERM on to the     *)
(* pids the process happens to know and exits (sighandler.c).              *)
(*                                                                         *)
(* A pid variable that was never set is 0, and kill(0, ...) signals the    *)
(* whole process group; one whose fork failed is -1, and kill(-1, ...)     *)
(* signals whatever it may, but not its caller.  `running`, t1, t2 and     *)
(* p_main are ordinary globals: after fork each process has its own.  Exit *)
(* leaves no state behind that matters here (SIGCHLD is ignored, so there  *)
(* are no zombies).                                                        *)
(***************************************************************************)
EXTENDS Naturals, Sequences

CONSTANT Plans  \* the sequences of signals others may send (bound)

Signal == {"INT", "TERM", "HUP", "PIPE"}
Proc == {"main", "if1", "if2"}

ASSUME PlansAssumption == Plans \subseteq Seq(Signal)

VARIABLES
    per_interface,  \* -r: also write every capture to a pipe per interface
    stage,      \* per process: "unborn", "fork", "arm", "open", "openRaw",
                \* "setup", "run", "dead" or "crashed"
    captures,   \* the processes that have started to capture: frames of
                \* theirs may be in their rings, even when they have died
    t1, t2,     \* per process, its copies of the globals; "0" if unset,
                \* "all" (that is -1) if fork failed
    pending,    \* per process, the signals sent and not delivered
    stack,      \* per process, the handlers that run, innermost last: which
                \* signal they are for (sig) and what they do next (at: "close",
                \* "kill1", "kill2", "killMain" or "exit")
    file,       \* f_ptr of main: "null", "open" or "closed"
    reader,     \* the far end of the named pipe: "absent", "present", "gone"
    closings,   \* how often main called fclose on f_ptr
    plan,       \* the signals others send, in this order
    nSent       \* how many of them they have sent

lifecycleVars ==
    <<per_interface, stage, captures, t1, t2, pending, stack, file, reader, closings,
      plan, nSent>>
outside == <<per_interface, reader, plan, nSent>>

Alive(p) == stage[p] \notin {"unborn", "dead", "crashed"}
Handled(p) == {stack[p][k].sig : k \in 1 .. Len(stack[p])}

\* A signal interrupts whatever runs but a handler for the same signal, and it
\* does so before the process takes another step
Deliverable(p) == pending[p] \ Handled(p)
Free(p) == Alive(p) /\ stack[p] = <<>> /\ Deliverable(p) = {}

\* main_rxring.c:567-591, signal handlers in place and nothing forked
LifecycleInit ==
    /\ per_interface \in BOOLEAN
    /\ captures = {}
    /\ stage = [p \in Proc |-> IF p = "main" THEN "fork" ELSE "unborn"]
    /\ t1 = [p \in Proc |-> "0"]
    /\ t2 = [p \in Proc |-> "0"]
    /\ pending = [p \in Proc |-> {}]
    /\ stack = [p \in Proc |-> <<>>]
    /\ file = "null"
    /\ reader = "absent"
    /\ closings = 0
    /\ plan \in Plans
    /\ nSent = 0

(***************************************************************************)
(* Coming up                                                               *)
(***************************************************************************)

\* t1 = fork() in main
ForkIf1 ==
    /\ Free("main") /\ stage["main"] = "fork"
    /\ stage' = [stage EXCEPT !["main"] = "arm", !["if1"] = "fork"]
    /\ t1' = [t1 EXCEPT !["main"] = "if1"]
    /\ UNCHANGED <<captures, t2, pending, stack, file, closings, outside>>

\* fork fails, and main goes on alone: there is no child, and t1 is -1
ForkIf1Fails ==
    /\ Free("main") /\ stage["main"] = "fork"
    /\ stage' = [stage EXCEPT !["main"] = "arm"]
    /\ t1' = [t1 EXCEPT !["main"] = "all"]
    /\ UNCHANGED <<captures, t2, pending, stack, file, closings, outside>>

\* t2 = fork() in the child
ForkIf2 ==
    /\ Free("if1") /\ stage["if1"] = "fork"
    /\ stage' = [stage EXCEPT !["if1"] = "setup", !["if2"] = "setup"]
    /\ t2' = [t2 EXCEPT !["if1"] = "if2"]
    /\ UNCHANGED <<captures, t1, pending, stack, file, closings, outside>>

\* It fails, and interface 1 is captured all the same
ForkIf2Fails ==
    /\ Free("if1") /\ stage["if1"] = "fork"
    /\ stage' = [stage EXCEPT !["if1"] = "setup"]
    /\ t2' = [t2 EXCEPT !["if1"] = "all"]
    /\ UNCHANGED <<captures, t1, pending, stack, file, closings, outside>>

\* packet_receive opens its socket and its ring and starts to capture
SetUp(p) ==
    /\ Free(p) /\ stage[p] = "setup"
    /\ stage' = [stage EXCEPT ![p] = "run"]
    /\ captures' = captures \cup {p}
    /\ UNCHANGED <<t1, t2, pending, stack, file, closings, outside>>

\* or it fails, and the process ends alone
SetUpFails(p) ==
    /\ Free(p) /\ stage[p] = "setup"
    /\ stage' = [stage EXCEPT ![p] = "dead"]
    /\ UNCHANGED <<captures, t1, t2, pending, stack, file, closings, outside>>

\* process_timestamps installs its own handler
Arm ==
    /\ Free("main") /\ stage["main"] = "arm"
    /\ stage' = [stage EXCEPT !["main"] = "open"]
    /\ UNCHANGED <<captures, t1, t2, pending, stack, file, closings, outside>>

\* fopen of a named pipe waits for a reader
Open ==
    /\ Free("main") /\ stage["main"] = "open"
    /\ reader = "present"
    /\ stage' = [stage EXCEPT !["main"] = IF per_interface THEN "openRaw" ELSE "run"]
    /\ file' = "open"
    /\ UNCHANGED <<captures, t1, t2, pending, stack, closings, outside>>

\* and so do those of the pipes of -r
OpenRaw ==
    /\ Free("main") /\ stage["main"] = "openRaw"
    /\ reader = "present"
    /\ stage' = [stage EXCEPT !["main"] = "run"]
    /\ UNCHANGED <<captures, t1, t2, pending, stack, file, closings, outside>>

\* mkfifo or fcntl fails: back in main, exit(13), or exit(7).  Nobody is told.
OpenFails ==
    /\ Free("main") /\ stage["main"] \in {"open", "openRaw"}
    /\ stage' = [stage EXCEPT !["main"] = "dead"]
    /\ UNCHANGED <<captures, t1, t2, pending, stack, file, closings, outside>>

\* A line takes a capture of either interface, one of -r a capture of any; those
\* in the rings outlive the process that captured them.
HasLine == IF per_interface THEN captures # {} ELSE captures = {"if1", "if2"}

\* Faulty variant of PrintLine: SIGPIPE ignored
PrintIgnores ==
    /\ Free("main") /\ stage["main"] = "run" /\ file = "open"
    /\ reader = "gone" /\ HasLine
    /\ UNCHANGED lifecycleVars

\* print_msgdata_to_fptr into a pipe whose reader went away
PrintLine ==
    /\ Free("main") /\ stage["main"] = "run" /\ file = "open"
    /\ reader = "gone" /\ HasLine
    /\ pending' = [pending EXCEPT !["main"] = @ \cup {"PIPE"}]
    /\ UNCHANGED <<captures, stage, t1, t2, stack, file, closings, outside>>

(***************************************************************************)
(* Going down                                                              *)
(***************************************************************************)

\* process_timestamps has replaced the handler of main, not those of its children
ClosesFile(p, sig) == p = "main" /\ stage[p] \in {"open", "openRaw", "run"} /\ sig # "PIPE"

\* Faulty variant of Deliver: close the file whatever the signal
DeliverCloses(p, sig) ==
    /\ Alive(p) /\ sig \in Deliverable(p)
    /\ pending' = [pending EXCEPT ![p] = @ \ {sig}]
    /\ stack' = [stack EXCEPT ![p] = Append(@, [sig |-> sig,
          at |-> IF p = "main" /\ stage[p] \in {"open", "openRaw", "run"} THEN "close" ELSE "kill1"])]
    /\ UNCHANGED <<captures, stage, t1, t2, file, closings, outside>>

\* The kernel runs _sig_handler_main or, in the matching process, _sig_handler.
Deliver(p, sig) ==
    /\ Alive(p) /\ sig \in Deliverable(p)
    /\ pending' = [pending EXCEPT ![p] = @ \ {sig}]
    /\ stack' = [stack EXCEPT ![p] = Append(@,
          [sig |-> sig, at |-> IF ClosesFile(p, sig) THEN "close" ELSE "kill1"])]
    /\ UNCHANGED <<captures, stage, t1, t2, file, closings, outside>>

Top(p) == stack[p][Len(stack[p])]
Handles(p, step) ==
    /\ Alive(p) /\ stack[p] # <<>> /\ Deliverable(p) = {}
    /\ Top(p).at = step

Proceed(p, step) == stack' = [stack EXCEPT ![p][Len(stack[p])].at = step]

\* fclose(f_ptr) of an open file
Close ==
    /\ Handles("main", "close")
    /\ file = "open"
    /\ file' = "closed"
    /\ closings' = closings + 1
    /\ Proceed("main", "kill1")
    /\ UNCHANGED <<captures, stage, t1, t2, pending, outside>>

\* fclose of a null pointer or of a file closed before is undefined; the process
\* crashes or, the second time, may get away with it
CloseCrashes ==
    /\ Handles("main", "close")
    /\ file # "open"
    /\ closings' = IF file = "closed" THEN closings + 1 ELSE closings
    /\ stage' = [stage EXCEPT !["main"] = "crashed"]
    /\ UNCHANGED <<captures, t1, t2, pending, stack, file, outside>>

CloseAgain ==
    /\ Handles("main", "close")
    /\ file = "closed"
    /\ closings' = closings + 1
    /\ Proceed("main", "kill1")
    /\ UNCHANGED <<captures, stage, t1, t2, pending, file, outside>>

\* Whom kill(target, SIGTERM) of p reaches: "0" is the group, that is everyone,
\* and "all" everyone but p
Reached(p, target) ==
    {q \in Proc : Alive(q) /\ (target \in {q, "0"} \/ (target = "all" /\ q # p))}

\* Faulty variant of Kill: an unset pid is nobody
KillSkipsUnset(p, step, target, next) ==
    /\ Handles(p, step)
    /\ pending' = [q \in Proc |->
          IF q \in Reached(p, target) /\ target # "0" THEN pending[q] \cup {"TERM"} ELSE pending[q]]
    /\ Proceed(p, next)
    /\ UNCHANGED <<captures, stage, t1, t2, file, closings, outside>>

Kill(p, step, target, next) ==
    /\ Handles(p, step)
    /\ pending' = [q \in Proc |->
          IF q \in Reached(p, target) THEN pending[q] \cup {"TERM"} ELSE pending[q]]
    /\ Proceed(p, next)
    /\ UNCHANGED <<captures, stage, t1, t2, file, closings, outside>>

\* exit(41)
Exit(p) ==
    /\ Handles(p, "exit")
    /\ stage' = [stage EXCEPT ![p] = "dead"]
    /\ UNCHANGED <<captures, t1, t2, pending, stack, file, closings, outside>>

\* sig_handler
Handler(p) ==
    \/ \E sig \in Signal : Deliver(p, sig)
    \/ p = "main" /\ (Close \/ CloseCrashes \/ CloseAgain)
    \/ Kill(p, "kill1", t1[p], "kill2")
    \/ Kill(p, "kill2", t2[p], "killMain")
    \/ Kill(p, "killMain", "main", "exit")
    \/ Exit(p)

(***************************************************************************)
(* The world around                                                        *)
(***************************************************************************)

Send(p) ==
    /\ Alive(p) /\ nSent < Len(plan)
    /\ nSent' = nSent + 1
    /\ pending' = [pending EXCEPT ![p] = @ \cup {plan[nSent + 1]}]
    /\ UNCHANGED <<per_interface, captures, stage, t1, t2, stack, file, reader, closings>>
    /\ UNCHANGED plan

ReaderComes ==
    /\ reader = "absent"
    /\ reader' = "present"
    /\ UNCHANGED <<per_interface, captures, stage, t1, t2, pending, stack, file, closings>>
    /\ UNCHANGED <<plan, nSent>>

ReaderGoes ==
    /\ reader = "present"
    /\ reader' = "gone"
    /\ UNCHANGED <<per_interface, captures, stage, t1, t2, pending, stack, file, closings>>
    /\ UNCHANGED <<plan, nSent>>

World == ReaderComes \/ ReaderGoes \/ \E p \in Proc : Send(p)

Main == ForkIf1 \/ ForkIf1Fails \/ Arm \/ Open \/ OpenRaw \/ OpenFails \/ PrintLine
If1 == ForkIf2 \/ ForkIf2Fails
Receiver(p) == SetUp(p) \/ SetUpFails(p)

Own(p) ==
    \/ Handler(p)
    \/ p = "main" /\ Main
    \/ p = "if1" /\ If1
    \/ p # "main" /\ Receiver(p)

LifecycleNext == World \/ \E p \in Proc : Own(p)

LifecycleSpec == LifecycleInit /\ [][LifecycleNext]_lifecycleVars

BothCapture == stage["if1"] = "run" /\ stage["if2"] = "run"

\* Of the code: the kernel delivers a signal and the scheduler lets the handler go
\* on (nothing is assumed of the start-up, fopen may wait for ever).  Of the
\* network: while both interfaces are captured, frames keep passing both, so that
\* there are lines to print.
FairSpec ==
    /\ LifecycleSpec
    /\ \A p \in Proc : WF_lifecycleVars(Handler(p))
    /\ WF_lifecycleVars(BothCapture /\ PrintLine)
-------------------------------------------------------------------------------
\* As long as only SIGTERM comes from outside, main closes its file at most once,
\* however the handlers of the processes and the SIGTERMs they exchange nest, and
\* crashes of nothing but the fclose of a file it has yet to open.
\* (Not so with SIGINT or SIGHUP: their handler is interrupted by its own
\* SIGTERM, which closes the file again.)
ClosedOnce ==
    (\A k \in 1 .. Len(plan) : plan[k] = "TERM") =>
        closings <= 1 /\ (stage["main"] = "crashed" => file = "null")

\* A signal is on its way or some handler runs
Signalled == \E p \in Proc : Alive(p) /\ (pending[p] # {} \/ stack[p] # <<>>)

\* Some handler is past its fclose
Stopping ==
    \E p \in Proc : Alive(p) /\ \E k \in 1 .. Len(stack[p]) : stack[p][k].at # "close"

\* A signal to any process ends all three, at whatever stage of start-up it comes
\* and whichever of them have failed before, although no process knows the pids
\* of both others; the one exception is that main crashes in its own fclose
\* (of a null pointer when the signal comes while fopen waits for a reader, or of
\* a file closed before when SIGINT or SIGHUP is handled).  Then the receivers
\* may live on, unless some handler had got past the fclose: it tells them
\* whether main crashes or not.  (Not so when SIGINT follows another signal so closely
\* that its handler interrupts main's before the first kill and crashes.)
AllStop ==
    /\ Signalled ~> (stage["main"] = "crashed" \/ \A p \in Proc : ~Alive(p))
    /\ Stopping ~> \A p \in Proc : ~Alive(p)

\* When the reader of the pipe goes away while both interfaces are captured, so
\* does the whole tool.  (A main whose receivers have died gets no line to print and so
\* no SIGPIPE: it spins on.)
ReaderGoneStops ==
    (reader = "gone" /\ stage["main"] = "run" /\ BothCapture) ~> \A p \in Proc : ~Alive(p)
=============================================================================
