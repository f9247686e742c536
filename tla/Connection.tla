------------------------------ MODULE Connection ------------------------------
(***************************************************************************)
(* The life of an IP connection (sensors/query-sensors/ip_connection.c):   *)
(* a client connects, sends requests and destroys the connection; each     *)
(* socket has a receive thread and a disconnect probe thread; a callback   *)
(* thread handles the news of a lost connection and reconnects.            *)
(*                                                                         *)
(* socket_mutex is taken by the client and by the callback thread only;    *)
(* the flags are read and written without it, so that each access is a     *)
(* step of its own where another thread may come between.  Threads and     *)
(* sockets have numbers that count up; the client is thread 0.  What is    *)
(* sent and received is in module Requests.                                *)
(*                                                                         *)
(* Left out: failures to create a thread; auto_reconnect switched off;     *)
(* connecting again after a disconnect (sensor_main.c connects once).      *)
(***************************************************************************)
EXTENDS Naturals, Sequences

CONSTANTS
    MaxSockets,     \* how often the Brick Daemon accepts (bound)
    MaxLosses,      \* how many of the first connections it may close (bound)
    MaxContexts     \* callback threads (bound)

ASSUME ConnectionAssumption ==
    /\ MaxSockets \in Nat \ {0} /\ MaxContexts \in Nat \ {0}
    /\ MaxLosses \in 0 .. MaxSockets - 1

Socket == 1 .. MaxSockets
Context == 1 .. MaxContexts
Client == 0
Thread == {Client} \cup Context
NONE == MaxContexts + 1     \* nobody holds the mutex

VARIABLES
    over,       \* "running", or how it ended: "destroyed", "crashed" by an access
                \* through NULL, "killed" by SIGPIPE
    mutex,      \* who holds socket_mutex
    sock,       \* ipcon_p->socket, 0 is NULL
    socket_id,
    callback,   \* ipcon_p->callback, 0 is NULL
    queue,      \* per callback context
    auto_reconnect_allowed, auto_reconnect_pending,
    receive_flag,
    probe_event,    \* disconnect_probe_event
    pc,         \* of the client and of the callback threads
    meta,       \* per callback context, the socket_id of the Meta being handled
    exiting,    \* the client's local `callback` in ipcon_disconnect
    destroying, \* ipcon_destroy has been called
    probe,      \* per socket, where its probe thread is
    recv,       \* per socket, where its receive thread is, and its locals
    net         \* per socket: "none", "up", "down" (the peer closed it), "shut"
                \* (shut down here) or "closed"

flags == <<auto_reconnect_allowed, auto_reconnect_pending, receive_flag, probe_event>>
shared == <<mutex, sock, socket_id, callback, queue, flags>>
locals == <<pc, meta, exiting, destroying, probe, recv>>
vars == <<over, shared, locals, net>>

Lost(id) == [kind |-> "disconnected", id |-> id]
Note(kind) == [kind |-> kind, id |-> 0]
Item == {Lost(id) : id \in 0 .. MaxSockets}
        \cup {Note(kind) : kind \in {"connected", "requested", "exit"}}

Init ==
    /\ over = "running"
    /\ mutex = NONE
    /\ sock = 0 /\ socket_id = 0 /\ callback = 0
    /\ queue = [n \in Context |-> <<>>]
    /\ auto_reconnect_allowed = FALSE /\ auto_reconnect_pending = FALSE
    /\ receive_flag = FALSE
    /\ probe_event = FALSE
    /\ pc = [t \in Thread |-> IF t = Client THEN "start" ELSE "none"]
    /\ meta = [n \in Context |-> 0]
    /\ exiting = 0
    /\ destroying = FALSE
    /\ probe = [g \in Socket |-> "none"]
    /\ recv = [g \in Socket |-> [at |-> "none", id |-> 0, sock |-> 0]]
    /\ net = [g \in Socket |-> "none"]

Running == over = "running"
At(t, place) == Running /\ pc[t] = place
Goto(t, place) == pc' = [pc EXCEPT ![t] = place]
Put(n, item) == queue' = [queue EXCEPT ![n] = Append(@, item)]

(***************************************************************************)
(* ipcon_connect_unlocked, by the client or by a callback thread t that    *)
(* holds the mutex                                                         *)
(***************************************************************************)

\* The callback thread, if there is none, the socket and the probe thread.  Only a receive
\* thread that is late looks at the socket while this goes on.
Open(t) ==
    /\ At(t, "connect") /\ socket_id < MaxSockets
    /\ \E n \in Context :
          /\ IF callback # 0 THEN n = callback
                             ELSE pc[n] = "none" /\ \A m \in 1 .. n - 1 : pc[m] # "none"
          /\ callback' = n
          /\ pc' = [pc EXCEPT ![t] = "receive", ![n] = IF @ = "none" THEN "idle" ELSE @]
    /\ sock' = socket_id + 1
    /\ socket_id' = socket_id + 1
    /\ net' = [net EXCEPT ![socket_id + 1] = "up"]
    /\ probe_event' = FALSE
    /\ probe' = [probe EXCEPT ![socket_id + 1] = "wait"]
    /\ UNCHANGED <<over, mutex, queue, auto_reconnect_allowed, auto_reconnect_pending,
                   receive_flag, meta, exiting, destroying, recv>>

\* Refused: the client gives up (its callback thread ends, and so does sensor_main), a
\* callback thread leaves the mutex and tries again
Refused(t) ==
    /\ At(t, "connect")
    /\ IF t = Client THEN over' = "destroyed" ELSE over' = over
    /\ Goto(t, "retry")
    /\ mutex' = NONE
    /\ UNCHANGED <<sock, socket_id, callback, queue, flags, meta, exiting, destroying,
                   probe, recv, net>>

CreateReceiver(t) ==
    /\ At(t, "receive")
    /\ receive_flag' = TRUE
    /\ recv' = [recv EXCEPT ![sock].at = "start"]
    /\ Goto(t, "announce")
    /\ UNCHANGED <<over, mutex, sock, socket_id, callback, queue, auto_reconnect_allowed,
                   auto_reconnect_pending, probe_event, meta, exiting, destroying, probe, net>>

Announce(t) ==
    /\ At(t, "announce")
    /\ auto_reconnect_allowed' = FALSE
    /\ auto_reconnect_pending' = FALSE
    /\ Put(callback, Note("connected"))
    /\ mutex' = NONE
    /\ Goto(t, IF t = Client THEN "ready" ELSE "idle")
    /\ UNCHANGED <<over, sock, socket_id, callback, receive_flag, probe_event, meta, exiting,
                   destroying, probe, recv, net>>

ConnectUnlocked(t) == Open(t) \/ Refused(t) \/ CreateReceiver(t) \/ Announce(t)

(***************************************************************************)
(* The client                                                              *)
(***************************************************************************)

\* ipcon_connect
Connect ==
    /\ At(Client, "start") /\ mutex = NONE
    /\ mutex' = Client
    /\ Goto(Client, "connect")
    /\ UNCHANGED <<over, sock, socket_id, callback, queue, flags, meta, exiting, destroying,
                   probe, recv, net>>

\* A send on a socket that the peer closed, outcome by outcome; one that succeeds is no
\* step here
SendKilled(g) == net[g] = "down" /\ over' = "killed" /\ UNCHANGED <<shared, locals, net>>
SendFails(g) == net[g] = "down" /\ over' = over

\* ipcon_send_request: fails at once without a socket, which is no step; on a failure it
\* calls ipcon_handle_disconnect_by_peer(..., 0, true), which takes the socket away
Request ==
    /\ At(Client, "ready") /\ mutex = NONE /\ sock # 0
    /\ \/ SendKilled(sock)
       \/ /\ SendFails(sock)
          /\ mutex' = Client
          /\ auto_reconnect_allowed' = TRUE
          /\ Goto(Client, "drop")
          /\ UNCHANGED <<sock, socket_id, callback, queue, auto_reconnect_pending,
                         receive_flag, probe_event, meta, exiting, destroying, probe, recv, net>>

\* ipcon_destroy calls ipcon_disconnect.  Without a socket and a pending reconnect
\* that returns at once, and ipcon_destroy frees everything.
Disconnect ==
    /\ At(Client, "ready") /\ mutex = NONE
    /\ destroying' = TRUE
    /\ auto_reconnect_allowed' = FALSE
    /\ \/ /\ auto_reconnect_pending \/ sock # 0
          /\ mutex' = Client
          /\ Goto(Client, IF auto_reconnect_pending THEN "detach" ELSE "drop")
          /\ over' = over
       \/ /\ ~auto_reconnect_pending /\ sock = 0
          /\ over' = "destroyed"
          /\ UNCHANGED <<mutex, pc>>
    /\ auto_reconnect_pending' = FALSE
    /\ UNCHANGED <<sock, socket_id, callback, queue, receive_flag, probe_event, meta, exiting,
                   probe, recv, net>>

(***************************************************************************)
(* ipcon_disconnect_unlocked, by the client                                *)
(***************************************************************************)

SetProbeEvent ==
    /\ At(Client, "drop")
    /\ probe_event' = TRUE
    /\ Goto(Client, "joinProbe")
    /\ UNCHANGED <<over, mutex, sock, socket_id, callback, queue, auto_reconnect_allowed,
                   auto_reconnect_pending, receive_flag, meta, exiting, destroying, probe,
                   recv, net>>

JoinProbe ==
    /\ At(Client, "joinProbe") /\ probe[sock] = "done"
    /\ receive_flag' = FALSE
    /\ IF receive_flag
       THEN Goto(Client, "joinReceiver") /\ net' = [net EXCEPT ![sock] = "shut"]
       ELSE Goto(Client, "close") /\ net' = net
    /\ UNCHANGED <<over, mutex, sock, socket_id, callback, queue, auto_reconnect_allowed,
                   auto_reconnect_pending, probe_event, meta, exiting, destroying, probe, recv>>

\* The handle is that of the receive thread created last
JoinReceiver ==
    /\ At(Client, "joinReceiver") /\ recv[socket_id].at = "done"
    /\ Goto(Client, "close")
    /\ UNCHANGED <<over, shared, meta, exiting, destroying, probe, recv, net>>

\* The socket is gone; the rest of ipcon_handle_disconnect_by_peer, if it was a request
Close ==
    /\ At(Client, "close")
    /\ net' = [net EXCEPT ![sock] = "closed"]
    /\ sock' = 0
    /\ IF destroying
       THEN Goto(Client, "detach") /\ UNCHANGED <<queue, mutex>>
       ELSE Goto(Client, "ready") /\ Put(callback, Lost(0)) /\ mutex' = NONE
    /\ UNCHANGED <<over, socket_id, callback, flags, meta, exiting, destroying, probe, recv>>

(***************************************************************************)
(* The end of ipcon_disconnect, and ipcon_destroy                          *)
(***************************************************************************)

\* Faulty variant of Detach: joins under the mutex
DetachLocked ==
    /\ At(Client, "detach")
    /\ exiting' = callback
    /\ callback' = 0
    /\ Goto(Client, "exit")
    /\ UNCHANGED <<over, mutex, sock, socket_id, queue, flags, meta, destroying, probe, recv,
                   net>>

Detach ==
    /\ At(Client, "detach")
    /\ exiting' = callback
    /\ callback' = 0
    /\ mutex' = NONE
    /\ Goto(Client, "exit")
    /\ UNCHANGED <<over, sock, socket_id, queue, flags, meta, destroying, probe, recv, net>>

ExitCallbackThread ==
    /\ At(Client, "exit")
    /\ queue' = [queue EXCEPT ![exiting] = @ \o <<Note("requested"), Note("exit")>>]
    /\ Goto(Client, "joinCallback")
    /\ UNCHANGED <<over, mutex, sock, socket_id, callback, flags, meta, exiting, destroying,
                   probe, recv, net>>

Destroy ==
    /\ At(Client, "joinCallback") /\ pc[exiting] = "done"
    /\ over' = "destroyed"
    /\ UNCHANGED <<shared, locals, net>>

(***************************************************************************)
(* ipcon_callback_loop and ipcon_dispatch_meta, by the callback thread n.  *)
(* No callbacks are registered.                                            *)
(***************************************************************************)

QueueGet(n) ==
    /\ At(n, "idle") /\ queue[n] # <<>>
    /\ queue' = [queue EXCEPT ![n] = Tail(@)]
    /\ LET item == Head(queue[n])
       IN /\ meta' = [meta EXCEPT ![n] = item.id]
          /\ Goto(n, CASE item.kind = "exit" -> "done"
                       [] item.kind = "disconnected" -> "lost"
                       [] OTHER -> "idle")
    /\ UNCHANGED <<over, mutex, sock, socket_id, callback, flags, exiting, destroying, probe,
                   recv, net>>

\* Faulty variant of MetaLock: takes away whatever socket there is
MetaLockAny(n) ==
    /\ At(n, "lost") /\ mutex = NONE
    /\ IF sock # 0
       THEN mutex' = n /\ probe_event' = TRUE /\ Goto(n, "joinProbe")
       ELSE Goto(n, "sleep") /\ UNCHANGED <<mutex, probe_event>>
    /\ UNCHANGED <<over, sock, socket_id, callback, queue, auto_reconnect_allowed,
                   auto_reconnect_pending, receive_flag, meta, exiting, destroying, probe,
                   recv, net>>

\* The socket is taken away unless it has been closed or replaced in the meantime
MetaLock(n) ==
    /\ At(n, "lost") /\ mutex = NONE
    /\ IF sock # 0 /\ socket_id = meta[n]
       THEN mutex' = n /\ probe_event' = TRUE /\ Goto(n, "joinProbe")
       ELSE Goto(n, "sleep") /\ UNCHANGED <<mutex, probe_event>>
    /\ UNCHANGED <<over, sock, socket_id, callback, queue, auto_reconnect_allowed,
                   auto_reconnect_pending, receive_flag, meta, exiting, destroying, probe,
                   recv, net>>

\* Faulty variant of MetaClose: without joining the probe thread
MetaCloseEarly(n) ==
    /\ At(n, "joinProbe")
    /\ net' = [net EXCEPT ![sock] = "closed"]
    /\ sock' = 0
    /\ mutex' = NONE
    /\ Goto(n, "sleep")
    /\ UNCHANGED <<over, socket_id, callback, queue, flags, meta, exiting, destroying, probe,
                   recv>>

MetaClose(n) ==
    /\ At(n, "joinProbe") /\ probe[sock] = "done"
    /\ net' = [net EXCEPT ![sock] = "closed"]
    /\ sock' = 0
    /\ mutex' = NONE
    /\ Goto(n, "sleep")
    /\ UNCHANGED <<over, socket_id, callback, queue, flags, meta, exiting, destroying, probe,
                   recv>>

\* After 100 ms; the flags are read and written without the mutex
Wake(n) ==
    /\ At(n, "sleep")
    /\ auto_reconnect_pending' = (auto_reconnect_pending \/ auto_reconnect_allowed)
    /\ Goto(n, IF auto_reconnect_allowed THEN "retry" ELSE "idle")
    /\ UNCHANGED <<over, mutex, sock, socket_id, callback, queue, auto_reconnect_allowed,
                   receive_flag, probe_event, meta, exiting, destroying, probe, recv, net>>

Retry(n) ==
    /\ At(n, "retry") /\ mutex = NONE
    /\ IF auto_reconnect_allowed /\ sock = 0
       THEN mutex' = n /\ Goto(n, "connect") /\ UNCHANGED auto_reconnect_pending
       ELSE auto_reconnect_pending' = FALSE /\ Goto(n, "idle") /\ UNCHANGED mutex
    /\ UNCHANGED <<over, sock, socket_id, callback, queue, auto_reconnect_allowed,
                   receive_flag, probe_event, meta, exiting, destroying, probe, recv, net>>

(***************************************************************************)
(* ipcon_handle_disconnect_by_peer(..., false), in a thread of socket g:   *)
(* first the flag, then the news                                           *)
(***************************************************************************)

Allow ==
    /\ auto_reconnect_allowed' = TRUE
    /\ UNCHANGED <<over, mutex, sock, socket_id, callback, queue, auto_reconnect_pending,
                   receive_flag, probe_event, pc, meta, exiting, destroying, net>>

\* There is no callback context any more once the client has detached it
Report(id) ==
    /\ IF callback = 0 THEN over' = "crashed" /\ queue' = queue
                       ELSE over' = over /\ Put(callback, Lost(id))
    /\ UNCHANGED <<mutex, sock, socket_id, callback, flags, pc, meta, exiting, destroying, net>>

(***************************************************************************)
(* ipcon_disconnect_probe_loop.  A probe that is sent is no step.          *)
(***************************************************************************)

ProbeAt(g, place) == Running /\ probe[g] = place
ProbeGoto(g, place) == probe' = [probe EXCEPT ![g] = place] /\ recv' = recv

\* The event is set
ProbeEnds(g) ==
    /\ ProbeAt(g, "wait") /\ probe_event
    /\ ProbeGoto(g, "done")
    /\ UNCHANGED <<over, shared, pc, meta, exiting, destroying, net>>

\* The interval has passed and the probe cannot be sent
ProbeFails(g) ==
    /\ ProbeAt(g, "wait") /\ ~probe_event
    /\ \/ SendKilled(sock)
       \/ /\ SendFails(sock)
          /\ ProbeGoto(g, "allow")
          /\ UNCHANGED <<shared, pc, meta, exiting, destroying, net>>

ProbeAllow(g) == ProbeAt(g, "allow") /\ ProbeGoto(g, "report") /\ Allow
ProbeReport(g) == ProbeAt(g, "report") /\ ProbeGoto(g, "done") /\ Report(socket_id)

(***************************************************************************)
(* ipcon_receive_loop of the thread created with socket g.  It reads the   *)
(* socket's number when it starts and the socket whenever it receives.     *)
(***************************************************************************)

RecvAt(g, place) == Running /\ recv[g].at = place
RecvGoto(g, place) == recv' = [recv EXCEPT ![g].at = place] /\ probe' = probe
Others == <<shared, pc, meta, exiting, destroying, net>>

RecvStart(g) ==
    /\ RecvAt(g, "start")
    /\ recv' = [recv EXCEPT ![g] = [at |-> "loop", id |-> socket_id, sock |-> 0]]
    /\ UNCHANGED <<over, probe, Others>>

RecvLoop(g) ==
    /\ RecvAt(g, "loop")
    /\ recv' = [recv EXCEPT ![g].at = IF receive_flag THEN "receive" ELSE "done",
                            ![g].sock = sock]
    /\ over' = IF receive_flag /\ sock = 0 THEN "crashed" ELSE over
    /\ UNCHANGED <<probe, Others>>

\* Something arrives, is handled, and the loop goes on
RecvData(g) ==
    /\ RecvAt(g, "receive") /\ net[recv[g].sock] = "up"
    /\ RecvGoto(g, IF receive_flag THEN "loop" ELSE "done")
    /\ UNCHANGED <<over, Others>>

\* socket_receive returns 0 or an error; whether that is still of interest
RecvEnds(g) ==
    /\ RecvAt(g, "receive") /\ net[recv[g].sock] # "up"
    /\ RecvGoto(g, IF receive_flag THEN "allow" ELSE "done")
    /\ UNCHANGED <<over, Others>>

\* Faulty variant of RecvAllow: the flag is forgotten
RecvAllowNot(g) ==
    /\ RecvAt(g, "allow") /\ RecvGoto(g, "report")
    /\ UNCHANGED <<over, Others>>

RecvAllow(g) == RecvAt(g, "allow") /\ RecvGoto(g, "report") /\ Allow
RecvReport(g) == RecvAt(g, "report") /\ RecvGoto(g, "done") /\ Report(recv[g].id)

(***************************************************************************)
(* The Brick Daemon closes a connection                                    *)
(***************************************************************************)
PeerCloses(g) ==
    /\ Running /\ net[g] = "up" /\ g <= MaxLosses
    /\ net' = [net EXCEPT ![g] = "down"]
    /\ UNCHANGED <<over, shared, locals>>

ClientStep ==
    \/ Connect \/ ConnectUnlocked(Client) \/ SetProbeEvent \/ JoinProbe \/ JoinReceiver
    \/ Close \/ Detach \/ ExitCallbackThread \/ Destroy
CallbackStep(n) ==
    \/ QueueGet(n) \/ MetaLock(n) \/ MetaClose(n) \/ Wake(n) \/ Retry(n) \/ ConnectUnlocked(n)
ProbeStep(g) == ProbeEnds(g) \/ ProbeFails(g) \/ ProbeAllow(g) \/ ProbeReport(g)
RecvStep(g) ==
    \/ RecvStart(g) \/ RecvLoop(g) \/ RecvEnds(g) \/ RecvAllow(g) \/ RecvReport(g)

Next ==
    \/ ClientStep \/ Request \/ Disconnect
    \/ \E n \in Context : CallbackStep(n)
    \/ \E g \in Socket : ProbeStep(g) \/ RecvStep(g) \/ RecvData(g) \/ PeerCloses(g)

Spec == Init /\ [][Next]_vars

\* Threads are scheduled and mutexes are handed out in turn; a daemon that is asked again
\* and again accepts at last.  The client need neither send nor destroy, a probe need not be
\* due, nothing need arrive.
Fairness ==
    /\ WF_vars(ClientStep)
    /\ \A n \in Context : SF_vars(MetaLock(n)) /\ SF_vars(Retry(n)) /\ SF_vars(Open(n))
    /\ \A n \in Context : WF_vars(CallbackStep(n))
    /\ \A g \in Socket : WF_vars(ProbeEnds(g) \/ ProbeAllow(g) \/ ProbeReport(g))
    /\ \A g \in Socket : WF_vars(RecvStep(g))

FairSpec == Spec /\ Fairness

(***************************************************************************)
(* Properties                                                              *)
(***************************************************************************)

\* Where a thread can be, while it holds the mutex and elsewhere
Locked == {"connect", "receive", "announce", "drop", "joinProbe", "joinReceiver", "close",
           "detach"}
Place == Locked \cup {"none", "start", "ready", "exit", "joinCallback", "idle", "lost",
                      "sleep", "retry", "done"}

FlagsOK ==
    /\ auto_reconnect_allowed \in BOOLEAN /\ auto_reconnect_pending \in BOOLEAN
    /\ receive_flag \in BOOLEAN /\ probe_event \in BOOLEAN /\ destroying \in BOOLEAN

TypeOK ==
    /\ FlagsOK
    /\ over \in {"running", "destroyed", "crashed", "killed"}
    /\ mutex \in Thread \cup {NONE}
    /\ pc \in [Thread -> Place]
    /\ sock \in 0 .. socket_id /\ socket_id \in 0 .. MaxSockets
    /\ callback \in 0 .. MaxContexts /\ exiting \in 0 .. MaxContexts
    /\ queue \in [Context -> Seq(Item)]
    /\ meta \in [Context -> 0 .. MaxSockets]
    /\ recv \in [Socket -> [at : {"none", "start", "loop", "receive", "allow", "report",
                                  "done"},
                            id : 0 .. MaxSockets, sock : 0 .. MaxSockets]]
    /\ probe \in [Socket -> {"none", "wait", "allow", "report", "done"}]
    /\ net \in [Socket -> {"none", "up", "down", "shut", "closed"}]

\* A connection whose peer is there is closed only by ipcon_destroy: the late news of an
\* earlier connection, from whatever thread, never costs the connection that replaced it.
HealthyKept ==
    [][\A g \in Socket :
         net[g] = "up" /\ net'[g] \in {"shut", "closed"} => destroying]_vars

\* A probe thread that has not ended works on the socket that is there: the probe never
\* sends on a socket that is freed, and no two probe threads are alive.
ProbeHasSocket ==
    Running => \A g \in Socket : probe[g] \notin {"none", "done"} => sock = g

\* A loss that the receive thread meets after connecting has come to its end is repaired,
\* whoever else learns of it, unless the client destroys the connection.
LossRepaired ==
    \A g \in 1 .. MaxLosses :
        (sock = g /\ net[g] = "down" /\ mutex = NONE
           /\ recv[g] = [at |-> "receive", id |-> g, sock |-> g])
            ~> (socket_id > g \/ destroying \/ ~Running)

\* ipcon_destroy returns, whatever the threads are doing: none of its joins, two of them
\* under socket_mutex, waits for a thread that waits for the client.
\* (Or the process is over before: killed by SIGPIPE, or crashed on the queue of a null
\* pointer, as Report and SendKilled say.)
DestroyReturns == destroying ~> ~Running

\* ip_connection.h:469: "The connection to the Brick Daemon gets closed and the threads of
\* the IP Connection are terminated."
ThreadsTerminated ==
    over = "destroyed" /\ destroying =>
        /\ \A n \in Context : pc[n] \in {"none", "done"}
        /\ \A g \in Socket : probe[g] \in {"none", "done"} /\ recv[g].at \in {"none", "done"}
=============================================================================
