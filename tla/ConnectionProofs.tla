--------------------------- MODULE ConnectionProofs ---------------------------
(***************************************************************************)
(* What ip_connection.c guarantees of its sockets and threads for any      *)
(* number of connections, losses and callback threads.                     *)
(***************************************************************************)
EXTENDS Connection, SequenceTheorems, TLAPS

(***************************************************************************)
(* The mutex.  Who is between its lock and its unlock holds it, and only   *)
(* such a thread replaces or takes away the socket, after the probe thread *)
(* has ended.                                                              *)
(***************************************************************************)

LockInv ==
    /\ mutex \in Thread \cup {NONE}
    /\ pc \in [Thread -> Place]
    /\ probe \in [Socket -> {"none", "wait", "allow", "report", "done"}]
    /\ sock \in Nat /\ socket_id \in Nat
    /\ sock # 0 => sock = socket_id
    /\ \A t \in Thread : pc[t] \in Locked => mutex = t
    /\ \A t \in Thread : pc[t] = "connect" => sock = 0
    /\ pc[Client] = "start" => sock = 0 /\ \A n \in Context : pc[n] = "none"
    /\ \A n \in Context : pc[n] = "joinProbe" => sock # 0
    /\ pc[Client] \in {"drop", "joinProbe", "joinReceiver", "close"} => sock # 0
    /\ pc[Client] \in {"joinReceiver", "close"} =>
          \A g \in Socket : probe[g] \in {"none", "done"}
    /\ \A g \in Socket : probe[g] \notin {"none", "done"} => sock = g

LEMMA LockInit == Init => LockInv
    BY DEF Init, LockInv, Locked, Place, Thread, Client, Context, Socket, NONE

LEMMA LockStep == LockInv /\ [Next]_vars => LockInv'
<1> SUFFICES ASSUME LockInv, [Next]_vars PROVE LockInv'
    OBVIOUS
<1>1. NONE \notin Thread /\ Client \in Thread /\ Client \notin Context /\ Context \subseteq Thread
    BY ConnectionAssumption DEF NONE, Thread, Client, Context
<1>2. \A g \in Socket : g \in Nat /\ g # 0
    BY DEF Socket
<1> USE <1>1, <1>2
<1>3. ASSUME UNCHANGED <<mutex, pc, probe, sock, socket_id>> PROVE LockInv'
    BY <1>3 DEF LockInv
<1>4. ASSUME NEW t \in Thread, Open(t) PROVE LockInv'
  <2>1. PICK n \in Context :
            pc' = [pc EXCEPT ![t] = "receive", ![n] = IF @ = "none" THEN "idle" ELSE @]
      BY <1>4 DEF Open
  <2>2. /\ mutex' = mutex /\ mutex = t /\ sock = 0 /\ pc[t] = "connect"
        /\ sock' = socket_id + 1 /\ socket_id' = socket_id + 1
        /\ probe' = [probe EXCEPT ![socket_id + 1] = "wait"]
      BY <1>4 DEF Open, At, LockInv, Locked
  <2>3. ASSUME NEW s \in Thread
        PROVE  /\ pc'[s] \in Place
               /\ \/ pc'[s] = pc[s] /\ s # t
                  \/ pc'[s] = "receive" /\ s = t
                  \/ pc'[s] = "idle" /\ s # t /\ pc[s] = "none"
      BY <2>1, <2>2 DEF LockInv, Place, Locked
  <2>4. pc[Client] # "start"
      BY <2>2 DEF LockInv, Thread
  <2>5. \A s \in Thread : pc[s] \in Locked => s = t
      BY <2>2 DEF LockInv
  <2>6. \A g \in Socket : probe[g] \in {"none", "done"}
      BY <2>2 DEF LockInv
  <2>7. pc' \in [Thread -> Place]
      BY <2>1, <2>3 DEF LockInv
  <2>8. ASSUME NEW s \in Thread
        PROVE  IF s = t THEN pc'[s] = "receive" ELSE pc'[s] \notin Locked
      BY <2>3, <2>5 DEF Locked
  <2>9. probe' \in [Socket -> {"none", "wait", "allow", "report", "done"}]
      BY <2>2 DEF LockInv
  <2>10. \A g \in Socket : probe'[g] \notin {"none", "done"} => sock' = g
      BY <2>2, <2>6 DEF LockInv
  <2>11. \A m \in Context : pc'[m] = "joinProbe" => sock' # 0
      BY <2>2 DEF LockInv
  <2>12. pc'[Client] # "start"
         /\ pc'[Client] \notin {"drop", "joinProbe", "joinReceiver", "close"}
      BY <2>3, <2>4, <2>8 DEF Locked
  <2>13. \A s \in Thread : pc'[s] # "connect" /\ (pc'[s] \in Locked => mutex' = s)
      BY <2>2, <2>8 DEF Locked
  <2> QED
      BY <2>2, <2>7, <2>9, <2>10, <2>11, <2>12, <2>13 DEF LockInv
<1>5. ASSUME NEW t \in Thread, Refused(t) PROVE LockInv'
    BY <1>5 DEF LockInv, Refused, At, Goto, Locked, Place
<1>6. ASSUME NEW t \in Thread, CreateReceiver(t) PROVE LockInv'
    BY <1>6 DEF LockInv, CreateReceiver, At, Goto, Locked, Place
<1>7. ASSUME NEW t \in Thread, Announce(t) PROVE LockInv'
    BY <1>7 DEF LockInv, Announce, At, Goto, Locked, Place
<1>8. CASE Connect
    BY <1>8 DEF LockInv, Connect, At, Goto, Locked, Place
<1>9. CASE Request
    BY <1>9 DEF LockInv, Request, SendKilled, shared, locals, At, Goto, Locked, Place
<1>10. CASE Disconnect
    BY <1>10 DEF LockInv, Disconnect, At, Goto, Locked, Place
<1>11. CASE SetProbeEvent
    BY <1>11 DEF LockInv, SetProbeEvent, At, Goto, Locked, Place
<1>12. CASE JoinProbe
    BY <1>12 DEF LockInv, JoinProbe, At, Goto, Locked, Place
<1>13. CASE JoinReceiver
    BY <1>13 DEF LockInv, JoinReceiver, At, Goto, shared, flags, Locked, Place
<1>14. CASE Close
    BY <1>14 DEF LockInv, Close, At, Goto, Locked, Place
<1>15. CASE Detach
    BY <1>15 DEF LockInv, Detach, At, Goto, Locked, Place
<1>16. CASE ExitCallbackThread
    BY <1>16 DEF LockInv, ExitCallbackThread, At, Goto, Locked, Place
<1>17. CASE Destroy
    BY <1>3, <1>17 DEF Destroy, shared, locals
<1>18. ASSUME NEW n \in Context, QueueGet(n) PROVE LockInv'
    BY <1>18 DEF LockInv, QueueGet, At, Goto, Locked, Place
<1>19. ASSUME NEW n \in Context, MetaLock(n) PROVE LockInv'
    BY <1>19 DEF LockInv, MetaLock, At, Goto, Locked, Place
<1>20. ASSUME NEW n \in Context, MetaClose(n) PROVE LockInv'
    BY <1>20 DEF LockInv, MetaClose, At, Goto, Locked, Place
<1>21. ASSUME NEW n \in Context, Wake(n) PROVE LockInv'
    BY <1>21 DEF LockInv, Wake, At, Goto, Locked, Place
<1>22. ASSUME NEW n \in Context, Retry(n) PROVE LockInv'
    BY <1>22 DEF LockInv, Retry, At, Goto, Locked, Place
<1>23. ASSUME NEW g \in Socket, ProbeStep(g) PROVE LockInv'
    BY <1>23 DEF LockInv, ProbeStep, ProbeEnds, ProbeFails, ProbeAllow, ProbeReport, ProbeAt,
                 ProbeGoto, SendKilled, SendFails, Allow, Report, shared, locals
<1>24. ASSUME NEW g \in Socket, RecvStep(g) \/ RecvData(g) PROVE LockInv'
    BY <1>3, <1>24 DEF RecvStep, RecvData, RecvStart, RecvLoop, RecvEnds, RecvAllow, RecvReport,
                       RecvAt, RecvGoto, Allow, Report, Others, shared
<1>25. ASSUME NEW g \in Socket, PeerCloses(g) PROVE LockInv'
    BY <1>3, <1>25 DEF PeerCloses, shared, locals
<1>26. CASE UNCHANGED vars
    BY <1>3, <1>26 DEF vars, shared, locals
<1> QED
    BY <1>4, <1>5, <1>6, <1>7, <1>8, <1>9, <1>10, <1>11, <1>12, <1>13, <1>14, <1>15, <1>16,
       <1>17, <1>18, <1>19, <1>20, <1>21, <1>22, <1>23, <1>24, <1>25, <1>26
       DEF Next, ClientStep, CallbackStep, ConnectUnlocked

(***************************************************************************)
(* Types                                                                   *)
(***************************************************************************)

Types ==
    /\ over \in {"running", "destroyed", "crashed", "killed"}
    /\ sock \in 0 .. socket_id /\ socket_id \in 0 .. MaxSockets
    /\ callback \in 0 .. MaxContexts /\ exiting \in 0 .. MaxContexts
    /\ queue \in [Context -> Seq(Item)]
    /\ meta \in [Context -> 0 .. MaxSockets]
    /\ recv \in [Socket -> [at : {"none", "start", "loop", "receive", "allow", "report",
                                  "done"},
                            id : 0 .. MaxSockets, sock : 0 .. MaxSockets]]
    /\ net \in [Socket -> {"none", "up", "down", "shut", "closed"}]

LEMMA FlagsInit == Init => FlagsOK
    BY Zenon DEF Init, FlagsOK

LEMMA FlagsStep == FlagsOK /\ [Next]_vars => FlagsOK'
<1> SUFFICES ASSUME FlagsOK, [Next]_vars PROVE FlagsOK'
    OBVIOUS
<1>1. ASSUME NEW t \in Thread, ConnectUnlocked(t) PROVE FlagsOK'
    BY <1>1, Zenon DEF FlagsOK, ConnectUnlocked, Open, Refused, CreateReceiver, Announce, flags
<1>2. CASE ClientStep
  <2>1. CASE ConnectUnlocked(Client)
      BY <1>1, <2>1 DEF Thread
  <2>2. CASE ~ConnectUnlocked(Client)
      BY <1>2, <2>2, Zenon DEF FlagsOK, ClientStep, Connect, SetProbeEvent, JoinProbe,
            JoinReceiver, Close, Detach, ExitCallbackThread, Destroy, flags, shared, locals
  <2> QED
      BY <2>1, <2>2
<1>3. CASE Request \/ Disconnect
    BY <1>3, Zenon DEF FlagsOK, Request, SendKilled, SendFails, Disconnect, flags, shared, locals
<1>4. ASSUME NEW n \in Context, CallbackStep(n) PROVE FlagsOK'
  <2>1. CASE ConnectUnlocked(n)
      BY <1>1, <2>1 DEF Thread
  <2>2. CASE ~ConnectUnlocked(n)
      BY <1>4, <2>2, Zenon DEF FlagsOK, CallbackStep, QueueGet, MetaLock, MetaClose, Wake, Retry,
            flags
  <2> QED
      BY <2>1, <2>2
<1>5. ASSUME NEW g \in Socket, ProbeStep(g) PROVE FlagsOK'
    BY <1>5, Zenon DEF FlagsOK, ProbeStep, ProbeEnds, ProbeFails, ProbeAllow, ProbeReport,
          SendKilled, Allow, Report, flags, shared, locals
<1>6. ASSUME NEW g \in Socket, RecvStep(g) \/ RecvData(g) \/ PeerCloses(g) PROVE FlagsOK'
    BY <1>6, Zenon DEF FlagsOK, RecvStep, RecvStart, RecvLoop, RecvEnds, RecvAllow, RecvReport,
          RecvData, PeerCloses, Others, Allow, Report, flags, shared, locals
<1>7. CASE UNCHANGED vars
    BY <1>7, Zenon DEF FlagsOK, vars, flags, shared, locals
<1> QED
    BY <1>2, <1>3, <1>4, <1>5, <1>6, <1>7 DEF Next

LEMMA TypesInit == Init => Types
    BY ConnectionAssumption DEF Init, Types

\* One more item in a queue
LEMMA PutTypes ==
    ASSUME Types, NEW n, NEW item \in Item, Put(n, item)
    PROVE  queue' \in [Context -> Seq(Item)]
<1>1. ASSUME n \in Context PROVE Append(queue[n], item) \in Seq(Item)
    BY <1>1, AppendProperties DEF Types
<1> QED
    BY <1>1 DEF Put, Types

LEMMA Items ==
    /\ \A id \in 0 .. MaxSockets : Lost(id) \in Item
    /\ Note("connected") \in Item /\ Note("requested") \in Item /\ Note("exit") \in Item
    /\ \A item \in Item : item.id \in 0 .. MaxSockets
    BY ConnectionAssumption DEF Item, Lost, Note

LEMMA TypesStep == Types /\ LockInv /\ [Next]_vars => Types'
<1> SUFFICES ASSUME Types, LockInv, [Next]_vars PROVE Types'
    OBVIOUS
<1> USE ConnectionAssumption
<1>4. ASSUME NEW t \in Thread, Open(t) PROVE Types'
    BY <1>4 DEF Types, Open, At, Context, Socket
<1>5. ASSUME NEW t \in Thread, Refused(t) PROVE Types'
    BY <1>5 DEF Types, Refused, flags
<1>6. ASSUME NEW t \in Thread, CreateReceiver(t) PROVE Types'
    BY <1>6 DEF Types, CreateReceiver
<1>7. ASSUME NEW t \in Thread, Announce(t) PROVE Types'
    BY <1>7, PutTypes, Items DEF Types, Announce
<1>8. CASE Connect
    BY <1>8 DEF Types, Connect, flags
<1>9. CASE Request
    BY <1>9 DEF Types, Request, SendKilled, SendFails, shared, locals
<1>10. CASE Disconnect
    BY <1>10 DEF Types, Disconnect
<1>11. CASE SetProbeEvent
    BY <1>11 DEF Types, SetProbeEvent
<1>12. CASE JoinProbe
    BY <1>12 DEF Types, JoinProbe
<1>13. CASE JoinReceiver
    BY <1>13 DEF Types, JoinReceiver, shared
<1>14. CASE Close
  <2>1. queue' \in [Context -> Seq(Item)]
      BY <1>14, PutTypes, Items DEF Close, Types
  <2>2. sock' = 0 /\ socket_id' = socket_id /\ 0 \in 0 .. socket_id
      BY <1>14 DEF Types, Close
  <2>3. net' \in [Socket -> {"none", "up", "down", "shut", "closed"}]
      BY <1>14 DEF Types, Close
  <2> QED
      BY <1>14, <2>1, <2>2, <2>3 DEF Types, Close, flags
<1>15. CASE Detach
    BY <1>15 DEF Types, Detach, flags
<1>16. CASE ExitCallbackThread
  <2>1. <<Note("requested"), Note("exit")>> \in Seq(Item)
      BY Items
  <2>2. ASSUME exiting \in Context
        PROVE  queue[exiting] \o <<Note("requested"), Note("exit")>> \in Seq(Item)
      BY <2>1, <2>2, ConcatProperties DEF Types
  <2> QED
      BY <1>16, <2>2 DEF Types, ExitCallbackThread, flags
<1>17. CASE Destroy
    BY <1>17 DEF Types, Destroy, shared, locals
<1>18. ASSUME NEW n \in Context, QueueGet(n) PROVE Types'
  <2>1. Head(queue[n]) \in Item /\ Tail(queue[n]) \in Seq(Item)
      BY <1>18, HeadTailProperties DEF Types, QueueGet
  <2>2. Head(queue[n]).id \in 0 .. MaxSockets
      BY <2>1, Items
  <2> QED
      BY <1>18, <2>1, <2>2 DEF Types, QueueGet, flags
<1>19. ASSUME NEW n \in Context, MetaLock(n) PROVE Types'
    BY <1>19 DEF Types, MetaLock
<1>20. ASSUME NEW n \in Context, MetaClose(n) PROVE Types'
  <2>1. sock' = 0 /\ socket_id' = socket_id /\ 0 \in 0 .. socket_id
      BY <1>20 DEF Types, MetaClose
  <2>2. net' \in [Socket -> {"none", "up", "down", "shut", "closed"}]
      BY <1>20 DEF Types, MetaClose
  <2> QED
      BY <1>20, <2>1, <2>2 DEF Types, MetaClose, flags
<1>21. ASSUME NEW n \in Context, Wake(n) PROVE Types'
    BY <1>21 DEF Types, Wake
<1>22. ASSUME NEW n \in Context, Retry(n) PROVE Types'
    BY <1>22 DEF Types, Retry
<1>23. ASSUME NEW id \in 0 .. MaxSockets, Report(id)
       PROVE  /\ queue' \in [Context -> Seq(Item)] /\ over' \in {over, "crashed"}
              /\ UNCHANGED <<sock, socket_id, callback, exiting, meta, net>>
  <2>1. queue' \in [Context -> Seq(Item)]
      BY <1>23, PutTypes, Items DEF Report, Types
  <2> QED
      BY <1>23, <2>1 DEF Report
<1>24. ASSUME NEW g \in Socket, ProbeStep(g) PROVE Types'
  <2>1. CASE ProbeReport(g)
      BY <1>23, <2>1 DEF Types, ProbeReport, ProbeGoto
  <2>2. CASE ~ProbeReport(g)
      BY <1>24, <2>2 DEF Types, ProbeStep, ProbeEnds, ProbeFails, ProbeAllow, ProbeGoto,
                         SendKilled, SendFails, Allow, shared, locals
  <2> QED
      BY <2>1, <2>2
<1>25. ASSUME NEW g \in Socket, RecvStep(g) \/ RecvData(g) PROVE Types'
  <2>1. CASE RecvReport(g)
    <3>1. recv[g].id \in 0 .. MaxSockets
        BY DEF Types
    <3> QED
        BY <1>23, <2>1, <3>1 DEF Types, RecvReport, RecvGoto
  <2> DEFINE R == [at : {"none", "start", "loop", "receive", "allow", "report", "done"},
                   id : 0 .. MaxSockets, sock : 0 .. MaxSockets]
  <2>2. ASSUME recv' \in [Socket -> R], over' \in {over, "crashed"}, UNCHANGED Others
        PROVE  Types'
      BY <2>2 DEF Types, Others, shared
  <2>3. recv \in [Socket -> R] /\ recv[g] \in R /\ sock \in 0 .. MaxSockets
        /\ socket_id \in 0 .. MaxSockets
      BY DEF Types
  <2>4. CASE RecvStart(g)
    <3>1. recv' \in [Socket -> R]
        BY <2>3, <2>4 DEF RecvStart
    <3> QED
        BY <2>2, <2>4, <3>1 DEF RecvStart
  <2>5. CASE RecvLoop(g)
    <3>1. recv' \in [Socket -> R]
        BY <2>3, <2>5 DEF RecvLoop
    <3> QED
        BY <2>2, <2>5, <3>1 DEF RecvLoop
  <2>6. CASE RecvEnds(g) \/ RecvData(g)
    <3>1. recv' \in [Socket -> R]
        BY <2>3, <2>6 DEF RecvEnds, RecvData, RecvGoto
    <3> QED
        BY <2>2, <2>6, <3>1 DEF RecvEnds, RecvData
  <2>7. CASE RecvAllow(g)
      BY <2>7 DEF Types, RecvAllow, RecvGoto, Allow
  <2> QED
      BY <1>25, <2>1, <2>4, <2>5, <2>6, <2>7 DEF RecvStep
<1>26. ASSUME NEW g \in Socket, PeerCloses(g) PROVE Types'
    BY <1>26 DEF Types, PeerCloses, shared, locals
<1>27. CASE UNCHANGED vars
    BY <1>27 DEF Types, vars, shared, locals
<1> QED
    BY <1>4, <1>5, <1>6, <1>7, <1>8, <1>9, <1>10, <1>11, <1>12, <1>13, <1>14, <1>15, <1>16,
       <1>17, <1>18, <1>19, <1>20, <1>21, <1>22, <1>24, <1>25, <1>26, <1>27
       DEF Next, ClientStep, CallbackStep, ConnectUnlocked, Thread

-------------------------------------------------------------------------------
(***************************************************************************)
(* The news.  A loss is reported of a socket whose peer is gone, or which  *)
(* has been replaced; both stay true while the news is on its way.  So the *)
(* callback thread never takes away a socket whose peer is there.          *)
(***************************************************************************)

\* The connection with this number is not, or no longer, a healthy one
Stale(id) == id = 0 \/ (id <= socket_id /\ (id < socket_id \/ net[id] # "up"))

\* The parts of the invariant: news in the queues, news being handled, and in the
\* threads that are about to report
QueueNews == \A n \in Context : \A k \in 1 .. Len(queue[n]) : Stale(queue[n][k].id)
MetaNews ==
    /\ \A n \in Context : Stale(meta[n])
    /\ \A n \in Context : pc[n] = "joinProbe" => net[sock] # "up"
ProbeNews == \A g \in Socket : probe[g] \in {"allow", "report"} => net[g] # "up"
RecvNews ==
    \A g \in Socket :
       /\ recv[g].at \in {"loop", "receive"} => recv[g].id <= socket_id
       /\ recv[g].at = "receive" => over = "crashed" \/ recv[g].sock \in recv[g].id .. socket_id
       /\ recv[g].at \in {"allow", "report"} => Stale(recv[g].id)

\* The client's request found its socket broken, or it destroys the connection
ClientNews ==
    pc[Client] \in {"drop", "joinProbe", "joinReceiver", "close"} =>
        destroying \/ net[sock] # "up"

NewsInv == QueueNews /\ MetaNews /\ ProbeNews /\ RecvNews /\ ClientNews

ConnInv == FlagsOK /\ Types /\ LockInv /\ NewsInv

LEMMA NewsInit == Init => NewsInv
<1> SUFFICES ASSUME Init PROVE NewsInv
    OBVIOUS
<1>1. QueueNews
  <2>1. \A n \in Context : Len(queue[n]) = 0
      BY DEF Init
  <2> QED
      BY <2>1 DEF QueueNews
<1>2. MetaNews
    BY DEF Init, MetaNews, Stale, Thread, Client, Context
<1>3. ProbeNews /\ RecvNews /\ ClientNews
    BY DEF Init, ProbeNews, RecvNews, ClientNews, Thread
<1> QED
    BY <1>1, <1>2, <1>3 DEF NewsInv

\* No socket comes up but the one that Open creates.
Calm ==
    \/ socket_id' = socket_id /\ \A g \in Socket : net'[g] = "up" => net[g] = "up"
    \/ /\ socket_id' = socket_id + 1
       /\ \A g \in Socket : g # socket_id + 1 /\ net'[g] = "up" => net[g] = "up"

\* Stale in the next state
StaleNext(id) == id = 0 \/ (id <= socket_id' /\ (id < socket_id' \/ net'[id] # "up"))

LEMMA StaleStays ==
    ASSUME Types, Calm, NEW id \in 0 .. MaxSockets, Stale(id)
    PROVE  StaleNext(id)
    BY DEF Types, Calm, Stale, StaleNext, Socket

\* What a queue holds stays stale, and so does what is put into it.
LEMMA PutStays ==
    ASSUME Types, NewsInv, Calm, NEW n, NEW item \in Item, StaleNext(item.id),
           queue' = queue \/ Put(n, item)
    PROVE  QueueNews'
<1> SUFFICES ASSUME NEW m \in Context, NEW k \in 1 .. Len(queue'[m])
             PROVE  StaleNext(queue'[m][k].id)
    BY DEF QueueNews, Stale, StaleNext
<1>1. queue[m] \in Seq(Item)
    BY DEF Types
<1>2. queue'[m] = queue[m] \/ queue'[m] = Append(queue[m], item)
    BY DEF Put, Types
<1>3. queue'[m][k] = item \/ (k \in 1 .. Len(queue[m]) /\ queue'[m][k] = queue[m][k])
    BY <1>1, <1>2, AppendProperties, LenProperties
<1>4. CASE queue'[m][k] = item
    BY <1>4
<1>5. CASE k \in 1 .. Len(queue[m]) /\ queue'[m][k] = queue[m][k]
  <2>1. queue[m][k] \in Item
      BY <1>1, <1>5, ElementOfSeq
  <2>2. queue[m][k].id \in 0 .. MaxSockets /\ Stale(queue[m][k].id)
      BY <2>1, <1>5, Items DEF NewsInv, QueueNews
  <2>3. StaleNext(queue[m][k].id)
      BY <2>2, StaleStays
  <2> QED
      BY <1>5, <2>3
<1> QED
    BY <1>3, <1>4, <1>5

LEMMA QueueStays == ASSUME Types, NewsInv, Calm, queue' = queue PROVE QueueNews'
<1>1. Note("exit") \in Item /\ StaleNext(Note("exit").id)
    BY Items DEF StaleNext, Note
<1> QED
    BY <1>1, PutStays

\* The other parts, as far as a step leaves alone what they are about
LEMMA MetaStays ==
    ASSUME Types, NewsInv, Calm, meta' = meta
    PROVE  \A n \in Context : StaleNext(meta[n])
<1> TAKE n \in Context
<1>1. meta[n] \in 0 .. MaxSockets /\ Stale(meta[n])
    BY DEF Types, NewsInv, MetaNews
<1> QED
    BY <1>1, StaleStays

LEMMA ProbeStays ==
    ASSUME Types, LockInv, NewsInv, Calm, NEW g \in Socket, probe[g] \in {"allow", "report"}
    PROVE  net'[g] # "up"
<1>1. net[g] # "up" /\ g = sock /\ sock = socket_id
    BY DEF NewsInv, ProbeNews, LockInv, Socket
<1> QED
    BY <1>1 DEF Calm, Types

LEMMA RecvStays ==
    ASSUME Types, NewsInv, Calm, NEW g \in Socket
    PROVE  /\ recv[g].at \in {"loop", "receive"} => recv[g].id <= socket_id'
           /\ recv[g].at = "receive" =>
                 over = "crashed" \/ recv[g].sock \in recv[g].id .. socket_id'
           /\ recv[g].at \in {"allow", "report"} => StaleNext(recv[g].id)
<1>1. /\ socket_id' \in {socket_id, socket_id + 1} /\ socket_id \in Nat
      /\ recv[g].id \in 0 .. MaxSockets /\ recv[g].sock \in 0 .. MaxSockets
    BY ConnectionAssumption DEF Calm, Types
<1>2. ASSUME recv[g].at \in {"allow", "report"} PROVE StaleNext(recv[g].id)
    BY <1>1, <1>2, StaleStays DEF NewsInv, RecvNews
<1>3. /\ recv[g].at \in {"loop", "receive"} => recv[g].id <= socket_id
      /\ recv[g].at = "receive" => over = "crashed" \/ recv[g].sock \in recv[g].id .. socket_id
    BY DEF NewsInv, RecvNews
<1> QED
    BY <1>1, <1>2, <1>3, ConnectionAssumption

LEMMA RestStays ==
    ASSUME Types, LockInv, NewsInv, Calm, over = "crashed" => over' = "crashed"
    PROVE  /\ queue' = queue => QueueNews'
           /\ probe' = probe => ProbeNews'
           /\ recv' = recv => RecvNews'
           /\ meta' = meta => \A n \in Context : Stale(meta[n])'
<1>1. ASSUME recv' = recv PROVE RecvNews'
    BY <1>1, RecvStays DEF RecvNews, Stale, StaleNext
<1>2. ASSUME meta' = meta PROVE \A n \in Context : Stale(meta[n])'
    BY <1>2, MetaStays DEF Stale, StaleNext
<1>3. ASSUME probe' = probe PROVE ProbeNews'
    BY <1>3, ProbeStays DEF ProbeNews
<1> QED
    BY <1>1, <1>2, <1>3, QueueStays

\* A peer that is gone stays gone while sock and who drops it stay the same.
LEMMA DropStays ==
    ASSUME Types, LockInv, NewsInv, Calm, sock' = sock, destroying => destroying'
    PROVE  /\ \A n \in Context : pc[n] = "joinProbe" => net'[sock'] # "up"
           /\ pc[Client] \in {"drop", "joinProbe", "joinReceiver", "close"} =>
                  destroying' \/ net'[sock'] # "up"
<1>1. sock # 0 => sock \in Socket /\ sock = socket_id
    BY DEF Types, LockInv, Socket
<1>2. sock # 0 /\ net[sock] # "up" => net'[sock] # "up"
    BY <1>1 DEF Calm, Types
<1>3. \A n \in Context : pc[n] = "joinProbe" => sock # 0 /\ net[sock] # "up"
    BY DEF LockInv, NewsInv, MetaNews
<1>4. pc[Client] \in {"drop", "joinProbe", "joinReceiver", "close"} => sock # 0
    BY DEF LockInv
<1>5. pc[Client] \in {"drop", "joinProbe", "joinReceiver", "close"} =>
          destroying \/ net[sock] # "up"
    BY DEF NewsInv, ClientNews
<1> QED
    BY <1>2, <1>3, <1>4, <1>5

LEMMA NewsStep ==
    ASSUME Types, LockInv, LockInv', NewsInv, [Next]_vars PROVE NewsInv'
<1>1. /\ NONE \notin Thread /\ Client \in Thread /\ Client \notin Context
      /\ Context \subseteq Thread
      /\ \A g \in Socket : g \in Nat /\ g # 0 /\ g \in 0 .. MaxSockets
      /\ socket_id \in 0 .. MaxSockets /\ sock \in 0 .. MaxSockets /\ pc \in [Thread -> Place]
    BY ConnectionAssumption DEF NONE, Thread, Client, Context, Socket, Types, LockInv
<1> USE <1>1
\* A step that takes away nothing and reports nothing
<1>2. ASSUME Calm, sock' = sock, destroying => destroying', over = "crashed" => over' = "crashed",
             queue' = queue, meta' = meta, probe' = probe, recv' = recv,
             \A t \in Thread : pc'[t] # pc[t] => pc'[t] \notin {"drop", "joinProbe",
                                                     "joinReceiver", "close"}
      PROVE  NewsInv'
    BY <1>2, RestStays, DropStays DEF NewsInv, MetaNews, ClientNews, Stale
<1>3. CASE UNCHANGED vars
    BY <1>2, <1>3 DEF vars, shared, locals, flags, Calm
<1>4. ASSUME NEW t \in Thread, Open(t) PROVE NewsInv'
  <2>1. /\ over = "running" /\ over' = over /\ UNCHANGED <<queue, meta, recv, mutex>>
        /\ pc[t] = "connect" /\ sock = 0
        /\ socket_id < MaxSockets /\ socket_id' = socket_id + 1
        /\ net' = [net EXCEPT ![socket_id + 1] = "up"]
        /\ probe' = [probe EXCEPT ![socket_id + 1] = "wait"]
        /\ mutex' = t
      BY <1>4 DEF Open, At, Running, LockInv, Locked
  <2>2. Calm
      BY <2>1 DEF Calm, Types
  <2>3. \A s \in Thread : pc'[s] \notin {"drop", "joinProbe", "joinReceiver", "close"}
    <3>1. pc'[t] \notin {"drop", "joinProbe", "joinReceiver", "close"}
        BY <1>4 DEF Open
    <3>2. \A s \in Thread : pc'[s] \in Locked => s = t
        BY <2>1 DEF LockInv
    <3> QED
        BY <3>1, <3>2 DEF Locked
  <2>4. ProbeNews'
      BY <2>1, <2>2, ProbeStays DEF ProbeNews, LockInv
  <2> QED
      BY <2>1, <2>2, <2>3, <2>4, RestStays DEF NewsInv, MetaNews, ClientNews, Stale
<1>5. ASSUME NEW t \in Thread, Refused(t) PROVE NewsInv'
    BY <1>2, <1>5 DEF Refused, At, Running, Goto, flags, Calm
<1>6. ASSUME NEW t \in Thread, CreateReceiver(t) PROVE NewsInv'
  <2>1. Calm /\ sock' = sock /\ destroying' = destroying /\ over' = over
        /\ queue' = queue /\ meta' = meta /\ probe' = probe /\ socket_id' = socket_id
      BY <1>6 DEF CreateReceiver, Calm
  <2>2. \A s \in Thread : pc'[s] # pc[s] => pc'[s] \notin {"drop", "joinProbe",
                                                     "joinReceiver", "close"}
      BY <1>6 DEF CreateReceiver, Goto
  <2>3. ASSUME NEW g \in Socket
        PROVE  recv'[g] = recv[g] \/ recv'[g].at = "start"
      BY <1>6 DEF CreateReceiver, Types
  <2>4. RecvNews'
      BY <2>1, <2>3, RecvStays DEF RecvNews, Stale, StaleNext
  <2> QED
      BY <2>1, <2>2, <2>4, RestStays, DropStays DEF NewsInv, MetaNews, ClientNews, Stale
<1>7. ASSUME NEW t \in Thread, Announce(t) PROVE NewsInv'
  <2>1. Calm /\ sock' = sock /\ destroying' = destroying /\ over' = over
        /\ meta' = meta /\ probe' = probe /\ recv' = recv
        /\ Put(callback, Note("connected"))
      BY <1>7 DEF Announce, Calm
  <2>2. \A s \in Thread : pc'[s] # pc[s] => pc'[s] \notin {"drop", "joinProbe",
                                                     "joinReceiver", "close"}
      BY <1>7 DEF Announce, Goto
  <2>3. StaleNext(Note("connected").id)
      BY DEF StaleNext, Note
  <2>4. QueueNews'
      BY <2>1, <2>3, PutStays, Items
  <2> QED
      BY <2>1, <2>2, <2>4, RestStays, DropStays DEF NewsInv, MetaNews, ClientNews, Stale
<1>8. CASE Connect
    BY <1>2, <1>8 DEF Connect, Goto, flags, Calm
<1>9. CASE Request
  <2>1. CASE SendKilled(sock)
      BY <1>2, <1>9, <2>1 DEF Request, At, Running, SendKilled, shared, locals, flags, Calm
  <2>2. CASE ~SendKilled(sock)
    <3>1. net[sock] = "down" /\ net' = net /\ sock' = sock /\ socket_id' = socket_id
          /\ UNCHANGED <<queue, meta, probe, recv, destroying>> /\ over' = over
          /\ pc' = [pc EXCEPT ![Client] = "drop"]
        BY <1>9, <2>2 DEF Request, SendFails, Goto
    <3>2. Calm
        BY <3>1 DEF Calm
    <3> QED
        BY <3>1, <3>2, RestStays, DropStays DEF NewsInv, MetaNews, ClientNews, Stale
  <2> QED
      BY <2>1, <2>2
<1>10. CASE Disconnect
  <2>1. Calm /\ sock' = sock /\ destroying' /\ over = "running"
        /\ UNCHANGED <<queue, meta, probe, recv>>
        /\ \A n \in Context : pc'[n] = pc[n]
      BY <1>10 DEF Disconnect, At, Running, Goto, Calm
  <2> QED
      BY <2>1, RestStays, DropStays DEF NewsInv, MetaNews, ClientNews, Stale
<1>11. ASSUME SetProbeEvent \/ JoinProbe \/ JoinReceiver PROVE NewsInv'
  <2>1. /\ Calm /\ sock' = sock /\ destroying' = destroying /\ over' = over
        /\ UNCHANGED <<queue, meta, probe, recv>>
        /\ \A n \in Context : pc'[n] = pc[n]
        /\ pc[Client] \in {"drop", "joinProbe", "joinReceiver", "close"}
      BY <1>11 DEF SetProbeEvent, JoinProbe, JoinReceiver, At, Goto, shared, flags, Calm, Types
  <2>2. QueueNews' /\ ProbeNews' /\ RecvNews' /\ \A n \in Context : StaleNext(meta[n])
      BY <2>1, RestStays, MetaStays
  <2>3. MetaNews'
      BY <2>1, <2>2, DropStays DEF MetaNews, Stale, StaleNext
  <2>4. ClientNews'
    <3>1. destroying' \/ net'[sock'] # "up"
        BY <2>1, DropStays
    <3> QED
        BY <3>1 DEF ClientNews
  <2> QED
      BY <2>2, <2>3, <2>4 DEF NewsInv
<1>12. CASE Close
  <2>1. /\ Calm /\ destroying' = destroying /\ over' = over
        /\ UNCHANGED <<meta, probe, recv, callback>>
        /\ pc'[Client] \notin {"drop", "joinProbe", "joinReceiver", "close"}
        /\ mutex = Client
        /\ queue' = queue \/ Put(callback, Lost(0))
      BY <1>12 DEF Close, At, Goto, Calm, Types, LockInv, Locked
  <2>2. \A n \in Context : pc'[n] = pc[n] /\ pc[n] # "joinProbe"
      BY <1>12, <2>1 DEF Close, Goto, LockInv, Locked
  <2>3. StaleNext(Lost(0).id) /\ Lost(0) \in Item
      BY Items, ConnectionAssumption DEF StaleNext, Lost
  <2>4. QueueNews'
      BY <2>1, <2>3, PutStays
  <2> QED
      BY <2>1, <2>2, <2>4, RestStays DEF NewsInv, MetaNews, ClientNews, Stale
<1>13. CASE Detach
    BY <1>2, <1>13 DEF Detach, Goto, flags, Calm
<1>14. CASE ExitCallbackThread
  <2>1. /\ Calm /\ sock' = sock /\ destroying' = destroying /\ over' = over
        /\ UNCHANGED <<meta, probe, recv>>
        /\ pc' = [pc EXCEPT ![Client] = "joinCallback"]
      BY <1>14 DEF ExitCallbackThread, Goto, flags, Calm
  <2> DEFINE two == <<Note("requested"), Note("exit")>>
  <2>2. QueueNews'
    <3> SUFFICES ASSUME NEW m \in Context, NEW k \in 1 .. Len(queue'[m])
                 PROVE  StaleNext(queue'[m][k].id)
        BY DEF QueueNews, Stale, StaleNext
    <3>1. queue[m] \in Seq(Item) /\ two \in Seq(Item) /\ Len(two) = 2
          /\ two[1].id = 0 /\ two[2].id = 0
        BY Items DEF Types, Note
    <3>2. queue'[m] = queue[m] \/ queue'[m] = queue[m] \o two
        BY <1>14 DEF ExitCallbackThread, Types
    <3> HIDE DEF two
    <3>3. \/ k \in 1 .. Len(queue[m]) /\ queue'[m][k] = queue[m][k]
          \/ queue'[m][k].id = 0
      <4>1. CASE queue'[m] = queue[m]
          BY <4>1
      <4>2. CASE queue'[m] = queue[m] \o two
        <5>1. Len(queue[m]) \in Nat /\ k \in 1 .. Len(queue[m]) + 2
          <6>1. Len(queue'[m]) = Len(queue[m]) + Len(two)
              BY <3>1, <4>2, ConcatProperties
          <6>2. Len(queue[m]) \in Nat
              BY <3>1, LenProperties
          <6> QED
              BY <3>1, <6>1, <6>2
        <5>2. queue'[m][k] = IF k <= Len(queue[m]) THEN queue[m][k]
                                                    ELSE two[k - Len(queue[m])]
            BY <3>1, <4>2, <5>1, ConcatProperties
        <5>3. CASE k <= Len(queue[m])
            BY <5>1, <5>2, <5>3
        <5>4. CASE k > Len(queue[m])
          <6>1. k - Len(queue[m]) = 1 \/ k - Len(queue[m]) = 2
              BY <5>1, <5>4
          <6> QED
              BY <3>1, <5>1, <5>2, <5>4, <6>1
        <5> QED
            BY <5>1, <5>3, <5>4
      <4> QED
          BY <3>2, <4>1, <4>2
    <3>4. ASSUME k \in 1 .. Len(queue[m]) PROVE StaleNext(queue[m][k].id)
      <4>1. queue[m][k].id \in 0 .. MaxSockets /\ Stale(queue[m][k].id)
          BY <3>1, <3>4, Items, ElementOfSeq DEF NewsInv, QueueNews
      <4> QED
          BY <2>1, <4>1, StaleStays
    <3> QED
        BY <3>3, <3>4 DEF StaleNext
  <2> QED
      BY <2>1, <2>2, RestStays, DropStays DEF NewsInv, MetaNews, ClientNews, Stale
<1>15. CASE Destroy
    BY <1>2, <1>15 DEF Destroy, At, Running, shared, locals, flags, Calm
<1>16. ASSUME NEW n \in Context, QueueGet(n) PROVE NewsInv'
  <2>1. /\ Calm /\ sock' = sock /\ destroying' = destroying /\ over' = over
        /\ UNCHANGED <<probe, recv>>
        /\ \A s \in Thread : pc'[s] # pc[s] => pc'[s] \notin {"drop", "joinProbe",
                                                     "joinReceiver", "close"}
        /\ queue[n] \in Seq(Item) /\ queue[n] # <<>>
        /\ queue' = [queue EXCEPT ![n] = Tail(@)]
        /\ meta' = [meta EXCEPT ![n] = Head(queue[n]).id]
      BY <1>16 DEF QueueGet, Goto, flags, Calm, Types
  <2>2. /\ 1 \in 1 .. Len(queue[n]) /\ Head(queue[n]) = queue[n][1]
        /\ Len(Tail(queue[n])) = Len(queue[n]) - 1 /\ Len(queue[n]) \in Nat
        /\ \A k \in 1 .. Len(queue[n]) - 1 : Tail(queue[n])[k] = queue[n][k + 1]
      BY <2>1, HeadTailProperties, EmptySeq, LenProperties
  <2>3. ASSUME NEW m \in Context, NEW k \in 1 .. Len(queue[m]) PROVE StaleNext(queue[m][k].id)
    <3>1. queue[m][k].id \in 0 .. MaxSockets /\ Stale(queue[m][k].id)
        BY Items, ElementOfSeq DEF NewsInv, QueueNews, Types
    <3> QED
        BY <2>1, <3>1, StaleStays
  <2>4. QueueNews'
    <3> SUFFICES ASSUME NEW m \in Context, NEW k \in 1 .. Len(queue'[m])
                 PROVE  StaleNext(queue'[m][k].id)
        BY DEF QueueNews, Stale, StaleNext
    <3>1. CASE m = n
        BY <2>1, <2>2, <2>3, <3>1 DEF Types
    <3>2. CASE m # n
        BY <2>1, <2>3, <3>2 DEF Types
    <3> QED
        BY <3>1, <3>2
  <2>5. \A m \in Context : StaleNext(meta'[m])
    <3>1. meta'[n] = queue[n][1].id /\ \A m \in Context : m # n => meta'[m] = meta[m]
        BY <2>1, <2>2 DEF Types
    <3>2. \A m \in Context : StaleNext(meta[m])
      <4>1. \A m \in Context : meta[m] \in 0 .. MaxSockets /\ Stale(meta[m])
          BY DEF Types, NewsInv, MetaNews
      <4> QED
          BY <2>1, <4>1, StaleStays
    <3> QED
        BY <2>2, <2>3, <3>1, <3>2
  <2> QED
      BY <2>1, <2>4, <2>5, RestStays, DropStays
         DEF NewsInv, MetaNews, ClientNews, Stale, StaleNext
<1>17. ASSUME NEW n \in Context, MetaLock(n) PROVE NewsInv'
  <2>1. /\ Calm /\ sock' = sock /\ destroying' = destroying /\ over' = over
        /\ UNCHANGED <<queue, meta, probe, recv, net>>
        /\ \A s \in Thread : s # n => pc'[s] = pc[s]
      BY <1>17 DEF MetaLock, Goto, Calm
  <2>2. pc'[n] = "joinProbe" => sock # 0 /\ socket_id = meta[n]
      BY <1>17 DEF MetaLock, Goto
  <2>3. pc'[n] = "joinProbe" => net'[sock'] # "up"
    <3>1. Stale(meta[n])
        BY DEF NewsInv, MetaNews
    <3> QED
        BY <2>1, <2>2, <3>1 DEF Stale, LockInv
  <2> QED
      BY <2>1, <2>3, RestStays, DropStays DEF NewsInv, MetaNews, ClientNews, Stale
<1>18. ASSUME NEW n \in Context, MetaClose(n) PROVE NewsInv'
  <2>1. /\ Calm /\ destroying' = destroying /\ over' = over
        /\ UNCHANGED <<queue, meta, probe, recv>>
        /\ pc' = [pc EXCEPT ![n] = "sleep"] /\ mutex = n
      BY <1>18 DEF MetaClose, At, Goto, Calm, Types, flags, LockInv, Locked
  <2>2. \A s \in Thread : pc'[s] \notin {"drop", "joinProbe", "joinReceiver", "close"}
      BY <2>1 DEF LockInv, Locked
  <2> QED
      BY <2>1, <2>2, RestStays DEF NewsInv, MetaNews, ClientNews, Stale
<1>19. ASSUME NEW n \in Context, Wake(n) PROVE NewsInv'
    BY <1>2, <1>19 DEF Wake, Goto, Calm
<1>20. ASSUME NEW n \in Context, Retry(n) PROVE NewsInv'
    BY <1>2, <1>20 DEF Retry, Goto, Calm
<1>21. ASSUME NEW g \in Socket, PeerCloses(g) PROVE NewsInv'
    BY <1>2, <1>21 DEF PeerCloses, shared, locals, flags, Calm, Types
\* A report, in a thread that has found its connection broken
<1>22. ASSUME NEW id \in 0 .. MaxSockets, Stale(id), Report(id), over = "running"
       PROVE  /\ Calm /\ QueueNews'
              /\ UNCHANGED <<sock, socket_id, net, pc, meta, destroying>>
  <2>1. Calm /\ UNCHANGED <<sock, socket_id, net, pc, meta, destroying>>
        /\ (queue' = queue \/ Put(callback, Lost(id)))
      BY <1>22 DEF Report, Calm
  <2>2. Lost(id) \in Item /\ Lost(id).id = id /\ StaleNext(id)
      BY <1>22, <2>1, Items, StaleStays DEF Lost
  <2> QED
      BY <2>1, <2>2, PutStays
<1>23. ASSUME NEW g \in Socket, ProbeStep(g) PROVE NewsInv'
  <2>1. CASE ProbeReport(g)
    <3>1. probe[g] = "report" /\ over = "running" /\ probe' = [probe EXCEPT ![g] = "done"]
          /\ recv' = recv /\ Report(socket_id)
        BY <2>1 DEF ProbeReport, ProbeAt, ProbeGoto, Running
    <3>2. Stale(socket_id)
        BY <3>1 DEF NewsInv, ProbeNews, LockInv, Stale
    <3>3. /\ Calm /\ QueueNews' /\ UNCHANGED <<sock, socket_id, net, pc, meta, destroying>>
        BY <1>22, <3>1, <3>2
    <3>4. ProbeNews'
        BY <3>1, <3>3 DEF NewsInv, ProbeNews, LockInv
    <3> QED
        BY <3>1, <3>3, <3>4, RestStays DEF NewsInv, MetaNews, ClientNews, Stale
  <2>2. CASE ProbeEnds(g) \/ ProbeFails(g) \/ ProbeAllow(g)
    <3>1. /\ Calm /\ over = "running"
          /\ UNCHANGED <<queue, recv, sock, socket_id, net, pc, meta, destroying>>
          /\ \A h \in Socket : probe'[h] # probe[h] =>
                \/ probe'[h] = "done"
                \/ h = g /\ probe'[g] = "allow" /\ net[sock] = "down" /\ probe[g] = "wait"
                \/ h = g /\ probe'[g] = "report" /\ probe[g] = "allow"
        BY <2>2 DEF ProbeEnds, ProbeFails, ProbeAllow, ProbeAt, ProbeGoto, Running, SendKilled,
                    SendFails, Allow, shared, locals, flags, Calm, LockInv
    <3>2. ProbeNews'
      <4>1. probe[g] \notin {"none", "done"} => sock = g
          BY DEF LockInv
      <4> QED
          BY <3>1, <4>1 DEF NewsInv, ProbeNews
    <3> QED
        BY <3>1, <3>2, RestStays DEF NewsInv, MetaNews, ClientNews, Stale
  <2> QED
      BY <1>23, <2>1, <2>2 DEF ProbeStep
<1>24. ASSUME NEW g \in Socket, RecvStep(g) \/ RecvData(g) PROVE NewsInv'
  <2>0. /\ over = "running" /\ probe' = probe /\ recv \in [Socket -> [
                  at : {"none", "start", "loop", "receive", "allow", "report", "done"},
                  id : 0 .. MaxSockets, sock : 0 .. MaxSockets]]
      BY <1>24 DEF RecvStep, RecvData, RecvStart, RecvLoop, RecvEnds, RecvAllow, RecvReport,
                   RecvAt, RecvGoto, Running, Types
  <2>1. CASE RecvReport(g)
    <3>1. recv[g].at = "report" /\ recv' = [recv EXCEPT ![g].at = "done"]
          /\ Report(recv[g].id) /\ recv[g].id \in 0 .. MaxSockets
        BY <2>0, <2>1 DEF RecvReport, RecvAt, RecvGoto
    <3>2. /\ Calm /\ QueueNews' /\ UNCHANGED <<sock, socket_id, net, pc, meta, destroying>>
        BY <1>22, <2>0, <3>1 DEF NewsInv, RecvNews
    <3>3. \A h \in Socket : recv'[h] = recv[h] \/ recv'[h].at = "done"
        BY <2>0, <3>1
    <3>4. RecvNews'
        BY <2>0, <3>2, <3>3 DEF NewsInv, RecvNews, Stale
    <3> QED
        BY <2>0, <3>2, <3>4, RestStays DEF NewsInv, MetaNews, ClientNews, Stale
  <2>2. CASE ~RecvReport(g)
    <3>1. Calm /\ UNCHANGED <<queue, sock, socket_id, net, pc, meta, destroying>>
        BY <1>24, <2>2 DEF RecvStep, RecvData, RecvStart, RecvLoop, RecvEnds, RecvAllow,
                           Allow, Others, shared, Calm
    <3>2. \A h \in Socket : h # g => recv'[h] = recv[h]
        BY <1>24, <2>2, <2>0 DEF RecvStep, RecvData, RecvStart, RecvLoop, RecvEnds, RecvAllow,
                           RecvGoto
    <3>3. /\ recv'[g].at \in {"loop", "receive"} => recv'[g].id <= socket_id
          /\ recv'[g].at = "receive" =>
                over' = "crashed" \/ recv'[g].sock \in recv'[g].id .. socket_id
          /\ recv'[g].at \in {"allow", "report"} => Stale(recv'[g].id)
      <4>1. CASE RecvStart(g)
          BY <2>0, <4>1 DEF RecvStart
      <4>2. CASE RecvLoop(g)
        <5>1. /\ recv[g].at = "loop" /\ recv[g].id <= socket_id /\ recv'[g].id = recv[g].id
              /\ recv'[g].at \in {"receive", "done"} /\ recv'[g].sock = sock
              /\ recv'[g].at = "receive" /\ sock = 0 => over' = "crashed"
            BY <2>0, <4>2 DEF RecvLoop, RecvAt, NewsInv, RecvNews
        <5> QED
            BY <2>0, <5>1 DEF LockInv
      <4>3. CASE RecvData(g)
        <5>1. /\ recv[g].at = "receive" /\ recv[g].sock \in recv[g].id .. socket_id
              /\ recv'[g].id = recv[g].id /\ recv'[g].at \in {"loop", "done"}
            BY <2>0, <4>3 DEF RecvData, RecvAt, RecvGoto, NewsInv, RecvNews
        <5>2. recv[g].id \in 0 .. MaxSockets /\ recv[g].sock \in 0 .. MaxSockets
            BY <2>0
        <5> QED
            BY <5>1, <5>2
      <4>4. CASE RecvEnds(g)
        <5>1. /\ recv[g].at = "receive" /\ recv[g].sock \in recv[g].id .. socket_id
              /\ recv'[g].id = recv[g].id /\ recv'[g].at \in {"allow", "done"}
              /\ net[recv[g].sock] # "up"
            BY <2>0, <4>4 DEF RecvEnds, RecvAt, RecvGoto, NewsInv, RecvNews
        <5>2. recv[g].id \in 0 .. MaxSockets /\ recv[g].sock \in 0 .. MaxSockets
            BY <2>0
        <5> QED
            BY <5>1, <5>2 DEF Stale
      <4>5. CASE RecvAllow(g)
        <5>1. /\ recv[g].at = "allow" /\ recv'[g].id = recv[g].id /\ recv'[g].at = "report"
            BY <2>0, <4>5 DEF RecvAllow, RecvAt, RecvGoto
        <5> QED
            BY <5>1 DEF NewsInv, RecvNews
      <4> QED
          BY <1>24, <2>2, <4>1, <4>2, <4>3, <4>4, <4>5 DEF RecvStep
    <3>4. RecvNews'
        BY <2>0, <3>1, <3>2, <3>3 DEF NewsInv, RecvNews, Stale
    <3> QED
        BY <2>0, <3>1, <3>4, RestStays DEF NewsInv, MetaNews, ClientNews, Stale
  <2> QED
      BY <2>1, <2>2
<1> QED
    BY <1>3, <1>4, <1>5, <1>6, <1>7, <1>8, <1>9, <1>10, <1>11, <1>12, <1>13, <1>14, <1>15,
       <1>16, <1>17, <1>18, <1>19, <1>20, <1>21, <1>23, <1>24
       DEF Next, ClientStep, CallbackStep, ConnectUnlocked

-------------------------------------------------------------------------------
(***************************************************************************)
(* The theorems                                                            *)
(***************************************************************************)

LEMMA InvCorrect == Spec => []ConnInv
<1>1. Init => ConnInv
    BY FlagsInit, TypesInit, LockInit, NewsInit DEF ConnInv
<1>2. ConnInv /\ [Next]_vars => ConnInv'
  <2> SUFFICES ASSUME ConnInv, [Next]_vars PROVE ConnInv'
      OBVIOUS
  <2>1. FlagsOK' /\ Types' /\ LockInv'
      BY FlagsStep, TypesStep, LockStep DEF ConnInv
  <2>2. NewsInv'
      BY <2>1, NewsStep DEF ConnInv
  <2> QED
      BY <2>1, <2>2 DEF ConnInv
<1> QED
    BY <1>1, <1>2, PTL DEF Spec

\* The state of the connection has its types: among them, that no thread waits at a place
\* that ip_connection.c does not have, and that what is queued are its events.
THEOREM TypeCorrect == Spec => []TypeOK
<1>1. ConnInv => TypeOK
    BY DEF ConnInv, TypeOK, Types, LockInv
<1> QED
    BY <1>1, InvCorrect, PTL

\* A probe thread that has not ended works on the socket that is there
\* (ipcon_disconnect_probe_loop), since whoever takes the socket away joins it first, under
\* socket_mutex.
THEOREM SocketOfProbe == Spec => []ProbeHasSocket
<1>1. ConnInv => ProbeHasSocket
    BY DEF ConnInv, ProbeHasSocket, LockInv
<1> QED
    BY <1>1, InvCorrect, PTL

\* A connection whose peer is there is closed only by ipcon_destroy: late news of an
\* earlier connection never costs the one that replaced it (ipcon_dispatch_meta).
THEOREM HealthyStays == Spec => HealthyKept
<1>1. ASSUME ConnInv, [Next]_vars, NEW g \in Socket, net[g] = "up",
             net'[g] \in {"shut", "closed"}
      PROVE  destroying
  <2>1. net \in [Socket -> {"none", "up", "down", "shut", "closed"}]
      BY <1>1 DEF ConnInv, Types
  <2>2. CASE JoinProbe \/ Close
    <3>1. g = sock /\ pc[Client] \in {"joinProbe", "close"}
        BY <1>1, <2>1, <2>2 DEF JoinProbe, Close, At, Goto
    <3> QED
        BY <1>1, <3>1 DEF ConnInv, NewsInv, ClientNews
  <2>3. ASSUME NEW n \in Context, MetaClose(n) PROVE FALSE
    <3>1. g = sock /\ pc[n] = "joinProbe"
        BY <1>1, <2>1, <2>3 DEF MetaClose, At
    <3> QED
        BY <1>1, <3>1 DEF ConnInv, NewsInv, MetaNews
  <2>4. ASSUME NEW t \in Thread, ConnectUnlocked(t) PROVE FALSE
      BY <1>1, <2>1, <2>4 DEF ConnectUnlocked, Open, Refused, CreateReceiver, Announce
  <2>5. ASSUME NEW n \in Context, CallbackStep(n), ~MetaClose(n) PROVE FALSE
      BY <1>1, <2>1, <2>4, <2>5 DEF CallbackStep, QueueGet, MetaLock, Wake, Retry, Thread
  <2>6. ASSUME ClientStep \/ Request \/ Disconnect, ~JoinProbe, ~Close PROVE FALSE
      BY <1>1, <2>1, <2>4, <2>6 DEF ClientStep, Request, SendKilled, Disconnect, Connect,
         SetProbeEvent, JoinReceiver, Detach, ExitCallbackThread, Destroy, Thread
  <2>7. ASSUME NEW h \in Socket,
               ProbeStep(h) \/ RecvStep(h) \/ RecvData(h) \/ PeerCloses(h)
        PROVE  FALSE
      BY <1>1, <2>1, <2>7 DEF ProbeStep, ProbeEnds, ProbeFails, ProbeAllow, ProbeReport,
         SendKilled, RecvStep, RecvStart, RecvLoop, RecvEnds, RecvAllow, RecvReport, RecvData,
         PeerCloses, Others, Allow, Report
  <2>8. CASE UNCHANGED vars
      BY <1>1, <2>8 DEF vars
  <2> QED
      BY <1>1, <2>2, <2>3, <2>5, <2>6, <2>7, <2>8 DEF Next
<1>2. ConnInv /\ [Next]_vars =>
        [\A g \in Socket :
           net[g] = "up" /\ net'[g] \in {"shut", "closed"} => destroying]_vars
    BY <1>1
<1> QED
    BY <1>2, InvCorrect, PTL DEF HealthyKept, Spec
===============================================================================
