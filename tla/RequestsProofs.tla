---------------------------- MODULE RequestsProofs ----------------------------
(***************************************************************************)
(* What ip_connection.c guarantees of requests, responses and device       *)
(* objects, for any drivers, any numbers of calls and callbacks and any    *)
(* range of sequence numbers from three on.                                *)
(***************************************************************************)
EXTENDS Requests, Integers, TLAPS

(***************************************************************************)
(* Types.  Ranges of counters come later, where it is known what they      *)
(* count.                                                                  *)
(***************************************************************************)

ThreadState == [at : Place, dev : 0 .. 2, fn : Function, seq : 0 .. Cycle, tag : Nat,
                expected : BOOLEAN, ret : Result, got : Packet]

ObjectTypes ==
    /\ call \in [identity : {"always_true", "invalid"}, payload : Nat, checked : BOOLEAN]
    /\ genuine \in BOOLEAN
    /\ owned \subseteq Device /\ table \in 0 .. 2
    /\ ref_count \in [Device -> Int]
    /\ freed \subseteq Device /\ replaced \subseteq Device

DeviceTypes ==
    /\ check \in [Device -> {"pending", "match", "mismatch"}]
    /\ flag \in [Device -> Flag]
    /\ exp \in [Device -> Function \X (0 .. Cycle)]
    /\ event \in [Device -> BOOLEAN] /\ packet \in [Device -> Packet]
    /\ busy \in [Device -> Holder] /\ checking \in [Device -> Holder]

ThreadTypes ==
    /\ next \in 0 .. Cycle - 1
    /\ thread \in [Thread -> ThreadState]
    /\ tags \in Nat /\ calls \in 0 .. MaxCalls /\ late \in BOOLEAN

ReceiveTypes ==
    /\ recv \in [at : {"idle", "match", "callback", "copy", "set", "release"},
                 dev : 0 .. 2, packet : Packet]
    /\ queue \in Nat /\ callbacks \in 0 .. MaxCallbacks
    /\ net \subseteq [fn : Function \ {"none"}, seq : 1 .. Cycle, tag : Nat]

Types == ObjectTypes /\ DeviceTypes /\ ThreadTypes /\ ReceiveTypes

\* A thread that is not idle has a device, and more that follows from where it is
Placed(t) ==
    /\ At(t, "idle") => thread[t] = Idle
    /\ ~At(t, "idle") /\ ~At(t, "adding") => Dev(t) \in Device
    /\ t = "callback" => ~At(t, "adding") /\ thread[t].fn # "function"
    /\ InFlight(t) \/ At(t, "header") => thread[t].fn # "none"
    /\ At(t, "judge") => thread[t].fn = "identity"
    /\ InFlight(t) => thread[t].seq > 0
    /\ InFlight(t) /\ ~At(t, "send") => thread[t].expected

ReceivePlaced ==
    /\ recv.at = "idle" <=> recv.dev = 0
    /\ IF recv.at \in {"match", "copy", "set"}
       THEN recv.packet.seq > 0 /\ recv.packet.fn # "none"
       ELSE recv.packet = NoPacket

Places == (\A t \in Thread : Placed(t)) /\ ReceivePlaced

\* The next number, without the remainder
LEMMA NextIs ==
    ASSUME Types PROVE /\ NextNumber = IF next + 1 = Cycle THEN 0 ELSE next + 1
                       /\ NextNumber \in 0 .. Cycle - 1 /\ next + 1 \in 1 .. Cycle
<1>1. next \in 0 .. Cycle - 1 /\ Cycle \in Nat /\ Cycle >= 3
    BY RequestsAssumption DEF Types, ThreadTypes
<1>2. CASE next + 1 = Cycle
  <2>1. Cycle % Cycle = 0
      BY <1>1
  <2> QED
      BY <1>1, <1>2, <2>1 DEF NextNumber
<1>3. CASE next + 1 < Cycle
  <2>1. (next + 1) % Cycle = next + 1
      BY <1>1, <1>3
  <2> QED
      BY <1>1, <1>3, <2>1 DEF NextNumber
<1> QED
    BY <1>1, <1>2, <1>3

LEMMA IdleIs ==
    /\ NoPacket \in Packet /\ Idle \in ThreadState
    /\ Idle.at = "idle" /\ Idle.fn = "none" /\ Idle.ret = "OK" /\ Idle.dev = 0
    /\ Idle.seq = 0 /\ ~Idle.expected
    BY RequestsAssumption DEF NoPacket, Packet, Function, Idle, ThreadState, Place, Result

LEMMA TypesInit == Init => Types /\ Places
<1> SUFFICES ASSUME Init PROVE Types /\ Places
    OBVIOUS
<1>1. PICK c \in Calls :
         /\ call = [identity |-> c.identity, payload |-> c.payload, checked |-> c.checked]
         /\ flag = [d \in Device |-> c.flag]
    BY DEF Init
<1>2. c \in [flag : Flag, identity : {"always_true", "invalid"}, payload : Nat,
             checked : BOOLEAN]
    BY RequestsAssumption
<1>3. NoPacket \in Packet /\ Idle \in ThreadState
    BY IdleIs
<1>4. ObjectTypes
    BY <1>1, <1>2 DEF Init, ObjectTypes, Device
<1>5. DeviceTypes
  <2>1. <<"none", 0>> \in Function \X (0 .. Cycle)
      BY RequestsAssumption DEF Function
  <2>2. exp \in [Device -> Function \X (0 .. Cycle)]
      BY <2>1 DEF Init
  <2>3. flag \in [Device -> Flag] /\ packet \in [Device -> Packet]
      BY <1>1, <1>2, <1>3 DEF Init
  <2>4. event \in [Device -> BOOLEAN]
      BY DEF Init
  <2>5. /\ check \in [Device -> {"pending", "match", "mismatch"}]
        /\ busy \in [Device -> Holder] /\ checking \in [Device -> Holder]
      BY DEF Init, Holder
  <2> QED
      BY <2>2, <2>3, <2>4, <2>5 DEF DeviceTypes
<1>6. ThreadTypes
  <2>1. late \in BOOLEAN
    BY DEF Init
  <2>2. thread \in [Thread -> ThreadState]
    BY <1>3 DEF Init
  <2>3. 0 \in 0 .. Cycle - 1 /\ 0 \in 0 .. MaxCalls
    BY RequestsAssumption
  <2> QED
    BY <2>1, <2>2, <2>3 DEF Init, ThreadTypes
<1>8. ReceiveTypes
  <2>1. recv \in [at : {"idle", "match", "callback", "copy", "set", "release"},
                  dev : 0 .. 2, packet : Packet]
    BY <1>3 DEF Init
  <2> QED
    BY <2>1, RequestsAssumption DEF Init, ReceiveTypes
<1>7. Places
    BY DEF Init, Places, Placed, ReceivePlaced, At, Thread, Idle, InFlight, NoPacket
<1> QED
    BY <1>4, <1>5, <1>6, <1>7, <1>8 DEF Types

(***************************************************************************)
(* What the steps do to a thread, field by field                           *)
(***************************************************************************)

Others(t) == \A u \in Thread : u # t => thread'[u] = thread[u]
SameRequest(t) ==
    /\ thread'[t].seq = thread[t].seq /\ thread'[t].tag = thread[t].tag
    /\ thread'[t].expected = thread[t].expected
SameFunction(t) ==
    /\ thread'[t].dev = thread[t].dev /\ thread'[t].fn = thread[t].fn
Moves(t, place, ret) ==
    /\ Others(t) /\ SameRequest(t) /\ SameFunction(t)
    /\ thread'[t].at = place /\ thread'[t].ret = ret

LEMMA GotoIs ==
    ASSUME Types, NEW t \in Thread, NEW place \in Place, Goto(t, place)
    PROVE  /\ thread' \in [Thread -> ThreadState]
           /\ Moves(t, place, thread[t].ret) /\ thread'[t].got = thread[t].got
<1>1. thread \in [Thread -> ThreadState] /\ thread' = [thread EXCEPT ![t].at = place]
    BY DEF Types, ThreadTypes, Goto
<1>2. thread' \in [Thread -> ThreadState]
    BY <1>1 DEF ThreadState
<1>3. thread'[t] = [thread[t] EXCEPT !.at = place] /\ Others(t)
    BY <1>1 DEF Others
<1> QED
    BY <1>1, <1>2, <1>3 DEF Moves, SameRequest, SameFunction, ThreadState

LEMMA ReturnIs ==
    ASSUME Types, NEW t \in Thread, NEW place \in Place, NEW ret \in Result,
           Return(t, place, ret)
    PROVE  /\ thread' \in [Thread -> ThreadState]
           /\ Moves(t, place, ret) /\ thread'[t].got = thread[t].got
<1>1. /\ thread \in [Thread -> ThreadState]
      /\ thread' = [thread EXCEPT ![t].at = place, ![t].ret = ret]
    BY DEF Types, ThreadTypes, Return
<1>2. thread' = [thread EXCEPT ![t] = [thread[t] EXCEPT !.at = place, !.ret = ret]]
    BY <1>1
<1>3. [thread[t] EXCEPT !.at = place, !.ret = ret] \in ThreadState
    BY <1>1 DEF ThreadState
<1>4. thread' \in [Thread -> ThreadState]
    BY <1>1, <1>2, <1>3
<1>5. thread'[t] = [thread[t] EXCEPT !.at = place, !.ret = ret] /\ Others(t)
    BY <1>1, <1>2 DEF Others
<1> QED
    BY <1>1, <1>4, <1>5 DEF Moves, SameRequest, SameFunction, ThreadState

\* LockIdentity and Verdict
LEMMA StartIs ==
    ASSUME Types, NEW t \in Thread, NEW fn \in Function,
           thread' = [thread EXCEPT ![t].at = "header", ![t].fn = fn]
    PROVE  /\ thread' \in [Thread -> ThreadState]
           /\ Others(t) /\ SameRequest(t)
           /\ thread'[t].at = "header" /\ thread'[t].dev = thread[t].dev
           /\ thread'[t].fn = fn /\ thread'[t].ret = thread[t].ret
           /\ thread'[t].got = thread[t].got
<1>1. thread \in [Thread -> ThreadState]
    BY DEF Types, ThreadTypes
<1>2. thread' = [thread EXCEPT ![t] = [thread[t] EXCEPT !.at = "header", !.fn = fn]]
    BY <1>1
<1>3. [thread[t] EXCEPT !.at = "header", !.fn = fn] \in ThreadState
    BY <1>1 DEF ThreadState, Place
<1>4. thread' \in [Thread -> ThreadState]
    BY <1>1, <1>2, <1>3
<1>5. thread'[t] = [thread[t] EXCEPT !.at = "header", !.fn = fn] /\ Others(t)
    BY <1>1, <1>2 DEF Others
<1> QED
    BY <1>1, <1>4, <1>5 DEF SameRequest, ThreadState

LEMMA HeaderIs ==
    ASSUME Types, NEW t \in Thread, Header(t)
    PROVE  LET seq == next + 1
               expects == IF thread[t].fn = "identity" THEN call.identity ELSE flag[Dev(t)]
           IN  /\ thread' \in [Thread -> ThreadState]
               /\ Others(t) /\ SameFunction(t) /\ thread'[t].got = thread[t].got
               /\ thread'[t].seq = seq /\ thread'[t].tag = tags + 1
               /\ thread'[t].expected = (expects \in {"always_true", "true"})
               /\ thread'[t].ret = IF expects = "invalid" THEN "INVALID_PARAMETER" ELSE "OK"
               /\ thread'[t].at = IF expects = "invalid" THEN After(t)
                                  ELSE IF expects = "false" THEN "send" ELSE "expect"
<1> DEFINE seq == next + 1
           expects == IF thread[t].fn = "identity" THEN call.identity ELSE flag[Dev(t)]
           ret == IF expects = "invalid" THEN "INVALID_PARAMETER" ELSE "OK"
           at == IF expects = "invalid" THEN After(t)
                 ELSE IF expects = "false" THEN "send" ELSE "expect"
           e == expects \in {"always_true", "true"}
           r == [thread[t] EXCEPT !.seq = seq, !.tag = tags + 1, !.expected = e,
                                  !.ret = ret, !.at = at]
<1>1. thread \in [Thread -> ThreadState]
    BY DEF Types, ThreadTypes
<1>2. thread' = [thread EXCEPT ![t].seq = seq, ![t].tag = tags + 1, ![t].expected = e,
                               ![t].ret = ret, ![t].at = at]
    BY DEF Header
<1>3. seq \in 0 .. Cycle /\ tags + 1 \in Nat /\ ret \in Result /\ at \in Place
  <2>1. next \in 0 .. Cycle - 1 /\ tags \in Nat
      BY DEF Types, ThreadTypes
  <2>2. Cycle \in Nat
      BY RequestsAssumption
  <2> QED
      BY <2>1, <2>2 DEF Result, Place, After
<1>4. e \in BOOLEAN
    OBVIOUS
<1> HIDE DEF seq, ret, at, e
<1>5. thread' = [thread EXCEPT ![t] = r]
    BY <1>1, <1>2
<1>6. r \in ThreadState
    BY <1>1, <1>3, <1>4 DEF ThreadState
<1>7. thread' \in [Thread -> ThreadState] /\ thread'[t] = r /\ Others(t)
    BY <1>1, <1>5, <1>6 DEF Others
<1>8. /\ r.seq = seq /\ r.tag = tags + 1 /\ r.expected = e /\ r.ret = ret /\ r.at = at
      /\ r.dev = thread[t].dev /\ r.fn = thread[t].fn /\ r.got = thread[t].got
    BY <1>1 DEF ThreadState
<1> HIDE DEF r
<1>9. /\ Others(t) /\ SameFunction(t) /\ thread'[t].got = thread[t].got
      /\ thread'[t].seq = seq /\ thread'[t].tag = tags + 1 /\ thread'[t].expected = e
      /\ thread'[t].ret = ret /\ thread'[t].at = at
    BY <1>7, <1>8 DEF SameFunction
<1> QED
    BY <1>7, <1>9 DEF seq, ret, at, e

LEMMA ReadIs ==
    ASSUME Types, Places, NEW t \in Thread, Read(t)
    PROVE  LET p == packet[Dev(t)]
               ret == Outcome(t, p)
           IN  /\ thread' \in [Thread -> ThreadState]
               /\ Moves(t, After(t), ret)
               /\ thread'[t].got = IF ret = "OK" /\ Room(p.fn) > 0 THEN p ELSE thread[t].got
<1> DEFINE p == packet[Dev(t)]
           ret == Outcome(t, p)
           got == IF ret = "OK" /\ Room(p.fn) > 0 THEN p ELSE thread[t].got
           r == [thread[t] EXCEPT !.at = After(t), !.ret = ret, !.got = got]
<1>1. thread \in [Thread -> ThreadState]
    BY DEF Types, ThreadTypes
<1>2. thread' = [thread EXCEPT ![t].at = After(t), ![t].ret = ret,
                     ![t].got = IF ret = "OK" /\ Room(p.fn) > 0 THEN p ELSE @]
    BY DEF Read
<1>3. After(t) \in Place /\ ret \in Result
    BY DEF After, Place, Outcome, Result
<1>4. p \in Packet
    BY DEF Types, DeviceTypes, Places, Placed, Read, At
<1>5. thread' = [thread EXCEPT ![t] = r]
  <2> HIDE DEF p, ret
  <2> QED
      BY <1>1, <1>2
<1>6. r \in ThreadState
  <2> HIDE DEF p, ret
  <2> QED
      BY <1>1, <1>3, <1>4 DEF ThreadState
<1>7. thread' \in [Thread -> ThreadState] /\ thread'[t] = r /\ Others(t)
  <2> HIDE DEF r
  <2> QED
      BY <1>1, <1>5, <1>6 DEF Others
<1>8. /\ r.at = After(t) /\ r.ret = ret /\ r.got = got
      /\ r.dev = thread[t].dev /\ r.fn = thread[t].fn
      /\ r.seq = thread[t].seq /\ r.tag = thread[t].tag /\ r.expected = thread[t].expected
  <2> HIDE DEF p, ret, got
  <2> QED
      BY <1>1 DEF ThreadState
<1> HIDE DEF r, ret, got
<1>9. Moves(t, After(t), ret) /\ thread'[t].got = got
    BY <1>7, <1>8 DEF Moves, SameFunction, SameRequest
<1> QED
    BY <1>7, <1>9 DEF ret, got

LEMMA CallIs ==
    ASSUME Types, Call
    PROVE  \E d \in owned :
              /\ thread' \in [Thread -> ThreadState]
              /\ Others("app") /\ SameRequest("app")
              /\ thread'["app"].dev = d /\ thread'["app"].fn = "function"
              /\ thread'["app"].at = IF call.checked THEN "check" ELSE "header"
              /\ thread'["app"].ret = thread["app"].ret
              /\ thread'["app"].got = thread["app"].got
<1>1. PICK d \in owned :
          thread' = [thread EXCEPT !["app"].dev = d, !["app"].fn = "function",
                         !["app"].at = IF call.checked THEN "check" ELSE "header"]
    BY Zenon DEF Call
<1> DEFINE at == IF call.checked THEN "check" ELSE "header"
           r == [thread["app"] EXCEPT !.dev = d, !.fn = "function", !.at = at]
<1>2. thread \in [Thread -> ThreadState] /\ "app" \in Thread
    BY DEF Types, ThreadTypes, Thread
<1>3. at \in Place /\ d \in 0 .. 2 /\ "function" \in Function
    BY DEF Types, ObjectTypes, Place, Function, Device
<1>4. thread' = [thread EXCEPT !["app"] = r]
  <2>1. thread' = [thread EXCEPT !["app"].dev = d, !["app"].fn = "function",
                                 !["app"].at = at]
      BY <1>1
  <2> HIDE DEF at
  <2> QED
      BY <1>2, <2>1
<1> HIDE DEF at
<1>5. r \in ThreadState
    BY <1>2, <1>3 DEF ThreadState
<1>6. thread' \in [Thread -> ThreadState] /\ thread'["app"] = r /\ Others("app")
  <2> HIDE DEF r
  <2> QED
      BY <1>2, <1>4, <1>5 DEF Others
<1>7. /\ r.dev = d /\ r.fn = "function" /\ r.at = at /\ r.ret = thread["app"].ret
      /\ r.seq = thread["app"].seq /\ r.tag = thread["app"].tag
      /\ r.expected = thread["app"].expected /\ r.got = thread["app"].got
    BY <1>2 DEF ThreadState
<1> HIDE DEF r
<1> QED
    BY <1>6, <1>7 DEF SameRequest, at

\* AddDevice
LEMMA AddIs ==
    ASSUME Types, AddDevice
    PROVE  /\ thread' \in [Thread -> ThreadState]
           /\ Others("app") /\ SameRequest("app")
           /\ thread'["app"].at = "adding" /\ thread'["app"].dev = table
           /\ thread'["app"].fn = thread["app"].fn /\ thread'["app"].ret = thread["app"].ret
           /\ thread'["app"].got = thread["app"].got
<1> DEFINE r == [thread["app"] EXCEPT !.at = "adding", !.dev = table]
<1>1. thread \in [Thread -> ThreadState] /\ "app" \in Thread /\ table \in 0 .. 2
    BY DEF Types, ThreadTypes, ObjectTypes, Thread
<1>2. thread' = [thread EXCEPT !["app"] = r]
    BY <1>1 DEF AddDevice
<1>3. r \in ThreadState
    BY <1>1 DEF ThreadState, Place
<1>4. thread' \in [Thread -> ThreadState] /\ thread'["app"] = r /\ Others("app")
    BY <1>1, <1>2, <1>3 DEF Others
<1> QED
    BY <1>1, <1>4 DEF ThreadState, SameRequest

LEMMA DispatchIs ==
    ASSUME Types, Dispatch, table # 0
    PROVE  /\ thread' \in [Thread -> ThreadState]
           /\ Others("callback") /\ SameRequest("callback")
           /\ thread'["callback"].at = "check" /\ thread'["callback"].dev = table
           /\ thread'["callback"].fn = "identity"
           /\ thread'["callback"].ret = thread["callback"].ret
           /\ thread'["callback"].got = thread["callback"].got
<1> DEFINE r == [thread["callback"] EXCEPT !.at = "check", !.dev = table, !.fn = "identity"]
<1>1. thread \in [Thread -> ThreadState] /\ "callback" \in Thread /\ table \in 0 .. 2
    BY DEF Types, ThreadTypes, ObjectTypes, Thread
<1>2. thread' = [thread EXCEPT !["callback"] = r]
    BY <1>1 DEF Dispatch
<1>3. r \in ThreadState
    BY <1>1 DEF ThreadState, Place, Function
<1>4. thread' \in [Thread -> ThreadState] /\ thread'["callback"] = r /\ Others("callback")
    BY <1>1, <1>2, <1>3 DEF Others
<1> QED
    BY <1>1, <1>4 DEF ThreadState, SameRequest

\* Threads that do not move stay where they are
LEMMA PlacesFrom ==
    ASSUME Places, NEW t \in Thread, Others(t), Placed(t)', UNCHANGED recv
    PROVE  Places'
<1>1. ASSUME NEW u \in Thread, u # t PROVE Placed(u)'
    BY <1>1 DEF Places, Placed, Others, At, Dev, InFlight
<1> QED
    BY <1>1 DEF Places, ReceivePlaced

\* Types of what a step leaves alone
LEMMA TypesFrom ==
    ASSUME Types
    PROVE  /\ UNCHANGED <<call, genuine, objects>> => ObjectTypes'
           /\ UNCHANGED device => DeviceTypes'
           /\ UNCHANGED <<next, bounds, late>> /\ thread' \in [Thread -> ThreadState]
              => ThreadTypes'
           /\ UNCHANGED <<recv, queue, net, callbacks>> => ReceiveTypes'
<1>1. UNCHANGED <<call, genuine, objects>> => ObjectTypes'
    BY DEF Types, ObjectTypes, objects
<1>2. UNCHANGED device => DeviceTypes'
    BY DEF Types, DeviceTypes, device
<1>3. UNCHANGED <<next, bounds, late>> /\ thread' \in [Thread -> ThreadState] => ThreadTypes'
    BY DEF Types, ThreadTypes, bounds
<1>4. UNCHANGED <<recv, queue, net, callbacks>> => ReceiveTypes'
    BY DEF Types, ReceiveTypes
<1> QED
    BY <1>1, <1>2, <1>3, <1>4

LEMMA TypesCheck ==
    ASSUME Types, Places, NEW t \in Thread
    PROVE  /\ Check(t) => Types' /\ Places'
           /\ LockIdentity(t) => Types' /\ Places'
           /\ Judge(t) => Types' /\ Places'
           /\ Verdict(t) => Types' /\ Places'
<1> USE DEF bounds
<1>1. ASSUME Check(t) PROVE Types' /\ Places'
  <2>1. PICK place \in {"done", "lock", "verdict"}, ret \in Result :
          Moves(t, place, ret) /\ thread' \in [Thread -> ThreadState]
    <3>1. CASE Dev(t) \in replaced
        BY <1>1, <3>1, ReturnIs DEF Check, Place, Result
    <3>2. CASE Dev(t) \notin replaced
        BY <1>1, <3>2, GotoIs DEF Check, Place, Types, ThreadTypes, ThreadState
    <3> QED
        BY <3>1, <3>2
  <2>2. Placed(t)'
      BY <1>1, <2>1 DEF Check, At, Places, Placed, InFlight, Dev, Moves, SameFunction
  <2> QED
      BY <1>1, <2>1, <2>2, TypesFrom, PlacesFrom DEF Check, Types, Moves
<1>2. ASSUME LockIdentity(t) PROVE Types' /\ Places'
  <2>1. /\ Others(t) /\ thread' \in [Thread -> ThreadState]
        /\ thread'[t].at \in {"header", "verdict"} /\ thread'[t].dev = thread[t].dev
        /\ thread'[t].at = "header" => thread'[t].fn = "identity"
        /\ thread'[t].at = "verdict" => thread'[t].fn = thread[t].fn
    <3>1. CASE check[Dev(t)] = "pending"
        BY <1>2, <3>1, StartIs DEF LockIdentity, Function
    <3>2. CASE check[Dev(t)] # "pending"
        BY <1>2, <3>2, GotoIs DEF LockIdentity, Place, Moves, SameFunction
    <3> QED
        BY <3>1, <3>2
  <2>2. Placed(t)'
      BY <1>2, <2>1 DEF LockIdentity, At, Places, Placed, InFlight, Dev
  <2>3. DeviceTypes'
      BY <1>2 DEF LockIdentity, Types, DeviceTypes, Holder
  <2> QED
      BY <1>2, <2>1, <2>2, <2>3, TypesFrom, PlacesFrom DEF LockIdentity, Types
<1>3. ASSUME Judge(t) PROVE Types' /\ Places'
  <2>1. CASE thread[t].ret = "OK"
    <3> DEFINE r == [Idle EXCEPT !.at = "verdict", !.dev = Dev(t)]
    <3>1. thread' = [thread EXCEPT ![t] = r]
        BY <1>3, <2>1 DEF Judge
    <3>2. r \in ThreadState /\ r.at = "verdict" /\ r.dev = Dev(t) /\ r.fn = "none"
      <4>1. Dev(t) \in 0 .. 2
          BY DEF Types, ThreadTypes, ThreadState, Dev
      <4> QED
          BY <4>1, IdleIs DEF ThreadState, Place
    <3> HIDE DEF r
    <3>3. thread' \in [Thread -> ThreadState] /\ Others(t) /\ thread'[t] = r
        BY <3>1, <3>2 DEF Types, ThreadTypes, Others
    <3>4. Placed(t)'
        BY <1>3, <3>2, <3>3 DEF Judge, At, Places, Placed, InFlight, Dev
    <3>5. DeviceTypes'
        BY <1>3, <2>1 DEF Judge, Types, DeviceTypes, Holder
    <3> QED
        BY <1>3, <3>3, <3>4, <3>5, TypesFrom, PlacesFrom DEF Judge, Types
  <2>2. CASE thread[t].ret # "OK"
    <3>1. thread' \in [Thread -> ThreadState] /\ Moves(t, "done", thread[t].ret)
        BY <1>3, <2>2, GotoIs DEF Judge, Place
    <3>2. Placed(t)'
        BY <1>3, <3>1 DEF Judge, At, Places, Placed, InFlight, Dev, Moves, SameFunction
    <3>3. DeviceTypes'
        BY <1>3, <2>2 DEF Judge, Types, DeviceTypes, Holder
    <3> QED
        BY <1>3, <3>1, <3>2, <3>3, TypesFrom, PlacesFrom DEF Judge, Types, Moves
  <2> QED
      BY <2>1, <2>2
<1>4. ASSUME Verdict(t) PROVE Types' /\ Places'
  <2>1. /\ Others(t) /\ thread' \in [Thread -> ThreadState]
        /\ thread'[t].at \in {"header", "done"} /\ thread'[t].dev = thread[t].dev
        /\ thread'[t].at = "header" => thread'[t].fn = "function" /\ t # "callback"
        /\ thread'[t].at = "done" => thread'[t].fn = thread[t].fn
    <3>1. CASE check[Dev(t)] = "mismatch"
        BY <1>4, <3>1, ReturnIs DEF Verdict, Place, Result, Moves, SameFunction
    <3>2. CASE check[Dev(t)] # "mismatch" /\ t = "callback"
        BY <1>4, <3>2, GotoIs DEF Verdict, Place, Moves, SameFunction
    <3>3. CASE check[Dev(t)] # "mismatch" /\ t # "callback"
        BY <1>4, <3>3, StartIs DEF Verdict, Function
    <3> QED
        BY <3>1, <3>2, <3>3
  <2>2. Placed(t)'
      BY <1>4, <2>1 DEF Verdict, At, Places, Placed, InFlight, Dev
  <2> QED
      BY <1>4, <2>1, <2>2, TypesFrom, PlacesFrom DEF Verdict, Types
<1> QED
    BY <1>1, <1>2, <1>3, <1>4

LEMMA TypesRequest ==
    ASSUME Types, Places, NEW t \in Thread
    PROVE  /\ Header(t) => Types' /\ Places'
           /\ Expect(t) => Types' /\ Places'
           /\ Send(t) => Types' /\ Places'
           /\ SendFails(t) => Types' /\ Places'
<1> USE DEF bounds
<1>0. /\ After(t) \in Place /\ After(t) \in {"judge", "done"}
      /\ At(t, "send") \/ InFlight(t) \/ At(t, "header")
         => Dev(t) \in Device /\ (After(t) = "judge" => thread[t].fn = "identity")
    BY DEF After, Place, Places, Placed, At, InFlight
<1>1. ASSUME Header(t) PROVE Types' /\ Places'
  <2>1. /\ Others(t) /\ thread' \in [Thread -> ThreadState] /\ SameFunction(t)
        /\ thread'[t].seq = next + 1
        /\ \/ thread'[t].at = After(t)
           \/ thread'[t].at = "send"
           \/ thread'[t].at = "expect" /\ thread'[t].expected
    <3> DEFINE expects == IF thread[t].fn = "identity" THEN call.identity ELSE flag[Dev(t)]
    <3>1. expects \in Flag
        BY <1>0, <1>1 DEF Header, Types, ObjectTypes, DeviceTypes, Flag
    <3> HIDE DEF expects
    <3>2. /\ Others(t) /\ thread' \in [Thread -> ThreadState] /\ SameFunction(t)
          /\ thread'[t].seq = next + 1
          /\ thread'[t].expected = (expects \in {"always_true", "true"})
          /\ thread'[t].at = IF expects = "invalid" THEN After(t)
                             ELSE IF expects = "false" THEN "send" ELSE "expect"
        BY <1>1, HeaderIs DEF expects
    <3> QED
        BY <3>1, <3>2 DEF Flag
  <2>2. Placed(t)'
      BY <1>0, <1>1, <2>1, NextIs DEF Header, At, Places, Placed, InFlight, Dev, SameFunction
  <2>3. ThreadTypes'
    <3>1. next' \in 0 .. Cycle - 1 /\ tags' \in Nat /\ calls' \in 0 .. MaxCalls
        BY <1>1, NextIs DEF Header, Types, ThreadTypes
    <3>2. late' \in BOOLEAN
        BY <1>1 DEF Header, Types, ThreadTypes
    <3> QED
        BY <2>1, <3>1, <3>2 DEF ThreadTypes
  <2>4. ReceiveTypes'
      BY <1>1 DEF Header, Types, ReceiveTypes
  <2> QED
      BY <1>1, <2>1, <2>2, <2>3, <2>4, TypesFrom, PlacesFrom DEF Header, Types
<1>2. ASSUME Expect(t) PROVE Types' /\ Places'
  <2>1. Moves(t, "send", thread[t].ret) /\ thread' \in [Thread -> ThreadState]
      BY <1>2, GotoIs DEF Expect, Place
  <2>2. Placed(t)'
      BY <1>2, <2>1 DEF Expect, At, Places, Placed, InFlight, Dev, Moves, SameFunction,
         SameRequest
  <2>3. DeviceTypes'
    <3>1. <<Id(thread[t].fn), thread[t].seq>> \in Function \X (0 .. Cycle)
        BY DEF Types, ThreadTypes, ThreadState, Id, Function
    <3>2. exp' \in [Device -> Function \X (0 .. Cycle)]
        BY <1>2, <3>1 DEF Expect, Types, DeviceTypes
    <3>3. event' \in [Device -> BOOLEAN] /\ busy' \in [Device -> Holder]
        BY <1>2 DEF Expect, Types, DeviceTypes, Holder
    <3> QED
        BY <1>2, <3>2, <3>3 DEF Expect, Types, DeviceTypes
  <2> QED
      BY <1>2, <2>1, <2>2, <2>3, TypesFrom, PlacesFrom DEF Expect, Types, Moves
<1>3. ASSUME Send(t) PROVE Types' /\ Places'
  <2>1. CASE thread[t].expected
    <3>1. Moves(t, "wait", thread[t].ret) /\ thread' \in [Thread -> ThreadState]
        BY <1>3, <2>1, GotoIs DEF Send, Place
    <3>2. Placed(t)'
        BY <1>3, <2>1, <3>1 DEF Send, At, Places, Placed, InFlight, Dev, Moves, SameFunction,
           SameRequest
    <3>3. [fn |-> thread[t].fn, seq |-> thread[t].seq, tag |-> thread[t].tag]
             \in [fn : Function \ {"none"}, seq : 1 .. Cycle, tag : Nat]
      <4>1. thread[t].seq \in 0 .. Cycle /\ thread[t].seq > 0 /\ thread[t].fn # "none"
          BY <1>3 DEF Send, Types, ThreadTypes, ThreadState, Places, Placed, InFlight, At
      <4> QED
          BY <4>1, RequestsAssumption DEF Types, ThreadTypes, ThreadState
    <3>4. ReceiveTypes'
        BY <1>3, <2>1, <3>3 DEF Send, Types, ReceiveTypes
    <3> QED
        BY <1>3, <3>1, <3>2, <3>4, TypesFrom, PlacesFrom DEF Send, Types, Moves
  <2>2. CASE ~thread[t].expected
    <3>1. Moves(t, After(t), "OK") /\ thread' \in [Thread -> ThreadState]
        BY <1>0, <1>3, <2>2, ReturnIs DEF Send, Result
    <3>2. Placed(t)'
        BY <1>0, <1>3, <3>1 DEF Send, At, Places, Placed, InFlight, Dev, Moves, SameFunction
    <3> QED
        BY <1>3, <2>2, <3>1, <3>2, TypesFrom, PlacesFrom DEF Send, Types, Moves
  <2> QED
      BY <2>1, <2>2
<1>4. ASSUME SendFails(t) PROVE Types' /\ Places'
  <2>1. Moves(t, After(t), "NOT_CONNECTED") /\ thread' \in [Thread -> ThreadState]
      BY <1>0, <1>4, ReturnIs DEF SendFails, Result
  <2>2. Placed(t)'
      BY <1>0, <1>4, <2>1 DEF SendFails, At, Places, Placed, InFlight, Dev, Moves, SameFunction
  <2>3. DeviceTypes'
      BY <1>4 DEF SendFails, Unlocked, Types, DeviceTypes, Holder
  <2> QED
      BY <1>4, <2>1, <2>2, <2>3, TypesFrom, PlacesFrom DEF SendFails, Types, Moves
<1> QED
    BY <1>1, <1>2, <1>3, <1>4

LEMMA TypesWait ==
    ASSUME Types, Places, NEW t \in Thread
    PROVE  /\ Wake(t) => Types' /\ Places'
           /\ Timeout(t) => Types' /\ Places'
           /\ Clear(t) => Types' /\ Places'
           /\ Reset(t) => Types' /\ Places'
           /\ Read(t) => Types' /\ Places'
<1> USE DEF bounds
<1>0. /\ After(t) \in Place /\ After(t) \in {"judge", "done"}
      /\ InFlight(t)
         => Dev(t) \in Device /\ (After(t) = "judge" => thread[t].fn = "identity")
    BY DEF After, Place, Places, Placed, At, InFlight
<1>1. ASSUME Wake(t) PROVE Types' /\ Places'
  <2>1. Moves(t, "clear", "OK") /\ thread' \in [Thread -> ThreadState]
      BY <1>1, ReturnIs DEF Wake, Place, Result
  <2>2. Placed(t)'
      BY <1>1, <2>1 DEF Wake, At, Places, Placed, InFlight, Dev, Moves, SameFunction,
         SameRequest
  <2> QED
      BY <1>1, <2>1, <2>2, TypesFrom, PlacesFrom DEF Wake, Types, Moves
<1>2. ASSUME Timeout(t) PROVE Types' /\ Places'
  <2>1. Moves(t, "clear", "TIMEOUT") /\ thread' \in [Thread -> ThreadState]
      BY <1>2, ReturnIs DEF Timeout, Place, Result
  <2>2. Placed(t)'
      BY <1>2, <2>1 DEF Timeout, At, Places, Placed, InFlight, Dev, Moves, SameFunction,
         SameRequest
  <2>3. ThreadTypes'
    <3>1. late' \in BOOLEAN
        BY <1>2 DEF Timeout
    <3> QED
        BY <1>2, <2>1, <3>1 DEF Timeout, Types, ThreadTypes
  <2> QED
      BY <1>2, <2>1, <2>2, <2>3, TypesFrom, PlacesFrom DEF Timeout, Types, Moves
<1>3. ASSUME Clear(t) PROVE Types' /\ Places'
  <2>1. Moves(t, "reset", thread[t].ret) /\ thread' \in [Thread -> ThreadState]
      BY <1>3, GotoIs DEF Clear, Place
  <2>2. Placed(t)'
      BY <1>3, <2>1 DEF Clear, At, Places, Placed, InFlight, Dev, Moves, SameFunction,
         SameRequest
  <2>3. DeviceTypes'
    <3>1. <<"none", 0>> \in Function \X (0 .. Cycle)
        BY RequestsAssumption DEF Function
    <3> QED
        BY <1>3, <3>1 DEF Clear, Types, DeviceTypes
  <2> QED
      BY <1>3, <2>1, <2>2, <2>3, TypesFrom, PlacesFrom DEF Clear, Types, Moves
<1>4. ASSUME Reset(t) PROVE Types' /\ Places'
  <2>1. /\ thread' \in [Thread -> ThreadState]
        /\ Moves(t, "read", thread[t].ret) \/ Moves(t, After(t), thread[t].ret)
      BY <1>0, <1>4, GotoIs DEF Reset, Place
  <2>2. Placed(t)'
      BY <1>0, <1>4, <2>1 DEF Reset, At, Places, Placed, InFlight, Dev, Moves, SameFunction,
         SameRequest
  <2>3. DeviceTypes'
      BY <1>4 DEF Reset, Unlocked, Types, DeviceTypes, Holder
  <2> QED
      BY <1>4, <2>1, <2>2, <2>3, TypesFrom, PlacesFrom DEF Reset, Types, Moves
<1>5. ASSUME Read(t) PROVE Types' /\ Places'
  <2>1. PICK ret : Moves(t, After(t), ret) /\ thread' \in [Thread -> ThreadState]
      BY <1>5, ReadIs
  <2>2. Placed(t)'
      BY <1>0, <1>5, <2>1 DEF Read, At, Places, Placed, InFlight, Dev, Moves, SameFunction
  <2>3. DeviceTypes'
      BY <1>5 DEF Read, Unlocked, Types, DeviceTypes, Holder
  <2> QED
      BY <1>5, <2>1, <2>2, <2>3, TypesFrom, PlacesFrom DEF Read, Types, Moves
<1> QED
    BY <1>1, <1>2, <1>3, <1>4, <1>5

LEMMA TypesApp ==
    ASSUME Types, Places
    PROVE  /\ Replace => Types' /\ Places'
           /\ Finish => Types' /\ Places'
           /\ Call => Types' /\ Places'
           /\ AddDevice => Types' /\ Places'
           /\ DestroyDevice => Types' /\ Places'
           /\ SetResponseExpected => Types' /\ Places'
<1> USE DEF bounds
<1>0. "app" \in Thread /\ "app" # "callback"
    BY DEF Thread
<1>1. ASSUME Replace PROVE Types' /\ Places'
  <2>1. thread' \in [Thread -> ThreadState] /\ Others("app") /\ thread'["app"] = Idle
      BY <1>0, <1>1, IdleIs DEF Replace, Types, ThreadTypes, Others
  <2>2. Placed("app")'
      BY <1>0, <2>1, IdleIs DEF At, Placed, InFlight
  <2>3. ObjectTypes'
    <3>1. Dev("app") \in 0 .. 2
        BY <1>0 DEF Dev, Types, ThreadTypes, ThreadState
    <3>2. {Dev("app")} \ {0} \subseteq Device
        BY <3>1 DEF Device
    <3>3. replaced' \subseteq Device
        BY <1>1, <3>2 DEF Replace, Types, ObjectTypes
    <3> QED
        BY <1>1, <3>3 DEF Replace, Types, ObjectTypes
  <2> QED
      BY <1>0, <1>1, <2>1, <2>2, <2>3, TypesFrom, PlacesFrom DEF Replace, Types
<1>2. ASSUME Finish PROVE Types' /\ Places'
  <2>1. thread' \in [Thread -> ThreadState] /\ Others("app") /\ thread'["app"] = Idle
      BY <1>0, <1>2, IdleIs DEF Finish, Types, ThreadTypes, Others
  <2>2. Placed("app")'
      BY <1>0, <2>1, IdleIs DEF At, Placed, InFlight
  <2> QED
      BY <1>0, <1>2, <2>1, <2>2, TypesFrom, PlacesFrom DEF Finish, Types
<1>3. ASSUME Call PROVE Types' /\ Places'
  <2>1. /\ thread' \in [Thread -> ThreadState] /\ Others("app")
        /\ thread'["app"].dev \in Device /\ thread'["app"].fn = "function"
        /\ thread'["app"].at \in {"check", "header"}
      BY <1>3, CallIs DEF Types, ObjectTypes
  <2>2. Placed("app")'
      BY <1>0, <2>1 DEF At, Placed, InFlight, Dev
  <2>3. ThreadTypes'
    <3>1. calls' \in 0 .. MaxCalls
        BY <1>3, RequestsAssumption DEF Call, Types, ThreadTypes
    <3> QED
        BY <1>3, <2>1, <3>1 DEF Call, Types, ThreadTypes
  <2>4. ObjectTypes' /\ DeviceTypes' /\ ReceiveTypes'
      BY <1>3, TypesFrom DEF Call
  <2> QED
      BY <1>0, <1>3, <2>1, <2>2, <2>3, <2>4, PlacesFrom DEF Call, Types
<1>4. ASSUME AddDevice PROVE Types' /\ Places'
  <2>1. /\ thread' \in [Thread -> ThreadState] /\ Others("app")
        /\ thread'["app"].at = "adding"
      BY <1>4, AddIs
  <2>2. Placed("app")'
      BY <1>0, <2>1 DEF At, Placed, InFlight, Dev
  <2>3. ObjectTypes'
      BY <1>4 DEF AddDevice, Types, ObjectTypes, Device
  <2> QED
      BY <1>0, <1>4, <2>1, <2>2, <2>3, TypesFrom, PlacesFrom DEF AddDevice, Types
<1>5. ASSUME DestroyDevice PROVE Types' /\ Places'
  <2>1. ObjectTypes'
    <3>1. owned' \subseteq Device /\ freed' \subseteq Device /\ table' \in 0 .. 2
        BY <1>5 DEF DestroyDevice, WithoutDevice, Types, ObjectTypes
    <3>2. ref_count' \in [Device -> Int]
        BY <1>5 DEF DestroyDevice, Types, ObjectTypes
    <3> QED
        BY <1>5, <3>1, <3>2 DEF DestroyDevice, Types, ObjectTypes
  <2>2. DeviceTypes' /\ ThreadTypes' /\ ReceiveTypes'
      BY <1>5, TypesFrom DEF DestroyDevice, Types, ThreadTypes
  <2>3. Places'
      BY <1>5 DEF DestroyDevice, Places, Placed, ReceivePlaced, At, InFlight, Dev
  <2> QED
      BY <2>1, <2>2, <2>3 DEF Types
<1>6. ASSUME SetResponseExpected PROVE Types' /\ Places'
  <2>1. DeviceTypes'
      BY <1>6 DEF SetResponseExpected, Types, DeviceTypes, Flag
  <2>2. ObjectTypes' /\ ThreadTypes' /\ ReceiveTypes'
      BY <1>6, TypesFrom DEF SetResponseExpected, Types, ThreadTypes
  <2>3. Places'
      BY <1>6 DEF SetResponseExpected, Places, Placed, ReceivePlaced, At, InFlight, Dev
  <2> QED
      BY <2>1, <2>2, <2>3 DEF Types
<1> QED
    BY <1>1, <1>2, <1>3, <1>4, <1>5, <1>6

LEMMA ReleaseTypes ==
    ASSUME Types, NEW d \in Device, Release(d), UNCHANGED <<call, genuine>>
    PROVE  ObjectTypes'
<1>1. freed' \subseteq Device /\ table' \in 0 .. 2
    BY DEF Release, WithoutDevice, Types, ObjectTypes
<1>2. ref_count' \in [Device -> Int]
    BY DEF Release, Types, ObjectTypes
<1> QED
    BY <1>1, <1>2 DEF Release, Types, ObjectTypes

LEMMA TypesCallback ==
    ASSUME Types, Places
    PROVE  /\ Dispatch => Types' /\ Places'
           /\ Dispatched => Types' /\ Places'
<1> USE DEF bounds
<1>0. "callback" \in Thread
    BY DEF Thread
<1>1. ASSUME Dispatch PROVE Types' /\ Places'
  <2>1. CASE table = 0
    <3>1. ReceiveTypes'
        BY <1>1, <2>1 DEF Dispatch, Types, ReceiveTypes
    <3>2. ObjectTypes' /\ DeviceTypes' /\ ThreadTypes'
        BY <1>1, <2>1, TypesFrom DEF Dispatch, Types, ThreadTypes, objects
    <3>3. Places'
        BY <1>1, <2>1 DEF Dispatch, Places, Placed, ReceivePlaced, At, InFlight, Dev
    <3> QED
        BY <3>1, <3>2, <3>3 DEF Types
  <2>2. CASE table # 0
    <3>1. /\ thread' \in [Thread -> ThreadState] /\ Others("callback")
          /\ thread'["callback"].at = "check" /\ thread'["callback"].dev = table
          /\ thread'["callback"].fn = "identity"
        BY <1>1, <2>2, DispatchIs
    <3>2. Placed("callback")'
        BY <1>0, <2>2, <3>1 DEF At, Placed, InFlight, Dev, Device, Types, ObjectTypes
    <3>3. ObjectTypes'
        BY <1>1, <2>2 DEF Dispatch, Acquire, Types, ObjectTypes, Device
    <3>4. ReceiveTypes'
        BY <1>1, <2>2 DEF Dispatch, Types, ReceiveTypes
    <3> QED
        BY <1>0, <1>1, <3>1, <3>2, <3>3, <3>4, TypesFrom, PlacesFrom DEF Dispatch, Types
  <2> QED
      BY <2>1, <2>2
<1>2. ASSUME Dispatched PROVE Types' /\ Places'
  <2>1. /\ thread' \in [Thread -> ThreadState] /\ Others("callback")
        /\ thread'["callback"] = Idle
      BY <1>0, <1>2, IdleIs DEF Dispatched, Types, ThreadTypes, Others
  <2>2. Placed("callback")'
      BY <1>0, <2>1, IdleIs DEF At, Placed, InFlight
  <2>3. ObjectTypes'
    <3>1. Dev("callback") \in Device
        BY <1>0, <1>2 DEF Dispatched, Places, Placed, At
    <3> QED
        BY <1>2, <3>1, ReleaseTypes DEF Dispatched
  <2> QED
      BY <1>0, <1>2, <2>1, <2>2, <2>3, TypesFrom, PlacesFrom DEF Dispatched, Types
<1> QED
    BY <1>1, <1>2

\* A packet that passes for the answer to GET_IDENTITY names the device's type
Truthful(p) ==
    p.fn = "identity" /\ p.payload = Room("identity") => p.identifier = Identifier

LEMMA ResponseIs ==
    ASSUME Types, NEW request \in net, NEW p \in Response(request)
    PROVE  /\ p \in Packet /\ p.seq > 0 /\ Truthful(p)
           /\ p.fn = request.fn /\ p.seq = request.seq /\ p.tag = request.tag
<1>1. /\ request.fn \in Function /\ request.seq \in 1 .. Cycle /\ request.tag \in Nat
      /\ Room(request.fn) \in Nat
    BY DEF Types, ReceiveTypes, ObjectTypes, Room
<1>2. PICK error \in {0, 1}, payload \in Nat :
         p = [fn |-> request.fn, seq |-> request.seq, tag |-> request.tag,
              error |-> error, payload |-> payload,
              identifier |-> IF Id(request.fn) = "identity" /\ payload = Room("identity")
                             THEN Identifier ELSE "none"]
    BY <1>1 DEF Response
<1>3. p \in Packet
    BY <1>1, <1>2, RequestsAssumption DEF Packet, Identifier
<1> QED
    BY <1>1, <1>2, <1>3, RequestsAssumption DEF Truthful, Id

\* What the receive thread's own steps do to it
LEMMA ReceiveStepIs ==
    ASSUME Types, Places, ReceiveStep
    PROVE  /\ recv' \in [at : {"idle", "match", "callback", "copy", "set", "release"},
                         dev : 0 .. 2, packet : Packet]
           /\ Enqueue \/ Set => /\ recv'.at = "release" /\ recv'.dev = recv.dev
                                /\ recv'.packet = NoPacket
           /\ Match => \/ recv'.at = "copy" /\ recv'.dev = recv.dev
                          /\ recv'.packet = recv.packet
                       \/ recv'.at = "release" /\ recv'.dev = recv.dev
                          /\ recv'.packet = NoPacket
           /\ Copy => /\ recv'.at = "set" /\ recv'.dev = recv.dev
                      /\ recv'.packet = recv.packet
           /\ Received => recv'.at = "idle" /\ recv'.dev = 0 /\ recv'.packet = NoPacket
<1> DEFINE R == [at : {"idle", "match", "callback", "copy", "set", "release"},
                 dev : 0 .. 2, packet : Packet]
<1>1. recv \in R /\ NoPacket \in Packet
    BY IdleIs DEF Types, ReceiveTypes
<1>2. CASE Enqueue \/ Set
  <2>1. recv' = [recv EXCEPT !.at = "release", !.packet = NoPacket]
      BY <1>2 DEF Enqueue, Set
  <2> QED
      BY <1>1, <1>2, <2>1 DEF Enqueue, Set, Match, Copy, Received
<1>3. CASE Match
  <2>1. \/ recv' = [recv EXCEPT !.at = "release", !.packet = NoPacket]
        \/ recv' = [recv EXCEPT !.at = "copy"]
      BY <1>3 DEF Match
  <2> QED
      BY <1>1, <1>3, <2>1 DEF Enqueue, Set, Match, Copy, Received
<1>4. CASE Copy
    BY <1>1, <1>4 DEF Enqueue, Set, Match, Copy, Received
<1>5. CASE Received
  <2>1. recv' = [at |-> "idle", dev |-> 0, packet |-> NoPacket]
      BY <1>5 DEF Received
  <2>2. recv' \in R
      BY <1>1, <2>1
  <2> QED
      BY <1>5, <2>1, <2>2 DEF Enqueue, Set, Match, Copy, Received
<1> QED
    BY <1>2, <1>3, <1>4, <1>5 DEF ReceiveStep

LEMMA TypesReceive ==
    ASSUME Types, Places
    PROVE  /\ Receive => Types' /\ Places'
           /\ ReceiveCallback => Types' /\ Places'
           /\ ReceiveStep => Types' /\ Places'
<1> USE DEF bounds
<1>1. ASSUME Receive PROVE Types' /\ Places'
  <2>1. PICK request \in net :
          /\ net' = net \ {request}
          /\ IF table = 0 THEN UNCHANGED <<recv, ref_count>>
             ELSE /\ Acquire(table)
                  /\ \E p \in Response(request) :
                        recv' = [at |-> "match", dev |-> table, packet |-> p]
      BY <1>1 DEF Receive
  <2>2. CASE table = 0
    <3>1. ObjectTypes' /\ DeviceTypes' /\ ThreadTypes'
        BY <1>1, <2>1, <2>2, TypesFrom DEF Receive, Types, ThreadTypes, objects
    <3>2. ReceiveTypes'
        BY <1>1, <2>1, <2>2 DEF Receive, Types, ReceiveTypes
    <3>3. Places'
        BY <1>1, <2>1, <2>2 DEF Receive, Places, Placed, ReceivePlaced, At, InFlight, Dev
    <3> QED
        BY <3>1, <3>2, <3>3 DEF Types
  <2>3. CASE table # 0
    <3>1. PICK p \in Response(request) :
              recv' = [at |-> "match", dev |-> table, packet |-> p]
        BY <2>1, <2>3
    <3>2. p \in Packet /\ p.seq > 0 /\ p.fn = request.fn
        BY ResponseIs
    <3>3. p.fn # "none"
        BY <2>1, <3>2 DEF Types, ReceiveTypes
    <3>4. ReceiveTypes'
        BY <1>1, <2>1, <3>1, <3>2 DEF Receive, Types, ReceiveTypes, ObjectTypes
    <3>5. DeviceTypes' /\ ThreadTypes'
        BY <1>1, TypesFrom DEF Receive, Types, ThreadTypes
    <3>6. ObjectTypes'
        BY <1>1, <2>1, <2>3 DEF Receive, Acquire, Types, ObjectTypes, Device
    <3>7. Places'
      <4>1. \A t \in Thread : Placed(t)'
          BY <1>1 DEF Receive, Places, Placed, At, InFlight, Dev
      <4>2. ReceivePlaced'
          BY <2>3, <3>1, <3>2, <3>3 DEF ReceivePlaced
      <4> QED
          BY <4>1, <4>2 DEF Places
    <3> QED
        BY <3>4, <3>5, <3>6, <3>7 DEF Types
  <2> QED
      BY <2>2, <2>3
<1>2. ASSUME ReceiveCallback PROVE Types' /\ Places'
  <2>1. ReceiveTypes'
    <3>1. callbacks' \in 0 .. MaxCallbacks
        BY <1>2, RequestsAssumption DEF ReceiveCallback, Types, ReceiveTypes
    <3>2. recv' \in [at : {"idle", "match", "callback", "copy", "set", "release"},
                     dev : 0 .. 2, packet : Packet]
        BY <1>2, IdleIs DEF ReceiveCallback, Types, ReceiveTypes, ObjectTypes
    <3> QED
        BY <1>2, <3>1, <3>2 DEF ReceiveCallback, Types, ReceiveTypes
  <2>2. ObjectTypes'
      BY <1>2 DEF ReceiveCallback, Acquire, Types, ObjectTypes, Device
  <2>3. DeviceTypes' /\ ThreadTypes'
      BY <1>2 DEF ReceiveCallback, Types, ThreadTypes, DeviceTypes, device
  <2>4. \A t \in Thread : Placed(t)'
      BY <1>2 DEF ReceiveCallback, Places, Placed, At, InFlight, Dev
  <2>5. ReceivePlaced'
      BY <1>2 DEF ReceiveCallback, Places, ReceivePlaced, Types, ObjectTypes
  <2> QED
      BY <2>1, <2>2, <2>3, <2>4, <2>5 DEF Types, Places
<1>3. ASSUME ReceiveStep PROVE Types' /\ Places'
  <2>1. /\ recv' \in [at : {"idle", "match", "callback", "copy", "set", "release"},
                      dev : 0 .. 2, packet : Packet]
        /\ ReceivePlaced'
    <3>1. recv.at # "idle"
        BY <1>3 DEF ReceiveStep, Enqueue, Match, Copy, Set, Received
    <3>2. recv.dev # 0
        BY <3>1 DEF ReceivePlaced, Places
    <3>3. Match \/ Copy => recv.packet.seq > 0 /\ recv.packet.fn # "none"
        BY DEF Match, Copy, ReceivePlaced, Places
    <3> QED
        BY <1>3, <3>2, <3>3, ReceiveStepIs DEF ReceiveStep, ReceivePlaced
  <2>2. ReceiveTypes'
      BY <1>3, <2>1 DEF ReceiveStep, Enqueue, Match, Copy, Set, Received, Types, ReceiveTypes
  <2>3. ObjectTypes'
    <3>1. recv.at = "release" => recv.dev \in Device
        BY DEF Types, ReceiveTypes, Places, ReceivePlaced, Device
    <3>2. CASE Received
        BY <3>1, <3>2, ReleaseTypes DEF Received
    <3>3. CASE ~Received
        BY <1>3, <3>3, TypesFrom DEF ReceiveStep, Enqueue, Match, Copy, Set
    <3> QED
        BY <3>2, <3>3
  <2>4. DeviceTypes'
    <3>1. recv.packet \in Packet
        BY DEF Types, ReceiveTypes
    <3>2. packet' \in [Device -> Packet] /\ event' \in [Device -> BOOLEAN]
        BY <1>3, <3>1 DEF ReceiveStep, Enqueue, Match, Copy, Set, Received, Types, DeviceTypes,
           device
    <3> QED
        BY <1>3, <3>2 DEF ReceiveStep, Enqueue, Match, Copy, Set, Received, Types, DeviceTypes,
           device
  <2>5. ThreadTypes'
      BY <1>3 DEF ReceiveStep, Enqueue, Match, Copy, Set, Received, Types, ThreadTypes
  <2>6. \A t \in Thread : Placed(t)'
      BY <1>3 DEF ReceiveStep, Enqueue, Match, Copy, Set, Received, Places, Placed, At,
         InFlight, Dev
  <2> QED
      BY <2>1, <2>2, <2>3, <2>4, <2>5, <2>6 DEF Types, Places
<1> QED
    BY <1>1, <1>2, <1>3

\* The type of every variable but the range of two counters, and places, are invariant
LEMMA TypesStep == Types /\ Places /\ [Next]_vars => Types' /\ Places'
<1> SUFFICES ASSUME Types, Places, [Next]_vars PROVE Types' /\ Places'
    OBVIOUS
<1>1. ASSUME NEW t \in Thread, Step(t) PROVE Types' /\ Places'
    BY <1>1, TypesCheck, TypesRequest, TypesWait DEF Step
<1>2. CASE AppStep
    BY <1>1, <1>2, TypesApp DEF AppStep, Thread
<1>3. CASE AppChoice
    BY <1>3, TypesApp DEF AppChoice
<1>4. CASE CallbackStep
    BY <1>1, <1>4, TypesCallback DEF CallbackStep, Thread
<1>5. CASE ReceiveStep \/ Receive \/ ReceiveCallback
    BY <1>5, TypesReceive
<1>6. CASE UNCHANGED vars
  <2>1. Types'
      BY <1>6, TypesFrom DEF vars, Types, ThreadTypes, bounds
  <2>2. Places'
      BY <1>6 DEF vars, Places, Placed, ReceivePlaced, At, Dev, InFlight
  <2> QED
      BY <2>1, <2>2
<1> QED
    BY <1>2, <1>3, <1>4, <1>5, <1>6 DEF Next

(***************************************************************************)
(* The verdict                                                             *)
(***************************************************************************)

\* Only the answer to GET_IDENTITY decides
LEMMA VerdictFrom ==
    Next => UNCHANGED <<genuine, check>> \/ \E t \in Thread : Judge(t)
<1>1. ASSUME NEW t \in Thread, Step(t), ~Judge(t) PROVE UNCHANGED <<genuine, check>>
    BY <1>1 DEF Step, Check, LockIdentity, Verdict, Header, Expect, Send, SendFails, Wake,
       Timeout, Clear, Reset, Read, device
<1>2. ASSUME AppStep, ~Step("app") PROVE UNCHANGED <<genuine, check>>
    BY <1>2 DEF AppStep, Replace, Finish, device
<1>3. ASSUME AppChoice PROVE UNCHANGED <<genuine, check>>
  <2>1. Call => UNCHANGED <<genuine, check>>
      BY DEF Call, device
  <2>2. AddDevice => UNCHANGED <<genuine, check>>
      BY DEF AddDevice, device
  <2>3. DestroyDevice => UNCHANGED <<genuine, check>>
      BY DEF DestroyDevice, device
  <2>4. SetResponseExpected => UNCHANGED <<genuine, check>>
      BY DEF SetResponseExpected
  <2> QED
      BY <1>3, <2>1, <2>2, <2>3, <2>4 DEF AppChoice
<1>4. ASSUME CallbackStep, ~Step("callback") PROVE UNCHANGED <<genuine, check>>
    BY <1>4 DEF CallbackStep, Dispatch, Dispatched, device
<1>5. ASSUME ReceiveStep \/ Receive \/ ReceiveCallback PROVE UNCHANGED <<genuine, check>>
    BY <1>5 DEF ReceiveStep, Enqueue, Match, Copy, Set, Received, Receive, ReceiveCallback,
       device
<1> QED
    BY <1>1, <1>2, <1>3, <1>4, <1>5 DEF Next, Thread, AppStep, CallbackStep

(***************************************************************************)
(* Who refers to the device objects                                        *)
(***************************************************************************)

\* The second object has not been created
Fresh == ref_count[2] = 0 /\ 2 \notin freed

One(b) == IF b THEN 1 ELSE 0

\* References to a device: the application's, the callback thread's, the receive thread's
Held(d) == One(d \in owned) + One(Dev("callback") = d) + One(recv.dev = d)

Counted ==
    /\ \A d \in Device : ref_count[d] = Held(d) /\ (d \in freed => ref_count[d] = 0)
    /\ ref_count[1] = 0 => 1 \in freed

\* Only the first object is ever replaced, by the second
ReplacedByOther ==
    /\ replaced \subseteq {1} /\ (replaced # {} => ~Fresh)
    /\ ~Fresh /\ ~At("app", "adding") => replaced = {1} \/ 1 \in freed

TableHeld ==
    /\ table # 0 => ref_count[table] > 0
    /\ table = 1 => Fresh
    /\ TableCurrent

\* What the application works with
AppHolds ==
    /\ At("app", "adding") =>
          /\ Dev("app") = IF 1 \in freed THEN 0 ELSE 1
          /\ table = 2 /\ 2 \in owned /\ 1 \in owned \cup freed
    /\ ~At("app", "idle") /\ ~At("app", "adding") => Dev("app") \in owned

RefInv == Counted /\ ReplacedByOther /\ TableHeld /\ AppHolds

LEMMA RefInit == Init => RefInv
<1> SUFFICES ASSUME Init PROVE RefInv
    OBVIOUS
<1>1. Dev("callback") = 0 /\ At("app", "idle") /\ ~At("app", "adding") /\ recv.dev = 0
    BY DEF Init, Dev, At, Idle, Thread
<1>2. ref_count[1] = 1 /\ ref_count[2] = 0 /\ freed = {} /\ replaced = {} /\ owned = {1}
      /\ table = 1
    BY DEF Init, Device
<1>3. Counted
    BY <1>1, <1>2 DEF Counted, Held, One, Device
<1>4. Fresh
    BY <1>2 DEF Fresh
<1>5. ReplacedByOther /\ AppHolds
    BY <1>1, <1>2, <1>4 DEF ReplacedByOther, AppHolds
<1>6. TableHeld
    BY <1>2, <1>4 DEF TableHeld, TableCurrent
<1> QED
    BY <1>3, <1>5, <1>6 DEF RefInv

\* What RefInv reads besides the objects
RefView == <<Dev("callback"), recv.dev, At("app", "idle"), At("app", "adding"), Dev("app")>>

LEMMA RefFrom == ASSUME RefInv, UNCHANGED objects, UNCHANGED RefView PROVE RefInv'
<1>1. Counted'
    BY DEF RefInv, Counted, objects, RefView, Held, One
<1>2. ReplacedByOther' /\ TableHeld' /\ AppHolds'
    BY DEF RefInv, ReplacedByOther, TableHeld, TableCurrent, AppHolds, objects, RefView, Fresh
<1> QED
    BY <1>1, <1>2 DEF RefInv

\* The steps of a function leave the objects alone
Aside(t) ==
    /\ UNCHANGED <<call, genuine, objects, recv, queue, calls, callbacks>>
    /\ Others(t) /\ thread'[t].dev = thread[t].dev
    /\ thread[t].at \notin {"idle", "adding", "done"}
    /\ thread'[t].at \notin {"idle", "adding"}

LEMMA StepIs == ASSUME Types, Places, NEW t \in Thread, Step(t) PROVE Aside(t)
<1> USE DEF At, Aside, bounds
<1>1. ASSUME NEW place \in Place \ {"idle", "adding"}, NEW ret \in Result,
             Goto(t, place) \/ Return(t, place, ret)
      PROVE  Others(t) /\ thread'[t].dev = thread[t].dev /\ thread'[t].at = place
    BY <1>1, GotoIs, ReturnIs DEF Moves, SameFunction
<1>2. After(t) \in Place \ {"idle", "adding"}
    BY DEF After, Place
<1>3. Check(t) => Aside(t)
    BY <1>1 DEF Check, Place, Result
<1>4. LockIdentity(t) => Aside(t)
  <2>1. CASE check[Dev(t)] = "pending"
      BY <2>1, StartIs DEF LockIdentity, Function
  <2>2. CASE check[Dev(t)] # "pending"
      BY <2>2, <1>1 DEF LockIdentity, Place, Result
  <2> QED
      BY <2>1, <2>2
<1>5. Judge(t) => Aside(t)
  <2>1. ASSUME Judge(t), thread[t].ret = "OK"
        PROVE  Others(t) /\ thread'[t].dev = thread[t].dev /\ thread'[t].at = "verdict"
    <3>1. thread' = [thread EXCEPT ![t] = [Idle EXCEPT !.at = "verdict", !.dev = Dev(t)]]
        BY <2>1 DEF Judge
    <3> QED
        BY <3>1 DEF Types, ThreadTypes, Others, Idle, Dev
  <2>2. ASSUME Judge(t), thread[t].ret # "OK"
        PROVE  Others(t) /\ thread'[t].dev = thread[t].dev /\ thread'[t].at = "done"
      BY <1>1, <2>2 DEF Judge, Place, Result
  <2> QED
      BY <2>1, <2>2 DEF Judge
<1>6. Verdict(t) => Aside(t)
  <2>1. CASE check[Dev(t)] = "mismatch"
      BY <2>1, <1>1 DEF Verdict, Place, Result
  <2>2. CASE check[Dev(t)] # "mismatch" /\ t = "callback"
      BY <2>2, <1>1 DEF Verdict, Place, Result
  <2>3. CASE check[Dev(t)] # "mismatch" /\ t # "callback"
      BY <2>3, StartIs DEF Verdict, Function
  <2> QED
      BY <2>1, <2>2, <2>3
<1>7. Header(t) => Aside(t)
  <2>1. ASSUME Header(t)
        PROVE  /\ Others(t) /\ thread'[t].dev = thread[t].dev
               /\ thread'[t].at \in {After(t), "send", "expect"}
      BY <2>1, HeaderIs DEF SameFunction
  <2> QED
      BY <1>2, <2>1 DEF Header
<1>8. Expect(t) => Aside(t)
    BY <1>1 DEF Expect, Place, Result
<1>9. Send(t) => Aside(t)
    BY <1>1, <1>2 DEF Send, Place, Result
<1>10. SendFails(t) => Aside(t)
    BY <1>1, <1>2 DEF SendFails, Place, Result
<1>11. Wake(t) \/ Timeout(t) => Aside(t)
    BY <1>1 DEF Wake, Timeout, Place, Result
<1>12. Clear(t) => Aside(t)
    BY <1>1 DEF Clear, Place, Result
<1>13. Reset(t) => Aside(t)
    BY <1>1, <1>2 DEF Reset, Place, Result
<1>14. Read(t) => Aside(t)
  <2>1. ASSUME Read(t)
        PROVE  Others(t) /\ thread'[t].dev = thread[t].dev /\ thread'[t].at = After(t)
      BY <2>1, ReadIs DEF Moves, SameFunction
  <2> QED
      BY <1>2, <2>1 DEF Read
<1> QED
    BY <1>3, <1>4, <1>5, <1>6, <1>7, <1>8, <1>9, <1>10, <1>11, <1>12, <1>13, <1>14 DEF Step

LEMMA RefStepThread ==
    ASSUME Types, Places, RefInv, NEW t \in Thread, Step(t)
    PROVE  RefInv'
<1>1. Aside(t)
    BY StepIs
<1>2. UNCHANGED <<Dev("callback"), recv.dev, Dev("app")>>
    BY <1>1 DEF Aside, Others, Dev, Thread
<1>3. UNCHANGED <<At("app", "idle"), At("app", "adding")>>
  <2>1. CASE t = "app"
      BY <1>1, <2>1 DEF Aside, At
  <2>2. CASE t # "app"
      BY <1>1, <2>2 DEF Aside, Others, At, Thread
  <2> QED
      BY <2>1, <2>2
<1> QED
    BY <1>1, <1>2, <1>3, RefFrom DEF Aside, RefView

LEMMA RefStepApp ==
    ASSUME Types, Places, RefInv
    PROVE  /\ Replace => RefInv'
           /\ Finish => RefInv'
           /\ Call => RefInv'
           /\ AddDevice => RefInv'
           /\ SetResponseExpected => RefInv'
<1> USE DEF RefInv
<1>0. "app" \in Thread /\ "callback" \in Thread /\ thread \in [Thread -> ThreadState]
    BY DEF Thread, Types, ThreadTypes
<1>1. ASSUME Replace PROVE RefInv'
  <2>1. thread'["app"] = Idle /\ thread'["callback"] = thread["callback"]
      BY <1>0, <1>1 DEF Replace
  <2>2. At("app", "idle")' /\ ~At("app", "adding")' /\ Dev("callback")' = Dev("callback")
      BY <2>1, IdleIs DEF At, Dev
  <2>3. UNCHANGED <<owned, table, ref_count, freed, recv>>
      BY <1>1 DEF Replace
  <2>4. replaced' = replaced \cup ({Dev("app")} \ {0}) /\ At("app", "adding")
      BY <1>1 DEF Replace
  <2>5. Counted'
      BY <2>2, <2>3 DEF Counted, Held
  <2>6. table = 2 /\ 2 \in owned /\ ~Fresh
    <3>1. table = 2 /\ 2 \in owned
        BY <2>4 DEF AppHolds
    <3>2. Held(2) >= 1
        BY <3>1 DEF Held, One
    <3>3. ref_count[2] = Held(2)
        BY DEF Counted, Device
    <3> QED
        BY <3>1, <3>2, <3>3 DEF Fresh
  <2>7. replaced' = IF 1 \in freed THEN replaced ELSE {1}
    <3>1. CASE 1 \in freed
      <4>1. Dev("app") = 0
          BY <2>4, <3>1 DEF AppHolds
      <4>2. {Dev("app")} \ {0} = {}
          BY <4>1
      <4> QED
          BY <2>4, <3>1, <4>2
    <3>2. CASE 1 \notin freed
      <4>1. {Dev("app")} \ {0} = {1}
          BY <2>4, <3>2 DEF AppHolds
      <4>2. replaced' = {1}
          BY <2>4, <4>1 DEF ReplacedByOther
      <4> QED
          BY <3>2, <4>2
    <3> QED
        BY <3>1, <3>2
  <2>8. ReplacedByOther'
      BY <2>2, <2>3, <2>6, <2>7 DEF ReplacedByOther, Fresh
  <2>9. TableCurrent'
    <3>1. \A d \in owned \ replaced' : d = 2
      <4>1. 1 \in freed => 1 \notin owned
          BY DEF Counted, Held, One, Device
      <4> QED
          BY <2>7, <4>1 DEF Types, ObjectTypes, Device
    <3> QED
        BY <2>3, <2>6, <3>1 DEF TableCurrent
  <2>10. TableHeld' /\ AppHolds'
      BY <2>2, <2>3, <2>6, <2>9 DEF TableHeld, AppHolds
  <2> QED
      BY <2>5, <2>8, <2>10
<1>2. ASSUME Finish PROVE RefInv'
  <2>1. thread'["app"] = Idle /\ thread'["callback"] = thread["callback"]
      BY <1>0, <1>2 DEF Finish
  <2>2. At("app", "idle")' /\ ~At("app", "adding")' /\ Dev("callback")' = Dev("callback")
      BY <2>1, IdleIs DEF At, Dev
  <2>3. UNCHANGED <<objects, recv>> /\ ~At("app", "adding")
      BY <1>2 DEF Finish, At
  <2>4. Counted'
      BY <2>2, <2>3 DEF Counted, Held, objects
  <2>5. ReplacedByOther' /\ TableHeld' /\ AppHolds'
      BY <2>2, <2>3 DEF ReplacedByOther, TableHeld, TableCurrent, AppHolds, Fresh, objects
  <2> QED
      BY <2>4, <2>5
<1>3. ASSUME Call PROVE RefInv'
  <2>1. /\ Others("app") /\ thread'["app"].dev \in owned
        /\ thread'["app"].at \notin {"idle", "adding"}
      BY <1>3, CallIs
  <2>2. /\ ~At("app", "idle")' /\ ~At("app", "adding")' /\ Dev("callback")' = Dev("callback")
        /\ Dev("app")' \in owned
      BY <1>0, <2>1 DEF At, Dev, Others
  <2>3. UNCHANGED <<objects, recv>> /\ ~At("app", "adding")
      BY <1>3 DEF Call, At
  <2>4. Counted'
      BY <2>2, <2>3 DEF Counted, Held, objects
  <2>5. ReplacedByOther' /\ TableHeld' /\ AppHolds'
      BY <2>2, <2>3 DEF ReplacedByOther, TableHeld, TableCurrent, AppHolds, Fresh, objects
  <2> QED
      BY <2>4, <2>5
<1>4. ASSUME AddDevice PROVE RefInv'
  <2>1. /\ Others("app") /\ thread'["app"].dev = table /\ thread'["app"].at = "adding"
      BY <1>4, AddIs
  <2>2. /\ ~At("app", "idle")' /\ At("app", "adding")' /\ Dev("callback")' = Dev("callback")
        /\ Dev("app")' = table
      BY <1>0, <2>1 DEF At, Dev, Others
  <2>3. /\ UNCHANGED <<freed, replaced, recv>> /\ table' = 2 /\ owned' = owned \cup {2}
        /\ ref_count' = [ref_count EXCEPT ![2] = 1]
        /\ ref_count[2] = 0 /\ 2 \notin freed /\ At("app", "idle") /\ Fresh
        /\ 1 \in owned \/ 1 \in freed
      BY <1>4 DEF AddDevice, Fresh
  <2>4. 2 \notin owned /\ Dev("callback") # 2 /\ recv.dev # 2 /\ ref_count \in [Device -> Int]
      BY <2>3 DEF Counted, Held, One, Device, Types, ObjectTypes
  <2>5. ref_count'[1] = ref_count[1] /\ ref_count'[2] = 1
      BY <2>3, <2>4 DEF Device
  <2>6. Held(1)' = Held(1) /\ Held(2)' = 1
      BY <2>2, <2>3, <2>4 DEF Held, One
  <2>7. Counted'
      BY <2>3, <2>5, <2>6 DEF Counted, Device
  <2>8. ReplacedByOther'
      BY <2>2, <2>3, <2>5 DEF ReplacedByOther, Fresh
  <2>9. TableHeld'
      BY <2>2, <2>3, <2>5 DEF TableHeld, TableCurrent
  <2>10. table = IF 1 \in freed THEN 0 ELSE 1
    <3>1. table \in {0, 1}
        BY <2>3 DEF TableHeld, Types, ObjectTypes
    <3>2. CASE 1 \in freed
        BY <3>1, <3>2 DEF TableHeld, Counted, Device
    <3>3. CASE 1 \notin freed
      <4>1. 1 \in owned \ replaced /\ ~At("app", "adding")
          BY <2>3, <3>3 DEF ReplacedByOther, At
      <4> QED
          BY <3>3, <4>1 DEF TableHeld, TableCurrent
    <3> QED
        BY <3>2, <3>3
  <2>11. AppHolds'
      BY <2>2, <2>3, <2>10 DEF AppHolds
  <2> QED
      BY <2>7, <2>8, <2>9, <2>11
<1>5. ASSUME SetResponseExpected PROVE RefInv'
    BY <1>5, RefFrom DEF SetResponseExpected, RefView, Dev, At
<1> QED
    BY <1>1, <1>2, <1>3, <1>4, <1>5

\* A reference is given up
LEMMA RefRelease ==
    ASSUME Types, RefInv, NEW d \in Device, ref_count[d] > 0,
           ref_count' = [ref_count EXCEPT ![d] = @ - 1],
           IF ref_count[d] = 1
           THEN freed' = freed \cup {d} /\ table' = WithoutDevice(d)
           ELSE UNCHANGED <<freed, table>>,
           owned' \subseteq owned, UNCHANGED replaced,
           UNCHANGED <<At("app", "idle"), At("app", "adding"), Dev("app")>>,
           \A e \in Device : Held(e)' = IF e = d THEN Held(e) - 1 ELSE Held(e),
           ~At("app", "idle") => UNCHANGED owned
    PROVE  RefInv'
<1> USE DEF RefInv
<1>1. ref_count \in [Device -> Int] /\ 1 \in Device /\ 2 \in Device /\ table \in 0 .. 2
    BY DEF Types, ObjectTypes, Device
<1>2. \A e \in Device : ref_count'[e] = IF e = d THEN ref_count[e] - 1 ELSE ref_count[e]
    BY <1>1
<1>3. freed' = IF ref_count[d] = 1 THEN freed \cup {d} ELSE freed
    OBVIOUS
<1>4. Counted'
    BY <1>1, <1>2, <1>3 DEF Counted
<1>5. Fresh' = Fresh
    BY <1>1, <1>2, <1>3 DEF Counted, Fresh, Device
<1>6. freed \subseteq freed'
    BY <1>3
<1>7. ReplacedByOther'
    BY <1>5, <1>6 DEF ReplacedByOther
<1>8. \A e \in owned' : e \in Device /\ e \notin freed'
  <2> SUFFICES ASSUME NEW e \in owned' PROVE e \in Device /\ e \notin freed'
      OBVIOUS
  <2>1. e \in Device /\ Held(e)' >= 1
      BY DEF Held, One, Types, ObjectTypes
  <2> QED
      BY <1>4, <2>1 DEF Counted
<1>9. ASSUME At("app", "adding") PROVE ref_count[d] # 1
  <2>1. table = 2 /\ 2 \in owned' /\ 1 \in owned' \cup freed
      BY <1>9 DEF AppHolds, At
  <2>2. 1 \in freed => ref_count[1] = 0
      BY <1>1 DEF Counted
  <2> QED
      BY <1>3, <1>8, <2>1, <2>2 DEF Device
<1>10. AppHolds'
  <2>1. CASE At("app", "adding")
      BY <1>3, <1>9, <2>1 DEF AppHolds, At
  <2>2. CASE ~At("app", "adding")
      BY <2>2 DEF AppHolds
  <2> QED
      BY <2>1, <2>2
<1>11. CASE ref_count[d] # 1
  <2>1. UNCHANGED <<freed, table>>
      BY <1>11
  <2>2. table # 0 => table \in Device /\ ref_count'[table] > 0
      BY <1>1, <1>2, <1>11 DEF TableHeld, Device
  <2>3. TableCurrent'
      BY <2>1 DEF TableHeld, TableCurrent
  <2>4. TableHeld'
      BY <1>5, <2>1, <2>2, <2>3 DEF TableHeld
  <2> QED
      BY <1>4, <1>7, <1>10, <2>4
<1>12. CASE ref_count[d] = 1 /\ d \in replaced
  <2>1. d = 1 /\ ~Fresh /\ table' = table
      BY <1>12 DEF ReplacedByOther, WithoutDevice
  <2>2. table # 1
      BY <2>1 DEF TableHeld
  <2>3. table # 0 => ref_count'[table] > 0
      BY <1>1, <1>2, <2>1, <2>2 DEF TableHeld, Device
  <2>4. TableCurrent'
      BY <2>1 DEF TableHeld, TableCurrent
  <2>5. TableHeld'
      BY <2>1, <2>2, <2>3, <2>4 DEF TableHeld
  <2> QED
      BY <1>4, <1>7, <1>10, <2>5
<1>13. CASE ref_count[d] = 1 /\ d \notin replaced
  <2>1. table' = 0 /\ ~At("app", "adding") /\ d \in freed'
      BY <1>3, <1>9, <1>13 DEF WithoutDevice
  <2>2. ASSUME NEW e \in owned', e \notin replaced PROVE FALSE
    <3>1. e = table /\ e \in Device /\ e # d
        BY <1>8, <2>1, <2>2 DEF TableHeld, TableCurrent
    <3>2. CASE e = 1
        BY <1>13, <3>1, <3>2 DEF TableHeld, Fresh, Device
    <3>3. CASE e = 2
      <4>1. d = 1 /\ ref_count[2] > 0
          BY <3>1, <3>3 DEF TableHeld, Device
      <4>2. 1 \in freed
          BY <1>13, <2>1, <4>1 DEF ReplacedByOther, Fresh
      <4> QED
          BY <1>13, <4>1, <4>2 DEF Counted
    <3> QED
        BY <3>1, <3>2, <3>3 DEF Device
  <2>3. TableHeld'
      BY <2>1, <2>2 DEF TableHeld, TableCurrent
  <2> QED
      BY <1>4, <1>7, <1>10, <2>3
<1> QED
    BY <1>11, <1>12, <1>13

\* A reference is taken through the table
LEMMA RefAcquire ==
    ASSUME Types, RefInv, table # 0, Acquire(table),
           UNCHANGED <<owned, table, freed, replaced>>,
           UNCHANGED <<At("app", "idle"), At("app", "adding"), Dev("app")>>,
           \A e \in Device : Held(e)' = IF e = table THEN Held(e) + 1 ELSE Held(e)
    PROVE  RefInv'
<1> USE DEF RefInv
<1>1. ref_count \in [Device -> Int] /\ table \in Device
    BY DEF Types, ObjectTypes, Device
<1>2. \A e \in Device : ref_count'[e] = IF e = table THEN ref_count[e] + 1 ELSE ref_count[e]
    BY <1>1 DEF Acquire
<1>3. ref_count[table] > 0
    BY <1>1 DEF TableHeld, Device
<1>4. Counted'
    BY <1>1, <1>2, <1>3 DEF Counted, Device
<1>5. Fresh' = Fresh
    BY <1>1, <1>2, <1>3 DEF Fresh, Device
<1>6. ReplacedByOther' /\ AppHolds'
    BY <1>5 DEF ReplacedByOther, AppHolds
<1>7. TableHeld'
    BY <1>1, <1>2, <1>3, <1>5 DEF TableHeld, TableCurrent
<1> QED
    BY <1>4, <1>6, <1>7

LEMMA RefStepCount ==
    ASSUME Types, Places, RefInv
    PROVE  /\ DestroyDevice => RefInv'
           /\ Dispatch => RefInv'
           /\ Dispatched => RefInv'
           /\ Receive => RefInv'
           /\ ReceiveCallback => RefInv'
           /\ ReceiveStep => RefInv'
<1>0. /\ "app" \in Thread /\ "callback" \in Thread /\ thread \in [Thread -> ThreadState]
      /\ ref_count \in [Device -> Int] /\ owned \subseteq Device /\ table \in 0 .. 2
      /\ \A d \in Device : ref_count[d] = Held(d)
    BY DEF Thread, Types, ThreadTypes, ObjectTypes, RefInv, Counted
<1>1. ASSUME DestroyDevice PROVE RefInv'
  <2>1. PICK d \in owned :
          /\ owned' = owned \ {d}
          /\ ref_count' = [ref_count EXCEPT ![d] = @ - 1]
          /\ IF ref_count[d] = 1
             THEN freed' = freed \cup {d} /\ table' = WithoutDevice(d)
             ELSE UNCHANGED <<freed, table>>
      BY <1>1 DEF DestroyDevice
  <2>2. UNCHANGED <<thread, recv, replaced>> /\ At("app", "idle")
      BY <1>1 DEF DestroyDevice
  <2>3. UNCHANGED <<At("app", "idle"), At("app", "adding"), Dev("app"), Dev("callback"), recv.dev>>
      BY <2>2 DEF At, Dev
  <2>4. \A e \in Device : Held(e)' = IF e = d THEN Held(e) - 1 ELSE Held(e)
      BY <2>1, <2>3 DEF Held, One
  <2>5. d \in Device /\ ref_count[d] > 0
      BY <1>0 DEF Held, One
  <2>6. owned' \subseteq owned
      BY <2>1
  <2> QED
      BY <2>1, <2>2, <2>3, <2>4, <2>5, <2>6, RefRelease
<1>2. ASSUME Dispatch PROVE RefInv'
  <2>1. CASE table = 0
      BY <1>2, <2>1, RefFrom DEF Dispatch, RefView, objects, At, Dev
  <2>2. CASE table # 0
    <3>1. thread'["callback"].dev = table /\ thread'["app"] = thread["app"]
        BY <1>0, <1>2, <2>2, DispatchIs DEF Others
    <3>2. Dev("callback")' = table /\ Dev("callback") = 0
        BY <1>2, <3>1, IdleIs DEF Dispatch, Dev, Places, Placed, At, Thread
    <3>3. UNCHANGED <<At("app", "idle"), At("app", "adding"), Dev("app")>>
        BY <3>1 DEF At, Dev
    <3>4. \A e \in Device : Held(e)' = IF e = table THEN Held(e) + 1 ELSE Held(e)
        BY <1>2, <3>2 DEF Dispatch, Held, One, Device
    <3> QED
        BY <1>2, <2>2, <3>3, <3>4, RefAcquire DEF Dispatch
  <2> QED
      BY <2>1, <2>2
<1>3. ASSUME Dispatched PROVE RefInv'
  <2>1. thread'["callback"] = Idle /\ thread'["app"] = thread["app"]
      BY <1>0, <1>3 DEF Dispatched
  <2>2. Dev("callback")' = 0 /\ Dev("callback") \in Device
      BY <1>0, <1>3, <2>1, IdleIs DEF Dispatched, Dev, Places, Placed, At
  <2>3. UNCHANGED <<At("app", "idle"), At("app", "adding"), Dev("app"), owned, replaced, recv>>
      BY <1>3, <2>1 DEF At, Dev, Dispatched, Release
  <2>4. \A e \in Device : Held(e)' = IF e = Dev("callback") THEN Held(e) - 1 ELSE Held(e)
      BY <2>2, <2>3 DEF Held, One, Device
  <2>5. ref_count[Dev("callback")] > 0
      BY <1>0, <2>2 DEF Held, One
  <2> QED
      BY <1>3, <2>2, <2>3, <2>4, <2>5, RefRelease DEF Dispatched, Release
<1>4. ASSUME Receive PROVE RefInv'
  <2>1. CASE table = 0
      BY <1>4, <2>1, RefFrom DEF Receive, RefView, objects, At, Dev
  <2>2. CASE table # 0
    <3>1. recv'.dev = table /\ recv.dev = 0 /\ Acquire(table)
        BY <1>4, <2>2 DEF Receive, Places, ReceivePlaced
    <3>2. UNCHANGED <<At("app", "idle"), At("app", "adding"), Dev("app"), Dev("callback")>>
        BY <1>4 DEF Receive, At, Dev
    <3>3. \A e \in Device : Held(e)' = IF e = table THEN Held(e) + 1 ELSE Held(e)
        BY <1>4, <3>1, <3>2 DEF Receive, Held, One, Device
    <3> QED
        BY <1>4, <2>2, <3>1, <3>2, <3>3, RefAcquire DEF Receive
  <2> QED
      BY <2>1, <2>2
<1>5. ASSUME ReceiveCallback PROVE RefInv'
  <2>1. CASE table = 0
      BY <1>5, <2>1, RefFrom DEF ReceiveCallback, RefView, objects, At, Dev
  <2>2. CASE table # 0
    <3>1. recv'.dev = table /\ recv.dev = 0 /\ Acquire(table)
        BY <1>5, <2>2 DEF ReceiveCallback, Places, ReceivePlaced
    <3>2. UNCHANGED <<At("app", "idle"), At("app", "adding"), Dev("app"), Dev("callback")>>
        BY <1>5 DEF ReceiveCallback, At, Dev
    <3>3. \A e \in Device : Held(e)' = IF e = table THEN Held(e) + 1 ELSE Held(e)
        BY <1>5, <3>1, <3>2 DEF ReceiveCallback, Held, One, Device
    <3> QED
        BY <1>5, <2>2, <3>1, <3>2, <3>3, RefAcquire DEF ReceiveCallback
  <2> QED
      BY <2>1, <2>2
<1>6. ASSUME ReceiveStep, ~Received PROVE RefInv'
  <2>1. recv'.dev = recv.dev
      BY <1>6, ReceiveStepIs DEF ReceiveStep
  <2>2. UNCHANGED <<objects, thread>>
      BY <1>6 DEF ReceiveStep, Enqueue, Match, Copy, Set
  <2> QED
      BY <2>1, <2>2, RefFrom DEF RefView, At, Dev
<1>7. ASSUME Received PROVE RefInv'
  <2>1. recv'.dev = 0 /\ recv.dev \in Device
      BY <1>7 DEF Received, Places, ReceivePlaced, Types, ReceiveTypes, Device
  <2>2. /\ UNCHANGED <<At("app", "idle"), At("app", "adding"), Dev("app"), Dev("callback")>>
        /\ UNCHANGED <<owned, replaced>>
      BY <1>7 DEF At, Dev, Received, Release
  <2>3. \A e \in Device : Held(e)' = IF e = recv.dev THEN Held(e) - 1 ELSE Held(e)
      BY <2>1, <2>2 DEF Held, One, Device
  <2>4. ref_count[recv.dev] > 0
      BY <1>0, <2>1 DEF Held, One
  <2> QED
      BY <1>7, <2>1, <2>2, <2>3, <2>4, RefRelease DEF Received, Release
<1> QED
    BY <1>1, <1>2, <1>3, <1>4, <1>5, <1>6, <1>7

LEMMA RefStep == Types /\ Places /\ RefInv /\ [Next]_vars => RefInv'
<1> SUFFICES ASSUME Types, Places, RefInv, [Next]_vars PROVE RefInv'
    OBVIOUS
<1>1. CASE AppStep
    BY <1>1, RefStepThread, RefStepApp DEF AppStep, Thread
<1>2. CASE AppChoice
    BY <1>2, RefStepApp, RefStepCount DEF AppChoice
<1>3. CASE CallbackStep
    BY <1>3, RefStepThread, RefStepCount DEF CallbackStep, Thread
<1>4. CASE ReceiveStep \/ Receive \/ ReceiveCallback
    BY <1>4, RefStepCount
<1>5. CASE UNCHANGED vars
    BY <1>5, RefFrom DEF vars, RefView, At, Dev
<1> QED
    BY <1>1, <1>2, <1>3, <1>4, <1>5 DEF Next

(***************************************************************************)
(* The callback queue                                                      *)
(***************************************************************************)

QueueInv == queue + One(recv.at = "callback") <= callbacks

LEMMA QueueStep == Types /\ Places /\ QueueInv /\ [Next]_vars => QueueInv'
<1> SUFFICES ASSUME Types, Places, QueueInv, [Next]_vars PROVE QueueInv'
    OBVIOUS
<1> USE DEF QueueInv, One, bounds
<1>0. queue \in Nat /\ callbacks \in Nat
    BY RequestsAssumption DEF Types, ReceiveTypes
<1>1. ASSUME NEW t \in Thread, Step(t) PROVE QueueInv'
    BY <1>1, StepIs DEF Aside
<1>2. CASE AppStep
    BY <1>1, <1>2 DEF AppStep, Thread, Replace, Finish
<1>3. CASE AppChoice
  <2>1. UNCHANGED <<queue, recv, callbacks>>
    <3>1. Call => UNCHANGED <<queue, recv, callbacks>>
        BY DEF Call
    <3>2. AddDevice \/ DestroyDevice => UNCHANGED <<queue, recv, callbacks>>
        BY DEF AddDevice, DestroyDevice
    <3>3. SetResponseExpected => UNCHANGED <<queue, recv, callbacks>>
        BY DEF SetResponseExpected
    <3> QED
        BY <1>3, <3>1, <3>2, <3>3 DEF AppChoice
  <2> QED
      BY <2>1
<1>4. CASE CallbackStep
    BY <1>0, <1>1, <1>4 DEF CallbackStep, Thread, Dispatch, Dispatched
<1>5. CASE Receive
    BY <1>0, <1>5 DEF Receive
<1>6. CASE ReceiveCallback
    BY <1>0, <1>6 DEF ReceiveCallback
<1>7. CASE ReceiveStep
  <2>1. recv.at # "callback" \/ Enqueue
      BY <1>7 DEF ReceiveStep, Match, Copy, Set, Received
  <2>2. recv'.at # "callback"
      BY <1>7, ReceiveStepIs DEF ReceiveStep
  <2>3. CASE Enqueue
      BY <1>0, <2>2, <2>3 DEF Enqueue
  <2>4. CASE ~Enqueue
      BY <1>0, <1>7, <2>1, <2>2, <2>4 DEF ReceiveStep, Match, Copy, Set, Received
  <2> QED
      BY <2>3, <2>4
<1>8. CASE UNCHANGED vars
    BY <1>8 DEF vars
<1> QED
    BY <1>2, <1>3, <1>4, <1>5, <1>6, <1>7, <1>8 DEF Next

(***************************************************************************)
(* Whose answer it is                                                      *)
(***************************************************************************)

\* t is the thread that waits with request_mutex in its hands, or is about to
Holds(t) == thread[t].expected /\ thread[t].at \in {"send", "wait", "clear", "reset", "read"}

\* The packet is the response to the request of the thread, or that request
Awaits(t, p) == p.tag = thread[t].tag /\ p.fn = thread[t].fn

\* response_packet is looked at next time, or was when the event was seen
Answered(t) ==
    event[Dev(t)] \/ (thread[t].at \in {"clear", "reset", "read"} /\ thread[t].ret = "OK")

\* A packet with the number of a thread in flight belongs to that thread
Answer(t) ==
    /\ At(t, "send") /\ Room(thread[t].fn) > 0 => thread[t].expected
    /\ At(t, "read") => thread[t].ret = "OK"
    /\ InFlight(t) => \A p \in net : p.seq = thread[t].seq => Awaits(t, p)
    /\ InFlight(t) /\ recv.packet.seq = thread[t].seq => Awaits(t, recv.packet)
    /\ Holds(t) /\ Answered(t) /\ packet[Dev(t)].seq = thread[t].seq
       => Awaits(t, packet[Dev(t)])
    /\ /\ thread[t].ret = "OK" /\ Room(thread[t].fn) > 0
       /\ At(t, "judge") \/ (At(t, "done") /\ thread[t].fn = "function")
       => /\ thread[t].got.tag = thread[t].tag /\ thread[t].got.fn = thread[t].fn
          /\ thread[t].got.error = 0
          /\ thread[t].got.payload = Room(thread[t].fn)

NumbersDiffer ==
    \A t, u \in Thread : t # u /\ InFlight(t) /\ InFlight(u) => thread[t].seq # thread[u].seq

AnswerInv ==
    /\ call.payload > 0 => \A d \in Device : flag[d] = "always_true"
    /\ NumbersDiffer
    /\ recv.at = "set" => packet[recv.dev] = recv.packet
    /\ \A t \in Thread : Answer(t)

LEMMA AnswerInit == Init => AnswerInv
<1> SUFFICES ASSUME Init PROVE AnswerInv
    OBVIOUS
<1>1. PICK c \in Calls :
         /\ call = [identity |-> c.identity, payload |-> c.payload, checked |-> c.checked]
         /\ flag = [d \in Device |-> c.flag]
    BY DEF Init
<1>2. call.payload > 0 => \A d \in Device : flag[d] = "always_true"
    BY <1>1, RequestsAssumption
<1>3. \A t \in Thread : thread[t] = Idle
    BY DEF Init
<1>4. recv.at = "idle"
    BY DEF Init
<1>5. NumbersDiffer /\ \A t \in Thread : Answer(t)
    BY <1>3, IdleIs DEF NumbersDiffer, InFlight, Answer, At, Holds
<1> QED
    BY <1>2, <1>4, <1>5 DEF AnswerInv

\* What the steps of a function do to what threads share
LEMMA SharedIs ==
    ASSUME Types, Places, NEW t \in Thread, Step(t)
    PROVE  /\ UNCHANGED <<call, flag, recv, packet>>
           /\ \A d \in Device : event'[d] => event[d]
           /\ \A p \in net' : \/ p \in net
                              \/ At(t, "send") /\ p = [fn |-> thread[t].fn, seq |-> thread[t].seq,
                                                       tag |-> thread[t].tag]
<1>1. UNCHANGED <<call, flag, recv, packet>>
  <2>1. Check(t) \/ LockIdentity(t) \/ Judge(t) \/ Verdict(t) => UNCHANGED <<flag, packet>>
      BY DEF Check, LockIdentity, Judge, Verdict, device
  <2>2. Header(t) \/ Expect(t) \/ Send(t) \/ SendFails(t) => UNCHANGED <<flag, packet>>
      BY DEF Header, Expect, Send, SendFails, device
  <2>3. Wake(t) \/ Timeout(t) \/ Clear(t) \/ Reset(t) \/ Read(t) => UNCHANGED <<flag, packet>>
      BY DEF Wake, Timeout, Clear, Reset, Read, device
  <2> QED
      BY <2>1, <2>2, <2>3, StepIs DEF Step, Aside
<1>2. \A d \in Device : event'[d] => event[d]
  <2>1. Check(t) \/ LockIdentity(t) \/ Judge(t) \/ Verdict(t) => UNCHANGED event
      BY DEF Check, LockIdentity, Judge, Verdict, device
  <2>2. Header(t) \/ Send(t) \/ SendFails(t) => UNCHANGED event
      BY DEF Header, Send, SendFails, device
  <2>3. Wake(t) \/ Timeout(t) \/ Clear(t) \/ Read(t) => UNCHANGED event
      BY DEF Wake, Timeout, Clear, Read, device
  <2>4. Expect(t) \/ Reset(t) => event' = [event EXCEPT ![Dev(t)] = FALSE]
      BY DEF Expect, Reset
  <2>5. ASSUME event' = [event EXCEPT ![Dev(t)] = FALSE], NEW d \in Device, event'[d]
        PROVE  event[d]
      BY <2>5 DEF Types, DeviceTypes
  <2> QED
      BY <2>1, <2>2, <2>3, <2>4, <2>5 DEF Step
<1>3. ASSUME NEW p \in net'
      PROVE  \/ p \in net
             \/ At(t, "send") /\ p = [fn |-> thread[t].fn, seq |-> thread[t].seq,
                                      tag |-> thread[t].tag]
  <2>1. CASE Header(t)
      BY <2>1 DEF Header
  <2>2. CASE Send(t)
      BY <2>2 DEF Send
  <2>3. CASE ~Header(t) /\ ~Send(t)
    <3>1. UNCHANGED net
        BY <2>3 DEF Step, Check, LockIdentity, Judge, Verdict, Expect, SendFails, Wake,
           Timeout, Clear, Reset, Read
    <3> QED
        BY <3>1
  <2> QED
      BY <2>1, <2>2, <2>3
<1> QED
    BY <1>1, <1>2, <1>3

LEMMA AnswerOthers ==
    ASSUME Types, Places, AnswerInv, NEW t \in Thread, Step(t), NEW u \in Thread, u # t
    PROVE  Answer(u)'
<1> DEFINE own == [fn |-> thread[t].fn, seq |-> thread[t].seq, tag |-> thread[t].tag]
<1>1. /\ thread'[u] = thread[u] /\ UNCHANGED <<call, recv, packet>>
      /\ \A d \in Device : event'[d] => event[d]
      /\ \A p \in net' : p \in net \/ (At(t, "send") /\ p = own)
    BY StepIs, SharedIs DEF Aside, Others
<1>2. Answer(u) /\ Placed(u)
    BY DEF AnswerInv, Places
<1>3. ASSUME InFlight(u), NEW p \in net', p.seq = thread[u].seq PROVE Awaits(u, p)
  <2>1. CASE p \in net
      BY <1>2, <1>3, <2>1 DEF Answer
  <2>2. CASE At(t, "send") /\ p = own
      BY <1>3, <2>2 DEF AnswerInv, NumbersDiffer, InFlight, At
  <2> QED
      BY <1>1, <2>1, <2>2
<1>4. Holds(u) => Dev(u) \in Device
    BY <1>2 DEF Placed, Holds, At
<1>5. Holds(u) /\ Answered(u)' => Answered(u)
    BY <1>1, <1>4 DEF Answered, Dev
<1> QED
    BY <1>1, <1>2, <1>3, <1>5 DEF Answer, At, InFlight, Holds, Awaits, Room, Dev

\* The check of a device is no part of a request
LEMMA CheckLeaves ==
    ASSUME Types, Places, NEW t \in Thread,
           Check(t) \/ LockIdentity(t) \/ Judge(t) \/ Verdict(t)
    PROVE  /\ thread'[t].at \in {"lock", "verdict", "header", "done"}
           /\ thread'[t].at = "done" /\ thread'[t].fn = "function"
              => thread'[t].ret # "OK"
           /\ thread'[t].ret \in {thread[t].ret, "OK", "DEVICE_REPLACED", "WRONG_DEVICE_TYPE"}
<1>1. CASE Check(t)
  <2>1. \/ Return(t, "done", "DEVICE_REPLACED")
        \/ Goto(t, "lock") \/ Goto(t, "verdict")
      BY <1>1 DEF Check
  <2> QED
      BY <2>1, GotoIs, ReturnIs DEF Place, Result, Moves
<1>2. CASE LockIdentity(t)
  <2>1. CASE check[Dev(t)] = "pending"
      BY <1>2, <2>1, StartIs DEF LockIdentity, Function
  <2>2. CASE check[Dev(t)] # "pending"
      BY <1>2, <2>2, GotoIs DEF LockIdentity, Place, Moves
  <2> QED
      BY <2>1, <2>2
<1>3. CASE Judge(t)
  <2>1. CASE thread[t].ret = "OK"
    <3>1. thread' = [thread EXCEPT ![t] = [Idle EXCEPT !.at = "verdict", !.dev = Dev(t)]]
        BY <1>3, <2>1 DEF Judge
    <3>2. thread'[t].at = "verdict" /\ thread'[t].ret = "OK"
        BY <3>1 DEF Types, ThreadTypes, Idle
    <3> QED
        BY <3>2
  <2>2. CASE thread[t].ret # "OK"
      BY <1>3, <2>2, GotoIs DEF Judge, Place, Moves
  <2> QED
      BY <2>1, <2>2
<1>4. CASE Verdict(t)
  <2>1. CASE check[Dev(t)] = "mismatch"
      BY <1>4, <2>1, ReturnIs DEF Verdict, Place, Result, Moves
  <2>2. CASE check[Dev(t)] # "mismatch" /\ t = "callback"
      BY <1>4, <2>2, GotoIs DEF Verdict, Place, Moves, SameFunction, Places, Placed
  <2>3. CASE check[Dev(t)] # "mismatch" /\ t # "callback"
      BY <1>4, <2>3, StartIs DEF Verdict, Function
  <2> QED
      BY <2>1, <2>2, <2>3
<1> QED
    BY <1>1, <1>2, <1>3, <1>4

LEMMA AnswerCheck ==
    ASSUME Types, Places, AnswerInv, NEW t \in Thread,
           Check(t) \/ LockIdentity(t) \/ Judge(t) \/ Verdict(t)
    PROVE  Answer(t)' /\ ~InFlight(t)'
    BY CheckLeaves DEF Answer, At, InFlight, Holds

LEMMA AnswerHeader ==
    ASSUME Types, Places, AnswerInv, NEW t \in Thread, Header(t)
    PROVE  Answer(t)' /\ NumbersDiffer'
<1> DEFINE seq == next + 1
           expects == IF thread[t].fn = "identity" THEN call.identity ELSE flag[Dev(t)]
<1>1. /\ Others(t) /\ thread'[t].fn = thread[t].fn /\ thread'[t].seq = seq
      /\ thread'[t].expected = (expects \in {"always_true", "true"})
      /\ thread'[t].ret = IF expects = "invalid" THEN "INVALID_PARAMETER" ELSE "OK"
      /\ thread'[t].at = IF expects = "invalid" THEN After(t)
                         ELSE IF expects = "false" THEN "send" ELSE "expect"
    BY HeaderIs DEF SameFunction
<1>2. /\ UNCHANGED <<call, recv>> /\ net' = {p \in net : p.seq # seq}
      /\ recv.packet.seq # seq /\ \A u \in Thread : InFlight(u) => thread[u].seq # seq
    BY DEF Header, Gone
<1>3. ASSUME expects = "false" PROVE ~(Room(thread[t].fn) > 0)
  <2>1. /\ Dev(t) \in Device /\ thread[t].fn # "none"
        /\ call.identity \in {"always_true", "invalid"} /\ call.payload \in Nat
      BY DEF Header, At, Places, Placed, Types, ObjectTypes
  <2>2. thread[t].fn # "identity" /\ flag[Dev(t)] = "false"
      BY <1>3, <2>1
  <2> QED
      BY <2>1, <2>2 DEF AnswerInv, Room
<1>4. After(t) \in {"judge", "done"}
    BY DEF After
<1> HIDE DEF seq, expects
<1>5. NumbersDiffer'
  <2>1. \A u \in Thread : u # t => (InFlight(u)' = InFlight(u)) /\ thread'[u] = thread[u]
      BY <1>1 DEF Others, InFlight
  <2> QED
      BY <1>1, <1>2, <2>1 DEF AnswerInv, NumbersDiffer
<1>6. CASE expects = "invalid"
  <2>1. thread'[t].at \in {"judge", "done"} /\ thread'[t].ret # "OK"
      BY <1>1, <1>4, <1>6
  <2> QED
      BY <1>5, <2>1 DEF Answer, At, InFlight, Holds
<1>7. CASE expects = "false"
  <2>1. /\ thread'[t].at = "send" /\ thread'[t].seq = seq /\ thread'[t].fn = thread[t].fn
      BY <1>1, <1>7
  <2>2. ~thread'[t].expected
      BY <1>1, <1>7
  <2>3. ~(Room(thread[t].fn) > 0)' /\ ~Holds(t)'
      BY <1>2, <1>3, <1>7, <2>1, <2>2 DEF Room, Holds
  <2> QED
      BY <1>2, <1>5, <2>1, <2>3 DEF Answer, At
<1>8. CASE expects \notin {"invalid", "false"}
  <2>1. thread'[t].at = "expect" /\ thread'[t].seq = seq
      BY <1>1, <1>8
  <2> QED
      BY <1>2, <1>5, <2>1 DEF Answer, At, Holds
<1> QED
    BY <1>6, <1>7, <1>8

LEMMA AnswerRequest ==
    ASSUME Types, Places, AnswerInv, NEW t \in Thread,
           Expect(t) \/ Send(t) \/ SendFails(t) \/ Wake(t) \/ Timeout(t)
    PROVE  Answer(t)' /\ thread'[t].seq = thread[t].seq
<1>0. /\ Answer(t) /\ Placed(t) /\ Dev(t) \in Device
      /\ UNCHANGED <<call, recv, packet>> /\ After(t) \in {"judge", "done"}
      /\ After(t) \in Place
    BY SharedIs DEF AnswerInv, Places, Placed, Step, Expect, Send, SendFails, Wake, Timeout, At,
       After, Place
<1>1. CASE Expect(t)
  <2>1. Moves(t, "send", thread[t].ret) /\ UNCHANGED net /\ At(t, "expect")
      BY <1>1, GotoIs DEF Expect, Place
  <2>2. thread[t].expected /\ ~event'[Dev(t)]
      BY <1>0, <1>1, <2>1 DEF Expect, Types, DeviceTypes, Placed, InFlight, At
  <2>3. ~Answered(t)'
      BY <2>1, <2>2 DEF Answered, Moves, SameFunction, Dev
  <2> QED
      BY <1>0, <2>1, <2>2, <2>3 DEF Answer, At, InFlight, Awaits, Moves, SameFunction, SameRequest
<1>2. CASE Send(t) /\ thread[t].expected
  <2>1. /\ Moves(t, "wait", thread[t].ret) /\ At(t, "send") /\ UNCHANGED event
        /\ net' = net \cup {[fn |-> thread[t].fn, seq |-> thread[t].seq, tag |-> thread[t].tag]}
      BY <1>2, GotoIs DEF Send, Place, device
  <2>2. ASSUME NEW p \in net', p.seq = thread[t].seq PROVE Awaits(t, p)
      BY <1>0, <2>1, <2>2 DEF Answer, Awaits, InFlight, At
  <2>3. Answered(t)' = Answered(t) /\ Holds(t)
      BY <1>2, <2>1 DEF Answered, Moves, SameFunction, Dev, At, Holds
  <2> QED
      BY <1>0, <2>1, <2>2, <2>3 DEF Answer, At, InFlight, Awaits, Dev, Moves, SameFunction,
         SameRequest
<1>3. CASE Send(t) /\ ~thread[t].expected
  <2>1. Moves(t, After(t), "OK") /\ At(t, "send")
      BY <1>0, <1>3, ReturnIs DEF Send, Result
  <2>2. ~(Room(thread[t].fn) > 0) /\ Room(thread[t].fn)' = Room(thread[t].fn)
      BY <1>0, <1>3, <2>1 DEF Answer, Room, Moves, SameFunction
  <2> QED
      BY <1>0, <2>1, <2>2 DEF Answer, At, InFlight, Holds, Moves, SameRequest
<1>4. CASE SendFails(t)
  <2>1. Moves(t, After(t), "NOT_CONNECTED")
      BY <1>0, <1>4, ReturnIs DEF SendFails, Result
  <2> QED
      BY <1>0, <2>1 DEF Answer, At, InFlight, Holds, Moves, SameRequest
<1>5. CASE Wake(t)
  <2>1. Moves(t, "clear", "OK") /\ At(t, "wait") /\ event[Dev(t)] /\ UNCHANGED net
      BY <1>5, ReturnIs DEF Wake, Place, Result
  <2>2. Answered(t) /\ Holds(t)
      BY <1>0, <2>1 DEF Answered, Holds, Placed, InFlight, At
  <2> QED
      BY <1>0, <2>1, <2>2 DEF Answer, At, InFlight, Awaits, Dev, Moves, SameFunction, SameRequest
<1>6. CASE Timeout(t)
  <2>1. /\ Moves(t, "clear", "TIMEOUT") /\ At(t, "wait") /\ ~event[Dev(t)]
        /\ UNCHANGED <<net, event>>
      BY <1>6, ReturnIs DEF Timeout, Place, Result, device
  <2>2. ~Answered(t)'
      BY <2>1 DEF Answered, Moves, SameFunction, Dev
  <2> QED
      BY <1>0, <2>1, <2>2 DEF Answer, At, InFlight, Awaits, Moves, SameFunction, SameRequest
<1> QED
    BY <1>1, <1>2, <1>3, <1>4, <1>5, <1>6

LEMMA AnswerRead ==
    ASSUME Types, Places, AnswerInv, NEW t \in Thread, Clear(t) \/ Reset(t) \/ Read(t)
    PROVE  Answer(t)' /\ thread'[t].seq = thread[t].seq
<1>5. At(t, "clear") \/ At(t, "reset") \/ At(t, "read")
    BY Zenon DEF Clear, Reset, Read
<1>6. UNCHANGED <<call, recv, packet>>
    BY SharedIs DEF Step
<1>0. /\ Answer(t) /\ Placed(t) /\ Dev(t) \in Device
      /\ UNCHANGED <<call, recv, packet>> /\ After(t) \in {"judge", "done"}
      /\ After(t) \in Place
    BY <1>5, <1>6 DEF AnswerInv, Places, Placed, At, After, Place
<1>1. CASE Clear(t)
  <2>1. Moves(t, "reset", thread[t].ret) /\ At(t, "clear") /\ UNCHANGED <<net, event>>
      BY <1>1, GotoIs DEF Clear, Place
  <2>2. Answered(t)' = Answered(t) /\ Holds(t)
      BY <1>0, <2>1 DEF Answered, Holds, Moves, SameFunction, Dev, At, Placed, InFlight
  <2> QED
      BY <1>0, <2>1, <2>2 DEF Answer, At, InFlight, Awaits, Dev, Moves, SameFunction, SameRequest
<1>2. CASE Reset(t) /\ thread[t].ret = "OK"
  <2>1. Moves(t, "read", thread[t].ret) /\ At(t, "reset") /\ UNCHANGED net
      BY <1>2, GotoIs DEF Reset, Place
  <2>2. Answered(t) /\ Holds(t)
      BY <1>0, <1>2, <2>1 DEF Answered, Holds, At, Placed, InFlight
  <2> QED
      BY <1>0, <1>2, <2>1, <2>2 DEF Answer, At, InFlight, Awaits, Dev, Moves, SameFunction,
         SameRequest
<1>3. CASE Reset(t) /\ thread[t].ret # "OK"
  <2>1. Moves(t, After(t), thread[t].ret)
      BY <1>0, <1>3, GotoIs DEF Reset
  <2> QED
      BY <1>0, <1>3, <2>1 DEF Answer, At, InFlight, Holds, Moves, SameRequest
<1>4. CASE Read(t)
  <2> DEFINE p == packet[Dev(t)]
             ret == Outcome(t, p)
  <2>1. /\ Moves(t, After(t), ret) /\ At(t, "read")
        /\ thread'[t].got = IF ret = "OK" /\ Room(p.fn) > 0 THEN p ELSE thread[t].got
    <3>1. At(t, "read")
        BY <1>4, Zenon DEF Read
    <3> QED
        BY <1>4, <3>1, ReadIs
  <2>2. Answered(t) /\ Holds(t)
      BY <1>0, <2>1 DEF Answer, Answered, Holds, At, Placed, InFlight
  <2>3. ASSUME ret = "OK"
        PROVE  Awaits(t, p) /\ p.error = 0 /\ p.payload = Room(p.fn)
    <3>1. p.seq = thread[t].seq /\ p.error = 0 /\ p.payload = Room(p.fn)
        BY <2>3 DEF Outcome
    <3> QED
        BY <1>0, <2>2, <3>1 DEF Answer
  <2>4. Room(thread[t].fn)' = Room(thread[t].fn)
      BY <1>0, <2>1 DEF Room, Moves, SameFunction
  <2> HIDE DEF p, ret
  <2> QED
      BY <1>0, <2>1, <2>3, <2>4 DEF Answer, At, InFlight, Holds, Awaits, Moves, SameRequest,
         SameFunction
<1> QED
    BY <1>1, <1>2, <1>3, <1>4

\* The other steps of the application and the callback thread
Apart ==
    Replace \/ Finish \/ Call \/ AddDevice \/ DestroyDevice \/ SetResponseExpected
        \/ Dispatch \/ Dispatched

LEMMA ApartIs ==
    ASSUME Apart
    PROVE  /\ UNCHANGED <<call, net, recv, next, late, check, exp, event, packet, busy, checking>>
           /\ flag' = flag \/ SetResponseExpected
<1> USE DEF device
<1>1. CASE Replace
    BY <1>1 DEF Replace
<1>2. CASE Finish
    BY <1>2 DEF Finish
<1>3. CASE Call
    BY <1>3 DEF Call
<1>4. CASE AddDevice
    BY <1>4 DEF AddDevice
<1>5. CASE DestroyDevice
    BY <1>5 DEF DestroyDevice
<1>6. CASE SetResponseExpected
    BY <1>6 DEF SetResponseExpected
<1>7. CASE Dispatch
    BY <1>7 DEF Dispatch
<1>8. CASE Dispatched
    BY <1>8 DEF Dispatched
<1> QED
    BY <1>1, <1>2, <1>3, <1>4, <1>5, <1>6, <1>7, <1>8 DEF Apart

\* They are no part of a request
LEMMA ApartThread ==
    ASSUME Types, Places, Apart, NEW t \in Thread
    PROVE  \/ thread'[t] = thread[t]
           \/ /\ thread[t].at \in {"idle", "adding", "done"}
              /\ thread'[t].at \in {"idle", "adding", "check", "header"}
              /\ thread'[t].ret \in {thread[t].ret, "OK"}
<1>1. thread \in [Thread -> ThreadState] /\ "app" \in Thread /\ "callback" \in Thread
    BY DEF Types, ThreadTypes, Thread
<1>2. CASE Replace \/ Finish
    BY <1>1, <1>2, IdleIs DEF Replace, Finish, At
<1>3. CASE Call
  <2>1. At("app", "idle")
      BY <1>3 DEF Call
  <2> QED
      BY <1>3, <2>1, CallIs DEF Others, At
<1>4. CASE AddDevice
  <2>1. At("app", "idle")
      BY <1>4 DEF AddDevice
  <2> QED
      BY <1>4, <2>1, AddIs DEF Others, At
<1>5. CASE DestroyDevice \/ SetResponseExpected
    BY <1>5 DEF DestroyDevice, SetResponseExpected
<1>6. CASE Dispatch
  <2>1. At("callback", "idle")
      BY <1>6 DEF Dispatch
  <2>2. CASE table = 0
      BY <1>6, <2>2 DEF Dispatch
  <2>3. CASE table # 0
      BY <1>6, <2>1, <2>3, DispatchIs DEF Others, At
  <2> QED
      BY <2>2, <2>3
<1>7. CASE Dispatched
    BY <1>1, <1>7, IdleIs DEF Dispatched, At
<1> QED
    BY <1>2, <1>3, <1>4, <1>5, <1>6, <1>7 DEF Apart

LEMMA AnswerApart ==
    ASSUME Types, Places, AnswerInv, Apart
    PROVE  AnswerInv'
<1>0. thread \in [Thread -> ThreadState] /\ "app" \in Thread /\ "callback" \in Thread
    BY DEF Types, ThreadTypes, Thread
<1>1. UNCHANGED <<call, net, recv, packet, event>> /\ (flag' = flag \/ SetResponseExpected)
    BY ApartIs
<1>2. ASSUME NEW t \in Thread
      PROVE  \/ thread'[t] = thread[t]
             \/ thread'[t].at \in {"idle", "adding", "check", "header"}
    BY ApartThread
<1>3. call.payload > 0 => \A d \in Device : flag'[d] = "always_true"
  <2>1. CASE SetResponseExpected
    <3>1. PICK d \in owned, value \in {"true", "false"} :
             Settable(d) /\ flag' = [flag EXCEPT ![d] = value]
        BY <2>1 DEF SetResponseExpected
    <3>2. ~(call.payload > 0)
        BY <3>1 DEF AnswerInv, Settable, Types, ObjectTypes
    <3> QED
        BY <3>2
  <2>2. CASE ~SetResponseExpected
      BY <1>1, <2>2 DEF AnswerInv
  <2> QED
      BY <2>1, <2>2
<1>4. ASSUME NEW t \in Thread PROVE Answer(t)'
  <2>1. CASE thread'[t] = thread[t]
      BY <1>1, <2>1 DEF AnswerInv, Answer, At, InFlight, Holds, Answered, Awaits, Dev, Room
  <2>2. CASE thread'[t].at \in {"idle", "adding", "check", "header"}
      BY <2>2 DEF Answer, At, InFlight, Holds
  <2> QED
      BY <1>2, <2>1, <2>2
<1>5. NumbersDiffer'
  <2>1. \A t \in Thread : InFlight(t)' => thread'[t] = thread[t]
      BY <1>2 DEF InFlight
  <2> QED
      BY <2>1 DEF AnswerInv, NumbersDiffer, InFlight
<1> QED
    BY <1>1, <1>3, <1>4, <1>5 DEF AnswerInv

LEMMA AnswerReceive ==
    ASSUME Types, Places, AnswerInv, ReceiveStep \/ Receive \/ ReceiveCallback
    PROVE  AnswerInv'
<1>1. UNCHANGED <<call, flag, thread>>
  <2>1. ReceiveStep => UNCHANGED <<call, flag, thread>>
      BY DEF ReceiveStep, Enqueue, Match, Copy, Set, Received, device
  <2>2. Receive \/ ReceiveCallback => UNCHANGED <<call, flag, thread>>
      BY DEF Receive, ReceiveCallback, device
  <2> QED
      BY <2>1, <2>2
<1>2. \A p \in net' : p \in net
  <2>1. ReceiveStep \/ ReceiveCallback => UNCHANGED net
      BY DEF ReceiveStep, Enqueue, Match, Copy, Set, Received, ReceiveCallback
  <2>2. Receive => net' \subseteq net
      BY DEF Receive
  <2> QED
      BY <2>1, <2>2
<1>3. \/ recv'.packet = recv.packet
      \/ recv'.packet.seq = 0
      \/ Receive /\ \E request \in net :
            /\ recv'.packet.seq = request.seq /\ recv'.packet.fn = request.fn
            /\ recv'.packet.tag = request.tag
  <2>1. CASE ReceiveStep
      BY <2>1, ReceiveStepIs DEF ReceiveStep, NoPacket
  <2>2. CASE ReceiveCallback
      BY <2>2 DEF ReceiveCallback, NoPacket
  <2>3. CASE Receive
    <3>1. PICK request \in net :
             IF table = 0 THEN UNCHANGED recv
             ELSE \E p \in Response(request) :
                     recv' = [at |-> "match", dev |-> table, packet |-> p]
        BY <2>3 DEF Receive
    <3>2. CASE table = 0
        BY <3>1, <3>2
    <3>3. CASE table # 0
      <4>1. PICK p \in Response(request) : recv' = [at |-> "match", dev |-> table, packet |-> p]
          BY <3>1, <3>3
      <4> QED
          BY <2>3, <4>1, ResponseIs
    <3> QED
        BY <3>2, <3>3
  <2> QED
      BY <2>1, <2>2, <2>3
<1>4. recv'.at = "set" => packet'[recv'.dev] = recv'.packet
  <2>1. CASE Copy
    <3>1. packet' = [packet EXCEPT ![recv.dev] = recv.packet] /\ recv.dev \in Device
        BY <2>1 DEF Copy, Places, ReceivePlaced, Types, ReceiveTypes, Device
    <3> QED
        BY <2>1, <3>1, ReceiveStepIs DEF ReceiveStep, Types, DeviceTypes
  <2>2. CASE ~Copy
      BY <2>2, ReceiveStepIs, <1>3 DEF ReceiveStep, Receive, ReceiveCallback, AnswerInv
  <2> QED
      BY <2>1, <2>2
<1>5. ASSUME NEW t \in Thread, InFlight(t), recv'.packet.seq = thread[t].seq
      PROVE  Awaits(t, recv'.packet)
  <2>1. Answer(t) /\ thread[t].seq > 0
      BY <1>5 DEF AnswerInv, Places, Placed
  <2> QED
      BY <1>3, <1>5, <2>1 DEF Answer, Awaits
<1>6. ASSUME NEW t \in Thread, Holds(t), Answered(t)', packet'[Dev(t)].seq = thread[t].seq
      PROVE  Awaits(t, packet'[Dev(t)])
  <2>1. Answer(t) /\ thread[t].seq > 0 /\ InFlight(t) /\ Dev(t) \in Device
      BY <1>6 DEF AnswerInv, Places, Placed, Holds, InFlight, At
  <2>2. CASE Copy
    <3>1. packet' = [packet EXCEPT ![recv.dev] = recv.packet] /\ UNCHANGED event
        BY <2>2 DEF Copy
    <3>2. CASE Dev(t) = recv.dev
        BY <1>6, <2>1, <3>1, <3>2 DEF Answer, Types, DeviceTypes
    <3>3. CASE Dev(t) # recv.dev
        BY <1>1, <1>6, <2>1, <3>1, <3>3 DEF Answer, Types, DeviceTypes, Answered, Dev
    <3> QED
        BY <3>2, <3>3
  <2>3. CASE Set
    <3>1. event' = [event EXCEPT ![recv.dev] = TRUE] /\ UNCHANGED packet /\ recv.at = "set"
        BY <2>3 DEF Set
    <3>2. CASE Dev(t) = recv.dev
        BY <1>6, <2>1, <3>1, <3>2 DEF Answer, AnswerInv
    <3>3. CASE Dev(t) # recv.dev
        BY <1>1, <1>6, <2>1, <3>1, <3>3 DEF Answer, Types, DeviceTypes, Answered, Dev
    <3> QED
        BY <3>2, <3>3
  <2>4. CASE ~Copy /\ ~Set
    <3>1. UNCHANGED <<packet, event>>
        BY <2>4 DEF ReceiveStep, Enqueue, Match, Received, Receive, ReceiveCallback, device
    <3> QED
        BY <1>1, <1>6, <2>1, <3>1 DEF Answer, Answered, Dev
  <2> QED
      BY <2>2, <2>3, <2>4
<1>7. ASSUME NEW t \in Thread PROVE Answer(t)'
  <2>1. Answer(t)
      BY DEF AnswerInv
  <2>2. InFlight(t) => \A p \in net' : p.seq = thread[t].seq => Awaits(t, p)
      BY <1>2, <2>1 DEF Answer
  <2> QED
      BY <1>1, <1>5, <1>6, <2>1, <2>2 DEF Answer, At, InFlight, Holds, Awaits, Dev, Room
<1> QED
    BY <1>1, <1>4, <1>7 DEF AnswerInv, NumbersDiffer, InFlight

LEMMA AnswerStep == Types /\ Places /\ AnswerInv /\ [Next]_vars => AnswerInv'
<1> SUFFICES ASSUME Types, Places, AnswerInv, [Next]_vars PROVE AnswerInv'
    OBVIOUS
<1>1. ASSUME NEW t \in Thread, Step(t) PROVE AnswerInv'
  <2>1. /\ call.payload > 0 => \A d \in Device : flag[d] = "always_true"
        /\ recv.at = "set" => packet[recv.dev] = recv.packet
        /\ UNCHANGED <<call, flag, recv, packet>>
      BY <1>1, SharedIs DEF AnswerInv
  <2>2. Answer(t)'
      BY <1>1, AnswerCheck, AnswerHeader, AnswerRequest, AnswerRead DEF Step
  <2>3. NumbersDiffer'
    <3>1. CASE Header(t)
        BY <3>1, AnswerHeader
    <3>2. CASE ~Header(t)
      <4>1. InFlight(t)' => InFlight(t) /\ thread'[t].seq = thread[t].seq
        <5>1. CASE Check(t) \/ LockIdentity(t) \/ Judge(t) \/ Verdict(t)
            BY <5>1, AnswerCheck
        <5>2. CASE Expect(t) \/ Send(t) \/ SendFails(t) \/ Wake(t) \/ Timeout(t)
            BY <5>2, AnswerRequest DEF Expect, Send, SendFails, Wake, Timeout, At, InFlight
        <5>3. CASE Clear(t) \/ Reset(t) \/ Read(t)
          <6>1. InFlight(t)
              BY <5>3, Zenon DEF Clear, Reset, Read, At, InFlight
          <6> QED
              BY <5>3, <6>1, AnswerRead
        <5> QED
            BY <1>1, <3>2, <5>1, <5>2, <5>3 DEF Step
      <4>2. \A u \in Thread : u # t => thread'[u] = thread[u]
          BY <1>1, StepIs DEF Aside, Others
      <4> QED
          BY <4>1, <4>2 DEF AnswerInv, NumbersDiffer, InFlight
    <3> QED
        BY <3>1, <3>2
  <2>4. \A u \in Thread : Answer(u)'
      BY <1>1, <2>2, AnswerOthers
  <2> QED
      BY <2>1, <2>3, <2>4 DEF AnswerInv
<1>2. CASE Apart
    BY <1>2, AnswerApart
<1>3. CASE ReceiveStep \/ Receive \/ ReceiveCallback
    BY <1>3, AnswerReceive
<1>4. CASE UNCHANGED vars
  <2>1. UNCHANGED <<call, flag, recv, packet, event, net, thread>>
      BY <1>4 DEF vars, device
  <2> QED
      BY <2>1 DEF AnswerInv, NumbersDiffer, Answer, At, InFlight, Holds, Answered, Awaits, Dev, Room
<1> QED
    BY <1>1, <1>2, <1>3, <1>4 DEF Next, AppStep, AppChoice, CallbackStep, Apart, Thread

(***************************************************************************)
(* Whose identifier it is                                                  *)
(***************************************************************************)

\* Wherever packets are kept, those that pass for an answer to GET_IDENTITY are truthful
TruthInv ==
    /\ Truthful(recv.packet)
    /\ \A d \in Device : Truthful(packet[d])
    /\ \A t \in Thread : Truthful(thread[t].got)

LEMMA NoPacketTruthful == Truthful(NoPacket) /\ Truthful(Idle.got)
    BY DEF Truthful, NoPacket, Idle

\* What a step copies from where
LEMMA CopiesStep ==
    ASSUME Types, Places, NEW t \in Thread, Step(t), NEW u \in Thread
    PROVE  \/ thread'[u].got \in {thread[u].got, NoPacket}
           \/ Dev(u) \in Device /\ thread'[u].got = packet[Dev(u)]
<1>1. thread \in [Thread -> ThreadState] /\ Dev(t) \in 0 .. 2
    BY DEF Types, ThreadTypes, ThreadState, Dev
<1>2. CASE u # t
    BY <1>2, StepIs DEF Aside, Others
<1>3. CASE u = t
  <2>1. CASE Check(t)
      BY <1>3, <2>1, ReturnIs, GotoIs DEF Check, Place, Result
  <2>2. CASE LockIdentity(t)
      BY <1>3, <2>2, StartIs, GotoIs DEF LockIdentity, Place, Function
  <2>3. CASE Judge(t)
    <3>1. CASE thread[t].ret = "OK"
      <4>1. thread' = [thread EXCEPT ![t] = [Idle EXCEPT !.at = "verdict", !.dev = Dev(t)]]
          BY <2>3, <3>1 DEF Judge
      <4>2. thread'[t].got = NoPacket
          BY <1>1, <4>1 DEF Idle
      <4> QED
          BY <1>3, <4>2
    <3>2. CASE thread[t].ret # "OK"
        BY <1>3, <2>3, <3>2, GotoIs DEF Judge, Place
    <3> QED
        BY <3>1, <3>2
  <2>4. CASE Verdict(t)
      BY <1>3, <2>4, ReturnIs, GotoIs, StartIs DEF Verdict, Place, Result, Function
  <2>5. CASE Header(t)
      BY <1>3, <2>5, HeaderIs
  <2>6. CASE Expect(t) \/ Clear(t)
      BY <1>3, <2>6, GotoIs DEF Expect, Clear, Place
  <2>7. CASE Send(t) \/ SendFails(t)
      BY <1>3, <2>7, GotoIs, ReturnIs DEF Send, SendFails, After, Place, Result
  <2>8. CASE Wake(t) \/ Timeout(t)
      BY <1>3, <2>8, ReturnIs DEF Wake, Timeout, Place, Result
  <2>9. CASE Reset(t)
      BY <1>3, <2>9, GotoIs DEF Reset, After, Place
  <2>10. CASE Read(t)
    <3>1. Dev(t) \in Device
      <4>1. At(t, "read")
          BY <2>10, Zenon DEF Read
      <4> QED
          BY <4>1 DEF Places, Placed, At
    <3> QED
        BY <1>3, <2>10, <3>1, ReadIs
  <2> QED
      BY <2>1, <2>2, <2>3, <2>4, <2>5, <2>6, <2>7, <2>8, <2>9, <2>10 DEF Step
<1> QED
    BY <1>2, <1>3

LEMMA CopiesApart ==
    ASSUME Types, Places, Apart, NEW u \in Thread
    PROVE  thread'[u].got \in {thread[u].got, NoPacket}
<1>1. thread \in [Thread -> ThreadState] /\ "app" \in Thread /\ "callback" \in Thread
    BY DEF Types, ThreadTypes, Thread
<1>2. CASE Replace \/ Finish \/ Dispatched
    BY <1>1, <1>2 DEF Replace, Finish, Dispatched, Idle
<1>3. CASE Call
    BY <1>1, <1>3, CallIs DEF Others
<1>4. CASE AddDevice
    BY <1>1, <1>4, AddIs DEF Others
<1>5. CASE DestroyDevice \/ SetResponseExpected
    BY <1>5 DEF DestroyDevice, SetResponseExpected
<1>6. CASE Dispatch
  <2>1. CASE table = 0
      BY <1>6, <2>1 DEF Dispatch
  <2>2. CASE table # 0
      BY <1>1, <1>6, <2>2, DispatchIs DEF Others
  <2> QED
      BY <2>1, <2>2
<1> QED
    BY <1>2, <1>3, <1>4, <1>5, <1>6 DEF Apart

LEMMA TruthStep == Types /\ Places /\ TruthInv /\ [Next]_vars => TruthInv'
<1> SUFFICES ASSUME Types, Places, TruthInv, [Next]_vars PROVE TruthInv'
    OBVIOUS
<1>0. genuine' = genuine
  <2>1. ASSUME NEW t \in Thread, Judge(t) PROVE genuine' = genuine
      BY <2>1 DEF Judge
  <2>2. Next => genuine' = genuine
      BY <2>1, VerdictFrom
  <2> QED
      BY <2>2 DEF vars
<1>1. \A p : Truthful(p) => (p.fn = "identity" /\ p.payload = 25 => p.identifier = Identifier')
    BY <1>0 DEF Truthful, Room, Identifier
<1>2. ASSUME Truthful(recv'.packet), \A d \in Device : Truthful(packet'[d]),
             \A t \in Thread : Truthful(thread'[t].got)
      PROVE  TruthInv'
    BY <1>1, <1>2 DEF TruthInv, Truthful, Room
<1>3. ASSUME NEW t \in Thread, Step(t) PROVE TruthInv'
  <2>1. UNCHANGED <<recv, packet>>
      BY <1>3, SharedIs
  <2>2. \A u \in Thread : Truthful(thread'[u].got)
      BY <1>3, CopiesStep, NoPacketTruthful DEF TruthInv
  <2> QED
      BY <1>2, <2>1, <2>2 DEF TruthInv
<1>4. CASE Apart
  <2>1. UNCHANGED <<recv, packet>>
      BY <1>4, ApartIs
  <2>2. \A u \in Thread : Truthful(thread'[u].got)
      BY <1>4, CopiesApart, NoPacketTruthful DEF TruthInv
  <2> QED
      BY <1>2, <2>1, <2>2 DEF TruthInv
<1>5. CASE ReceiveStep \/ Receive \/ ReceiveCallback
  <2>1. UNCHANGED thread
      BY <1>5 DEF ReceiveStep, Enqueue, Match, Copy, Set, Received, Receive, ReceiveCallback
  <2>2. Truthful(recv'.packet)
    <3>1. CASE ReceiveStep
        BY <3>1, ReceiveStepIs, NoPacketTruthful DEF ReceiveStep, TruthInv
    <3>2. CASE ReceiveCallback
        BY <3>2, NoPacketTruthful DEF ReceiveCallback, TruthInv
    <3>3. CASE Receive
      <4>1. PICK request \in net :
               IF table = 0 THEN UNCHANGED recv
               ELSE \E p \in Response(request) :
                       recv' = [at |-> "match", dev |-> table, packet |-> p]
          BY <3>3 DEF Receive
      <4>2. CASE table = 0
          BY <4>1, <4>2 DEF TruthInv
      <4>3. CASE table # 0
        <5>1. PICK p \in Response(request) :
                  recv' = [at |-> "match", dev |-> table, packet |-> p]
            BY <4>1, <4>3
        <5> QED
            BY <5>1, ResponseIs
      <4> QED
          BY <4>2, <4>3
    <3> QED
        BY <1>5, <3>1, <3>2, <3>3
  <2>3. ASSUME NEW d \in Device PROVE Truthful(packet'[d])
    <3>1. CASE Copy
      <4>1. packet' = [packet EXCEPT ![recv.dev] = recv.packet]
          BY <3>1 DEF Copy
      <4>2. packet'[d] \in {packet[d], recv.packet}
          BY <4>1 DEF Types, DeviceTypes
      <4> QED
          BY <4>2 DEF TruthInv
    <3>2. CASE ~Copy
      <4>1. UNCHANGED packet
          BY <1>5, <3>2 DEF ReceiveStep, Enqueue, Match, Set, Received, Receive,
             ReceiveCallback, device
      <4> QED
          BY <4>1 DEF TruthInv
    <3> QED
        BY <3>1, <3>2
  <2> QED
      BY <1>2, <2>1, <2>2, <2>3 DEF TruthInv
<1>6. CASE UNCHANGED vars
  <2>1. UNCHANGED <<recv, packet, thread>>
      BY <1>6 DEF vars, device
  <2> QED
      BY <1>2, <2>1 DEF TruthInv
<1> QED
    BY <1>3, <1>4, <1>5, <1>6 DEF Next, AppStep, AppChoice, CallbackStep, Apart, Thread

\* The verdict is right because what is judged is an answer to GET_IDENTITY, without an error
\* and complete, and all of those are truthful.
LEMMA VerdictStep ==
    Types /\ Places /\ AnswerInv /\ TruthInv /\ VerdictRight /\ [Next]_vars => VerdictRight'
<1> SUFFICES ASSUME Types, Places, AnswerInv, TruthInv, VerdictRight, [Next]_vars
             PROVE  VerdictRight'
    OBVIOUS
<1>1. ASSUME NEW t \in Thread, Judge(t) PROVE VerdictRight'
  <2>1. Dev(t) \in Device /\ genuine' = genuine /\ thread[t].fn = "identity"
      BY <1>1 DEF Judge, Places, Placed, At
  <2>2. CASE thread[t].ret = "OK"
    <3>1. thread[t].got.fn = "identity" /\ thread[t].got.payload = Room("identity")
      <4>1. Answer(t) /\ Room(thread[t].fn) > 0
          BY <2>1 DEF AnswerInv, Room
      <4> QED
          BY <1>1, <2>1, <2>2, <4>1 DEF Answer, Judge
    <3>2. thread[t].got.identifier = Identifier
        BY <3>1 DEF TruthInv, Truthful
    <3>3. check' = [check EXCEPT ![Dev(t)] = IF genuine THEN "match" ELSE "mismatch"]
        BY <1>1, <2>2, <3>2 DEF Judge, Identifier
    <3> QED
        BY <2>1, <3>3 DEF VerdictRight, Types, DeviceTypes, ObjectTypes
  <2>3. CASE thread[t].ret # "OK"
      BY <1>1, <2>1, <2>3 DEF Judge, VerdictRight
  <2> QED
      BY <2>2, <2>3
<1>2. CASE UNCHANGED <<genuine, check>>
    BY <1>2 DEF VerdictRight
<1> QED
    BY <1>1, <1>2, VerdictFrom DEF vars, device

(***************************************************************************)
(* The results                                                             *)
(***************************************************************************)

Inv == Types /\ Places /\ VerdictRight /\ RefInv /\ QueueInv /\ AnswerInv /\ TruthInv

LEMMA InvInit == Init => Inv
<1> SUFFICES ASSUME Init PROVE Inv
    OBVIOUS
<1>1. VerdictRight
    BY DEF Init, VerdictRight
<1>2. QueueInv
    BY DEF Init, QueueInv, One
<1>3. TruthInv
    BY NoPacketTruthful DEF Init, TruthInv
<1> QED
    BY <1>1, <1>2, <1>3, TypesInit, RefInit, AnswerInit DEF Inv

LEMMA InvStep == Inv /\ [Next]_vars => Inv'
    BY TypesStep, VerdictStep, RefStep, QueueStep, AnswerStep, TruthStep DEF Inv

LEMMA InvAlways == Spec => []Inv
    BY InvInit, InvStep, PTL DEF Spec

LEMMA InvTypeOK == Inv => TypeOK
<1> SUFFICES ASSUME Inv PROVE TypeOK
    OBVIOUS
<1>1. ref_count \in [Device -> 0 .. 3]
  <2>1. ASSUME NEW d \in Device PROVE ref_count[d] \in 0 .. 3
      BY DEF Inv, RefInv, Counted, Held, One
  <2> QED
      BY <2>1 DEF Inv, Types, ObjectTypes
<1>2. queue \in 0 .. MaxCallbacks
    BY RequestsAssumption DEF Inv, Types, ReceiveTypes, QueueInv, One
<1>3. net \subseteq [fn : Function, seq : 1 .. Cycle, tag : Nat]
    BY DEF Inv, Types, ReceiveTypes
<1> QED
    BY <1>1, <1>2, <1>3
       DEF Inv, Types, ObjectTypes, DeviceTypes, ThreadTypes, ReceiveTypes, ThreadState, TypeOK

LEMMA InvAlive == Inv => DevicesAlive
<1> SUFFICES ASSUME Inv PROVE DevicesAlive
    OBVIOUS
<1> USE DEF Inv, RefInv
<1>1. \A d \in Device : d \in freed =>
         d \notin owned /\ Dev("callback") # d /\ recv.dev # d
    BY DEF Counted, Held, One
<1>2. freed \subseteq Device /\ owned \subseteq Device /\ table \in 0 .. 2
    BY DEF Types, ObjectTypes
<1>3. table \notin freed
    BY <1>2 DEF TableHeld, Counted, Device
<1>4. owned \cap freed = {} /\ recv.dev \notin freed /\ Dev("callback") \notin freed
    BY <1>1, <1>2
<1>5. ~At("app", "idle") => Dev("app") \notin freed
  <2>1. CASE At("app", "adding")
    <3>1. Dev("app") = IF 1 \in freed THEN 0 ELSE 1
        BY <2>1 DEF AppHolds
    <3> QED
        BY <1>2, <3>1 DEF Device
  <2>2. CASE ~At("app", "adding")
      BY <1>4, <2>2 DEF AppHolds
  <2> QED
      BY <2>1, <2>2
<1> QED
    BY <1>3, <1>4, <1>5 DEF DevicesAlive, Thread

\* Sequence numbers fit the header's field, reference counts stay between none and the
\* three holders there are, and all else has its type.
THEOREM TypeCorrect == Spec => []TypeOK
    BY InvAlways, InvTypeOK, PTL

\* What a function of a driver, or the check of the identity, unpacks is the response to its
\* own request, without an error and of the right length, however late responses come and
\* whoever else sends requests to the device (device_send_request).
THEOREM AnswersOwn == Spec => []OwnAnswer
<1>1. Inv => OwnAnswer
    BY DEF Inv, AnswerInv, Answer, OwnAnswer
<1> QED
    BY <1>1, InvAlways, PTL

\* device_check_validity takes no device of the right type for a wrong one, nor the other
\* way round: the identifier it compares is that of the device, out of the complete answer
\* to a request for it, and never out of a packet that is late, too short, an error or
\* the answer to another request.
THEOREM VerdictsRight == Spec => []VerdictRight
<1>1. Inv => VerdictRight
    BY DEF Inv
<1> QED
    BY <1>1, InvAlways, PTL

\* A device object is freed only when the table, the application, the callback thread and
\* the receive thread have all let go of it (device_release).
THEOREM NoDanglingDevice == Spec => []DevicesAlive
    BY InvAlways, InvAlive, PTL

\* The end of a replaced object leaves the table to its successor (device_destroy).
THEOREM SuccessorStays == Spec => []TableCurrent
<1>1. Inv => TableCurrent
    BY DEF Inv, RefInv, TableHeld
<1> QED
    BY <1>1, InvAlways, PTL

(***************************************************************************)
(* Nobody waits in vain.  request_mutex is held by the thread that         *)
(* expects a response through the device                                   *)
(***************************************************************************)

LockInv == \A t \in Thread, d \in Device : busy[d] = t <=> Holds(t) /\ Dev(t) = d

LEMMA LockInit == Init => LockInv
<1> SUFFICES ASSUME Init, NEW t \in Thread, NEW d \in Device
             PROVE  busy[d] = t <=> Holds(t) /\ Dev(t) = d
    BY DEF LockInv
<1>1. busy[d] = "none" /\ thread[t] = Idle
    BY DEF Init
<1> QED
    BY <1>1, IdleIs DEF Holds, Thread

LEMMA LockFrom ==
    ASSUME Types, LockInv, NEW t \in Thread, Others(t), thread'[t].dev = thread[t].dev,
           \/ UNCHANGED busy /\ (Holds(t)' <=> Holds(t))
           \/ /\ Holds(t) /\ ~Holds(t)'
              /\ busy' = [busy EXCEPT ![Dev(t)] = "none"]
    PROVE  LockInv'
<1> SUFFICES ASSUME NEW u \in Thread, NEW d \in Device
             PROVE  busy'[d] = u <=> Holds(u)' /\ thread'[u].dev = d
    BY DEF LockInv, Dev
<1>1. busy[d] = u <=> Holds(u) /\ thread[u].dev = d
    BY DEF LockInv, Dev
<1>2. Holds(t) /\ thread[t].dev = d <=> busy[d] = t
    BY DEF LockInv, Dev
<1>3. u # t => thread'[u] = thread[u] /\ Holds(u)' = Holds(u)
    BY DEF Others, Holds
<1>4. CASE UNCHANGED busy /\ (Holds(t)' <=> Holds(t))
    BY <1>1, <1>3, <1>4
<1>5. CASE Holds(t) /\ ~Holds(t)' /\ busy' = [busy EXCEPT ![Dev(t)] = "none"]
  <2>1. busy'[d] = IF d = thread[t].dev THEN "none" ELSE busy[d]
      BY <1>5 DEF Types, DeviceTypes, Dev
  <2>2. u # "none"
      BY DEF Thread
  <2> QED
      BY <1>1, <1>2, <1>3, <1>5, <2>1, <2>2
<1> QED
    BY <1>4, <1>5

LEMMA UnlockedIs ==
    ASSUME Types, NEW t \in Thread, Unlocked(t)
    PROVE  /\ thread[t].expected => busy' = [busy EXCEPT ![Dev(t)] = "none"]
           /\ ~thread[t].expected => UNCHANGED busy
<1>1. busy' = [busy EXCEPT ![Dev(t)] = IF thread[t].expected THEN "none" ELSE @]
    BY DEF Unlocked
<1>2. busy \in [Device -> Holder]
    BY DEF Types, DeviceTypes
<1>3. CASE thread[t].expected
    BY <1>1, <1>3
<1>4. CASE ~thread[t].expected
    BY <1>1, <1>2, <1>4
<1> QED
    BY <1>3, <1>4

LEMMA LockStepThread ==
    ASSUME Types, Places, LockInv, NEW t \in Thread, Step(t) PROVE LockInv'
<1>0. Others(t) /\ thread'[t].dev = thread[t].dev /\ Placed(t)
    BY StepIs DEF Aside, Places
<1>1. After(t) \in {"judge", "done"} /\ After(t) \in Place
    BY DEF After, Place
<1>2. CASE Check(t) \/ LockIdentity(t) \/ Judge(t) \/ Verdict(t)
  <2>1. ~Holds(t)
      BY <1>2 DEF Check, LockIdentity, Judge, Verdict, Holds, At
  <2>2. UNCHANGED busy
      BY <1>2 DEF Check, LockIdentity, Judge, Verdict, device
  <2>3. ~Holds(t)'
      BY <1>2, CheckLeaves DEF Holds
  <2> QED
      BY <1>0, <2>1, <2>2, <2>3, LockFrom
<1>3. CASE Header(t)
  <2>1. UNCHANGED busy /\ ~Holds(t)
      BY <1>3 DEF Header, device, Holds, At
  <2>2. ~Holds(t)'
      BY <1>1, <1>3, HeaderIs DEF Holds
  <2> QED
      BY <1>0, <2>1, <2>2, LockFrom
<1>4. CASE Expect(t)
  <2>1. /\ thread'[t].at = "send" /\ thread'[t].expected = thread[t].expected
        /\ At(t, "expect") /\ busy[Dev(t)] = "none"
        /\ busy' = [busy EXCEPT ![Dev(t)] = t]
      BY <1>4, GotoIs DEF Expect, Place, Moves, SameRequest
  <2>2. Holds(t)' /\ ~Holds(t) /\ Dev(t) \in Device
      BY <1>0, <2>1 DEF Holds, Placed, InFlight, At
  <2>3. ASSUME NEW u \in Thread, NEW d \in Device
        PROVE  busy'[d] = u <=> Holds(u)' /\ thread'[u].dev = d
    <3>1. busy[d] = u <=> Holds(u) /\ thread[u].dev = d
        BY DEF LockInv, Dev
    <3>2. u # t => thread'[u] = thread[u] /\ Holds(u)' = Holds(u)
        BY <1>0 DEF Others, Holds
    <3>3. busy'[d] = IF d = thread[t].dev THEN t ELSE busy[d]
        BY <2>1 DEF Types, DeviceTypes, Dev
    <3>4. d = thread[t].dev => busy[d] # u
        BY <2>1 DEF Dev, Thread
    <3>5. CASE u = t
        BY <1>0, <2>2, <3>1, <3>3, <3>5
    <3>6. CASE u # t
        BY <3>1, <3>2, <3>3, <3>4, <3>6
    <3> QED
        BY <3>5, <3>6
  <2> QED
      BY <2>3 DEF LockInv, Dev
<1>5. CASE Send(t)
  <2>1. UNCHANGED busy /\ At(t, "send")
      BY <1>5 DEF Send, device
  <2>2. CASE thread[t].expected
    <3>1. Moves(t, "wait", thread[t].ret)
        BY <1>5, <2>2, GotoIs DEF Send, Place
    <3>2. Holds(t) /\ Holds(t)'
        BY <2>1, <2>2, <3>1 DEF Holds, Moves, SameRequest, At
    <3> QED
        BY <1>0, <2>1, <3>2, LockFrom
  <2>3. CASE ~thread[t].expected
    <3>1. Moves(t, After(t), "OK")
        BY <1>1, <1>5, <2>3, ReturnIs DEF Send, Result
    <3>2. ~Holds(t) /\ ~Holds(t)'
        BY <1>1, <2>3, <3>1 DEF Holds, Moves
    <3> QED
        BY <1>0, <2>1, <3>2, LockFrom
  <2> QED
      BY <2>2, <2>3
<1>6. CASE SendFails(t)
  <2>1. Moves(t, After(t), "NOT_CONNECTED") /\ Unlocked(t) /\ At(t, "send")
      BY <1>1, <1>6, ReturnIs DEF SendFails, Result
  <2>2. ~Holds(t)' /\ (Holds(t) <=> thread[t].expected)
      BY <1>1, <2>1 DEF Holds, Moves, At
  <2>3. CASE thread[t].expected
      BY <1>0, <2>1, <2>2, <2>3, LockFrom, UnlockedIs
  <2>4. CASE ~thread[t].expected
    <3>1. UNCHANGED busy
        BY <2>1, <2>4, UnlockedIs
    <3> QED
        BY <1>0, <2>2, <2>4, <3>1, LockFrom
  <2> QED
      BY <2>3, <2>4
<1>7. CASE Wake(t) \/ Timeout(t) \/ Clear(t)
  <2>1. UNCHANGED busy
      BY <1>7 DEF Wake, Timeout, Clear, device
  <2>2. \/ At(t, "wait") /\ \E ret \in Result : Moves(t, "clear", ret)
        \/ At(t, "clear") /\ Moves(t, "reset", thread[t].ret)
      BY <1>7, ReturnIs, GotoIs DEF Wake, Timeout, Clear, Place, Result
  <2>3. Holds(t)' = Holds(t)
      BY <2>2 DEF Holds, Moves, SameRequest, At
  <2> QED
      BY <1>0, <2>1, <2>3, LockFrom
<1>8. CASE Reset(t)
  <2>1. At(t, "reset") /\ Holds(t)
      BY <1>0, <1>8 DEF Reset, Placed, InFlight, At, Holds
  <2>2. CASE thread[t].ret = "OK"
    <3>1. Moves(t, "read", thread[t].ret) /\ UNCHANGED busy
        BY <1>8, <2>2, GotoIs DEF Reset, Place
    <3>2. Holds(t)'
        BY <2>1, <3>1 DEF Holds, Moves, SameRequest
    <3> QED
        BY <1>0, <2>1, <3>1, <3>2, LockFrom
  <2>3. CASE thread[t].ret # "OK"
    <3>1. Moves(t, After(t), thread[t].ret) /\ Unlocked(t)
        BY <1>1, <1>8, <2>3, GotoIs DEF Reset
    <3>2. ~Holds(t)'
        BY <1>1, <3>1 DEF Holds, Moves
    <3> QED
        BY <1>0, <2>1, <3>1, <3>2, LockFrom, UnlockedIs DEF Holds
  <2> QED
      BY <2>2, <2>3
<1>9. CASE Read(t)
  <2>1. At(t, "read") /\ Unlocked(t)
      BY <1>9, Zenon DEF Read
  <2>2. Holds(t) /\ thread[t].expected
      BY <1>0, <2>1 DEF Placed, InFlight, At, Holds
  <2>3. ~Holds(t)'
      BY <1>1, <1>9, ReadIs DEF Moves, Holds
  <2> QED
      BY <1>0, <2>1, <2>2, <2>3, LockFrom, UnlockedIs
<1> QED
    BY <1>2, <1>3, <1>4, <1>5, <1>6, <1>7, <1>8, <1>9 DEF Step

LEMMA LockStep == Types /\ Places /\ LockInv /\ [Next]_vars => LockInv'
<1> SUFFICES ASSUME Types, Places, LockInv, [Next]_vars PROVE LockInv'
    OBVIOUS
<1>1. CASE Apart
  <2>1. UNCHANGED busy
      BY <1>1, ApartIs
  <2>2. ASSUME NEW t \in Thread
        PROVE  \/ Holds(t)' = Holds(t) /\ thread'[t].dev = thread[t].dev
               \/ ~Holds(t)' /\ ~Holds(t)
      BY <1>1, ApartThread DEF Holds
  <2> QED
      BY <2>1, <2>2 DEF LockInv, Dev
<1>2. CASE ReceiveStep \/ Receive \/ ReceiveCallback \/ UNCHANGED vars
  <2>1. UNCHANGED <<thread, busy>>
    <3>1. ReceiveStep => UNCHANGED <<thread, busy>>
        BY DEF ReceiveStep, Enqueue, Match, Copy, Set, Received, device
    <3>2. Receive \/ ReceiveCallback => UNCHANGED <<thread, busy>>
        BY DEF Receive, ReceiveCallback, device
    <3>3. UNCHANGED vars => UNCHANGED <<thread, busy>>
        BY DEF vars, device
    <3> QED
        BY <1>2, <3>1, <3>2, <3>3
  <2> QED
      BY <2>1 DEF LockInv, Holds, Dev
<1> QED
    BY <1>1, <1>2, LockStepThread DEF Next, AppStep, AppChoice, CallbackStep, Apart, Thread

(***************************************************************************)
(* ... and its response finds it, unless a request waited until its time   *)
(* was over                                                                *)
(***************************************************************************)

InTime == ~late /\ (call.checked \/ replaced = {})

Mine(t, p) == p.seq = thread[t].seq /\ Awaits(t, p)

Owner(t, p) == At(t, "wait") /\ Mine(t, p)

\* No packet with the number of the thread is under way
Quiet(t) == recv.packet.seq # thread[t].seq /\ \A p \in net : p.seq # thread[t].seq

\* Every packet under way belongs to a thread that waits, and the receive thread takes it to
\* the object at which it waits
Claimed ==
    /\ \A p \in net : \E t \in Thread : Owner(t, p)
    /\ recv.packet.seq # 0 => \E t \in Thread :
          /\ Owner(t, recv.packet)
          /\ recv.dev = 1 \/ recv.at # "match" => Dev(t) = recv.dev

Distinct ==
    /\ \A p \in net : p.seq # recv.packet.seq
    /\ \A p, q \in net : p.seq = q.seq => p = q

\* What is expected at the object of a thread that waits, and what it finds there
Served(t) ==
    /\ At(t, "expect") \/ At(t, "send") => Quiet(t)
    /\ Holds(t) /\ (At(t, "send") \/ At(t, "wait")) =>
         /\ exp[Dev(t)] = <<Id(thread[t].fn), thread[t].seq>>
         /\ event[Dev(t)] => At(t, "wait") /\ Mine(t, packet[Dev(t)]) /\ Quiet(t)
    /\ At(t, "clear") \/ At(t, "reset") \/ At(t, "read") =>
         thread[t].ret = "OK" /\ Mine(t, packet[Dev(t)])
    /\ thread[t].ret # "TIMEOUT"

WaitInv == Claimed /\ Distinct /\ \A t \in Thread : Served(t)

LEMMA WaitInit == Init => WaitInv
<1> SUFFICES ASSUME Init PROVE WaitInv
    OBVIOUS
<1>1. net = {} /\ recv.packet.seq = 0
    BY DEF Init, NoPacket
<1>2. \A t \in Thread : thread[t] = Idle
    BY DEF Init
<1>3. \A t \in Thread : Served(t)
    BY <1>2, IdleIs DEF Served, Holds, At
<1> QED
    BY <1>1, <1>3 DEF WaitInv, Claimed, Distinct

\* A thread that does not move
LEMMA ServedFrom ==
    ASSUME NEW t \in Thread, Served(t), thread'[t] = thread[t], UNCHANGED call,
           InFlight(t) /\ Quiet(t) => Quiet(t)',
           Holds(t) /\ (At(t, "send") \/ At(t, "wait")) =>
              exp'[Dev(t)] = exp[Dev(t)] /\ (event'[Dev(t)] => event[Dev(t)]),
           InFlight(t) /\ ~At(t, "expect") => packet'[Dev(t)] = packet[Dev(t)]
    PROVE  Served(t)'
<1>1. At(t, "expect") \/ At(t, "send") => Quiet(t)'
    BY DEF Served, InFlight, At
<1>2. CASE Holds(t) /\ (At(t, "send") \/ At(t, "wait"))
  <2>1. exp'[Dev(t)] = <<Id(thread[t].fn), thread[t].seq>>
      BY <1>2 DEF Served
  <2>2. ASSUME event'[Dev(t)]
        PROVE  At(t, "wait") /\ Mine(t, packet'[Dev(t)]) /\ Quiet(t)'
      BY <1>2, <2>2 DEF Served, InFlight, At
  <2> QED
      BY <1>1, <1>2, <2>1, <2>2 DEF Served, At, Holds, Dev, Mine, Awaits, Id
<1>3. CASE ~(Holds(t) /\ (At(t, "send") \/ At(t, "wait")))
    BY <1>1, <1>3 DEF Served, At, Holds, Dev, Mine, Awaits, InFlight
<1> QED
    BY <1>2, <1>3

\* A step of a thread may change what is expected at its own object only
LEMMA ExpectedIs ==
    ASSUME NEW t \in Thread, Step(t)
    PROVE  \/ UNCHANGED exp
           \/ Expect(t) /\ exp' = [exp EXCEPT ![Dev(t)] = <<Id(thread[t].fn), thread[t].seq>>]
           \/ Clear(t) /\ exp' = [exp EXCEPT ![Dev(t)] = <<"none", 0>>]
<1>1. Check(t) \/ LockIdentity(t) \/ Judge(t) \/ Verdict(t) => UNCHANGED exp
    BY DEF Check, LockIdentity, Judge, Verdict, device
<1>2. Header(t) \/ Send(t) \/ SendFails(t) => UNCHANGED exp
    BY DEF Header, Send, SendFails, device
<1>3. Wake(t) \/ Timeout(t) \/ Reset(t) \/ Read(t) => UNCHANGED exp
    BY DEF Wake, Timeout, Reset, Read, device
<1>4. Expect(t) => exp' = [exp EXCEPT ![Dev(t)] = <<Id(thread[t].fn), thread[t].seq>>]
    BY DEF Expect
<1>5. Clear(t) => exp' = [exp EXCEPT ![Dev(t)] = <<"none", 0>>]
    BY DEF Clear
<1> QED
    BY <1>1, <1>2, <1>3, <1>4, <1>5 DEF Step

LEMMA ServedOthers ==
    ASSUME Types, Places, AnswerInv, LockInv, NEW t \in Thread, Step(t),
           NEW u \in Thread, u # t, Served(u)
    PROVE  Served(u)'
<1>1. /\ thread'[u] = thread[u] /\ UNCHANGED <<call, recv, packet>>
      /\ \A d \in Device : event'[d] => event[d]
      /\ \A p \in net' : \/ p \in net
                         \/ At(t, "send") /\ p = [fn |-> thread[t].fn, seq |-> thread[t].seq,
                                                  tag |-> thread[t].tag]
    BY StepIs, SharedIs DEF Aside, Others
<1>2. Placed(u) /\ Placed(t)
    BY DEF Places
<1>3. ASSUME InFlight(u), Quiet(u) PROVE Quiet(u)'
  <2>1. At(t, "send") => thread[t].seq # thread[u].seq
      BY <1>3 DEF AnswerInv, NumbersDiffer, InFlight, At
  <2> QED
      BY <1>1, <1>3, <2>1 DEF Quiet
<1>4. ASSUME Holds(u)
      PROVE  exp'[Dev(u)] = exp[Dev(u)] /\ (event'[Dev(u)] => event[Dev(u)])
  <2>1. Dev(u) \in Device
      BY <1>2, <1>4 DEF Placed, Holds, At
  <2>2. Expect(t) => Dev(u) # Dev(t)
      BY <1>4, <2>1 DEF Expect, LockInv, Thread
  <2>3. Clear(t) => Dev(u) # Dev(t)
    <3>1. Clear(t) => Holds(t)
        BY <1>2 DEF Clear, At, Holds, Placed, InFlight
    <3> QED
        BY <1>4, <2>1, <3>1 DEF LockInv
  <2>4. exp'[Dev(u)] = exp[Dev(u)]
      BY <2>1, <2>2, <2>3, ExpectedIs DEF Types, DeviceTypes
  <2> QED
      BY <1>1, <2>1, <2>4
<1> QED
    BY <1>1, <1>3, <1>4, ServedFrom

LEMMA ServedSelf ==
    ASSUME Types, Places, AnswerInv, NEW t \in Thread, Step(t), Served(t), ~late'
    PROVE  Served(t)'
<1>0. /\ Placed(t) /\ UNCHANGED <<call, recv, packet>> /\ thread'[t].dev = thread[t].dev
      /\ Others(t)
    BY SharedIs, StepIs DEF Aside, Places
<1>1. After(t) \in {"judge", "done"} /\ After(t) \in Place
    BY DEF After, Place
<1>2. ASSUME thread'[t].at \notin {"expect", "send", "wait", "clear", "reset", "read"},
             thread'[t].ret # "TIMEOUT"
      PROVE  Served(t)'
    BY <1>2 DEF Served, At
<1>3. CASE Check(t) \/ LockIdentity(t) \/ Judge(t) \/ Verdict(t)
    BY <1>2, <1>3, CheckLeaves DEF Served
<1>4. CASE Header(t)
  <2>1. /\ thread'[t].seq = next + 1
        /\ \/ thread'[t].at = After(t) /\ thread'[t].ret # "TIMEOUT"
           \/ thread'[t].at = "expect" /\ thread'[t].ret # "TIMEOUT"
           \/ thread'[t].at = "send" /\ thread'[t].ret # "TIMEOUT" /\ ~thread'[t].expected
      BY <1>4, HeaderIs
  <2>2. recv.packet.seq # next + 1 /\ net' = {p \in net : p.seq # next + 1}
      BY <1>4 DEF Header, Gone
  <2>3. Quiet(t)'
      BY <1>0, <2>1, <2>2 DEF Quiet
  <2> QED
      BY <1>1, <1>2, <2>1, <2>3 DEF Served, At, Holds
<1>5. CASE Expect(t)
  <2>1. /\ Moves(t, "send", thread[t].ret) /\ At(t, "expect") /\ UNCHANGED net
        /\ event' = [event EXCEPT ![Dev(t)] = FALSE]
        /\ exp' = [exp EXCEPT ![Dev(t)] = <<Id(thread[t].fn), thread[t].seq>>]
      BY <1>5, GotoIs DEF Expect, Place
  <2>2. Dev(t) \in Device
      BY <1>0, <2>1 DEF Placed, At
  <2>3. ~event'[Dev(t)] /\ exp'[Dev(t)] = <<Id(thread[t].fn), thread[t].seq>>
      BY <2>1, <2>2 DEF Types, DeviceTypes
  <2>4. Quiet(t)'
      BY <1>0, <2>1 DEF Served, Quiet, Moves, SameRequest
  <2> QED
      BY <1>0, <2>1, <2>3, <2>4 DEF Served, At, Dev, Id, Moves, SameRequest, SameFunction
<1>6. CASE Send(t) /\ thread[t].expected
  <2>1. Moves(t, "wait", thread[t].ret) /\ At(t, "send") /\ UNCHANGED <<exp, event>>
      BY <1>6, GotoIs DEF Send, Place, device
  <2>2. /\ ~event[Dev(t)] /\ exp[Dev(t)] = <<Id(thread[t].fn), thread[t].seq>>
        /\ thread[t].ret # "TIMEOUT"
      BY <1>6, <2>1 DEF Served, Holds, At
  <2> QED
      BY <1>0, <2>1, <2>2 DEF Served, At, Dev, Id, Moves, SameRequest, SameFunction
<1>7. CASE Send(t) /\ ~thread[t].expected
  <2>1. Moves(t, After(t), "OK")
      BY <1>1, <1>7, ReturnIs DEF Send, Result
  <2> QED
      BY <1>1, <1>2, <2>1 DEF Moves
<1>8. CASE SendFails(t)
  <2>1. Moves(t, After(t), "NOT_CONNECTED")
      BY <1>1, <1>8, ReturnIs DEF SendFails, Result
  <2> QED
      BY <1>1, <1>2, <2>1 DEF Moves
<1>9. CASE Wake(t)
  <2>1. Moves(t, "clear", "OK") /\ At(t, "wait") /\ event[Dev(t)]
      BY <1>9, ReturnIs DEF Wake, Place, Result
  <2>2. Mine(t, packet[Dev(t)])
      BY <1>0, <2>1 DEF Served, Holds, At, Placed, InFlight
  <2>3. Mine(t, packet[Dev(t)])'
      BY <1>0, <2>1, <2>2 DEF Mine, Awaits, Dev, Moves, SameRequest, SameFunction
  <2> QED
      BY <2>1, <2>3 DEF Served, At, Moves
<1>10. CASE Timeout(t)
    BY <1>10 DEF Timeout
<1>11. CASE Clear(t) \/ (Reset(t) /\ thread[t].ret = "OK")
  <2>1. \/ At(t, "clear") /\ Moves(t, "reset", thread[t].ret)
        \/ At(t, "reset") /\ Moves(t, "read", thread[t].ret)
      BY <1>11, GotoIs DEF Clear, Reset, Place
  <2>2. Mine(t, packet[Dev(t)]) /\ thread[t].ret = "OK"
      BY <2>1 DEF Served
  <2>3. Mine(t, packet[Dev(t)])'
      BY <1>0, <2>1, <2>2 DEF Mine, Awaits, Dev, Moves, SameRequest, SameFunction
  <2> QED
      BY <2>1, <2>2, <2>3 DEF Served, At, Moves
<1>12. CASE Reset(t) /\ thread[t].ret # "OK"
  <2>1. At(t, "reset")
      BY <1>12 DEF Reset
  <2> QED
      BY <1>12, <2>1 DEF Served
<1>13. CASE Read(t)
  <2>1. At(t, "read")
      BY <1>13, Zenon DEF Read
  <2>2. Mine(t, packet[Dev(t)])
      BY <2>1 DEF Served
  <2>3. Outcome(t, packet[Dev(t)]) # "TIMEOUT"
      BY <2>2 DEF Outcome, Mine, Awaits
  <2> QED
      BY <1>1, <1>2, <1>13, <2>3, ReadIs DEF Moves
<1> QED
    BY <1>3, <1>4, <1>5, <1>6, <1>7, <1>8, <1>9, <1>10, <1>11, <1>12, <1>13 DEF Step

LEMMA WaitStepThread ==
    ASSUME Types, Places, AnswerInv, LockInv, WaitInv, NEW t \in Thread, Step(t), ~late'
    PROVE  WaitInv'
<1> DEFINE own == [fn |-> thread[t].fn, seq |-> thread[t].seq, tag |-> thread[t].tag]
<1>1. Others(t) /\ UNCHANGED recv
    BY StepIs DEF Aside
<1>2. \A u \in Thread : Served(u)'
    BY ServedSelf, ServedOthers DEF WaitInv
<1>3. ASSUME NEW p, NEW u \in Thread, Owner(u, p), p \in net \/ p = recv.packet
      PROVE  u # t
  <2>1. CASE Wake(t)
    <3>1. Holds(t) /\ event[Dev(t)] /\ At(t, "wait")
        BY <2>1 DEF Wake, Places, Placed, InFlight, At, Holds
    <3>2. Quiet(t)
        BY <3>1 DEF WaitInv, Served
    <3> QED
        BY <1>3, <3>2 DEF Quiet, Owner, Mine
  <2>2. CASE ~Wake(t)
    <3>1. ~At(t, "wait")
      <4>1. ~Timeout(t)
          BY DEF Timeout
      <4>2. CASE Read(t)
        <5>1. At(t, "read")
            BY <4>2, Zenon DEF Read
        <5> QED
            BY <5>1 DEF At
      <4>3. CASE ~Read(t)
          BY <2>2, <4>1, <4>3 DEF Step, Check, LockIdentity, Judge, Verdict, Header, Expect, Send,
             SendFails, Clear, Reset, At
      <4> QED
          BY <4>2, <4>3
    <3> QED
        BY <1>3, <3>1 DEF Owner
  <2> QED
      BY <2>1, <2>2
<1>4. ASSUME NEW p, NEW u \in Thread, Owner(u, p), p \in net \/ p = recv.packet
      PROVE  Owner(u, p)' /\ Dev(u)' = Dev(u)
  <2>1. thread'[u] = thread[u]
      BY <1>1, <1>3, <1>4 DEF Others
  <2> QED
      BY <1>4, <2>1 DEF Owner, Mine, Awaits, At, Dev
<1>5. \/ net' \subseteq net
      \/ /\ At(t, "send") /\ thread'[t].at = "wait" /\ SameRequest(t) /\ SameFunction(t)
         /\ net' = net \cup {own}
  <2>1. CASE Send(t) /\ thread[t].expected
    <3>1. Moves(t, "wait", thread[t].ret)
        BY <2>1, GotoIs DEF Send, Place
    <3> QED
        BY <2>1, <3>1 DEF Moves, Send
  <2>2. CASE Send(t) /\ ~thread[t].expected
      BY <2>2 DEF Send
  <2>3. CASE ~Send(t)
    <3>1. \A p \in net' : p \in net
        BY <2>3 DEF Step, Check, LockIdentity, Judge, Verdict, Header, Expect, SendFails, Wake,
           Timeout, Clear, Reset, Read
    <3> QED
        BY <3>1
  <2> QED
      BY <2>1, <2>2, <2>3
<1>6. CASE net' \subseteq net
  <2>1. Distinct'
      BY <1>1, <1>6 DEF WaitInv, Distinct
  <2>2. Claimed'
      BY <1>1, <1>4, <1>6 DEF WaitInv, Claimed
  <2> QED
      BY <1>2, <2>1, <2>2 DEF WaitInv
<1>7. CASE /\ At(t, "send") /\ thread'[t].at = "wait" /\ SameRequest(t) /\ SameFunction(t)
           /\ net' = net \cup {own}
  <2>1. Quiet(t)
      BY <1>7 DEF WaitInv, Served
  <2>2. ASSUME NEW p, p = own PROVE Owner(t, p)'
      BY <1>7, <2>2 DEF Owner, Mine, Awaits, SameRequest, SameFunction, At
  <2>3. Distinct'
      BY <1>1, <1>7, <2>1 DEF WaitInv, Distinct, Quiet
  <2>4. ASSUME NEW p \in net' PROVE \E u \in Thread : Owner(u, p)'
    <3>1. CASE p = own
        BY <2>2, <3>1
    <3>2. CASE p \in net
        BY <1>4, <3>2 DEF WaitInv, Claimed
    <3> QED
        BY <1>7, <3>1, <3>2
  <2>5. Claimed'
      BY <1>1, <1>4, <2>4 DEF WaitInv, Claimed
  <2> QED
      BY <1>2, <2>3, <2>5 DEF WaitInv
<1> QED
    BY <1>5, <1>6, <1>7

LEMMA WaitStepApart ==
    ASSUME Types, Places, WaitInv, Apart
    PROVE  WaitInv'
<1>1. UNCHANGED <<call, net, recv, exp, event, packet>>
    BY ApartIs
<1>2. ASSUME NEW t \in Thread
      PROVE  Served(t)' /\ (At(t, "wait") => thread'[t] = thread[t])
  <2>1. CASE thread'[t] = thread[t]
      BY <1>1, <2>1, ServedFrom DEF WaitInv, Quiet
  <2>2. CASE /\ thread[t].at \in {"idle", "adding", "done"}
             /\ thread'[t].at \in {"idle", "adding", "check", "header"}
             /\ thread'[t].ret \in {thread[t].ret, "OK"}
      BY <2>2 DEF WaitInv, Served, At, Holds
  <2> QED
      BY <2>1, <2>2, ApartThread
<1>3. ASSUME NEW p, NEW t \in Thread, Owner(t, p) PROVE Owner(t, p)' /\ Dev(t)' = Dev(t)
    BY <1>2, <1>3 DEF Owner, Mine, Awaits, At, Dev
<1>4. Claimed' /\ Distinct'
    BY <1>1, <1>3 DEF WaitInv, Claimed, Distinct
<1> QED
    BY <1>2, <1>4 DEF WaitInv

\* What is expected at an object is expected by a thread that waits there
MatchesOwner ==
    \A t \in Thread :
        /\ recv.at = "match" /\ exp[recv.dev] = <<Id(recv.packet.fn), recv.packet.seq>>
        /\ Owner(t, recv.packet)
        => Dev(t) = recv.dev

LEMMA WaitStepTake ==
    ASSUME Types, Places, RefInv, WaitInv, Receive \/ ReceiveCallback
    PROVE  WaitInv'
<1>1. UNCHANGED <<call, exp, event, packet, thread>> /\ recv.at = "idle"
    BY DEF Receive, ReceiveCallback, device
<1>2. recv.packet.seq = 0
    BY <1>1 DEF Places, ReceivePlaced, NoPacket
<1>3. \A p \in net : p.seq # 0
    BY DEF Types, ReceiveTypes
<1>4. ASSUME NEW t \in Thread, InFlight(t) /\ Quiet(t) => Quiet(t)'
      PROVE  Served(t)'
    BY <1>1, <1>4, ServedFrom DEF WaitInv
<1>5. CASE net' \subseteq net /\ recv'.packet.seq = 0
  <2>1. \A t \in Thread : Served(t)'
    <3>1. \A t \in Thread : InFlight(t) => thread[t].seq # 0
        BY DEF Places, Placed
    <3> QED
        BY <1>1, <1>4, <1>5, <3>1 DEF Quiet
  <2>2. Claimed' /\ Distinct'
      BY <1>1, <1>3, <1>5 DEF WaitInv, Claimed, Distinct, Owner, Mine, Awaits, At
  <2> QED
      BY <2>1, <2>2 DEF WaitInv
<1>6. ASSUME NEW request \in net, NEW p \in Response(request), table # 0,
             net' = net \ {request}, recv' = [at |-> "match", dev |-> table, packet |-> p]
      PROVE  WaitInv'
  <2>1. p.fn = request.fn /\ p.seq = request.seq /\ p.tag = request.tag
      BY ResponseIs
  <2>2. ASSUME NEW t \in Thread, Quiet(t) PROVE Quiet(t)'
      BY <1>1, <1>6, <2>1, <2>2 DEF Quiet
  <2>3. Distinct'
      BY <1>6, <2>1 DEF WaitInv, Distinct
  <2>4. PICK t \in Thread : Owner(t, request)
      BY DEF WaitInv, Claimed
  <2>5. Owner(t, p)
      BY <2>1, <2>4 DEF Owner, Mine, Awaits
  <2>6. recv'.dev = 1 => Dev(t) = 1
    <3>1. SUFFICES ASSUME table = 1 PROVE Dev(t) = 1
        BY <1>6
    <3>2. ref_count[2] = 0
        BY <3>1 DEF RefInv, TableHeld, Fresh
    <3>3. 2 \notin owned /\ Dev("callback") # 2
        BY <3>2 DEF RefInv, Counted, Held, One, Device
    <3>4. Dev(t) \in Device /\ (t = "app" => Dev(t) \in owned)
        BY <2>4 DEF Owner, Places, Placed, At, RefInv, AppHolds
    <3> QED
        BY <3>3, <3>4 DEF Device, Thread
  <2>7. Claimed'
      BY <1>1, <1>6, <2>5, <2>6 DEF WaitInv, Claimed, Owner, Mine, Awaits, At, Dev
  <2> QED
      BY <1>4, <2>2, <2>3, <2>7 DEF WaitInv
<1>7. CASE Receive
  <2>1. PICK request \in net :
          /\ net' = net \ {request}
          /\ IF table = 0 THEN UNCHANGED recv
             ELSE \E p \in Response(request) :
                     recv' = [at |-> "match", dev |-> table, packet |-> p]
      BY <1>7 DEF Receive
  <2>2. CASE table = 0
      BY <1>2, <1>5, <2>1, <2>2
  <2>3. CASE table # 0
      BY <1>6, <2>1, <2>3
  <2> QED
      BY <2>2, <2>3
<1>8. CASE ReceiveCallback
    BY <1>2, <1>5, <1>8 DEF ReceiveCallback, NoPacket
<1> QED
    BY <1>7, <1>8

LEMMA WaitStepReceive ==
    ASSUME Types, Places, AnswerInv, LockInv, WaitInv, MatchesOwner, ReceiveStep
    PROVE  WaitInv'
<1>1. UNCHANGED <<call, net, thread, exp>>
    BY DEF ReceiveStep, Enqueue, Match, Copy, Set, Received, device
<1>2. \/ recv'.packet = recv.packet /\ recv'.dev = recv.dev
      \/ recv'.packet = NoPacket
    BY ReceiveStepIs DEF ReceiveStep
<1>3. \A t \in Thread : Placed(t)
    BY DEF Places
<1>4. ASSUME NEW t \in Thread, InFlight(t), Quiet(t) PROVE Quiet(t)'
    BY <1>1, <1>2, <1>3, <1>4 DEF Quiet, NoPacket, Placed
<1>5. Distinct'
  <2>1. \A p \in net : p.seq # 0
      BY DEF Types, ReceiveTypes
  <2> QED
      BY <1>1, <1>2, <2>1 DEF WaitInv, Distinct, NoPacket
<1>6. Claimed'
  <2>1. \A p : \A t \in Thread : Owner(t, p)' <=> Owner(t, p)
      BY <1>1 DEF Owner, Mine, Awaits, At
  <2>2. CASE recv'.packet = NoPacket
      BY <1>1, <2>1, <2>2 DEF WaitInv, Claimed, NoPacket
  <2>3. CASE recv'.packet = recv.packet /\ recv'.dev = recv.dev
    <3>1. recv.packet.seq # 0 => \E t \in Thread :
             /\ Owner(t, recv.packet)
             /\ recv.dev = 1 \/ recv'.at # "match" => Dev(t) = recv.dev
      <4>1. CASE Match
        <5>1. CASE exp[recv.dev] = <<Id(recv.packet.fn), recv.packet.seq>>
            BY <4>1, <5>1 DEF Match, MatchesOwner, WaitInv, Claimed
        <5>2. CASE exp[recv.dev] # <<Id(recv.packet.fn), recv.packet.seq>>
          <6>1. recv' = [recv EXCEPT !.at = "release", !.packet = NoPacket]
              BY <4>1, <5>2 DEF Match
          <6>2. recv'.packet = NoPacket
              BY <6>1 DEF Types, ReceiveTypes
          <6> QED
              BY <2>3, <6>2 DEF NoPacket
        <5> QED
            BY <5>1, <5>2
      <4>2. CASE ~Match
        <5>1. recv.at # "match"
            BY <4>2 DEF ReceiveStep, Enqueue, Copy, Set, Received
        <5> QED
            BY <5>1 DEF WaitInv, Claimed
      <4> QED
          BY <4>1, <4>2
    <3> QED
        BY <1>1, <2>1, <2>3, <3>1 DEF WaitInv, Claimed, Dev
  <2> QED
      BY <1>2, <2>2, <2>3
<1>7. ASSUME recv.at \in {"copy", "set"}
      PROVE  \E t \in Thread :
                /\ Owner(t, recv.packet) /\ Dev(t) = recv.dev /\ Holds(t)
                /\ \A u \in Thread : Holds(u) /\ Dev(u) = recv.dev => u = t
  <2>1. recv.packet.seq # 0 /\ recv.at # "match"
      BY <1>7 DEF Places, ReceivePlaced, Types, ReceiveTypes
  <2>2. PICK t \in Thread : Owner(t, recv.packet) /\ Dev(t) = recv.dev
      BY <2>1 DEF WaitInv, Claimed
  <2>3. Holds(t) /\ Dev(t) \in Device
      BY <1>3, <2>2 DEF Owner, At, Placed, InFlight, Holds
  <2>4. \A u \in Thread : Holds(u) /\ Dev(u) = recv.dev => u = t
      BY <2>2, <2>3 DEF LockInv
  <2> QED
      BY <2>2, <2>3, <2>4
<1>8. ASSUME NEW u \in Thread PROVE Served(u)'
  <2>1. Served(u) /\ Placed(u)
      BY DEF WaitInv, Places
  <2>2. CASE Copy
    <3>1. packet' = [packet EXCEPT ![recv.dev] = recv.packet] /\ UNCHANGED event /\ recv.at = "copy"
        BY <2>2 DEF Copy
    <3>2. PICK t \in Thread : /\ Owner(t, recv.packet) /\ Dev(t) = recv.dev /\ Holds(t)
                              /\ \A v \in Thread : Holds(v) /\ Dev(v) = recv.dev => v = t
        BY <1>7, <3>1
    <3>3. CASE Holds(u) /\ Dev(u) = recv.dev
      <4>1. u = t /\ At(u, "wait") /\ ~Quiet(u)
          BY <3>2, <3>3 DEF Owner, Mine, Quiet
      <4>2. ~event[Dev(u)] /\ exp[Dev(u)] = <<Id(thread[u].fn), thread[u].seq>>
          BY <2>1, <3>3, <4>1 DEF Served
      <4> QED
          BY <1>1, <2>1, <3>1, <4>1, <4>2 DEF Served, At, Dev, Id
    <3>4. CASE ~(Holds(u) /\ Dev(u) = recv.dev)
      <4>1. InFlight(u) /\ ~At(u, "expect") /\ Holds(u) => packet'[Dev(u)] = packet[Dev(u)]
        <5>1. InFlight(u) => Dev(u) \in Device
            BY <2>1 DEF InFlight, Placed, At
        <5> QED
            BY <3>1, <3>4, <5>1 DEF Types, DeviceTypes
      <4>2. CASE Holds(u) \/ ~InFlight(u) \/ At(u, "expect")
          BY <1>1, <1>4, <2>1, <3>1, <4>1, <4>2, ServedFrom
      <4>3. CASE ~Holds(u) /\ InFlight(u) /\ ~At(u, "expect")
        <5>1. At(u, "send") /\ thread[u].ret # "TIMEOUT"
            BY <2>1, <4>3 DEF Placed, Holds, InFlight, At, Served
        <5> QED
            BY <1>1, <1>4, <2>1, <4>3, <5>1 DEF Served, At, Holds
      <4> QED
          BY <4>2, <4>3
    <3> QED
        BY <3>3, <3>4
  <2>3. CASE Set
    <3>1. event' = [event EXCEPT ![recv.dev] = TRUE] /\ UNCHANGED packet /\ recv.at = "set"
        BY <2>3 DEF Set
    <3>2. PICK t \in Thread : /\ Owner(t, recv.packet) /\ Dev(t) = recv.dev /\ Holds(t)
                              /\ \A v \in Thread : Holds(v) /\ Dev(v) = recv.dev => v = t
        BY <1>7, <3>1
    <3>3. CASE Holds(u) /\ Dev(u) = recv.dev
      <4>1. u = t /\ At(u, "wait") /\ Mine(u, packet[Dev(u)])
          BY <3>1, <3>2, <3>3 DEF Owner, AnswerInv
      <4>2. exp[Dev(u)] = <<Id(thread[u].fn), thread[u].seq>>
          BY <2>1, <3>3, <4>1 DEF Served
      <4>3. Quiet(u)'
        <5>1. recv'.packet = NoPacket /\ thread[u].seq > 0
            BY <2>1, <2>3, <4>1, ReceiveStepIs DEF Placed, InFlight, At
        <5>2. \A p \in net : p.seq # thread[u].seq
            BY <3>2, <4>1 DEF WaitInv, Distinct, Owner, Mine
        <5> QED
            BY <1>1, <5>1, <5>2 DEF Quiet, NoPacket
      <4> QED
          BY <1>1, <2>1, <3>1, <4>1, <4>2, <4>3 DEF Served, At, Dev, Id, Mine, Awaits
    <3>4. CASE ~(Holds(u) /\ Dev(u) = recv.dev)
      <4>1. Holds(u) => event'[Dev(u)] = event[Dev(u)]
        <5>1. Holds(u) => Dev(u) \in Device
            BY <2>1 DEF Holds, Placed, At
        <5> QED
            BY <3>1, <3>4, <5>1 DEF Types, DeviceTypes
      <4> QED
          BY <1>1, <1>4, <2>1, <3>1, <4>1, ServedFrom
    <3> QED
        BY <3>3, <3>4
  <2>4. CASE ~Copy /\ ~Set
    <3>1. UNCHANGED <<event, packet>>
        BY <2>4 DEF ReceiveStep, Enqueue, Match, Received, device
    <3> QED
        BY <1>1, <1>4, <2>1, <3>1, ServedFrom
  <2> QED
      BY <2>2, <2>3, <2>4
<1> QED
    BY <1>5, <1>6, <1>8 DEF WaitInv

(***************************************************************************)
(* A number that a failed request left behind as expected (SendFails) is   *)
(* not the number of a request to the other object                         *)
(***************************************************************************)

Nothing == <<"none", 0>>

\* The k-th number after s
NumberAfter(s, k) == IF s + k < Cycle THEN s + k ELSE s + k - Cycle

\* The callback thread has got the number for its request if it needs one
Past == thread["callback"].at \notin {"check", "lock", "header"}

\* At most so many requests got a number since the second object expects one
Issued(k) == k <= One(At("app", "expect")) + One(Past)

\* The callback thread works with the object that was replaced
Old == Dev("callback") = 1

\* The application asks a device whose check is over, or for the identity
AppInTime ==
    /\ At("app", "verdict") => check[Dev("app")] # "pending"
    /\ At("app", "header") /\ thread["app"].fn = "function" /\ call.checked
       => check[Dev("app")] # "pending"
    /\ /\ thread["app"].at \in {"lock", "verdict", "header", "judge"} \/ InFlight("app")
       /\ call.checked
       => Dev("app") \notin replaced
    /\ InFlight("app") /\ thread["app"].fn = "identity" => call.identity = "always_true"

\* The second object expects the response to a GET_IDENTITY
Expecting ==
    /\ call.identity = "always_true"
    /\ exp[2][2] > 0
    /\ InFlight("callback") => exp[2][2] # thread["callback"].seq
    /\ check[2] = "pending"
    /\ ~(InFlight("app") /\ thread["app"].fn = "function")
    /\ \E k \in 0 .. 2 : Issued(k) /\ next = NumberAfter(exp[2][2], k)

OldInTime ==
    /\ exp[2] # Nothing => call.checked /\ replaced = {1}
    /\ exp[2][1] = "identity" => Expecting
    /\ At("app", "expect") /\ Dev("app") = 2 /\ thread["app"].fn = "identity"
       => \E k \in 0 .. 1 : Issued(k + 1) /\ next = NumberAfter(thread["app"].seq, k)
    /\ /\ Dev("app") = 2
       /\ At("app", "reset") \/ At("app", "read")
             \/ (At("app", "judge") /\ thread["app"].ret = "OK")
       => exp[2] = Nothing
    /\ /\ Dev("app") = 2 /\ thread["app"].fn = "identity"
       /\ At("app", "header") \/ InFlight("app") \/ At("app", "judge")
       => check[2] = "pending"

StaleInv ==
    /\ Fresh => exp[2] = Nothing
    /\ AppInTime
    /\ Old => OldInTime

LEMMA StaleInit == Init => StaleInv
<1> SUFFICES ASSUME Init PROVE StaleInv
    OBVIOUS
<1>1. exp[2] = Nothing
    BY DEF Init, Device, Nothing
<1>2. thread["app"] = Idle /\ thread["callback"] = Idle
    BY DEF Init, Thread
<1> QED
    BY <1>1, <1>2, IdleIs DEF StaleInv, AppInTime, Old, Dev, At, InFlight

\* The response goes to the object at which its owner waits
\* The response goes to the object at which its owner waits
LEMMA MatchesOwnerIs ==
    ASSUME Types, Places, RefInv, AnswerInv, InTime, StaleInv, WaitInv PROVE MatchesOwner
<1> SUFFICES ASSUME NEW t \in Thread, recv.at = "match", Owner(t, recv.packet),
                    exp[recv.dev] = <<Id(recv.packet.fn), recv.packet.seq>>,
                    Dev(t) # recv.dev
             PROVE  FALSE
    BY DEF MatchesOwner
<1>1. recv.packet.seq # 0 /\ recv.dev \in Device
    BY DEF Places, ReceivePlaced, Types, ReceiveTypes, Device
<1>2. InFlight(t) /\ Placed(t) /\ Dev(t) \in Device /\ At(t, "wait")
    BY DEF Places, Placed, Owner, InFlight, At
<1>3. Dev(t) = 1 /\ recv.dev = 2
  <2>1. PICK u \in Thread : Owner(u, recv.packet) /\ (recv.dev = 1 => Dev(u) = recv.dev)
      BY <1>1 DEF WaitInv, Claimed
  <2>2. thread[u].seq = thread[t].seq /\ InFlight(u)
      BY <2>1 DEF Owner, Mine, InFlight, At
  <2>3. u = t
      BY <1>2, <2>2 DEF AnswerInv, NumbersDiffer
  <2> QED
      BY <1>1, <1>2, <2>1, <2>3 DEF Device
<1>4. CASE t = "app"
  <2>1. 1 \in owned /\ ~At("app", "adding")
      BY <1>2, <1>3, <1>4 DEF RefInv, AppHolds, At
  <2>2. 1 \notin freed /\ ~Fresh
      BY <1>3, <2>1 DEF RefInv, Counted, Held, One, Fresh, Device
  <2>3. replaced = {1}
      BY <2>1, <2>2 DEF RefInv, ReplacedByOther
  <2>4. call.checked
      BY <2>3 DEF InTime
  <2> QED
      BY <1>2, <1>3, <1>4, <2>3, <2>4 DEF StaleInv, AppInTime
<1>5. CASE t = "callback"
  <2>1. thread[t].fn = "identity"
      BY <1>2, <1>5 DEF Placed, Types, ThreadTypes, ThreadState, Function
  <2>2. recv.packet.fn = "identity" /\ recv.packet.seq = thread["callback"].seq
      BY <1>5, <2>1 DEF Owner, Mine, Awaits
  <2>3. exp[2] = <<"identity", recv.packet.seq>>
      BY <1>3, <2>2 DEF Id
  <2> QED
      BY <1>2, <1>3, <1>5, <2>2, <2>3 DEF StaleInv, Old, OldInTime, Expecting
<1> QED
    BY <1>4, <1>5 DEF Thread

LEMMA NotFresh ==
    ASSUME Types, RefInv,
           \/ Dev("callback") = 2
           \/ Dev("app") = 2 /\ ~At("app", "idle") /\ ~At("app", "adding")
    PROVE  ~Fresh
    BY DEF RefInv, AppHolds, Counted, Held, One, Device, Fresh

LEMMA ReleaseFresh ==
    ASSUME Types, NEW d \in Device, ref_count[d] > 0, ~Fresh,
           ref_count' = [ref_count EXCEPT ![d] = @ - 1],
           IF ref_count[d] = 1 THEN freed' = freed \cup {d} ELSE UNCHANGED freed
    PROVE  ~Fresh'
<1>1. ref_count'[2] = IF d = 2 THEN ref_count[2] - 1 ELSE ref_count[2]
    BY DEF Types, ObjectTypes, Device
<1>2. ref_count[2] \in Int
    BY DEF Types, ObjectTypes, Device
<1> QED
    BY <1>1, <1>2 DEF Fresh

LEMMA AcquireFresh ==
    ASSUME Types, NEW d \in Device, Acquire(d), RefInv, ref_count[d] > 0, ~Fresh, UNCHANGED freed
    PROVE  ~Fresh'
<1>1. ref_count'[2] = IF d = 2 THEN ref_count[2] + 1 ELSE ref_count[2]
    BY DEF Acquire, Types, ObjectTypes, Device
<1>2. ref_count[2] \in Int
    BY DEF Types, ObjectTypes, Device
<1> QED
    BY <1>1, <1>2 DEF Fresh

\* The second object is created once
LEMMA FreshStep ==
    ASSUME Types, Places, RefInv, ~Fresh, [Next]_vars PROVE ~Fresh'
<1>1. ASSUME UNCHANGED <<ref_count, freed>> PROVE ~Fresh'
    BY <1>1 DEF Fresh
<1>2. ASSUME NEW t \in Thread, Step(t) PROVE ~Fresh'
    BY <1>1, <1>2, StepIs DEF Aside, objects
<1>3. CASE Replace \/ Finish \/ Call \/ SetResponseExpected
  <2>1. Replace \/ Finish => UNCHANGED <<ref_count, freed>>
      BY DEF Replace, Finish, objects
  <2>2. Call => UNCHANGED <<ref_count, freed>>
      BY DEF Call, objects
  <2>3. SetResponseExpected => UNCHANGED <<ref_count, freed>>
      BY DEF SetResponseExpected, objects
  <2> QED
      BY <1>1, <1>3, <2>1, <2>2, <2>3
<1>4. CASE AddDevice
    BY <1>4 DEF AddDevice, Types, ObjectTypes, Device, Fresh
<1>5. CASE DestroyDevice
  <2>1. PICK d \in owned :
          /\ ref_count' = [ref_count EXCEPT ![d] = @ - 1]
          /\ IF ref_count[d] = 1 THEN freed' = freed \cup {d} ELSE UNCHANGED freed
      BY <1>5 DEF DestroyDevice
  <2>2. d \in Device /\ ref_count[d] > 0
      BY DEF Types, ObjectTypes, RefInv, Counted, Held, One
  <2> QED
      BY <2>1, <2>2, ReleaseFresh
<1>6. ASSUME table # 0 PROVE table \in Device /\ ref_count[table] > 0
    BY <1>6 DEF Types, ObjectTypes, Device, RefInv, TableHeld
<1>7. CASE Dispatch \/ Receive \/ ReceiveCallback
  <2>1. UNCHANGED freed /\ (table = 0 => UNCHANGED ref_count) /\ (table # 0 => Acquire(table))
      BY <1>7 DEF Dispatch, Receive, ReceiveCallback
  <2> QED
      BY <1>1, <1>6, <2>1, AcquireFresh
<1>8. CASE Dispatched
  <2>1. Dev("callback") \in Device
      BY <1>8 DEF Dispatched, Places, Placed, At, Thread
  <2>2. ref_count[Dev("callback")] > 0
      BY <2>1 DEF RefInv, Counted, Held, One
  <2> QED
      BY <1>8, <2>1, <2>2, ReleaseFresh DEF Dispatched, Release
<1>9. CASE ReceiveStep
  <2>1. CASE Received
    <3>1. recv.dev \in Device
        BY <2>1 DEF Received, Places, ReceivePlaced, Types, ReceiveTypes, Device
    <3>2. ref_count[recv.dev] > 0
        BY <3>1 DEF RefInv, Counted, Held, One
    <3> QED
        BY <2>1, <3>1, <3>2, ReleaseFresh DEF Received, Release
  <2>2. CASE ~Received
      BY <1>1, <1>9, <2>2 DEF ReceiveStep, Enqueue, Match, Copy, Set, objects
  <2> QED
      BY <2>1, <2>2
<1>10. CASE UNCHANGED vars
    BY <1>1, <1>10 DEF vars, objects
<1> QED
    BY <1>2, <1>3, <1>4, <1>5, <1>7, <1>8, <1>9, <1>10 DEF Next, AppStep, AppChoice, CallbackStep,
       Thread

\* What a step of a thread leaves alone if it issues no number
LEMMA StaysInFlight ==
    ASSUME Types, Places, NEW t \in Thread, Step(t), ~Header(t)
    PROVE  /\ UNCHANGED next
           /\ InFlight(t)' => InFlight(t) /\ thread'[t].seq = thread[t].seq
           /\ thread[t].at \notin {"check", "lock"}
              => thread'[t].at \notin {"check", "lock"} /\ (t = "callback" => thread'[t].at # "header")
<1>1. After(t) \in {"judge", "done"} /\ After(t) \in Place
    BY DEF After, Place
<1>2. CASE Check(t) \/ LockIdentity(t) \/ Judge(t) \/ Verdict(t)
  <2>1. UNCHANGED next
      BY <1>2 DEF Check, LockIdentity, Judge, Verdict
  <2>2. thread'[t].at \in {"lock", "verdict", "header", "done"}
      BY <1>2, CheckLeaves
  <2>3. CASE Check(t) \/ LockIdentity(t)
      BY <2>1, <2>2, <2>3 DEF InFlight, Check, LockIdentity, At
  <2>4. CASE Judge(t)
    <3>1. thread'[t].at \in {"verdict", "done"}
      <4>1. CASE thread[t].ret = "OK"
        <5>1. thread' = [thread EXCEPT ![t] = [Idle EXCEPT !.at = "verdict", !.dev = Dev(t)]]
            BY <2>4, <4>1 DEF Judge
        <5> QED
            BY <5>1 DEF Types, ThreadTypes, Idle
      <4>2. CASE thread[t].ret # "OK"
          BY <2>4, <4>2, GotoIs DEF Judge, Place, Moves
      <4> QED
          BY <4>1, <4>2
    <3> QED
        BY <2>1, <3>1 DEF InFlight
  <2>5. CASE Verdict(t)
    <3>1. thread'[t].at \in {"header", "done"} /\ (t = "callback" => thread'[t].at # "header")
      <4>1. CASE check[Dev(t)] = "mismatch"
          BY <2>5, <4>1, ReturnIs DEF Verdict, Place, Result, Moves
      <4>2. CASE check[Dev(t)] # "mismatch" /\ t = "callback"
          BY <2>5, <4>2, GotoIs DEF Verdict, Place, Moves
      <4>3. CASE check[Dev(t)] # "mismatch" /\ t # "callback"
          BY <2>5, <4>3, StartIs DEF Verdict, Function
      <4> QED
          BY <4>1, <4>2, <4>3
    <3> QED
        BY <2>1, <3>1 DEF InFlight
  <2> QED
      BY <1>2, <2>3, <2>4, <2>5
<1>3. CASE Expect(t) \/ Send(t) \/ SendFails(t) \/ Wake(t) \/ Timeout(t)
  <2>1. UNCHANGED next /\ InFlight(t)
      BY <1>3 DEF Expect, Send, SendFails, Wake, Timeout, InFlight, At
  <2>2. \E place \in {"send", "wait", "clear", After(t)} : \E ret \in Result : Moves(t, place, ret)
    <3>1. thread[t].ret \in Result
        BY DEF Types, ThreadTypes, ThreadState
    <3>2. CASE Expect(t)
        BY <3>1, <3>2, GotoIs DEF Expect, Place
    <3>3. CASE Send(t)
        BY <1>1, <3>1, <3>3, GotoIs, ReturnIs DEF Send, Place, Result
    <3>4. CASE SendFails(t)
        BY <1>1, <3>4, ReturnIs DEF SendFails, Result
    <3>5. CASE Wake(t) \/ Timeout(t)
        BY <3>5, ReturnIs DEF Wake, Timeout, Place, Result
    <3> QED
        BY <1>3, <3>2, <3>3, <3>4, <3>5
  <2> QED
      BY <1>1, <2>1, <2>2 DEF Moves, SameRequest
<1>4. CASE Clear(t) \/ Reset(t) \/ Read(t)
  <2>1. At(t, "clear") \/ At(t, "reset") \/ At(t, "read")
      BY <1>4, Zenon DEF Clear, Reset, Read
  <2>2. UNCHANGED next
      BY <1>4, Zenon DEF Clear, Reset, Read
  <2>3. \E place \in {"reset", "read", After(t)} : \E ret \in Result : Moves(t, place, ret)
    <3>1. thread[t].ret \in Result
        BY DEF Types, ThreadTypes, ThreadState
    <3>2. CASE Clear(t)
        BY <3>1, <3>2, GotoIs DEF Clear, Place
    <3>3. CASE Reset(t)
        BY <1>1, <3>1, <3>3, GotoIs DEF Reset, Place
    <3>4. CASE Read(t)
      <4>1. Outcome(t, packet[Dev(t)]) \in Result
          BY DEF Outcome, Result
      <4> QED
          BY <3>4, <4>1, ReadIs
    <3> QED
        BY <1>4, <3>2, <3>3, <3>4
  <2> QED
      BY <1>1, <2>1, <2>2, <2>3 DEF Moves, SameRequest, InFlight, At
<1> QED
    BY <1>2, <1>3, <1>4 DEF Step

LEMMA CheckIs ==
    ASSUME Types, Places, NEW t \in Thread, Step(t)
    PROVE  \A d \in Device : \/ check'[d] = check[d]
                             \/ Judge(t) /\ d = Dev(t) /\ thread[t].ret = "OK" /\ check'[d] # "pending"
<1>1. CASE Judge(t)
  <2>1. \/ UNCHANGED check
        \/ /\ check' = [check EXCEPT ![Dev(t)] =
                   IF thread[t].got.identifier = "driver" THEN "match" ELSE "mismatch"]
           /\ thread[t].ret = "OK"
      BY <1>1 DEF Judge
  <2> QED
      BY <1>1, <2>1 DEF Types, DeviceTypes
<1>2. CASE ~Judge(t)
  <2>1. UNCHANGED check
    <3>1. Check(t) \/ LockIdentity(t) \/ Verdict(t) => UNCHANGED check
        BY DEF Check, LockIdentity, Verdict, device
    <3>2. Header(t) \/ Expect(t) \/ Send(t) \/ SendFails(t) => UNCHANGED check
        BY DEF Header, Expect, Send, SendFails, device
    <3>3. Wake(t) \/ Timeout(t) \/ Clear(t) \/ Reset(t) \/ Read(t) => UNCHANGED check
        BY DEF Wake, Timeout, Clear, Reset, Read, device
    <3> QED
        BY <1>2, <3>1, <3>2, <3>3 DEF Step
  <2> QED
      BY <2>1
<1> QED
    BY <1>1, <1>2

\* What is expected at the second object if the thread works with the first
LEMMA ExpectedElsewhere ==
    ASSUME Types, NEW t \in Thread, Step(t), Dev(t) # 2 PROVE exp'[2] = exp[2]
    BY ExpectedIs DEF Types, DeviceTypes, Device

LEMMA NextAfter ==
    ASSUME Types, NEW s \in 0 .. Cycle, NEW k \in 0 .. 1, next = NumberAfter(s, k)
    PROVE  NextNumber = NumberAfter(s, k + 1) /\ next + 1 # s
<1>1. Cycle \in Nat /\ Cycle >= 3 /\ next \in Nat
    BY RequestsAssumption DEF Types, ThreadTypes
<1> QED
    BY <1>1, NextIs DEF NumberAfter

LEMMA StaleStepCallback ==
    ASSUME Types, Places, RefInv, AnswerInv, StaleInv, Step("callback")
    PROVE  StaleInv'
<1> DEFINE t == "callback"
<1>0. t \in Thread
    BY DEF Thread
<1>1. /\ UNCHANGED <<call, objects>> /\ thread'["app"] = thread["app"]
      /\ Dev(t)' = Dev(t) /\ Dev(t) \in Device /\ Placed(t)
    BY <1>0, StepIs DEF Aside, Others, Thread, Dev, Places, Placed, At
<1>2. \A d \in Device : check[d] # "pending" => check'[d] # "pending"
    BY <1>0, CheckIs
<1>3. Fresh' = Fresh
    BY <1>1 DEF Fresh, objects
<1>4. Fresh' => exp'[2] = Nothing
    BY <1>0, <1>1, <1>3, NotFresh, ExpectedElsewhere DEF StaleInv
<1>5. AppInTime'
  <2>1. thread["app"].at \notin {"idle", "adding"} => Dev("app") \in Device
      BY DEF Places, Placed, At, Thread
  <2> QED
      BY <1>1, <1>2, <2>1 DEF StaleInv, AppInTime, At, Dev, InFlight, objects
<1>6. ASSUME Old PROVE OldInTime'
  <2>1. exp'[2] = exp[2] /\ check'[2] = check[2] /\ OldInTime
      BY <1>0, <1>6, ExpectedElsewhere, CheckIs DEF Old, Device, StaleInv
  <2>2. exp'[2] # Nothing => call'.checked /\ replaced' = {1}
      BY <1>1, <2>1 DEF OldInTime, objects
  <2>3. ASSUME (exp[2][1])' = "identity" PROVE Expecting'
    <3>1. Expecting
        BY <2>1, <2>3 DEF OldInTime
    <3>2. PICK k \in 0 .. 2 : Issued(k) /\ next = NumberAfter(exp[2][2], k)
        BY <3>1 DEF Expecting
    <3>3. exp[2][2] \in 0 .. Cycle
        BY DEF Types, DeviceTypes, Device
    <3>4. CASE Header(t)
      <4>1. At(t, "header") /\ next' = NextNumber
          BY <3>4 DEF Header
      <4>6. thread'[t].seq = next + 1
          BY <1>0, <3>4, HeaderIs
      <4>2. thread'[t].at \notin {"check", "lock", "header"}
          BY <1>0, <3>4, HeaderIs DEF After
      <4>3. k \in 0 .. 1 /\ Issued(k + 1)'
          BY <1>1, <3>2, <4>1, <4>2 DEF Issued, Past, One, At
      <4>4. next' = NumberAfter(exp[2][2], k + 1) /\ next + 1 # exp[2][2]
          BY <3>2, <3>3, <4>1, <4>3, NextAfter
      <4>5. \E j \in 0 .. 2 : Issued(j)' /\ next' = NumberAfter(exp[2][2], j)
          BY <4>3, <4>4
      <4> QED
          BY <1>1, <2>1, <3>1, <4>4, <4>5, <4>6 DEF Expecting, InFlight, NumberAfter
    <3>5. CASE ~Header(t)
      <4>1. /\ UNCHANGED next /\ (Past => Past')
            /\ InFlight(t)' => InFlight(t) /\ thread'[t].seq = thread[t].seq
          BY <1>0, <3>5, StaysInFlight DEF Past
      <4>2. Issued(k)'
          BY <1>1, <3>2, <4>1 DEF Issued, One, At
      <4> QED
          BY <1>1, <2>1, <3>1, <3>2, <4>1, <4>2 DEF Expecting, InFlight, NumberAfter
    <3> QED
        BY <3>4, <3>5
  <2>4. ASSUME At("app", "expect"), Dev("app") = 2, thread["app"].fn = "identity"
        PROVE  \E k \in 0 .. 1 : Issued(k + 1)' /\ next' = NumberAfter(thread["app"].seq, k)
    <3>1. PICK k \in 0 .. 1 : Issued(k + 1) /\ next = NumberAfter(thread["app"].seq, k)
        BY <2>1, <2>4 DEF OldInTime
    <3>2. thread["app"].seq \in 0 .. Cycle
        BY DEF Types, ThreadTypes, ThreadState, Thread
    <3>3. CASE Header(t)
      <4>1. At(t, "header") /\ next' = NextNumber
          BY <3>3 DEF Header
      <4>2. thread'[t].at \notin {"check", "lock", "header"}
          BY <1>0, <3>3, HeaderIs DEF After
      <4>3. k = 0 /\ Issued(k + 2)'
          BY <1>1, <2>4, <3>1, <4>1, <4>2 DEF Issued, Past, One, At
      <4>4. next' = NumberAfter(thread["app"].seq, k + 1)
          BY <3>1, <3>2, <4>1, NextAfter
      <4> QED
          BY <4>3, <4>4
    <3>4. CASE ~Header(t)
      <4>1. UNCHANGED next /\ (Past => Past')
          BY <1>0, <3>4, StaysInFlight DEF Past
      <4> QED
          BY <1>1, <3>1, <4>1 DEF Issued, One, At
    <3> QED
        BY <3>3, <3>4
  <2> QED
      BY <1>1, <2>1, <2>2, <2>3, <2>4 DEF OldInTime, At, Dev, InFlight, NumberAfter
<1> QED
    BY <1>1, <1>4, <1>5, <1>6 DEF StaleInv, Old

\* What steps of the application leave alone
LEMMA AppStepIs ==
    ASSUME Types, Places, RefInv, Step("app")
    PROVE  /\ UNCHANGED <<call, objects>> /\ thread'["callback"] = thread["callback"]
           /\ Dev("app")' = Dev("app") /\ Dev("app") \in owned /\ Dev("app") \in Device
           /\ Placed("app") /\ ~At("app", "adding")
           /\ Old' = Old /\ Past' = Past /\ Fresh' = Fresh
<1>1. Aside("app") /\ "app" \in Thread
    BY StepIs DEF Thread
<1>2. /\ UNCHANGED <<call, objects>> /\ thread'["callback"] = thread["callback"]
      /\ Dev("app")' = Dev("app") /\ ~At("app", "adding") /\ ~At("app", "idle")
    BY <1>1 DEF Aside, Others, Thread, Dev, At
<1>3. Dev("app") \in owned
    BY <1>2 DEF RefInv, AppHolds
<1> QED
    BY <1>1, <1>2, <1>3 DEF Types, ObjectTypes, Places, Old, Past, Fresh, Dev, objects

LEMMA StaleCheck ==
    ASSUME Types, Places, RefInv, StaleInv,
           Check("app") \/ LockIdentity("app") \/ Judge("app") \/ Verdict("app")
    PROVE  StaleInv'
<1> DEFINE t == "app"
<1>0. t \in Thread /\ Step(t)
    BY DEF Thread, Step
<1>1. /\ UNCHANGED <<call, objects>> /\ thread'["callback"] = thread["callback"]
      /\ Dev(t)' = Dev(t) /\ Dev(t) \in Device
      /\ Old' = Old /\ Past' = Past /\ Fresh' = Fresh
    BY <1>0, AppStepIs
<1>2. UNCHANGED <<exp, next>>
    BY DEF Check, LockIdentity, Judge, Verdict, device
<1>3. thread'[t].at \in {"lock", "verdict", "header", "done"}
    BY <1>0, CheckLeaves
<1>4. /\ thread'[t].at = "verdict" => check'[Dev(t)] # "pending"
      /\ thread'[t].at = "header" =>
           \/ thread'[t].fn = "identity" /\ check'[Dev(t)] = "pending"
           \/ thread'[t].fn = "function" /\ check'[Dev(t)] # "pending"
      /\ thread'[t].at # "done" /\ call.checked => Dev(t) \notin replaced
  <2>1. CASE Check(t)
    <3>1. UNCHANGED check
        BY <2>1 DEF Check, device
    <3>2. CASE Dev(t) \in replaced
        BY <1>0, <2>1, <3>1, <3>2, ReturnIs DEF Check, Place, Result, Moves
    <3>3. CASE Dev(t) \notin replaced /\ check[Dev(t)] = "pending"
        BY <1>0, <2>1, <3>1, <3>3, GotoIs DEF Check, Place, Moves
    <3>4. CASE Dev(t) \notin replaced /\ check[Dev(t)] # "pending"
        BY <1>0, <2>1, <3>1, <3>4, GotoIs DEF Check, Place, Moves
    <3> QED
        BY <3>2, <3>3, <3>4
  <2>2. CASE LockIdentity(t)
    <3>1. UNCHANGED check /\ (call.checked => Dev(t) \notin replaced)
        BY <2>2 DEF LockIdentity, device, StaleInv, AppInTime, At
    <3>2. CASE check[Dev(t)] = "pending"
        BY <1>0, <2>2, <3>1, <3>2, StartIs DEF LockIdentity, Function
    <3>3. CASE check[Dev(t)] # "pending"
        BY <1>0, <2>2, <3>1, <3>3, GotoIs DEF LockIdentity, Place, Moves
    <3> QED
        BY <3>2, <3>3
  <2>3. CASE Judge(t)
    <3>1. call.checked => Dev(t) \notin replaced
        BY <2>3 DEF Judge, StaleInv, AppInTime, At
    <3>2. CASE thread[t].ret = "OK"
      <4>1. thread' = [thread EXCEPT ![t] = [Idle EXCEPT !.at = "verdict", !.dev = Dev(t)]]
          BY <2>3, <3>2 DEF Judge
      <4>2. thread'[t].at = "verdict"
          BY <1>0, <4>1 DEF Types, ThreadTypes, Idle
      <4>3. check' = [check EXCEPT ![Dev(t)] =
                         IF thread[t].got.identifier = "driver" THEN "match" ELSE "mismatch"]
          BY <2>3, <3>2 DEF Judge
      <4>4. check'[Dev(t)] # "pending"
          BY <1>1, <4>3 DEF Types, DeviceTypes
      <4> QED
          BY <3>1, <4>2, <4>4
    <3>3. CASE thread[t].ret # "OK"
        BY <1>0, <2>3, <3>3, GotoIs DEF Judge, Place, Moves
    <3> QED
        BY <3>2, <3>3
  <2>4. CASE Verdict(t)
    <3>1. /\ UNCHANGED check /\ (call.checked => Dev(t) \notin replaced)
          /\ check[Dev(t)] # "pending"
        BY <2>4 DEF Verdict, device, StaleInv, AppInTime, At
    <3>2. CASE check[Dev(t)] = "mismatch"
        BY <1>0, <2>4, <3>1, <3>2, ReturnIs DEF Verdict, Place, Result, Moves
    <3>3. CASE check[Dev(t)] # "mismatch"
        BY <1>0, <2>4, <3>1, <3>3, StartIs DEF Verdict, Function
    <3> QED
        BY <3>2, <3>3
  <2> QED
      BY <2>1, <2>2, <2>3, <2>4
<1>5. AppInTime'
    BY <1>1, <1>3, <1>4 DEF AppInTime, At, InFlight, Dev, objects
<1>6. ASSUME Old PROVE OldInTime'
  <2>1. OldInTime
      BY <1>6 DEF StaleInv
  <2>2. ASSUME exp[2][1] = "identity" PROVE Expecting'
    <3>1. Expecting
        BY <2>1, <2>2 DEF OldInTime
    <3>2. check'[2] = "pending"
      <4>1. exp[2] # Nothing
          BY <2>2 DEF Nothing
      <4>2. ~(Judge(t) /\ Dev(t) = 2 /\ thread[t].ret = "OK")
          BY <2>1, <4>1 DEF OldInTime, Judge
      <4> QED
          BY <1>0, <3>1, <4>2, CheckIs DEF Expecting, Device
    <3>3. \A k \in 0 .. 2 : Issued(k) => Issued(k)'
      <4>1. ~At(t, "expect") /\ ~At(t, "expect")'
          BY <1>3 DEF Check, LockIdentity, Judge, Verdict, At
      <4> QED
          BY <1>1, <4>1 DEF Issued, One
    <3> QED
        BY <1>1, <1>2, <1>3, <3>1, <3>2, <3>3 DEF Expecting, InFlight, NumberAfter
  <2> QED
      BY <1>1, <1>2, <1>3, <1>4, <2>1, <2>2 DEF OldInTime, At, InFlight, objects
<1> QED
    BY <1>1, <1>2, <1>5, <1>6 DEF StaleInv

\* The number of a request that expects a response
LEMMA StaleHeader ==
    ASSUME Types, Places, RefInv, StaleInv, Header("app")
    PROVE  StaleInv'
<1> DEFINE t == "app"
           expects == IF thread[t].fn = "identity" THEN call.identity ELSE flag[Dev(t)]
<1>0. t \in Thread /\ Step(t)
    BY DEF Thread, Step
<1>1. /\ UNCHANGED <<call, objects>> /\ thread'["callback"] = thread["callback"]
      /\ Dev(t)' = Dev(t) /\ Dev(t) \in Device
      /\ Old' = Old /\ Past' = Past /\ Fresh' = Fresh
    BY <1>0, AppStepIs
<1>2. UNCHANGED <<exp, check>> /\ next' = NextNumber /\ At(t, "header")
    BY DEF Header, device
<1>3. /\ thread'[t].seq = next + 1 /\ thread'[t].fn = thread[t].fn
      /\ thread'[t].ret = IF expects = "invalid" THEN "INVALID_PARAMETER" ELSE "OK"
      /\ thread'[t].at = IF expects = "invalid" THEN After(t)
                         ELSE IF expects = "false" THEN "send" ELSE "expect"
    BY <1>0, HeaderIs DEF SameFunction
<1>4. call.identity \in {"always_true", "invalid"}
    BY DEF Types, ObjectTypes
<1>5. /\ thread'[t].at \in {"expect", "send", "judge", "done"}
      /\ thread'[t].at = "judge" => thread'[t].ret # "OK"
      /\ thread'[t].fn = "identity" /\ thread'[t].at \in {"expect", "send"}
         => call.identity = "always_true" /\ thread'[t].at = "expect"
    BY <1>3, <1>4 DEF After
<1>6. call.checked => Dev(t) \notin replaced
    BY <1>2 DEF StaleInv, AppInTime, At
<1>7. AppInTime'
    BY <1>1, <1>5, <1>6 DEF AppInTime, At, InFlight, Dev, objects
<1>8. ASSUME Old PROVE OldInTime'
  <2>1. OldInTime
      BY <1>8 DEF StaleInv
  <2>2. ASSUME exp[2][1] = "identity" PROVE Expecting'
    <3>1. Expecting
        BY <2>1, <2>2 DEF OldInTime
    <3>2. call.checked /\ replaced = {1}
        BY <2>1, <2>2 DEF OldInTime, Nothing
    <3>3. Dev(t) = 2 /\ thread[t].fn = "identity"
      <4>1. Dev(t) = 2
          BY <1>1, <1>6, <3>2 DEF Device
      <4>2. thread[t].fn # "none" /\ thread[t].fn # "function"
          BY <1>0, <1>2, <3>1, <3>2, <4>1 DEF Places, Placed, StaleInv, AppInTime, Expecting
      <4> QED
          BY <1>0, <4>1, <4>2 DEF Types, ThreadTypes, ThreadState, Function
    <3>4. PICK k \in 0 .. 2 : Issued(k) /\ next = NumberAfter(exp[2][2], k)
        BY <3>1 DEF Expecting
    <3>5. thread'[t].at = "expect"
        BY <1>3, <3>1, <3>3 DEF Expecting
    <3>6. k \in 0 .. 1 /\ Issued(k + 1)'
        BY <1>1, <1>2, <3>4, <3>5 DEF Issued, One, At
    <3>7. next' = NumberAfter(exp[2][2], k + 1)
      <4>1. exp[2][2] \in 0 .. Cycle
          BY DEF Types, DeviceTypes, Device
      <4> QED
          BY <1>2, <3>4, <3>6, <4>1, NextAfter
    <3>8. \E j \in 0 .. 2 : Issued(j)' /\ next' = NumberAfter(exp[2][2], j)
        BY <3>6, <3>7
    <3> QED
        BY <1>1, <1>2, <1>3, <3>1, <3>3, <3>8 DEF Expecting, InFlight, NumberAfter
  <2>3. ASSUME thread'[t].at = "expect"
        PROVE  Issued(1)' /\ next' = NumberAfter(thread'[t].seq, 0)
    <3>1. Issued(1)'
        BY <2>3 DEF Issued, One, At
    <3>2. next' = IF next + 1 = Cycle THEN 0 ELSE next + 1
        BY <1>2, NextIs
    <3>3. next \in 0 .. Cycle - 1 /\ Cycle \in Nat
        BY RequestsAssumption DEF Types, ThreadTypes
    <3> QED
        BY <1>3, <3>1, <3>2, <3>3 DEF NumberAfter
  <2>4. ASSUME thread'[t].at = "expect"
        PROVE  \E k \in 0 .. 1 : Issued(k + 1)' /\ next' = NumberAfter(thread'[t].seq, k)
    <3>1. Issued(0 + 1)'
        BY <2>3, <2>4
    <3> QED
        BY <2>3, <2>4, <3>1
  <2> QED
      BY <1>1, <1>2, <1>3, <1>5, <2>1, <2>2, <2>4 DEF OldInTime, At, InFlight, objects, Dev, NumberAfter
<1> QED
    BY <1>1, <1>2, <1>7, <1>8 DEF StaleInv

LEMMA StaleExpect ==
    ASSUME Types, Places, RefInv, AnswerInv, InTime, StaleInv, Expect("app")
    PROVE  StaleInv'
<1> DEFINE t == "app"
<1>0. t \in Thread /\ Step(t)
    BY DEF Thread, Step
<1>1. /\ UNCHANGED <<call, objects>> /\ thread'["callback"] = thread["callback"]
      /\ Dev(t)' = Dev(t) /\ Dev(t) \in Device /\ Dev(t) \in owned /\ Placed(t)
      /\ ~At(t, "adding")
      /\ Old' = Old /\ Past' = Past /\ Fresh' = Fresh
    BY <1>0, AppStepIs
<1>2. /\ UNCHANGED <<check, next>> /\ At(t, "expect") /\ Moves(t, "send", thread[t].ret)
      /\ exp' = [exp EXCEPT ![Dev(t)] = <<Id(thread[t].fn), thread[t].seq>>]
    BY <1>0, GotoIs DEF Expect, device, Place
<1>3. AppInTime'
    BY <1>1, <1>2 DEF StaleInv, AppInTime, At, InFlight, Dev, objects, Moves, SameFunction
<1>4. Fresh' => exp'[2] = Nothing
  <2>1. Fresh => Dev(t) # 2
      BY <1>1, <1>2, NotFresh DEF At
  <2> QED
      BY <1>0, <1>1, <2>1, ExpectedElsewhere DEF StaleInv
<1>5. ASSUME Old PROVE OldInTime'
  <2>1. OldInTime
      BY <1>5 DEF StaleInv
  <2>2. CASE Dev(t) = 1
    <3>1. exp'[2] = exp[2]
        BY <1>0, <2>2, ExpectedElsewhere
    <3>2. exp[2][1] # "identity"
      <4>1. SUFFICES ASSUME exp[2][1] = "identity" PROVE FALSE
          OBVIOUS
      <4>2. call.checked /\ replaced = {1}
          BY <2>1, <4>1 DEF OldInTime, Nothing
      <4> QED
          BY <1>2, <2>2, <4>2 DEF StaleInv, AppInTime, InFlight, At
    <3> QED
        BY <1>1, <1>2, <2>1, <2>2, <3>1, <3>2 DEF OldInTime, Moves, At, Dev, objects
  <2>3. CASE Dev(t) = 2
    <3>1. exp'[2] = <<Id(thread[t].fn), thread[t].seq>>
        BY <1>2, <2>3 DEF Types, DeviceTypes, Device
    <3>2. call.checked /\ replaced = {1}
      <4>1. ~Fresh
          BY <1>1, <1>2, <2>3, NotFresh DEF At
      <4>2. 1 \notin freed
          BY <1>5 DEF Old, RefInv, Counted, Held, One, Device
      <4>3. replaced = {1}
          BY <1>1, <4>1, <4>2 DEF RefInv, ReplacedByOther
      <4> QED
          BY <4>3 DEF InTime
    <3>3. ASSUME (exp[2][1])' = "identity" PROVE Expecting'
      <4>1. thread[t].fn = "identity"
          BY <3>1, <3>2, <3>3 DEF Id
      <4>2. exp'[2][2] = thread[t].seq /\ thread[t].seq > 0 /\ thread[t].seq \in 0 .. Cycle
          BY <1>0, <1>1, <1>2, <3>1 DEF Placed, InFlight, At, Types, ThreadTypes, ThreadState
      <4>3. call.identity = "always_true"
          BY <1>2, <4>1 DEF StaleInv, AppInTime, InFlight, At
      <4>4. InFlight("callback") => thread[t].seq # thread["callback"].seq
          BY <1>2 DEF AnswerInv, NumbersDiffer, Thread, InFlight, At
      <4>5. check[2] = "pending"
          BY <1>2, <2>1, <2>3, <4>1 DEF OldInTime, InFlight, At
      <4>6. PICK k \in 0 .. 1 : Issued(k + 1) /\ next = NumberAfter(thread[t].seq, k)
          BY <1>2, <2>1, <2>3, <4>1 DEF OldInTime
      <4>7. Issued(k)'
          BY <1>1, <1>2, <4>6 DEF Issued, One, At, Moves
      <4>8. \E j \in 0 .. 2 : Issued(j)' /\ next = NumberAfter(thread[t].seq, j)
          BY <4>6, <4>7
      <4>9. thread'[t].fn = "identity"
          BY <1>2, <4>1 DEF Moves, SameFunction
      <4> QED
          BY <1>1, <1>2, <4>2, <4>3, <4>4, <4>5, <4>8, <4>9 DEF Expecting, InFlight, NumberAfter
    <3> QED
        BY <1>1, <1>2, <2>1, <2>3, <3>2, <3>3 DEF OldInTime, Moves, SameFunction, At, Dev, objects, InFlight
  <2> QED
      BY <1>1, <2>2, <2>3 DEF Device
<1> QED
    BY <1>1, <1>3, <1>4, <1>5 DEF StaleInv

\* From sending on to the end of the request
LEMMA StaleRequest ==
    ASSUME Types, Places, RefInv, AnswerInv, StaleInv, Step("app"),
           thread["app"].at \in {"send", "wait", "clear", "reset", "read"}
    PROVE  StaleInv'
<1> DEFINE t == "app"
<1>0. t \in Thread
    BY DEF Thread
<1>1. /\ UNCHANGED <<call, objects>> /\ thread'["callback"] = thread["callback"]
      /\ Dev(t)' = Dev(t) /\ Dev(t) \in Device /\ Placed(t) /\ ~At(t, "adding")
      /\ Old' = Old /\ Past' = Past /\ Fresh' = Fresh
    BY <1>0, AppStepIs
<1>2. UNCHANGED next /\ check'[2] = check[2]
  <2>1. ~Header(t) /\ ~Judge(t)
      BY DEF Header, Judge, At
  <2> QED
      BY <1>0, <2>1, StaysInFlight, CheckIs DEF Device
<1>3. /\ thread'[t].fn = thread[t].fn
      /\ thread'[t].at \in {"wait", "clear", "reset", "read", "judge", "done"}
      /\ thread'[t].at = "reset" => Clear(t)
      /\ thread'[t].at = "read" => At(t, "reset")
      /\ thread'[t].at = "judge" /\ thread'[t].ret = "OK" => At(t, "read")
  <2>1. After(t) \in Place /\ After(t) \in {"judge", "done"}
      BY DEF After, Place
  <2>2. Placed(t) /\ Answer(t)
      BY <1>0, <1>1 DEF AnswerInv
  <2>3. CASE Send(t)
    <3>1. CASE thread[t].expected
        BY <1>0, <2>3, <3>1, GotoIs DEF Send, Place, Moves, SameFunction
    <3>2. CASE ~thread[t].expected
      <4>1. Moves(t, After(t), "OK")
          BY <1>0, <2>1, <2>3, <3>2, ReturnIs DEF Send, Result
      <4>2. thread[t].fn # "identity"
          BY <2>2, <2>3, <3>2 DEF Answer, Send, Room
      <4> QED
          BY <4>1, <4>2 DEF Moves, SameFunction, After
    <3> QED
        BY <3>1, <3>2
  <2>4. CASE SendFails(t)
      BY <1>0, <2>1, <2>4, ReturnIs DEF SendFails, Result, Moves, SameFunction
  <2>5. CASE Wake(t) \/ Timeout(t)
      BY <1>0, <2>5, ReturnIs DEF Wake, Timeout, Place, Result, Moves, SameFunction
  <2>6. CASE Clear(t)
      BY <1>0, <2>6, GotoIs DEF Clear, Place, Moves, SameFunction
  <2>7. CASE Reset(t)
    <3>1. CASE thread[t].ret = "OK"
        BY <1>0, <2>7, <3>1, GotoIs DEF Reset, Place, Moves, SameFunction
    <3>2. CASE thread[t].ret # "OK"
        BY <1>0, <2>1, <2>7, <3>2, GotoIs DEF Reset, Moves, SameFunction
    <3> QED
        BY <3>1, <3>2
  <2>8. CASE Read(t)
    <3>1. At(t, "read")
        BY <2>8, Zenon DEF Read
    <3> QED
        BY <1>0, <2>1, <2>8, <3>1, ReadIs DEF Moves, SameFunction
  <2> QED
      BY <2>3, <2>4, <2>5, <2>6, <2>7, <2>8
         DEF Step, Check, LockIdentity, Judge, Verdict, Header, Expect, At
<1>4. \/ exp'[2] = exp[2]
      \/ exp'[2] = Nothing /\ Dev(t) = 2
  <2>1. CASE Dev(t) # 2
      BY <1>0, <2>1, ExpectedElsewhere
  <2>2. CASE Dev(t) = 2
    <3>1. ~Expect(t)
        BY DEF Expect, At
    <3> QED
        BY <1>0, <2>2, <3>1, ExpectedIs DEF Types, DeviceTypes, Device, Nothing
  <2> QED
      BY <2>1, <2>2
<1>5. AppInTime'
    BY <1>1, <1>3 DEF StaleInv, AppInTime, At, InFlight, Dev, objects
<1>6. ASSUME Old PROVE OldInTime'
  <2>1. OldInTime
      BY <1>6 DEF StaleInv
  <2>2. exp'[2] # Nothing => exp'[2] = exp[2]
      BY <1>4
  <2>3. ASSUME (exp[2][1])' = "identity" PROVE Expecting'
    <3>1. exp'[2] = exp[2]
        BY <2>2, <2>3 DEF Nothing
    <3>2. Expecting
        BY <2>1, <2>3, <3>1 DEF OldInTime
    <3>3. \A k \in 0 .. 2 : Issued(k) => Issued(k)'
        BY <1>1, <1>3 DEF Issued, One, At
    <3>4. InFlight(t)' => InFlight(t)
        BY DEF InFlight
    <3> QED
        BY <1>1, <1>2, <1>3, <3>1, <3>2, <3>3, <3>4 DEF Expecting, InFlight, NumberAfter
  <2>4. ASSUME Dev(t) = 2,
               \/ thread'[t].at \in {"reset", "read"}
               \/ thread'[t].at = "judge" /\ thread'[t].ret = "OK"
        PROVE  exp'[2] = Nothing
    <3>1. CASE Clear(t)
      <4>1. exp' = [exp EXCEPT ![Dev(t)] = <<"none", 0>>]
          BY <3>1 DEF Clear
      <4> QED
          BY <2>4, <4>1 DEF Types, DeviceTypes, Device, Nothing
    <3>2. CASE At(t, "reset") \/ At(t, "read")
        BY <1>4, <2>1, <2>4, <3>2 DEF OldInTime
    <3> QED
        BY <1>3, <2>4, <3>1, <3>2
  <2>5. ASSUME Dev(t) = 2, thread[t].fn = "identity" PROVE check'[2] = "pending"
      BY <1>2, <2>1, <2>5 DEF OldInTime, InFlight
  <2> QED
      BY <1>1, <1>3, <2>1, <2>2, <2>3, <2>4, <2>5 DEF OldInTime, At, InFlight, objects, Dev
<1> QED
    BY <1>1, <1>4, <1>5, <1>6 DEF StaleInv

LEMMA StaleApart ==
    ASSUME Types, Places, RefInv, StaleInv, Apart, Fresh' => Fresh
    PROVE  StaleInv'
<1>0. thread \in [Thread -> ThreadState] /\ "app" \in Thread /\ "callback" \in Thread
    BY DEF Types, ThreadTypes, Thread
<1>1. UNCHANGED <<call, check, exp, next>>
    BY ApartIs
<1>2. Fresh' => exp'[2] = Nothing
    BY <1>1 DEF StaleInv
<1>3. \/ thread'["app"] = thread["app"] /\ UNCHANGED replaced
      \/ /\ \/ thread'["app"].at \in {"idle", "adding", "check"}
            \/ thread'["app"].at = "header" /\ ~call.checked /\ thread'["app"].fn = "function"
         /\ thread["app"].at \in {"idle", "adding", "done"}
         /\ thread'["callback"] = thread["callback"]
         /\ replaced' \in {replaced, replaced \cup {1}}
  <2>1. CASE Replace \/ Finish
    <3>1. replaced' \in {replaced, replaced \cup {1}}
      <4>1. CASE Replace
        <5>1. Dev("app") \in {0, 1} /\ replaced' = replaced \cup ({Dev("app")} \ {0})
            BY <4>1 DEF Replace, RefInv, AppHolds
        <5> QED
            BY <5>1
      <4>2. CASE Finish
          BY <4>2 DEF Finish, objects
      <4> QED
          BY <2>1, <4>1, <4>2
    <3>2. thread'["app"] = Idle /\ thread'["callback"] = thread["callback"]
        BY <1>0, <2>1 DEF Replace, Finish
    <3>3. At("app", "adding") \/ At("app", "done")
        BY <2>1 DEF Replace, Finish
    <3> QED
        BY <3>1, <3>2, <3>3, IdleIs DEF At
  <2>2. CASE Call
    <3>1. At("app", "idle") /\ UNCHANGED replaced
        BY <2>2 DEF Call, objects
    <3>2. /\ thread'["callback"] = thread["callback"]
          /\ thread'["app"].at = IF call.checked THEN "check" ELSE "header"
          /\ thread'["app"].fn = "function"
        BY <2>2, CallIs DEF Others, Thread
    <3> QED
        BY <3>1, <3>2 DEF At
  <2>3. CASE AddDevice
    <3>1. At("app", "idle") /\ UNCHANGED replaced
        BY <2>3 DEF AddDevice
    <3>2. thread'["callback"] = thread["callback"] /\ thread'["app"].at = "adding"
        BY <2>3, AddIs DEF Others, Thread
    <3> QED
        BY <3>1, <3>2 DEF At
  <2>4. CASE DestroyDevice \/ SetResponseExpected
      BY <2>4 DEF DestroyDevice, SetResponseExpected, objects
  <2>5. CASE Dispatch
    <3>1. UNCHANGED replaced
        BY <2>5 DEF Dispatch
    <3>2. CASE table = 0
        BY <2>5, <3>1, <3>2 DEF Dispatch
    <3>3. CASE table # 0
        BY <2>5, <3>1, <3>3, DispatchIs DEF Others, Thread
    <3> QED
        BY <3>2, <3>3
  <2>6. CASE Dispatched
      BY <1>0, <2>6 DEF Dispatched, Release
  <2> QED
      BY <2>1, <2>2, <2>3, <2>4, <2>5, <2>6 DEF Apart
<1>4. AppInTime'
  <2>1. CASE thread'["app"] = thread["app"] /\ UNCHANGED replaced
      BY <1>1, <2>1 DEF StaleInv, AppInTime, At, InFlight, Dev
  <2>2. CASE \/ thread'["app"].at \in {"idle", "adding", "check"}
             \/ thread'["app"].at = "header" /\ ~call.checked /\ thread'["app"].fn = "function"
      BY <1>1, <2>2 DEF AppInTime, At, InFlight
  <2> QED
      BY <1>3, <2>1, <2>2
<1>5. ASSUME Old' PROVE OldInTime'
  <2>1. CASE thread'["callback"] = thread["callback"]
    <3>1. OldInTime /\ Past' = Past
        BY <1>5, <2>1 DEF StaleInv, Old, Dev, Past
    <3>2. exp'[2] # Nothing => call'.checked /\ replaced' = {1}
      <4>1. replaced = {1} => replaced' = {1}
          BY <1>3
      <4> QED
          BY <1>1, <3>1, <4>1 DEF OldInTime
    <3>3. CASE thread'["app"] = thread["app"]
        BY <1>1, <2>1, <3>1, <3>2, <3>3
           DEF OldInTime, Expecting, At, InFlight, Dev, Issued, NumberAfter
    <3>4. CASE /\ \/ thread'["app"].at \in {"idle", "adding", "check"}
                  \/ thread'["app"].at = "header" /\ thread'["app"].fn = "function"
               /\ thread["app"].at \in {"idle", "adding", "done"}
      <4>1. ~At("app", "expect") /\ ~At("app", "expect")' /\ ~InFlight("app")'
          BY <3>4 DEF At, InFlight
      <4>2. ASSUME NEW k \in 0 .. 2, Issued(k) PROVE Issued(k)'
          BY <3>1, <4>1, <4>2 DEF Issued, One
      <4>3. exp[2][1] = "identity" => Expecting'
          BY <1>1, <2>1, <3>1, <4>1, <4>2 DEF OldInTime, Expecting, InFlight, NumberAfter
      <4> QED
          BY <1>1, <3>2, <3>4, <4>1, <4>3 DEF OldInTime, At
    <3> QED
        BY <1>3, <3>3, <3>4
  <2>2. CASE thread'["callback"] # thread["callback"]
    <3>1. Dispatch \/ Dispatched
      <4>1. thread'["app"] = thread["app"] /\ UNCHANGED replaced
          BY <1>3, <2>2
      <4>2. ~Call /\ ~AddDevice /\ ~Replace /\ ~Finish
        <5>1. Call => thread'["callback"] = thread["callback"]
            BY CallIs DEF Others, Thread
        <5>2. AddDevice => thread'["callback"] = thread["callback"]
            BY AddIs DEF Others, Thread
        <5>3. Replace \/ Finish => thread'["callback"] = thread["callback"]
            BY <1>0 DEF Replace, Finish
        <5> QED
            BY <2>2, <5>1, <5>2, <5>3
      <4>3. ~DestroyDevice /\ ~SetResponseExpected
          BY <2>2 DEF DestroyDevice, SetResponseExpected
      <4> QED
          BY <4>2, <4>3 DEF Apart
    <3>2. ~Dispatched
      <4>1. Dispatched => thread'["callback"].dev = 0
          BY <1>0, IdleIs DEF Dispatched
      <4> QED
          BY <1>5, <4>1 DEF Old, Dev
    <3>3. Dispatch /\ table # 0 /\ thread'["callback"].dev = table
          /\ thread'["app"] = thread["app"]
      <4>1. table # 0
          BY <2>2, <3>1, <3>2 DEF Dispatch
      <4> QED
          BY <3>1, <3>2, <4>1, DispatchIs DEF Others, Thread
    <3>4. Fresh
        BY <1>5, <3>3 DEF Old, Dev, RefInv, TableHeld
    <3>5. exp'[2] = Nothing
        BY <1>1, <3>4 DEF StaleInv
    <3>6. Dev("app") = 2 => At("app", "idle") \/ At("app", "adding")
        BY <3>4, NotFresh
    <3> QED
        BY <3>3, <3>5, <3>6 DEF OldInTime, Nothing, At, Dev, InFlight
  <2> QED
      BY <2>1, <2>2
<1> QED
    BY <1>2, <1>4, <1>5 DEF StaleInv

LEMMA StaleReceive ==
    ASSUME StaleInv, ReceiveStep \/ Receive \/ ReceiveCallback, Fresh' => Fresh
    PROVE  StaleInv'
<1>1. UNCHANGED <<call, check, exp, next, thread, replaced>>
  <2>1. Enqueue \/ Match \/ Copy \/ Set
        => UNCHANGED <<call, check, exp, next, thread, replaced>>
      BY DEF Enqueue, Match, Copy, Set, objects, device
  <2>2. Received => UNCHANGED <<call, check, exp, next, thread, replaced>>
      BY DEF Received, Release, device
  <2>3. Receive \/ ReceiveCallback => UNCHANGED <<call, check, exp, next, thread, replaced>>
      BY DEF Receive, ReceiveCallback, device
  <2> QED
      BY <2>1, <2>2, <2>3 DEF ReceiveStep
<1> QED
    BY <1>1 DEF StaleInv, AppInTime, OldInTime, Expecting, Old, Past, Issued, At, InFlight, Dev,
       NumberAfter

TimeInv == LockInv /\ (InTime => WaitInv /\ StaleInv)

LEMMA TimeStep == Inv /\ TimeInv /\ [Next]_vars => TimeInv'
<1> SUFFICES ASSUME Inv, TimeInv, [Next]_vars, InTime' PROVE WaitInv' /\ StaleInv'
    BY LockStep DEF Inv, TimeInv
<1> USE DEF Inv
<1>1. InTime
  <2>1. late => late'
    <3>1. ASSUME NEW t \in Thread, Step(t) PROVE late => late'
      <4>1. CASE Read(t)
          BY <4>1, Zenon DEF Read
      <4>2. Check(t) \/ LockIdentity(t) \/ Judge(t) \/ Verdict(t) \/ Header(t) => UNCHANGED late
          BY DEF Check, LockIdentity, Judge, Verdict, Header
      <4>3. Expect(t) \/ Send(t) \/ SendFails(t) \/ Wake(t) => UNCHANGED late
          BY DEF Expect, Send, SendFails, Wake
      <4>4. Clear(t) \/ Reset(t) => UNCHANGED late
          BY DEF Clear, Reset
      <4>5. Timeout(t) => late'
          BY DEF Timeout
      <4> QED
          BY <3>1, <4>1, <4>2, <4>3, <4>4, <4>5 DEF Step
    <3>2. Apart => (late => late')
        BY ApartIs
    <3>3. ReceiveStep \/ Receive \/ ReceiveCallback => (late => late')
        BY DEF ReceiveStep, Enqueue, Match, Copy, Set, Received, Receive, ReceiveCallback
    <3>4. UNCHANGED vars => UNCHANGED late
        BY DEF vars
    <3>5. CASE UNCHANGED vars
        BY <3>4, <3>5
    <3>6. CASE Next
        BY <3>1, <3>2, <3>3, <3>6 DEF Next, AppStep, AppChoice, CallbackStep, Apart, Thread
    <3> QED
        BY <3>5, <3>6
  <2>2. UNCHANGED call /\ (replaced' = {} => replaced = {})
    <3>1. ASSUME NEW t \in Thread, Step(t) PROVE UNCHANGED call /\ UNCHANGED replaced
        BY <3>1, StepIs DEF Aside, objects
    <3>2. Apart => UNCHANGED call
        BY ApartIs
    <3>3. Replace => (replaced' = {} => replaced = {})
        BY DEF Replace
    <3>8. Finish \/ Call => UNCHANGED replaced
      <4>1. Finish => UNCHANGED replaced
          BY DEF Finish, objects
      <4>2. Call => UNCHANGED replaced
          BY DEF Call, objects
      <4> QED
          BY <4>1, <4>2
    <3>4. AddDevice \/ DestroyDevice \/ SetResponseExpected => UNCHANGED replaced
        BY DEF AddDevice, DestroyDevice, SetResponseExpected, objects
    <3>5. Dispatch \/ Dispatched => UNCHANGED replaced
        BY DEF Dispatch, Dispatched, Release
    <3>6. ReceiveStep \/ Receive \/ ReceiveCallback => UNCHANGED <<call, replaced>>
      <4>1. Enqueue \/ Match \/ Copy \/ Set => UNCHANGED <<call, replaced>>
          BY DEF Enqueue, Match, Copy, Set, objects
      <4>2. Received \/ Receive \/ ReceiveCallback => UNCHANGED <<call, replaced>>
          BY DEF Received, Release, Receive, ReceiveCallback
      <4> QED
          BY <4>1, <4>2 DEF ReceiveStep
    <3>7. UNCHANGED vars => UNCHANGED <<call, replaced>>
        BY DEF vars, objects
    <3> QED
        BY <3>1, <3>2, <3>3, <3>4, <3>5, <3>6, <3>7, <3>8
           DEF Next, AppStep, AppChoice, CallbackStep, Apart, Thread
  <2> QED
      BY <2>1, <2>2 DEF InTime
<1>2. WaitInv /\ StaleInv /\ LockInv /\ ~late'
    BY <1>1 DEF TimeInv, InTime
<1>3. Fresh' => Fresh
    BY FreshStep
<1>4. CASE Step("app")
  <2>1. WaitInv'
      BY <1>2, <1>4, WaitStepThread DEF Thread
  <2>2. StaleInv'
    <3>1. CASE Check("app") \/ LockIdentity("app") \/ Judge("app") \/ Verdict("app")
        BY <1>2, <3>1, StaleCheck
    <3>2. CASE Header("app")
        BY <1>2, <3>2, StaleHeader
    <3>3. CASE Expect("app")
        BY <1>1, <1>2, <3>3, StaleExpect
    <3>4. CASE thread["app"].at \in {"send", "wait", "clear", "reset", "read"}
        BY <1>2, <1>4, <3>4, StaleRequest
    <3>5. Send("app") \/ SendFails("app") \/ Wake("app") \/ Timeout("app") \/ Clear("app")
             \/ Reset("app") \/ Read("app")
          => thread["app"].at \in {"send", "wait", "clear", "reset", "read"}
      <4>1. Read("app") => At("app", "read")
          BY Zenon DEF Read
      <4> QED
          BY <4>1 DEF Send, SendFails, Wake, Timeout, Clear, Reset, At
    <3> QED
        BY <1>4, <3>1, <3>2, <3>3, <3>4, <3>5 DEF Step
  <2> QED
      BY <2>1, <2>2
<1>5. CASE Step("callback")
    BY <1>2, <1>5, WaitStepThread, StaleStepCallback DEF Thread
<1>6. CASE Apart
    BY <1>2, <1>3, <1>6, WaitStepApart, StaleApart
<1>7. CASE ReceiveStep \/ Receive \/ ReceiveCallback
  <2>1. WaitInv'
      BY <1>1, <1>2, <1>7, WaitStepTake, WaitStepReceive, MatchesOwnerIs
  <2> QED
      BY <1>2, <1>3, <1>7, <2>1, StaleReceive
<1>8. CASE UNCHANGED vars
  <2>1. UNCHANGED <<call, check, exp, event, packet, next, thread, replaced, ref_count, freed,
                    recv, net>>
      BY <1>8 DEF vars, objects, device
  <2>2. StaleInv'
      BY <1>2, <2>1 DEF StaleInv, AppInTime, OldInTime, Expecting, Old, Past, Issued, At, InFlight,
         Dev, NumberAfter, Fresh
  <2>3. \A t \in Thread : Served(t)'
      BY <1>2, <2>1, ServedFrom DEF WaitInv, Quiet
  <2>4. Claimed' /\ Distinct'
      BY <1>2, <2>1 DEF WaitInv, Claimed, Distinct, Owner, Mine, Awaits, At, Dev
  <2> QED
      BY <2>2, <2>3, <2>4 DEF WaitInv
<1> QED
    BY <1>4, <1>5, <1>6, <1>7, <1>8 DEF Next, AppStep, AppChoice, CallbackStep, Apart

\* No request is reported as timed out unless one has waited until its time was over: the
\* two threads leave each other's responses alone, and a number that a failed request left
\* behind takes no response away (device_send_request, ipcon_handle_response).
THEOREM TimeoutsTrue == Spec => []NoFalseTimeout
<1>1. Init => TimeInv
    BY LockInit, WaitInit, StaleInit DEF TimeInv
<1>2. Inv /\ TimeInv /\ [Next]_vars => TimeInv'
    BY TimeStep
<1>3. TimeInv => NoFalseTimeout
    BY DEF TimeInv, InTime, WaitInv, Served, NoFalseTimeout
<1> QED
    BY <1>1, <1>2, <1>3, InvAlways, PTL DEF Spec

=============================================================================
