------------------------------- MODULE Requests -------------------------------
(***************************************************************************)
(* Requests to a device and their responses                                *)
(* (sensors/query-sensors/ip_connection.c: device_*, packet_header_create, *)
(* ipcon_handle_response, ipcon_dispatch_packet).                          *)
(*                                                                         *)
(* Two threads send requests: the application, when it calls a function of *)
(* a driver, and the callback thread, which checks a device before it      *)
(* hands a callback on.  The receive thread pairs each response with the   *)
(* request that waits.  A response may come late or never; connecting is   *)
(* in module Connection, here sending succeeds or fails.                   *)
(*                                                                         *)
(* A behaviour is about one function of one driver, `call`, and up to two  *)
(* device objects with the same UID, the second of which replaces the      *)
(* first.  Requests are numbered (`tag`) beside their sequence number, so  *)
(* that properties can tell two requests with the same number apart.       *)
(*                                                                         *)
(* Assumed, and not enforced by the code: a request is over, and its       *)
(* response has come or is lost, before its sequence number is used again  *)
(* (Gone), and a new object for a UID is created while the old one is kept *)
(* or after all threads have released it (see AddDevice).                  *)
(***************************************************************************)
EXTENDS Naturals, Sequences, FiniteSets

CONSTANTS
    Calls,          \* functions of the drivers (Bricklets!AllCalls)
    Cycle,          \* sequence numbers, 15 in the code
    MaxCalls,       \* functions the application calls (bound)
    MaxCallbacks    \* callback packets the device sends (bound)

Flag == {"always_true", "true", "false", "invalid"}    \* DEVICE_RESPONSE_EXPECTED_*

\* A function that unpacks a response always gets one, and so does the check of the identity
\* unless the driver knows no identity (Bricklets: every driver is like that)
ASSUME RequestsAssumption ==
    /\ Calls \subseteq [flag : Flag, identity : {"always_true", "invalid"}, payload : Nat,
                        checked : BOOLEAN]
    /\ \A c \in Calls : c.payload > 0 => c.flag = "always_true"
    /\ Cycle \in Nat /\ Cycle >= 3
    /\ MaxCalls \in Nat /\ MaxCallbacks \in Nat

Device == 1 .. 2
Thread == {"app", "callback"}
NoPacket == [fn |-> "none", seq |-> 0, tag |-> 0, error |-> 0, payload |-> 0,
             identifier |-> "none"]

VARIABLES
    call,       \* the function this behaviour is about
    genuine,    \* the device with this UID is of the driver's type
    owned,      \* device objects the application holds
    table,      \* ipcon_p->devices for the UID, 0 if none
    ref_count, freed, replaced,
    check,      \* device_identifier_check
    flag,       \* response_expected[] for the function
    exp,        \* expected_response_function_id and _sequence_number
    event,      \* response_event
    packet,     \* response_packet
    busy,       \* who holds request_mutex
    checking,   \* who holds device_identifier_mutex
    next,       \* next_sequence_number
    thread,     \* where each thread is, and its locals
    recv,       \* the receive thread
    queue,      \* callbacks for the callback thread
    net,        \* requests under way, responses to which may still come
    tags, calls, callbacks,     \* how many there were
    late        \* some request timed out

objects == <<owned, table, ref_count, freed, replaced>>
device == <<check, flag, exp, event, packet, busy, checking>>
bounds == <<tags, calls, callbacks>>
vars == <<call, genuine, objects, device, next, thread, recv, queue, net,
          bounds, late>>

Idle == [at |-> "idle", dev |-> 0, fn |-> "none", seq |-> 0, tag |-> 0,
         expected |-> FALSE, ret |-> "OK", got |-> NoPacket]

Init ==
    /\ \E c \in Calls :
          /\ call = [identity |-> c.identity, payload |-> c.payload, checked |-> c.checked]
          /\ flag = [d \in Device |-> c.flag]
    /\ genuine \in BOOLEAN
    /\ owned = {1} /\ table = 1
    /\ ref_count = [d \in Device |-> IF d = 1 THEN 1 ELSE 0]
    /\ freed = {} /\ replaced = {}
    /\ check = [d \in Device |-> "pending"]
    /\ exp = [d \in Device |-> <<"none", 0>>]
    /\ event = [d \in Device |-> FALSE]
    /\ packet = [d \in Device |-> NoPacket]
    /\ busy = [d \in Device |-> "none"]
    /\ checking = [d \in Device |-> "none"]
    /\ next = 0
    /\ thread = [t \in Thread |-> Idle]
    /\ recv = [at |-> "idle", dev |-> 0, packet |-> NoPacket]
    /\ queue = 0
    /\ net = {}
    /\ tags = 0 /\ calls = 0 /\ callbacks = 0
    /\ late = FALSE

At(t, place) == thread[t].at = place
Dev(t) == thread[t].dev
Goto(t, place) == thread' = [thread EXCEPT ![t].at = place]
Return(t, place, ret) == thread' = [thread EXCEPT ![t].at = place, ![t].ret = ret]

\* Where a thread goes when a request of it has failed or is answered: to the verdict on
\* the identity, or out of the function; the callback thread requests identities only
After(t) == IF thread[t].fn = "identity" THEN "judge" ELSE "done"

\* The function id: get_identity, the only function that does not check the device before,
\* is the one the check calls (the daemon's functions are alone on their device)
Id(fn) == IF call.checked THEN fn ELSE "identity"

\* Payload of the response structure passed with a request, 0 if there is none
Room(fn) == IF fn = "identity" THEN 25 ELSE call.payload

(***************************************************************************)
(* Device objects and their reference counts                               *)
(***************************************************************************)

\* Faulty variant of Acquire: without ++ref_count
AcquireUncounted(d) == UNCHANGED ref_count

Acquire(d) == ref_count' = [ref_count EXCEPT ![d] = @ + 1]

\* Faulty variant of WithoutDevice: without looking at `replaced`
WithoutDeviceAlways(d) == 0

\* The table after device_destroy(d)
WithoutDevice(d) == IF d \in replaced THEN table ELSE 0

Release(d) ==
    /\ ref_count' = [ref_count EXCEPT ![d] = @ - 1]
    /\ IF ref_count[d] = 1
       THEN freed' = freed \cup {d} /\ table' = WithoutDevice(d)
       ELSE UNCHANGED <<freed, table>>
    /\ UNCHANGED <<owned, replaced>>

\* The application creates the second object; ipcon_add_device inserts it ...
AddDevice ==
    /\ At("app", "idle") /\ ref_count[2] = 0 /\ 2 \notin freed
    /\ 1 \in owned \/ 1 \in freed
    /\ owned' = owned \cup {2}
    /\ ref_count' = [ref_count EXCEPT ![2] = 1]
    /\ table' = 2
    /\ thread' = [thread EXCEPT !["app"].at = "adding", !["app"].dev = table]
    /\ UNCHANGED <<call, genuine, freed, replaced, device, next, recv, queue, net,
                   bounds, late>>

\* ... and marks the one that was there
Replace ==
    /\ At("app", "adding")
    /\ replaced' = replaced \cup ({Dev("app")} \ {0})
    /\ thread' = [thread EXCEPT !["app"] = Idle]
    /\ UNCHANGED <<call, genuine, owned, table, ref_count, freed, device, next, recv,
                   queue, net, bounds, late>>

DestroyDevice ==
    /\ At("app", "idle")
    /\ \E d \in owned :
          /\ owned' = owned \ {d}
          /\ ref_count' = [ref_count EXCEPT ![d] = @ - 1]
          /\ IF ref_count[d] = 1
             THEN freed' = freed \cup {d} /\ table' = WithoutDevice(d)
             ELSE UNCHANGED <<freed, table>>
    /\ UNCHANGED <<call, genuine, replaced, device, next, thread, recv, queue, net,
                   bounds, late>>

(***************************************************************************)
(* The settings of a device                                                *)
(***************************************************************************)

Settable(d) == flag[d] \in {"true", "false"}

\* device_set_response_expected refuses what device_set_response_expected_all skips.  After
\* the last call it has no effect any more.
SetResponseExpected ==
    /\ At("app", "idle") /\ calls < MaxCalls
    /\ \E d \in owned, value \in {"true", "false"} :
          /\ Settable(d)
          /\ flag' = [flag EXCEPT ![d] = value]
    /\ UNCHANGED <<call, genuine, objects, check, exp, event, packet, busy, checking,
                   next, thread, recv, queue, net, bounds, late>>

(***************************************************************************)
(* A function of a driver                                                  *)
(***************************************************************************)

Call ==
    /\ At("app", "idle") /\ calls < MaxCalls
    /\ \E d \in owned :
          thread' = [thread EXCEPT !["app"].dev = d, !["app"].fn = "function",
                         !["app"].at = IF call.checked THEN "check" ELSE "header"]
    /\ calls' = calls + 1
    /\ UNCHANGED <<call, genuine, objects, device, next, recv, queue, net, tags,
                   callbacks, late>>

\* device_check_validity, up to the lock
Check(t) ==
    /\ At(t, "check")
    /\ IF Dev(t) \in replaced THEN Return(t, "done", "DEVICE_REPLACED")
       ELSE Goto(t, IF check[Dev(t)] = "pending" THEN "lock" ELSE "verdict")
    /\ UNCHANGED <<call, genuine, objects, device, next, recv, queue, net, bounds, late>>

\* The second look at device_identifier_check, under the lock
LockIdentity(t) ==
    /\ At(t, "lock") /\ checking[Dev(t)] = "none"
    /\ IF check[Dev(t)] = "pending"
       THEN /\ checking' = [checking EXCEPT ![Dev(t)] = t]
            /\ thread' = [thread EXCEPT ![t].at = "header", ![t].fn = "identity"]
       ELSE Goto(t, "verdict") /\ UNCHANGED checking
    /\ UNCHANGED <<call, genuine, objects, check, flag, exp, event, packet, busy, next,
                   recv, queue, net, bounds, late>>

\* The identifier is taken from the response, which is zeroed before the request
Judge(t) ==
    /\ At(t, "judge")
    /\ IF thread[t].ret = "OK"
       THEN /\ check' = [check EXCEPT ![Dev(t)] =
                   IF thread[t].got.identifier = "driver" THEN "match" ELSE "mismatch"]
            /\ thread' = [thread EXCEPT ![t] = [Idle EXCEPT !.at = "verdict", !.dev = Dev(t)]]
       ELSE Goto(t, "done") /\ UNCHANGED check
    /\ checking' = [checking EXCEPT ![Dev(t)] = "none"]
    /\ UNCHANGED <<call, genuine, objects, flag, exp, event, packet, busy, next, recv,
                   queue, net, bounds, late>>

\* The end of device_check_validity: on to the request, or to the callback
Verdict(t) ==
    /\ At(t, "verdict")
    /\ IF check[Dev(t)] = "mismatch" THEN Return(t, "done", "WRONG_DEVICE_TYPE")
       ELSE IF t = "callback" THEN Goto(t, "done")
       ELSE thread' = [thread EXCEPT ![t].at = "header", ![t].fn = "function"]
    /\ UNCHANGED <<call, genuine, objects, device, next, recv, queue, net, bounds, late>>

\* Faulty variant of NextNumber: without the modulus
NextNumberNoModulus == next + 1

NextNumber == (next + 1) % Cycle

\* From the header to the end of device_send_request
InFlight(t) == thread[t].at \in {"expect", "send", "wait", "clear", "reset", "read"}

\* A new request with this number meets neither an older one nor its response (assumption)
Gone(seq) ==
    /\ recv.packet.seq # seq
    /\ \A t \in Thread : InFlight(t) => thread[t].seq # seq

\* packet_header_create
Header(t) ==
    LET fn == thread[t].fn
        seq == next + 1
        expects == IF fn = "identity" THEN call.identity ELSE flag[Dev(t)]
    IN  /\ At(t, "header") /\ Gone(seq)
        /\ next' = NextNumber
        /\ tags' = tags + 1
        /\ net' = {p \in net : p.seq # seq}
        /\ thread' = [thread EXCEPT ![t].seq = seq, ![t].tag = tags + 1,
                          ![t].expected = expects \in {"always_true", "true"},
                          ![t].ret = IF expects = "invalid" THEN "INVALID_PARAMETER"
                                     ELSE "OK",
                          ![t].at = IF expects = "invalid" THEN After(t)
                                    ELSE IF expects = "false" THEN "send" ELSE "expect"]
        /\ UNCHANGED <<call, genuine, objects, device, recv, queue, calls, callbacks,
                       late>>

(***************************************************************************)
(* device_send_request                                                     *)
(***************************************************************************)

\* Faulty variant of Expect: without request_mutex
ExpectUnlocked(t) ==
    /\ At(t, "expect")
    /\ busy' = [busy EXCEPT ![Dev(t)] = t]
    /\ event' = [event EXCEPT ![Dev(t)] = FALSE]
    /\ exp' = [exp EXCEPT ![Dev(t)] = <<Id(thread[t].fn), thread[t].seq>>]
    /\ Goto(t, "send")
    /\ UNCHANGED <<call, genuine, objects, check, flag, packet, checking, next, recv,
                   queue, net, bounds, late>>

\* The two fields are stored one after the other and read without the lock; no response
\* fits the old number with the new function, so one step does for both
Expect(t) ==
    /\ At(t, "expect") /\ busy[Dev(t)] = "none"
    /\ busy' = [busy EXCEPT ![Dev(t)] = t]
    /\ event' = [event EXCEPT ![Dev(t)] = FALSE]
    /\ exp' = [exp EXCEPT ![Dev(t)] = <<Id(thread[t].fn), thread[t].seq>>]
    /\ Goto(t, "send")
    /\ UNCHANGED <<call, genuine, objects, check, flag, packet, checking, next, recv,
                   queue, net, bounds, late>>

\* A device answers only if a response is expected
Send(t) ==
    /\ At(t, "send")
    /\ IF thread[t].expected
       THEN /\ net' = net \cup {[fn |-> thread[t].fn, seq |-> thread[t].seq,
                                 tag |-> thread[t].tag]}
            /\ Goto(t, "wait")
       ELSE Return(t, After(t), "OK") /\ UNCHANGED net
    /\ UNCHANGED <<call, genuine, objects, device, next, recv, queue, bounds, late>>

Unlocked(t) == busy' = [busy EXCEPT ![Dev(t)] = IF thread[t].expected THEN "none" ELSE @]

\* Faulty variant of SendFails: request_mutex stays locked
SendFailsLocked(t) ==
    /\ At(t, "send")
    /\ Return(t, After(t), "NOT_CONNECTED")
    /\ UNCHANGED <<call, genuine, objects, device, next, recv, queue, net, bounds, late>>

\* What is expected stays as it is
SendFails(t) ==
    /\ At(t, "send")
    /\ Return(t, After(t), "NOT_CONNECTED")
    /\ Unlocked(t)
    /\ UNCHANGED <<call, genuine, objects, check, flag, exp, event, packet, checking,
                   next, recv, queue, net, bounds, late>>

\* event_wait returns ...
Wake(t) ==
    /\ At(t, "wait") /\ event[Dev(t)]
    /\ Return(t, "clear", "OK")
    /\ UNCHANGED <<call, genuine, objects, device, next, recv, queue, net, bounds, late>>

\* ... or the time (2.5 s by default) is over
Timeout(t) ==
    /\ At(t, "wait") /\ ~event[Dev(t)]
    /\ Return(t, "clear", "TIMEOUT")
    /\ late' = TRUE
    /\ UNCHANGED <<call, genuine, objects, device, next, recv, queue, net, bounds>>

Clear(t) ==
    /\ At(t, "clear")
    /\ exp' = [exp EXCEPT ![Dev(t)] = <<"none", 0>>]
    /\ Goto(t, "reset")
    /\ UNCHANGED <<call, genuine, objects, check, flag, event, packet, busy, checking,
                   next, recv, queue, net, bounds, late>>

Reset(t) ==
    /\ At(t, "reset")
    /\ event' = [event EXCEPT ![Dev(t)] = FALSE]
    /\ IF thread[t].ret = "OK" THEN Goto(t, "read") /\ UNCHANGED busy
                               ELSE Goto(t, After(t)) /\ Unlocked(t)
    /\ UNCHANGED <<call, genuine, objects, check, flag, exp, packet, checking, next,
                   recv, queue, net, bounds, late>>

\* Faulty variant of Outcome: the sequence number is not compared
OutcomeAnyNumber(t, p) ==
    IF Id(p.fn) # Id(thread[t].fn) THEN "TIMEOUT"
    ELSE IF p.error # 0 THEN "INVALID_PARAMETER"
    ELSE IF p.payload # Room(p.fn) THEN "WRONG_RESPONSE_LENGTH" ELSE "OK"

\* Faulty variant of Outcome: the length is not compared
OutcomeAnyLength(t, p) ==
    IF Id(p.fn) # Id(thread[t].fn) \/ p.seq # thread[t].seq THEN "TIMEOUT"
    ELSE IF p.error # 0 THEN "INVALID_PARAMETER" ELSE "OK"

\* The event may have been set for an earlier request: then response_packet is not ours
Outcome(t, p) ==
    IF Id(p.fn) # Id(thread[t].fn) \/ p.seq # thread[t].seq THEN "TIMEOUT"
    ELSE IF p.error # 0 THEN "INVALID_PARAMETER"
    ELSE IF p.payload # Room(p.fn) THEN "WRONG_RESPONSE_LENGTH" ELSE "OK"

\* Under response_mutex
Read(t) ==
    /\ At(t, "read")
    /\ LET p == packet[Dev(t)]
           ret == Outcome(t, p)
       IN  thread' = [thread EXCEPT ![t].at = After(t), ![t].ret = ret,
                          ![t].got = IF ret = "OK" /\ Room(p.fn) > 0 THEN p ELSE @]
    /\ Unlocked(t)
    /\ UNCHANGED <<call, genuine, objects, check, flag, exp, event, packet, checking,
                   next, recv, queue, net, bounds, late>>

\* The function unpacks what it got, if it was OK, and returns
Finish ==
    /\ At("app", "done")
    /\ thread' = [thread EXCEPT !["app"] = Idle]
    /\ UNCHANGED <<call, genuine, objects, device, next, recv, queue, net, bounds, late>>

(***************************************************************************)
(* The callback thread: ipcon_dispatch_packet                              *)
(***************************************************************************)

Dispatch ==
    /\ At("callback", "idle") /\ queue > 0
    /\ queue' = queue - 1
    /\ IF table = 0 THEN UNCHANGED <<thread, ref_count>>
       ELSE /\ Acquire(table)
            /\ thread' = [thread EXCEPT !["callback"].at = "check",
                              !["callback"].dev = table, !["callback"].fn = "identity"]
    /\ UNCHANGED <<call, genuine, owned, table, freed, replaced, device, next, recv,
                   net, bounds, late>>

\* The wrapper hands a packet of the right length to the function if any; then
\* the device is released, as it is when the check failed
Dispatched ==
    /\ At("callback", "done")
    /\ Release(Dev("callback"))
    /\ thread' = [thread EXCEPT !["callback"] = Idle]
    /\ UNCHANGED <<call, genuine, device, next, recv, queue, net, bounds, late>>

(***************************************************************************)
(* The receive thread: ipcon_handle_response                               *)
(***************************************************************************)

\* What the device says it is: the type the driver is for, or another
Identifier == IF genuine THEN "driver" ELSE "other"

\* A response, with an error code or with a payload of a length that may be wrong; a
\* complete one to GET_IDENTITY holds the identifier of the device, others hold something
\* else in its place, or nothing
Response(request) ==
    LET fits == Room(request.fn)
        with(error, payload) ==
            [fn |-> request.fn, seq |-> request.seq, tag |-> request.tag,
             error |-> error, payload |-> payload,
             identifier |-> IF Id(request.fn) = "identity" /\ payload = Room("identity")
                            THEN Identifier ELSE "none"]
    IN  {with(1, 0), with(0, fits), with(0, IF fits = 0 THEN 1 ELSE 0)}

Receive ==
    /\ recv.at = "idle"
    /\ \E request \in net :
          /\ net' = net \ {request}
          /\ IF table = 0 THEN UNCHANGED <<recv, ref_count>>
             ELSE /\ Acquire(table)
                  /\ \E p \in Response(request) :
                        recv' = [at |-> "match", dev |-> table, packet |-> p]
    /\ UNCHANGED <<call, genuine, owned, table, freed, replaced, device, next, thread,
                   queue, bounds, late>>

\* A packet with sequence number 0
ReceiveCallback ==
    /\ recv.at = "idle" /\ callbacks < MaxCallbacks
    /\ callbacks' = callbacks + 1
    /\ IF table = 0 THEN UNCHANGED <<recv, ref_count>>
       ELSE /\ Acquire(table)
            /\ recv' = [at |-> "callback", dev |-> table, packet |-> NoPacket]
    /\ UNCHANGED <<call, genuine, owned, table, freed, replaced, device, next, thread,
                   queue, net, tags, calls, late>>

\* Queued if the application has registered a function for this callback by now
Enqueue ==
    /\ recv.at = "callback"
    /\ queue' \in {queue, queue + 1}
    /\ recv' = [recv EXCEPT !.at = "release", !.packet = NoPacket]
    /\ UNCHANGED <<call, genuine, objects, device, next, thread, net, bounds, late>>

Match ==
    /\ recv.at = "match"
    /\ IF exp[recv.dev] = <<Id(recv.packet.fn), recv.packet.seq>>
       THEN recv' = [recv EXCEPT !.at = "copy"]
       ELSE recv' = [recv EXCEPT !.at = "release", !.packet = NoPacket]
    /\ UNCHANGED <<call, genuine, objects, device, next, thread, queue, net, bounds,
                   late>>

\* Under response_mutex
Copy ==
    /\ recv.at = "copy"
    /\ packet' = [packet EXCEPT ![recv.dev] = recv.packet]
    /\ recv' = [recv EXCEPT !.at = "set"]
    /\ UNCHANGED <<call, genuine, objects, check, flag, exp, event, busy, checking,
                   next, thread, queue, net, bounds, late>>

Set ==
    /\ recv.at = "set"
    /\ event' = [event EXCEPT ![recv.dev] = TRUE]
    /\ recv' = [recv EXCEPT !.at = "release", !.packet = NoPacket]
    /\ UNCHANGED <<call, genuine, objects, check, flag, exp, packet, busy, checking,
                   next, thread, queue, net, bounds, late>>

Received ==
    /\ recv.at = "release"
    /\ Release(recv.dev)
    /\ recv' = [at |-> "idle", dev |-> 0, packet |-> NoPacket]
    /\ UNCHANGED <<call, genuine, device, next, thread, queue, net, bounds, late>>

(***************************************************************************)
(* Specification                                                           *)
(***************************************************************************)

Step(t) ==
    \/ Check(t) \/ LockIdentity(t) \/ Judge(t) \/ Verdict(t)
    \/ Header(t) \/ Expect(t) \/ Send(t) \/ SendFails(t)
    \/ Wake(t) \/ Timeout(t) \/ Clear(t) \/ Reset(t) \/ Read(t)

AppStep == Step("app") \/ Replace \/ Finish

AppChoice ==
    Call \/ AddDevice \/ DestroyDevice \/ SetResponseExpected

CallbackStep == Step("callback") \/ Dispatch \/ Dispatched

ReceiveStep == Enqueue \/ Match \/ Copy \/ Set \/ Received

Next ==
    \/ AppStep \/ AppChoice \/ CallbackStep \/ ReceiveStep
    \/ Receive \/ ReceiveCallback

Spec == Init /\ [][Next]_vars

\* The threads run on; whether the device answers and what the application does next is open
FairSpec ==
    /\ Spec
    /\ WF_vars(AppStep) /\ WF_vars(CallbackStep) /\ WF_vars(ReceiveStep)

(***************************************************************************)
(* Properties                                                              *)
(***************************************************************************)

Place == {"idle", "adding", "check", "lock", "judge", "verdict", "header", "expect", "send",
          "wait", "clear", "reset", "read", "done"}
Function == {"none", "identity", "function"}
Result == {"OK", "DEVICE_REPLACED", "WRONG_DEVICE_TYPE", "INVALID_PARAMETER",
           "NOT_CONNECTED", "TIMEOUT", "WRONG_RESPONSE_LENGTH"}
Packet == [fn : Function, seq : 0 .. Cycle, tag : Nat, error : {0, 1}, payload : Nat,
           identifier : {"none", "driver", "other"}]
Holder == {"none"} \cup Thread

\* Sequence numbers fit the header's field, as does all else its type.
TypeOK ==
    /\ call \in [identity : {"always_true", "invalid"}, payload : Nat, checked : BOOLEAN]
    /\ genuine \in BOOLEAN
    /\ owned \subseteq Device /\ table \in 0 .. 2
    /\ ref_count \in [Device -> 0 .. 3]
    /\ freed \subseteq Device /\ replaced \subseteq Device
    /\ check \in [Device -> {"pending", "match", "mismatch"}]
    /\ flag \in [Device -> Flag]
    /\ exp \in [Device -> Function \X (0 .. Cycle)]
    /\ event \in [Device -> BOOLEAN] /\ packet \in [Device -> Packet]
    /\ busy \in [Device -> Holder] /\ checking \in [Device -> Holder]
    /\ next \in 0 .. Cycle - 1
    /\ thread \in [Thread -> [at : Place, dev : 0 .. 2, fn : Function, seq : 0 .. Cycle,
                              tag : Nat, expected : BOOLEAN, ret : Result, got : Packet]]
    /\ recv \in [at : {"idle", "match", "callback", "copy", "set", "release"},
                 dev : 0 .. 2, packet : Packet]
    /\ queue \in 0 .. MaxCallbacks
    /\ net \subseteq [fn : Function, seq : 1 .. Cycle, tag : Nat]
    /\ tags \in Nat /\ calls \in 0 .. MaxCalls /\ callbacks \in 0 .. MaxCallbacks
    /\ late \in BOOLEAN

\* What a function unpacks after device_send_request returned OK is the response to this
\* very request, without an error and as long as the structure it unpacks: no stale
\* response, and no structure nobody filled.
OwnAnswer ==
    \A t \in Thread :
        /\ thread[t].ret = "OK" /\ Room(thread[t].fn) > 0
        /\ At(t, "judge") \/ (At(t, "done") /\ thread[t].fn = "function")
        => /\ thread[t].got.tag = thread[t].tag
           /\ thread[t].got.error = 0
           /\ thread[t].got.payload = Room(thread[t].fn)

\* The verdict on the identifier of a device, which is never revised, is right: no packet is
\* taken for the answer to GET_IDENTITY that is late, too short, an error or the answer to
\* another request, and no request that failed is judged.
VerdictRight == \A d \in Device : check[d] # "pending" => (check[d] = "match") = genuine

\* Nobody refers to a device that is freed: the table, the application, the receive thread
\* with a packet in its hands and the callback thread in the middle of a request.
DevicesAlive ==
    /\ table \notin freed
    /\ owned \cap freed = {}
    /\ \A t \in Thread : ~At(t, "idle") => Dev(t) \notin freed
    /\ recv.dev \notin freed

\* A device that was not replaced is found under its UID, until it is destroyed: the end of
\* the object it replaced does not take it out of the table.
TableCurrent == ~At("app", "adding") => \A d \in owned \ replaced : table = d

\* While no request waited until its time was over, no function says so: two threads that
\* send requests to one device do not take each other's responses away, nor does a number that
\* a failed request left behind as expected.  (Not so for get_identity, which may be called on
\* an object that was replaced: the responses to that go to the other object.)
NoFalseTimeout ==
    ~late /\ (call.checked \/ replaced = {}) => \A t \in Thread : thread[t].ret # "TIMEOUT"

\* A function that is called returns, whether the device answers or not.
CallReturns == ~At("app", "idle") ~> At("app", "idle")

================================================================================
