------------------------- MODULE StoreClientProofs --------------------------
(***************************************************************************)
(* What holds of StoreClient for any number of handlers, buffers and       *)
(* addresses, however often the service moves and whatever fails.          *)
(***************************************************************************)
EXTENDS StoreClient, TLAPS

(* A slot is empty or has an operation, and the service says ok only of    *)
(* what it performed.                                                      *)
CallInv ==
    /\ call \in [Slots -> Call]
    /\ \A s \in Slots :
          /\ call[s].pc = "idle" => call[s] = IdleCall
          /\ call[s].pc # "idle" => call[s].op \in Ops
          /\ call[s].pc = "reply" /\ call[s].answer = "ok" => call[s].applied

(* The pool and the handlers share the buffers without overlap. *)
Holds(s) == call[s].pc \in {"fill", "send", "reply"}

PoolInv ==
    /\ free \in SUBSET Bufs
    /\ bufs \in [Bufs -> Urls \cup {NoUrl, Junk}]
    /\ \A s \in Slots : Holds(s) => call[s].buf \in Bufs \ free
    /\ \A s, r \in Slots :
          Holds(s) /\ Holds(r) /\ call[s].buf = call[r].buf => s = r

RestTypes ==
    /\ reg \in Urls \cup {NoUrl}
    /\ url \in [ptr : Urls \cup {NoUrl, Junk}, len : Nat]
    /\ fetched \in SUBSET Urls
    /\ linked \in BOOLEAN
    /\ moves \in 0..MaxMoves
    /\ faults \in 0..MaxFaults

ClientInv == CallInv /\ PoolInv /\ RestTypes

-----------------------------------------------------------------------------
LEMMA IdleType == IdleCall \in Call /\ IdleCall.pc = "idle"
BY DEF IdleCall, Call, Pcs, Answers

LEMMA SliceType ==
    \A u \in Urls \cup {NoUrl, Junk} :
        Slice(u) \in [ptr : Urls \cup {NoUrl, Junk}, len : Nat]
BY StoreAssumption DEF Slice, LengthOf

LEMMA FaultType ==
    ASSUME faults \in 0..MaxFaults, Fault PROVE faults' \in 0..MaxFaults
BY StoreAssumption DEF Fault

(* A slot may take any well-formed request. *)
LEMMA SlotInv ==
    ASSUME CallInv, NEW s \in Slots, NEW k \in Call, k.pc # "idle",
           k.op \in Ops, k.pc = "reply" /\ k.answer = "ok" => k.applied,
           call' = [call EXCEPT ![s] = k]
    PROVE  CallInv'
BY DEF CallInv

LEMMA FinishInv ==
    ASSUME CallInv, NEW s \in Slots, NEW ok \in BOOLEAN, ~At(s, "idle"),
           Finish(s, ok)
    PROVE  /\ CallInv'
           /\ call' = [call EXCEPT ![s] = call'[s]]
           /\ call'[s].pc = "done" /\ call'[s].op = call[s].op
           /\ call'[s].ok = ok
<1> DEFINE k == [IdleCall EXCEPT !.pc = "done", !.op = call[s].op, !.ok = ok]
<1>1. call[s].op \in Ops
  BY DEF CallInv, At
<1>2. k \in Call /\ k.pc = "done" /\ k.op = call[s].op /\ k.ok = ok
  BY <1>1, IdleType DEF IdleCall, Call, Pcs, Answers
<1>3. call' = [call EXCEPT ![s] = k] /\ call'[s] = k
  BY DEF Finish, CallInv
<1>4. CallInv'
  BY <1>1, <1>2, <1>3, SlotInv
<1> QED BY <1>2, <1>3, <1>4

(* What each step makes of the request in its slot. *)
LEMMA FetchNext ==
    ASSUME CallInv, NEW s \in Slots, NEW k \in Call, k.pc # "idle",
           k.pc # "reply", k.op = call[s].op, ~At(s, "idle"),
           call' = [call EXCEPT ![s] = k]
    PROVE  CallInv' /\ call'[s] = k
BY SlotInv DEF CallInv, At

LEMMA NewClientInv ==
    ASSUME RestTypes, NewClient, faults' \in 0..MaxFaults, reg' = reg,
           linked' = linked, moves' = moves
    PROVE  ClientInv'
<1>1. CallInv'
  BY IdleType DEF NewClient, CallInv
<1>2. PoolInv'
  BY IdleType DEF NewClient, PoolInv, Holds
<1>3. RestTypes'
  BY SliceType DEF NewClient, RestTypes
<1> QED BY <1>1, <1>2, <1>3 DEF ClientInv

LEMMA ClientInit == StoreInit => ClientInv
<1> SUFFICES ASSUME StoreInit PROVE ClientInv
  OBVIOUS
<1>1. CallInv /\ PoolInv
  BY IdleType DEF StoreInit, CallInv, PoolInv, Holds
<1>2. PICK u \in {NoUrl, reg} : url = Slice(u) /\ fetched = {u} \ {NoUrl}
  BY DEF StoreInit
<1>3. reg \in Urls \cup {NoUrl} /\ linked \in BOOLEAN
  BY DEF StoreInit
<1>4. moves \in 0..MaxMoves /\ faults \in 0..MaxFaults
  BY StoreAssumption DEF StoreInit
<1>5. fetched \in SUBSET Urls
  BY <1>2, <1>3
<1>6. url \in [ptr : Urls \cup {NoUrl, Junk}, len : Nat]
  BY <1>2, <1>3, SliceType
<1> QED BY <1>1, <1>3, <1>4, <1>5, <1>6 DEF ClientInv, RestTypes

-----------------------------------------------------------------------------
LEMMA StepCalls ==
    ASSUME ClientInv, NEW s \in Slots, RequestStep(s), ~ParseNothing(s)
    PROVE  /\ CallInv' /\ call' = [call EXCEPT ![s] = call'[s]]
           /\ ~At(s, "idle")
<1> USE DEF ClientInv
<1>0. call[s] \in Call /\ (~At(s, "idle") => call[s].op \in Ops)
  BY DEF CallInv, At
<1>1. CASE fillAlcubUrl(s)
  <2> DEFINE k == [call[s] EXCEPT !.got = reg, !.todo = {"ptr", "len"},
                                  !.pc = "write"]
  <2>1. k \in Call /\ k.pc = "write" /\ k.op = call[s].op
    BY <1>0 DEF RestTypes, Call, Pcs
  <2>2. CASE call' = [call EXCEPT ![s].got = reg, ![s].todo = {"ptr", "len"},
                                  ![s].pc = "write"]
    <3>1. call' = [call EXCEPT ![s] = k]
      BY <2>2 DEF CallInv
    <3> QED BY <1>1, <2>1, <3>1, FetchNext DEF fillAlcubUrl, At
  <2>3. CASE Finish(s, FALSE)
    BY <1>1, <2>3, FinishInv DEF fillAlcubUrl, At
  <2> QED BY <1>1, <2>2, <2>3 DEF fillAlcubUrl
<1>2. CASE AssignUrl(s)
  <2>1. PICK w \in call[s].todo :
          call' = [call EXCEPT ![s].todo = @ \ {w},
                     ![s].pc = IF call[s].todo = {w} THEN "parse" ELSE @]
    BY <1>2 DEF AssignUrl
  <2> DEFINE k == [call[s] EXCEPT !.todo = @ \ {w},
                     !.pc = IF call[s].todo = {w} THEN "parse" ELSE @]
  <2>2. /\ k \in Call /\ k.pc \in {"parse", "write"} /\ k.op = call[s].op
    BY <1>0, <1>2 DEF AssignUrl, At, Call, Pcs
  <2>3. call' = [call EXCEPT ![s] = k]
    BY <2>1 DEF CallInv
  <2> QED BY <1>2, <2>2, <2>3, FetchNext DEF AssignUrl, At
<1>3. CASE ParseUrl(s)
  <2>1. CASE Finish(s, FALSE)
    BY <1>3, <2>1, FinishInv DEF ParseUrl, At
  <2>2. CASE \E b \in Bufs :
                call' = [call EXCEPT ![s].buf = b, ![s].got = Bytes,
                                     ![s].pc = "fill"]
    <3>1. PICK b \in Bufs : call' = [call EXCEPT ![s].buf = b, ![s].got = Bytes,
                                                 ![s].pc = "fill"]
      BY <2>2
    <3> DEFINE k == [call[s] EXCEPT !.buf = b, !.got = Bytes, !.pc = "fill"]
    <3>2. Bytes \in Urls \cup {NoUrl, Junk}
      BY DEF Bytes, RestTypes
    <3>3. k \in Call /\ k.pc = "fill" /\ k.op = call[s].op
      BY <1>0, <3>2 DEF Call, Pcs
    <3>4. call' = [call EXCEPT ![s] = k]
      BY <3>1 DEF CallInv
    <3> QED BY <1>3, <3>3, <3>4, FetchNext DEF ParseUrl, At
  <2> QED BY <1>3, <2>1, <2>2 DEF ParseUrl
<1>4. CASE FillBuf(s)
  <2> DEFINE k == [call[s] EXCEPT !.pc = "send"]
  <2>1. k \in Call /\ k.pc = "send" /\ k.op = call[s].op
    BY <1>0 DEF Call, Pcs
  <2>2. call' = [call EXCEPT ![s] = k]
    BY <1>4 DEF FillBuf, CallInv
  <2> QED BY <1>4, <2>1, <2>2, FetchNext DEF FillBuf, At
<1>5. CASE Send(s)
  <2>1. PICK ap \in BOOLEAN, a \in Answers :
          /\ a = "ok" => ap
          /\ call' = [call EXCEPT ![s].applied = ap, ![s].answer = a,
                                  ![s].pc = "reply"]
    <3> DEFINE To(ap, a) ==
          call' = [call EXCEPT ![s].applied = ap, ![s].answer = a,
                               ![s].pc = "reply"]
    <3>1. \/ \E a \in {"ok"} : To(TRUE, a)
          \/ \E a \in {"none"} : To(TRUE, a)
          \/ \E a \in Answers \ {"ok"} : To(FALSE, a)
          \/ \E a \in {"none"} : To(FALSE, a)
      BY <1>5, Zenon DEF Send
    <3> HIDE DEF To
    <3>2. \E ap \in BOOLEAN, a \in Answers : (a = "ok" => ap) /\ To(ap, a)
      BY <3>1 DEF Answers
    <3> QED BY <3>2 DEF To
  <2> DEFINE k == [call[s] EXCEPT !.applied = ap, !.answer = a, !.pc = "reply"]
  <2>2. /\ k \in Call /\ k.pc = "reply" /\ k.op = call[s].op
        /\ k.answer = a /\ k.applied = ap
    BY <1>0 DEF Call, Pcs
  <2>3. call' = [call EXCEPT ![s] = k] /\ call'[s] = k
    BY <2>1 DEF CallInv
  <2>4. call[s].op \in Ops /\ ~At(s, "idle")
    BY <1>0, <1>5 DEF Send, At
  <2> QED BY <2>1, <2>2, <2>3, <2>4, SlotInv
<1>6. CASE Reply(s)
  <2>1. Succeeded(call[s].op, call[s].answer) \in BOOLEAN
    BY DEF Succeeded
  <2> QED BY <1>6, <2>1, FinishInv DEF Reply, At
<1>7. CASE Taken(s)
  BY <1>7, IdleType DEF Taken, At, CallInv
<1> QED
  BY <1>1, <1>2, <1>3, <1>4, <1>5, <1>6, <1>7 DEF RequestStep

(* A buffer changes hands only between the pool and one request. *)
LEMMA StepPool ==
    ASSUME ClientInv, NEW s \in Slots, RequestStep(s), ~ParseNothing(s)
    PROVE  PoolInv'
<1> USE DEF ClientInv
<1>0. /\ \A r \in Slots : r # s => call'[r] = call[r]
      /\ ~At(s, "idle") /\ call' \in [Slots -> Call] /\ call \in [Slots -> Call]
  BY StepCalls DEF CallInv
<1>1. CASE UNCHANGED <<bufs, free>> /\ ~Holds(s)'
  BY <1>0, <1>1 DEF PoolInv, Holds
<1>2. CASE UNCHANGED free /\ Holds(s) /\ call'[s].buf = call[s].buf
           /\ bufs' \in [Bufs -> Urls \cup {NoUrl, Junk}]
  BY <1>0, <1>2 DEF PoolInv, Holds
<1>3. ASSUME NEW b \in Bufs, GetBuf(b), call'[s].buf = b, ~Holds(s)
      PROVE  PoolInv'
  BY <1>0, <1>3 DEF GetBuf, PoolInv, Holds
<1>4. CASE PutBuf(call[s].buf) /\ Holds(s) /\ ~Holds(s)'
  BY <1>0, <1>4 DEF PutBuf, PoolInv, Holds
<1>5. CASE fillAlcubUrl(s) \/ AssignUrl(s) \/ Taken(s)
  <2>1. UNCHANGED <<bufs, free>>
    BY <1>5 DEF fillAlcubUrl, AssignUrl, Taken
  <2>2. CASE fillAlcubUrl(s)
    <3>1. CASE Finish(s, FALSE)
      BY <1>0, <1>1, <2>1, <3>1, IdleType DEF Finish, IdleCall, Holds
    <3>2. CASE call' = [call EXCEPT ![s].got = reg, ![s].todo = {"ptr", "len"},
                                    ![s].pc = "write"]
      <4>1. call'[s].pc = "write"
        BY <1>0, <3>2 DEF Call
      <4> QED BY <1>1, <2>1, <4>1 DEF Holds
    <3> QED BY <2>2, <3>1, <3>2 DEF fillAlcubUrl
  <2>3. CASE AssignUrl(s)
    <3>1. PICK w : call' = [call EXCEPT ![s].todo = @ \ {w},
                     ![s].pc = IF call[s].todo = {w} THEN "parse" ELSE @]
      BY <2>3 DEF AssignUrl
    <3>2. call[s] \in Call /\ call[s].pc = "write"
      BY <2>3, <1>0 DEF AssignUrl, At
    <3> DEFINE k == [call[s] EXCEPT !.todo = @ \ {w},
                       !.pc = IF call[s].todo = {w} THEN "parse" ELSE @]
    <3>3. call'[s] = k /\ k.pc \in {"parse", "write"}
      BY <1>0, <3>1, <3>2 DEF Call
    <3> QED BY <1>1, <2>1, <3>3 DEF Holds
  <2>4. CASE Taken(s)
    BY <1>0, <1>1, <2>1, <2>4, IdleType DEF Taken, Holds
  <2> QED BY <1>5, <2>2, <2>3, <2>4
<1>6. CASE ParseUrl(s)
  <2>1. CASE Finish(s, FALSE) /\ UNCHANGED <<bufs, free>>
    BY <1>0, <1>1, <2>1, IdleType DEF Finish, IdleCall, Holds
  <2>2. CASE \E b \in Bufs :
                /\ GetBuf(b)
                /\ call' = [call EXCEPT ![s].buf = b, ![s].got = Bytes,
                                        ![s].pc = "fill"]
    <3>1. PICK b \in Bufs :
                /\ GetBuf(b)
                /\ call' = [call EXCEPT ![s].buf = b, ![s].got = Bytes,
                                        ![s].pc = "fill"]
      BY <2>2
    <3>2. call'[s].buf = b
      BY <1>0, <3>1 DEF Call
    <3> QED BY <1>3, <1>6, <3>1, <3>2 DEF ParseUrl, At, Holds
  <2> QED BY <1>6, <2>1, <2>2 DEF ParseUrl
<1>7. CASE FillBuf(s)
  <2>1. call'[s].buf = call[s].buf /\ call[s].got \in Urls \cup {NoUrl, Junk}
    BY <1>0, <1>7 DEF FillBuf, Call
  <2>2. bufs' \in [Bufs -> Urls \cup {NoUrl, Junk}]
    BY <1>7, <2>1 DEF FillBuf, PoolInv
  <2> QED BY <1>2, <1>7, <2>1, <2>2 DEF FillBuf, At, Holds
<1>8. CASE Send(s)
  <2>1. UNCHANGED <<bufs, free>>
    BY <1>8 DEF Send
  <2>2. \E ap, a : call' = [call EXCEPT ![s].applied = ap, ![s].answer = a,
                                        ![s].pc = "reply"]
    BY <1>8, Zenon DEF Send
  <2>3. call'[s].buf = call[s].buf
    BY <1>0, <2>2 DEF Call
  <2> QED BY <1>2, <1>8, <2>1, <2>3 DEF Send, At, Holds, PoolInv
<1>9. CASE Reply(s)
  <2>1. call'[s].pc = "done"
    BY <1>0, <1>9, IdleType DEF Reply, Finish, IdleCall
  <2> QED BY <1>4, <1>9, <2>1 DEF Reply, At, Holds
<1> QED BY <1>5, <1>6, <1>7, <1>8, <1>9 DEF RequestStep

LEMMA StepRest ==
    ASSUME ClientInv, NEW s \in Slots, RequestStep(s), ~ParseNothing(s)
    PROVE  RestTypes'
<1> USE DEF ClientInv
<1>1. reg' = reg /\ moves' = moves
  BY DEF RequestStep, fillAlcubUrl, AssignUrl, ParseUrl, FillBuf, Send, Reply,
         Taken
<1>2. faults' \in 0..MaxFaults
  BY FaultType
     DEF RequestStep, fillAlcubUrl, FetchUrl, AssignUrl, ParseUrl, FillBuf,
         Send, Reply, Taken, RestTypes
<1>3. fetched' \in SUBSET Urls
  BY DEF RequestStep, fillAlcubUrl, FetchUrl, AssignUrl, ParseUrl, FillBuf,
         Send, Reply, Taken, RestTypes
<1>4. linked' \in BOOLEAN
  <2>1. Effect(call[s].op) \in BOOLEAN
    BY DEF Effect, RestTypes
  <2> QED BY <2>1
          DEF RequestStep, fillAlcubUrl, AssignUrl, ParseUrl, FillBuf, Send,
              Reply, Taken, RestTypes
<1>5. url' \in [ptr : Urls \cup {NoUrl, Junk}, len : Nat]
  <2>1. CASE AssignUrl(s)
    <3>1. PICK w \in call[s].todo :
              url' = [url EXCEPT ![w] = Slice(call[s].got)[w]]
      BY <2>1 DEF AssignUrl
    <3>2. w \in {"ptr", "len"} /\ call[s].got \in Urls \cup {NoUrl, Junk}
      BY DEF CallInv, Call
    <3>3. Slice(call[s].got) \in [ptr : Urls \cup {NoUrl, Junk}, len : Nat]
      BY <3>2, SliceType
    <3> QED BY <3>1, <3>2, <3>3 DEF RestTypes
  <2>2. CASE url' = url
    BY <2>2 DEF RestTypes
  <2> QED BY <2>1, <2>2
          DEF RequestStep, fillAlcubUrl, ParseUrl, FillBuf, Send, Reply, Taken
<1> QED BY <1>1, <1>2, <1>3, <1>4, <1>5 DEF RestTypes

LEMMA ClientNext == ClientInv /\ [StoreNext]_vars => ClientInv'
<1> SUFFICES ASSUME ClientInv, [StoreNext]_vars PROVE ClientInv'
  OBVIOUS
<1>1. CASE UNCHANGED vars
  BY <1>1 DEF vars, ClientInv, CallInv, PoolInv, Holds, RestTypes
<1>2. CASE Move
  <2>1. moves' \in 0..MaxMoves /\ reg' \in Urls
    BY <1>2, StoreAssumption DEF Move, ClientInv, RestTypes
  <2> QED BY <1>2, <2>1 DEF Move, ClientInv, CallInv, PoolInv, Holds, RestTypes
<1>3. CASE Restart
  BY <1>3, NewClientInv, FaultType DEF Restart, ClientInv, RestTypes
<1>4. ASSUME NEW s \in Slots, RequestStep(s) PROVE ClientInv'
  <2>1. CASE ParseNothing(s)
    BY <2>1, NewClientInv DEF ParseNothing, ClientInv, RestTypes
  <2>2. CASE ~ParseNothing(s)
    BY <1>4, <2>2, StepCalls, StepPool, StepRest DEF ClientInv
  <2> QED BY <2>1, <2>2
<1>5. ASSUME NEW s \in Slots, NEW op \in Ops, Request(s, op) PROVE ClientInv'
  <2> DEFINE k == [call[s] EXCEPT
                     !.op = op, !.pc = IF url.len = 0 THEN "fetch" ELSE "parse"]
  <2>1. call[s] \in Call
    BY DEF ClientInv, CallInv
  <2>2. k \in Call /\ k.op = op /\ k.pc \in {"fetch", "parse"}
    BY <2>1 DEF Call, Pcs
  <2>3. call' = [call EXCEPT ![s] = k]
    BY <1>5 DEF Request, ClientInv, CallInv
  <2>4. CallInv'
    BY <2>2, <2>3, SlotInv DEF ClientInv
  <2>5. PoolInv'
    BY <1>5, <2>2, <2>3 DEF Request, ClientInv, CallInv, PoolInv, Holds
  <2> QED BY <1>5, <2>4, <2>5 DEF Request, ClientInv, RestTypes
<1> QED BY <1>1, <1>2, <1>3, <1>4, <1>5 DEF StoreNext

(* Types of the client's state; in particular a request that is being      *)
(* made holds a buffer that is not in the pool.                            *)
THEOREM StoreTypeCorrect == StoreSpec => []StoreTypeOK
<1>1. ClientInv => StoreTypeOK
  BY DEF ClientInv, CallInv, PoolInv, Holds, RestTypes, StoreTypeOK
<1> QED BY <1>1, ClientInit, ClientNext, PTL DEF StoreSpec
-----------------------------------------------------------------------------
(* How the steps of a request look to its caller. *)
LEMMA TaskStates ==
    ASSUME NEW k \in Call
    PROVE  /\ TaskOf(k).op = k.op
           /\ TaskOf(k) = [st |-> TaskOf(k).st, op |-> k.op]
           /\ k.pc = "idle" => TaskOf(k).st = "idle"
           /\ k.pc = "done" => TaskOf(k).st = IF k.ok THEN "ok" ELSE "error"
           /\ k.pc = "reply" =>
                 TaskOf(k).st = IF k.applied THEN "applied" ELSE "lost"
           /\ k.pc \notin {"idle", "done", "reply"} => TaskOf(k).st = "open"
BY DEF TaskOf

LEMMA IdleTask == TaskOf(IdleCall) = Service!Idle
BY DEF TaskOf, IdleCall, Service!Idle

(* A change of one request is a change of one task. *)
LEMMA TaskChange ==
    ASSUME NEW s \in Slots, call \in [Slots -> Call],
           call' = [call EXCEPT ![s] = call'[s]]
    PROVE  [r \in Slots |-> TaskOf(call'[r])] =
               [[r \in Slots |-> TaskOf(call[r])] EXCEPT ![s] = TaskOf(call'[s])]
OBVIOUS

LEMMA NewTask ==
    ASSUME NEW s \in Slots, NEW st, CallInv, CallInv',
           call' = [call EXCEPT ![s] = call'[s]],
           call'[s].op = call[s].op, TaskOf(call'[s]).st = st
    PROVE  [r \in Slots |-> TaskOf(call'[r])] =
               [[r \in Slots |-> TaskOf(call[r])] EXCEPT ![s].st = st]
<1>1. call[s] \in Call /\ call'[s] \in Call
  BY DEF CallInv
<1>2. TaskOf(call'[s]) = [TaskOf(call[s]) EXCEPT !.st = st]
  BY <1>1, TaskStates
<1> QED BY <1>2, TaskChange DEF CallInv

(* A request that ends early reports an error; its task was open. *)
LEMMA ErrorReturn ==
    ASSUME CallInv, NEW s \in Slots,
           call[s].pc \notin {"idle", "done", "reply"}, Finish(s, FALSE),
           linked' = linked
    PROVE  Service!Return(s)
<1>1. call[s] \in Call /\ TaskOf(call[s]).st = "open"
  BY TaskStates DEF CallInv
<1>2. /\ CallInv' /\ call' = [call EXCEPT ![s] = call'[s]]
      /\ call'[s].pc = "done" /\ call'[s].op = call[s].op
      /\ call'[s].ok = FALSE
  BY FinishInv DEF At
<1>3. TaskOf(call'[s]).st = "error"
  BY <1>2, TaskStates DEF CallInv
<1>4. [r \in Slots |-> TaskOf(call'[r])] =
          [[r \in Slots |-> TaskOf(call[r])] EXCEPT ![s].st = "error"]
  BY <1>2, <1>3, NewTask
<1> QED BY <1>1, <1>4 DEF Service!Return

(* Steps that are the client's own business. *)
LEMMA Unseen ==
    ASSUME CallInv, CallInv', NEW s \in Slots,
           call' = [call EXCEPT ![s] = call'[s]],
           call[s].pc \notin {"idle", "done", "reply"},
           call'[s].pc \notin {"idle", "done", "reply"},
           call'[s].op = call[s].op, linked' = linked
    PROVE  UNCHANGED Service!serviceVars
<1>1. call[s] \in Call /\ call'[s] \in Call
  BY DEF CallInv
<1>2. TaskOf(call'[s]) = TaskOf(call[s])
  BY <1>1, TaskStates
<1>3. [r \in Slots |-> TaskOf(call'[r])] = [r \in Slots |-> TaskOf(call[r])]
  BY <1>2, TaskChange DEF CallInv
<1> QED BY <1>3 DEF Service!serviceVars

LEMMA StepRefines ==
    ASSUME ClientInv, NEW s \in Slots, RequestStep(s), ~ParseNothing(s)
    PROVE  [Service!ServiceNext]_(Service!serviceVars)
<1>1. /\ CallInv /\ CallInv' /\ call' = [call EXCEPT ![s] = call'[s]]
      /\ call[s] \in Call /\ call'[s] \in Call
  BY StepCalls DEF ClientInv, CallInv
<1>2. CASE fillAlcubUrl(s)
  <2>1. CASE Finish(s, FALSE)
    BY <1>1, <1>2, <2>1, ErrorReturn DEF fillAlcubUrl, At, Service!ServiceNext
  <2>2. CASE call' = [call EXCEPT ![s].got = reg, ![s].todo = {"ptr", "len"},
                                  ![s].pc = "write"]
    <3>1. call'[s].pc = "write" /\ call'[s].op = call[s].op
      BY <1>1, <2>2 DEF CallInv, Call
    <3> QED BY <1>1, <1>2, <3>1, Unseen DEF fillAlcubUrl, At
  <2> QED BY <1>2, <2>1, <2>2 DEF fillAlcubUrl
<1>3. CASE AssignUrl(s)
  <2>1. PICK w : call' = [call EXCEPT ![s].todo = @ \ {w},
                     ![s].pc = IF call[s].todo = {w} THEN "parse" ELSE @]
    BY <1>3 DEF AssignUrl
  <2> DEFINE k == [call[s] EXCEPT !.todo = @ \ {w},
                     !.pc = IF call[s].todo = {w} THEN "parse" ELSE @]
  <2>2. call[s].pc = "write"
    BY <1>3 DEF AssignUrl, At
  <2>3. call'[s] = k /\ k.pc \in {"parse", "write"} /\ k.op = call[s].op
    BY <1>1, <2>1, <2>2 DEF CallInv, Call
  <2> QED BY <1>1, <1>3, <2>2, <2>3, Unseen DEF AssignUrl
<1>4. CASE ParseUrl(s)
  <2>1. CASE Finish(s, FALSE)
    BY <1>1, <1>4, <2>1, ErrorReturn DEF ParseUrl, At, Service!ServiceNext
  <2>2. CASE \E b \in Bufs :
                call' = [call EXCEPT ![s].buf = b, ![s].got = Bytes,
                                     ![s].pc = "fill"]
    <3>1. call'[s].pc = "fill" /\ call'[s].op = call[s].op
      BY <1>1, <2>2 DEF CallInv, Call
    <3> QED BY <1>1, <1>4, <3>1, Unseen DEF ParseUrl, At
  <2> QED BY <1>4, <2>1, <2>2 DEF ParseUrl
<1>5. CASE FillBuf(s)
  <2>1. call'[s].pc = "send" /\ call'[s].op = call[s].op
    BY <1>1, <1>5 DEF FillBuf, CallInv, Call
  <2> QED BY <1>1, <1>5, <2>1, Unseen DEF FillBuf, At
<1>6. CASE Send(s)
  <2>1. PICK ap \in BOOLEAN :
          /\ linked' = IF ap THEN Effect(call[s].op) ELSE linked
          /\ \E a : call' = [call EXCEPT ![s].applied = ap, ![s].answer = a,
                                         ![s].pc = "reply"]
    <3> DEFINE To(x) ==
          /\ linked' = IF x THEN Effect(call[s].op) ELSE linked
          /\ \E a : call' = [call EXCEPT ![s].applied = x, ![s].answer = a,
                                         ![s].pc = "reply"]
    <3>1. To(TRUE) \/ To(FALSE)
      BY <1>6, Zenon DEF Send
    <3> QED BY <3>1, Zenon
  <2>2. /\ call'[s].pc = "reply" /\ call'[s].op = call[s].op
        /\ call'[s].applied = ap
    BY <1>1, <2>1 DEF CallInv, Call
  <2>3. TaskOf(call[s]).st = "open" /\ TaskOf(call[s]).op = call[s].op
    BY <1>1, <1>6, TaskStates DEF Send, At
  <2>4. [r \in Slots |-> TaskOf(call'[r])] =
          [[r \in Slots |-> TaskOf(call[r])] EXCEPT
              ![s].st = IF ap THEN "applied" ELSE "lost"]
    BY <1>1, <2>2, NewTask, TaskStates
  <2>5. CASE ap
    <3>1. Service!Effect(call[s].op) = Effect(call[s].op)
      BY DEF Effect, Service!Effect
    <3>2. Service!Apply(s)
      BY <2>1, <2>3, <2>4, <2>5, <3>1 DEF Service!Apply
    <3> QED BY <3>2 DEF Service!ServiceNext
  <2>6. CASE ~ap
    <3>1. Service!Lose(s)
      BY <2>1, <2>3, <2>4, <2>6 DEF Service!Lose
    <3> QED BY <3>1 DEF Service!ServiceNext
  <2> QED BY <2>5, <2>6
<1>7. CASE Reply(s)
  <2> DEFINE ok == Succeeded(call[s].op, call[s].answer)
  <2>0. At(s, "reply") /\ Finish(s, ok) /\ linked' = linked /\ ok \in BOOLEAN
    BY <1>7 DEF Reply, Succeeded
  <2>1. /\ call'[s].pc = "done" /\ call'[s].op = call[s].op
        /\ call'[s].ok = ok
    BY <1>1, <2>0, FinishInv DEF At
  <2>2. /\ TaskOf(call[s]).st = IF call[s].applied THEN "applied" ELSE "lost"
        /\ TaskOf(call[s]).op = call[s].op
    BY <1>1, <2>0, TaskStates DEF At
  <2>3. ok => call[s].applied \/ call[s].op \in {"disconn", "status"}
    BY <1>1, <2>0 DEF At, CallInv, Succeeded, DoConn, GetNode
  <2>4. [r \in Slots |-> TaskOf(call'[r])] =
          [[r \in Slots |-> TaskOf(call[r])] EXCEPT
              ![s].st = IF ok THEN "ok" ELSE "error"]
    BY <1>1, <2>1, NewTask, TaskStates
  <2> HIDE DEF ok
  <2>5. Service!Return(s)
    BY <2>0, <2>2, <2>3, <2>4 DEF Service!Return
  <2> QED BY <2>5 DEF Service!ServiceNext
<1>8. CASE Taken(s)
  <2>1. TaskOf(call[s]).st \in {"ok", "error"}
    BY <1>1, <1>8, TaskStates DEF Taken, At
  <2>2. TaskOf(call'[s]) = Service!Idle
    BY <1>1, <1>8, IdleTask DEF Taken, CallInv
  <2>3. [r \in Slots |-> TaskOf(call'[r])] =
          [[r \in Slots |-> TaskOf(call[r])] EXCEPT ![s] = Service!Idle]
    BY <1>1, <2>2, TaskChange DEF CallInv
  <2>4. Service!Taken(s)
    BY <1>8, <2>1, <2>3 DEF Taken, Service!Taken
  <2> QED BY <2>4 DEF Service!ServiceNext
<1> QED
  BY <1>2, <1>3, <1>4, <1>5, <1>6, <1>7, <1>8 DEF RequestStep

LEMMA StoreRefines ==
    ClientInv /\ [StoreNext]_vars => [Service!ServiceNext]_(Service!serviceVars)
<1> SUFFICES ASSUME ClientInv, [StoreNext]_vars
             PROVE  [Service!ServiceNext]_(Service!serviceVars)
  OBVIOUS
<1>1. CASE UNCHANGED vars \/ Move
  BY <1>1 DEF vars, Move, Service!serviceVars
<1>2. ASSUME NewClient, linked' = linked
      PROVE  [Service!ServiceNext]_(Service!serviceVars)
  <2>1. [r \in Slots |-> TaskOf(call'[r])] = [r \in Slots |-> Service!Idle]
    BY <1>2, IdleTask DEF NewClient
  <2>2. Service!Die
    BY <1>2, <2>1 DEF Service!Die
  <2> QED BY <2>2 DEF Service!ServiceNext
<1>3. CASE Restart
  BY <1>2, <1>3 DEF Restart
<1>4. ASSUME NEW s \in Slots, RequestStep(s)
      PROVE  [Service!ServiceNext]_(Service!serviceVars)
  <2>1. CASE ParseNothing(s)
    BY <1>2, <2>1 DEF ParseNothing
  <2>2. CASE ~ParseNothing(s)
    BY <1>4, <2>2, StepRefines
  <2> QED BY <2>1, <2>2
<1>5. ASSUME NEW s \in Slots, NEW op \in Ops, Request(s, op)
      PROVE  [Service!ServiceNext]_(Service!serviceVars)
  <2> DEFINE k == [IdleCall EXCEPT
                     !.op = op, !.pc = IF url.len = 0 THEN "fetch" ELSE "parse"]
  <2>1. call[s] = IdleCall /\ call \in [Slots -> Call]
    BY <1>5 DEF Request, At, ClientInv, CallInv
  <2>2. call' = [call EXCEPT ![s] = k] /\ call'[s] = k
    BY <1>5, <2>1 DEF Request
  <2>3. k \in Call /\ k.op = op /\ k.pc \in {"fetch", "parse"}
    BY IdleType DEF Call, Pcs, IdleCall
  <2> HIDE DEF k
  <2>4. TaskOf(call'[s]) = [st |-> "open", op |-> op]
    <3>1. TaskOf(k).st = "open"
      BY <2>3, TaskStates
    <3>2. TaskOf(k) = [st |-> TaskOf(k).st, op |-> k.op]
      BY <2>3, TaskStates
    <3> QED BY <2>2, <2>3, <3>1, <3>2, Zenon
  <2>5. [r \in Slots |-> TaskOf(call'[r])] =
          [[r \in Slots |-> TaskOf(call[r])] EXCEPT
              ![s] = [st |-> "open", op |-> op]]
    BY <2>1, <2>2, <2>4, TaskChange
  <2>6. Service!Call(s, op)
    BY <1>5, <2>1, <2>5, IdleTask DEF Service!Call, Request
  <2> QED BY <2>6 DEF Service!ServiceNext, Service!Ops, Ops
<1> QED BY <1>1, <1>3, <1>4, <1>5 DEF StoreNext

(* Whatever is lost, garbled, half written or cut off, the callers get     *)
(* what StoreService promises: at most one effect per call, within the     *)
(* call, and a connect that reports success had it.                        *)
THEOREM StoreImplementsService == StoreSpec => ImplementsService
<1>1. StoreInit => Service!ServiceInit
  BY IdleTask DEF StoreInit, Service!ServiceInit
<1> QED
  BY <1>1, ClientInit, ClientNext, StoreRefines, PTL
     DEF StoreSpec, ImplementsService, Service!ServiceSpec

-----------------------------------------------------------------------------
OneUrl == \A u, v \in fetched : u = v

(* A request that writes has an address to write; one that reads will find *)
(* a length, and one that has read found memory behind it.                 *)
SlotUrl(s) ==
    /\ At(s, "write") => /\ call[s].got \in fetched
                         /\ "len" \notin call[s].todo => url.len # 0
    /\ At(s, "parse") => url.len # 0
    /\ At(s, "fill") \/ At(s, "send") => url.ptr # NoUrl
    /\ OneUrl => /\ At(s, "fill") => call[s].got \in fetched
                 /\ At(s, "send") => bufs[call[s].buf] \in fetched

(* Each word of the slice comes from a fetched address, if not from the    *)
(* same one.                                                               *)
WordsFetched ==
    /\ url.ptr \in fetched \cup {NoUrl}
    /\ url.len = 0 \/ \E u \in fetched : url.len = Length[u]

UrlInv == WordsFetched /\ \A s \in Slots : SlotUrl(s)

(* While the process lives its words are overwritten, never erased. *)
UrlStays ==
    /\ fetched \subseteq fetched'
    /\ url.len # 0 => url'.len # 0
    /\ url.ptr # NoUrl => url'.ptr # NoUrl

LEMMA SliceWords ==
    \A u \in Urls : /\ Slice(u).ptr = u /\ Slice(u).len = Length[u]
                    /\ u # NoUrl /\ Length[u] # 0 /\ Length[u] \in Nat
BY StoreAssumption DEF Slice, LengthOf

(* A request is not disturbed by the steps of the others. *)
LEMMA OtherSlot ==
    ASSUME ClientInv, NEW r \in Slots, SlotUrl(r), UrlStays,
           call'[r] = call[r],
           At(r, "send") => bufs'[call[r].buf] = bufs[call[r].buf]
    PROVE  SlotUrl(r)'
BY DEF SlotUrl, UrlStays, OneUrl, At

LEMMA NewClientUrl ==
    ASSUME RestTypes, NewClient PROVE UrlInv'
<1>1. PICK u \in {NoUrl, reg} : url' = Slice(u) /\ fetched' = {u} \ {NoUrl}
  BY DEF NewClient
<1>2. WordsFetched'
  <2>1. CASE u = NoUrl
    BY <1>1, <2>1, StoreAssumption DEF WordsFetched, Slice, LengthOf
  <2>2. CASE u # NoUrl
    BY <1>1, <2>2, SliceWords DEF WordsFetched, RestTypes
  <2> QED BY <2>1, <2>2
<1>3. ASSUME NEW s \in Slots PROVE SlotUrl(s)'
  BY IdleType DEF NewClient, SlotUrl, At
<1> QED BY <1>2, <1>3 DEF UrlInv

LEMMA UrlInit == StoreInit => UrlInv
<1> SUFFICES ASSUME StoreInit PROVE UrlInv
  OBVIOUS
<1>1. PICK u \in {NoUrl, reg} : url = Slice(u) /\ fetched = {u} \ {NoUrl}
  BY DEF StoreInit
<1>2. WordsFetched
  <2>1. CASE u = NoUrl
    BY <1>1, <2>1, StoreAssumption DEF WordsFetched, Slice, LengthOf
  <2>2. CASE u # NoUrl
    BY <1>1, <2>2, SliceWords DEF WordsFetched, StoreInit
  <2> QED BY <2>1, <2>2
<1>3. ASSUME NEW s \in Slots PROVE SlotUrl(s)
  BY IdleType DEF StoreInit, SlotUrl, At
<1> QED BY <1>2, <1>3 DEF UrlInv

(* The words after a step of a request. *)
LEMMA StepWords ==
    ASSUME ClientInv, UrlInv, NEW s \in Slots, RequestStep(s), ~ParseNothing(s)
    PROVE  UrlStays /\ WordsFetched'
<1>1. CASE fillAlcubUrl(s)
  <2>1. url' = url /\ fetched \subseteq fetched'
    BY <1>1 DEF fillAlcubUrl, FetchUrl
  <2> QED BY <2>1 DEF UrlStays, UrlInv, WordsFetched
<1>2. CASE AssignUrl(s)
  <2> DEFINE got == call[s].got
  <2>1. PICK w \in call[s].todo :
          url' = [url EXCEPT ![w] = Slice(got)[w]]
    BY <1>2 DEF AssignUrl
  <2>2. /\ fetched' = fetched /\ got \in fetched /\ got \in Urls
        /\ w \in {"ptr", "len"}
    BY <1>2 DEF AssignUrl, UrlInv, SlotUrl, ClientInv, RestTypes, CallInv, Call
  <2>3. /\ Slice(got).ptr = got /\ Slice(got).len = Length[got]
        /\ got # NoUrl /\ Length[got] # 0
    BY <2>2, SliceWords
  <2> HIDE DEF got
  <2>4. CASE w = "ptr"
    <3>1. url'.ptr = got /\ url'.len = url.len
      BY <2>1, <2>3, <2>4 DEF ClientInv, RestTypes
    <3> QED BY <2>2, <2>3, <3>1 DEF UrlStays, UrlInv, WordsFetched
  <2>5. CASE w = "len"
    <3>1. url'.ptr = url.ptr /\ url'.len = Length[got]
      BY <2>1, <2>3, <2>5 DEF ClientInv, RestTypes
    <3> QED BY <2>2, <2>3, <3>1 DEF UrlStays, UrlInv, WordsFetched
  <2> QED BY <2>2, <2>4, <2>5
<1>3. CASE UNCHANGED <<url, fetched>>
  BY <1>3 DEF UrlStays, UrlInv, WordsFetched
<1> QED
  BY <1>1, <1>2, <1>3
     DEF RequestStep, ParseUrl, FillBuf, Send, Reply, Taken

(* What a whole read of the slice finds. *)
LEMMA WholeRead ==
    ASSUME ClientInv, WordsFetched, OneUrl, url.ptr # NoUrl, url.len # 0
    PROVE  Bytes = url.ptr /\ url.ptr \in fetched
<1>1. PICK u \in fetched : url.len = Length[u]
  BY DEF WordsFetched
<1>2. url.ptr \in fetched /\ url.ptr = u /\ u \in Urls
  BY <1>1 DEF WordsFetched, OneUrl, ClientInv, RestTypes
<1> QED BY <1>1, <1>2 DEF Bytes, LengthOf

(* The request that took the step. *)
LEMMA StepSlot ==
    ASSUME ClientInv, UrlInv, NEW s \in Slots, RequestStep(s), ~ParseNothing(s)
    PROVE  SlotUrl(s)'
<1>0. /\ call \in [Slots -> Call] /\ call[s] \in Call /\ SlotUrl(s)
      /\ UrlStays /\ WordsFetched' /\ WordsFetched
  BY StepWords DEF ClientInv, CallInv, UrlInv
<1>f. ASSUME NEW ok, Finish(s, ok) PROVE SlotUrl(s)'
  <2>1. call'[s].pc = "done"
    BY <1>f, <1>0, IdleType DEF Finish, Call, IdleCall
  <2> QED BY <2>1 DEF SlotUrl, At
<1>1. CASE fillAlcubUrl(s)
  <2>1. CASE FetchUrl(FALSE) /\ Finish(s, FALSE)
    BY <1>f, <2>1
  <2>2. CASE /\ FetchUrl(TRUE)
             /\ call' = [call EXCEPT ![s].got = reg, ![s].todo = {"ptr", "len"},
                                     ![s].pc = "write"]
    <3>1. /\ call'[s].pc = "write" /\ call'[s].got = reg
          /\ call'[s].todo = {"ptr", "len"}
      BY <1>0, <2>2 DEF Call
    <3>2. reg \in fetched'
      BY <2>2 DEF FetchUrl
    <3> QED BY <3>1, <3>2 DEF SlotUrl, At
  <2> QED BY <1>1, <2>1, <2>2 DEF fillAlcubUrl
<1>2. CASE AssignUrl(s)
  <2> DEFINE got == call[s].got
  <2>1. PICK w \in call[s].todo :
          /\ url' = [url EXCEPT ![w] = Slice(got)[w]]
          /\ call' = [call EXCEPT
                        ![s].todo = @ \ {w},
                        ![s].pc = IF call[s].todo = {w} THEN "parse" ELSE @]
    BY <1>2 DEF AssignUrl
  <2>2. /\ fetched' = fetched /\ got \in fetched /\ got \in Urls
        /\ call[s].pc = "write" /\ w \in {"ptr", "len"}
    BY <1>0, <1>2 DEF AssignUrl, SlotUrl, ClientInv, RestTypes, Call, At
  <2>3. Slice(got).len = Length[got] /\ Length[got] # 0
    BY <2>2, SliceWords
  <2>4. /\ call'[s].todo = call[s].todo \ {w} /\ call'[s].got = got
        /\ call'[s].pc = IF call[s].todo = {w} THEN "parse" ELSE "write"
    BY <1>0, <2>1, <2>2 DEF Call
  <2> HIDE DEF got
  <2>5. "len" \notin call'[s].todo => url'.len # 0
    <3>1. CASE w = "len"
      BY <2>1, <2>3, <3>1 DEF ClientInv, RestTypes
    <3>2. CASE w # "len"
      BY <1>0, <2>2, <2>4, <3>2 DEF SlotUrl, At, UrlStays
    <3> QED BY <3>1, <3>2
  <2>6. CASE call[s].todo = {w}
    <3>1. call'[s].pc = "parse" /\ url'.len # 0
      BY <2>4, <2>5, <2>6
    <3> QED BY <3>1 DEF SlotUrl, At
  <2>7. CASE call[s].todo # {w}
    <3>1. call'[s].pc = "write"
      BY <2>4, <2>7
    <3> QED BY <2>2, <2>4, <2>5, <3>1 DEF SlotUrl, At
  <2> QED BY <2>6, <2>7
<1>3. CASE ParseUrl(s)
  <2>1. CASE Finish(s, FALSE)
    BY <1>f, <2>1
  <2>2. ASSUME NEW b \in Bufs,
               call' = [call EXCEPT ![s].buf = b, ![s].got = Bytes,
                                    ![s].pc = "fill"]
        PROVE  SlotUrl(s)'
    <3>1. call'[s].pc = "fill" /\ call'[s].got = Bytes
      BY <1>0, <2>2 DEF Call
    <3>2. /\ url' = url /\ fetched' = fetched /\ url.ptr # NoUrl
          /\ url.len # 0
      BY <1>0, <1>3 DEF ParseUrl, SlotUrl, At
    <3>3. OneUrl' => Bytes \in fetched'
      BY <1>0, <3>2, WholeRead DEF OneUrl
    <3> QED BY <3>1, <3>2, <3>3 DEF SlotUrl, At
  <2> QED BY <1>3, <2>1, <2>2 DEF ParseUrl
<1>4. CASE FillBuf(s)
  <2>1. /\ call'[s].pc = "send" /\ call'[s].buf = call[s].buf
        /\ call[s].buf \in Bufs
    BY <1>0, <1>4 DEF FillBuf, Call, At, ClientInv, PoolInv, Holds
  <2>2. bufs'[call[s].buf] = call[s].got
    BY <1>4, <2>1 DEF FillBuf, ClientInv, PoolInv
  <2>3. /\ url' = url /\ fetched' = fetched /\ url.ptr # NoUrl
        /\ OneUrl => call[s].got \in fetched
    BY <1>0, <1>4 DEF FillBuf, SlotUrl, At
  <2> QED BY <2>1, <2>2, <2>3 DEF SlotUrl, At, OneUrl
<1>5. CASE Send(s)
  <2>1. \E ap, a : call' = [call EXCEPT ![s].applied = ap, ![s].answer = a,
                                         ![s].pc = "reply"]
    BY <1>5, Zenon DEF Send
  <2>2. call'[s].pc = "reply"
    BY <1>0, <2>1 DEF Call
  <2> QED BY <2>2 DEF SlotUrl, At
<1>6. CASE Reply(s)
  BY <1>f, <1>6 DEF Reply
<1>7. CASE Taken(s)
  <2>1. call'[s].pc = "idle"
    BY <1>0, <1>7, IdleType DEF Taken
  <2> QED BY <2>1 DEF SlotUrl, At
<1> QED BY <1>1, <1>2, <1>3, <1>4, <1>5, <1>6, <1>7 DEF RequestStep

(* A buffer changes only in the pool or under the request that has it. *)
LEMMA BufKept ==
    ASSUME ClientInv, NEW s \in Slots, RequestStep(s), ~ParseNothing(s),
           NEW r \in Slots, r # s, At(r, "send")
    PROVE  bufs'[call[r].buf] = bufs[call[r].buf]
<1>0. call[r].buf \in Bufs \ free /\ bufs \in [Bufs -> Urls \cup {NoUrl, Junk}]
  BY DEF ClientInv, PoolInv, Holds, At
<1>1. CASE ParseUrl(s)
  BY <1>0, <1>1 DEF ParseUrl, GetBuf
<1>2. CASE FillBuf(s)
  <2>1. call[s].buf # call[r].buf
    BY <1>2 DEF FillBuf, ClientInv, PoolInv, Holds, At
  <2> QED BY <1>0, <1>2, <2>1 DEF FillBuf
<1>3. CASE Reply(s)
  <2>1. call[s].buf # call[r].buf
    BY <1>3 DEF Reply, ClientInv, PoolInv, Holds, At
  <2> QED BY <1>0, <1>3, <2>1 DEF Reply, PutBuf
<1>4. CASE UNCHANGED bufs
  BY <1>4
<1> QED
  BY <1>1, <1>2, <1>3, <1>4
     DEF RequestStep, fillAlcubUrl, AssignUrl, Send, Taken

LEMMA UrlNext == ClientInv /\ UrlInv /\ [StoreNext]_vars => UrlInv'
<1> SUFFICES ASSUME ClientInv, UrlInv, [StoreNext]_vars PROVE UrlInv'
  OBVIOUS
<1>1. CASE UNCHANGED <<url, fetched, bufs, call>>
  BY <1>1 DEF UrlInv, WordsFetched, SlotUrl, OneUrl, At
<1>2. CASE Restart
  BY <1>2, NewClientUrl DEF Restart, ClientInv
<1>3. ASSUME NEW s \in Slots, RequestStep(s) PROVE UrlInv'
  <2>1. CASE ParseNothing(s)
    BY <2>1, NewClientUrl DEF ParseNothing, ClientInv
  <2>2. CASE ~ParseNothing(s)
    <3>1. UrlStays /\ WordsFetched' /\ SlotUrl(s)'
      BY <1>3, <2>2, StepWords, StepSlot
    <3>2. ASSUME NEW r \in Slots, r # s PROVE SlotUrl(r)'
      <4>1. call'[r] = call[r]
        <5>1. call' = [call EXCEPT ![s] = call'[s]] /\ call \in [Slots -> Call]
          BY <1>3, <2>2, StepCalls DEF ClientInv, CallInv
        <5> QED BY <3>2, <5>1
      <4>2. At(r, "send") => bufs'[call[r].buf] = bufs[call[r].buf]
        BY <1>3, <2>2, <3>2, BufKept
      <4>3. SlotUrl(r)
        BY DEF UrlInv
      <4> QED BY <3>1, <4>1, <4>2, <4>3, OtherSlot
    <3> QED BY <3>1, <3>2 DEF UrlInv
  <2> QED BY <2>1, <2>2
<1>4. ASSUME NEW s \in Slots, NEW op \in Ops, Request(s, op) PROVE UrlInv'
  <2>1. /\ url' = url /\ fetched' = fetched /\ bufs' = bufs
        /\ \A r \in Slots \ {s} : call'[r] = call[r]
        /\ call'[s].pc = IF url.len = 0 THEN "fetch" ELSE "parse"
    BY <1>4 DEF Request, ClientInv, CallInv, Call
  <2>2. WordsFetched' /\ UrlStays
    BY <2>1 DEF UrlInv, WordsFetched, UrlStays
  <2>3. SlotUrl(s)'
    BY <2>1 DEF SlotUrl, At
  <2>4. ASSUME NEW r \in Slots, r # s PROVE SlotUrl(r)'
    BY <2>1, <2>2, <2>4, OtherSlot DEF UrlInv
  <2> QED BY <2>2, <2>3, <2>4 DEF UrlInv
<1> QED BY <1>1, <1>2, <1>3, <1>4 DEF StoreNext, vars, Move

(* The unlocked slice and the shared pool do no harm as long as the        *)
(* fetches of a process agree: for any number of requests, buffers and     *)
(* addresses, Post is given the one whole address that was fetched.        *)
THEOREM SendsWholeUrlAlways == StoreSpec => []SendsWholeUrl
<1>1. ClientInv /\ UrlInv => SendsWholeUrl
  <2> SUFFICES ASSUME ClientInv, UrlInv, OneUrl, NEW s \in Slots, At(s, "send")
               PROVE  bufs[call[s].buf] = url.ptr /\ url.ptr \in Urls
    BY DEF SendsWholeUrl, OneUrl
  <2>1. bufs[call[s].buf] \in fetched /\ url.ptr \in fetched
    BY DEF UrlInv, SlotUrl, WordsFetched
  <2> QED BY <2>1 DEF OneUrl, ClientInv, RestTypes
<1> QED
  BY <1>1, ClientInit, ClientNext, UrlInit, UrlNext, PTL DEF StoreSpec
=============================================================================
