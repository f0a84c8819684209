------------------------ MODULE ControlSafetyProofs ------------------------
(***************************************************************************)
(* The safety properties of CreateVolume and DeleteVolume, each for any    *)
(* sizes, slots, uuids and bounds and under every hazard except the ones   *)
(* its theorem names.  Every step is first reduced to what it does to      *)
(* image, record and handlers (Effect); RecordInv, what holds of the       *)
(* record whatever the environment does, is the base of the inductive      *)
(* invariants that follow.                                                 *)
(***************************************************************************)
EXTENDS ControlRpcProofs

(* The provisioner has not yet asked for the deletion. *)
BeforeDelete == {"create", "created"}

(* The other handlers go on undisturbed. *)
Others(s) == \A r \in Slots : r # s => call'[r] = call[r]

(* Handler s goes on at pc with the uuid, the size and the caller it has. *)
Moves(s, pc) ==
    /\ call'[s].pc = pc /\ call'[s].uuid = call[s].uuid
    /\ call'[s].cap = call[s].cap /\ call'[s].waiting = call[s].waiting
    /\ Others(s)

Ends(s) == call'[s] = IdleCall /\ Others(s)

Begins(s, pc, u, c) ==
    /\ call[s].pc = "idle" /\ \A r \in Slots : ~call[r].waiting
    /\ call'[s].pc = pc /\ call'[s].uuid = u
    /\ call'[s].cap = c /\ call'[s].waiting = TRUE
    /\ Others(s)

(* The image CreateImage makes for handler s. *)
ImageOf(s) == [uuid |-> call[s].uuid, mib |-> RoundUpSize(call[s].cap)]

(* What a step that no handler takes does. *)
OtherEffect ==
    \/ UNCHANGED <<log, img, call, want, acked>>
    \/ /\ UNCHANGED <<img, call, want, acked>>
       /\ \E st \in Status :
             /\ Exists(Current)
             /\ log' = Append(log, [Current EXCEPT !.status = st])
    \/ /\ UNCHANGED <<img, call, want, acked>>
       /\ Current.phase = "Terminating" /\ log' = Append(log, NoObject)
    \/ /\ UNCHANGED <<log, img, call, acked>>
       /\ want = "created" /\ want' = "delete"
       /\ "quickdelete" \in Hazards \/ Exists(Cached(Leader))
    \/ /\ UNCHANGED <<log, img, want, acked>>
       /\ \A s \in Slots : call'[s] = IdleCall

(* What a step on behalf of CreateVolume does, the image and the record    *)
(* being touched in separate steps.                                        *)
CreateEffect(s) ==
    \/ /\ UNCHANGED <<log, img, call>> /\ want = "create" /\ want' = "created"
       /\ call[s].pc = "idle" /\ \A r \in Slots : ~call[r].waiting
       /\ \E c \in Caps :
             /\ Exists(Cached(Leader)) /\ Cached(Leader).cap >= c
             /\ acked' = acked \cup {[uuid |-> Cached(Leader).uuid, req |-> c]}
    \/ /\ UNCHANGED <<log, img, want, acked>> /\ want = "create"
       /\ \E u \in Uuids, c \in Caps : Fresh(u) /\ Begins(s, "image", u, c)
    \/ /\ UNCHANGED <<log, want, acked>> /\ call[s].pc = "image"
       /\ img = NoImage /\ img' = ImageOf(s)
       /\ Moves(s, "record") \/ Ends(s)
    \/ /\ UNCHANGED <<log, img, want, acked>>
       /\ call[s].pc = "record" /\ Moves(s, "submitted")
    \/ /\ UNCHANGED <<img, call, want, acked>> /\ call[s].pc = "submitted"
       /\ call[s].uuid \notin UsedUuids /\ Current.phase = "Absent"
       /\ log' = Append(log, NewObject(call[s].uuid, call[s].cap))
    \/ /\ UNCHANGED <<log, img>> /\ call[s].pc = "submitted"
       /\ call[s].uuid \in UsedUuids
       /\ Created(call[s].uuid, call[s].cap, call[s].waiting) /\ Ends(s)
    \/ /\ UNCHANGED <<log, img, want, acked>> /\ call[s].pc = "submitted"
       /\ call[s].uuid \notin UsedUuids \/ "lostanswer" \in Hazards
       /\ Moves(s, "undo")
    \/ /\ UNCHANGED <<log, img, want, acked>>
       /\ call[s].pc = "undo" /\ Moves(s, "undorm")
    \/ /\ UNCHANGED <<log, want, acked>>
       /\ call[s].pc = "undorm" /\ img' = NoImage /\ Ends(s)

(* What a step on behalf of DeleteVolume does. *)
DeleteEffect(s) ==
    \/ /\ UNCHANGED <<log, img, call, acked>> /\ want = "delete" /\ want' = "deleted"
       /\ \A r \in Slots : ~call[r].waiting
       /\ \E a \in acked : ~GetByUuid(Leader, a.uuid)
    \/ /\ UNCHANGED <<log, img, want, acked>> /\ want = "delete"
       /\ \E a \in acked : Begins(s, "status", a.uuid, 0)
    \/ /\ UNCHANGED <<log, img, want, acked>> /\ call[s].pc = "status"
       /\ Moves(s, "rm") \/ (img = NoImage /\ Moves(s, "delcr"))
    \/ /\ UNCHANGED <<log, want, acked>> /\ call[s].pc = "rm"
       /\ img' = NoImage /\ (Moves(s, "delcr") \/ Ends(s))
    \/ /\ UNCHANGED <<img, acked>> /\ call[s].pc = "delcr" /\ Ends(s)
       /\ Current.phase = "Live"
       /\ log' = Append(log, [Current EXCEPT !.phase = "Terminating"])
       /\ \/ want' = want /\ "lostanswer" \in Hazards
          \/ want' = IF call[s].waiting THEN "deleted" ELSE want
    \/ /\ UNCHANGED <<log, img, acked>> /\ call[s].pc = "delcr" /\ Ends(s)
       /\ Current.phase = "Terminating"
       /\ want' = IF call[s].waiting THEN "deleted" ELSE want

(* What any handler may do: end with an error, or lose its caller. *)
EitherEffect(s) ==
    /\ UNCHANGED <<log, img, want, acked>>
    /\ \/ call[s].pc # "idle" /\ Ends(s)
       \/ /\ call[s].waiting /\ call'[s].waiting = FALSE
          /\ (IF call[s].pc \in CreatePcs THEN "createtimeout"
                                          ELSE "deletetimeout") \in Hazards
          /\ call'[s].pc = call[s].pc /\ call'[s].uuid = call[s].uuid
          /\ call'[s].cap = call[s].cap
          /\ Others(s)

Effect ==
    OtherEffect \/ \E s \in Slots : CreateEffect(s) \/ DeleteEffect(s) \/ EitherEffect(s)

-----------------------------------------------------------------------------
LEMMA GotoMoves ==
    ASSUME CallTypes, NEW s \in Slots, NEW pc, Goto(s, pc)
    PROVE  Moves(s, pc) /\ UNCHANGED <<want, acked>>
<1>1. call[s] \in Call /\ s \in DOMAIN call /\ DOMAIN call = Slots
  BY DEF CallTypes
<1>2. call' = [call EXCEPT ![s] = [call[s] EXCEPT !.pc = pc]]
  BY <1>1 DEF Goto
<1>3. call'[s] = [call[s] EXCEPT !.pc = pc] /\ Others(s)
  BY <1>1, <1>2 DEF Others
<1> HIDE <1>2
<1> QED BY <1>1, <1>3 DEF Moves, Call, Goto

LEMMA EndsAll ==
    ASSUME CallTypes, NEW s \in Slots, Fail(s) \/ Return(s)
    PROVE  Ends(s) /\ (Fail(s) => UNCHANGED <<want, acked>>)
BY DEF CallTypes, Fail, Return, Ends, Others

LEMMA HandlerEffect ==
    ASSUME ControlInv, NEW s \in Slots, HandlerStep(s)
    PROVE  OtherEffect \/ CreateEffect(s) \/ DeleteEffect(s) \/ EitherEffect(s)
<1> USE GotoMoves, EndsAll DEF ControlInv, At
<1>1. CASE CreateImage(s)
  <2>1. log' = log /\ call[s].pc = "image"
    BY <1>1 DEF CreateImage, recordVars
  <2>2. CASE Goto(s, "record") /\ img = NoImage /\ img' = ImageOf(s)
    BY <2>1, <2>2 DEF CreateEffect
  <2>3. CASE Fail(s) /\ img = NoImage /\ img' = ImageOf(s)
    BY <2>1, <2>3 DEF CreateEffect
  <2>4. CASE Fail(s) /\ UNCHANGED img
    BY <2>1, <2>4 DEF EitherEffect
  <2> QED BY <1>1, <2>2, <2>3, <2>4, Zenon DEF CreateImage, ImageOf
<1>2. CASE SubmitRecord(s)
  BY <1>2 DEF SubmitRecord, CreateBegin, CreateEffect
<1>3. CASE ApplyRecord(s)
  BY <1>3 DEF ApplyRecord, CreateApply, ClientCommit, Commit, controlVars,
     CreateEffect
<1>4. CASE FinishCreate(s)
  <2>1. UNCHANGED <<log, img>> /\ call[s].pc = "submitted"
    BY <1>4 DEF FinishCreate, CreateReturn, CreateRefused, CreateError
  <2>2. CASE /\ CreateReturn(Leader, call[s].uuid) /\ Return(s)
             /\ Created(call[s].uuid, call[s].cap, call[s].waiting)
    BY <2>1, <2>2 DEF CreateReturn, CreateEffect
  <2>3. CASE /\ call[s].uuid \notin UsedUuids \/ "lostanswer" \in Hazards
             /\ Goto(s, "undo")
    BY <2>1, <2>3 DEF CreateEffect
  <2> QED BY <1>4, <2>2, <2>3 DEF FinishCreate, CreateRefused, May
<1>5. CASE UndoCreate(s)
  <2>1. UNCHANGED log
    BY <1>5 DEF UndoCreate, rbdStatus, rbdRm, recordVars
  <2>2. CASE Fail(s) /\ UNCHANGED img
    BY <1>5, <2>1, <2>2 DEF EitherEffect, UndoCreate, rbdStatus, rbdRm
  <2>3. CASE At(s, "undo") /\ Goto(s, "undorm") /\ UNCHANGED img
    BY <2>1, <2>3 DEF CreateEffect
  <2>4. CASE At(s, "undorm") /\ Fail(s) /\ img' = NoImage
    BY <2>1, <2>4 DEF CreateEffect
  <2> QED BY <1>5, <2>2, <2>3, <2>4 DEF UndoCreate, rbdStatus, rbdRm
<1>6. CASE DeleteTheImage(s)
  <2>1. UNCHANGED log
    BY <1>6 DEF DeleteTheImage, rbdStatus, rbdRm, recordVars
  <2>2. CASE Fail(s) /\ UNCHANGED img
    BY <1>6, <2>1, <2>2 DEF EitherEffect, DeleteTheImage, rbdStatus, rbdRm
  <2>3. CASE At(s, "status") /\ Goto(s, "rm") /\ UNCHANGED img
    BY <2>1, <2>3 DEF DeleteEffect
  <2>4. CASE At(s, "status") /\ Goto(s, "delcr") /\ UNCHANGED img /\ img = NoImage
    BY <2>1, <2>4 DEF DeleteEffect
  <2>5. CASE At(s, "rm") /\ img' = NoImage /\ (Goto(s, "delcr") \/ Fail(s))
    BY <2>1, <2>5 DEF DeleteEffect
  <2> QED BY <1>6, <2>2, <2>3, <2>4, <2>5 DEF DeleteTheImage, rbdStatus, rbdRm
<1>7. CASE DeleteRecord(s)
  <2>1. UNCHANGED img /\ call[s].pc = "delcr"
    BY <1>7 DEF DeleteRecord
  <2>2. CASE Delete(Leader) /\ Deleted(call[s].waiting) /\ Return(s)
    BY <2>1, <2>2 DEF Delete, ClientCommit, Commit, Deleted, DeleteEffect
  <2>3. CASE /\ UNCHANGED managerVars /\ Current.phase = "Terminating"
             /\ Deleted(call[s].waiting) /\ Return(s)
    BY <2>1, <2>3 DEF managerVars, Deleted, DeleteEffect
  <2>4. CASE UNCHANGED log /\ Fail(s)
    BY <2>1, <2>4 DEF EitherEffect
  <2>5. CASE "lostanswer" \in Hazards /\ Delete(Leader) /\ Fail(s)
    BY <2>1, <2>5 DEF Delete, ClientCommit, Commit, DeleteEffect
  <2> QED
    BY <1>7, <2>2, <2>3, <2>4, <2>5
       DEF DeleteRecord, managerVars, recordVars, May
<1> QED
  BY <1>1, <1>2, <1>3, <1>4, <1>5, <1>6, <1>7 DEF HandlerStep

LEMMA ControlEffect ==
    ASSUME ControlInv, [ControlNext]_vars
    PROVE  Effect
<1> USE DEF ControlInv, Effect
<1>1. CASE UNCHANGED vars
  BY <1>1 DEF vars, managerVars, controlVars, OtherEffect
<1>2. CASE RequestDelete
  BY <1>2 DEF RequestDelete, managerVars, May, OtherEffect
<1>3. CASE Failover
  BY <1>3 DEF Failover, Restart, OtherEffect
<1>4. ASSUME NEW s \in Slots, HandlerStep(s) PROVE Effect
  BY <1>4, HandlerEffect
<1>5. ASSUME NEW s \in Slots, CallerTimeout(s)
      PROVE  EitherEffect(s)
  <2>1. call[s] \in Call /\ s \in DOMAIN call /\ DOMAIN call = Slots
    BY DEF CallTypes
  <2>2. call' = [call EXCEPT ![s] = [call[s] EXCEPT !.waiting = FALSE]]
    BY <1>5, <2>1 DEF CallerTimeout
  <2>3. call'[s] = [call[s] EXCEPT !.waiting = FALSE] /\ Others(s)
    BY <2>1, <2>2 DEF Others
  <2>4. /\ call'[s].waiting = FALSE /\ call'[s].pc = call[s].pc
        /\ call'[s].uuid = call[s].uuid /\ call'[s].cap = call[s].cap
    BY <2>1, <2>3 DEF Call
  <2> QED BY <1>5, <2>3, <2>4, Zenon
             DEF CallerTimeout, recordVars, May, EitherEffect
<1>6. ASSUME NEW s \in Slots, DeleteVolume(s) PROVE DeleteEffect(s)
  <2>1. PICK a \in acked :
          \/ /\ ~GetByUuid(Leader, a.uuid) /\ Deleted(TRUE)
             /\ UNCHANGED call
          \/ /\ call' = [call EXCEPT ![s] = [pc |-> "status", uuid |-> a.uuid,
                                             cap |-> 0, waiting |-> TRUE]]
             /\ UNCHANGED <<want, acked>>
    BY <1>6 DEF DeleteVolume
  <2>2. /\ UNCHANGED <<log, img>> /\ want = "delete" /\ call[s].pc = "idle"
        /\ \A r \in Slots : ~call[r].waiting
    BY <1>6 DEF DeleteVolume, managerVars, At, Awaited
  <2>3. CASE ~GetByUuid(Leader, a.uuid) /\ Deleted(TRUE) /\ UNCHANGED call
    BY <2>2, <2>3 DEF Deleted, DeleteEffect
  <2>4. CASE /\ call' = [call EXCEPT ![s] = [pc |-> "status", uuid |-> a.uuid,
                                             cap |-> 0, waiting |-> TRUE]]
             /\ UNCHANGED <<want, acked>>
    <3>1. Begins(s, "status", a.uuid, 0)
      BY <2>2, <2>4 DEF Begins, Others, CallTypes
    <3> QED BY <2>2, <2>4, <3>1 DEF DeleteEffect
  <2> QED BY <2>1, <2>3, <2>4
<1>7. ASSUME NEW s \in Slots, NEW c \in Caps, CreateVolume(s, c)
      PROVE  CreateEffect(s)
  <2>2. /\ UNCHANGED <<log, img>> /\ want = "create" /\ call[s].pc = "idle"
        /\ \A r \in Slots : ~call[r].waiting
    BY <1>7 DEF CreateVolume, managerVars, At, Awaited
  <2>3. CASE /\ GetByName(Leader) /\ Cached(Leader).cap >= c
             /\ Created(Cached(Leader).uuid, c, TRUE) /\ UNCHANGED call
    BY <2>2, <2>3 DEF Created, GetByName, CreateEffect
  <2>4. ASSUME NEW u \in Uuids, Fresh(u), UNCHANGED <<want, acked>>,
               call' = [call EXCEPT ![s] = [pc |-> "image", uuid |-> u,
                                            cap |-> c, waiting |-> TRUE]]
        PROVE  CreateEffect(s)
    <3>1. Begins(s, "image", u, c)
      BY <2>2, <2>4 DEF Begins, Others, CallTypes
    <3> QED BY <2>2, <2>4, <3>1 DEF CreateEffect
  <2> QED BY <1>7, <2>3, <2>4 DEF CreateVolume
<1>8. ASSUME NEW n \in Nodes \cap Procs, NodeUse(n) PROVE OtherEffect
  <2>1. ASSUME NEW st \in Status, Update(n, st), UNCHANGED <<img, call, want, acked>>
        PROVE  OtherEffect
    <3>1. Cached(n) = Current /\ Exists(Current)
      BY <2>1, ReadTypes DEF Update, Writable, TypeInv
    <3> QED BY <2>1, <3>1 DEF Update, ClientCommit, Commit, OtherEffect
  <2>2. /\ [node |-> n, prenode |-> NoNode, vi |-> n] \in Status
        /\ [node |-> NoNode, prenode |-> NoNode, vi |-> n] \in Status
    BY DEF Status, NodeOrNone
  <2>3. CASE UNCHANGED managerVars
    BY <1>8, <2>3 DEF NodeUse, managerVars, OtherEffect
  <2> QED BY <1>8, <2>1, <2>2, <2>3 DEF NodeUse
<1>9. ASSUME NEW p \in Procs, CacheStep(p), UNCHANGED controlVars
      PROVE  OtherEffect
  <2>1. CASE log' = log
    BY <1>9, <2>1 DEF controlVars, OtherEffect
  <2>2. CASE /\ Cached(p).phase = "Terminating"
             /\ Writable(p) /\ Commit(NoObject)
    BY <1>9, <2>2, ReadTypes
       DEF Writable, Commit, TypeInv, controlVars, OtherEffect
  <2> QED
    BY <1>9, <2>1, <2>2
       DEF CacheStep, WatchEvent, Resync, Reconcile, RemoveFinalizer
<1> QED
  BY <1>1, <1>2, <1>3, <1>4, <1>5, <1>6, <1>7, <1>8, <1>9 DEF ControlNext

-----------------------------------------------------------------------------
(* At most one caller waits, for what it wants. *)
Waits ==
    /\ \A s, r \in Slots : call[s].waiting /\ call[r].waiting => s = r
    /\ \A s \in Slots :
          /\ call[s].pc = "idle" => ~call[s].waiting
          /\ call[s].pc \in DeletePcs => want \notin BeforeDelete
          /\ call[s].waiting =>
                want = IF call[s].pc \in CreatePcs THEN "create" ELSE "delete"

LEMMA WaitsNext ==
    ASSUME ControlInv, Waits, Effect
    PROVE  Waits'
<1> USE DEF ControlInv, CallTypes, RequestTypes, CreatePcs, DeletePcs,
            BeforeDelete, Others, Moves,
            Ends, Begins, IdleCall
<1>1. CASE OtherEffect
  BY <1>1 DEF OtherEffect, Waits
<1>2. ASSUME NEW s \in Slots, CreateEffect(s) PROVE Waits'
  BY <1>2 DEF CreateEffect, Created, Waits
<1>3. ASSUME NEW s \in Slots, DeleteEffect(s) PROVE Waits'
  BY <1>3 DEF DeleteEffect, Waits
<1>4. ASSUME NEW s \in Slots, EitherEffect(s) PROVE Waits'
  BY <1>4 DEF EitherEffect, Waits
<1> QED BY <1>1, <1>2, <1>3, <1>4 DEF Effect

-----------------------------------------------------------------------------
(* The API server holds one more version, the current object. *)
Adds ==
    /\ Len(log) \in Nat \ {0} /\ Len(log') = Len(log) + 1
    /\ DOMAIN log = 1..Len(log) /\ DOMAIN log' = 1..(Len(log) + 1)
    /\ \A i \in DOMAIN log : log'[i] = log[i]
    /\ log'[Len(log) + 1] = Current'

LEMMA AppendAdds ==
    ASSUME ManagerTypeOK, NEW o \in Object, log' = Append(log, o)
    PROVE  Adds /\ Current' = o /\ UsedUuids' = UsedUuids \cup {o.uuid}
<1>1. Current' = o /\ UsedUuids' = UsedUuids \cup {o.uuid}
  BY AppendEffect
<1> QED BY <1>1 DEF Adds, ManagerTypeOK

LEMMA StatusAdds ==
    ASSUME ManagerTypeOK, NEW st \in Status,
           log' = Append(log, [Current EXCEPT !.status = st])
    PROVE  /\ Adds /\ UsedUuids' = UsedUuids
           /\ Current'.phase = Current.phase /\ Current'.uuid = Current.uuid
           /\ Current'.cap = Current.cap
<1>1. Current \in Object /\ [Current EXCEPT !.status = st] \in Object
  BY ReadTypes, ObjectTypes
<1>2. [Current EXCEPT !.status = st].phase = Current.phase
      /\ [Current EXCEPT !.status = st].uuid = Current.uuid
      /\ [Current EXCEPT !.status = st].cap = Current.cap
  BY <1>1 DEF Object
<1>3. /\ Adds /\ Current' = [Current EXCEPT !.status = st]
      /\ UsedUuids' = UsedUuids \cup {Current.uuid}
  BY <1>1, <1>2, AppendAdds
<1> QED BY <1>2, <1>3, CurrentUsed

LEMMA TerminatingAdds ==
    ASSUME ManagerTypeOK,
           log' = Append(log, [Current EXCEPT !.phase = "Terminating"])
    PROVE  /\ Adds /\ UsedUuids' = UsedUuids
           /\ Current'.phase = "Terminating" /\ Current'.uuid = Current.uuid
           /\ Current'.cap = Current.cap
<1> DEFINE o == [Current EXCEPT !.phase = "Terminating"]
<1>1. Current \in Object /\ o \in Object
  BY ReadTypes, ObjectTypes
<1>2. o.phase = "Terminating" /\ o.uuid = Current.uuid /\ o.cap = Current.cap
  BY <1>1 DEF Object
<1>3. Adds /\ Current' = o /\ UsedUuids' = UsedUuids \cup {Current.uuid}
  BY <1>1, <1>2, AppendAdds
<1> QED BY <1>2, <1>3, CurrentUsed

LEMMA NoObjectAdds ==
    ASSUME ManagerTypeOK, log' = Append(log, NoObject)
    PROVE  /\ Adds /\ UsedUuids' = UsedUuids \cup {NoUuid}
           /\ Current'.phase = "Absent" /\ Current'.uuid = NoUuid
BY AppendAdds, ObjectTypes DEF NoObject

LEMMA NewAdds ==
    ASSUME ManagerTypeOK, NEW u \in Uuids, NEW c \in Caps,
           log' = Append(log, NewObject(u, c))
    PROVE  /\ Adds /\ UsedUuids' = UsedUuids \cup {u}
           /\ Current'.phase = "Live" /\ Current'.uuid = u /\ Current'.cap = c
BY AppendAdds, ObjectTypes DEF NewObject

(* What a step does to the record, the kinds of LogStep with the handler   *)
(* that makes the write.                                                   *)
RecordEffect ==
    \/ log' = log /\ Current' = Current /\ UsedUuids' = UsedUuids
    \/ /\ Adds /\ UsedUuids' = UsedUuids /\ Exists(Current)
       /\ Current'.uuid = Current.uuid /\ Current'.cap = Current.cap
       /\ \/ Current'.phase = Current.phase /\ UNCHANGED <<call, img, want, acked>>
          \/ /\ Current'.phase = "Terminating" /\ Current.phase = "Live"
             /\ UNCHANGED img
             /\ \E s \in Slots :
                   /\ call[s].pc = "delcr" /\ Ends(s)
                   /\ \/ "lostanswer" \in Hazards
                      \/ want' = IF call[s].waiting THEN "deleted" ELSE want
    \/ /\ Adds /\ Current.phase = "Terminating"
       /\ UNCHANGED <<call, img, want, acked>>
       /\ UsedUuids' = UsedUuids \cup {NoUuid}
       /\ Current'.phase = "Absent" /\ Current'.uuid = NoUuid
    \/ /\ Adds /\ Current.phase = "Absent" /\ Current'.phase = "Live"
       /\ UNCHANGED <<call, img, want, acked>>
       /\ \E s \in Slots :
             /\ call[s].pc = "submitted" /\ call[s].uuid \notin UsedUuids
             /\ UsedUuids' = UsedUuids \cup {call[s].uuid}
             /\ Current'.uuid = call[s].uuid /\ Current'.cap = call[s].cap

LEMMA EffectOnRecord ==
    ASSUME ControlInv, Effect
    PROVE  RecordEffect
<1>1. ManagerTypeOK
  BY DEF ControlInv, TypeInv
<1>2. CASE log' = log
  BY <1>2 DEF Current, UsedUuids, RecordEffect
<1>3. ASSUME NEW st \in Status, Exists(Current),
             log' = Append(log, [Current EXCEPT !.status = st]),
             UNCHANGED <<img, call, want, acked>>
      PROVE  RecordEffect
  BY <1>1, <1>3, StatusAdds DEF RecordEffect
<1>4. CASE OtherEffect
  BY <1>1, <1>2, <1>3, <1>4, NoObjectAdds DEF OtherEffect, RecordEffect
<1>5. ASSUME NEW s \in Slots, CreateEffect(s) PROVE RecordEffect
  <2>1. ASSUME UNCHANGED <<img, call, want, acked>>, call[s].pc = "submitted",
               call[s].uuid \notin UsedUuids, Current.phase = "Absent",
               log' = Append(log, NewObject(call[s].uuid, call[s].cap))
        PROVE  RecordEffect
    <3>1. call[s].uuid \in Uuids /\ call[s].cap \in Caps
      BY <2>1 DEF ControlInv, CallTypes, CreatePcs
    <3> QED BY <1>1, <2>1, <3>1, NewAdds DEF RecordEffect
  <2> QED BY <1>2, <1>5, <2>1 DEF CreateEffect
<1>6. ASSUME NEW s \in Slots, DeleteEffect(s) PROVE RecordEffect
  <2>1. ASSUME call[s].pc = "delcr", Current.phase = "Live", UNCHANGED img, Ends(s),
               log' = Append(log, [Current EXCEPT !.phase = "Terminating"]),
               \/ "lostanswer" \in Hazards
               \/ want' = IF call[s].waiting THEN "deleted" ELSE want
        PROVE  RecordEffect
    BY <1>1, <2>1, TerminatingAdds DEF RecordEffect, Exists
  <2> QED BY <1>2, <1>6, <2>1 DEF DeleteEffect
<1>7. ASSUME NEW s \in Slots, EitherEffect(s) PROVE RecordEffect
  BY <1>2, <1>7 DEF EitherEffect
<1> QED BY <1>4, <1>5, <1>6, <1>7 DEF Effect

-----------------------------------------------------------------------------
(* Every CreateVolume has a uuid of its own, unused until its record is    *)
(* submitted.                                                              *)
FreshCalls ==
    /\ \A s, r \in Slots :
          /\ call[s].pc \in CreatePcs /\ call[r].pc \in CreatePcs
          /\ call[s].uuid = call[r].uuid
          => s = r
    /\ \A s \in Slots :
          call[s].pc \in {"image", "record"} => call[s].uuid \notin UsedUuids

AbsentEmpty == \A i \in DOMAIN log : ~Exists(log[i]) => log[i].uuid = NoUuid

(* A record made by a CreateVolume that still runs has the size asked for. *)
SubmittedCap ==
    \A s \in Slots : call[s].pc = "submitted" =>
        \A i \in DOMAIN log :
            log[i].uuid = call[s].uuid => log[i].cap = call[s].cap

(* There was one incarnation so far, or none, and it is live. *)
OneRecord ==
    \A i \in DOMAIN log : Exists(log[i]) =>
        /\ log[i].phase = "Live" /\ Exists(Current)
        /\ log[i].uuid = Current.uuid /\ log[i].cap = Current.cap

(* Every answer of CreateVolume was about this incarnation. *)
AckedRecord ==
    \A a \in acked :
        /\ Current.phase = "Live" /\ Current.uuid = a.uuid
        /\ Current.cap >= a.req

(* What holds of the record whatever the environment does. *)
RecordInv ==
    /\ Waits /\ FreshCalls /\ AbsentEmpty /\ SubmittedCap
    /\ want \in BeforeDelete => OneRecord /\ AckedRecord

LEMMA FreshNext ==
    ASSUME ControlInv, FreshCalls, Effect, RecordEffect
    PROVE  FreshCalls'
<1> USE DEF ControlInv, CallTypes, CreatePcs, DeletePcs, Others, Moves, Ends,
            Begins, IdleCall
<1>1. CASE OtherEffect
  BY <1>1, ResourceAssumption DEF OtherEffect, FreshCalls, RecordEffect
<1>2. ASSUME NEW s \in Slots, CreateEffect(s) PROVE FreshCalls'
  <2>1. CASE UNCHANGED log
    <3>1. UsedUuids' = UsedUuids
      BY <2>1 DEF UsedUuids
    <3>2. UNCHANGED call \/ (\E u \in Uuids : Fresh(u) /\ call'[s].uuid = u
                                          /\ call'[s].pc = "image" /\ Others(s))
          \/ Ends(s) \/ (call[s].pc = "image" /\ Moves(s, "record"))
          \/ (call[s].pc \in CreatePcs /\ \E pc \in {"submitted", "undo", "undorm"} :  Moves(s, pc))
      BY <1>2, <2>1 DEF CreateEffect
    <3> QED BY <3>1, <3>2 DEF FreshCalls, Fresh
  <2>2. CASE UNCHANGED call /\ log' # log
    BY <2>2, ResourceAssumption DEF FreshCalls, RecordEffect
  <2> QED BY <1>2, <2>1, <2>2 DEF CreateEffect
<1>3. ASSUME NEW s \in Slots, DeleteEffect(s) PROVE FreshCalls'
  <2>1. CASE UNCHANGED log
    BY <1>3, <2>1 DEF DeleteEffect, FreshCalls, UsedUuids
  <2>2. CASE Ends(s)
    BY <2>2, ResourceAssumption DEF FreshCalls, RecordEffect
  <2> QED BY <1>3, <2>1, <2>2 DEF DeleteEffect
<1>4. ASSUME NEW s \in Slots, EitherEffect(s) PROVE FreshCalls'
  BY <1>4 DEF EitherEffect, FreshCalls, UsedUuids
<1> QED BY <1>1, <1>2, <1>3, <1>4 DEF Effect

LEMMA AbsentNext ==
    ASSUME ControlInv, AbsentEmpty, RecordEffect
    PROVE  AbsentEmpty'
BY ReadTypes
   DEF ControlInv, TypeInv, RecordEffect, AbsentEmpty, Adds, Exists, Object

LEMMA SubmittedNext ==
    ASSUME ControlInv, FreshCalls, SubmittedCap, Effect, RecordEffect
    PROVE  SubmittedCap'
<1> USE DEF ControlInv, CallTypes, CreatePcs, DeletePcs, Others, Moves, Ends,
            Begins, IdleCall
<1> DEFINE Same(s) == /\ call[s].pc = "submitted" /\ call'[s].uuid = call[s].uuid
                      /\ call'[s].cap = call[s].cap
<1>1. ASSUME NEW s \in Slots, call'[s].pc = "submitted"
      PROVE  \/ Same(s)
             \/ /\ log' = log /\ call'[s].uuid = call[s].uuid
                /\ call[s].pc = "record"
  BY <1>1 DEF Effect, OtherEffect, CreateEffect, DeleteEffect, EitherEffect
<1> SUFFICES ASSUME NEW s \in Slots, call'[s].pc = "submitted",
                    NEW i \in DOMAIN log', log'[i].uuid = call'[s].uuid
             PROVE  log'[i].cap = call'[s].cap
  BY DEF SubmittedCap
<1>2. CASE log' = log /\ call'[s].uuid = call[s].uuid /\ call[s].pc = "record"
  BY <1>2 DEF FreshCalls, UsedUuids
<1>3. CASE Same(s)
  <2>1. CASE log' = log
    BY <1>3, <2>1 DEF SubmittedCap
  <2>2. CASE Adds /\ i \in DOMAIN log
    BY <1>3, <2>2 DEF SubmittedCap, Adds
  <2>3. CASE Adds /\ i = Len(log) + 1
    <3>1. Current'.uuid = call[s].uuid /\ log'[i] = Current'
      BY <1>3, <2>3 DEF Adds
    <3>2. CASE Current'.uuid = Current.uuid /\ Current'.cap = Current.cap
      <4>1. Current = log[Len(log)] /\ Len(log) \in DOMAIN log
        BY <2>3 DEF Current, Adds
      <4> QED BY <1>3, <3>1, <3>2, <4>1 DEF SubmittedCap
    <3>3. CASE \E r \in Slots : /\ call[r].pc = "submitted"
                                /\ Current'.uuid = call[r].uuid
                                /\ Current'.cap = call[r].cap
      BY <1>3, <3>1, <3>3 DEF FreshCalls
    <3>4. Current'.uuid # NoUuid
      BY <1>3, <3>1, ResourceAssumption
    <3> QED BY <3>2, <3>3, <3>4, <2>3, <1>3, <2>1 DEF RecordEffect
  <2>4. log' = log \/ Adds
    BY DEF RecordEffect
  <2> QED BY <2>1, <2>2, <2>3, <2>4 DEF Adds
<1> QED BY <1>1, <1>2, <1>3

(* The request for deletion is not taken back. *)
LEMMA WantOnward ==
    ASSUME Waits, Effect
    PROVE  want' \in BeforeDelete => want \in BeforeDelete
<1> USE DEF BeforeDelete
<1>1. CASE OtherEffect
  BY <1>1 DEF OtherEffect
<1>2. ASSUME NEW s \in Slots, CreateEffect(s)
      PROVE  want' = want \/ want = "create"
  BY <1>2 DEF CreateEffect, Created, Waits, CreatePcs
<1>3. ASSUME NEW s \in Slots, DeleteEffect(s)
      PROVE  want' = want \/ want' = "deleted"
  BY <1>3 DEF DeleteEffect
<1> QED BY <1>1, <1>2, <1>3 DEF Effect, EitherEffect

LEMMA OneRecordNext ==
    ASSUME ControlInv, Waits, OneRecord, RecordEffect, want \in BeforeDelete
    PROVE  OneRecord'
<1>1. CASE log' = log
  BY <1>1 DEF OneRecord, Current
<1>2. CASE Adds
  <2>1. Current = log[Len(log)] /\ Len(log) \in DOMAIN log /\ ~(\E s \in Slots : call[s].pc = "delcr")
    BY <1>2 DEF Current, Adds, Waits, DeletePcs
  <2>2. Current.phase # "Terminating"
    BY <2>1 DEF OneRecord, Exists
  <2> QED BY <1>2, <2>1, <2>2 DEF RecordEffect, OneRecord, Adds, Exists
<1> QED BY <1>1, <1>2 DEF RecordEffect

(* The answer of CreateVolume is about the record there is, be it from the *)
(* cache or from the call's own submission.                                *)
LEMMA AckedRecordNext ==
    ASSUME ControlInv, RecordInv, Effect, RecordEffect, want \in BeforeDelete
    PROVE  AckedRecord'
<1> USE DEF RecordInv
<1>1. CASE log' # log
  <2>1. UNCHANGED acked
    BY <1>1 DEF Effect, OtherEffect, CreateEffect, DeleteEffect, EitherEffect
  <2>2. ~(\E s \in Slots : call[s].pc = "delcr")
    BY DEF Waits, DeletePcs
  <2>3. Current \in Object
    BY ReadTypes DEF ControlInv, TypeInv
  <2> QED BY <1>1, <2>1, <2>2, <2>3 DEF RecordEffect, AckedRecord, Exists
<1>2. CASE log' = log
  <2>1. Current' = Current
    BY <1>2 DEF Current
  <2>2. CASE UNCHANGED acked
    BY <2>1, <2>2 DEF AckedRecord
  <2>3. ASSUME NEW c \in Caps, Exists(Cached(Leader)), Cached(Leader).cap >= c,
               acked' = acked \cup {[uuid |-> Cached(Leader).uuid, req |-> c]}
        PROVE  AckedRecord'
    <3>1. seen[Leader] \in DOMAIN log
      BY ControlAssumption DEF ControlInv, TypeInv, ManagerTypeOK
    <3>2. /\ Current.phase = "Live" /\ Cached(Leader).uuid = Current.uuid
          /\ Cached(Leader).cap = Current.cap
      BY <2>3, <3>1, ReadTypes
         DEF OneRecord, Cached, Exists, ControlInv, TypeInv, Current,
             ManagerTypeOK
    <3> QED BY <2>1, <2>3, <3>2 DEF AckedRecord
  <2>4. ASSUME NEW s \in Slots, call[s].pc = "submitted", call[s].uuid \in UsedUuids,
               Created(call[s].uuid, call[s].cap, call[s].waiting)
        PROVE  AckedRecord'
    <3>1. PICK i \in DOMAIN log : log[i].uuid = call[s].uuid
      BY <2>4 DEF UsedUuids
    <3>2. call[s].uuid \in Uuids /\ call[s].cap \in Nat
      BY <2>4, ResourceAssumption DEF ControlInv, CallTypes, CreatePcs
    <3>3. Exists(log[i]) /\ log[i].cap = call[s].cap
      BY <2>4, <3>1, <3>2, ResourceAssumption DEF AbsentEmpty, SubmittedCap
    <3>4. Exists(Current) /\ Current.uuid = call[s].uuid /\ Current.cap = call[s].cap
      BY <3>1, <3>3 DEF OneRecord
    <3>5. Current.phase = "Live"
      BY <3>4 DEF OneRecord, Current, ControlInv, TypeInv, ManagerTypeOK
    <3> QED BY <2>1, <2>4, <3>2, <3>4, <3>5 DEF AckedRecord, Created
  <2> QED
    BY <2>2, <2>3, <2>4
       DEF Effect, OtherEffect, CreateEffect, DeleteEffect, EitherEffect
<1> QED BY <1>1, <1>2

LEMMA RecordInvNext ==
    ASSUME ControlInv, RecordInv, Effect
    PROVE  RecordInv'
<1>1. RecordEffect
  BY EffectOnRecord
<1>2. Waits' /\ FreshCalls' /\ AbsentEmpty' /\ SubmittedCap'
  BY <1>1, WaitsNext, FreshNext, AbsentNext, SubmittedNext DEF RecordInv
<1>3. want' \in BeforeDelete => OneRecord' /\ AckedRecord'
  BY <1>1, WantOnward, OneRecordNext, AckedRecordNext DEF RecordInv
<1> QED BY <1>2, <1>3 DEF RecordInv, BeforeDelete

LEMMA RecordInvInit == ControlInit => RecordInv
<1> SUFFICES ASSUME ControlInit PROVE RecordInv
  OBVIOUS
<1>1. log = <<NoObject>> /\ DOMAIN log = {1} /\ log[1] = NoObject
  BY DEF ControlInit, ManagerInit
<1>2. ~Exists(NoObject) /\ NoObject.uuid = NoUuid
  BY DEF NoObject, Exists
<1> QED
  BY <1>1, <1>2 DEF ControlInit, RecordInv, Waits, FreshCalls, AbsentEmpty,
     SubmittedCap, OneRecord, AckedRecord, IdleCall, CreatePcs, DeletePcs

-----------------------------------------------------------------------------
(* An image is large enough for the size it was made for. *)
LEMMA RoundsUp ==
    ASSUME NEW c \in Nat
    PROVE  RoundUpSize(c) \in Nat /\ RoundUpSize(c) * MiB >= c
<1>1. ASSUME NEW x \in Nat, NEW m \in Nat, m > 0
      PROVE  x \div m \in Nat
  BY <1>1
<1>2. ASSUME NEW x \in Nat, NEW m \in Nat, m > 0
      PROVE  (x \div m) * m + m > x
  BY <1>2
<1>3. MiB \in Nat /\ MiB > 0 /\ c + MiB - 1 \in Nat
  BY ControlAssumption
<1>4. RoundUpSize(c) \in Nat /\ RoundUpSize(c) * MiB + MiB > c + MiB - 1
  BY <1>1, <1>2, <1>3 DEF RoundUpSize
<1>5. RoundUpSize(c) * MiB \in Nat
  BY <1>3, <1>4
<1> QED BY <1>3, <1>4, <1>5

(* The image is there for whoever made it, and for the live record.  The   *)
(* clean-up after a CreateVolume without a record is no exception: as long *)
(* as it has its image no other call gets past CreateImage.                *)
KeepsImage ==
    /\ \A s \in Slots : call[s].pc \in CreatePcs \ {"image"} =>
          img.uuid = call[s].uuid /\ img.mib * MiB >= call[s].cap
    /\ \A s \in Slots :
          call[s].pc \in {"undo", "undorm"} => call[s].uuid \notin UsedUuids
    /\ Current.phase = "Live" =>
          img.uuid = Current.uuid /\ img.mib * MiB >= Current.cap

LEMMA KeepsImageNext ==
    ASSUME ControlInv, RecordInv, Effect, KeepsImage,
           "lostanswer" \notin Hazards, want \in BeforeDelete
    PROVE  KeepsImage'
<1> USE DEF ControlInv, RecordInv, CallTypes, Others, Moves, Ends, Begins,
            IdleCall, CreatePcs
<1>1. RecordEffect
  BY EffectOnRecord
<1>2. ASSUME img' = img, call' = call PROVE KeepsImage'
  <2>1. ~(\E s \in Slots : call[s].pc = "delcr")
    BY DEF Waits, DeletePcs
  <2> QED
    BY <1>1, <1>2, <2>1, ResourceAssumption
       DEF RecordEffect, KeepsImage, Exists, FreshCalls
<1>3. CASE log' = log
  <2>1. Current' = Current /\ UsedUuids' = UsedUuids
    BY <1>3 DEF Current, UsedUuids
  <2>2. Current.uuid \in UsedUuids /\ (Current.phase = "Live" => Current.uuid \in Uuids)
    BY CurrentUsed DEF TypeInv, HasUuid, Current, ManagerTypeOK, Exists
  <2>3. CASE OtherEffect
    BY <1>2, <2>1, <2>3 DEF OtherEffect, KeepsImage
  <2>4. ASSUME NEW s \in Slots, EitherEffect(s) PROVE KeepsImage'
    BY <2>1, <2>4 DEF EitherEffect, KeepsImage
  <2>5. ASSUME NEW s \in Slots, DeleteEffect(s) PROVE FALSE
    BY <2>5 DEF DeleteEffect, Waits, DeletePcs, BeforeDelete
  <2>6. ASSUME NEW s \in Slots, CreateEffect(s) PROVE KeepsImage'
    <3>1. CASE img' = img /\ call[s].pc # "image"
      <4>1. \/ UNCHANGED call
            \/ call'[s].pc = "image" /\ Others(s)
            \/ Ends(s)
            \/ call[s].pc = "record" /\ Moves(s, "submitted")
            \/ call[s].pc = "undo" /\ Moves(s, "undorm")
            \/ /\ call[s].pc = "submitted" /\ call[s].uuid \notin UsedUuids
               /\ Moves(s, "undo")
        BY <1>3, <2>6, <3>1 DEF CreateEffect
      <4> QED BY <2>1, <3>1, <4>1 DEF KeepsImage
    <3>2. CASE /\ call[s].pc = "image" /\ img = NoImage /\ img' = ImageOf(s)
               /\ Moves(s, "record") \/ Ends(s)
      <4>1. img.uuid \notin Uuids
        BY <3>2, ResourceAssumption DEF NoImage
      <4>2. \A r \in Slots : call[r].pc \notin CreatePcs \ {"image"}
        BY <4>1 DEF KeepsImage
      <4>3. Current.phase # "Live"
        BY <2>2, <4>1 DEF KeepsImage
      <4>4. img'.uuid = call[s].uuid /\ img'.mib * MiB >= call[s].cap
        BY <3>2, RoundsUp, ResourceAssumption DEF ImageOf
      <4> QED BY <2>1, <3>2, <4>2, <4>3, <4>4 DEF KeepsImage
    <3>3. CASE call[s].pc = "undorm" /\ img' = NoImage /\ Ends(s)
      <4>1. \A r \in Slots \ {s} : call[r].pc \notin CreatePcs \ {"image"}
        BY <3>3 DEF KeepsImage, FreshCalls
      <4>2. Current.phase # "Live"
        BY <2>2, <3>3 DEF KeepsImage
      <4> QED BY <2>1, <3>3, <4>1, <4>2 DEF KeepsImage
    <3> QED BY <2>6, <3>1, <3>2, <3>3 DEF CreateEffect
  <2> QED BY <2>3, <2>4, <2>5, <2>6 DEF Effect
<1>4. CASE log' # log
  <2>1. UNCHANGED <<img, call>>
    BY <1>1, <1>4
       DEF Effect, OtherEffect, CreateEffect, EitherEffect, DeleteEffect,
           Waits, DeletePcs
  <2> QED BY <1>2, <2>1
<1> QED BY <1>3, <1>4

LEMMA ControlSafetyInit == ControlInit => ControlInv /\ RecordInv /\ KeepsImage
<1>1. ControlInit => Current = NoObject /\ NoObject.phase = "Absent"
  BY DEF ControlInit, ManagerInit, Current, NoObject
<1>2. ControlInit => KeepsImage
  BY <1>1 DEF ControlInit, KeepsImage, IdleCall, CreatePcs
<1> QED BY <1>2, ControlInvInit, RecordInvInit

LEMMA ControlRecordNext ==
    ControlInv /\ RecordInv /\ [ControlNext]_vars => (ControlInv /\ RecordInv)'
BY ControlInvNext, ControlEffect, RecordInvNext

(* Until the deletion is asked for the image is kept. *)
KeepsInv == ControlInv /\ RecordInv /\ (want \in BeforeDelete => KeepsImage)

LEMMA KeepsInvNext ==
    ASSUME "lostanswer" \notin Hazards
    PROVE  KeepsInv /\ [ControlNext]_vars => KeepsInv'
BY ControlRecordNext, ControlEffect, KeepsImageNext, WantOnward
   DEF KeepsInv, RecordInv, BeforeDelete

(* A live record has its image until its deletion is asked for, however    *)
(* many CreateVolumes overlap, whenever rbd commands time out and the      *)
(* leader changes: DeleteImage in the deferred clean-up of createVolume    *)
(* knows the image by its name only, yet never takes the image of another  *)
(* call.  The API server has to report the writes it made: after a Create  *)
(* that took effect and reported an error the clean-up takes the image of  *)
(* a live record.                                                          *)
THEOREM ControlLiveHasImage ==
    ASSUME "lostanswer" \notin Hazards
    PROVE  ControlSpec => []LiveHasImage
<1>1. ControlInit => KeepsInv
  BY ControlSafetyInit DEF KeepsInv
<1>2. KeepsInv /\ [ControlNext]_vars => KeepsInv'
  BY KeepsInvNext
<1>3. KeepsInv => LiveHasImage
  BY DEF KeepsInv, KeepsImage, BeforeDelete, LiveHasImage
<1> QED BY <1>1, <1>2, <1>3, PTL DEF ControlSpec

(* What CreateVolume answered for stays until its deletion is asked for,   *)
(* under the same hypothesis: the live record has the id of the answer,    *)
(* and record and image are as large as was requested, rbd's rounding to   *)
(* whole units included, although the answer may come from a cache and be  *)
(* about the record of an earlier CreateVolume that nobody waits for.      *)
THEOREM ControlAckedDurable ==
    ASSUME "lostanswer" \notin Hazards
    PROVE  ControlSpec => []AckedDurable
<1>1. ControlInit => KeepsInv
  BY ControlSafetyInit DEF KeepsInv
<1>2. KeepsInv /\ [ControlNext]_vars => KeepsInv'
  BY KeepsInvNext
<1>3. KeepsInv => AckedDurable
  <2> SUFFICES ASSUME KeepsInv, want = "created", NEW a \in acked
               PROVE  /\ Current.phase = "Live" /\ Current.uuid = a.uuid
                      /\ Current.cap >= a.req
                      /\ img.uuid = a.uuid /\ img.mib * MiB >= a.req
    BY DEF AckedDurable
  <2>1. /\ Current.phase = "Live" /\ Current.uuid = a.uuid
        /\ Current.cap >= a.req
    BY DEF KeepsInv, RecordInv, AckedRecord, BeforeDelete
  <2>2. img.uuid = a.uuid /\ img.mib * MiB >= Current.cap
    BY <2>1 DEF KeepsInv, KeepsImage, BeforeDelete
  <2>3. a.req \in Nat /\ img.mib \in Nat /\ Current.cap \in Nat
    BY ReadTypes DEF KeepsInv, ControlInv, TypeInv, RequestTypes, Image, Object
  <2>4. img.mib * MiB \in Nat
    BY <2>3, ControlAssumption
  <2> QED BY <2>1, <2>2, <2>3, <2>4
<1> QED BY <1>1, <1>2, <1>3, PTL DEF ControlSpec

-----------------------------------------------------------------------------
(* Without a CreateVolume that outlives its caller, none runs once the     *)
(* deletion was asked for, so nothing follows the removal of the image.    *)
LateOnly ==
    /\ \A s \in Slots : call[s].pc \in CreatePcs => call[s].waiting
    /\ \A s \in Slots : call[s].pc = "delcr" => img = NoImage
    /\ Current.phase = "Terminating" => img = NoImage /\ want \notin BeforeDelete

LEMMA LateOnlyNext ==
    ASSUME ControlInv, RecordInv, LateOnly, Effect,
           "createtimeout" \notin Hazards
    PROVE  LateOnly'
<1> USE DEF ControlInv, RecordInv, CallTypes, Others, Moves, Ends, Begins,
            IdleCall, CreatePcs, DeletePcs, BeforeDelete
<1>1. RecordEffect /\ (want' \in BeforeDelete => want \in BeforeDelete)
  BY EffectOnRecord, WantOnward
<1>2. \A s \in Slots : call'[s].pc \in CreatePcs => call'[s].waiting
  BY
     DEF Effect, OtherEffect, CreateEffect, DeleteEffect, EitherEffect,
         LateOnly
<1>3. CASE img' = img \/ img' = NoImage
  <2>1. \A s \in Slots : call'[s].pc = "delcr" => img' = NoImage
    BY <1>3
       DEF Effect, OtherEffect, CreateEffect, DeleteEffect, EitherEffect,
           LateOnly
  <2>2. Current'.phase = "Terminating" => img' = NoImage /\ want' \notin BeforeDelete
    BY <1>1, <1>3 DEF RecordEffect, LateOnly, Waits
  <2> QED BY <1>2, <2>1, <2>2 DEF LateOnly
<1>4. ASSUME NEW s \in Slots, call[s].pc = "image", UNCHANGED <<log, want>>,
             Moves(s, "record") \/ Ends(s)
      PROVE  LateOnly'
  <2>1. want = "create" /\ Current' = Current
    BY <1>4 DEF LateOnly, Waits, Current
  <2> QED BY <1>2, <1>4, <2>1 DEF LateOnly, Waits
<1> QED
  BY <1>3, <1>4
     DEF Effect, OtherEffect, CreateEffect, DeleteEffect, EitherEffect

(* Without a DeleteVolume that outlives its caller or fails after deleting *)
(* the record, the first DeleteVolume to reach the record is the last, and *)
(* a CreateVolume still running can only leave an image with another uuid. *)
OnceDeleted ==
    /\ \A s \in Slots : call[s].pc \in DeletePcs => call[s].waiting
    /\ want = "delete" => OneRecord /\ Exists(Current)
    /\ want # "create" => acked # {}
    /\ \A s \in Slots : call[s].pc = "delcr" => img.uuid # Current.uuid
    /\ ImageGoneFirst

LEMMA OnceDeletedNext ==
    ASSUME ControlInv, RecordInv, OnceDeleted, Effect,
           {"lostanswer", "deletetimeout"} \cap Hazards = {}
    PROVE  OnceDeleted'
<1> USE DEF ControlInv, RecordInv, CallTypes, Others, Moves, Ends, Begins,
            IdleCall, CreatePcs, DeletePcs, BeforeDelete
<1>1. RecordEffect
  BY EffectOnRecord
<1>2. \A s \in Slots : call'[s].pc \in DeletePcs => call'[s].waiting
  BY
     DEF Effect, OtherEffect, CreateEffect, DeleteEffect, EitherEffect,
         OnceDeleted
<1>3. want' # "create" => acked' # {}
  <2>1. CASE want' = want /\ acked \subseteq acked'
    BY <2>1 DEF OnceDeleted
  <2>2. CASE want # "create" /\ acked' = acked
    BY <2>2 DEF OnceDeleted
  <2>3. CASE \E a : a \in acked'
    BY <2>3
  <2>4. ASSUME NEW s \in Slots, CreateEffect(s)
        PROVE  \/ want' = want /\ acked \subseteq acked'
               \/ \E a : a \in acked'
    BY <2>4 DEF CreateEffect, Created
  <2>5. ASSUME NEW s \in Slots, DeleteEffect(s)
        PROVE  acked' = acked /\ (want' = want \/ want # "create")
    BY <2>5 DEF DeleteEffect, Waits
  <2> QED
    BY <2>1, <2>2, <2>3, <2>4, <2>5 DEF Effect, OtherEffect, EitherEffect
<1>4. want' = "delete" => OneRecord' /\ Exists(Current')
  <2> SUFFICES ASSUME want' = "delete" PROVE OneRecord' /\ Exists(Current')
    OBVIOUS
  <2>1. want = "delete" \/ (want = "created" /\ log' = log)
    BY
       DEF Effect, OtherEffect, CreateEffect, DeleteEffect, EitherEffect,
           Created
  <2>2. OneRecord /\ Exists(Current)
    BY <2>1 DEF OnceDeleted, AckedRecord, Exists
  <2>3. CASE log' = log
    BY <2>2, <2>3 DEF OneRecord, Current
  <2>4. CASE log' # log
    <3>1. Current = log[Len(log)] /\ Len(log) \in DOMAIN log
      BY DEF Current, TypeInv, ManagerTypeOK
    <3>2. Current.phase = "Live"
      BY <2>2, <3>1 DEF OneRecord
    <3>3. /\ Adds /\ Current'.phase = Current.phase
          /\ Current'.uuid = Current.uuid /\ Current'.cap = Current.cap
      BY <1>1, <2>1, <2>4, <3>2 DEF RecordEffect, OnceDeleted
    <3> QED BY <2>2, <3>2, <3>3 DEF OneRecord, Adds, Exists
  <2> QED BY <2>3, <2>4
<1>5. Exists(Current) => Current.uuid \in Uuids
  BY DEF TypeInv, HasUuid, Current, ManagerTypeOK
<1>6. Current.uuid \in UsedUuids
  BY CurrentUsed DEF TypeInv
<1>7. \A s \in Slots : call[s].pc = "delcr" =>
          Current.phase = "Live" /\ call[s].waiting
  BY DEF OnceDeleted, Waits, OneRecord, Current, TypeInv, ManagerTypeOK
<1>8. CASE UNCHANGED <<img, call>>
  <2>1. \A s \in Slots : call'[s].pc = "delcr" => img'.uuid # Current'.uuid
    BY <1>1, <1>7, <1>8 DEF RecordEffect, OnceDeleted, Exists
  <2>2. ImageGoneFirst'
    BY <1>1, <1>7, <1>8 DEF RecordEffect, OnceDeleted, ImageGoneFirst, Exists
  <2> QED BY <1>2, <1>3, <1>4, <2>1, <2>2 DEF OnceDeleted
<1>9. CASE log' = log /\ (img' = img \/ img' = NoImage)
  <2>1. Current' = Current /\ (Exists(Current) => NoImage.uuid # Current.uuid)
    BY <1>5, <1>9, ResourceAssumption DEF Current, NoImage
  <2>2. ASSUME NEW r \in Slots, call'[r].pc = "delcr" PROVE img'.uuid # Current'.uuid
    <3>1. call[r].pc \in DeletePcs /\ (call[r].pc = "delcr" \/ img' = NoImage)
      BY <1>9, <2>2
         DEF Effect, OtherEffect, CreateEffect, DeleteEffect, EitherEffect
    <3>2. Exists(Current)
      BY <3>1 DEF OnceDeleted, Waits
    <3> QED BY <1>9, <2>1, <3>1, <3>2 DEF OnceDeleted
  <2>3. ImageGoneFirst'
    BY <1>9, <2>1 DEF OnceDeleted, ImageGoneFirst, Exists
  <2> QED BY <1>2, <1>3, <1>4, <2>2, <2>3 DEF OnceDeleted
<1>10. ASSUME NEW s \in Slots, call[s].pc = "image", UNCHANGED log,
              img' = ImageOf(s), Moves(s, "record") \/ Ends(s)
       PROVE  OnceDeleted'
  <2>1. Current' = Current
    BY <1>10 DEF Current
  <2>2. img'.uuid # Current.uuid
    BY <1>6, <1>10 DEF FreshCalls, ImageOf
  <2> QED BY <1>2, <1>3, <1>4, <2>1, <2>2 DEF OnceDeleted, ImageGoneFirst
<1>11. CASE log' # log /\ ~(UNCHANGED <<img, call>>)
  <2>1. PICK s \in Slots :
          /\ call[s].pc = "delcr" /\ Ends(s) /\ UNCHANGED img
          /\ Current'.uuid = Current.uuid
    BY <1>1, <1>11 DEF RecordEffect
  <2>2. \A r \in Slots : call'[r].pc # "delcr"
    BY <1>7, <2>1 DEF Waits
  <2> QED BY <1>2, <1>3, <1>4, <2>1, <2>2 DEF OnceDeleted, ImageGoneFirst
<1>12. log' = log =>
          \/ img' = img \/ img' = NoImage
          \/ \E s \in Slots : /\ call[s].pc = "image" /\ img' = ImageOf(s)
                              /\ Moves(s, "record") \/ Ends(s)
  BY DEF Effect, OtherEffect, CreateEffect, DeleteEffect, EitherEffect
<1> QED BY <1>8, <1>9, <1>10, <1>11, <1>12

-----------------------------------------------------------------------------
(* What a step does to the leader's cache and to its uuid map. *)
LeaderEffect ==
    /\ seen'[Leader] \in Nat /\ seen'[Leader] >= seen[Leader]
    /\ \/ "failover" \in Hazards
       \/ /\ uuidname[Leader] \subseteq uuidname'[Leader]
          /\ \A s \in Slots : call'[s].pc = "submitted" =>
                \/ call[s].pc = "submitted" /\ call'[s].uuid = call[s].uuid
                \/ call'[s].uuid \in uuidname'[Leader]
       \/ \E s \in Slots :
             /\ call[s].pc = "submitted" /\ Moves(s, "undo") /\ UNCHANGED log
             /\ call[s].uuid \notin UsedUuids \/ "lostanswer" \in Hazards
             /\ uuidname'[Leader] = uuidname[Leader] \ {call[s].uuid}

LEMMA EffectOnLeader ==
    ASSUME ControlInv, [ControlNext]_vars
    PROVE  LeaderEffect
<1> USE DEF ControlInv
<1>1. /\ Leader \in Procs /\ seen \in [Procs -> Nat] /\ seen[Leader] <= Len(log)
      /\ Len(log) \in Nat /\ uuidname \in [Procs -> SUBSET Uuids]
  BY ControlAssumption DEF TypeInv, ManagerTypeOK
<1> DEFINE Kept == \A s \in Slots : call'[s].pc = "submitted" =>
                      call[s].pc = "submitted" /\ call'[s].uuid = call[s].uuid
<1>2. ASSUME UNCHANGED <<seen, uuidname>>, Kept PROVE LeaderEffect
  BY <1>1, <1>2 DEF LeaderEffect
<1>3. ASSUME NEW s \in Slots, Fail(s) \/ Return(s) PROVE Kept
  BY <1>3, EndsAll DEF Ends, Others, IdleCall
<1>4. ASSUME NEW s \in Slots, NEW pc \in {"record", "undorm", "rm", "delcr"}, Goto(s, pc)
      PROVE  Kept
  BY <1>4, GotoMoves DEF Moves, Others
<1>5. CASE UNCHANGED vars \/ RequestDelete
  BY <1>2, <1>5 DEF vars, RequestDelete, managerVars, controlVars
<1>6. CASE Failover
  BY <1>1, <1>6 DEF Failover, Restart, May, LeaderEffect
<1>7. ASSUME NEW s \in Slots, HandlerStep(s) PROVE LeaderEffect
  <2>1. CASE CreateImage(s)
    BY <1>2, <1>3, <1>4, <2>1 DEF CreateImage, recordVars
  <2>2. CASE SubmitRecord(s)
    <3>1. Moves(s, "submitted") /\ UNCHANGED seen
      BY <2>2, GotoMoves DEF SubmitRecord, CreateBegin
    <3>2. uuidname'[Leader] = uuidname[Leader] \cup {call[s].uuid}
      BY <1>1, <2>2 DEF SubmitRecord, CreateBegin, reverseUuid
    <3> QED BY <1>1, <3>1, <3>2 DEF LeaderEffect, Moves, Others
  <2>3. CASE ApplyRecord(s)
    BY <1>2, <2>3 DEF ApplyRecord, CreateApply, controlVars
  <2>4. CASE FinishCreate(s)
    <3>1. CASE CreateReturn(Leader, call[s].uuid) /\ Return(s)
      BY <1>2, <1>3, <3>1 DEF CreateReturn
    <3>2. CASE /\ call[s].uuid \notin UsedUuids \/ "lostanswer" \in Hazards
               /\ CreateError(Leader, call[s].uuid) /\ Goto(s, "undo")
      <4>1. Moves(s, "undo") /\ UNCHANGED <<log, seen>>
        BY <3>2, GotoMoves DEF CreateError
      <4>2. uuidname'[Leader] = uuidname[Leader] \ {call[s].uuid}
        BY <1>1, <3>2 DEF CreateError, releaseUuid
      <4>3. /\ call[s].pc = "submitted"
            /\ seen'[Leader] \in Nat /\ seen'[Leader] >= seen[Leader]
        BY <1>1, <2>4, <4>1 DEF FinishCreate, At
      <4> QED BY <3>2, <4>1, <4>2, <4>3 DEF LeaderEffect
    <3> QED BY <2>4, <3>1, <3>2 DEF FinishCreate, CreateRefused, May
  <2>5. CASE UndoCreate(s)
    BY <1>2, <1>3, <1>4, <2>5 DEF UndoCreate, rbdStatus, rbdRm, recordVars
  <2>6. CASE DeleteTheImage(s)
    BY <1>2, <1>3, <1>4, <2>6 DEF DeleteTheImage, rbdStatus, rbdRm, recordVars
  <2>7. CASE DeleteRecord(s)
    BY <1>2, <1>3, <2>7 DEF DeleteRecord, Delete, recordVars, managerVars
  <2> QED BY <1>7, <2>1, <2>2, <2>3, <2>4, <2>5, <2>6, <2>7 DEF HandlerStep
<1>8. ASSUME NEW s \in Slots,
             CallerTimeout(s) \/ DeleteVolume(s) \/ \E c \in Caps : CreateVolume(s, c)
      PROVE  LeaderEffect
  <2>1. UNCHANGED <<seen, uuidname>>
    BY <1>8
       DEF CallerTimeout, DeleteVolume, CreateVolume, recordVars, managerVars
  <2>2. \/ UNCHANGED call
        \/ \E k : k.pc # "submitted" /\ call' = [call EXCEPT ![s] = k]
        \/ call' = [call EXCEPT ![s].waiting = FALSE]
    <3>1. \A u, c : /\ [pc |-> "image", uuid |-> u, cap |-> c, waiting |-> TRUE].pc # "submitted"
                    /\ [pc |-> "status", uuid |-> u, cap |-> c, waiting |-> TRUE].pc # "submitted"
      OBVIOUS
    <3> QED BY <1>8, <3>1 DEF CallerTimeout, DeleteVolume, CreateVolume
  <2>3. CASE UNCHANGED call
    BY <1>2, <2>1, <2>3
  <2>4. ASSUME NEW k, k.pc # "submitted", call' = [call EXCEPT ![s] = k]
        PROVE  Kept
    BY <2>4 DEF CallTypes
  <2>5. CASE call' = [call EXCEPT ![s].waiting = FALSE]
    <3>1. call[s] \in Call /\ DOMAIN call = Slots
      BY DEF CallTypes
    <3>2. call' = [call EXCEPT ![s] = [call[s] EXCEPT !.waiting = FALSE]]
      BY <2>5, <3>1
    <3>3. /\ [call[s] EXCEPT !.waiting = FALSE].pc = call[s].pc
          /\ [call[s] EXCEPT !.waiting = FALSE].uuid = call[s].uuid
      BY <3>1 DEF Call
    <3>4. Kept
      BY <3>1, <3>2, <3>3
    <3> QED BY <1>2, <2>1, <3>4
  <2> QED BY <1>2, <2>1, <2>2, <2>3, <2>4, <2>5
<1>9. ASSUME NEW n \in Nodes \cap Procs, NodeUse(n) PROVE LeaderEffect
  BY <1>2, <1>9 DEF NodeUse, Update, managerVars
<1>10. ASSUME NEW p \in Procs, CacheStep(p), UNCHANGED controlVars
       PROVE  LeaderEffect
  <2>1. Kept
    BY <1>10 DEF controlVars
  <2>2. CASE WatchEvent(p)
    BY <1>1, <2>1, <2>2 DEF WatchEvent, LeaderEffect
  <2>3. CASE Resync(p)
    BY <1>2, <2>1, <2>3 DEF Resync
  <2>4. CASE Reconcile(p)
    <3>1. seen' = seen /\ (uuidname' = uuidname \/ uuidname' = reverseUuid(p, Cached(p).uuid))
      BY <2>4 DEF Reconcile
    <3> QED BY <1>1, <2>1, <3>1 DEF reverseUuid, LeaderEffect
  <2> QED BY <1>10, <2>2, <2>3, <2>4 DEF CacheStep
<1> QED
  BY <1>5, <1>6, <1>7, <1>8, <1>9, <1>10 DEF ControlNext

(* The leader resolves every uuid the volume has had or is about to get:   *)
(* those whose volume id the provisioner may come back with.               *)
LeaderKnows ==
    /\ UsedUuids \ {NoUuid} \subseteq uuidname[Leader]
    /\ \A s \in Slots : call[s].pc = "submitted" => call[s].uuid \in uuidname[Leader]
    /\ \A a \in acked : a.uuid \in UsedUuids

(* While the deletion was not asked for the record does not go away; after *)
(* that, a cache that does not hold it says that record and image are      *)
(* gone.                                                                   *)
CacheTells ==
    /\ want \in BeforeDelete =>
          \A i, j \in DOMAIN log : i <= j /\ Exists(log[i]) => Exists(log[j])
    /\ want \notin BeforeDelete =>
          \A i \in seen[Leader]..Len(log) :
              ~Exists(log[i]) => ~Exists(Current) /\ img = NoImage

LEMMA LeaderKnowsNext ==
    ASSUME ControlInv, RecordInv, LeaderKnows, Effect, LeaderEffect,
           {"failover", "lostanswer"} \cap Hazards = {}
    PROVE  LeaderKnows'
<1> USE DEF ControlInv, RecordInv, CallTypes, CreatePcs, LeaderKnows
<1>1. RecordEffect
  BY EffectOnRecord
<1>2. UsedUuids \subseteq UsedUuids'
  BY <1>1 DEF RecordEffect
<1>3. \A a \in acked' : a.uuid \in UsedUuids'
  <2>1. Cached(Leader).uuid \in UsedUuids
    BY ControlAssumption DEF Cached, UsedUuids, TypeInv, ManagerTypeOK
  <2>2. \A a \in acked' : a \in acked \/ a.uuid \in UsedUuids
    BY <2>1
       DEF Effect, OtherEffect, CreateEffect, DeleteEffect, EitherEffect,
           Created
  <2> QED BY <1>2, <2>2
<1>4. CASE /\ uuidname[Leader] \subseteq uuidname'[Leader]
           /\ \A s \in Slots : call'[s].pc = "submitted" =>
                 \/ call[s].pc = "submitted" /\ call'[s].uuid = call[s].uuid
                 \/ call'[s].uuid \in uuidname'[Leader]
  BY <1>1, <1>3, <1>4 DEF RecordEffect
<1>5. ASSUME NEW s \in Slots, call[s].pc = "submitted", Moves(s, "undo"),
             UNCHANGED log, call[s].uuid \notin UsedUuids,
             uuidname'[Leader] = uuidname[Leader] \ {call[s].uuid}
      PROVE  LeaderKnows'
  <2>1. UsedUuids' = UsedUuids
    BY <1>5 DEF UsedUuids
  <2>2. \A r \in Slots : call'[r].pc = "submitted" => call'[r].uuid \in uuidname'[Leader]
    BY <1>5 DEF Moves, Others, FreshCalls
  <2> QED BY <1>3, <1>5, <2>1, <2>2
<1> QED BY <1>4, <1>5 DEF LeaderEffect

(* After the deletion was asked for no CreateVolume runs, so the versions  *)
(* the leader's cache has still to receive end with the record's removal.  *)
LEMMA CacheTellsNext ==
    ASSUME ControlInv, RecordInv, LateOnly, CacheTells, Effect, LeaderEffect,
           "quickdelete" \notin Hazards
    PROVE  CacheTells'
<1> USE DEF ControlInv, RecordInv, CallTypes, CreatePcs, DeletePcs
<1>1. RecordEffect /\ (want' \in BeforeDelete => want \in BeforeDelete)
  BY EffectOnRecord, WantOnward
<1>2. /\ Len(log) \in Nat \ {0} /\ DOMAIN log = 1..Len(log) /\ Current = log[Len(log)]
      /\ seen[Leader] \in 1..Len(log)
  BY ControlAssumption DEF TypeInv, ManagerTypeOK, Current
<1>3. CASE want' \in BeforeDelete
  <2>1. want \in BeforeDelete
    BY <1>1, <1>3
  <2>2. CASE log' = log
    BY <1>3, <2>1, <2>2 DEF CacheTells
  <2>3. CASE log' # log
    <3>1. Current.phase # "Terminating" /\ ~(\E s \in Slots : call[s].pc = "delcr")
      BY <2>1 DEF LateOnly, Waits
    <3>2. /\ Adds /\ Exists(Current')
      BY <1>1, <2>3, <3>1 DEF RecordEffect, Exists
    <3>3. \A i, j \in DOMAIN log : i <= j /\ Exists(log[i]) => Exists(log[j])
      BY <2>1 DEF CacheTells
    <3> QED BY <1>2, <1>3, <3>2, <3>3 DEF CacheTells, Adds
  <2> QED BY <2>2, <2>3
<1>4. CASE want' \notin BeforeDelete
  <2>1. seen'[Leader] \in Nat /\ seen[Leader] <= seen'[Leader]
    BY <1>2 DEF LeaderEffect
  <2>2. CASE want \in BeforeDelete
    <3>1. log' = log /\ Exists(Cached(Leader))
      BY <1>4, <2>2
         DEF Effect, OtherEffect, CreateEffect, DeleteEffect, EitherEffect,
         Created, BeforeDelete, Waits
    <3>2. \A i \in seen[Leader]..Len(log) : Exists(log[i])
      BY <1>2, <2>2, <3>1 DEF CacheTells, Cached
    <3> QED BY <1>4, <2>1, <3>1, <3>2, <1>2 DEF CacheTells
  <2>3. CASE want \notin BeforeDelete
    <3>1. \A s \in Slots : call[s].pc \notin CreatePcs
      BY <2>3 DEF LateOnly, Waits, BeforeDelete
    <3>2. img' = img \/ img' = NoImage
      BY <3>1 DEF Effect, OtherEffect, CreateEffect, DeleteEffect, EitherEffect
    <3>3. \A i \in seen[Leader]..Len(log) :
              ~Exists(log[i]) => ~Exists(Current) /\ img = NoImage
      BY <2>3 DEF CacheTells
    <3>4. CASE log' = log
      BY <1>2, <1>4, <2>1, <3>2, <3>3, <3>4 DEF CacheTells, Current
    <3>5. CASE log' # log
      <4>1. Adds /\ Exists(Current) /\ (~Exists(Current') => Current.phase = "Terminating")
        BY <1>1, <3>1, <3>5 DEF RecordEffect, Exists
      <4>2. ~Exists(Current') => img' = NoImage
        BY <3>2, <4>1 DEF LateOnly
      <4>3. \A i \in seen[Leader]..Len(log) : Exists(log[i])
        BY <3>3, <4>1
      <4>4. \A i \in seen[Leader]..Len(log) : Exists(log'[i])
        BY <1>2, <4>1, <4>3 DEF Adds
      <4> QED BY <1>2, <1>4, <2>1, <4>1, <4>2, <4>4 DEF CacheTells, Adds
    <3> QED BY <3>4, <3>5
  <2> QED BY <2>2, <2>3
<1> QED BY <1>3, <1>4

(* DeleteVolume answers because record and image are gone, or because it   *)
(* saw the image gone and the record terminating.                          *)
LEMMA DeletedNext ==
    ASSUME ControlInv, RecordInv, LateOnly, LeaderKnows, CacheTells,
           DeletedIsGone, Effect
    PROVE  DeletedIsGone'
<1> USE DEF ControlInv, RecordInv, CallTypes, CreatePcs, DeletePcs,
            BeforeDelete
<1>1. RecordEffect
  BY EffectOnRecord
<1> SUFFICES ASSUME want' = "deleted" PROVE img' = NoImage /\ Current'.phase # "Live"
  BY DEF DeletedIsGone
<1>2. CASE want = "deleted"
  <2>1. \A s \in Slots : call[s].pc \notin CreatePcs
    BY <1>2 DEF LateOnly, Waits
  <2>2. img' = img \/ img' = NoImage
    BY <2>1 DEF Effect, OtherEffect, CreateEffect, DeleteEffect, EitherEffect
  <2> QED BY <1>1, <1>2, <2>1, <2>2 DEF RecordEffect, DeletedIsGone
<1>3. CASE want # "deleted"
  <2>1. CASE /\ UNCHANGED <<log, img>> /\ want = "delete"
             /\ \E a \in acked : ~GetByUuid(Leader, a.uuid)
    <3>1. PICK a \in acked : ~GetByUuid(Leader, a.uuid)
      BY <2>1
    <3>2. a.uuid \in uuidname[Leader]
      BY ResourceAssumption DEF LeaderKnows, RequestTypes
    <3>3. ~Exists(log[seen[Leader]]) /\ seen[Leader] \in seen[Leader]..Len(log)
      BY <3>1, <3>2, ControlAssumption
         DEF GetByUuid, getNameByuuid, GetByName, Cached, TypeInv,
             ManagerTypeOK
    <3>4. ~Exists(Current) /\ img = NoImage
      BY <2>1, <3>3 DEF CacheTells
    <3> QED BY <2>1, <3>4 DEF Current, Exists
  <2>2. ASSUME NEW s \in Slots, call[s].pc = "delcr", UNCHANGED img
        PROVE  img' = NoImage
    BY <2>2 DEF LateOnly
  <2>3. ASSUME NEW s \in Slots, call[s].pc = "delcr", UNCHANGED img,
               \/ UNCHANGED log /\ Current.phase = "Terminating"
               \/ /\ Current.phase = "Live"
                  /\ log' = Append(log, [Current EXCEPT !.phase = "Terminating"])
        PROVE  Current'.phase # "Live"
    <3>1. CASE UNCHANGED log /\ Current.phase = "Terminating"
      BY <3>1 DEF Current
    <3>2. CASE log' = Append(log, [Current EXCEPT !.phase = "Terminating"])
      BY <3>2, TerminatingAdds DEF TypeInv
    <3> QED BY <2>3, <3>1, <3>2
  <2> QED
    BY <1>3, <2>1, <2>2, <2>3
       DEF Effect, OtherEffect, CreateEffect, DeleteEffect, EitherEffect,
           Created
<1> QED BY <1>2, <1>3

-----------------------------------------------------------------------------
LEMMA LateOnlyInit == ControlInit => LateOnly
<1>1. ControlInit => Current = NoObject /\ NoObject.phase = "Absent"
  BY DEF ControlInit, ManagerInit, Current, NoObject
<1> QED BY <1>1 DEF ControlInit, LateOnly, IdleCall, CreatePcs

LEMMA OnceDeletedInit == ControlInit => OnceDeleted
<1>1. ControlInit => Current = NoObject /\ NoObject.phase = "Absent"
  BY DEF ControlInit, ManagerInit, Current, NoObject
<1> QED BY <1>1
           DEF ControlInit, OnceDeleted, ImageGoneFirst, IdleCall, DeletePcs

(* deleteVolume removes the image first: a record that is going away, and  *)
(* with it the only thing that leads to the image, never leaves its image  *)
(* behind, whichever step was cut off, repeated or timed out.  This needs  *)
(* either that no CreateVolume outlives its caller, or that no             *)
(* DeleteVolume does and the API server reports the writes it made.        *)
THEOREM ControlImageGoneFirst ==
    ASSUME \/ "createtimeout" \notin Hazards
           \/ {"lostanswer", "deletetimeout"} \cap Hazards = {}
    PROVE  ControlSpec => []ImageGoneFirst
<1>1. CASE "createtimeout" \notin Hazards
  <2> DEFINE I == ControlInv /\ RecordInv /\ LateOnly
  <2>1. ControlInit => I
    BY ControlInvInit, RecordInvInit, LateOnlyInit
  <2>2. I /\ [ControlNext]_vars => I'
    BY <1>1, ControlRecordNext, ControlEffect, LateOnlyNext
  <2>3. I => ImageGoneFirst
    <3>1. ASSUME I, Current.phase = "Terminating" PROVE img.uuid # Current.uuid
      <4>1. Current.uuid \in Uuids
        BY <3>1
           DEF ControlInv, TypeInv, HasUuid, ManagerTypeOK, Current, Exists
      <4> QED BY <3>1, <4>1, ResourceAssumption DEF LateOnly, NoImage
    <3> QED BY <3>1 DEF ImageGoneFirst
  <2> QED BY <2>1, <2>2, <2>3, PTL DEF ControlSpec
<1>2. CASE {"lostanswer", "deletetimeout"} \cap Hazards = {}
  <2> DEFINE I == ControlInv /\ RecordInv /\ OnceDeleted
  <2>1. ControlInit => I
    BY ControlInvInit, RecordInvInit, OnceDeletedInit
  <2>2. I /\ [ControlNext]_vars => I'
    BY <1>2, ControlRecordNext, ControlEffect, OnceDeletedNext
  <2>3. I => ImageGoneFirst
    BY DEF OnceDeleted
  <2> QED BY <2>1, <2>2, <2>3, PTL DEF ControlSpec
<1> QED BY <1>1, <1>2

(* A DeleteVolume that has answered left neither image nor live record,    *)
(* although it takes a volume id that the leader does not know, or whose   *)
(* record its cache does not hold, for deleted.  Each hypothesis rules out *)
(* a way to be wrong about that: a new leader with an empty uuid map, a    *)
(* cache that does not hold the record yet, a late CreateVolume, a uuid    *)
(* released although its record was made.                                  *)
THEOREM ControlDeletedIsGone ==
    ASSUME {"createtimeout", "failover", "quickdelete", "lostanswer"}
               \cap Hazards = {}
    PROVE  ControlSpec => []DeletedIsGone
<1> DEFINE I == /\ ControlInv /\ RecordInv /\ LateOnly
                /\ LeaderKnows /\ CacheTells /\ DeletedIsGone
<1>1. ControlInit => I
  <2> SUFFICES ASSUME ControlInit PROVE I
    OBVIOUS
  <2>1. log = <<NoObject>> /\ DOMAIN log = {1} /\ log[1] = NoObject
    BY DEF ControlInit, ManagerInit
  <2>2. UsedUuids = {NoUuid}
    BY <2>1 DEF UsedUuids, NoObject
  <2>3. LeaderKnows
    BY <2>2 DEF ControlInit, LeaderKnows, IdleCall
  <2>4. CacheTells /\ DeletedIsGone
    BY <2>1
       DEF ControlInit, CacheTells, DeletedIsGone, BeforeDelete, Exists,
           NoObject
  <2> QED BY <2>3, <2>4, ControlInvInit, RecordInvInit, LateOnlyInit
<1>2. I /\ [ControlNext]_vars => I'
  BY ControlRecordNext, ControlEffect, EffectOnLeader, LateOnlyNext,
     LeaderKnowsNext,
     CacheTellsNext, DeletedNext
<1> QED BY <1>1, <1>2, PTL DEF ControlSpec
=============================================================================
