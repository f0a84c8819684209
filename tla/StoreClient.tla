---------------------------- MODULE StoreClient -----------------------------
(***************************************************************************)
(* pkg/store/alcub.go and utils/buf.go: the handlers of one node plugin    *)
(* share one client of the storage service.  The service registers its     *)
(* address in a rados object; the client fetches it when it starts or      *)
(* when it is first needed and keeps it as long as the process lives.  No  *)
(* lock protects the cached slice: its pointer and its length are written  *)
(* one after the other, in the order the compiler chose, and read by       *)
(* others in between.                                                      *)
(***************************************************************************)
EXTENDS Naturals

CONSTANTS
    Slots,      \* bound: requests running at once
    Bufs,       \* buffers of the pool; the pool makes one when it has none
    Urls,       \* addresses of the storage service
    Length,     \* length of an address
    NoUrl,      \* no address; a nil slice
    Junk,       \* anything that is no address: an error text, mixed bytes
    MaxMoves,   \* bound: how often the service moves
    MaxFaults   \* bound: number of failed commands and requests, restarts

ASSUME StoreAssumption ==
    /\ Length \in [Urls -> Nat \ {0}]
    /\ NoUrl \notin Urls /\ Junk \notin Urls /\ NoUrl # Junk
    /\ MaxMoves \in Nat /\ MaxFaults \in Nat

VARIABLES
    reg,        \* the address in the rados object
    url,        \* dynConf.AlucbUrl: the memory pointed to, and the length
    fetched,    \* history: the addresses fetched by the running process
    bufs,       \* contents of the buffers
    free,       \* the buffers in the pool
    call,       \* call[s]: the request in slot s
    linked,     \* storage service: is the image connected to the node?
    moves,      \* number of moves so far
    faults      \* number of faults so far

vars == <<reg, url, fetched, bufs, free, call, linked, moves, faults>>

Ops == {"conn", "disconn", "status", "nodes"}

Pcs == {"idle", "fetch", "write", "parse", "fill", "send", "reply", "done"}

(* The service performed the request or not, and the answer is: missing,   *)
(* what was asked for, a JSON error, or no JSON at all.                    *)
Answers == {"none", "ok", "error", "blank"}

Call == [pc : Pcs, op : Ops \cup {"none"},
         got : Urls \cup {NoUrl, Junk},     \* address fetched, then parsed
         todo : SUBSET {"ptr", "len"},      \* words of the slice to write
         buf : Bufs \cup {"none"},
         applied : BOOLEAN, answer : Answers, ok : BOOLEAN]

IdleCall == [pc |-> "idle", op |-> "none", got |-> NoUrl, todo |-> {},
             buf |-> "none", applied |-> FALSE, answer |-> "none",
             ok |-> FALSE]

StoreTypeOK ==
    /\ reg \in Urls \cup {NoUrl}
    /\ url \in [ptr : Urls \cup {NoUrl, Junk}, len : Nat]
    /\ fetched \in SUBSET Urls
    /\ bufs \in [Bufs -> Urls \cup {NoUrl, Junk}]
    /\ free \in SUBSET Bufs
    /\ call \in [Slots -> Call]
    /\ \A s \in Slots : call[s].pc \in {"fill", "send", "reply"} =>
          call[s].buf \in Bufs \ free
    /\ linked \in BOOLEAN
    /\ moves \in 0..MaxMoves
    /\ faults \in 0..MaxFaults

Fault == faults < MaxFaults /\ faults' = faults + 1

LengthOf(u) == IF u \in Urls THEN Length[u] ELSE IF u = Junk THEN 1 ELSE 0

Slice(u) == [ptr |-> u, len |-> LengthOf(u)]

(* The bytes a reader of the slice gets. *)
Bytes == IF LengthOf(url.ptr) = url.len THEN url.ptr ELSE Junk

At(s, pc) == call[s].pc = pc

Finish(s, ok) ==
    call' = [call EXCEPT ![s] = [IdleCall EXCEPT !.pc = "done",
                                                 !.op = call[s].op, !.ok = ok]]

StoreInit ==
    /\ reg \in Urls \cup {NoUrl}
    /\ \E u \in {NoUrl, reg} : url = Slice(u) /\ fetched = {u} \ {NoUrl}
    /\ bufs = [b \in Bufs |-> NoUrl]
    /\ free = Bufs
    /\ call = [s \in Slots |-> IdleCall]
    /\ linked = FALSE
    /\ moves = 0 /\ faults = 0

-----------------------------------------------------------------------------
(* External: the service registers, at first or at a new address. *)
Move ==
    /\ moves < MaxMoves
    /\ \E u \in Urls \ {reg} : reg' = u
    /\ moves' = moves + 1
    /\ UNCHANGED <<url, fetched, bufs, free, call, linked, faults>>

(* NewClient fetches the address; when that fails the plugin starts without*)
(* one.                                                                    *)
NewClient ==
    /\ \E u \in {NoUrl, reg} : url' = Slice(u) /\ fetched' = {u} \ {NoUrl}
    /\ bufs' = [b \in Bufs |-> NoUrl] /\ free' = Bufs
    /\ call' = [s \in Slots |-> IdleCall]

Restart == Fault /\ NewClient /\ UNCHANGED <<reg, linked, moves>>

-----------------------------------------------------------------------------
(* do: is there an address? *)
Request(s, op) ==
    /\ At(s, "idle")
    /\ call' = [call EXCEPT ![s].op = op,
                            ![s].pc = IF url.len = 0 THEN "fetch" ELSE "parse"]
    /\ UNCHANGED <<reg, url, fetched, bufs, free, linked, moves, faults>>

(* Mutant: what the command printed is kept even when it failed. *)
fillAlcubUrlKeepsOutput(s) ==
    /\ At(s, "fetch")
    /\ call' = [call EXCEPT ![s].got = IF reg = NoUrl THEN Junk ELSE reg,
                            ![s].todo = {"ptr", "len"}, ![s].pc = "write"]
    /\ UNCHANGED <<reg, url, fetched, bufs, free, linked, moves, faults>>

(* The rados command prints the address; it fails when nothing is          *)
(* registered, on a timeout and otherwise.                                 *)
FetchUrl(ok) ==
    \/ ok /\ reg # NoUrl /\ fetched' = fetched \cup {reg} /\ UNCHANGED faults
    \/ ~ok /\ reg = NoUrl /\ UNCHANGED <<fetched, faults>>
    \/ ~ok /\ Fault /\ UNCHANGED fetched

fillAlcubUrl(s) ==
    /\ At(s, "fetch")
    /\ \/ /\ FetchUrl(TRUE)
          /\ call' = [call EXCEPT ![s].got = reg, ![s].todo = {"ptr", "len"},
                                  ![s].pc = "write"]
       \/ FetchUrl(FALSE) /\ Finish(s, FALSE)
    /\ UNCHANGED <<reg, url, bufs, free, linked, moves>>

(* The assignment of the slice, word by word. *)
AssignUrl(s) ==
    /\ At(s, "write")
    /\ \E w \in call[s].todo :
          /\ url' = [url EXCEPT ![w] = Slice(call[s].got)[w]]
          /\ call' = [call EXCEPT
                        ![s].todo = @ \ {w},
                        ![s].pc = IF call[s].todo = {w} THEN "parse" ELSE @]
    /\ UNCHANGED <<reg, fetched, bufs, free, linked, moves, faults>>

(* The pool hands out a buffer and empties it.  (So what is in a buffer of *)
(* the pool is never read, and is forgotten when it is put back.)          *)
GetBuf(b) ==
    b \in free /\ free' = free \ {b} /\ bufs' = [bufs EXCEPT ![b] = NoUrl]

PutBuf(b) == free' = free \cup {b} /\ bufs' = [bufs EXCEPT ![b] = NoUrl]

(* The slice is read and parsed, which bytes of two addresses may pass or  *)
(* not.                                                                    *)
ParseUrl(s) ==
    /\ At(s, "parse") /\ url.ptr # NoUrl
    /\ \/ Bytes = Junk /\ Finish(s, FALSE) /\ UNCHANGED <<bufs, free>>
       \/ \E b \in Bufs :
             /\ GetBuf(b)
             /\ call' = [call EXCEPT ![s].buf = b, ![s].got = Bytes,
                                     ![s].pc = "fill"]
    /\ UNCHANGED <<reg, url, fetched, linked, moves, faults>>

(* A length is there and the memory is not: the process dies of the read.  *)
ParseNothing(s) ==
    /\ At(s, "parse") /\ url.ptr = NoUrl
    /\ NewClient
    /\ UNCHANGED <<reg, linked, moves, faults>>

(* Mutant: the buffer is given back before the request is made. *)
FillBufPutsBack(s) ==
    /\ At(s, "fill")
    /\ bufs' = [bufs EXCEPT ![call[s].buf] = call[s].got]
    /\ free' = free \cup {call[s].buf}
    /\ call' = [call EXCEPT ![s].pc = "send"]
    /\ UNCHANGED <<reg, url, fetched, linked, moves, faults>>

FillBuf(s) ==
    /\ At(s, "fill")
    /\ bufs' = [bufs EXCEPT ![call[s].buf] = call[s].got]
    /\ call' = [call EXCEPT ![s].pc = "send"]
    /\ UNCHANGED <<reg, url, fetched, free, linked, moves, faults>>

-----------------------------------------------------------------------------
(* External: the storage service performs what it is asked for and says    *)
(* so, fails with an error or without sense, or is not heard of, and then  *)
(* may have performed it.  Elsewhere nobody answers.                       *)
Effect(op) == CASE op = "conn"    -> TRUE
                [] op = "disconn" -> FALSE
                [] OTHER          -> linked

Send(s) ==
    /\ At(s, "send")
    /\ LET there == reg # NoUrl /\ bufs[call[s].buf] = reg
           Answer(applied, answers) ==
               /\ linked' = IF applied THEN Effect(call[s].op) ELSE linked
               /\ \E a \in answers :
                     call' = [call EXCEPT ![s].applied = applied,
                                          ![s].answer = a, ![s].pc = "reply"]
       IN  \/ there /\ Answer(TRUE, {"ok"}) /\ UNCHANGED faults
           \/ there /\ Fault /\ Answer(TRUE, {"none"})
           \/ there /\ Fault /\ Answer(FALSE, Answers \ {"ok"})
           \/ ~there /\ Answer(FALSE, {"none"}) /\ UNCHANGED faults
    /\ UNCHANGED <<reg, url, fetched, bufs, free, moves>>

(* How the answers are read.                                               *)

(* Mutant: any answer that is JSON will do. *)
DoConnAnyJson(answer) == answer \in {"ok", "error"}

(* DoConn needs the name of a device. *)
DoConn(answer) == answer = "ok"

(* An answer that is not JSON, or empty, is taken for success. *)
DoDisConn(answer) == answer \in {"ok", "blank"}

(* JSON that has no status, an error too, is taken for a clean image.  (An *)
(* image that is not clean is a refusal before anything happens in NodeRpc;*)
(* here the image is clean.)                                               *)
GetImageStatus(answer) == answer \in {"ok", "error"}

(* GetNode needs a list, to which it adds the cached address. *)
GetNode(answer) == answer = "ok"

Succeeded(op, answer) ==
    \/ op = "conn" /\ DoConn(answer)
    \/ op = "disconn" /\ DoDisConn(answer)
    \/ op = "status" /\ GetImageStatus(answer)
    \/ op = "nodes" /\ GetNode(answer)

(* fn returns and PutBuf follows, whatever the result is. *)
Reply(s) ==
    /\ At(s, "reply")
    /\ Finish(s, Succeeded(call[s].op, call[s].answer))
    /\ PutBuf(call[s].buf)
    /\ UNCHANGED <<reg, url, fetched, linked, moves, faults>>

(* The handler goes on with the result. *)
Taken(s) ==
    /\ At(s, "done")
    /\ call' = [call EXCEPT ![s] = IdleCall]
    /\ UNCHANGED <<reg, url, fetched, bufs, free, linked, moves, faults>>

RequestStep(s) ==
    \/ fillAlcubUrl(s)
    \/ AssignUrl(s)
    \/ ParseUrl(s)
    \/ ParseNothing(s)
    \/ FillBuf(s)
    \/ Send(s)
    \/ Reply(s)
    \/ Taken(s)

StoreNext ==
    \/ Move
    \/ Restart
    \/ \E s \in Slots : RequestStep(s) \/ \E op \in Ops : Request(s, op)

StoreSpec == StoreInit /\ [][StoreNext]_vars

(* A request has a timeout at every step.  Failed calls are repeated, and  *)
(* a service that is installed registers.                                  *)
StoreFairness ==
    /\ \A s \in Slots : WF_vars(RequestStep(s))
    /\ WF_vars(reg = NoUrl /\ Move)

FairStoreSpec == StoreSpec /\ StoreFairness

-----------------------------------------------------------------------------
(* Handlers that fetch the address at once, or share the pool, disturb no  *)
(* request that is on its way: what Post is given is one whole address,    *)
(* the one the client has kept, as long as the fetches of this process all *)
(* found the same one.  (Otherwise it can be a mixture, and stay one.)     *)
SendsWholeUrl ==
    (\A u, v \in fetched : u = v) =>
        \A s \in Slots :
            At(s, "send") => bufs[call[s].buf] = url.ptr /\ url.ptr \in Urls

(* What StoreService knows of a request. *)
TaskOf(k) ==
    [st |-> CASE k.pc = "idle"  -> "idle"
              [] k.pc = "done"  -> IF k.ok THEN "ok" ELSE "error"
              [] k.pc = "reply" -> IF k.applied THEN "applied" ELSE "lost"
              [] OTHER          -> "open",
     op |-> k.op]

Service == INSTANCE StoreService WITH
    task <- [s \in Slots |-> TaskOf(call[s])]

(* To its callers the client is what StoreService says: whichever answers  *)
(* are lost or garbled, a connect that reports success was performed.      *)
ImplementsService == Service!ServiceSpec

(* A client that could not fetch the address when it started, or started   *)
(* before the service was registered, is not lost, and neither is one that *)
(* dies of the race: if the service stays where the client knows it to be, *)
(* requests succeed from some time on.  (After a later move they fail      *)
(* until the plugin is restarted.)                                         *)
Reachable == reg # NoUrl /\ (url.ptr \in Urls => url = Slice(reg))

RequestsSucceed ==
    <>[]Reachable => <>[](\A s \in Slots : At(s, "done") => call[s].ok)
=============================================================================
