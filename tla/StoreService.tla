---------------------------- MODULE StoreService ----------------------------
(***************************************************************************)
(* What the client in pkg/store promises its callers (interface Alcuber):  *)
(* a call has at most one effect on the image's connection, between its    *)
(* start and its end, and a connect that reports success had it.  An error *)
(* tells nothing; the success of a disconnect does not either, because an  *)
(* answer that is no JSON counts as success.  The process may die at any   *)
(* time.                                                                   *)
(***************************************************************************)
CONSTANT Slots      \* bound: calls running at once

VARIABLES
    linked,     \* is the image connected to the node?
    task        \* task[s]: the call in slot s

serviceVars == <<linked, task>>

Ops == {"conn", "disconn", "status", "nodes"}

Idle == [st |-> "idle", op |-> "none"]

(* "open": not performed yet; "applied"; "lost": never to be performed. *)
Task == {Idle} \cup [st : {"open", "applied", "lost", "ok", "error"}, op : Ops]

ServiceInit == linked = FALSE /\ task = [s \in Slots |-> Idle]

Call(s, op) ==
    /\ task[s] = Idle
    /\ task' = [task EXCEPT ![s] = [st |-> "open", op |-> op]]
    /\ UNCHANGED linked

Effect(op) == CASE op = "conn"    -> TRUE
                [] op = "disconn" -> FALSE
                [] OTHER          -> linked

Apply(s) ==
    /\ task[s].st = "open"
    /\ linked' = Effect(task[s].op)
    /\ task' = [task EXCEPT ![s].st = "applied"]

Lose(s) ==
    /\ task[s].st = "open"
    /\ task' = [task EXCEPT ![s].st = "lost"]
    /\ UNCHANGED linked

Return(s) ==
    /\ \/ /\ task[s].st \in {"open", "applied", "lost"}
          /\ task' = [task EXCEPT ![s].st = "error"]
       \/ /\ \/ task[s].st = "applied"
             \/ task[s].st = "lost" /\ task[s].op \in {"disconn", "status"}
          /\ task' = [task EXCEPT ![s].st = "ok"]
    /\ UNCHANGED linked

Taken(s) ==
    /\ task[s].st \in {"ok", "error"}
    /\ task' = [task EXCEPT ![s] = Idle]
    /\ UNCHANGED linked

Die == task' = [s \in Slots |-> Idle] /\ UNCHANGED linked

ServiceNext ==
    \/ \E s \in Slots : \/ \E op \in Ops : Call(s, op)
                        \/ Apply(s) \/ Lose(s) \/ Return(s) \/ Taken(s)
    \/ Die

ServiceSpec == ServiceInit /\ [][ServiceNext]_serviceVars
=============================================================================
