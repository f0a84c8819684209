---------------------------- MODULE VolumeRecord ----------------------------
(***************************************************************************)
(* What the AlcubCons of all processes together promise about the record   *)
(* of a volume, whatever their caches hold and whichever calls fail: it is *)
(* one register that is provisioned under a fresh uuid, whose status may   *)
(* be rewritten, whose deletion may be requested once, and which goes away *)
(* only after that request and only while no node is recorded as its user. *)
(* Nothing but the status of an incarnation ever changes.                  *)
(***************************************************************************)
EXTENDS CsiAlcub

VARIABLES
    rec,        \* the record
    used        \* every uuid the record has carried

RecordInit == rec = NoObject /\ used = {}

Provision ==
    \E u \in Uuids \ used, c \in Caps :
        /\ rec.phase = "Absent"
        /\ rec' = NewObject(u, c)
        /\ used' = used \cup {u}

SetStatus ==
    \E st \in Status :
        /\ Exists(rec)
        /\ rec' = [rec EXCEPT !.status = st]
        /\ UNCHANGED used

RequestDeletion ==
    /\ rec.phase = "Live"
    /\ rec' = [rec EXCEPT !.phase = "Terminating"]
    /\ UNCHANGED used

Remove ==
    /\ rec.phase = "Terminating"
    /\ rec.status.node = NoNode
    /\ rec' = NoObject
    /\ UNCHANGED used

RecordNext == Provision \/ SetStatus \/ RequestDeletion \/ Remove

RecordSpec == RecordInit /\ [][RecordNext]_<<rec, used>>
=============================================================================
