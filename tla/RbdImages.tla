----------------------------- MODULE RbdImages ------------------------------
(***************************************************************************)
(* pkg/rbd: CreateImage and DeleteImage of one volume's image.  Where the  *)
(* image is and with which key the rbd command is run is read anew at      *)
(* every call from the storage class named in the record and from the      *)
(* secret that the class names; the pool the record remembers is not used. *)
(* Both are Go maps, visited in an order that differs from call to call.   *)
(*                                                                         *)
(* Sizes, watchers and the clean-up of createVolume are in ControlRpc.     *)
(***************************************************************************)
EXTENDS Naturals

CONSTANTS
    Classes,    \* what may stand in the storage class: sets of parameters
    Secrets,    \* the entries of all secrets
    Pools,      \* the pools of the Ceph cluster
    CephKey,    \* the cluster's key for a client id
    PoolChange, \* may the class be made anew with another pool?
    MaxFaults   \* bound: number of failed requests, commands and changes

Names == {"monitors", "adminid", "adminsecretname", "adminsecretnamespace",
          "userid", "pool", "datapool", "usersecretname",
          "usersecretnamespace", "imageformat", "imagefeatures", "fstype",
          "unknown"}

(* Names are compared in lower case: two keys may have one name. *)
Parameter == [name : Names, spelling : STRING, value : STRING]

Entry == [ns : STRING, secret : STRING, key : STRING, value : STRING]

ASSUME RbdAssumption ==
    /\ \A c \in Classes : c \subseteq Parameter
    /\ Secrets \subseteq Entry
    /\ PoolChange \in BOOLEAN
    /\ MaxFaults \in Nat

VARIABLES
    class,      \* the parameters of the storage class
    dnsip,      \* has Rbd found the cluster's DNS?
    images,     \* the pools that hold an image of the volume's name
    rec,        \* Spec.Pool of the volume's record
    want,       \* how far the volume is
    call,       \* the running CreateImage or DeleteImage
    faults      \* number of faults so far

vars == <<class, dnsip, images, rec, want, call, faults>>

(* An option holds its value, or, for lists, the values; {} is unset. *)
Default(name) ==
    CASE name = "pool"                 -> {"rbd"}
      [] name = "adminid"              -> {"admin"}
      [] name = "adminsecretnamespace" -> {"default"}
      [] name = "imageformat"          -> {"2"}
      [] OTHER                         -> {}

Defaults == [n \in Names |-> Default(n)]

IdleCall == [pc |-> "idle", params |-> {}, todo |-> {}, opts |-> Defaults,
             key |-> ""]

RbdTypeOK ==
    /\ class \in Classes
    /\ dnsip \in BOOLEAN
    /\ images \subseteq Pools
    /\ rec \in Pools \cup {""}
    /\ want \in {"create", "created", "delete", "deleted"}
    /\ call.pc \in {"idle", "parse", "secret", "rbd"}
    /\ call.params \in Classes \cup {{}}
    /\ call.todo \subseteq call.params \cup Secrets
    /\ DOMAIN call.opts = Names
    /\ call.key \in {""} \cup {e.value : e \in Secrets}
    /\ faults \in 0..MaxFaults

RbdInit ==
    /\ class \in Classes
    /\ dnsip = FALSE
    /\ images = {}
    /\ rec = ""
    /\ want = "create"
    /\ call = IdleCall
    /\ faults = 0

Fault == faults < MaxFaults /\ faults' = faults + 1

At(pc) == call.pc = pc

Fail == call' = IdleCall /\ UNCHANGED <<images, rec, want>>

The(S) == CHOOSE x \in S : TRUE

-----------------------------------------------------------------------------
(* What the parameters are meant to say, for names that are used once. *)
Intended(params, name) ==
    LET given == {p.value : p \in {q \in params : q.name = name}}
    IN  CASE given = {} -> Default(name)
          [] OTHER      -> given

IntendedUser(params) ==
    IF Intended(params, "userid") \in {{}, {""}}
    THEN Intended(params, "adminid") ELSE Intended(params, "userid")

IntendedKeys(params) ==
    {e.value : e \in {x \in Secrets :
        /\ x.key = "key"
        /\ {x.ns} = Intended(params, "adminsecretnamespace")
        /\ {x.secret} = Intended(params, "adminsecretname")}}

-----------------------------------------------------------------------------
(* External: the class is deleted and made anew, its parameters cannot be  *)
(* edited; the deletion of the volume is asked for.                        *)
RecreateClass ==
    /\ Fault
    /\ \E c \in Classes \ {class} :
          /\ PoolChange \/ Intended(c, "pool") = Intended(class, "pool")
          /\ class' = c
    /\ UNCHANGED <<dnsip, images, rec, want, call>>

RequestDelete ==
    /\ want = "created" /\ want' = "delete"
    /\ UNCHANGED <<class, dnsip, images, rec, call, faults>>

(* CreateImage and DeleteImage get the class; one that is missing or       *)
(* cannot be read is an error before anything happens.                     *)
GetClass ==
    /\ At("idle") /\ want \in {"create", "delete"}
    /\ call' = [IdleCall EXCEPT !.pc = "parse", !.params = class,
                                !.todo = class]
    /\ UNCHANGED <<class, dnsip, images, rec, want, faults>>

Lists == {"monitors", "imagefeatures"}

Invalid(p) ==
    \/ p.name \in {"adminid", "pool", "usersecretname"} /\ p.value = ""
    \/ p.name = "imageformat" /\ p.value \notin {"1", "2"}
    \/ p.name = "imagefeatures" /\ p.value # "layering"
    \/ p.name = "unknown"

(* Mutant: the user id follows the admin id as soon as that is known. *)
AssignUserEarly(opts, p, v) ==
    [n \in Names |-> IF n = p.name \/ (n = "userid" /\ p.name = "adminid")
                     THEN (IF n \in Lists THEN opts[n] ELSE {}) \cup {v}
                     ELSE opts[n]]

(* One case of the switch: a list grows, any other option is overwritten. *)
Assign(opts, p, v) ==
    [n \in Names |-> IF n = p.name
                     THEN (IF n \in Lists THEN opts[n] ELSE {}) \cup {v}
                     ELSE opts[n]]

(* The loop of parseParameters, in any order.  Monitors are looked up in   *)
(* the cluster's DNS, which is looked for until it is found; a name that   *)
(* cannot be looked up is taken as it is.                                  *)
ParseParameter ==
    /\ At("parse")
    /\ \E p \in call.todo :
          \/ Invalid(p) /\ Fail /\ UNCHANGED dnsip
          \/ /\ ~Invalid(p) /\ p.name # "monitors"
             /\ call' = [call EXCEPT !.opts = Assign(@, p, p.value),
                                     !.todo = @ \ {p}]
             /\ UNCHANGED <<dnsip, images, rec, want>>
          \/ /\ p.name = "monitors"
             /\ dnsip' \in {dnsip, TRUE}
             /\ \E v \in {p.value} \cup (IF dnsip' THEN {"address"} ELSE {}) :
                   call' = [call EXCEPT !.opts = Assign(@, p, v),
                                        !.todo = @ \ {p}]
             /\ UNCHANGED <<images, rec, want>>
    /\ UNCHANGED <<class, faults>>

(* The secret the class names; none named or none there is an error. *)
FindSecret ==
    /\ At("parse") /\ call.todo = {}
    /\ LET entries == {e \in Secrets :
                         /\ {e.ns} = call.opts["adminsecretnamespace"]
                         /\ {e.secret} = call.opts["adminsecretname"]}
       IN  \/ /\ call.opts["adminsecretname"] \in {{}, {""}} \/ entries = {}
              /\ Fail /\ UNCHANGED faults
           \/ /\ call.opts["adminsecretname"] \notin {{}, {""}}
              /\ entries # {}
              /\ call' = [call EXCEPT !.pc = "secret", !.todo = entries]
              /\ UNCHANGED <<images, rec, want, faults>>
           \/ Fault /\ Fail
    /\ UNCHANGED <<class, dnsip>>

(* The entry called key wins, otherwise the last one that is visited.      *)
TakeEntry(e) == [call EXCEPT !.key = e.value,
                             !.todo = IF e.key = "key" THEN {} ELSE @ \ {e}]

parsePVSecret ==
    /\ At("secret")
    /\ \E e \in call.todo : call' = TakeEntry(e)
    /\ UNCHANGED <<class, dnsip, images, rec, want, faults>>

(* The end of parseParameters: an empty user id is the admin's. *)
SetUser ==
    /\ At("secret") /\ call.todo = {}
    /\ call' = [call EXCEPT
                  !.pc = "rbd",
                  !.opts["userid"] = IF @ \in {{}, {""}}
                                     THEN call.opts["adminid"] ELSE @]
    /\ UNCHANGED <<class, dnsip, images, rec, want, faults>>

-----------------------------------------------------------------------------
Pool == The(call.opts["pool"])

(* External: Ceph knows the client id and its key. *)
Authorized ==
    LET id == The(call.opts["adminid"])
    IN  id \in DOMAIN CephKey /\ CephKey[id] = call.key

(* execCommand gives a command up after a while, but what it was to do may *)
(* be done: the call fails and the images have changed.                    *)
TimedOut(made) ==
    /\ Fault
    /\ images' = made /\ call' = IdleCall
    /\ UNCHANGED <<rec, want>>

(* Mutant: the exit code of rbd create is not looked at. *)
CreateImageUnchecked ==
    /\ At("rbd") /\ want = "create"
    /\ images' = IF Authorized THEN images \cup ({Pool} \cap Pools) ELSE images
    /\ rec' = Pool /\ want' = "created" /\ call' = IdleCall
    /\ UNCHANGED <<class, dnsip, faults>>

(* rbd create; the record remembers the pool.  An image that is there      *)
(* already, from a command that timed out, is an error.                    *)
CreateImage ==
    /\ At("rbd") /\ want = "create"
    /\ \/ /\ Authorized /\ Pool \in Pools \ images
          /\ images' = images \cup {Pool} /\ rec' = Pool /\ want' = "created"
          /\ call' = IdleCall /\ UNCHANGED faults
       \/ /\ ~Authorized \/ Pool \notin Pools \ images
          /\ Fail /\ UNCHANGED faults
       \/ Fault /\ Fail
       \/ /\ Authorized /\ Pool \in Pools \ images
          /\ TimedOut(images \cup {Pool})
    /\ UNCHANGED <<class, dnsip>>

Removed(pool) ==
    /\ images' = images \ {pool} /\ want' = "deleted" /\ call' = IdleCall
    /\ UNCHANGED <<rec, faults>>

(* Mutant: every failure of rbd status means that the image is gone. *)
DeleteImageGoneOnError ==
    /\ At("rbd") /\ want = "delete"
    /\ \/ Authorized /\ Removed(Pool)
       \/ ~Authorized /\ Removed("none")
       \/ Fault /\ images' = images /\ want' = "deleted"
                /\ call' = IdleCall /\ UNCHANGED rec
    /\ UNCHANGED <<class, dnsip>>

(* rbd status and rbd rm; "No such file", which is also what rbd says of a *)
(* pool that is not there, is success.                                     *)
DeleteImage ==
    /\ At("rbd") /\ want = "delete"
    /\ \/ Authorized /\ Removed(Pool)
       \/ ~Authorized /\ Fail /\ UNCHANGED faults
       \/ Fault /\ Fail
       \/ Authorized /\ TimedOut(images \ {Pool})
    /\ UNCHANGED <<class, dnsip>>

RbdNext ==
    \/ RecreateClass
    \/ RequestDelete
    \/ GetClass
    \/ ParseParameter
    \/ FindSecret
    \/ parsePVSecret
    \/ SetUser
    \/ CreateImage
    \/ DeleteImage

RbdSpec == RbdInit /\ [][RbdNext]_vars

-----------------------------------------------------------------------------
(* Whatever the order in which the maps are visited, rbd is called with    *)
(* what the class says: the value that is given or else the default, the   *)
(* user falling back to the admin however late either is seen, and the key *)
(* of the named secret.                                                    *)
ParsedAsIntended ==
    At("rbd") =>
        /\ \A n \in Names \ {"userid", "monitors"} :
              call.opts[n] = Intended(call.params, n)
        /\ call.opts["userid"] = IntendedUser(call.params)
        /\ IntendedKeys(call.params) \in {{}, {call.key}}

(* The pool in the record, where nodes look for the image, and the pool a  *)
(* later DeleteImage works out again from the class are the same: once     *)
(* CreateImage has succeeded the image is where the record says until its  *)
(* deletion is asked for, and after DeleteImage has succeeded it is        *)
(* nowhere, although a command that timed out may have made or removed it. *)
ImageWhereRecorded ==
    /\ want = "create"  => images \subseteq Intended(class, "pool")
    /\ want = "created" => images = {rec}
    /\ want = "delete"  => images \subseteq {rec}
    /\ want = "deleted" => images = {}
=============================================================================
