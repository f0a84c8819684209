-------------------------- MODULE RbdImagesProofs ---------------------------
(***************************************************************************)
(* What holds of RbdImages for any storage classes, secrets, pools, keys   *)
(* and number of faults, and for every order in which the maps are         *)
(* visited.                                                                *)
(***************************************************************************)
EXTENDS RbdImages, TLAPS

(* Everything an option may hold, and everything a key may be. *)
Values == {"rbd", "admin", "default", "2", "address"}
              \cup {p.value : p \in UNION Classes}
Keys == {""} \cup {e.value : e \in Secrets}

Call == [pc     : {"idle", "parse", "secret", "rbd"},
         params : SUBSET UNION Classes,
         todo   : SUBSET ((UNION Classes) \cup Secrets),
         opts   : [Names -> SUBSET Values],
         key    : Keys]

(* Parameters are visited first, then the entries of a secret. *)
TypeInv ==
    /\ RbdTypeOK
    /\ call \in Call
    /\ At("parse") => call.params \in Classes /\ call.todo \subseteq call.params
    /\ At("secret") => call.todo \subseteq Secrets

LEMMA DefaultTypes ==
    /\ Defaults \in [Names -> SUBSET Values]
    /\ IdleCall \in Call
    /\ IdleCall.pc = "idle" /\ IdleCall.params = {} /\ IdleCall.todo = {}
    /\ DOMAIN IdleCall.opts = Names /\ IdleCall.key = ""
<1>1. \A n \in Names : Default(n) \in SUBSET Values
  BY DEF Default, Values
<1>2. Defaults \in [Names -> SUBSET Values]
  BY <1>1 DEF Defaults
<1>3. /\ IdleCall.pc = "idle" /\ IdleCall.params = {} /\ IdleCall.todo = {}
      /\ IdleCall.opts = Defaults /\ IdleCall.key = ""
  BY DEF IdleCall
<1>4. IdleCall \in Call
  BY <1>2 DEF IdleCall, Call, Keys
<1>5. DOMAIN IdleCall.opts = Names
  BY <1>2, <1>3
<1> QED BY <1>2, <1>3, <1>4, <1>5

(* What Fail leaves. *)
LEMMA FailTypes ==
    ASSUME TypeInv, Fail, class' = class, dnsip' \in BOOLEAN,
           faults' \in 0 .. MaxFaults
    PROVE  TypeInv'
BY DefaultTypes DEF TypeInv, RbdTypeOK, Fail, At

LEMMA FaultTypes ==
    ASSUME TypeInv
    PROVE  Fault => faults' \in 0 .. MaxFaults
<1>1. faults \in 0 .. MaxFaults /\ MaxFaults \in Nat
  BY RbdAssumption DEF TypeInv, RbdTypeOK
<1> QED BY <1>1 DEF Fault

(* What a command that timed out leaves. *)
LEMMA TimedOutTypes ==
    ASSUME TypeInv, NEW made \in SUBSET Pools, TimedOut(made),
           UNCHANGED <<class, dnsip>>
    PROVE  TypeInv'
BY DefaultTypes, FaultTypes DEF TypeInv, RbdTypeOK, TimedOut, At

(* A call that goes on. *)
LEMMA GoesOnTypes ==
    ASSUME TypeInv, call' \in Call, dnsip' \in BOOLEAN,
           UNCHANGED <<class, images, rec, want, faults>>,
           call'.params \in Classes \cup {{}},
           \/ /\ call'.pc = "parse" /\ call'.params \in Classes
              /\ call'.todo \subseteq call'.params
           \/ call'.pc = "secret" /\ call'.todo \subseteq Secrets
           \/ call'.pc = "rbd" /\ call'.todo = {}
    PROVE  TypeInv'
<1>1. DOMAIN call'.opts = Names /\ call'.key \in {""} \cup {e.value : e \in Secrets}
  BY DEF Call, Keys
<1>2. /\ call'.pc \in {"idle", "parse", "secret", "rbd"}
      /\ call'.todo \subseteq call'.params \cup Secrets
  OBVIOUS
<1> QED BY <1>1, <1>2 DEF TypeInv, RbdTypeOK, At

LEMMA AssignTypes ==
    ASSUME NEW opts \in [Names -> SUBSET Values], NEW p, NEW v \in Values
    PROVE  Assign(opts, p, v) \in [Names -> SUBSET Values]
BY DEF Assign

(* What one visit of the loop of parseParameters does. *)
LEMMA ParseVisit ==
    ASSUME TypeInv, ParseParameter
    PROVE  \/ Fail /\ UNCHANGED dnsip
           \/ \E p \in call.todo, v \in Values :
                 /\ p.name = "monitors" \/ v = p.value
                 /\ call' = [call EXCEPT !.opts = Assign(@, p, v),
                                         !.todo = @ \ {p}]
                 /\ dnsip' \in BOOLEAN /\ UNCHANGED <<images, rec, want>>
<1>1. \A p \in call.todo : p.value \in Values
  BY DEF TypeInv, ParseParameter, Values
<1>2. dnsip \in BOOLEAN /\ "address" \in Values
  BY DEF TypeInv, RbdTypeOK, Values
<1> QED BY <1>1, <1>2 DEF ParseParameter

LEMMA TypeInvNext ==
    ASSUME TypeInv, [RbdNext]_vars
    PROVE  TypeInv'
<1>t. /\ class \in Classes /\ dnsip \in BOOLEAN
      /\ call \in Call /\ faults \in 0 .. MaxFaults
      /\ call.params \in Classes \cup {{}}
  BY DEF TypeInv, RbdTypeOK
<1>1. CASE UNCHANGED vars
  BY <1>1 DEF TypeInv, RbdTypeOK, vars, At
<1>2. CASE RecreateClass
  BY <1>2, FaultTypes DEF TypeInv, RbdTypeOK, RecreateClass, At
<1>3. CASE RequestDelete
  BY <1>3 DEF TypeInv, RbdTypeOK, RequestDelete, At
<1>4. CASE GetClass
  <2>1. /\ call' \in Call /\ call'.pc = "parse" /\ call'.params = class
        /\ call'.todo = class
    BY <1>t, <1>4, DefaultTypes DEF GetClass, Call
  <2> QED BY <1>t, <1>4, <2>1, GoesOnTypes DEF GetClass
<1>5. CASE ParseParameter
  <2>1. ASSUME NEW p \in call.todo, NEW v \in Values, dnsip' \in BOOLEAN,
               call' = [call EXCEPT !.opts = Assign(@, p, v),
                                    !.todo = @ \ {p}],
               UNCHANGED <<images, rec, want>>
        PROVE  TypeInv'
    <3>1. Assign(call.opts, p, v) \in [Names -> SUBSET Values]
      BY <1>t, AssignTypes DEF Call
    <3>2. /\ call' \in Call /\ call'.pc = call.pc /\ call'.params = call.params
          /\ call'.todo = call.todo \ {p}
      BY <1>t, <2>1, <3>1 DEF Call
    <3>3. /\ call.pc = "parse" /\ call.params \in Classes
          /\ call.todo \subseteq call.params
      BY <1>5 DEF ParseParameter, At, TypeInv
    <3> QED BY <1>t, <1>5, <2>1, <3>2, <3>3, GoesOnTypes DEF ParseParameter
  <2>2. CASE Fail /\ UNCHANGED dnsip
    BY <1>t, <1>5, <2>2, FailTypes DEF ParseParameter
  <2> QED BY <1>5, <2>1, <2>2, ParseVisit
<1>6. CASE FindSecret
  <2>1. CASE Fail
    BY <1>t, <1>6, <2>1, FailTypes, FaultTypes DEF FindSecret
  <2>2. ASSUME NEW entries \in SUBSET Secrets,
               call' = [call EXCEPT !.pc = "secret", !.todo = entries],
               UNCHANGED <<images, rec, want, faults>>
        PROVE  TypeInv'
    <3>1. /\ call' \in Call /\ call'.pc = "secret" /\ call'.params = call.params
          /\ call'.todo = entries
      <4>1. entries \in SUBSET ((UNION Classes) \cup Secrets)
        BY <2>2
      <4> QED BY <1>t, <2>2, <4>1 DEF Call
    <3> QED BY <1>t, <1>6, <2>2, <3>1, GoesOnTypes DEF FindSecret
  <2> QED BY <1>6, <2>1, <2>2 DEF FindSecret
<1>7. CASE parsePVSecret
  <2>1. PICK e \in call.todo : call' = TakeEntry(e)
    BY <1>7 DEF parsePVSecret
  <2>2. call.pc = "secret" /\ call.todo \subseteq Secrets /\ e.value \in Keys
    BY <1>7 DEF parsePVSecret, At, TypeInv, Keys
  <2>3. /\ call' \in Call /\ call'.pc = "secret" /\ call'.params = call.params
        /\ call'.todo \subseteq call.todo
    BY <1>t, <2>1, <2>2 DEF Call, TakeEntry
  <2> QED BY <1>t, <1>7, <2>2, <2>3, GoesOnTypes DEF parsePVSecret
<1>8. CASE SetUser
  <2>1. "userid" \in Names /\ "adminid" \in Names
    BY DEF Names
  <2>2. /\ call' \in Call /\ call'.pc = "rbd" /\ call'.params = call.params
        /\ call'.todo = {}
    BY <1>t, <1>8, <2>1 DEF Call, SetUser
  <2> QED BY <1>t, <1>8, <2>2, GoesOnTypes DEF SetUser
<1>9. CASE CreateImage
  <2>1. CASE Fail
    <3>1. faults' \in 0 .. MaxFaults /\ UNCHANGED <<class, dnsip>>
      BY <1>t, <1>9, <2>1, FaultTypes DEF CreateImage, TimedOut
    <3> QED BY <1>t, <2>1, <3>1, FailTypes
  <2>2. CASE /\ Pool \in Pools \ images
             /\ images' = images \cup {Pool} /\ rec' = Pool /\ want' = "created"
             /\ call' = IdleCall /\ UNCHANGED faults
    BY <1>9, <2>2, DefaultTypes DEF CreateImage, TypeInv, RbdTypeOK, At
  <2>3. CASE Pool \in Pools \ images /\ TimedOut(images \cup {Pool})
    BY <1>9, <2>3, TimedOutTypes DEF CreateImage, TypeInv, RbdTypeOK
  <2> QED BY <1>9, <2>1, <2>2, <2>3 DEF CreateImage
<1>10. CASE DeleteImage
  <2>1. CASE Fail
    <3>1. faults' \in 0 .. MaxFaults /\ UNCHANGED <<class, dnsip>>
      BY <1>t, <1>10, <2>1, FaultTypes DEF DeleteImage, Removed, TimedOut
    <3> QED BY <1>t, <2>1, <3>1, FailTypes
  <2>2. CASE Removed(Pool)
    BY <1>10, <2>2, DefaultTypes DEF DeleteImage, Removed, TypeInv, RbdTypeOK, At
  <2>3. CASE TimedOut(images \ {Pool})
    BY <1>10, <2>3, TimedOutTypes DEF DeleteImage, TypeInv, RbdTypeOK
  <2> QED BY <1>10, <2>1, <2>2, <2>3 DEF DeleteImage
<1> QED
  BY <1>1, <1>2, <1>3, <1>4, <1>5, <1>6, <1>7, <1>8, <1>9, <1>10 DEF RbdNext

LEMMA TypeInvInit == RbdInit => TypeInv
<1>1. MaxFaults \in Nat
  BY RbdAssumption
<1> SUFFICES ASSUME RbdInit PROVE TypeInv
  OBVIOUS
<1>2. call.todo \subseteq call.params \cup Secrets /\ call.params = {}
  BY DefaultTypes DEF RbdInit
<1>3. call \in Call /\ call.pc = "idle" /\ DOMAIN call.opts = Names
      /\ call.key = ""
  BY DefaultTypes DEF RbdInit
<1>4. faults \in 0 .. MaxFaults
  <2>1. faults = 0
    BY DEF RbdInit
  <2> QED BY <1>1, <2>1
<1>5. RbdTypeOK
  BY <1>2, <1>3, <1>4 DEF RbdInit, RbdTypeOK
<1> QED BY <1>2, <1>3, <1>5 DEF TypeInv, At

(* RbdTypeOK holds whatever classes and secrets there are: in every order  *)
(* of the visits a call only ever visits what its class or a secret holds, *)
(* and the record never names a pool the cluster does not have.            *)
THEOREM RbdTypes == RbdSpec => []RbdTypeOK
<1>1. TypeInv => RbdTypeOK
  BY DEF TypeInv
<1> QED BY <1>1, TypeInvInit, TypeInvNext, PTL DEF RbdSpec

-----------------------------------------------------------------------------
(* A class names every option at most once.  Its keys are map keys, but    *)
(* they are compared in lower case.                                        *)
NamedOnce == \A k \in Classes : \A p, q \in k : p.name = q.name => p = q

(* The data of a secret is a map. *)
SecretsAreMaps ==
    \A d, e \in Secrets :
        d.ns = e.ns /\ d.secret = e.secret /\ d.key = e.key => d = e

(* The entries of the secret that the parameters name. *)
EntriesOf(params) ==
    {e \in Secrets : /\ {e.ns} = Intended(params, "adminsecretnamespace")
                     /\ {e.secret} = Intended(params, "adminsecretname")}

LEMMA NoneGiven ==
    ASSUME NEW S, NEW n, \A q \in S : q.name # n
    PROVE  Intended(S, n) = Default(n)
BY DEF Intended

LEMMA OneGiven ==
    ASSUME NEW S, NEW p \in S, \A q \in S : q.name = p.name => q = p
    PROVE  Intended(S, p.name) = {p.value}
<1>1. {q.value : q \in {x \in S : x.name = p.name}} = {p.value}
  OBVIOUS
<1> QED BY <1>1 DEF Intended

(* One more visit only tells about its own name. *)
LEMMA OtherGiven ==
    ASSUME NEW S, NEW p, NEW n, p.name # n
    PROVE  Intended(S \cup {p}, n) = Intended(S, n)
<1>1. {q \in S \cup {p} : q.name = n} = {q \in S : q.name = n}
  OBVIOUS
<1> QED BY <1>1 DEF Intended

(* The options follow what was visited so far; the key is either taken or  *)
(* still to come.                                                          *)
Follows(opts, params) ==
    \A n \in Names \ {"monitors"} : opts[n] = Intended(params, n)

KeyTaken(params, key) == IntendedKeys(params) \in {{}, {key}}

ParseInv ==
    /\ At("parse") => Follows(call.opts, call.params \ call.todo)
    /\ At("secret") =>
          /\ Follows(call.opts, call.params)
          /\ call.todo \subseteq EntriesOf(call.params)
          /\ \/ call.todo = {} /\ KeyTaken(call.params, call.key)
             \/ {e \in EntriesOf(call.params) : e.key = "key"} \subseteq call.todo
    /\ ParsedAsIntended

LEMMA KeyIs ==
    ASSUME SecretsAreMaps, NEW params, NEW e \in EntriesOf(params), e.key = "key"
    PROVE  IntendedKeys(params) = {e.value}
<1>1. \A x \in EntriesOf(params) : x.key = "key" => x = e
  BY DEF SecretsAreMaps, EntriesOf
<1>2. IntendedKeys(params)
        = {x.value : x \in {y \in EntriesOf(params) : y.key = "key"}}
  BY DEF IntendedKeys, EntriesOf
<1>3. {y \in EntriesOf(params) : y.key = "key"} = {e}
  BY <1>1
<1> QED BY <1>2, <1>3

LEMMA NoKey ==
    ASSUME NEW params, {e \in EntriesOf(params) : e.key = "key"} = {}
    PROVE  IntendedKeys(params) = {}
BY DEF IntendedKeys, EntriesOf

LEMMA VisitFollows ==
    ASSUME NEW params, NEW todo \in SUBSET params, NEW p \in todo, NEW v,
           \A q \in params : q.name = p.name => q = p,
           NEW opts \in [Names -> SUBSET Values],
           Follows(opts, params \ todo), p.name \in Names,
           p.name = "monitors" \/ v = p.value
    PROVE  Follows(Assign(opts, p, v), params \ (todo \ {p}))
<1> DEFINE seen == params \ todo
<1>1. params \ (todo \ {p}) = seen \cup {p}
  OBVIOUS
<1> SUFFICES ASSUME NEW n \in Names \ {"monitors"}
             PROVE  Assign(opts, p, v)[n] = Intended(seen \cup {p}, n)
  BY <1>1 DEF Follows
<1>2. opts[n] = Intended(seen, n)
  BY DEF Follows
<1>3. CASE n # p.name
  <2>1. Assign(opts, p, v)[n] = opts[n]
    BY <1>3 DEF Assign
  <2> QED BY <1>2, <1>3, <2>1, OtherGiven
<1>4. CASE n = p.name
  <2>1. Intended(seen \cup {p}, n) = {v}
    <3>1. v = p.value
      BY <1>4
    <3>2. p \in seen \cup {p} /\ \A q \in seen \cup {p} : q.name = p.name => q = p
      OBVIOUS
    <3> HIDE DEF seen
    <3>3. Intended(seen \cup {p}, p.name) = {p.value}
      BY <3>2, OneGiven
    <3> QED BY <1>4, <3>1, <3>3
  <2>2. Intended(seen, n) = Default(n)
    <3>1. \A q \in seen : q.name # n
      BY <1>4
    <3> QED BY <3>1, NoneGiven
  <2>3. n \in Lists => opts[n] = {}
    BY <1>2, <2>2 DEF Lists, Default
  <2> QED BY <1>4, <2>1, <2>3 DEF Assign
<1> QED BY <1>3, <1>4

LEMMA ParseInvNext ==
    ASSUME NamedOnce, SecretsAreMaps, TypeInv, TypeInv', ParseInv,
           [RbdNext]_vars
    PROVE  ParseInv'
<1> USE DEF At
<1>t. call \in Call
  BY DEF TypeInv
<1>1. ASSUME call'.pc = "idle" PROVE ParseInv'
  BY <1>1 DEF ParseInv, ParsedAsIntended
<1>2. CASE call' = IdleCall
  BY <1>1, <1>2, DefaultTypes
<1>3. CASE UNCHANGED call
  BY <1>3 DEF ParseInv, ParsedAsIntended
<1>4. CASE GetClass
  <2>1. /\ call'.pc = "parse" /\ call'.params = class /\ call'.todo = class
        /\ call'.opts = Defaults
    BY <1>4 DEF GetClass, IdleCall
  <2>2. Follows(Defaults, class \ class)
    <3>1. \A n \in Names : Intended(class \ class, n) = Default(n)
      BY NoneGiven
    <3> QED BY <3>1 DEF Follows, Defaults
  <2> QED BY <2>1, <2>2 DEF ParseInv, ParsedAsIntended
<1>5. CASE ParseParameter
  <2>1. ASSUME NEW p \in call.todo, NEW v \in Values,
               p.name = "monitors" \/ v = p.value,
               call' = [call EXCEPT !.opts = Assign(@, p, v),
                                    !.todo = @ \ {p}]
        PROVE  ParseInv'
    <3>1. /\ call.pc = "parse" /\ call.params \in Classes
          /\ call.todo \subseteq call.params
          /\ Follows(call.opts, call.params \ call.todo)
      BY <1>5 DEF ParseParameter, TypeInv, ParseInv
    <3>2. /\ p.name \in Names /\ call.opts \in [Names -> SUBSET Values]
          /\ \A q \in call.params : q.name = p.name => q = p
      BY <1>t, <3>1, RbdAssumption DEF NamedOnce, Parameter, Call
    <3>3. Follows(Assign(call.opts, p, v), call.params \ (call.todo \ {p}))
      BY <2>1, <3>1, <3>2, VisitFollows
    <3>4. /\ call'.pc = "parse" /\ call'.params = call.params
          /\ call'.todo = call.todo \ {p} /\ call'.opts = Assign(call.opts, p, v)
      BY <1>t, <2>1, <3>1 DEF Call
    <3> QED BY <3>3, <3>4 DEF ParseInv, ParsedAsIntended
  <2>2. CASE Fail
    BY <1>2, <2>2 DEF Fail
  <2> QED BY <1>5, <2>1, <2>2, ParseVisit
<1>6. CASE FindSecret
  <2>1. CASE Fail
    BY <1>2, <2>1 DEF Fail
  <2>2. CASE call' = [call EXCEPT !.pc = "secret",
                        !.todo = {e \in Secrets :
                          /\ {e.ns} = call.opts["adminsecretnamespace"]
                          /\ {e.secret} = call.opts["adminsecretname"]}]
    <3>1. call.todo = {} /\ Follows(call.opts, call.params \ call.todo)
      BY <1>6 DEF FindSecret, ParseInv
    <3>2. Follows(call.opts, call.params)
      <4>1. call.params \ {} = call.params
        OBVIOUS
      <4> QED BY <3>1, <4>1
    <3>3. /\ call.opts["adminsecretnamespace"]
               = Intended(call.params, "adminsecretnamespace")
          /\ call.opts["adminsecretname"]
               = Intended(call.params, "adminsecretname")
      BY <3>2 DEF Follows, Names
    <3>4. /\ call'.pc = "secret" /\ call'.params = call.params
          /\ call'.opts = call.opts /\ call'.todo = EntriesOf(call.params)
      BY <1>t, <2>2, <3>3 DEF Call, EntriesOf
    <3> QED BY <3>2, <3>4 DEF ParseInv, ParsedAsIntended
  <2> QED BY <1>6, <2>1, <2>2 DEF FindSecret
<1>7. CASE parsePVSecret
  <2>1. PICK e \in call.todo : call' = TakeEntry(e)
    BY <1>7 DEF parsePVSecret
  <2>2. /\ call'.pc = "secret" /\ call'.params = call.params
        /\ call'.opts = call.opts /\ call'.key = e.value
        /\ call'.todo = IF e.key = "key" THEN {} ELSE call.todo \ {e}
    BY <1>t, <1>7, <2>1 DEF Call, TakeEntry, parsePVSecret
  <2>3. /\ Follows(call.opts, call.params)
        /\ call.todo \subseteq EntriesOf(call.params)
        /\ {x \in EntriesOf(call.params) : x.key = "key"} \subseteq call.todo
    BY <1>7, <2>1 DEF parsePVSecret, ParseInv
  <2>4. CASE e.key = "key"
    <3>1. KeyTaken(call.params, e.value)
      BY <2>3, <2>4, KeyIs DEF KeyTaken
    <3> QED BY <2>2, <2>3, <2>4, <3>1 DEF ParseInv, ParsedAsIntended
  <2>5. CASE e.key # "key"
    BY <2>2, <2>3, <2>5 DEF ParseInv, ParsedAsIntended
  <2> QED BY <2>4, <2>5
<1>8. CASE SetUser
  <2>1. /\ call'.pc = "rbd" /\ call'.params = call.params
        /\ call'.key = call.key
        /\ call'.opts = [call.opts EXCEPT !["userid"] =
                            IF @ \in {{}, {""}}
                            THEN call.opts["adminid"] ELSE @]
    BY <1>t, <1>8 DEF Call, SetUser
  <2>2. /\ Follows(call.opts, call.params) /\ call.todo = {}
        /\ \/ KeyTaken(call.params, call.key)
           \/ {x \in EntriesOf(call.params) : x.key = "key"} \subseteq {}
    BY <1>8 DEF SetUser, ParseInv
  <2>3. KeyTaken(call.params, call.key)
    BY <2>2, NoKey DEF KeyTaken
  <2>4. call.opts \in [Names -> SUBSET Values]
    BY <1>t DEF Call
  <2>5. \A n \in Names \ {"userid", "monitors"} :
            call'.opts[n] = Intended(call.params, n)
    BY <2>1, <2>2, <2>4 DEF Follows
  <2>6. call'.opts["userid"] = IntendedUser(call.params)
    BY <2>1, <2>2, <2>4 DEF Follows, IntendedUser, Names
  <2> QED BY <2>1, <2>3, <2>5, <2>6 DEF ParseInv, ParsedAsIntended, KeyTaken
<1> QED
  BY <1>2, <1>3, <1>4, <1>5, <1>6, <1>7, <1>8
     DEF RbdNext, vars, RecreateClass, RequestDelete, CreateImage, DeleteImage,
         Removed, TimedOut, Fail

(* ParsedAsIntended holds for every storage class that names each option   *)
(* once and for every secret: however parseParameters and parsePVSecret    *)
(* happen to visit their maps, and whatever is done to the class while a   *)
(* call runs, rbd is called with what the class said when it was read.     *)
(* The invariant is about the visits made so far: the options are what the *)
(* parameters already visited say, and the entry called key is either      *)
(* still to be visited or was the last one to be visited.                  *)
THEOREM RbdParsedAsIntended ==
    ASSUME NamedOnce, SecretsAreMaps
    PROVE  RbdSpec => []ParsedAsIntended
<1>1. RbdInit => ParseInv
  BY DefaultTypes DEF RbdInit, ParseInv, ParsedAsIntended, At
<1>2. ParseInv => ParsedAsIntended
  BY DEF ParseInv
<1> QED
  BY <1>1, <1>2, TypeInvInit, TypeInvNext, ParseInvNext, PTL DEF RbdSpec

-----------------------------------------------------------------------------
(* What a class that names each option once says of the pool is one pool.  *)
LEMMA OnePool ==
    ASSUME NamedOnce, NEW k \in Classes
    PROVE  \E x : Intended(k, "pool") = {x}
<1>1. CASE \E p \in k : p.name = "pool"
  <2>1. PICK p \in k : p.name = "pool"
    BY <1>1
  <2>2. \A q \in k : q.name = p.name => q = p
    BY DEF NamedOnce
  <2>3. Intended(k, p.name) = {p.value}
    BY <2>2, OneGiven
  <2> QED BY <2>1, <2>3
<1>2. CASE \A p \in k : p.name # "pool"
  <2>1. Intended(k, "pool") = Default("pool")
    BY <1>2, NoneGiven
  <2> QED BY <2>1 DEF Default
<1> QED BY <1>1, <1>2

(* The pool never changes its name: the class a running call has read and  *)
(* the record agree with the class there is now.                           *)
PoolInv ==
    /\ ~At("idle") =>
          /\ call.params \in Classes
          /\ Intended(call.params, "pool") = Intended(class, "pool")
    /\ want \in {"created", "delete"} => Intended(class, "pool") = {rec}
    /\ ImageWhereRecorded

LEMMA RbdPool ==
    ASSUME NamedOnce, ParseInv, PoolInv, At("rbd")
    PROVE  Intended(class, "pool") = {Pool}
<1>1. call.opts["pool"] = Intended(call.params, "pool")
  BY DEF ParseInv, ParsedAsIntended, Names
<1>2. /\ call.params \in Classes
      /\ Intended(call.params, "pool") = Intended(class, "pool")
  BY DEF PoolInv, At
<1>3. PICK x : Intended(call.params, "pool") = {x}
  BY <1>2, OnePool
<1>4. The(call.opts["pool"]) = x
  BY <1>1, <1>3 DEF The
<1> QED BY <1>2, <1>3, <1>4 DEF Pool

LEMMA PoolInvNext ==
    ASSUME NamedOnce, PoolChange = FALSE, TypeInv, ParseInv, PoolInv,
           [RbdNext]_vars
    PROVE  PoolInv'
<1>t. call \in Call /\ class \in Classes
  BY DEF TypeInv, RbdTypeOK
<1> USE DEF At, ImageWhereRecorded
<1>1. CASE UNCHANGED vars
  BY <1>1 DEF vars, PoolInv
<1>2. ASSUME UNCHANGED <<class, images, rec, want>>, call' = IdleCall
      PROVE  PoolInv'
  BY <1>2, DefaultTypes DEF PoolInv
<1>3. ASSUME UNCHANGED <<class, images, rec, want>>, ~At("idle"),
             call'.params = call.params
      PROVE  PoolInv'
  BY <1>3 DEF PoolInv
<1>4. CASE RecreateClass
  BY <1>4 DEF RecreateClass, PoolInv
<1>5. CASE RequestDelete
  BY <1>5 DEF RequestDelete, PoolInv
<1>6. CASE GetClass
  <2>1. call'.params = class
    BY <1>6 DEF GetClass, IdleCall
  <2> QED BY <1>t, <1>6, <2>1 DEF GetClass, PoolInv
<1>7. CASE ParseParameter \/ FindSecret \/ parsePVSecret \/ SetUser
  <2>1. UNCHANGED <<class, images, rec, want>> /\ ~At("idle")
    BY <1>7 DEF ParseParameter, FindSecret, parsePVSecret, SetUser, Fail
  <2>2. call' = IdleCall \/ call'.params = call.params
    BY <1>t, <1>7 DEF ParseParameter, FindSecret, parsePVSecret, SetUser, Fail,
                      TakeEntry, Call
  <2> QED BY <1>2, <1>3, <2>1, <2>2
<1>8. CASE CreateImage
  <2>1. Intended(class, "pool") = {Pool} /\ images \subseteq {Pool}
    BY <1>8, RbdPool DEF CreateImage, PoolInv
  <2>2. CASE Fail
    BY <1>2, <1>8, <2>2 DEF CreateImage, Fail
  <2>3. CASE /\ images' = images \cup {Pool} /\ rec' = Pool
             /\ want' = "created" /\ call' = IdleCall
    BY <1>8, <2>1, <2>3, DefaultTypes DEF CreateImage, PoolInv
  <2>4. CASE TimedOut(images \cup {Pool})
    BY <1>8, <2>1, <2>4, DefaultTypes DEF CreateImage, TimedOut, PoolInv
  <2> QED BY <1>8, <2>2, <2>3, <2>4 DEF CreateImage
<1>9. CASE DeleteImage
  <2>1. /\ Intended(class, "pool") = {Pool} /\ rec = Pool
        /\ images \subseteq {Pool}
    BY <1>9, RbdPool DEF DeleteImage, PoolInv
  <2>2. CASE Fail
    BY <1>2, <1>9, <2>2 DEF DeleteImage, Fail
  <2>3. CASE Removed(Pool)
    BY <1>9, <2>1, <2>3, DefaultTypes DEF DeleteImage, Removed, PoolInv
  <2>4. CASE TimedOut(images \ {Pool})
    BY <1>9, <2>1, <2>4, DefaultTypes DEF DeleteImage, TimedOut, PoolInv
  <2> QED BY <1>9, <2>2, <2>3, <2>4 DEF DeleteImage
<1> QED
  BY <1>1, <1>4, <1>5, <1>6, <1>7, <1>8, <1>9 DEF RbdNext

(* ImageWhereRecorded holds as long as the class is not made anew with     *)
(* another pool: although DeleteImage works the pool out again instead of  *)
(* reading Spec.Pool, it removes the image CreateImage made, in whatever   *)
(* way the other parameters, the secret or the order of the visits         *)
(* changed in between, and although a command that timed out may have      *)
(* taken effect.  The invariant adds that the class a call has read and    *)
(* the class there is now name the pool of the record.                     *)
THEOREM RbdImageWhereRecorded ==
    ASSUME NamedOnce, SecretsAreMaps, PoolChange = FALSE
    PROVE  RbdSpec => []ImageWhereRecorded
<1>1. RbdInit => ParseInv /\ PoolInv
  BY DefaultTypes
     DEF RbdInit, ParseInv, ParsedAsIntended, PoolInv, ImageWhereRecorded, At
<1>2. PoolInv => ImageWhereRecorded
  BY DEF PoolInv
<1> QED
  BY <1>1, <1>2, TypeInvInit, TypeInvNext, ParseInvNext, PoolInvNext, PTL
     DEF RbdSpec
=============================================================================
