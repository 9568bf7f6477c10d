----------------------------- MODULE ReadProofs -----------------------------
(* Theorems of ReadPath, for any number of requests, users, keys and racks, *)
(* any times to live and any horizon.  The strengthening dates what is in   *)
(* the caches and what a request carries between two awaits: the keys by    *)
(* the fetch that brought them (KeysDated, KeyOf), devices and heights by   *)
(* the lookup under whose time they are stored (EntryDated, ValueOf).       *)
EXTENDS ReadPath, TLAPS

States == Fetching \cup Over \cup
  {"idle", "key", "waiting", "devices", "types", "types_fetch", "types_served", "assembled"}

Values == [devices : Nat, heights : Nat, full : BOOLEAN]

ReqType == [at : States, kid : Kids \cup {None}, start : Nat, since : Nat, held : BOOLEAN,
            got : SUBSET Kids, told : Int, rack : Racks \cup {None}, value : Values]

(* Types of everything but the budget.                                      *)
Types ==
  /\ now \in Nat
  /\ published \in SUBSET Kids
  /\ seenKids \in [Kids -> Nat \cup {None}]
  /\ coming \in SUBSET Kids
  /\ asked \in SUBSET Racks
  /\ keys \in [kids : SUBSET Kids, at : Nat \cup {None}]
  /\ lock \in Requests \cup {None}
  /\ elevations \in [Racks -> [value : Values, at : Nat] \cup {None}]
  /\ types \in [value : Nat, at : Nat] \cup {None}
  /\ req \in [Requests -> ReqType]

Locked == \A r \in Requests : (lock = r) <=> (req[r].at \in Fetching)

(* A key was served at some time, and LastServed(k) is one.                 *)
Served(k) == k \in published \/ seenKids[k] # None

RealmDated == \A k \in Kids : /\ k \in published => seenKids[k] # None
                              /\ seenKids[k] # None => seenKids[k] <= now

(* Cached keys were served no earlier than Latency before they were stored. *)
KeysDated ==
  /\ keys.at # None => keys.at <= now
  /\ \A k \in keys.kids : /\ keys.at # None /\ Served(k)
                          /\ keys.at - LastServed(k) <= Latency

KeyOf(q) ==
  /\ q.at \in {"key", "waiting", "accepted", "unknown"} \cup Fetching =>
       q.kid \in Kids /\ Served(q.kid)
  /\ q.at \in {"key", "waiting", "fetching"} => (q.held => q.kid \in published)
  /\ q.at \in Fetching => q.since <= now /\ now - q.since <= Latency
  /\ q.at = "fetched" => /\ q.held => q.kid \in q.got
                         /\ \A k \in q.got : Served(k) /\ q.since <= LastServed(k)
  /\ q.at = "unknown" => ~q.held
  /\ q.at = "accepted" => q.since - LastServed(q.kid) < KeyTTL + Latency

KeysInv == RealmDated /\ KeysDated /\ \A r \in Requests : KeyOf(req[r])

(* A cached value is dated by a lookup that came before its fetch.          *)
Dated(v, t) ==
  /\ t <= v.devices
  /\ t - v.heights < (IF v.full THEN TypeTTL ELSE 1)

EntryDated(k) == elevations[k] # None => elevations[k].at <= now /\ Dated(elevations[k].value, elevations[k].at)

TypesDated == types # None => types.at <= now /\ types.at <= types.value

ValueOf(q) ==
  /\ q.at \in {"devices", "types", "types_fetch", "types_served", "assembled", "answered"} =>
       q.start <= now
  /\ q.at \in {"devices", "types", "types_fetch", "types_served", "assembled"} =>
       q.rack \in Racks
  /\ q.at \in {"types", "types_fetch", "types_served", "assembled"} =>
       q.start <= q.value.devices
  /\ q.at \in {"devices", "types", "types_fetch", "types_served"} => q.value.full
  /\ q.at \in {"types_fetch", "types_served"} => q.start <= q.since /\ q.since <= now
  /\ q.at = "types_served" => q.since <= q.value.heights
  /\ q.at = "assembled" => Dated(q.value, q.start)
  /\ q.at = "answered" =>
       /\ q.start - q.value.devices < DeviceTTL
       /\ q.start - q.value.heights < DeviceTTL + (IF q.value.full THEN TypeTTL ELSE 0)

FreshInv ==
  /\ \A k \in Racks : EntryDated(k)
  /\ TypesDated
  /\ \A r \in Requests : ValueOf(req[r])

IInv == Types /\ Locked /\ KeysInv /\ FreshInv

-----------------------------------------------------------------------------
LEMMA InitIInv == Init => IInv
  <1> SUFFICES ASSUME NEW racks \in SUBSET Racks, NEW rotation \in SUBSET Kids,
                      With(racks, rotation)
               PROVE  IInv
    BY DEF Init
  <1>1. PICK k \in Kids : /\ published = {k}
                          /\ seenKids = [j \in Kids |-> IF j = k THEN 0 ELSE None]
                          /\ coming = rotation \ {k}
    BY DEF With
  <1>2. Idle \in ReqType
    BY DEF Idle, NoValue, ReqType, Values, States
  <1>3. Types
    BY <1>1, <1>2, TimesAssumption DEF Types, With
  <1>4. Locked
    BY NoneAssumption DEF Locked, With, Idle, Fetching
  <1>5. KeysInv
    BY <1>1, NoneAssumption DEF KeysInv, RealmDated, KeysDated, KeyOf, With, Idle, Fetching
  <1>6. FreshInv
    BY DEF FreshInv, EntryDated, TypesDated, ValueOf, With, Idle
  <1> QED
    BY <1>3, <1>4, <1>5, <1>6 DEF IInv

(* What the steps have in common: one request changes, to q; the realm and  *)
(* the time do not.                                                         *)
LEMMA OneRequest ==
  ASSUME IInv, NEW r \in Requests, NEW q \in ReqType,
         req' = [req EXCEPT ![r] = q], UNCHANGED <<now, realm>>,
         KeyOf(q), ValueOf(q)
  PROVE  /\ req' \in [Requests -> ReqType]
         /\ RealmDated'
         /\ \A s \in Requests : KeyOf(req[s])' /\ ValueOf(req[s])'
  <1>1. req \in [Requests -> ReqType]
    BY DEF IInv, Types
  <1>2. req' \in [Requests -> ReqType] /\ \A s \in Requests : req'[s] = IF s = r THEN q ELSE req[s]
    BY <1>1
  <1>3. RealmDated'
    BY DEF IInv, KeysInv, RealmDated, realm
  <1>4. ASSUME NEW s \in Requests PROVE KeyOf(req[s])' /\ ValueOf(req[s])'
    <2>1. KeyOf(req'[s]) /\ ValueOf(req'[s])
      BY <1>2 DEF IInv, KeysInv, FreshInv
    <2>2. KeyOf(req[s])'
      BY <2>1 DEF KeyOf, Served, LastServed, realm
    <2>3. ValueOf(req[s])'
      BY <2>1 DEF ValueOf, Dated
    <2> QED
      BY <2>2, <2>3
  <1> QED
    BY <1>2, <1>3, <1>4

(* Such a step, of a request that holds the lock neither before nor after,  *)
(* with the keys and the lock as they are.                                  *)
LEMMA OffLock ==
  ASSUME IInv, NEW r \in Requests, NEW q \in ReqType,
         req' = [req EXCEPT ![r] = q], UNCHANGED <<now, realm, jwks>>,
         req[r].at \notin Fetching \/ q.at \in Fetching,
         q.at \notin Fetching \/ req[r].at \in Fetching,
         KeyOf(q), ValueOf(q),
         elevations' \in [Racks -> [value : Values, at : Nat] \cup {None}],
         types' \in [value : Nat, at : Nat] \cup {None},
         \A k \in Racks : EntryDated(k)', TypesDated'
  PROVE  IInv'
  <1>1. req \in [Requests -> ReqType]
    BY DEF IInv, Types
  <1>2. /\ req' \in [Requests -> ReqType]
        /\ RealmDated'
        /\ \A s \in Requests : KeyOf(req[s])' /\ ValueOf(req[s])'
    BY OneRequest
  <1>3. Types'
    BY <1>2 DEF IInv, Types, realm, jwks
  <1>4. Locked'
    BY <1>1 DEF IInv, Locked, jwks
  <1>5. KeysDated'
    BY DEF IInv, KeysInv, KeysDated, Served, LastServed, realm, jwks
  <1> QED
    BY <1>2, <1>3, <1>4, <1>5 DEF IInv, KeysInv, FreshInv

(* The caches' entries stay dated while they and the time stay as they are. *)
LEMMA SameEntries ==
  ASSUME IInv, UNCHANGED <<now, caches>>
  PROVE  /\ elevations' \in [Racks -> [value : Values, at : Nat] \cup {None}]
         /\ types' \in [value : Nat, at : Nat] \cup {None}
         /\ \A k \in Racks : EntryDated(k)'
         /\ TypesDated'
  BY DEF IInv, Types, FreshInv, EntryDated, TypesDated, Dated, caches

-----------------------------------------------------------------------------
LEMMA IdleTyped == Idle \in ReqType /\ Idle.value.full
  BY DEF Idle, NoValue, ReqType, Values, States

LEMMA SendStep == ASSUME IInv, NEW r \in Requests, Send(r) PROVE IInv'
  <1>1. req[r] \in ReqType /\ now \in Nat
    BY DEF IInv, Types
  <1>2. RetryAfter * Second \in Int
    BY <1>1, TimesAssumption DEF RetryAfter
  <1>0. PICK told \in Int : told = now + RetryAfter * Second
    BY <1>1, <1>2
  <1> DEFINE refused == [req[r] EXCEPT !.at = "refused", !.start = now, !.told = told]
             let(k) == [req[r] EXCEPT !.at = "key", !.kid = k, !.held = k \in published]
  <1>3. \E k \in {j \in Kids : seenKids[j] # None} :
          req' = [req EXCEPT ![r] = refused] \/ req' = [req EXCEPT ![r] = let(k)]
    <2> DEFINE told0 == now + RetryAfter * Second
    <2>1. \E k \in {j \in Kids : seenKids[j] # None} :
            \/ req' = [req EXCEPT ![r].at = "refused", ![r].start = now, ![r].told = told0]
            \/ req' = [req EXCEPT ![r].at = "key", ![r].kid = k, ![r].held = k \in published]
      BY DEF Send
    <2>2. told0 = told
      BY <1>0
    <2> HIDE DEF told0
    <2> QED
      BY <2>1, <2>2
  <1>4. req[r].at = "idle" /\ UNCHANGED <<now, realm, jwks, caches>>
    BY DEF Send
  <1>5. CASE req' = [req EXCEPT ![r] = refused]
    <2>1. refused \in ReqType /\ refused.at \notin Fetching
      BY <1>1, <1>2 DEF ReqType, States, Fetching, Over
    <2>2. KeyOf(refused) /\ ValueOf(refused)
      BY <1>1 DEF KeyOf, ValueOf, ReqType, Fetching
    <2> HIDE DEF refused
    <2> QED
      BY <1>4, <1>5, <2>1, <2>2, OffLock, SameEntries DEF Fetching
  <1>6. ASSUME NEW k \in {j \in Kids : seenKids[j] # None}, req' = [req EXCEPT ![r] = let(k)]
        PROVE  IInv'
    <2>0. k \in Kids /\ (k \in published) \in BOOLEAN
      OBVIOUS
    <2>1. let(k) \in ReqType /\ let(k).at \notin Fetching
      BY <1>1, <2>0 DEF ReqType, States, Fetching, Over
    <2>2. KeyOf(let(k)) /\ ValueOf(let(k))
      BY <1>1 DEF KeyOf, ValueOf, ReqType, Fetching, Served
    <2> HIDE DEF let
    <2> QED
      BY <1>4, <1>6, <2>1, <2>2, OffLock, SameEntries DEF Fetching
  <1> QED
    BY <1>3, <1>5, <1>6

LEMMA LookupStep == ASSUME IInv, NEW r \in Requests, Lookup(r) PROVE IInv'
  <1> DEFINE q == IF HasKid(req[r].kid) THEN Judged(r, keys.kids)
                  ELSE [req[r] EXCEPT !.at = "waiting"]
  <1>1. req[r] \in ReqType /\ req[r].at = "key" /\ now \in Nat
    BY DEF IInv, Types, Lookup
  <1>2. q \in ReqType /\ q.at \notin Fetching
    BY <1>1 DEF ReqType, Judged, States, Fetching, Over
  <1>3. KeyOf(q)
    <2>1. KeyOf(req[r]) /\ KeysDated /\ RealmDated
      BY DEF IInv, KeysInv
    <2>2. CASE HasKid(req[r].kid)
      BY <1>1, <2>1, <2>2, TimesAssumption
      DEF KeyOf, KeysDated, RealmDated, Judged, HasKid, LastServed, Served, ReqType, Fetching, IInv, Types
    <2>3. CASE ~HasKid(req[r].kid)
      BY <1>1, <2>1, <2>3 DEF KeyOf, ReqType, Fetching
    <2> QED
      BY <2>2, <2>3
  <1>4. ValueOf(q)
    BY <1>1 DEF ValueOf, Judged, ReqType
  <1>5. req' = [req EXCEPT ![r] = q] /\ UNCHANGED <<now, realm, jwks, caches>>
    BY DEF Lookup
  <1> HIDE DEF q
  <1> QED
    BY <1>1, <1>2, <1>3, <1>4, <1>5, OffLock, SameEntries DEF Fetching

LEMMA AcquireStep == ASSUME IInv, NEW r \in Requests, Acquire(r) PROVE IInv'
  <1>1. req[r] \in ReqType /\ req[r].at = "waiting" /\ now \in Nat
    BY DEF IInv, Types, Acquire
  <1>2. KeyOf(req[r]) /\ KeysDated /\ RealmDated
    BY DEF IInv, KeysInv
  <1>3. CASE HasKid(req[r].kid)
    <2> DEFINE q == Judged(r, keys.kids)
    <2>1. q \in ReqType /\ q.at \notin Fetching
      BY <1>1 DEF ReqType, Judged, States, Fetching, Over
    <2>2. KeyOf(q)
      BY <1>1, <1>2, <1>3, TimesAssumption
      DEF KeyOf, KeysDated, RealmDated, Judged, HasKid, LastServed, Served, ReqType, Fetching, IInv, Types
    <2>3. ValueOf(q)
      BY <1>1 DEF ValueOf, Judged, ReqType
    <2>4. req' = [req EXCEPT ![r] = q] /\ UNCHANGED <<now, realm, jwks, caches>>
      BY <1>3 DEF Acquire, jwks
    <2> HIDE DEF q
    <2> QED
      BY <1>1, <2>1, <2>2, <2>3, <2>4, OffLock, SameEntries DEF Fetching
  <1>4. CASE ~HasKid(req[r].kid)
    <2> DEFINE q == [req[r] EXCEPT !.at = "fetching", !.since = now]
    <2>1. q \in ReqType /\ q.at \in Fetching
      BY <1>1 DEF ReqType, States, Fetching, Over
    <2>2. KeyOf(q)
      BY <1>1, <1>2, TimesAssumption DEF KeyOf, ReqType, Fetching
    <2>3. ValueOf(q)
      BY <1>1 DEF ValueOf, ReqType
    <2>4. /\ req' = [req EXCEPT ![r] = q]
          /\ lock = None /\ lock' = r
          /\ UNCHANGED <<now, realm, keys, caches>>
      BY <1>4 DEF Acquire
    <2> HIDE DEF q
    <2>5. /\ req' \in [Requests -> ReqType]
          /\ RealmDated'
          /\ \A s \in Requests : KeyOf(req[s])' /\ ValueOf(req[s])'
      BY <2>1, <2>2, <2>3, <2>4, OneRequest
    <2>6. Types'
      BY <2>4, <2>5 DEF IInv, Types, realm, caches
    <2>7. Locked'
      BY <2>1, <2>4, NoneAssumption DEF IInv, Types, Locked
    <2>8. KeysDated'
      BY <2>4 DEF IInv, KeysInv, KeysDated, Served, LastServed, realm
    <2> QED
      BY <2>4, <2>5, <2>6, <2>7, <2>8, SameEntries DEF IInv, KeysInv, FreshInv
  <1> QED
    BY <1>3, <1>4

LEMMA KeysServedStep == ASSUME IInv, NEW r \in Requests, KeysServed(r) PROVE IInv'
  <1> DEFINE q == [req[r] EXCEPT !.at = "fetched", !.got = published]
  <1>1. req[r] \in ReqType /\ req[r].at = "fetching" /\ now \in Nat
    BY DEF IInv, Types, KeysServed
  <1>2. q \in ReqType /\ (q.at \in Fetching <=> req[r].at \in Fetching)
    BY <1>1 DEF IInv, Types, ReqType, Values, States, Fetching, Over, Idle, NoValue
  <1>3. KeyOf(q)
    BY <1>1 DEF KeyOf, ReqType, Fetching, Over, Idle, IInv, KeysInv, Served, LastServed
  <1>4. ValueOf(q)
    BY <1>1, TimesAssumption DEF ValueOf, Dated, ReqType, Values, Idle, NoValue, IInv, FreshInv, Over
  <1>5. req' = [req EXCEPT ![r] = q] /\ UNCHANGED <<now, realm, jwks, caches>>
    BY DEF KeysServed
  <1> HIDE DEF q
  <1> QED
    BY <1>1, <1>2, <1>3, <1>4, <1>5, OffLock, SameEntries

LEMMA DevicesServedStep == ASSUME IInv, NEW r \in Requests, DevicesServed(r) PROVE IInv'
  <1> DEFINE q == [req[r] EXCEPT !.at = "types", !.value.devices = now]
  <1>1. req[r] \in ReqType /\ req[r].at = "devices" /\ now \in Nat
    BY DEF IInv, Types, DevicesServed
  <1>2. q \in ReqType /\ (q.at \in Fetching <=> req[r].at \in Fetching)
    BY <1>1 DEF ReqType, Values, States, Fetching, Over, Idle, NoValue
  <1>3. KeyOf(q)
    BY <1>1 DEF KeyOf, ReqType, Fetching, Over, Idle, IInv, KeysInv, Served, LastServed
  <1>4. ValueOf(q)
    BY <1>1, TimesAssumption DEF ValueOf, Dated, ReqType, Values, Idle, NoValue, IInv, FreshInv, Over
  <1>5. req' = [req EXCEPT ![r] = q] /\ UNCHANGED <<now, realm, jwks, caches>>
    BY DEF DevicesServed
  <1> HIDE DEF q
  <1> QED
    BY <1>1, <1>2, <1>3, <1>4, <1>5, OffLock, SameEntries

LEMMA DevicesFailStep == ASSUME IInv, NEW r \in Requests, DevicesFail(r) PROVE IInv'
  <1> DEFINE q == [Idle EXCEPT !.at = "failed"]
  <1>1. req[r] \in ReqType /\ req[r].at = "devices" /\ now \in Nat
    BY DEF IInv, Types, DevicesFail
  <1>2. q \in ReqType /\ (q.at \in Fetching <=> req[r].at \in Fetching)
    BY <1>1, IdleTyped DEF ReqType, States, Fetching, Over
  <1>3. KeyOf(q)
    BY <1>1 DEF KeyOf, ReqType, Fetching, Over, Idle, IInv, KeysInv, Served, LastServed
  <1>4. ValueOf(q)
    BY <1>1, TimesAssumption DEF ValueOf, Dated, ReqType, Values, Idle, NoValue, IInv, FreshInv, Over
  <1>5. req' = [req EXCEPT ![r] = q] /\ UNCHANGED <<now, realm, jwks, caches>>
    BY DEF DevicesFail
  <1> HIDE DEF q
  <1> QED
    BY <1>1, <1>2, <1>3, <1>4, <1>5, OffLock, SameEntries

LEMMA TypesServedStep == ASSUME IInv, NEW r \in Requests, TypesServed(r) PROVE IInv'
  <1> DEFINE q == [req[r] EXCEPT !.at = "types_served", !.value.heights = now]
  <1>1. req[r] \in ReqType /\ req[r].at = "types_fetch" /\ now \in Nat
    BY DEF IInv, Types, TypesServed
  <1>2. q \in ReqType /\ (q.at \in Fetching <=> req[r].at \in Fetching)
    BY <1>1 DEF ReqType, Values, States, Fetching, Over, Idle, NoValue
  <1>3. KeyOf(q)
    BY <1>1 DEF KeyOf, ReqType, Fetching, Over, Idle, IInv, KeysInv, Served, LastServed
  <1>4. ValueOf(q)
    BY <1>1, TimesAssumption DEF ValueOf, Dated, ReqType, Values, Idle, NoValue, IInv, FreshInv, Over
  <1>5. req' = [req EXCEPT ![r] = q] /\ UNCHANGED <<now, realm, jwks, caches>>
    BY DEF TypesServed
  <1> HIDE DEF q
  <1> QED
    BY <1>1, <1>2, <1>3, <1>4, <1>5, OffLock, SameEntries

LEMMA TypesFailStep == ASSUME IInv, NEW r \in Requests, TypesFail(r) PROVE IInv'
  <1> DEFINE q == [req[r] EXCEPT !.at = "assembled", !.value.heights = now, !.value.full = FALSE, !.since = 0]
  <1>1. req[r] \in ReqType /\ req[r].at \in {"types_fetch", "types_served"} /\ now \in Nat
    BY DEF IInv, Types, TypesFail
  <1>2. q \in ReqType /\ (q.at \in Fetching <=> req[r].at \in Fetching)
    BY <1>1 DEF ReqType, Values, States, Fetching, Over, Idle, NoValue
  <1>3. KeyOf(q)
    BY <1>1 DEF KeyOf, ReqType, Fetching, Over, Idle, IInv, KeysInv, Served, LastServed
  <1>4. ValueOf(q)
    <2>1. req[r].start <= now /\ req[r].rack \in Racks /\ req[r].start <= req[r].value.devices
      BY <1>1 DEF IInv, FreshInv, ValueOf
    <2>2. /\ q.at = "assembled" /\ q.start = req[r].start /\ q.rack = req[r].rack
          /\ q.value.devices = req[r].value.devices /\ q.value.heights = now /\ ~q.value.full
      BY <1>1 DEF ReqType, Values
    <2> QED
      BY <1>1, <2>1, <2>2 DEF ValueOf, Dated, ReqType, Values
  <1>5. req' = [req EXCEPT ![r] = q] /\ UNCHANGED <<now, realm, jwks, caches>>
    BY DEF TypesFail
  <1> HIDE DEF q
  <1> QED
    BY <1>1, <1>2, <1>3, <1>4, <1>5, OffLock, SameEntries

LEMMA AgainStep == ASSUME IInv, NEW r \in Requests, Again(r) PROVE IInv'
  <1> DEFINE q == Idle
  <1>1. req[r] \in ReqType /\ req[r].at \in Over /\ now \in Nat
    BY DEF IInv, Types, Again, Over
  <1>2. q \in ReqType /\ (q.at \in Fetching <=> req[r].at \in Fetching)
    BY <1>1 DEF ReqType, Values, States, Fetching, Over, Idle, NoValue
  <1>3. KeyOf(q)
    BY <1>1 DEF KeyOf, ReqType, Fetching, Over, Idle, IInv, KeysInv, Served, LastServed
  <1>4. ValueOf(q)
    BY <1>1, TimesAssumption DEF ValueOf, Dated, ReqType, Values, Idle, NoValue, IInv, FreshInv, Over
  <1>5. req' = [req EXCEPT ![r] = q] /\ UNCHANGED <<now, realm, jwks, caches>>
    BY DEF Again
  <1> HIDE DEF q
  <1> QED
    BY <1>1, <1>2, <1>3, <1>4, <1>5, OffLock, SameEntries

LEMMA NoTypesStep == ASSUME IInv, NEW r \in Requests, NoTypes(r) PROVE IInv'
  <1> DEFINE q == [req[r] EXCEPT !.at = "assembled", !.value.full = FALSE,
                                 !.value.heights = req[r].value.devices]
  <1>1. req[r] \in ReqType /\ req[r].at = "types" /\ now \in Nat
    BY DEF IInv, Types, NoTypes
  <1>2. q \in ReqType /\ (q.at \in Fetching <=> req[r].at \in Fetching)
    BY <1>1 DEF ReqType, Values, States, Fetching, Over, Idle, NoValue
  <1>3. KeyOf(q)
    BY <1>1 DEF KeyOf, ReqType, Fetching, Over, Idle, IInv, KeysInv, Served, LastServed
  <1>4. ValueOf(q)
    <2>1. /\ req[r].start <= now /\ req[r].rack \in Racks
          /\ req[r].start <= req[r].value.devices
      BY <1>1 DEF IInv, FreshInv, ValueOf
    <2>2. /\ q.at = "assembled" /\ q.start = req[r].start /\ q.rack = req[r].rack
          /\ q.value.devices = req[r].value.devices
          /\ q.value.heights = req[r].value.devices /\ ~q.value.full
      BY <1>1 DEF ReqType, Values
    <2> QED
      BY <1>1, <2>1, <2>2 DEF ValueOf, Dated, ReqType, Values
  <1>5. req' = [req EXCEPT ![r] = q] /\ UNCHANGED <<now, realm, jwks, caches>>
    BY DEF NoTypes
  <1> HIDE DEF q
  <1> QED
    BY <1>1, <1>2, <1>3, <1>4, <1>5, OffLock, SameEntries

LEMMA LookTypesStep == ASSUME IInv, NEW r \in Requests, LookTypes(r) PROVE IInv'
  <1> DEFINE q == IF Fresh(types, now, TypeTTL)
                  THEN [req[r] EXCEPT !.at = "assembled", !.value.heights = types.value]
                  ELSE [req[r] EXCEPT !.at = "types_fetch", !.since = now]
  <1>1. req[r] \in ReqType /\ req[r].at = "types" /\ now \in Nat
    BY DEF IInv, Types, LookTypes
  <1>2. q \in ReqType /\ (q.at \in Fetching <=> req[r].at \in Fetching)
    BY <1>1 DEF IInv, ReqType, Values, States, Fetching, Over, Fresh, Types, TypesDated
  <1>3. KeyOf(q)
    BY <1>1 DEF KeyOf, ReqType, Fetching, Over, Idle, IInv, KeysInv, Served, LastServed, Fresh, Types, TypesDated
  <1>4. ValueOf(q)
    BY <1>1, TimesAssumption DEF ValueOf, Dated, ReqType, Values, Idle, NoValue, IInv, FreshInv, Over, Fresh, Types, TypesDated
  <1>5. req' = [req EXCEPT ![r] = q] /\ UNCHANGED <<now, realm, jwks, caches>>
    BY DEF LookTypes
  <1> HIDE DEF q
  <1> QED
    BY <1>1, <1>2, <1>3, <1>4, <1>5, OffLock, SameEntries

LEMMA ReadStep == ASSUME IInv, NEW r \in Requests, Read(r) PROVE IInv'
  <1>1. PICK k \in asked : req' = [req EXCEPT ![r] =
           IF Fresh(elevations[k], now, DeviceTTL)
           THEN [Idle EXCEPT !.at = "answered", !.start = now, !.value = elevations[k].value]
           ELSE [Idle EXCEPT !.at = "devices", !.start = now, !.rack = k]]
    BY DEF Read
  <1>2. req[r].at = "accepted" /\ UNCHANGED <<now, realm, jwks, caches>>
    BY DEF Read
  <1>3. k \in Racks /\ now \in Nat
    BY DEF IInv, Types
  <1>4. CASE Fresh(elevations[k], now, DeviceTTL)
    <2> DEFINE q == [Idle EXCEPT !.at = "answered", !.start = now, !.value = elevations[k].value]
    <2>1. /\ elevations[k] \in [value : Values, at : Nat]
          /\ now - elevations[k].at < DeviceTTL
          /\ Dated(elevations[k].value, elevations[k].at)
      BY <1>3, <1>4 DEF Fresh, IInv, Types, FreshInv, EntryDated
    <2>2. q \in ReqType /\ q.at = "answered" /\ q.start = now /\ q.value = elevations[k].value
      BY <1>3, <2>1, IdleTyped DEF ReqType, States, Over
    <2>3. KeyOf(q)
      BY <2>2 DEF KeyOf, Fetching
    <2>4. /\ now - elevations[k].value.devices < DeviceTTL
          /\ now - elevations[k].value.heights
               < DeviceTTL + (IF elevations[k].value.full THEN TypeTTL ELSE 0)
      BY <1>3, <2>1, TimesAssumption DEF Dated, Values
    <2>5. ValueOf(q)
      BY <1>3, <2>2, <2>4 DEF ValueOf
    <2>6. req' = [req EXCEPT ![r] = q]
      BY <1>1, <1>4
    <2> HIDE DEF q
    <2> QED
      BY <1>2, <2>2, <2>3, <2>5, <2>6, OffLock, SameEntries DEF Fetching
  <1>5. CASE ~Fresh(elevations[k], now, DeviceTTL)
    <2> DEFINE q == [Idle EXCEPT !.at = "devices", !.start = now, !.rack = k]
    <2>1. /\ q \in ReqType /\ q.at = "devices" /\ q.start = now /\ q.rack = k
          /\ q.value.full
      BY <1>3, IdleTyped DEF ReqType, States
    <2>2. KeyOf(q) /\ ValueOf(q)
      BY <1>3, <2>1 DEF KeyOf, ValueOf, Fetching
    <2>3. req' = [req EXCEPT ![r] = q]
      BY <1>1, <1>5
    <2> HIDE DEF q
    <2> QED
      BY <1>2, <2>1, <2>2, <2>3, OffLock, SameEntries DEF Fetching
  <1> QED
    BY <1>4, <1>5

LEMMA TypesStoredStep == ASSUME IInv, NEW r \in Requests, TypesStored(r) PROVE IInv'
  <1> DEFINE q == [req[r] EXCEPT !.at = "assembled", !.since = 0]
  <1>1. req[r] \in ReqType /\ req[r].at = "types_served" /\ now \in Nat
    BY DEF IInv, Types, TypesStored
  <1>2. /\ req[r].start <= now /\ req[r].rack \in Racks
        /\ req[r].start <= req[r].value.devices
        /\ req[r].start <= req[r].since /\ req[r].since <= now
        /\ req[r].since <= req[r].value.heights /\ req[r].value.full
    BY <1>1 DEF IInv, FreshInv, ValueOf
  <1>3. /\ q \in ReqType /\ q.at = "assembled" /\ q.start = req[r].start
        /\ q.rack = req[r].rack /\ q.value = req[r].value
    BY <1>1 DEF ReqType, States
  <1>4. KeyOf(q)
    BY <1>3 DEF KeyOf, Fetching
  <1>5. ValueOf(q)
    BY <1>1, <1>2, <1>3, TimesAssumption DEF ValueOf, Dated, ReqType, Values
  <1>6. /\ req' = [req EXCEPT ![r] = q]
        /\ types' = [value |-> req[r].value.heights, at |-> req[r].since]
        /\ UNCHANGED <<now, realm, jwks, elevations>>
    BY DEF TypesStored, Entry
  <1>7. types' \in [value : Nat, at : Nat] \cup {None} /\ TypesDated'
    BY <1>1, <1>2, <1>6 DEF ReqType, Values, TypesDated
  <1>8. /\ elevations' \in [Racks -> [value : Values, at : Nat] \cup {None}]
        /\ \A k \in Racks : EntryDated(k)'
    BY <1>6 DEF IInv, Types, FreshInv, EntryDated, Dated
  <1> HIDE DEF q
  <1> QED
    BY <1>1, <1>3, <1>4, <1>5, <1>6, <1>7, <1>8, OffLock DEF Fetching

LEMMA StoreStep == ASSUME IInv, NEW r \in Requests, Store(r) PROVE IInv'
  <1> DEFINE q == [req[r] EXCEPT !.at = "answered"]
             e == [value |-> req[r].value, at |-> req[r].start]
  <1>1. req[r] \in ReqType /\ req[r].at = "assembled" /\ now \in Nat
    BY DEF IInv, Types, Store
  <1>2. /\ req[r].start <= now /\ req[r].rack \in Racks
        /\ req[r].start <= req[r].value.devices /\ Dated(req[r].value, req[r].start)
    BY <1>1 DEF IInv, FreshInv, ValueOf
  <1>3. q \in ReqType /\ q.at = "answered" /\ q.start = req[r].start /\ q.value = req[r].value
    BY <1>1 DEF ReqType, States, Over
  <1>4. KeyOf(q)
    BY <1>3 DEF KeyOf, Fetching
  <1>5. ValueOf(q)
    BY <1>1, <1>2, <1>3, TimesAssumption DEF ValueOf, Dated, ReqType, Values
  <1>6. req' = [req EXCEPT ![r] = q] /\ UNCHANGED <<now, realm, jwks, types>>
    BY DEF Store
  <1>7. ASSUME NEW k \in Racks
        PROVE  elevations'[k] = e \/ elevations'[k] = None \/ elevations'[k] = elevations[k]
    BY DEF Store, Entry
  <1>8. e \in [value : Values, at : Nat]
    BY <1>1 DEF ReqType
  <1>9. elevations' \in [Racks -> [value : Values, at : Nat] \cup {None}]
    BY <1>2, <1>8 DEF Store, Entry, IInv, Types
  <1>10. ASSUME NEW k \in Racks PROVE EntryDated(k)'
    <2>1. EntryDated(k)
      BY DEF IInv, FreshInv
    <2>2. e.at <= now /\ Dated(e.value, e.at)
      BY <1>2
    <2> QED
      BY <1>6, <1>7, <2>1, <2>2 DEF EntryDated, Dated
  <1>11. types' \in [value : Nat, at : Nat] \cup {None} /\ TypesDated'
    BY <1>6 DEF IInv, Types, FreshInv, TypesDated
  <1> HIDE DEF q
  <1> QED
    BY <1>1, <1>3, <1>4, <1>5, <1>6, <1>9, <1>10, <1>11, OffLock DEF Fetching

-----------------------------------------------------------------------------
(* What was dated by when a key was last served stays so.                   *)
LEMMA ServedLater ==
  ASSUME IInv, NEW k \in Kids, Served(k),
         \/ \E j \in Kids : Publish(j) \/ Withdraw(j)
         \/ Tick
  PROVE  Served(k)' /\ LastServed(k) \in Nat /\ LastServed(k)' \in Nat /\ LastServed(k) <= LastServed(k)'
  <1>1. now \in Nat /\ seenKids \in [Kids -> Nat \cup {None}] /\ RealmDated
    BY DEF IInv, Types, KeysInv
  <1>2. LastServed(k) \in Nat /\ LastServed(k) <= now
    BY <1>1 DEF Served, LastServed, RealmDated
  <1>3. ASSUME NEW j \in Kids, Publish(j)
        PROVE  Served(k)' /\ LastServed(k)' \in Nat /\ LastServed(k) <= LastServed(k)'
    BY <1>1, <1>2, <1>3 DEF Publish, Served, LastServed
  <1>4. ASSUME NEW j \in Kids, Withdraw(j)
        PROVE  Served(k)' /\ LastServed(k)' \in Nat /\ LastServed(k) <= LastServed(k)'
    BY <1>1, <1>2, <1>4, NoneAssumption DEF Withdraw, Served, LastServed
  <1>5. CASE Tick
    BY <1>1, <1>2, <1>5 DEF Tick, realm, Served, LastServed
  <1> QED
    BY <1>2, <1>3, <1>4, <1>5

LEMMA PublishStep == ASSUME IInv, NEW k \in Kids, Publish(k) PROVE IInv'
  <1>1. /\ UNCHANGED <<now, jwks, caches, req, asked>>
        /\ coming' = coming \ {k} /\ published' = published \cup {k}
        /\ seenKids' = [seenKids EXCEPT ![k] = now]
    BY DEF Publish
  <1>2. Types' /\ Locked'
    BY <1>1 DEF IInv, Types, Locked, jwks, caches
  <1>3. RealmDated'
    BY <1>1, NoneAssumption DEF IInv, Types, KeysInv, RealmDated
  <1>4. KeysDated'
    <2>1. ASSUME NEW j \in keys.kids
          PROVE  keys.at # None /\ Served(j)' /\ keys.at - LastServed(j)' <= Latency
      <3>1. /\ j \in Kids /\ Served(j) /\ keys.at \in Nat
            /\ keys.at - LastServed(j) <= Latency
        BY DEF IInv, Types, KeysInv, KeysDated
      <3> QED
        BY <3>1, ServedLater, TimesAssumption DEF IInv, KeysInv, KeysDated
    <2> QED
      BY <1>1, <2>1 DEF KeysDated, jwks, IInv, KeysInv
  <1>5. ASSUME NEW r \in Requests PROVE KeyOf(req[r])'
    <2>1. KeyOf(req[r]) /\ req[r] \in ReqType
      BY DEF IInv, KeysInv, Types
    <2>2. \A j \in Kids : Served(j) => /\ Served(j)' /\ LastServed(j) \in Nat /\ LastServed(j)' \in Nat
                                      /\ LastServed(j) <= LastServed(j)'
      BY ServedLater
    <2>3. req'[r] = req[r] /\ now' = now /\ published \subseteq published'
      BY <1>1
    <2> QED
      BY <2>1, <2>2, <2>3, TimesAssumption DEF KeyOf, ReqType, Fetching
  <1>6. FreshInv'
    BY <1>1 DEF IInv, FreshInv, EntryDated, TypesDated, ValueOf, Dated, caches
  <1> QED
    BY <1>2, <1>3, <1>4, <1>5, <1>6 DEF IInv, KeysInv

LEMMA WithdrawStep == ASSUME IInv, NEW k \in Kids, Withdraw(k) PROVE IInv'
  <1>1. /\ UNCHANGED <<now, jwks, caches, coming, asked>>
        /\ published' = published \ {k} /\ seenKids' = [seenKids EXCEPT ![k] = now]
        /\ req' = [r \in Requests |-> [req[r] EXCEPT !.held = @ /\ req[r].kid # k]]
    BY DEF Withdraw
  <1>2. ASSUME NEW r \in Requests
        PROVE  /\ req[r] \in ReqType /\ req'[r] \in ReqType
               /\ req'[r].at = req[r].at /\ req'[r].kid = req[r].kid
               /\ req'[r].start = req[r].start /\ req'[r].since = req[r].since
               /\ req'[r].got = req[r].got /\ req'[r].rack = req[r].rack
               /\ req'[r].value = req[r].value
               /\ req'[r].held => req[r].held /\ req[r].kid # k
    <2>1. req[r] \in ReqType /\ (req[r].held /\ req[r].kid # k) \in BOOLEAN
      BY DEF IInv, Types
    <2>2. req'[r] = [req[r] EXCEPT !.held = req[r].held /\ req[r].kid # k]
      BY <1>1
    <2> QED
      BY <2>1, <2>2 DEF ReqType
  <1>3. req' \in [Requests -> ReqType]
    BY <1>1, <1>2
  <1>4. Types' /\ Locked'
    BY <1>1, <1>2, <1>3 DEF IInv, Types, Locked, jwks, caches
  <1>5. RealmDated'
    BY <1>1, NoneAssumption DEF IInv, Types, KeysInv, RealmDated
  <1>6. KeysDated'
    <2>1. ASSUME NEW j \in keys.kids
          PROVE  keys.at # None /\ Served(j)' /\ keys.at - LastServed(j)' <= Latency
      <3>1. /\ j \in Kids /\ Served(j) /\ keys.at \in Nat
            /\ keys.at - LastServed(j) <= Latency
        BY DEF IInv, Types, KeysInv, KeysDated
      <3> QED
        BY <3>1, ServedLater, TimesAssumption DEF IInv, KeysInv, KeysDated
    <2> QED
      BY <1>1, <2>1 DEF KeysDated, jwks, IInv, KeysInv
  <1>7. ASSUME NEW r \in Requests PROVE KeyOf(req[r])'
    <2>1. KeyOf(req[r]) /\ req[r] \in ReqType
      BY DEF IInv, KeysInv, Types
    <2>2. \A j \in Kids : Served(j) => /\ Served(j)' /\ LastServed(j) \in Nat /\ LastServed(j)' \in Nat
                                      /\ LastServed(j) <= LastServed(j)'
      BY ServedLater
    <2>3. now' = now /\ \A j \in published : j # k => j \in published'
      BY <1>1
    <2> QED
      BY <1>2, <2>1, <2>2, <2>3, TimesAssumption DEF KeyOf, ReqType, Fetching
  <1>8. ASSUME NEW r \in Requests PROVE ValueOf(req[r])'
    <2>1. ValueOf(req[r])
      BY DEF IInv, FreshInv
    <2> QED
      BY <1>1, <1>2, <2>1 DEF ValueOf, Dated
  <1>9. FreshInv'
    BY <1>1, <1>8 DEF IInv, FreshInv, EntryDated, TypesDated, Dated, caches
  <1> QED
    BY <1>4, <1>5, <1>6, <1>7, <1>9 DEF IInv, KeysInv

LEMMA TickStep == ASSUME IInv, Tick PROVE IInv'
  <1>1. /\ UNCHANGED <<realm, jwks, caches, req>> /\ now' = now + 1 /\ now \in Nat
        /\ \A r \in Requests : req[r].at \in Fetching => now - req[r].since < Latency
    BY DEF Tick, IInv, Types
  <1>2. Types' /\ Locked'
    BY <1>1 DEF IInv, Types, Locked, realm, jwks, caches
  <1>3. RealmDated'
    BY <1>1, NoneAssumption DEF IInv, Types, KeysInv, RealmDated, realm
  <1>4. KeysDated'
    <2>1. ASSUME NEW j \in keys.kids
          PROVE  keys.at # None /\ Served(j)' /\ keys.at - LastServed(j)' <= Latency
      <3>1. /\ j \in Kids /\ Served(j) /\ keys.at \in Nat
            /\ keys.at - LastServed(j) <= Latency
        BY DEF IInv, Types, KeysInv, KeysDated
      <3> QED
        BY <3>1, ServedLater, TimesAssumption DEF IInv, KeysInv, KeysDated
    <2>2. keys.at # None => keys.at <= now'
      BY <1>1 DEF IInv, Types, KeysInv, KeysDated
    <2> QED
      BY <1>1, <2>1, <2>2 DEF KeysDated, jwks
  <1>5. ASSUME NEW r \in Requests PROVE KeyOf(req[r])'
    <2>1. KeyOf(req[r]) /\ req[r] \in ReqType
      BY DEF IInv, KeysInv, Types
    <2>2. \A j \in Kids : Served(j) => /\ Served(j)' /\ LastServed(j) \in Nat /\ LastServed(j)' \in Nat
                                      /\ LastServed(j) <= LastServed(j)'
      BY ServedLater
    <2>3. req' = req /\ published' = published
      BY <1>1 DEF realm
    <2>4. req[r].at \in Fetching => req[r].since <= now' /\ now' - req[r].since <= Latency
      BY <1>1, <2>1, TimesAssumption DEF KeyOf, ReqType
    <2> QED
      BY <2>1, <2>2, <2>3, <2>4, TimesAssumption DEF KeyOf, ReqType, Fetching
  <1>6. FreshInv'
    <2>1. ASSUME NEW r \in Requests PROVE ValueOf(req[r])'
      <3>1. ValueOf(req[r]) /\ req[r] \in ReqType
        BY DEF IInv, FreshInv, Types
      <3> QED
        BY <1>1, <3>1 DEF ValueOf, Dated, ReqType
    <2>2. ASSUME NEW j \in Racks PROVE EntryDated(j)'
      BY <1>1 DEF IInv, Types, FreshInv, EntryDated, Dated, caches
    <2>3. TypesDated'
      BY <1>1 DEF IInv, Types, FreshInv, TypesDated, caches
    <2> QED
      BY <2>1, <2>2, <2>3 DEF FreshInv
  <1> QED
    BY <1>2, <1>3, <1>4, <1>5, <1>6 DEF IInv, KeysInv

LEMMA KeysStoredStep == ASSUME IInv, NEW r \in Requests, KeysStored(r) PROVE IInv'
  <1> DEFINE q == Judged(r, req[r].got)
  <1>1. req[r] \in ReqType /\ req[r].at = "fetched" /\ now \in Nat /\ lock = r
    BY DEF IInv, Types, KeysStored, Locked, Fetching
  <1>2. /\ req' = [req EXCEPT ![r] = q] /\ UNCHANGED <<now, realm, caches>>
        /\ keys' = [kids |-> req[r].got, at |-> now] /\ lock' = None
    BY DEF KeysStored
  <1>3. /\ req[r].since <= now /\ now - req[r].since <= Latency
        /\ req[r].kid \in Kids /\ Served(req[r].kid) /\ (req[r].held => req[r].kid \in req[r].got)
        /\ \A k \in req[r].got : k \in Kids /\ Served(k) /\ req[r].since <= LastServed(k)
    BY <1>1 DEF IInv, KeysInv, KeyOf, Fetching, ReqType
  <1>4. \A k \in req[r].got : LastServed(k) \in Nat /\ now - LastServed(k) <= Latency
    BY <1>1, <1>3, TimesAssumption DEF IInv, Types, KeysInv, RealmDated, Served, LastServed, ReqType
  <1>5. q \in ReqType /\ q.at \in {"accepted", "unknown"} /\ q.kid = req[r].kid
        /\ q.held = req[r].held /\ q.since = now
        /\ (q.at = "accepted" <=> req[r].kid \in req[r].got)
    BY <1>1 DEF Judged, ReqType, States, Over
  <1>6. KeyOf(q)
    BY <1>1, <1>3, <1>4, <1>5, TimesAssumption DEF KeyOf, Fetching
  <1>7. ValueOf(q)
    BY <1>5 DEF ValueOf
  <1> HIDE DEF q
  <1>8. /\ req' \in [Requests -> ReqType]
        /\ RealmDated'
        /\ \A s \in Requests : KeyOf(req[s])' /\ ValueOf(req[s])'
    BY <1>2, <1>5, <1>6, <1>7, OneRequest
  <1>9. Types'
    BY <1>1, <1>2, <1>8 DEF IInv, Types, realm, caches, ReqType
  <1>10. Locked'
    BY <1>1, <1>2, <1>5, NoneAssumption DEF IInv, Types, Locked, Fetching
  <1>11. KeysDated'
    BY <1>1, <1>2, <1>3, <1>4, NoneAssumption DEF KeysDated, Served, LastServed, realm
  <1> QED
    BY <1>2, <1>8, <1>9, <1>10, <1>11, SameEntries DEF IInv, KeysInv, FreshInv

LEMMA KeysFailStep == ASSUME IInv, NEW r \in Requests, KeysFail(r) PROVE IInv'
  <1> DEFINE q == [Idle EXCEPT !.at = "failed"]
  <1>1. req[r].at \in Fetching /\ lock = r
    BY DEF IInv, KeysFail, Locked
  <1>2. req' = [req EXCEPT ![r] = q] /\ lock' = None /\ UNCHANGED <<now, realm, keys, caches>>
    BY DEF KeysFail
  <1>3. q \in ReqType /\ q.at = "failed"
    BY IdleTyped DEF ReqType, States, Over
  <1>4. KeyOf(q) /\ ValueOf(q)
    BY <1>3 DEF KeyOf, ValueOf, Fetching
  <1> HIDE DEF q
  <1>5. /\ req' \in [Requests -> ReqType]
        /\ RealmDated'
        /\ \A s \in Requests : KeyOf(req[s])' /\ ValueOf(req[s])'
    BY <1>2, <1>3, <1>4, OneRequest
  <1>6. Types'
    BY <1>2, <1>5 DEF IInv, Types, realm, caches
  <1>7. Locked'
    BY <1>1, <1>2, <1>3, NoneAssumption DEF IInv, Types, Locked, Fetching
  <1>8. KeysDated'
    BY <1>2 DEF IInv, KeysInv, KeysDated, Served, LastServed, realm
  <1> QED
    BY <1>2, <1>5, <1>6, <1>7, <1>8, SameEntries DEF IInv, KeysInv, FreshInv

-----------------------------------------------------------------------------
LEMMA NextIInv == IInv /\ [Next]_vars => IInv'
  <1> SUFFICES ASSUME IInv, [Next]_vars PROVE IInv'
    OBVIOUS
  <1>1. CASE Next
    BY <1>1, TickStep, PublishStep, WithdrawStep, SendStep, LookupStep, AcquireStep,
       KeysServedStep, KeysStoredStep, KeysFailStep, ReadStep, DevicesServedStep,
       DevicesFailStep, LookTypesStep, NoTypesStep, TypesServedStep, TypesStoredStep,
       TypesFailStep, StoreStep, AgainStep DEF Next
  <1>2. CASE UNCHANGED vars
    BY <1>2 DEF vars, budget, realm, jwks, caches, IInv, Types, Locked, KeysInv, RealmDated,
                KeysDated, KeyOf, Served, LastServed, FreshInv, EntryDated, TypesDated, Dated, ValueOf
  <1> QED
    BY <1>1, <1>2

LEMMA IInvInvariant == Spec => []IInv
  BY InitIInv, NextIInv, PTL DEF Spec

(* A token whose key has been served since its request arrived is never     *)
(* answered "unknown signing key".                                          *)
THEOREM KeysFound == Spec => []KnownKeysFound
  <1>1. IInv => KnownKeysFound
    BY DEF IInv, KeysInv, KeyOf, KnownKeysFound
  <1> QED
    BY <1>1, IInvInvariant, PTL

(* A withdrawn key is accepted for KeyTTL and the time of one fetch at most.*)
THEOREM KeysExpire == Spec => []WithdrawnKeysExpire
  <1>1. IInv => WithdrawnKeysExpire
    BY DEF IInv, KeysInv, KeyOf, WithdrawnKeysExpire
  <1> QED
    BY <1>1, IInvInvariant, PTL

(* Answers are no older than the times to live of the caches they come      *)
(* through allow, in whatever order concurrent fetches finish.              *)
THEOREM AnswersFresh == Spec => []AnswersAreFresh
  <1>1. IInv => AnswersAreFresh
    BY DEF IInv, FreshInv, ValueOf, AnswersAreFresh
  <1> QED
    BY <1>1, IInvInvariant, PTL

-----------------------------------------------------------------------------
(* The budget.  Windows are quotients of the time: the facts about \div and *)
(* % that the seconds left in a window rest on.                             *)
LEMMA DivMod ==
  ASSUME NEW n \in Nat, NEW w \in Nat \ {0}
  PROVE  /\ n \div w \in Nat /\ n % w \in 0..(w - 1)
         /\ n = w * (n \div w) + (n % w)
  <1>1. n % w \in 0..(w - 1)
    OBVIOUS
  <1>2. n \div w \in Nat
    OBVIOUS
  <1>3. \A q, m \in Nat : q = n \div w /\ m = n % w => n = w * q + m
    OBVIOUS
  <1> QED
    BY <1>1, <1>2, <1>3

LEMMA NextMultiple ==
  ASSUME NEW a \in Nat, NEW b \in Nat, NEW w \in Nat \ {0}, a < b
  PROVE  w * a + w <= w * b
  <1>1. PICK d \in Nat : b = a + 1 + d
    <2>1. b - a - 1 \in Nat /\ b = a + 1 + (b - a - 1)
      OBVIOUS
    <2> QED
      BY <2>1
  <1>2. w * b = w * a + w + w * d
    BY <1>1
  <1>3. w * d \in Nat /\ w * a \in Nat /\ w * b \in Nat
    OBVIOUS
  <1> QED
    BY <1>2, <1>3

LEMMA QuotientOrder ==
  ASSUME NEW w \in Nat \ {0}, NEW a \in Nat, NEW b \in Nat,
         NEW x \in 0..(w - 1), NEW y \in 0..(w - 1), w * a + x <= w * b + y
  PROVE  a <= b
  <1> SUFFICES ASSUME b < a PROVE FALSE
    OBVIOUS
  <1>1. w * b + w <= w * a
    BY NextMultiple
  <1>2. w * a \in Nat /\ w * b \in Nat
    OBVIOUS
  <1> QED
    BY <1>1, <1>2

LEMMA WindowsInOrder ==
  ASSUME NEW m \in Nat, NEW n \in Nat, NEW w \in Nat \ {0}, m <= n
  PROVE  m \div w <= n \div w
  BY DivMod, QuotientOrder

(* A time is its window, the whole seconds gone in it and the ticks gone in *)
(* the second: counting whole seconds first finds the same window.          *)
LEMMA SecondsOfWindow ==
  ASSUME NEW n \in Nat, NEW S \in Nat \ {0}, NEW K \in Nat \ {0}
  PROVE  n = (K * S) * (n \div (K * S)) + (S * ((n \div S) % K) + (n % S))
  <1> DEFINE s == n \div S
             a == s \div K
             x == S * (s % K) + (n % S)
             W == K * S
  <1>0. W \in Nat \ {0}
    OBVIOUS
  <1>1. s \in Nat /\ n % S \in 0..(S - 1) /\ n = S * s + (n % S)
    BY DivMod
  <1>2. a \in Nat /\ s % K \in 0..(K - 1) /\ s = K * a + (s % K)
    BY <1>1, DivMod
  <1>3. n = W * a + x
    <2>1. S * (K * a + (s % K)) = S * (K * a) + S * (s % K)
      BY <1>2
    <2>2. S * (K * a) = W * a
      BY <1>2
    <2>3. S * s = S * (K * a + (s % K))
      BY <1>2
    <2>4. x = S * (s % K) + (n % S)
      BY DEF x
    <2>5. S * s \in Nat /\ W * a \in Nat /\ S * (s % K) \in Nat /\ (n % S) \in Nat
      BY <1>0, <1>1, <1>2
    <2> HIDE DEF s, a, x, W
    <2> QED
      BY <1>1, <2>1, <2>2, <2>3, <2>4, <2>5
  <1>4. x \in 0..(W - 1)
    <2>1. S * (s % K) + S <= S * K
      BY <1>2, NextMultiple
    <2>2. S * (s % K) \in Nat /\ S * K = W /\ W \in Nat
      BY <1>2
    <2>3. x = S * (s % K) + (n % S)
      BY DEF x
    <2> HIDE DEF W, x, s
    <2>4. x \in Nat
      BY <2>2, <2>3, <1>1
    <2>5. x < S * (s % K) + S
      BY <2>2, <2>3, <1>1
    <2>6. x < W
      BY <2>1, <2>2, <2>4, <2>5
    <2> QED
      BY <2>2, <2>4, <2>6
  <1>5. n = W * (n \div W) + (n % W) /\ n \div W \in Nat /\ n % W \in 0..(W - 1)
    BY <1>0, DivMod
  <1>6. a = n \div W
    <2> HIDE DEF a, x, W, s
    <2>1. /\ W * a + x <= W * (n \div W) + (n % W)
          /\ W * (n \div W) + (n % W) <= W * a + x
      BY <1>0, <1>2, <1>3, <1>4, <1>5
    <2>2. a <= n \div W /\ n \div W <= a
      BY <2>1, <1>0, <1>2, <1>4, <1>5, QuotientOrder
    <2> QED
      BY <2>2, <1>2, <1>5
  <1> QED
    BY <1>3, <1>6 DEF W, x, s

(* Retry-After of a request refused at t leads into the next window.        *)
Leads(told, t) == told - (At(t) + 1) * Window \in 0..(Second - 1)

LEMMA RetryLeads == ASSUME now \in Nat PROVE Leads(now + RetryAfter * Second, now)
  <1> DEFINE c == (now \div Second) % WindowSeconds
             W == WindowSeconds * Second
             a == now \div W
             x == now % Second
  <1>1. Second \in Nat \ {0} /\ WindowSeconds \in Nat \ {0}
    BY TimesAssumption
  <1>2. now = W * a + (Second * c + x)
    BY <1>1, SecondsOfWindow
  <1>3. /\ x \in 0..(Second - 1) /\ W \in Nat \ {0}
        /\ c \in Nat /\ a \in Nat
    BY <1>1, DivMod
  <1>4. RetryAfter * Second = W - Second * c
    BY <1>1, <1>3 DEF RetryAfter
  <1>5. (a + 1) * W = W * a + W
    BY <1>3
  <1>6. W * a \in Nat /\ Second * c \in Nat
    BY <1>1, <1>3
  <1>7. At(now) = a /\ Window = W
    BY DEF At, Window
  <1> HIDE DEF c, W, a, x
  <1>8. (now + RetryAfter * Second) - (a + 1) * W = x
    BY <1>1, <1>2, <1>3, <1>4, <1>5, <1>6
  <1>9. (At(now) + 1) * Window = (a + 1) * W
    BY <1>7
  <1>10. (now + RetryAfter * Second) - (At(now) + 1) * Window = x
    BY <1>8, <1>9
  <1> QED
    BY <1>3, <1>10 DEF Leads

LEMMA WindowOf ==
  ASSUME NEW t \in Nat, NEW m \in Nat, t <= m
  PROVE  At(t) \in Nat /\ At(t) <= At(m) /\ At(m) \in Nat
  <1>1. Window \in Nat \ {0}
    BY TimesAssumption DEF Window
  <1> HIDE DEF Window
  <1> QED
    BY <1>1, WindowsInOrder, DivMod DEF At

(* What a bucket counts is what was let through in the window; the windows  *)
(* to come are empty; and what was told a refused request.                  *)
RefusedOf(q, u) == q.at = "refused" =>
  /\ q.start <= now /\ Leads(q.told, q.start)
  /\ At(q.start) = At(now) => passed[u] = Limit

BInv ==
  /\ now <= MaxTime
  /\ bucket \in [Users -> [Windows -> 0..Limit]]
  /\ passed \in [Users -> 0..Limit]
  /\ \A u \in Users : passed[u] = bucket[u][At(now)]
  /\ \A u \in Users, w \in Windows : w > At(now) => bucket[u][w] = 0
  /\ \A r \in Requests : RefusedOf(req[r], UserOf[r])

Budget == IInv /\ BInv

LEMMA NowInWindows == ASSUME Types, now <= MaxTime PROVE At(now) \in Windows /\ At(now) \in Nat
  BY WindowOf, TimesAssumption DEF Types, Windows, At

LEMMA InitBudget == Init => BInv
  <1> SUFFICES ASSUME NEW racks \in SUBSET Racks, NEW rotation \in SUBSET Kids,
                      With(racks, rotation)
               PROVE  BInv
    BY DEF Init
  <1>1. /\ now = 0 /\ bucket = [u \in Users |-> [w \in Windows |-> 0]]
        /\ passed = [u \in Users |-> 0] /\ req = [r \in Requests |-> Idle]
    BY DEF With
  <1>2. Limit \in Nat /\ MaxTime \in Nat
    BY TimesAssumption
  <1>3. At(now) \in Windows
    BY <1>1, <1>2, WindowOf DEF Windows, At
  <1> QED
    BY <1>1, <1>2, <1>3 DEF BInv, RefusedOf, Idle

LEMMA BudgetSend == ASSUME Budget, NEW r \in Requests, Send(r) PROVE BInv'
  <1> DEFINE u == UserOf[r]
             w == At(now)
             b == IF bucket[u][w] = 0 THEN Evicted(bucket, w) ELSE bucket
  <1>1. u \in Users /\ Types /\ req[r].at = "idle" /\ UNCHANGED <<now, realm, jwks, caches>>
    BY UsersAssumption DEF Budget, IInv, Send
  <1>2. w \in Windows /\ w \in Nat
    BY <1>1, NowInWindows DEF Budget, BInv
  <1>3. /\ b \in [Users -> [Windows -> 0..Limit]]
        /\ \A x \in Users : b[x][w] = bucket[x][w] /\ passed[x] = b[x][w] /\ passed[x] \in 0..Limit
        /\ \A x \in Users, v \in Windows : v > w => b[x][v] = 0
    BY <1>2, TimesAssumption DEF Budget, BInv, Evicted, Windows
  <1>4. CASE b[u][w] >= Limit
    <2>1. req' = [req EXCEPT ![r].at = "refused", ![r].start = now,
                             ![r].told = now + RetryAfter * Second]
          /\ bucket' = b /\ passed' = passed
      BY <1>4 DEF Send
    <2>2. passed[u] = Limit
      <3>1. passed[u] = b[u][w] /\ passed[u] \in 0..Limit /\ b[u][w] >= Limit
        BY <1>1, <1>3, <1>4
      <3> HIDE DEF b
      <3> QED
        BY <3>1, TimesAssumption
    <2>3. ASSUME NEW s \in Requests PROVE RefusedOf(req[s], UserOf[s])'
      <3>1. CASE s = r
        <4> DEFINE told == now + RetryAfter * Second
        <4>1. Leads(told, now)
          BY <1>1, RetryLeads DEF Types
        <4>2. req[r] \in ReqType /\ now \in Nat
          BY <1>1 DEF Types
        <4>3. req'[r] = [req[r] EXCEPT !.at = "refused", !.start = now, !.told = told]
          BY <1>1, <2>1 DEF Types
        <4> HIDE DEF told
        <4>4. req'[r].start = now /\ req'[r].told = told
          BY <4>2, <4>3 DEF ReqType
        <4>5. Leads(req'[r].told, req'[r].start)
          BY <4>1, <4>4
        <4> QED
          BY <1>1, <2>1, <2>2, <3>1, <4>2, <4>4, <4>5 DEF RefusedOf, Leads, At
      <3>2. CASE s # r
        <4>1. req'[s] = req[s] /\ RefusedOf(req[s], UserOf[s])
          BY <1>1, <2>1, <3>2 DEF Types, Budget, BInv
        <4> QED
          BY <1>1, <2>1, <4>1 DEF RefusedOf, Leads, At
      <3> QED
        BY <3>1, <3>2
    <2> QED
      BY <1>1, <1>2, <1>3, <2>1, <2>3 DEF Budget, BInv, At
  <1>5. CASE ~(b[u][w] >= Limit)
    <2>1. PICK k \in Kids : req' = [req EXCEPT ![r].at = "key", ![r].kid = k, ![r].held = k \in published]
      BY <1>5 DEF Send
    <2>2. bucket' = [b EXCEPT ![u][w] = @ + 1] /\ passed' = [passed EXCEPT ![u] = @ + 1]
      BY <1>5 DEF Send
    <2>3. b[u][w] \in 0..Limit /\ b[u][w] + 1 \in 0..Limit /\ passed[u] = b[u][w]
      BY <1>1, <1>2, <1>3, <1>5, TimesAssumption
    <2>4. /\ bucket' \in [Users -> [Windows -> 0..Limit]]
          /\ passed' \in [Users -> 0..Limit]
      BY <1>1, <1>2, <1>3, <2>2, <2>3 DEF Budget, BInv
    <2>5. \A x \in Users : passed'[x] = bucket'[x][w]
      BY <1>1, <1>2, <1>3, <2>2, <2>3 DEF Budget, BInv
    <2>6. \A x \in Users, v \in Windows : v > w => bucket'[x][v] = 0
      BY <1>1, <1>2, <1>3, <2>2 DEF Windows
    <2>7. ASSUME NEW s \in Requests PROVE RefusedOf(req[s], UserOf[s])'
      <3>1. CASE s = r
        <4>1. req'[r].at = "key"
          BY <1>1, <2>1 DEF Types, ReqType
        <4> QED
          BY <3>1, <4>1 DEF RefusedOf
      <3>2. CASE s # r
        <4>1. req'[s] = req[s] /\ RefusedOf(req[s], UserOf[s])
          BY <1>1, <2>1, <3>2 DEF Types, Budget, BInv
        <4>2. UserOf[s] = u => passed[u] # Limit
          BY <1>5, <2>3, TimesAssumption
        <4>3. UserOf[s] # u => passed'[UserOf[s]] = passed[UserOf[s]]
          BY <2>2, UsersAssumption DEF Budget, BInv
        <4> QED
          BY <1>1, <4>1, <4>2, <4>3 DEF RefusedOf, Leads, At
      <3> QED
        BY <3>1, <3>2
    <2> QED
      BY <1>1, <2>4, <2>5, <2>6, <2>7 DEF Budget, BInv, At
  <1> QED
    BY <1>4, <1>5

LEMMA BudgetTick == ASSUME Budget, Tick PROVE BInv'
  <1>1. /\ now' = now + 1 /\ now \in Nat /\ now < MaxTime /\ UNCHANGED <<bucket, req>>
        /\ passed' = [u \in Users |-> IF At(now + 1) = At(now) THEN passed[u] ELSE 0]
    BY DEF Tick, Budget, IInv, Types
  <1>2. /\ At(now) \in Nat /\ At(now + 1) \in Nat /\ At(now) <= At(now + 1)
        /\ At(now + 1) \in Windows
    BY <1>1, WindowOf, TimesAssumption DEF Windows, At
  <1>3. At(now)' = At(now + 1)
    BY <1>1 DEF At
  <1>4. /\ passed' \in [Users -> 0..Limit]
        /\ \A u \in Users : passed'[u] = bucket[u][At(now + 1)]
    BY <1>1, <1>2, TimesAssumption DEF Budget, BInv
  <1>5. \A u \in Users, w \in Windows : w > At(now + 1) => bucket[u][w] = 0
    BY <1>2 DEF Budget, BInv, Windows
  <1>6. ASSUME NEW r \in Requests PROVE RefusedOf(req[r], UserOf[r])'
    <2>1. RefusedOf(req[r], UserOf[r]) /\ req[r] \in ReqType /\ UserOf[r] \in Users
      BY UsersAssumption DEF Budget, BInv, IInv, Types
    <2>2. ASSUME req[r].at = "refused" PROVE At(req[r].start) \in Nat /\ At(req[r].start) <= At(now)
      BY <1>1, <2>1, <2>2, WindowOf DEF RefusedOf, ReqType
    <2>3. ASSUME req[r].at = "refused", At(req[r].start) = At(now + 1)
          PROVE  passed'[UserOf[r]] = Limit
      BY <1>1, <1>2, <2>1, <2>2, <2>3 DEF RefusedOf
    <2>4. req[r].at = "refused" => req[r].start <= now'
      BY <1>1, <2>1 DEF RefusedOf, ReqType
    <2> QED
      BY <1>1, <1>3, <2>1, <2>3, <2>4 DEF RefusedOf, Leads, At
  <1>7. /\ now' <= MaxTime /\ bucket' \in [Users -> [Windows -> 0..Limit]]
        /\ \A u \in Users : passed'[u] = bucket'[u][At(now')]
        /\ \A u \in Users, w \in Windows : w > At(now') => bucket'[u][w] = 0
    BY <1>1, <1>4, <1>5, TimesAssumption DEF Budget, BInv
  <1> QED
    BY <1>4, <1>6, <1>7 DEF BInv

(* Everything else leaves the budget alone and refuses nobody.              *)
LEMMA BudgetKept ==
  ASSUME Budget, UNCHANGED <<now, bucket, passed>>,
         \A r \in Requests : \/ req'[r].at # "refused"
                            \/ /\ req'[r].at = req[r].at
                               /\ req'[r].start = req[r].start /\ req'[r].told = req[r].told
  PROVE  BInv'
  <1>1. ASSUME NEW r \in Requests PROVE RefusedOf(req[r], UserOf[r])'
    <2>1. RefusedOf(req[r], UserOf[r])
      BY DEF Budget, BInv
    <2> QED
      BY <2>1 DEF RefusedOf, Leads, At
  <1> QED
    BY <1>1 DEF Budget, BInv, At

LEMMA BudgetNext == Budget /\ [Next]_vars => BInv'
  <1> SUFFICES ASSUME Budget, [Next]_vars PROVE BInv'
    OBVIOUS
  <1>0. req \in [Requests -> ReqType]
    BY DEF Budget, IInv, Types
  <1>1. CASE UNCHANGED vars
    BY <1>1, BudgetKept DEF vars, budget
  <1>2. CASE Tick
    BY <1>2, BudgetTick
  <1>3. ASSUME NEW k \in Kids, Publish(k) PROVE BInv'
    BY <1>3, BudgetKept DEF Publish, budget
  <1>4. ASSUME NEW k \in Kids, Withdraw(k) PROVE BInv'
    <2>1. \A r \in Requests : /\ req'[r].at = req[r].at /\ req'[r].start = req[r].start
                             /\ req'[r].told = req[r].told
      BY <1>0, <1>4 DEF Withdraw, ReqType
    <2> QED
      BY <1>4, <2>1, BudgetKept DEF Withdraw, budget
  <1>5. ASSUME NEW r \in Requests, Next, ~Send(r),
               \/ Lookup(r) \/ Acquire(r) \/ KeysServed(r) \/ KeysStored(r) \/ KeysFail(r)
               \/ Read(r) \/ DevicesServed(r) \/ DevicesFail(r)
               \/ LookTypes(r) \/ NoTypes(r) \/ TypesServed(r) \/ TypesStored(r)
               \/ TypesFail(r) \/ Store(r) \/ Again(r)
        PROVE  BInv'
    <2>1. UNCHANGED <<now, bucket, passed>>
      BY <1>5 DEF Lookup, Acquire, KeysServed, KeysStored, KeysFail, Read, DevicesServed,
                  DevicesFail, LookTypes, NoTypes, TypesServed, TypesStored, TypesFail,
                  Store, Again, budget
    <2>2. /\ \A s \in Requests \ {r} : req'[s] = req[s]
          /\ req'[r].at # "refused"
      <3>1. CASE Lookup(r)
        BY <1>0, <3>1 DEF Lookup, ReqType, Judged
      <3>2. CASE Acquire(r)
        BY <1>0, <3>2 DEF Acquire, ReqType, Judged
      <3>3. CASE KeysServed(r)
        BY <1>0, <3>3 DEF KeysServed, ReqType
      <3>4. CASE KeysStored(r)
        BY <1>0, <3>4 DEF KeysStored, ReqType, Judged
      <3>5. CASE KeysFail(r)
        BY <1>0, <3>5 DEF KeysFail, ReqType, Idle
      <3>6. CASE Read(r)
        BY <1>0, <3>6 DEF Read, ReqType, Idle
      <3>7. CASE DevicesServed(r)
        BY <1>0, <3>7 DEF DevicesServed, ReqType
      <3>8. CASE DevicesFail(r)
        BY <1>0, <3>8 DEF DevicesFail, ReqType, Idle
      <3>9. CASE LookTypes(r)
        BY <1>0, <3>9 DEF LookTypes, ReqType
      <3>10. CASE TypesServed(r)
        BY <1>0, <3>10 DEF TypesServed, ReqType
      <3>11. CASE TypesStored(r)
        BY <1>0, <3>11 DEF TypesStored, ReqType
      <3>12. CASE TypesFail(r)
        BY <1>0, <3>12 DEF TypesFail, ReqType
      <3>13. CASE Store(r)
        BY <1>0, <3>13 DEF Store, ReqType
      <3>14. CASE Again(r)
        BY <1>0, <3>14 DEF Again, ReqType, Idle
      <3>15. CASE NoTypes(r)
        BY <1>0, <3>15 DEF NoTypes, ReqType
      <3> QED
        BY <1>5, <3>1, <3>2, <3>3, <3>4, <3>5, <3>6, <3>7, <3>8, <3>9, <3>10, <3>11, <3>12,
           <3>13, <3>14, <3>15
    <2> QED
      BY <2>1, <2>2, BudgetKept
  <1> QED
    BY <1>1, <1>2, <1>3, <1>4, <1>5, BudgetSend DEF Next

LEMMA BudgetInvariant == Spec => []Budget
  BY InitIInv, InitBudget, NextIInv, BudgetNext, PTL DEF Spec, Budget

(* A window's budget is never exceeded, and what a refused request is told  *)
(* is true.                                                                 *)
THEOREM BudgetHolds == Spec => []BudgetPerWindow
  <1>1. Budget => BudgetPerWindow
    BY TimesAssumption, UsersAssumption DEF Budget, BInv, RefusedOf, Leads, BudgetPerWindow
  <1> QED
    BY <1>1, BudgetInvariant, PTL

(* The types, with the lock held exactly by the request that fetches.       *)
THEOREM TypesKept == Spec => []TypeOK
  <1>1. Budget => TypeOK
    <2> SUFFICES ASSUME Budget PROVE TypeOK
      OBVIOUS
    <2>1. /\ lock \in Requests \cup {None} /\ keys.kids \subseteq Kids
          /\ \A r \in Requests : (lock = r) <=> (req[r].at \in Fetching)
      BY DEF Budget, IInv, Types, Locked
    <2>2. \A u \in Users, w \in Windows : bucket[u][w] \in 0..Limit
      BY DEF Budget, BInv
    <2>3. /\ \A k \in Racks : elevations[k] # None => elevations[k].at \in 0..now
          /\ types # None => types.at \in 0..now
      BY DEF Budget, IInv, Types, FreshInv, EntryDated, TypesDated
    <2> QED
      BY <2>1, <2>2, <2>3 DEF TypeOK
  <1> QED
    BY <1>1, BudgetInvariant, PTL
=============================================================================
