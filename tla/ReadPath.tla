------------------------------ MODULE ReadPath ------------------------------
(* The way of a read through one process: the user's fixed-window budget    *)
(* (middleware/rate_limit.py), the signing key of the token, looked up in   *)
(* the JWKS cache (auth/jwks.py, auth/dependencies.py), and the elevation of*)
(* a rack (services/rack_elevation.py) through two TTL caches               *)
(* (services/cache.py): the elevations and, inside an elevation's fetch, the*)
(* device types that supply the heights (services/meta.py).  The device     *)
(* search goes the same way (api/v1/devices.py).                            *)
(*                                                                          *)
(* Time is counted in ticks, several to a second, because the budget works  *)
(* in whole seconds.  What NetBox serves is known by the time it was served:*)
(* how old an answer is, is all that the caches decide.                     *)
EXTENDS Integers, FiniteSets

CONSTANTS Requests,      \* requests under way at once; each may be sent again
          Users, UserOf, \* the user whose token a request carries
          Kids,          \* signing keys of the realm
          None,
          Second,        \* ticks per second
          WindowSeconds, \* _WINDOW_SECONDS
          Limit,         \* requests of one user per window
          KeyTTL,        \* ticks the fetched keys are used (jwks_cache_ttl_seconds)
          Latency,       \* ticks a key fetch may take
          Racks,
          DeviceTTL,     \* ticks an elevation is kept (_ELEVATION_TTL_SECONDS)
          TypeTTL,       \* ticks the device types are kept (5 minutes)
          MaxTime        \* the horizon of the model

ASSUME TimesAssumption ==
    /\ {Second, WindowSeconds, Limit, KeyTTL, Latency, DeviceTTL, TypeTTL} \subseteq Nat \ {0}
    /\ MaxTime \in Nat
ASSUME UsersAssumption == UserOf \in [Requests -> Users]
ASSUME NoneAssumption == None \notin Requests \cup Int

VARIABLES now,
          bucket,     \* _buckets: what a user consumed in a window (no entry: 0)
          passed,     \* what the budget let through in this window, by user
          published,  \* the keys Keycloak serves
          seenKids,   \* the keys it ever served, and when it last did
          coming,     \* the keys it will serve some day
          asked,      \* the racks somebody will ask for
          keys,       \* the cached keys, and when they were stored
          lock,       \* the holder of the cache's lock
          elevations, \* get_elevation_cache(): an entry per rack
          types,      \* get_meta_cache(), the entry of the device types
          req         \* each request
budget == <<bucket, passed>>
realm == <<published, seenKids, coming, asked>>
jwks == <<keys, lock>>
caches == <<elevations, types>>
vars == <<now, budget, realm, jwks, caches, req>>

Window == WindowSeconds * Second
Windows == 0..(MaxTime \div Window)
At(t) == t \div Window

(* What a read returns: the devices by the time NetBox served them; the     *)
(* heights by the time the device types were served, or, not full, by the   *)
(* time their lookup raised and the inline ones were taken, or with the     *)
(* devices when none of these names a type.                                 *)
NoValue == [devices |-> 0, heights |-> 0, full |-> TRUE]

Idle == [at |-> "idle", kid |-> None, start |-> 0, since |-> 0, held |-> FALSE,
         got |-> {}, told |-> 0, rack |-> None, value |-> NoValue]

With(racks, rotation) ==
    /\ now = 0
    /\ bucket = [u \in Users |-> [w \in Windows |-> 0]]
    /\ passed = [u \in Users |-> 0]
    /\ \E k \in Kids : /\ published = {k}
                       /\ seenKids = [j \in Kids |-> IF j = k THEN 0 ELSE None]
                       /\ coming = rotation \ {k}
    /\ asked = racks
    /\ keys = [kids |-> {}, at |-> None]
    /\ lock = None
    /\ elevations = [k \in Racks |-> None]
    /\ types = None
    /\ req = [r \in Requests |-> Idle]

Init == \E racks \in SUBSET Racks, rotation \in SUBSET Kids : With(racks, rotation)

-----------------------------------------------------------------------------
(* Keycloak: its keys are rotated.  A fetch takes at most Latency, which is *)
(* assumed: _HTTP_TIMEOUT_SECONDS bounds each phase of the exchange and     *)
(* each read of the answer, not their sum.                                  *)

LastServed(k) == IF k \in published THEN now ELSE seenKids[k]

Publish(k) ==
    /\ k \in coming
    /\ coming' = coming \ {k}
    /\ published' = published \cup {k}
    /\ seenKids' = [seenKids EXCEPT ![k] = now]
    /\ UNCHANGED <<now, budget, jwks, caches, req, asked>>

Withdraw(k) ==
    /\ k \in published /\ published # {k}
    /\ published' = published \ {k}
    /\ seenKids' = [seenKids EXCEPT ![k] = now]
    /\ req' = [r \in Requests |-> [req[r] EXCEPT !.held = @ /\ req[r].kid # k]]
    /\ UNCHANGED <<now, budget, jwks, caches, coming, asked>>

Fetching == {"fetching", "fetched"}
Tick == /\ now < MaxTime
        /\ \A r \in Requests : req[r].at \in Fetching => now - req[r].since < Latency
        /\ now' = now + 1
        /\ passed' = [u \in Users |-> IF At(now + 1) = At(now) THEN passed[u] ELSE 0]
        /\ UNCHANGED <<bucket, realm, jwks, caches, req>>

-----------------------------------------------------------------------------
(* The budget.                                                              *)

(* _seconds_until_next_window, on the whole seconds of the time.            *)
RetryAfter == WindowSeconds - ((now \div Second) % WindowSeconds)

\* Mutant of Evicted: the sweep takes the other users' current window too.
EvictedCurrent(b, w) == [u \in Users |-> [v \in Windows |-> IF v <= w THEN 0 ELSE b[u][v]]]

(* _evict_stale_windows                                                     *)
Evicted(b, w) == [u \in Users |-> [v \in Windows |-> IF v < w THEN 0 ELSE b[u][v]]]

(* rate_limit_middleware and _consume: one step, nothing is awaited in it.  *)
(* The token carries a key Keycloak served at some time.                    *)
Send(r) ==
    LET u == UserOf[r]
        w == At(now)
        b == IF bucket[u][w] = 0 THEN Evicted(bucket, w) ELSE bucket
    IN  /\ req[r].at = "idle"
        /\ \E k \in {j \in Kids : seenKids[j] # None} :
             IF b[u][w] >= Limit
             THEN /\ req' = [req EXCEPT ![r].at = "refused", ![r].start = now,
                                        ![r].told = now + RetryAfter * Second]
                  /\ bucket' = b
                  /\ UNCHANGED passed
             ELSE /\ req' = [req EXCEPT ![r].at = "key", ![r].kid = k, ![r].held = k \in published]
                  /\ bucket' = [b EXCEPT ![u][w] = @ + 1]
                  /\ passed' = [passed EXCEPT ![u] = @ + 1]
        /\ UNCHANGED <<now, realm, jwks, caches>>

-----------------------------------------------------------------------------
(* JWKSCache.get_key                                                        *)

\* Mutant of HasKid: only the age counts.
HasAny(k) == keys.at # None /\ now - keys.at < KeyTTL

\* Mutant of HasKid: a key is good for as long as the process runs.
HasEver(k) == k \in keys.kids

(* _has_kid_unexpired                                                       *)
HasKid(k) == keys.at # None /\ now - keys.at < KeyTTL /\ k \in keys.kids

(* What becomes of r: accepted with its key among kids, or not known.       *)
Judged(r, kids) == [req[r] EXCEPT !.at = IF req[r].kid \in kids THEN "accepted" ELSE "unknown",
                                  !.got = {}, !.since = now]

Lookup(r) ==
    /\ req[r].at = "key"
    /\ req' = [req EXCEPT ![r] = IF HasKid(req[r].kid) THEN Judged(r, keys.kids)
                                 ELSE [@ EXCEPT !.at = "waiting"]]
    /\ UNCHANGED <<now, budget, realm, jwks, caches>>

(* async with self._lock: the cache is looked at again first.               *)
Acquire(r) ==
    /\ req[r].at = "waiting" /\ lock = None
    /\ IF HasKid(req[r].kid)
       THEN /\ req' = [req EXCEPT ![r] = Judged(r, keys.kids)]
            /\ UNCHANGED lock
       ELSE /\ req' = [req EXCEPT ![r].at = "fetching", ![r].since = now]
            /\ lock' = r
    /\ UNCHANGED <<now, budget, realm, keys, caches>>

(* Keycloak answers; the answer is stored, with the time of its arrival.    *)
KeysServed(r) ==
    /\ req[r].at = "fetching"
    /\ req' = [req EXCEPT ![r].at = "fetched", ![r].got = published]
    /\ UNCHANGED <<now, budget, realm, jwks, caches>>

KeysStored(r) ==
    /\ req[r].at = "fetched"
    /\ keys' = [kids |-> req[r].got, at |-> now]
    /\ lock' = None
    /\ req' = [req EXCEPT ![r] = Judged(r, req[r].got)]
    /\ UNCHANGED <<now, budget, realm, caches>>

\* Mutant of KeysFail: the lock is not released on the way of an exception.
KeysFailLocked(r) ==
    /\ req[r].at \in Fetching
    /\ req' = [req EXCEPT ![r] = [Idle EXCEPT !.at = "failed"]]
    /\ UNCHANGED <<now, budget, realm, jwks, caches>>

(* The fetch raises: the lock is released, the cached keys stay.            *)
KeysFail(r) ==
    /\ req[r].at \in Fetching
    /\ lock' = None
    /\ req' = [req EXCEPT ![r] = [Idle EXCEPT !.at = "failed"]]
    /\ UNCHANGED <<now, budget, realm, keys, caches>>

-----------------------------------------------------------------------------
(* TTLCache.get_or_fetch: the clock is read before the lookup, and this time*)
(* stamps what the fetch brings.  There is no lock.                         *)

Entry(value, t) == [value |-> value, at |-> t]
Fresh(entry, t, ttl) == entry # None /\ t - entry.at < ttl

(* RackElevationService.get_elevation                                       *)
Read(r) ==
    /\ req[r].at = "accepted"
    /\ \E k \in asked :
         req' = [req EXCEPT ![r] =
           IF Fresh(elevations[k], now, DeviceTTL)
           THEN [Idle EXCEPT !.at = "answered", !.start = now,
                             !.value = elevations[k].value]
           ELSE [Idle EXCEPT !.at = "devices", !.start = now, !.rack = k]]
    /\ UNCHANGED <<now, budget, realm, jwks, caches>>

(* _fetch_elevation: the devices of the rack, or an error that ends the     *)
(* request and is not cached.                                               *)
DevicesServed(r) ==
    /\ req[r].at = "devices"
    /\ req' = [req EXCEPT ![r].at = "types", ![r].value.devices = now]
    /\ UNCHANGED <<now, budget, realm, jwks, caches>>

DevicesFail(r) ==
    /\ req[r].at = "devices"
    /\ req' = [req EXCEPT ![r] = [Idle EXCEPT !.at = "failed"]]
    /\ UNCHANGED <<now, budget, realm, jwks, caches>>

(* _u_height_by_device_type: the device types through their own cache.      *)
LookTypes(r) ==
    /\ req[r].at = "types"
    /\ req' = [req EXCEPT ![r] =
         IF Fresh(types, now, TypeTTL)
         THEN [@ EXCEPT !.at = "assembled", !.value.heights = types.value]
         ELSE [@ EXCEPT !.at = "types_fetch", !.since = now]]
    /\ UNCHANGED <<now, budget, realm, jwks, caches>>

(* No device names a type: what heights there are came with the devices.    *)
NoTypes(r) ==
    /\ req[r].at = "types"
    /\ req' = [req EXCEPT ![r].at = "assembled", ![r].value.full = FALSE,
                          ![r].value.heights = req[r].value.devices]
    /\ UNCHANGED <<now, budget, realm, jwks, caches>>

TypesServed(r) ==
    /\ req[r].at = "types_fetch"
    /\ req' = [req EXCEPT ![r].at = "types_served", ![r].value.heights = now]
    /\ UNCHANGED <<now, budget, realm, jwks, caches>>

\* Mutant of TypesStored: stamped when the answer is there.
TypesStoredLate(r) ==
    /\ req[r].at = "types_served"
    /\ types' = Entry(req[r].value.heights, now)
    /\ req' = [req EXCEPT ![r].at = "assembled", ![r].since = 0]
    /\ UNCHANGED <<now, budget, realm, jwks, elevations>>

TypesStored(r) ==
    /\ req[r].at = "types_served"
    /\ types' = Entry(req[r].value.heights, req[r].since)
    /\ req' = [req EXCEPT ![r].at = "assembled", ![r].since = 0]
    /\ UNCHANGED <<now, budget, realm, jwks, elevations>>

(* The lookup raises: the read goes on with the inline heights.             *)
TypesFail(r) ==
    /\ req[r].at \in {"types_fetch", "types_served"}
    /\ req' = [req EXCEPT ![r].at = "assembled", ![r].value.heights = now,
                          ![r].value.full = FALSE,
                          ![r].since = 0]
    /\ UNCHANGED <<now, budget, realm, jwks, caches>>

(* _evict_expired, by the time before the fetch; then the entry.            *)
Store(r) ==
    /\ req[r].at = "assembled"
    /\ elevations' = [[k \in Racks |-> IF Fresh(elevations[k], req[r].start, DeviceTTL)
                                       THEN elevations[k] ELSE None]
                       EXCEPT ![req[r].rack] = Entry(req[r].value, req[r].start)]
    /\ req' = [req EXCEPT ![r].at = "answered"]
    /\ UNCHANGED <<now, budget, realm, jwks, types>>

(* The client has its answer (an accepted request may have been for anything*)
(* else) and may send another request.                                      *)
Over == {"refused", "unknown", "failed", "accepted", "answered"}
Again(r) == /\ req[r].at \in Over
            /\ req' = [req EXCEPT ![r] = Idle]
            /\ UNCHANGED <<now, budget, realm, jwks, caches>>

Next == \/ Tick
        \/ \E k \in Kids : Publish(k) \/ Withdraw(k)
        \/ \E r \in Requests :
             \/ Send(r) \/ Lookup(r) \/ Acquire(r)
             \/ KeysServed(r) \/ KeysStored(r) \/ KeysFail(r)
             \/ Read(r) \/ DevicesServed(r) \/ DevicesFail(r)
             \/ LookTypes(r) \/ NoTypes(r) \/ TypesServed(r) \/ TypesStored(r)
             \/ TypesFail(r) \/ Store(r) \/ Again(r)

Spec == Init /\ [][Next]_vars

-----------------------------------------------------------------------------
(* Requests, caches and the lock have the values the code gives them.       *)
TypeOK ==
    /\ lock \in Requests \cup {None}
    /\ \A r \in Requests : (lock = r) <=> (req[r].at \in Fetching)
    /\ keys.kids \subseteq Kids
    /\ \A u \in Users, w \in Windows : bucket[u][w] \in 0..Limit
    /\ \A k \in Racks : elevations[k] # None => elevations[k].at \in 0..now
    /\ types # None => types.at \in 0..now

(* The budget of a window is never exceeded, whoever else starts a window   *)
(* and sweeps the table; a request is refused only when its user's budget of*)
(* that window is spent, and Retry-After leads into the next window, by less*)
(* than a second more than needed (rate_limit.py 132-166).                  *)
BudgetPerWindow ==
    /\ \A u \in Users : passed[u] <= Limit
    /\ \A r \in Requests : req[r].at = "refused" =>
         /\ At(req[r].start) = At(now) => passed[UserOf[r]] = Limit
         /\ req[r].told - (At(req[r].start) + 1) * Window \in 0..(Second - 1)

(* A token whose key Keycloak has served ever since the request arrived is  *)
(* not answered "unknown signing key", whatever the cache held before, and  *)
(* however many requests fetch at once (jwks.py 41-56).                     *)
KnownKeysFound == \A r \in Requests : req[r].at = "unknown" => ~req[r].held

(* A key that Keycloak has withdrawn is accepted for KeyTTL and the time of *)
(* one fetch, and no longer (jwks.py 69-93), as long as a fetch may be.     *)
WithdrawnKeysExpire ==
    \A r \in Requests : req[r].at = "accepted" =>
        req[r].since - LastServed(req[r].kid) < KeyTTL + Latency

(* How old an answer may be, in whatever order two fetches finish and       *)
(* overwrite one another: the devices were served less than DeviceTTL before*)
(* the lookup; the heights less than TypeTTL before that, because an        *)
(* elevation is kept with heights that were kept already; an elevation      *)
(* without full heights is served only for DeviceTTL after the lookup of the*)
(* types raised or was not needed (cache.py 41-68, rack_elevation.py        *)
(* 127-163).                                                                *)
AnswersAreFresh ==
    \A r \in Requests : req[r].at = "answered" =>
        LET v == req[r].value
        IN  /\ req[r].start - v.devices < DeviceTTL
            /\ req[r].start - v.heights < DeviceTTL + (IF v.full THEN TypeTTL ELSE 0)
=============================================================================
