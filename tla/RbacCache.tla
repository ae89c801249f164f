----------------------------- MODULE RbacCache -----------------------------
(***************************************************************************)
(* The permission cache of rbac.service.ts: getAccess, loadAccess, store,  *)
(* invalidateUser and invalidateAll in one Node process.                   *)
(*                                                                         *)
(* A check of a permission is answered from the cache, joins the load of   *)
(* its user that is under way, or starts one.  A load is a promise: the    *)
(* generation is read, the query runs, `.then' may fill the cache and      *)
(* `.finally' takes the load out of `loading'; other callbacks run between *)
(* these.  A load is named after the check that started it.                *)
(*                                                                         *)
(* A user here is a key of the cache, a user in an organization.  History  *)
(* variables: invalidated (what a user's roles were when they were last    *)
(* invalidated) and epoch (how often that was).                            *)
(***************************************************************************)
EXTENDS Integers, SequencesExt

CONSTANTS
    CacheUsers,         \* the keys of the cache
    Checks,             \* the permission checks of a behaviour, numbered as they are made
    MaxCached,          \* MAX_CACHED_USERS
    MaxChanges,         \* bound: changes to the roles of a user
    MaxInvalidations,   \* bound: calls of invalidateUser and invalidateAll
    NoLoad,             \* no load of the user is registered
    NoAccess,           \* the user is not cached
    NoUser              \* the user of a check not yet made

ASSUME MaxCachedAssumption == MaxCached \in Nat \ {0}
ASSUME ChecksAssumption == Checks \subseteq Nat
ASSUME NoLoadAssumption == NoLoad \notin Checks /\ NoUser \notin CacheUsers
ASSUME NoAccessAssumption == NoAccess \notin [version : Nat, fresh : BOOLEAN]

VARIABLES
    granted,        \* per user: a version of its roles in the database, and whether it has any
    accessCache,    \* per user: the cached Access
    cacheOrder,     \* the cached users, the first inserted first
    loading,        \* per user: the load registered for it
    accessLoad,     \* per check: the load it started
    check,          \* per check: its user, the load it awaits, its answer
    generation,     \* RbacService.generation
    invalidated,    \* per user: the version of its roles when last invalidated
    epoch           \* per user: how often it was invalidated

rbacVars == << granted, accessCache, cacheOrder, loading, accessLoad, check,
               generation, invalidated, epoch >>

Grant == [version : Nat, active : BOOLEAN]
Access == [version : Nat, fresh : BOOLEAN]
Load == [phase : {"none", "querying", "loaded", "settling"}, user : CacheUsers \cup {NoUser},
         grant : Grant, generation : Nat, epoch : Nat]
Check == [stage : {"idle", "waiting", "answered", "failed"}, user : CacheUsers \cup {NoUser},
          on : Checks \cup {NoLoad}, version : Nat, floor : Nat]

NewGrant == [version |-> 0, active |-> TRUE]
Idle == [phase |-> "none", user |-> NoUser, grant |-> NewGrant, generation |-> 0, epoch |-> 0]
NotMade == [stage |-> "idle", user |-> NoUser, on |-> NoLoad, version |-> 0, floor |-> 0]

RbacInit ==
    /\ granted = [u \in CacheUsers |-> NewGrant]
    /\ accessCache = [u \in CacheUsers |-> NoAccess]
    /\ cacheOrder = << >>
    /\ loading = [u \in CacheUsers |-> NoLoad]
    /\ accessLoad = [c \in Checks |-> Idle]
    /\ check = [c \in Checks |-> NotMade]
    /\ generation = 0
    /\ invalidated = [u \in CacheUsers |-> 0]
    /\ epoch = [u \in CacheUsers |-> 0]

-----------------------------------------------------------------------------
(* getAccess.                                                              *)

Asked(c, u) == [check[c] EXCEPT !.user = u, !.floor = invalidated[u]]

Asks(c) == /\ check[c].stage = "idle"
           /\ \A d \in Checks : check[d].stage = "idle" => c <= d

(* The Access that may be served from the cache. *)
Hit(u) == accessCache[u] # NoAccess /\ accessCache[u].fresh

(* The check is answered from the cache. *)
ServeCached(c) ==
    \E u \in CacheUsers :
        /\ Asks(c)
        /\ Hit(u)
        /\ check' = [check EXCEPT ![c] = [Asked(c, u) EXCEPT !.stage = "answered",
                                                    !.version = accessCache[u].version]]
        /\ UNCHANGED << granted, accessCache, cacheOrder, loading, accessLoad,
                        generation, invalidated, epoch >>

(* The check awaits the load that is under way. *)
JoinLoad(c) ==
    \E u \in CacheUsers :
        /\ Asks(c)
        /\ ~Hit(u)
        /\ loading[u] # NoLoad
        /\ check' = [check EXCEPT ![c] = [Asked(c, u) EXCEPT !.stage = "waiting",
                                                             !.on = loading[u]]]
        /\ UNCHANGED << granted, accessCache, cacheOrder, loading, accessLoad,
                        generation, invalidated, epoch >>

(* The check starts a load, which notes the generation before its query. *)
StartLoad(c) ==
    \E u \in CacheUsers :
        /\ Asks(c)
        /\ ~Hit(u)
        /\ loading[u] = NoLoad
        /\ check' = [check EXCEPT ![c] = [Asked(c, u) EXCEPT !.stage = "waiting", !.on = c]]
        /\ accessLoad' = [accessLoad EXCEPT ![c] =
                            [phase |-> "querying", user |-> u, grant |-> NewGrant,
                             generation |-> generation, epoch |-> epoch[u]]]
        /\ loading' = [loading EXCEPT ![u] = c]
        /\ UNCHANGED << granted, accessCache, cacheOrder, generation, invalidated, epoch >>

-----------------------------------------------------------------------------
(* loadAccess and what follows it.                                         *)

(* The query of a load reads the roles. *)
ReadRoles(l) ==
    /\ accessLoad[l].phase = "querying"
    /\ accessLoad' = [accessLoad EXCEPT ![l].phase = "loaded",
                                        ![l].grant = granted[accessLoad[l].user]]
    /\ UNCHANGED << granted, accessCache, cacheOrder, loading, check, generation,
                    invalidated, epoch >>

(* Only roles loaded since the last invalidation are kept.  The faulty form
   does not compare the generations. *)
KeptAnyGeneration(l) == accessLoad[l].grant.active
Kept(l) == accessLoad[l].grant.active /\ accessLoad[l].generation = generation

(* The entry that makes room for user u: the oldest, if the cache is full.
   The faulty form makes no room. *)
EvictedNone(u) == {}
Evicted(u) ==
    IF Len(cacheOrder) >= MaxCached /\ accessCache[u] = NoAccess
    THEN {Head(cacheOrder)} ELSE {}

(* cacheOrder without some users. *)
Without(users) ==
    LET rest[i \in 0 .. Len(cacheOrder)] ==
            IF i = 0 THEN << >>
            ELSE IF cacheOrder[i] \in users THEN rest[i - 1]
            ELSE Append(rest[i - 1], cacheOrder[i])
    IN  rest[Len(cacheOrder)]

(* `.then': the Access is stored, or only handed on. *)
StoreLoaded(l) ==
    LET u == accessLoad[l].user
    IN  /\ accessLoad[l].phase = "loaded"
        /\ accessLoad' = [accessLoad EXCEPT ![l].phase = "settling"]
        /\ IF Kept(l)
           THEN /\ accessCache' =
                      [v \in CacheUsers |->
                         IF v = u THEN [version |-> accessLoad[l].grant.version, fresh |-> TRUE]
                         ELSE IF v \in Evicted(u) THEN NoAccess ELSE accessCache[v]]
                /\ cacheOrder' = Append(Without(Evicted(u) \cup {u}), u)
           ELSE UNCHANGED << accessCache, cacheOrder >>
        /\ UNCHANGED << granted, loading, check, generation, invalidated, epoch >>

(* `.finally' removes the load's own entry alone: after an invalidation the
   entry may be that of a later load.  The faulty form removes any. *)
UnregisteredAny(l) == [loading EXCEPT ![accessLoad[l].user] = NoLoad]
Unregistered(l) ==
    [u \in CacheUsers |-> IF loading[u] = l THEN NoLoad ELSE loading[u]]

Resolve(l, stage) ==
    check' = [c \in Checks |->
                IF check[c].stage = "waiting" /\ check[c].on = l
                THEN [check[c] EXCEPT !.stage = stage, !.on = NoLoad,
                                      !.version = accessLoad[l].grant.version]
                ELSE check[c]]

(* `.finally', and every check that awaits the load continues. *)
SettleLoad(l) ==
    /\ accessLoad[l].phase = "settling"
    /\ accessLoad' = [accessLoad EXCEPT ![l] = Idle]
    /\ loading' = Unregistered(l)
    /\ Resolve(l, "answered")
    /\ UNCHANGED << granted, accessCache, cacheOrder, generation, invalidated, epoch >>

(* The query fails, and with it every check that awaits the load. *)
FailLoad(l) ==
    /\ accessLoad[l].phase = "querying"
    /\ accessLoad' = [accessLoad EXCEPT ![l] = Idle]
    /\ loading' = Unregistered(l)
    /\ Resolve(l, "failed")
    /\ UNCHANGED << granted, accessCache, cacheOrder, generation, invalidated, epoch >>

-----------------------------------------------------------------------------
(* The environment of the cache.                                           *)

(* The roles of a user change in the database. *)
ChangeRoles(u) ==
    \E active \in BOOLEAN :
        /\ granted[u].version < MaxChanges
        /\ granted' = [granted EXCEPT ![u] = [version |-> @.version + 1, active |-> active]]
        /\ UNCHANGED << accessCache, cacheOrder, loading, accessLoad, check, generation,
                        invalidated, epoch >>

(* expiresAt of an entry passes. *)
ExpireAccess(u) ==
    /\ Hit(u)
    /\ accessCache' = [accessCache EXCEPT ![u].fresh = FALSE]
    /\ UNCHANGED << granted, cacheOrder, loading, accessLoad, check, generation,
                    invalidated, epoch >>

(* invalidateUser for one organization or all of them, invalidateAll. *)
Invalidate(users) ==
    /\ generation < MaxInvalidations
    /\ generation' = generation + 1
    /\ accessCache' = [u \in CacheUsers |-> IF u \in users THEN NoAccess ELSE accessCache[u]]
    /\ cacheOrder' = Without(users)
    /\ loading' = [u \in CacheUsers |-> IF u \in users THEN NoLoad ELSE loading[u]]
    /\ invalidated' = [u \in CacheUsers |-> IF u \in users THEN granted[u].version
                                                           ELSE invalidated[u]]
    /\ epoch' = [u \in CacheUsers |-> IF u \in users THEN epoch[u] + 1 ELSE epoch[u]]
    /\ UNCHANGED << granted, accessLoad, check >>

LoadStep(l) == ReadRoles(l) \/ StoreLoaded(l) \/ SettleLoad(l) \/ FailLoad(l)

RbacNext ==
    \/ \E c \in Checks : ServeCached(c) \/ JoinLoad(c) \/ StartLoad(c) \/ LoadStep(c)
    \/ \E u \in CacheUsers : ChangeRoles(u) \/ ExpireAccess(u)
    \/ \E users \in SUBSET CacheUsers : Invalidate(users)

RbacSpec == RbacInit /\ [][RbacNext]_rbacVars

-----------------------------------------------------------------------------
(* Properties.                                                             *)

RbacTypeOK ==
    /\ granted \in [CacheUsers -> Grant]
    /\ accessCache \in [CacheUsers -> Access \cup {NoAccess}]
    /\ loading \in [CacheUsers -> Checks \cup {NoLoad}]
    /\ accessLoad \in [Checks -> Load]
    /\ check \in [Checks -> Check]
    /\ generation \in Nat
    /\ invalidated \in [CacheUsers -> Nat]
    /\ epoch \in [CacheUsers -> Nat]

(* A check made after an invalidation is never answered from roles older than
   the invalidation, neither from the cache nor from a load that began
   before it: rbac.service.ts:98. *)
FreshAfterInvalidate ==
    \A c \in Checks : check[c].stage = "answered" => check[c].version >= check[c].floor

(* Checks of one user made together share one load: two loads of a user run at
   the same time only if the user was invalidated between their starts:
   rbac.service.ts:149 and the comparison in `.finally'. *)
OneLoadAtATime ==
    \A l, m \in Checks :
        /\ l # m
        /\ accessLoad[l].phase # "none"
        /\ accessLoad[m].phase # "none"
        /\ accessLoad[l].user = accessLoad[m].user
        => accessLoad[l].epoch # accessLoad[m].epoch

(* The cache keeps at most MAX_CACHED_USERS entries, and the order it evicts
   by lists each of them once, through loads of one user that overlap,
   reloads of expired entries and invalidations. *)
CacheBounded ==
    /\ Len(cacheOrder) <= MaxCached
    /\ IsInjective(cacheOrder)
    /\ ToSet(cacheOrder) = {u \in CacheUsers : accessCache[u] # NoAccess}

=============================================================================
