------------------------ MODULE RequestChecksProofs -------------------------
(* Proofs about what is checked before a request is served: the permission *)
(* cache (RbacCache) and the counters in Redis (OtpLogin, RateLimit), for  *)
(* every limit and size and every number of users, checks and calls that   *)
(* overlap.                                                                *)
EXTENDS RbacCache, OtpLogin, RateLimit, FiniteSetTheorems, WellFoundedInduction, TLAPS

-----------------------------------------------------------------------------
(* RbacCache.                                                              *)

Runs(l) == accessLoad[l].phase # "none"
HasRead(l) == accessLoad[l].phase \in {"loaded", "settling"}

(* The roles only grow newer, and what is cached is not older than the last
   invalidation of its user. *)
Versions ==
    \A u \in CacheUsers :
        /\ invalidated[u] <= granted[u].version
        /\ accessCache[u] # NoAccess => accessCache[u].version >= invalidated[u]

(* A load that runs was started in an epoch of its user and at a generation;
   of the current epoch it is the registered one, and what it has read is not
   older than the last invalidation. *)
LoadsRun ==
    \A l \in Checks : Runs(l) =>
        LET u == accessLoad[l].user
        IN  /\ u \in CacheUsers
            /\ accessLoad[l].epoch <= epoch[u]
            /\ accessLoad[l].generation <= generation
            /\ accessLoad[l].generation = generation => accessLoad[l].epoch = epoch[u]
            /\ accessLoad[l].epoch = epoch[u] =>
                  /\ loading[u] = l
                  /\ HasRead(l) => accessLoad[l].grant.version >= invalidated[u]

LoadRegistered ==
    \A u \in CacheUsers : loading[u] # NoLoad =>
        /\ Runs(loading[u])
        /\ accessLoad[loading[u]].user = u
        /\ accessLoad[loading[u]].epoch = epoch[u]

(* A check that waits does so on a load of its user that will bring, or has
   read, roles as new as the check asks for; one not made has started none. *)
ChecksWait ==
    \A c \in Checks :
        /\ check[c].stage = "idle" => ~Runs(c)
        /\ check[c].stage = "waiting" =>
              LET l == check[c].on
              IN  /\ l \in Checks
                  /\ check[c].user \in CacheUsers
                  /\ Runs(l)
                  /\ accessLoad[l].user = check[c].user
                  /\ check[c].floor <= invalidated[check[c].user]
                  /\ HasRead(l) => accessLoad[l].grant.version >= check[c].floor

RbacIInv ==
    /\ RbacTypeOK
    /\ Versions
    /\ LoadsRun
    /\ LoadRegistered
    /\ ChecksWait
    /\ OneLoadAtATime
    /\ FreshAfterInvalidate

LEMMA RbacInitial == RbacInit => RbacIInv
<1> SUFFICES ASSUME RbacInit PROVE RbacIInv
  OBVIOUS
<1>1. NewGrant \in Grant /\ Idle \in Load /\ NotMade \in Check
  BY DEF NewGrant, Grant, Idle, Load, NotMade, Check
<1>2. RbacTypeOK
  BY <1>1 DEF RbacInit, RbacTypeOK
<1>3. \A l \in Checks : ~Runs(l) /\ check[l].stage = "idle"
  BY DEF RbacInit, Runs, Idle, NotMade
<1>4. Versions /\ LoadRegistered
  BY DEF RbacInit, Versions, LoadRegistered, NewGrant
<1> QED
  BY <1>2, <1>3, <1>4 DEF RbacIInv, LoadsRun, ChecksWait, OneLoadAtATime, FreshAfterInvalidate, Runs

-----------------------------------------------------------------------------
(* getAccess.                                                              *)

LEMMA AskStep ==
  ASSUME RbacIInv, NEW c \in Checks, ServeCached(c) \/ JoinLoad(c)
  PROVE  RbacIInv'
<1>1. PICK u \in CacheUsers, next \in Check :
        /\ check' = [check EXCEPT ![c] = next]
        /\ check[c].stage = "idle"
        /\ next.floor = invalidated[u] /\ next.user = u
        /\ \/ next.stage = "answered" /\ next.version >= invalidated[u]
           \/ next.stage = "waiting" /\ next.on = loading[u] /\ loading[u] \in Checks
              /\ loading[u] # NoLoad
  <2>0. check[c] \in Check /\ \A u \in CacheUsers : invalidated[u] \in Nat
    BY DEF RbacIInv, RbacTypeOK
  <2>1. CASE ServeCached(c)
    <3>1. PICK u \in CacheUsers :
            /\ Hit(u)
            /\ check[c].stage = "idle"
            /\ check' = [check EXCEPT ![c] = [Asked(c, u) EXCEPT !.stage = "answered",
                                                    !.version = accessCache[u].version]]
      BY <2>1 DEF ServeCached, Asks
    <3> DEFINE next == [Asked(c, u) EXCEPT !.stage = "answered", !.version = accessCache[u].version]
    <3>2. accessCache[u] \in Access /\ accessCache[u].version >= invalidated[u]
      BY <3>1 DEF Hit, RbacIInv, RbacTypeOK, Versions
    <3>3. next \in Check /\ next.floor = invalidated[u] /\ next.user = u
          /\ next.stage = "answered" /\ next.version = accessCache[u].version
      BY <2>0, <3>2 DEF Asked, Check, Access
    <3> HIDE DEF next
    <3> QED
      BY <3>1, <3>2, <3>3 DEF next
  <2>2. CASE JoinLoad(c)
    <3>1. PICK u \in CacheUsers :
            /\ loading[u] # NoLoad
            /\ check[c].stage = "idle"
            /\ check' = [check EXCEPT ![c] = [Asked(c, u) EXCEPT !.stage = "waiting",
                                                             !.on = loading[u]]]
      BY <2>2 DEF JoinLoad, Asks
    <3> DEFINE next == [Asked(c, u) EXCEPT !.stage = "waiting", !.on = loading[u]]
    <3>2. loading[u] \in Checks
      BY <3>1 DEF RbacIInv, RbacTypeOK
    <3>3. next \in Check /\ next.floor = invalidated[u] /\ next.user = u
          /\ next.stage = "waiting" /\ next.on = loading[u]
      BY <2>0, <3>2 DEF Asked, Check
    <3> HIDE DEF next
    <3> QED
      BY <3>1, <3>2, <3>3 DEF next
  <2> QED
    BY <2>1, <2>2
<1>2. UNCHANGED << granted, accessCache, loading, accessLoad, generation, invalidated, epoch >>
  BY DEF ServeCached, JoinLoad
<1>3. /\ check'[c] = next
      /\ \A d \in Checks \ {c} : check'[d] = check[d]
  BY <1>1 DEF RbacIInv, RbacTypeOK
<1>4. RbacTypeOK'
  BY <1>1, <1>2 DEF RbacIInv, RbacTypeOK
<1>5. Versions' /\ LoadsRun' /\ LoadRegistered' /\ OneLoadAtATime'
  BY <1>2 DEF RbacIInv, Versions, LoadsRun, LoadRegistered, OneLoadAtATime, Runs, HasRead
<1>6. FreshAfterInvalidate'
  BY <1>1, <1>3 DEF RbacIInv, FreshAfterInvalidate
<1>7. ChecksWait'
  <2> SUFFICES ASSUME NEW d \in Checks PROVE ChecksWait!(d)'
    BY DEF ChecksWait
  <2>1. CASE d # c
    BY <1>2, <1>3, <2>1 DEF RbacIInv, ChecksWait, Runs, HasRead
  <2>2. CASE d = c /\ next.stage = "waiting"
    <3>1. /\ Runs(loading[u]) /\ accessLoad[loading[u]].user = u
          /\ HasRead(loading[u]) => accessLoad[loading[u]].grant.version >= invalidated[u]
      BY <1>1, <2>2 DEF RbacIInv, LoadRegistered, LoadsRun
    <3>2. invalidated[u] <= invalidated[u]
      BY DEF RbacIInv, RbacTypeOK
    <3> QED
      BY <1>1, <1>2, <1>3, <2>2, <3>1, <3>2 DEF Runs, HasRead
  <2>3. CASE d = c /\ next.stage = "answered"
    BY <1>1, <1>3, <2>3
  <2> QED
    BY <1>1, <2>1, <2>2, <2>3
<1> QED
  BY <1>4, <1>5, <1>6, <1>7 DEF RbacIInv

LEMMA LoadStarts ==
  ASSUME RbacIInv, NEW c \in Checks, StartLoad(c)
  PROVE  RbacIInv'
<1> DEFINE fresh(u) == [phase |-> "querying", user |-> u, grant |-> NewGrant,
                        generation |-> generation, epoch |-> epoch[u]]
           asked(u) == [Asked(c, u) EXCEPT !.stage = "waiting", !.on = c]
<1>1. PICK u \in CacheUsers :
        /\ check[c].stage = "idle"
        /\ loading[u] = NoLoad
        /\ check' = [check EXCEPT ![c] = asked(u)]
        /\ accessLoad' = [accessLoad EXCEPT ![c] = fresh(u)]
        /\ loading' = [loading EXCEPT ![u] = c]
        /\ UNCHANGED << granted, accessCache, generation, invalidated, epoch >>
  BY DEF StartLoad, Asks
<1>2. /\ asked(u) \in Check /\ asked(u).stage = "waiting" /\ asked(u).on = c
      /\ asked(u).user = u /\ asked(u).floor = invalidated[u]
  <2>1. check[c] \in Check /\ invalidated[u] \in Nat
    BY DEF RbacIInv, RbacTypeOK
  <2> QED
    BY <2>1 DEF Asked, Check
<1>3. /\ fresh(u) \in Load /\ fresh(u).phase = "querying" /\ fresh(u).user = u
      /\ fresh(u).generation = generation /\ fresh(u).epoch = epoch[u]
  BY DEF RbacIInv, RbacTypeOK, Load, NewGrant, Grant
<1> HIDE DEF fresh, asked
<1>4. /\ check'[c] = asked(u) /\ accessLoad'[c] = fresh(u) /\ loading'[u] = c
      /\ \A d \in Checks \ {c} : check'[d] = check[d] /\ accessLoad'[d] = accessLoad[d]
      /\ \A v \in CacheUsers \ {u} : loading'[v] = loading[v]
  BY <1>1 DEF RbacIInv, RbacTypeOK
<1>5. /\ ~Runs(c)
      /\ \A l \in Checks : Runs(l) => /\ l # c
                                      /\ accessLoad[l].user = u => accessLoad[l].epoch # epoch[u]
  BY <1>1, NoLoadAssumption DEF RbacIInv, ChecksWait, LoadsRun
<1>6. /\ Runs(c)' /\ ~HasRead(c)'
      /\ \A d \in Checks \ {c} : (Runs(d)' <=> Runs(d)) /\ (HasRead(d)' <=> HasRead(d))
  BY <1>3, <1>4 DEF Runs, HasRead
<1>7. RbacTypeOK'
  BY <1>1, <1>2, <1>3 DEF RbacIInv, RbacTypeOK
<1>8. Versions'
  BY <1>1 DEF RbacIInv, Versions
<1>9. LoadsRun'
  <2> SUFFICES ASSUME NEW l \in Checks, Runs(l)' PROVE LoadsRun!(l)'
    BY DEF LoadsRun
  <2>1. CASE l = c
    BY <1>1, <1>3, <1>4, <1>6, <2>1 DEF RbacIInv, RbacTypeOK
  <2>2. CASE l # c
    BY <1>1, <1>4, <1>5, <1>6, <2>2 DEF RbacIInv, LoadsRun
  <2> QED
    BY <2>1, <2>2
<1>10. LoadRegistered'
  <2> SUFFICES ASSUME NEW v \in CacheUsers, loading'[v] # NoLoad
               PROVE  LoadRegistered!(v)'
    BY DEF LoadRegistered
  <2>1. CASE v = u
    BY <1>1, <1>3, <1>4, <1>6, <2>1
  <2>2. CASE v # u
    <3>1. loading[v] \in Checks \ {c}
      BY <1>4, <1>5, <2>2 DEF RbacIInv, RbacTypeOK, LoadRegistered
    <3> QED
      BY <1>1, <1>4, <1>6, <2>2, <3>1 DEF RbacIInv, LoadRegistered
  <2> QED
    BY <2>1, <2>2
<1>11. ChecksWait'
  <2> SUFFICES ASSUME NEW d \in Checks PROVE ChecksWait!(d)'
    BY DEF ChecksWait
  <2>1. CASE d = c
    BY <1>1, <1>2, <1>3, <1>4, <1>6, <2>1 DEF RbacIInv, RbacTypeOK
  <2>2. CASE d # c
    BY <1>1, <1>4, <1>5, <1>6, <2>2 DEF RbacIInv, ChecksWait
  <2> QED
    BY <2>1, <2>2
<1>12. OneLoadAtATime'
  BY <1>3, <1>4, <1>5, <1>6 DEF RbacIInv, OneLoadAtATime, Runs
<1>13. FreshAfterInvalidate'
  BY <1>2, <1>4 DEF RbacIInv, FreshAfterInvalidate
<1> QED
  BY <1>7, <1>8, <1>9, <1>10, <1>11, <1>12, <1>13 DEF RbacIInv

-----------------------------------------------------------------------------
(* The steps of a load.                                                    *)

LEMMA RolesRead ==
  ASSUME RbacIInv, NEW l \in Checks, ReadRoles(l)
  PROVE  RbacIInv'
<1> DEFINE u == accessLoad[l].user
<1>1. /\ accessLoad[l].phase = "querying"
      /\ accessLoad' = [accessLoad EXCEPT ![l].phase = "loaded", ![l].grant = granted[u]]
      /\ UNCHANGED << granted, accessCache, loading, check, generation, invalidated, epoch >>
  BY DEF ReadRoles
<1>2. u \in CacheUsers /\ granted[u] \in Grant /\ granted[u].version >= invalidated[u]
  BY <1>1 DEF RbacIInv, RbacTypeOK, LoadsRun, Runs, Versions, Grant
<1>3. /\ accessLoad'[l].phase = "loaded" /\ accessLoad'[l].grant = granted[u]
      /\ accessLoad'[l].user = u /\ accessLoad'[l].epoch = accessLoad[l].epoch
      /\ accessLoad'[l].generation = accessLoad[l].generation
      /\ \A m \in Checks \ {l} : accessLoad'[m] = accessLoad[m]
      /\ \A m \in Checks : Runs(m)' <=> Runs(m)
      /\ \A m \in Checks \ {l} : HasRead(m)' <=> HasRead(m)
  BY <1>1 DEF RbacIInv, RbacTypeOK, Load, Runs, HasRead
<1>4. RbacTypeOK'
  BY <1>1, <1>2 DEF RbacIInv, RbacTypeOK, Load
<1>5. Versions' /\ FreshAfterInvalidate'
  BY <1>1 DEF RbacIInv, Versions, FreshAfterInvalidate
<1>6. LoadsRun'
  <2> SUFFICES ASSUME NEW m \in Checks, Runs(m)' PROVE LoadsRun!(m)'
    BY DEF LoadsRun
  <2>1. CASE m = l
    BY <1>1, <1>2, <1>3, <2>1 DEF RbacIInv, LoadsRun
  <2>2. CASE m # l
    <3>1. Runs(m) /\ accessLoad'[m] = accessLoad[m] /\ (HasRead(m)' <=> HasRead(m))
      BY <1>3, <2>2
    <3>2. LoadsRun!(m)
      BY <3>1 DEF RbacIInv, LoadsRun
    <3> QED
      BY <1>1, <3>1, <3>2
  <2> QED
    BY <2>1, <2>2
<1>7. LoadRegistered'
  BY <1>1, <1>3 DEF RbacIInv, RbacTypeOK, LoadRegistered
<1>8. ChecksWait'
  <2> SUFFICES ASSUME NEW d \in Checks PROVE ChecksWait!(d)'
    BY DEF ChecksWait
  <2>1. CASE check[d].stage = "waiting" /\ check[d].on = l
    <3>1. /\ check[d].user = u /\ check[d].floor <= invalidated[u]
          /\ invalidated[u] \in Nat /\ check[d].floor \in Nat /\ granted[u].version \in Nat
      BY <1>2, <2>1 DEF RbacIInv, ChecksWait, RbacTypeOK, Check, Grant
    <3> QED
      BY <1>1, <1>2, <1>3, <2>1, <3>1 DEF RbacIInv, ChecksWait
  <2>2. CASE ~(check[d].stage = "waiting" /\ check[d].on = l)
    <3>1. ChecksWait!(d)
      BY DEF RbacIInv, ChecksWait
    <3>2. CASE check[d].stage = "waiting"
      <4>1. PICK m \in Checks \ {l} : m = check[d].on
        BY <2>2, <3>1, <3>2
      <4>2. accessLoad'[m] = accessLoad[m] /\ (Runs(m)' <=> Runs(m)) /\ (HasRead(m)' <=> HasRead(m))
        BY <1>3, <4>1
      <4>3. check' = check /\ UNCHANGED << invalidated, epoch >>
        BY <1>1
      <4> QED
        BY <3>1, <3>2, <4>1, <4>2, <4>3
    <3>3. CASE check[d].stage # "waiting"
      BY <1>1, <1>3, <3>1, <3>3
    <3> QED
      BY <3>2, <3>3
  <2> QED
    BY <2>1, <2>2
<1>9. OneLoadAtATime'
  BY <1>3 DEF RbacIInv, OneLoadAtATime, Runs
<1> QED
  BY <1>4, <1>5, <1>6, <1>7, <1>8, <1>9 DEF RbacIInv

LEMMA StoreStep ==
  ASSUME RbacIInv, NEW l \in Checks, StoreLoaded(l)
  PROVE  RbacIInv'
<1> DEFINE u == accessLoad[l].user
           kept == [version |-> accessLoad[l].grant.version, fresh |-> TRUE]
<1>1. /\ accessLoad[l].phase = "loaded"
      /\ accessLoad' = [accessLoad EXCEPT ![l].phase = "settling"]
      /\ UNCHANGED << granted, loading, check, generation, invalidated, epoch >>
      /\ \/ UNCHANGED accessCache
         \/ /\ Kept(l)
            /\ accessCache' = [v \in CacheUsers |->
                                 IF v = u THEN kept
                                 ELSE IF v \in Evicted(u) THEN NoAccess ELSE accessCache[v]]
  BY DEF StoreLoaded
<1>2. /\ accessLoad'[l].phase = "settling" /\ accessLoad'[l].grant = accessLoad[l].grant
      /\ accessLoad'[l].user = u /\ accessLoad'[l].epoch = accessLoad[l].epoch
      /\ accessLoad'[l].generation = accessLoad[l].generation
      /\ \A m \in Checks \ {l} : accessLoad'[m] = accessLoad[m]
      /\ \A m \in Checks : (Runs(m)' <=> Runs(m)) /\ (HasRead(m)' <=> HasRead(m))
      /\ accessLoad[l].grant \in Grant
  BY <1>1 DEF RbacIInv, RbacTypeOK, Load, Runs, HasRead
<1>3. u \in CacheUsers /\ Runs(l) /\ HasRead(l)
  BY <1>1 DEF RbacIInv, LoadsRun, Runs, HasRead
<1>4. Kept(l) => kept.version >= invalidated[u]
  BY <1>3 DEF RbacIInv, LoadsRun, Kept
<1>5. kept \in Access
  BY <1>2 DEF Access, Grant
<1> HIDE DEF kept
<1>6. RbacTypeOK'
  <2>1. accessLoad' \in [Checks -> Load]
    BY <1>1 DEF RbacIInv, RbacTypeOK, Load
  <2>2. accessCache' \in [CacheUsers -> Access \cup {NoAccess}]
    BY <1>1, <1>5 DEF RbacIInv, RbacTypeOK
  <2> QED
    BY <1>1, <2>1, <2>2 DEF RbacIInv, RbacTypeOK
<1>7. Versions'
  <2> SUFFICES ASSUME NEW v \in CacheUsers PROVE Versions!(v)'
    BY DEF Versions
  <2>1. accessCache'[v] = accessCache[v] \/ accessCache'[v] = NoAccess
        \/ (v = u /\ Kept(l) /\ accessCache'[v] = kept)
    BY <1>1
  <2> QED
    BY <1>1, <1>4, <2>1 DEF RbacIInv, Versions
<1>8. FreshAfterInvalidate'
  BY <1>1 DEF RbacIInv, FreshAfterInvalidate
<1>9. LoadsRun'
  <2> SUFFICES ASSUME NEW m \in Checks, Runs(m)' PROVE LoadsRun!(m)'
    BY DEF LoadsRun
  <2>1. /\ accessLoad'[m].user = accessLoad[m].user /\ accessLoad'[m].epoch = accessLoad[m].epoch
        /\ accessLoad'[m].generation = accessLoad[m].generation
        /\ accessLoad'[m].grant = accessLoad[m].grant
    BY <1>2
  <2> QED
    BY <1>1, <1>2, <2>1 DEF RbacIInv, LoadsRun
<1>10. LoadRegistered' /\ OneLoadAtATime'
  BY <1>1, <1>2 DEF RbacIInv, RbacTypeOK, LoadRegistered, OneLoadAtATime, Runs
<1>11. ChecksWait'
  <2> SUFFICES ASSUME NEW d \in Checks PROVE ChecksWait!(d)'
    BY DEF ChecksWait
  <2>1. \A m \in Checks : accessLoad'[m].user = accessLoad[m].user /\ accessLoad'[m].grant = accessLoad[m].grant
    BY <1>2
  <2> QED
    BY <1>1, <1>2, <2>1 DEF RbacIInv, ChecksWait
<1> QED
  BY <1>6, <1>7, <1>8, <1>9, <1>10, <1>11 DEF RbacIInv

(* A load ends, and takes out its own registration alone. *)
LEMMA LoadEnds ==
  ASSUME RbacIInv, NEW l \in Checks, SettleLoad(l) \/ FailLoad(l)
  PROVE  RbacIInv'
<1>1. /\ accessLoad[l].phase \in {"settling", "querying"}
      /\ accessLoad' = [accessLoad EXCEPT ![l] = Idle]
      /\ loading' = [u \in CacheUsers |-> IF loading[u] = l THEN NoLoad ELSE loading[u]]
      /\ UNCHANGED << granted, accessCache, generation, invalidated, epoch >>
  BY DEF SettleLoad, FailLoad, Unregistered
<1>2. PICK stage \in {"answered", "failed"} :
        /\ Resolve(l, stage)
        /\ stage = "answered" => HasRead(l)
  BY DEF SettleLoad, FailLoad, HasRead
<1>3. /\ ~Runs(l)' /\ ~HasRead(l)'
      /\ \A m \in Checks \ {l} : /\ accessLoad'[m] = accessLoad[m]
                                 /\ Runs(m)' <=> Runs(m)
                                 /\ HasRead(m)' <=> HasRead(m)
      /\ Runs(l)
  BY <1>1 DEF RbacIInv, RbacTypeOK, Idle, Runs, HasRead
<1>4. \A d \in Checks :
        \/ check'[d] = check[d] /\ ~(check[d].stage = "waiting" /\ check[d].on = l)
        \/ /\ check[d].stage = "waiting" /\ check[d].on = l
           /\ check'[d].stage = stage /\ check'[d].version = accessLoad[l].grant.version
           /\ check'[d].floor = check[d].floor /\ check'[d] \in Check
  <2> SUFFICES ASSUME NEW d \in Checks, check[d].stage = "waiting" /\ check[d].on = l
               PROVE  /\ check'[d].stage = stage
                      /\ check'[d].version = accessLoad[l].grant.version
                      /\ check'[d].floor = check[d].floor
                      /\ check'[d] \in Check
    BY <1>2 DEF Resolve
  <2>1. check'[d] = [check[d] EXCEPT !.stage = stage, !.on = NoLoad,
                                     !.version = accessLoad[l].grant.version]
    BY <1>2 DEF Resolve
  <2>2. check[d] \in Check /\ accessLoad[l].grant.version \in Nat
    BY DEF RbacIInv, RbacTypeOK, Load, Grant
  <2> QED
    BY <2>1, <2>2 DEF Check
<1>5. RbacTypeOK'
  <2>1. Idle \in Load
    BY DEF Idle, Load, NewGrant, Grant
  <2>2. check' \in [Checks -> Check]
    BY <1>2, <1>4 DEF Resolve, RbacIInv, RbacTypeOK
  <2> QED
    BY <1>1, <2>1, <2>2 DEF RbacIInv, RbacTypeOK
<1>6. Versions'
  BY <1>1 DEF RbacIInv, Versions
<1>7. LoadsRun'
  <2> SUFFICES ASSUME NEW m \in Checks \ {l}, Runs(m)' PROVE LoadsRun!(m)'
    BY <1>3 DEF LoadsRun
  <2> QED
    BY <1>1, <1>3 DEF RbacIInv, LoadsRun
<1>8. LoadRegistered'
  <2> SUFFICES ASSUME NEW v \in CacheUsers, loading'[v] # NoLoad PROVE LoadRegistered!(v)'
    BY DEF LoadRegistered
  <2>1. loading'[v] = loading[v] /\ loading[v] \in Checks \ {l}
    BY <1>1 DEF RbacIInv, RbacTypeOK
  <2> QED
    BY <1>1, <1>3, <2>1 DEF RbacIInv, LoadRegistered
<1>9. ChecksWait'
  <2> SUFFICES ASSUME NEW d \in Checks PROVE ChecksWait!(d)'
    BY DEF ChecksWait
  <2>1. CASE check[d].stage = "waiting" /\ check[d].on = l
    BY <1>2, <1>4, <2>1
  <2>2. CASE ~(check[d].stage = "waiting" /\ check[d].on = l)
    BY <1>1, <1>3, <1>4, <2>2 DEF RbacIInv, ChecksWait
  <2> QED
    BY <2>1, <2>2
<1>10. OneLoadAtATime'
  BY <1>3 DEF RbacIInv, OneLoadAtATime, Runs
<1>11. FreshAfterInvalidate'
  BY <1>2, <1>4 DEF RbacIInv, ChecksWait, FreshAfterInvalidate
<1> QED
  BY <1>5, <1>6, <1>7, <1>8, <1>9, <1>10, <1>11 DEF RbacIInv

-----------------------------------------------------------------------------
(* The environment.                                                        *)

LEMMA ChangeStep ==
  ASSUME RbacIInv, NEW u \in CacheUsers, ChangeRoles(u) \/ ExpireAccess(u)
  PROVE  RbacIInv'
<1>1. UNCHANGED << loading, accessLoad, check, generation, invalidated, epoch >>
  BY DEF ChangeRoles, ExpireAccess
<1>2. /\ granted' \in [CacheUsers -> Grant]
      /\ \A v \in CacheUsers : granted'[v].version >= granted[v].version
  <2>0. granted \in [CacheUsers -> Grant] /\ \A v \in CacheUsers : granted[v].version \in Nat
    BY DEF RbacIInv, RbacTypeOK, Grant
  <2>1. CASE ChangeRoles(u)
    <3>1. PICK active \in BOOLEAN :
            granted' = [granted EXCEPT ![u] = [version |-> granted[u].version + 1, active |-> active]]
      BY <2>1 DEF ChangeRoles
    <3> QED
      BY <2>0, <3>1 DEF Grant
  <2>2. CASE ExpireAccess(u)
    BY <2>0, <2>2 DEF ExpireAccess
  <2> QED
    BY <2>1, <2>2
<1>3. /\ accessCache' \in [CacheUsers -> Access \cup {NoAccess}]
      /\ \A v \in CacheUsers : accessCache'[v] # NoAccess =>
            accessCache[v] # NoAccess /\ accessCache'[v].version = accessCache[v].version
  <2>1. CASE ChangeRoles(u)
    BY <2>1 DEF ChangeRoles, RbacIInv, RbacTypeOK
  <2>2. CASE ExpireAccess(u)
    <3>1. accessCache[u] \in Access /\ accessCache[u] # NoAccess
      BY <2>2 DEF ExpireAccess, Hit, RbacIInv, RbacTypeOK
    <3>2. accessCache' = [accessCache EXCEPT ![u].fresh = FALSE]
      BY <2>2 DEF ExpireAccess
    <3> QED
      BY <3>1, <3>2 DEF RbacIInv, RbacTypeOK, Access
  <2> QED
    BY <2>1, <2>2
<1>4. RbacTypeOK'
  BY <1>1, <1>2, <1>3 DEF RbacIInv, RbacTypeOK
<1>5. Versions'
  <2> SUFFICES ASSUME NEW v \in CacheUsers PROVE Versions!(v)'
    BY DEF Versions
  <2>1. granted[v].version \in Nat /\ granted'[v].version \in Nat /\ invalidated[v] \in Nat
    BY <1>2 DEF RbacIInv, RbacTypeOK, Grant
  <2> QED
    BY <1>1, <1>2, <1>3, <2>1 DEF RbacIInv, Versions
<1>6. LoadsRun' /\ LoadRegistered' /\ ChecksWait' /\ OneLoadAtATime' /\ FreshAfterInvalidate'
  BY <1>1 DEF RbacIInv, LoadsRun, LoadRegistered, ChecksWait, OneLoadAtATime, FreshAfterInvalidate,
              Runs, HasRead
<1> QED
  BY <1>4, <1>5, <1>6 DEF RbacIInv

(* An invalidation begins an epoch of its users, which no load has yet. *)
LEMMA InvalidateStep ==
  ASSUME RbacIInv, NEW users \in SUBSET CacheUsers, Invalidate(users)
  PROVE  RbacIInv'
<1>1. /\ generation' = generation + 1
      /\ accessCache' = [u \in CacheUsers |-> IF u \in users THEN NoAccess ELSE accessCache[u]]
      /\ loading' = [u \in CacheUsers |-> IF u \in users THEN NoLoad ELSE loading[u]]
      /\ invalidated' = [u \in CacheUsers |-> IF u \in users THEN granted[u].version
                                                           ELSE invalidated[u]]
      /\ epoch' = [u \in CacheUsers |-> IF u \in users THEN epoch[u] + 1 ELSE epoch[u]]
      /\ UNCHANGED << granted, accessLoad, check >>
  BY DEF Invalidate
<1>2. /\ generation \in Nat
      /\ \A u \in CacheUsers : /\ granted[u].version \in Nat
                               /\ invalidated[u] \in Nat
                               /\ epoch[u] \in Nat
                               /\ invalidated[u] <= invalidated'[u]
      /\ \A l \in Checks : accessLoad[l].epoch \in Nat /\ accessLoad[l].generation \in Nat
  BY <1>1 DEF RbacIInv, RbacTypeOK, Grant, Load, Versions
<1>3. RbacTypeOK'
  BY <1>1, <1>2 DEF RbacIInv, RbacTypeOK
<1>4. Versions'
  BY <1>1, <1>2 DEF RbacIInv, Versions
<1>5. LoadsRun'
  <2> SUFFICES ASSUME NEW l \in Checks, Runs(l) PROVE LoadsRun!(l)'
    BY <1>1 DEF LoadsRun, Runs
  <2> DEFINE u == accessLoad[l].user
  <2>1. /\ u \in CacheUsers /\ accessLoad[l].epoch <= epoch[u]
        /\ accessLoad[l].generation <= generation
        /\ accessLoad[l].epoch = epoch[u] =>
               loading[u] = l /\ (HasRead(l) => accessLoad[l].grant.version >= invalidated[u])
    BY DEF RbacIInv, LoadsRun
  <2>2. accessLoad[l].epoch <= epoch'[u] /\ accessLoad[l].generation < generation'
    BY <1>1, <1>2, <2>1
  <2>3. accessLoad[l].epoch = epoch'[u] =>
          u \notin users /\ loading'[u] = loading[u] /\ invalidated'[u] = invalidated[u]
                        /\ epoch'[u] = epoch[u]
    BY <1>1, <1>2, <2>1
  <2> QED
    BY <1>1, <1>2, <2>1, <2>2, <2>3 DEF HasRead
<1>6. LoadRegistered'
  BY <1>1 DEF RbacIInv, LoadRegistered, Runs
<1>7. ChecksWait'
  <2> SUFFICES ASSUME NEW d \in Checks PROVE ChecksWait!(d)'
    BY DEF ChecksWait
  <2>1. check[d].floor \in Nat
    BY DEF RbacIInv, RbacTypeOK, Check
  <2>2. check[d].stage = "waiting" => check[d].floor <= invalidated'[check[d].user]
    BY <1>1, <1>2, <2>1 DEF RbacIInv, ChecksWait
  <2> QED
    BY <1>1, <2>2 DEF RbacIInv, ChecksWait, Runs, HasRead
<1>8. OneLoadAtATime' /\ FreshAfterInvalidate'
  BY <1>1 DEF RbacIInv, OneLoadAtATime, FreshAfterInvalidate
<1> QED
  BY <1>3, <1>4, <1>5, <1>6, <1>7, <1>8 DEF RbacIInv

-----------------------------------------------------------------------------

LEMMA RbacStep == RbacIInv /\ [RbacNext]_rbacVars => RbacIInv'
<1> SUFFICES ASSUME RbacIInv, [RbacNext]_rbacVars PROVE RbacIInv'
  OBVIOUS
<1>1. CASE UNCHANGED rbacVars
  BY <1>1 DEF rbacVars, RbacIInv, RbacTypeOK, Versions, LoadsRun, LoadRegistered, ChecksWait,
              OneLoadAtATime, FreshAfterInvalidate, Runs, HasRead
<1>2. CASE RbacNext
  BY <1>2, AskStep, LoadStarts, RolesRead, StoreStep, LoadEnds, ChangeStep, InvalidateStep
     DEF RbacNext, LoadStep
<1> QED
  BY <1>1, <1>2

THEOREM RbacInvariant == RbacSpec => []RbacIInv
  BY RbacInitial, RbacStep, PTL DEF RbacSpec

(* No check made after an invalidation is answered from roles older than it
   (rbac.service.ts:98-170). *)
THEOREM FreshAfterInvalidateHolds == RbacSpec => []FreshAfterInvalidate
<1>1. RbacIInv => FreshAfterInvalidate
  BY DEF RbacIInv
<1> QED
  BY <1>1, RbacInvariant, PTL

(* Two loads of one user run at once only across an invalidation
   (rbac.service.ts:149-175). *)
THEOREM OneLoadAtATimeHolds == RbacSpec => []OneLoadAtATime
<1>1. RbacIInv => OneLoadAtATime
  BY DEF RbacIInv
<1> QED
  BY <1>1, RbacInvariant, PTL

-----------------------------------------------------------------------------
(* The order of eviction.                                                  *)

(* A set of naturals that has 0 and the successor of each has them all. *)
LEMMA NaturalsInSet ==
  ASSUME NEW H, 0 \in H, \A n \in Nat : n \in H => n + 1 \in H
  PROVE  \A n \in Nat : n \in H
<1> DEFINE B == Nat \ H
<1> SUFFICES ASSUME B # {} PROVE FALSE
  OBVIOUS
<1>1. PICK n \in B : \A m \in B : ~(<< m, n >> \in OpToRel(<, Nat))
  <2>1. B \subseteq Nat
    OBVIOUS
  <2> HIDE DEF B
  <2> QED
    BY <2>1, NatLessThanWellFounded, WFMin, Zenon
<1>2. \A m \in B : ~(m < n)
  BY <1>1 DEF OpToRel
<1>3. n # 0 /\ n \in Nat
  OBVIOUS
<1>4. n - 1 \in H
  BY <1>2, <1>3
<1> QED
  BY <1>3, <1>4

(* What Without(users) builds: the rest of the first i users of s, for each i. *)
RestStep(g, s, users, i) ==
    IF i = 0 THEN << >>
    ELSE IF s[i] \in users THEN g[i - 1]
    ELSE Append(g[i - 1], s[i])
IsRest(g, s, users) == g = [i \in 0 .. Len(s) |-> RestStep(g, s, users, i)]
Rest(s, users) == CHOOSE g : IsRest(g, s, users)

LEMMA WithoutIsRest ==
  ASSUME NEW users
  PROVE  Without(users) = Rest(cacheOrder, users)[Len(cacheOrder)]
  BY DEF Without, Rest, IsRest, RestStep

LEMMA RestExists ==
  ASSUME NEW s, Len(s) \in Nat, NEW users
  PROVE  IsRest(Rest(s, users), s, users)
<1> DEFINE Upto(n, g) == g = [i \in 0 .. n |-> RestStep(g, s, users, i)]
           H == {n \in Nat : \E g : Upto(n, g)}
<1>1. 0 \in H
  <2> DEFINE g == [i \in 0 .. 0 |-> << >>]
  <2>1. \A i \in 0 .. 0 : RestStep(g, s, users, i) = << >>
    BY DEF RestStep
  <2>2. Upto(0, g)
    BY <2>1
  <2> QED
    BY <2>2
<1>2. ASSUME NEW n \in Nat, n \in H
      PROVE  n + 1 \in H
  <2>1. PICK g : Upto(n, g)
    BY <1>2
  <2> DEFINE h == [i \in 0 .. n + 1 |-> IF i \in 0 .. n THEN g[i] ELSE RestStep(g, s, users, i)]
  <2>2. \A i \in 0 .. n + 1 : i # 0 => i - 1 \in 0 .. n /\ h[i - 1] = g[i - 1]
    OBVIOUS
  <2>3. \A i \in 0 .. n + 1 : RestStep(h, s, users, i) = RestStep(g, s, users, i)
    BY <2>2 DEF RestStep
  <2>4. \A i \in 0 .. n + 1 : h[i] = RestStep(g, s, users, i)
    BY <2>1
  <2> HIDE DEF h
  <2>5. h = [i \in 0 .. n + 1 |-> h[i]]
    BY DEF h
  <2>6. Upto(n + 1, h)
    BY <2>3, <2>4, <2>5
  <2> QED
    BY <2>6
<1>3. Len(s) \in H
  <2> HIDE DEF H
  <2> QED
    BY <1>1, <1>2, NaturalsInSet
<1>4. \E g : IsRest(g, s, users)
  BY <1>3 DEF IsRest
<1> QED
  BY <1>4 DEF Rest

(* What is left keeps its order: of the first i users, those not removed, each
   as often as before; and it is shorter if any was removed. *)
RestOfFirst(r, s, users, i) ==
    /\ r \in Seq(CacheUsers)
    /\ Len(r) <= i
    /\ (\E j \in 1 .. i : s[j] \in users) => Len(r) < i
    /\ \A k \in 1 .. Len(r) : \E j \in 1 .. i : s[j] = r[k] /\ s[j] \notin users
    /\ \A j \in 1 .. i : s[j] \notin users => \E k \in 1 .. Len(r) : r[k] = s[j]
    /\ \A k, m \in 1 .. Len(r) : r[k] = r[m] => k = m

LEMMA RestGrows ==
  ASSUME NEW s \in Seq(CacheUsers), NEW users, NEW i \in Nat, i < Len(s),
         \A j, k \in 1 .. Len(s) : s[j] = s[k] => j = k,
         NEW r, RestOfFirst(r, s, users, i)
  PROVE  RestOfFirst(IF s[i + 1] \in users THEN r ELSE Append(r, s[i + 1]), s, users, i + 1)
<1>1. /\ r \in Seq(CacheUsers) /\ Len(r) \in Nat /\ Len(r) <= i /\ Len(s) \in Nat
      /\ i + 1 \in 1 .. Len(s) /\ s[i + 1] \in CacheUsers
      /\ \A j \in 1 .. i + 1 : j \in 1 .. i \/ j = i + 1
  BY DEF RestOfFirst
<1>2. CASE s[i + 1] \in users
  BY <1>1, <1>2 DEF RestOfFirst
<1>3. CASE s[i + 1] \notin users
  <2> DEFINE x == s[i + 1]
             t == Append(r, x)
  <2>1. /\ t \in Seq(CacheUsers) /\ Len(t) = Len(r) + 1 /\ t[Len(r) + 1] = x
        /\ \A k \in 1 .. Len(r) : t[k] = r[k]
        /\ \A k \in 1 .. Len(t) : k \in 1 .. Len(r) \/ k = Len(r) + 1
    BY <1>1
  <2>2. \A k \in 1 .. Len(r) : r[k] # x
    <3> SUFFICES ASSUME NEW k \in 1 .. Len(r) PROVE r[k] # x
      OBVIOUS
    <3>1. PICK j \in 1 .. i : s[j] = r[k]
      BY DEF RestOfFirst
    <3> QED
      BY <1>1, <3>1
  <2> HIDE DEF t, x
  <2>3. Len(t) <= i + 1 /\ ((\E j \in 1 .. i + 1 : s[j] \in users) => Len(t) < i + 1)
    BY <1>1, <1>3, <2>1 DEF RestOfFirst, x
  <2>4. \A k \in 1 .. Len(t) : \E j \in 1 .. i + 1 : s[j] = t[k] /\ s[j] \notin users
    <3> SUFFICES ASSUME NEW k \in 1 .. Len(t)
                 PROVE  \E j \in 1 .. i + 1 : s[j] = t[k] /\ s[j] \notin users
      OBVIOUS
    <3>1. CASE k \in 1 .. Len(r)
      <4>1. PICK j \in 1 .. i : s[j] = r[k] /\ s[j] \notin users
        BY <3>1 DEF RestOfFirst
      <4> QED
        BY <2>1, <3>1, <4>1
    <3>2. CASE k = Len(r) + 1
      BY <1>3, <2>1, <3>2 DEF x
    <3> QED
      BY <2>1, <3>1, <3>2
  <2>5. \A j \in 1 .. i + 1 : s[j] \notin users => \E k \in 1 .. Len(t) : t[k] = s[j]
    <3> SUFFICES ASSUME NEW j \in 1 .. i + 1, s[j] \notin users
                 PROVE  \E k \in 1 .. Len(t) : t[k] = s[j]
      OBVIOUS
    <3>1. CASE j \in 1 .. i
      <4>1. PICK k \in 1 .. Len(r) : r[k] = s[j]
        BY <3>1 DEF RestOfFirst
      <4> QED
        BY <1>1, <2>1, <4>1
    <3>2. CASE j = i + 1
      BY <1>1, <2>1, <3>2 DEF x
    <3> QED
      BY <1>1, <3>1, <3>2
  <2>6. \A k, m \in 1 .. Len(t) : t[k] = t[m] => k = m
    <3> SUFFICES ASSUME NEW k \in 1 .. Len(t), NEW m \in 1 .. Len(t), t[k] = t[m]
                 PROVE  k = m
      OBVIOUS
    <3>1. CASE k \in 1 .. Len(r) /\ m \in 1 .. Len(r)
      <4>1. r[k] = r[m]
        BY <2>1, <3>1
      <4> QED
        BY <3>1, <4>1 DEF RestOfFirst
    <3>2. CASE k \in 1 .. Len(r) /\ m = Len(r) + 1
      BY <2>1, <2>2, <3>2
    <3>3. CASE k = Len(r) + 1 /\ m \in 1 .. Len(r)
      BY <2>1, <2>2, <3>3
    <3>4. CASE k = Len(r) + 1 /\ m = Len(r) + 1
      BY <3>4
    <3> QED
      BY <2>1, <3>1, <3>2, <3>3, <3>4
  <2>7. RestOfFirst(t, s, users, i + 1)
    BY <2>1, <2>3, <2>4, <2>5, <2>6 DEF RestOfFirst
  <2> QED
    BY <1>3, <2>7 DEF t, x
<1> QED
  BY <1>2, <1>3

LEMMA RestHolds ==
  ASSUME NEW s \in Seq(CacheUsers), NEW users,
         \A j, k \in 1 .. Len(s) : s[j] = s[k] => j = k
  PROVE  RestOfFirst(Rest(s, users)[Len(s)], s, users, Len(s))
<1> DEFINE g == Rest(s, users)
           H == {i \in Nat : i <= Len(s) => RestOfFirst(g[i], s, users, i)}
<1>1. Len(s) \in Nat
  OBVIOUS
<1>2. \A i \in 0 .. Len(s) : g[i] = RestStep(g, s, users, i)
  <2>1. IsRest(g, s, users)
    BY <1>1, RestExists
  <2> HIDE DEF g
  <2>2. g = [i \in 0 .. Len(s) |-> RestStep(g, s, users, i)]
    BY <2>1 DEF IsRest
  <2> DEFINE step(i) == RestStep(g, s, users, i)
  <2>3. g = [i \in 0 .. Len(s) |-> step(i)]
    BY <2>2
  <2> HIDE DEF step
  <2>4. \A i \in 0 .. Len(s) : g[i] = step(i)
    BY <2>3
  <2> QED
    BY <2>4 DEF step
<1> HIDE DEF g
<1>3. 0 \in H
  <2>1. g[0] = << >>
    BY <1>1, <1>2 DEF RestStep
  <2>2. RestOfFirst(<< >>, s, users, 0)
    BY DEF RestOfFirst
  <2> QED
    BY <2>1, <2>2
<1>4. ASSUME NEW i \in Nat, i \in H
      PROVE  i + 1 \in H
  <2> SUFFICES ASSUME i + 1 <= Len(s)
               PROVE  RestOfFirst(g[i + 1], s, users, i + 1)
    OBVIOUS
  <2>1. RestOfFirst(g[i], s, users, i) /\ i < Len(s)
    BY <1>1, <1>4
  <2>2. g[i + 1] = IF s[i + 1] \in users THEN g[i] ELSE Append(g[i], s[i + 1])
    <3>1. g[i + 1] = RestStep(g, s, users, i + 1) /\ i + 1 # 0 /\ (i + 1) - 1 = i
      BY <1>1, <1>2
    <3> QED
      BY <3>1 DEF RestStep
  <2> QED
    BY <2>1, <2>2, RestGrows
<1>5. Len(s) \in H
  <2> HIDE DEF H
  <2> QED
    BY <1>1, <1>3, <1>4, NaturalsInSet
<1> QED
  BY <1>1, <1>5 DEF g

(* The order lists users of the cache, each once, and those that are cached. *)
OrderListsCached ==
    /\ cacheOrder \in Seq(CacheUsers)
    /\ \A j, k \in 1 .. Len(cacheOrder) : cacheOrder[j] = cacheOrder[k] => j = k
    /\ \A u \in CacheUsers :
          accessCache[u] # NoAccess <=> \E k \in 1 .. Len(cacheOrder) : cacheOrder[k] = u
OrderInv ==
    /\ OrderListsCached
    /\ Len(cacheOrder) <= MaxCached

LEMMA WithoutHolds ==
  ASSUME OrderListsCached, NEW users
  PROVE  RestOfFirst(Without(users), cacheOrder, users, Len(cacheOrder))
  BY RestHolds, WithoutIsRest DEF OrderListsCached

LEMMA OrderBounds == OrderInv => CacheBounded
<1> SUFFICES ASSUME OrderInv PROVE CacheBounded
  OBVIOUS
<1>1. /\ Len(cacheOrder) <= MaxCached /\ Len(cacheOrder) \in Nat
      /\ DOMAIN cacheOrder = 1 .. Len(cacheOrder)
      /\ \A k \in 1 .. Len(cacheOrder) : cacheOrder[k] \in CacheUsers
  BY DEF OrderInv, OrderListsCached
<1>2. IsInjective(cacheOrder)
  BY <1>1 DEF IsInjective, OrderInv, OrderListsCached
<1>3. ToSet(cacheOrder) = {u \in CacheUsers : accessCache[u] # NoAccess}
  BY <1>1 DEF ToSet, OrderInv, OrderListsCached
<1> QED
  BY <1>1, <1>2, <1>3 DEF CacheBounded

(* store: the user's own entry moves to the end, and if it is a new one and
   the cache is full, the oldest makes room. *)
LEMMA StoreKeepsOrder ==
  ASSUME RbacIInv, OrderInv, NEW l \in Checks, StoreLoaded(l)
  PROVE  OrderInv'
<1> DEFINE u == accessLoad[l].user
           kept == [version |-> accessLoad[l].grant.version, fresh |-> TRUE]
           gone == Evicted(u) \cup {u}
           r == Without(gone)
<1>1. CASE ~Kept(l)
  <2>1. UNCHANGED << accessCache, cacheOrder >>
    BY <1>1 DEF StoreLoaded
  <2> QED
    BY <2>1 DEF OrderInv, OrderListsCached
<1>2. CASE Kept(l)
  <2>1. /\ cacheOrder' = Append(r, u)
        /\ accessCache' = [v \in CacheUsers |->
                             IF v = u THEN kept
                             ELSE IF v \in Evicted(u) THEN NoAccess ELSE accessCache[v]]
        /\ u \in CacheUsers
    BY <1>2 DEF StoreLoaded, RbacIInv, LoadsRun, Runs
  <2>2. kept # NoAccess
    <3>1. accessLoad[l].grant.version \in Nat
      BY DEF RbacIInv, RbacTypeOK, Load, Grant
    <3>2. kept \in [version : Nat, fresh : BOOLEAN]
      BY <3>1
    <3> HIDE DEF kept
    <3> QED
      BY <3>2, NoAccessAssumption
  <2>3. RestOfFirst(r, cacheOrder, gone, Len(cacheOrder))
    BY WithoutHolds DEF OrderInv
  <2>4. /\ Len(cacheOrder) \in Nat /\ MaxCached \in Nat \ {0} /\ Len(cacheOrder) <= MaxCached
        /\ r \in Seq(CacheUsers) /\ Len(r) \in Nat /\ Len(r) <= Len(cacheOrder)
    BY <2>3, MaxCachedAssumption DEF RestOfFirst, OrderInv, OrderListsCached
  <2>5. Len(r) < MaxCached
    <3>1. CASE accessCache[u] # NoAccess
      <4>1. \E k \in 1 .. Len(cacheOrder) : cacheOrder[k] \in gone
        BY <2>1, <3>1 DEF OrderInv, OrderListsCached
      <4> QED
        BY <2>3, <2>4, <4>1 DEF RestOfFirst
    <3>2. CASE accessCache[u] = NoAccess /\ Len(cacheOrder) >= MaxCached
      <4>1. Head(cacheOrder) = cacheOrder[1] /\ 1 \in 1 .. Len(cacheOrder)
        BY <2>4, <3>2 DEF OrderInv, OrderListsCached
      <4>2. cacheOrder[1] \in gone
        BY <3>2, <4>1 DEF Evicted
      <4> QED
        BY <2>3, <2>4, <4>1, <4>2 DEF RestOfFirst
    <3>3. CASE Len(cacheOrder) < MaxCached
      BY <2>4, <3>3
    <3> QED
      BY <2>4, <3>1, <3>2, <3>3
  <2>6. /\ cacheOrder' \in Seq(CacheUsers) /\ Len(cacheOrder') = Len(r) + 1
        /\ cacheOrder'[Len(r) + 1] = u
        /\ \A k \in 1 .. Len(r) : cacheOrder'[k] = r[k]
        /\ \A k \in 1 .. Len(cacheOrder') : k \in 1 .. Len(r) \/ k = Len(r) + 1
    BY <2>1, <2>4
  <2>7. \A k \in 1 .. Len(r) : r[k] # u
    BY <2>3 DEF RestOfFirst
  <2>8. \A v \in CacheUsers \ {u} :
           accessCache'[v] # NoAccess <=> accessCache[v] # NoAccess /\ v \notin gone
    BY <2>1
  <2>9. accessCache'[u] # NoAccess
    BY <2>1, <2>2
  <2> HIDE DEF u, kept, gone, r
  <2>10. \A k, m \in 1 .. Len(cacheOrder') : cacheOrder'[k] = cacheOrder'[m] => k = m
    <3> SUFFICES ASSUME NEW k \in 1 .. Len(cacheOrder'), NEW m \in 1 .. Len(cacheOrder'),
                        cacheOrder'[k] = cacheOrder'[m]
                 PROVE  k = m
      OBVIOUS
    <3>1. CASE k \in 1 .. Len(r) /\ m \in 1 .. Len(r)
      <4>1. r[k] = r[m]
        BY <2>6, <3>1
      <4> QED
        BY <2>3, <3>1, <4>1 DEF RestOfFirst
    <3>2. CASE k \in 1 .. Len(r) /\ m = Len(r) + 1
      BY <2>6, <2>7, <3>2
    <3>3. CASE k = Len(r) + 1 /\ m \in 1 .. Len(r)
      BY <2>6, <2>7, <3>3
    <3>4. CASE k = Len(r) + 1 /\ m = Len(r) + 1
      BY <3>4
    <3> QED
      BY <2>6, <3>1, <3>2, <3>3, <3>4
  <2>11. \A v \in CacheUsers :
            accessCache'[v] # NoAccess <=> \E k \in 1 .. Len(cacheOrder') : cacheOrder'[k] = v
    <3> SUFFICES ASSUME NEW v \in CacheUsers
                 PROVE  accessCache'[v] # NoAccess
                           <=> \E k \in 1 .. Len(cacheOrder') : cacheOrder'[k] = v
      OBVIOUS
    <3>1. CASE v = u
      <4>1. Len(r) + 1 \in 1 .. Len(cacheOrder')
        BY <2>4, <2>6
      <4> QED
        BY <2>6, <2>9, <3>1, <4>1
    <3>2. CASE v # u
      <4>1. (\E k \in 1 .. Len(cacheOrder') : cacheOrder'[k] = v) <=> \E k \in 1 .. Len(r) : r[k] = v
        BY <2>4, <2>6, <3>2
      <4>2. (\E k \in 1 .. Len(r) : r[k] = v)
               <=> \E j \in 1 .. Len(cacheOrder) : cacheOrder[j] = v /\ v \notin gone
        BY <2>3 DEF RestOfFirst
      <4>3. (\E j \in 1 .. Len(cacheOrder) : cacheOrder[j] = v) <=> accessCache[v] # NoAccess
        BY DEF OrderInv, OrderListsCached
      <4> QED
        BY <2>8, <3>2, <4>1, <4>2, <4>3
    <3> QED
      BY <3>1, <3>2
  <2>12. Len(cacheOrder') <= MaxCached
    BY <2>4, <2>5, <2>6
  <2> QED
    BY <2>6, <2>10, <2>11, <2>12 DEF OrderInv, OrderListsCached
<1> QED
  BY <1>1, <1>2

LEMMA InvalidateKeepsOrder ==
  ASSUME OrderInv, NEW users \in SUBSET CacheUsers, Invalidate(users)
  PROVE  OrderInv'
<1> DEFINE r == Without(users)
<1>1. /\ cacheOrder' = r
      /\ \A u \in CacheUsers : accessCache'[u] = IF u \in users THEN NoAccess ELSE accessCache[u]
  BY DEF Invalidate
<1>2. RestOfFirst(r, cacheOrder, users, Len(cacheOrder))
  BY WithoutHolds DEF OrderInv
<1> HIDE DEF r
<1>3. Len(cacheOrder) \in Nat /\ Len(r) \in Nat /\ Len(r) <= MaxCached /\ r \in Seq(CacheUsers)
  BY <1>2, MaxCachedAssumption DEF RestOfFirst, OrderInv, OrderListsCached
<1>4. \A j, k \in 1 .. Len(r) : r[j] = r[k] => j = k
  BY <1>2 DEF RestOfFirst
<1>5. ASSUME NEW u \in CacheUsers
      PROVE  accessCache'[u] # NoAccess <=> \E k \in 1 .. Len(r) : r[k] = u
  <2>1. (\E k \in 1 .. Len(r) : r[k] = u)
           <=> \E j \in 1 .. Len(cacheOrder) : cacheOrder[j] = u /\ u \notin users
    BY <1>2 DEF RestOfFirst
  <2>2. (\E j \in 1 .. Len(cacheOrder) : cacheOrder[j] = u) <=> accessCache[u] # NoAccess
    BY DEF OrderInv, OrderListsCached
  <2> QED
    BY <1>1, <2>1, <2>2
<1> QED
  BY <1>1, <1>3, <1>4, <1>5 DEF OrderInv, OrderListsCached

LEMMA ExpireKeepsOrder ==
  ASSUME RbacIInv, OrderInv, NEW u \in CacheUsers, ExpireAccess(u)
  PROVE  OrderInv'
<1>1. /\ accessCache[u] # NoAccess /\ accessCache[u] \in Access
      /\ accessCache' = [accessCache EXCEPT ![u].fresh = FALSE] /\ UNCHANGED cacheOrder
  BY DEF ExpireAccess, Hit, RbacIInv, RbacTypeOK
<1>2. accessCache'[u] \in Access /\ \A v \in CacheUsers \ {u} : accessCache'[v] = accessCache[v]
  BY <1>1 DEF RbacIInv, RbacTypeOK, Access
<1>3. accessCache'[u] # NoAccess
  BY <1>2, NoAccessAssumption DEF Access
<1> QED
  BY <1>1, <1>2, <1>3 DEF OrderInv, OrderListsCached

LEMMA OrderStays == RbacIInv /\ OrderInv /\ [RbacNext]_rbacVars => OrderInv'
<1> SUFFICES ASSUME RbacIInv, OrderInv, [RbacNext]_rbacVars PROVE OrderInv'
  OBVIOUS
<1>1. CASE UNCHANGED << accessCache, cacheOrder >>
  BY <1>1 DEF OrderInv, OrderListsCached
<1>2. CASE RbacNext
  BY <1>1, <1>2, StoreKeepsOrder, InvalidateKeepsOrder, ExpireKeepsOrder
     DEF RbacNext, LoadStep, ServeCached, JoinLoad, StartLoad, ReadRoles, SettleLoad, FailLoad,
         ChangeRoles
<1> QED
  BY <1>1, <1>2 DEF rbacVars

(* The cache never holds more than MAX_CACHED_USERS entries, and the order by
   which store evicts lists each cached user once (rbac.service.ts:218-235),
   whatever is loaded, expires or is invalidated meanwhile. *)
THEOREM CacheBoundedHolds == RbacSpec => []CacheBounded
<1>1. RbacInit => OrderInv
  <2> SUFFICES ASSUME RbacInit PROVE OrderInv
    OBVIOUS
  <2>1. cacheOrder = << >> /\ \A u \in CacheUsers : accessCache[u] = NoAccess
    BY DEF RbacInit
  <2>2. Len(cacheOrder) = 0 /\ cacheOrder \in Seq(CacheUsers)
    BY <2>1
  <2> QED
    BY <2>1, <2>2, MaxCachedAssumption DEF OrderInv, OrderListsCached
<1> QED
  BY <1>1, RbacInvariant, OrderStays, OrderBounds, PTL DEF RbacSpec

-----------------------------------------------------------------------------
(* OtpLogin and RateLimit.                                                 *)

(* What a change of one element does to the number of those with a property. *)
LEMMA OneChanges ==
  ASSUME NEW S, IsFiniteSet(S), NEW A \in SUBSET S, NEW B \in SUBSET S, NEW x \in S,
         \A y \in S \ {x} : y \in A <=> y \in B
  PROVE  /\ Cardinality(A) \in Nat /\ Cardinality(B) \in Nat
         /\ x \in A /\ x \in B => Cardinality(B) = Cardinality(A)
         /\ x \notin A /\ x \notin B => Cardinality(B) = Cardinality(A)
         /\ x \in A /\ x \notin B => Cardinality(B) = Cardinality(A) - 1
         /\ x \notin A /\ x \in B => Cardinality(B) = Cardinality(A) + 1
<1>1. IsFiniteSet(A) /\ IsFiniteSet(B)
  BY FS_Subset
<1>2. Cardinality(A) \in Nat /\ Cardinality(B) \in Nat
  BY <1>1, FS_CardinalityType
<1>3. (x \in A <=> x \in B) => A = B
  OBVIOUS
<1>4. x \in A /\ x \notin B => B = A \ {x}
  OBVIOUS
<1>5. x \notin A /\ x \in B => B = A \cup {x}
  OBVIOUS
<1>6. Cardinality(A \ {x}) = IF x \in A THEN Cardinality(A) - 1 ELSE Cardinality(A)
  BY <1>1, FS_RemoveElement
<1>7. Cardinality(A \cup {x}) = IF x \in A THEN Cardinality(A) ELSE Cardinality(A) + 1
  BY <1>1, FS_AddElement
<1> QED
  BY <1>2, <1>3, <1>4, <1>5, <1>6, <1>7

-----------------------------------------------------------------------------
(* OtpLogin.                                                               *)

Missing == {c \in OtpCalls : otpCall[c].at = "miss"}

OtpIInv == OtpTypeOK /\ WrongGuessesCounted /\ RequestWindowEnds

LEMMA OtpInitial == OtpInit => OtpIInv
<1> SUFFICES ASSUME OtpInit PROVE OtpIInv
  OBVIOUS
<1>1. OtpTypeOK
  BY DEF OtpInit, OtpTypeOK, NoKey, NoRequests, NoOtpCall, OtpCall, OtpStages
<1>2. otpKey.code = NoCode /\ requests.count = 0
  BY DEF OtpInit, NoKey, NoRequests
<1> QED
  BY <1>1, <1>2 DEF OtpIInv, WrongGuessesCounted, RequestWindowEnds

LEMMA OtpTypeStep == OtpTypeOK /\ [OtpNext]_otpVars => OtpTypeOK'
<1> SUFFICES ASSUME OtpTypeOK, [OtpNext]_otpVars PROVE OtpTypeOK'
  OBVIOUS
<1> DEFINE KeyType == [code : Codes \cup {NoCode}, attempts : Nat, expires : BOOLEAN]
           CountType == [count : Nat, expires : BOOLEAN]
<1>1. /\ otpKey \in KeyType /\ requests \in CountType /\ otpCall \in [OtpCalls -> OtpCall]
      /\ cooldown \in BOOLEAN /\ wrongGuesses \in Nat /\ uncounted \in Nat /\ unlimited \in BOOLEAN
      /\ NoKey \in KeyType /\ NoRequests \in CountType /\ NoOtpCall \in OtpCall
  BY DEF OtpTypeOK, NoKey, NoRequests, NoOtpCall, OtpCall, OtpStages
<1>2. ASSUME NEW c \in OtpCalls, NEW stage \in OtpStages, OtpGoto(c, stage)
      PROVE  otpCall' \in [OtpCalls -> OtpCall]
  BY <1>1, <1>2 DEF OtpGoto, OtpCall
<1>3. ASSUME NEW c \in OtpCalls, OtpDone(c)
      PROVE  otpCall' \in [OtpCalls -> OtpCall]
  BY <1>1, <1>3 DEF OtpDone
<1>4. ASSUME NEW c \in OtpCalls, GenerateStart(c) \/ GenerateDraw(c) \/ GenerateCool(c)
      PROVE  OtpTypeOK'
  <2>1. otpCall' \in [OtpCalls -> OtpCall]
    <3>1. CASE GenerateStart(c) \/ GenerateCool(c)
      BY <1>2, <3>1 DEF GenerateStart, GenerateCool, OtpStages
    <3>2. CASE GenerateDraw(c)
      BY <1>1, <1>3, <3>2 DEF GenerateDraw, OtpCall, OtpStages
    <3> QED
      BY <1>4, <3>1, <3>2
  <2> QED
    BY <1>1, <1>4, <2>1 DEF GenerateStart, GenerateDraw, GenerateCool, OtpTypeOK
<1>5. ASSUME NEW c \in OtpCalls, GenerateStore(c)
      PROVE  OtpTypeOK'
  <2>1. otpCall' \in [OtpCalls -> OtpCall]
    BY <1>2, <1>5 DEF GenerateStore, OtpStages
  <2>2. otpKey' \in KeyType
    BY <1>1, <1>5 DEF GenerateStore, OtpCall
  <2> QED
    BY <1>1, <1>5, <2>1, <2>2 DEF GenerateStore, OtpTypeOK
<1>6. ASSUME NEW c \in OtpCalls, GenerateExpire(c)
      PROVE  OtpTypeOK'
  <2>1. otpCall' \in [OtpCalls -> OtpCall]
    BY <1>2, <1>6 DEF GenerateExpire, OtpStages
  <2>2. otpKey' \in KeyType
    BY <1>1, <1>6 DEF GenerateExpire
  <2> QED
    BY <1>1, <1>6, <2>1, <2>2 DEF GenerateExpire, OtpTypeOK
<1>7. ASSUME NEW c \in OtpCalls, GenerateCount(c) \/ GenerateWindow(c)
      PROVE  OtpTypeOK'
  <2>1. otpCall' \in [OtpCalls -> OtpCall]
    BY <1>2, <1>3, <1>7 DEF GenerateCount, GenerateWindow, OtpStages
  <2>2. requests' \in CountType
    <3>1. CASE GenerateCount(c)
      BY <1>1, <3>1 DEF GenerateCount
    <3>2. CASE GenerateWindow(c)
      <4>1. CASE requests.count > 0
        <5>1. (requests.count > 0) = TRUE
          BY <4>1
        <5>2. requests' = [requests EXCEPT !.expires = TRUE]
          BY <3>2, <5>1 DEF GenerateWindow
        <5> QED
          BY <1>1, <5>2
      <4>2. CASE ~(requests.count > 0)
        <5>1. (requests.count > 0) = FALSE
          BY <4>2
        <5>2. requests' = [requests EXCEPT !.expires = FALSE]
          BY <3>2, <5>1 DEF GenerateWindow
        <5> QED
          BY <1>1, <5>2
      <4> QED
        BY <4>1, <4>2
    <3> QED
      BY <1>7, <3>1, <3>2
  <2>3. UNCHANGED << otpKey, cooldown, wrongGuesses, uncounted, unlimited >>
    BY <1>7 DEF GenerateCount, GenerateWindow
  <2> QED
    BY <1>1, <2>1, <2>2, <2>3 DEF OtpTypeOK
<1>8. ASSUME NEW c \in OtpCalls, VerifyRead(c)
      PROVE  OtpTypeOK'
  <2>1. PICK stage \in {"discard", "miss", "spend"} :
          otpCall' = [otpCall EXCEPT ![c] = [at |-> stage, code |-> otpKey.code,
                                             seen |-> otpKey.attempts]]
    BY <1>8 DEF VerifyRead
  <2>2. otpCall' \in [OtpCalls -> OtpCall] /\ wrongGuesses' \in Nat
    BY <1>1, <1>8, <2>1 DEF VerifyRead, OtpCall, OtpStages
  <2> QED
    BY <1>1, <1>8, <2>2 DEF VerifyRead, OtpTypeOK
<1>9. ASSUME NEW c \in OtpCalls, VerifyMiss(c)
      PROVE  OtpTypeOK'
  <2>1. otpCall' \in [OtpCalls -> OtpCall]
    BY <1>2, <1>3, <1>9 DEF VerifyMiss, OtpStages
  <2>2. otpKey' \in KeyType
    BY <1>1, <1>9 DEF VerifyMiss, AttemptsCounted
  <2> QED
    BY <1>1, <1>9, <2>1, <2>2 DEF VerifyMiss, OtpTypeOK
<1>10. ASSUME NEW c \in OtpCalls, VerifyDelete(c) \/ OtpCallFails(c)
       PROVE  OtpTypeOK'
  <2>1. otpCall' \in [OtpCalls -> OtpCall]
    BY <1>3, <1>10 DEF VerifyDelete, OtpCallFails
  <2>2. /\ UNCHANGED << cooldown, requests >>
        /\ otpKey' = otpKey \/ otpKey' = NoKey
    BY <1>10 DEF VerifyDelete, OtpCallFails
  <2>3. wrongGuesses' \in Nat /\ uncounted' \in Nat
    BY <1>1, <1>10 DEF VerifyDelete, OtpCallFails
  <2>4. unlimited' \in BOOLEAN
    BY <1>1, <1>10 DEF VerifyDelete, OtpCallFails
  <2> QED
    BY <1>1, <2>1, <2>2, <2>3, <2>4 DEF OtpTypeOK
<1>11. CASE CodeExpires \/ CooldownExpires \/ RequestsExpire
  <2>1. /\ otpKey' = otpKey \/ otpKey' = NoKey
        /\ requests' = requests \/ requests' = NoRequests
        /\ wrongGuesses' = wrongGuesses \/ wrongGuesses' = 0
        /\ uncounted' = uncounted \/ uncounted' = 0
        /\ UNCHANGED << otpCall, unlimited >>
    BY <1>11 DEF CodeExpires, CooldownExpires, RequestsExpire
  <2>2. cooldown' \in BOOLEAN
    BY <1>1, <1>11 DEF CodeExpires, CooldownExpires, RequestsExpire
  <2> HIDE DEF KeyType, CountType
  <2>3. /\ otpKey' \in KeyType /\ requests' \in CountType /\ wrongGuesses' \in Nat
        /\ uncounted' \in Nat /\ otpCall' \in [OtpCalls -> OtpCall] /\ unlimited' \in BOOLEAN
    BY <1>1, <2>1
  <2> QED
    BY <2>2, <2>3 DEF OtpTypeOK, KeyType, CountType
<1>12. CASE UNCHANGED otpVars
  BY <1>12 DEF otpVars, OtpTypeOK
<1> QED
  BY <1>4, <1>5, <1>6, <1>7, <1>8, <1>9, <1>10, <1>11, <1>12 DEF OtpNext

(* Per kind of step: what it does to the calls between a wrong code and its
   hincrby, and to both sides of the inequality. *)
LEMMA GuessesStep == OtpIInv /\ [OtpNext]_otpVars => WrongGuessesCounted'
<1> SUFFICES ASSUME OtpIInv, [OtpNext]_otpVars PROVE WrongGuessesCounted'
  OBVIOUS
<1>1. OtpTypeOK /\ OtpTypeOK'
  BY OtpTypeStep DEF OtpIInv
<1>2. otpKey.code # NoCode => wrongGuesses <= otpKey.attempts + uncounted + Cardinality(Missing)
  BY DEF OtpIInv, WrongGuessesCounted, Missing
<1> SUFFICES ASSUME otpKey'.code # NoCode
             PROVE  wrongGuesses' <= otpKey'.attempts + uncounted' + Cardinality(Missing')
  BY DEF WrongGuessesCounted, Missing
<1>3. ASSUME NEW c \in OtpCalls,
             \A d \in OtpCalls \ {c} : otpCall'[d] = otpCall[d]
      PROVE  /\ Cardinality(Missing) \in Nat /\ Cardinality(Missing') \in Nat
             /\ otpCall[c].at = "miss" /\ otpCall'[c].at = "miss" =>
                   Cardinality(Missing') = Cardinality(Missing)
             /\ otpCall[c].at # "miss" /\ otpCall'[c].at # "miss" =>
                   Cardinality(Missing') = Cardinality(Missing)
             /\ otpCall[c].at = "miss" /\ otpCall'[c].at # "miss" =>
                   Cardinality(Missing') = Cardinality(Missing) - 1
             /\ otpCall[c].at # "miss" /\ otpCall'[c].at = "miss" =>
                   Cardinality(Missing') = Cardinality(Missing) + 1
  <2> DEFINE now == Missing
             next == Missing'
  <2>1. /\ now \in SUBSET OtpCalls /\ next \in SUBSET OtpCalls
        /\ \A d \in OtpCalls \ {c} : d \in now <=> d \in next
        /\ c \in now <=> otpCall[c].at = "miss"
        /\ c \in next <=> otpCall'[c].at = "miss"
    BY <1>3 DEF Missing
  <2>2. IsFiniteSet(OtpCalls)
    BY OtpAssumption
  <2> HIDE DEF now, next
  <2>3. /\ Cardinality(now) \in Nat /\ Cardinality(next) \in Nat
        /\ c \in now /\ c \in next => Cardinality(next) = Cardinality(now)
        /\ c \notin now /\ c \notin next => Cardinality(next) = Cardinality(now)
        /\ c \in now /\ c \notin next => Cardinality(next) = Cardinality(now) - 1
        /\ c \notin now /\ c \in next => Cardinality(next) = Cardinality(now) + 1
    BY <2>1, <2>2, OneChanges
  <2> QED
    BY <2>1, <2>3 DEF now, next
<1>4. ASSUME NEW c \in OtpCalls,
             GenerateStart(c) \/ GenerateDraw(c) \/ GenerateExpire(c) \/ GenerateCool(c)
               \/ GenerateCount(c) \/ GenerateWindow(c)
      PROVE  wrongGuesses' <= otpKey'.attempts + uncounted' + Cardinality(Missing')
  <2>1. /\ wrongGuesses' = wrongGuesses /\ uncounted' = uncounted
        /\ otpKey'.code = otpKey.code /\ otpKey'.attempts = otpKey.attempts
    BY <1>1, <1>4
       DEF GenerateStart, GenerateDraw, GenerateExpire, GenerateCool, GenerateCount,
           GenerateWindow, OtpTypeOK
  <2>2. /\ otpCall[c].at # "miss" /\ otpCall'[c].at # "miss"
        /\ \A d \in OtpCalls \ {c} : otpCall'[d] = otpCall[d]
    BY <1>1, <1>4
       DEF GenerateStart, GenerateDraw, GenerateExpire, GenerateCool, GenerateCount,
           GenerateWindow, OtpTypeOK, OtpGoto, OtpDone, NoOtpCall, OtpCall
  <2> QED
    BY <1>2, <1>3, <2>1, <2>2
<1>5. ASSUME NEW c \in OtpCalls, GenerateStore(c)
      PROVE  wrongGuesses' <= otpKey'.attempts + uncounted' + Cardinality(Missing')
  <2>1. /\ wrongGuesses' = 0 /\ uncounted' \in Nat /\ otpKey'.attempts \in Nat
        /\ \A d \in OtpCalls \ {c} : otpCall'[d] = otpCall[d]
    BY <1>1, <1>5 DEF GenerateStore, OtpTypeOK, OtpGoto
  <2> QED
    BY <1>3, <2>1
<1>6. ASSUME NEW c \in OtpCalls, VerifyRead(c)
      PROVE  wrongGuesses' <= otpKey'.attempts + uncounted' + Cardinality(Missing')
  <2>1. /\ otpCall[c].at = "idle" /\ UNCHANGED << otpKey, uncounted >>
        /\ \A d \in OtpCalls \ {c} : otpCall'[d] = otpCall[d]
        /\ \/ wrongGuesses' = wrongGuesses /\ otpCall'[c].at # "miss"
           \/ wrongGuesses' = wrongGuesses + 1 /\ otpCall'[c].at = "miss"
    <3>1. PICK code \in Codes :
            LET wrong == otpKey.attempts < MaxAttempts /\ code # otpKey.code
            IN  /\ wrongGuesses' = IF wrong THEN wrongGuesses + 1 ELSE wrongGuesses
                /\ otpCall' = [otpCall EXCEPT ![c] =
                      [at |-> IF otpKey.attempts >= MaxAttempts THEN "discard"
                              ELSE IF wrong THEN "miss" ELSE "spend",
                       code |-> otpKey.code, seen |-> otpKey.attempts]]
      BY <1>6 DEF VerifyRead
    <3>2. otpKey.attempts \in Nat /\ MaxAttempts \in Nat
      BY <1>1, OtpAssumption DEF OtpTypeOK
    <3> QED
      BY <1>1, <1>6, <3>1, <3>2 DEF VerifyRead, OtpTypeOK
  <2>2. wrongGuesses \in Nat /\ uncounted \in Nat /\ otpKey.attempts \in Nat
    BY <1>1 DEF OtpTypeOK
  <2> QED
    BY <1>2, <1>3, <2>1, <2>2
<1>7. ASSUME NEW c \in OtpCalls, VerifyMiss(c)
      PROVE  wrongGuesses' <= otpKey'.attempts + uncounted' + Cardinality(Missing')
  <2>1. /\ otpCall[c].at = "miss" /\ otpCall'[c].at # "miss"
        /\ \A d \in OtpCalls \ {c} : otpCall'[d] = otpCall[d]
        /\ otpKey'.attempts = otpKey.attempts + 1 /\ otpKey'.code = otpKey.code
        /\ UNCHANGED << wrongGuesses, uncounted >>
    BY <1>1, <1>7 DEF VerifyMiss, AttemptsCounted, OtpTypeOK, OtpGoto, OtpDone, NoOtpCall, OtpCall
  <2>2. wrongGuesses \in Nat /\ uncounted \in Nat /\ otpKey.attempts \in Nat
    BY <1>1 DEF OtpTypeOK
  <2> QED
    BY <1>2, <1>3, <2>1, <2>2
<1>8. ASSUME NEW c \in OtpCalls, OtpCallFails(c)
      PROVE  wrongGuesses' <= otpKey'.attempts + uncounted' + Cardinality(Missing')
  <2>1. /\ otpCall'[c].at # "miss" /\ UNCHANGED << otpKey, wrongGuesses >>
        /\ \A d \in OtpCalls \ {c} : otpCall'[d] = otpCall[d]
        /\ otpKey.code # NoCode
        /\ uncounted' = IF otpCall[c].at = "miss" THEN uncounted + 1 ELSE uncounted
    BY <1>1, <1>8 DEF OtpCallFails, OtpTypeOK, OtpDone, NoOtpCall
  <2>2. wrongGuesses \in Nat /\ uncounted \in Nat /\ otpKey.attempts \in Nat
    BY <1>1 DEF OtpTypeOK
  <2> QED
    BY <1>2, <1>3, <2>1, <2>2
<1>9. ASSUME NEW c \in OtpCalls, VerifyDelete(c)
      PROVE  FALSE
  BY <1>9 DEF VerifyDelete, NoKey
<1>10. CASE CodeExpires
  BY <1>10 DEF CodeExpires, NoKey
<1>11. CASE CooldownExpires \/ RequestsExpire \/ UNCHANGED otpVars
  BY <1>2, <1>11 DEF CooldownExpires, RequestsExpire, otpVars, Missing
<1> QED
  BY <1>4, <1>5, <1>6, <1>7, <1>8, <1>9, <1>10, <1>11 DEF OtpNext

LEMMA WindowStep == OtpIInv /\ [OtpNext]_otpVars => RequestWindowEnds'
<1> SUFFICES ASSUME OtpIInv, [OtpNext]_otpVars PROVE RequestWindowEnds'
  OBVIOUS
<1>1. OtpTypeOK /\ RequestWindowEnds
  BY DEF OtpIInv
<1>2. ASSUME NEW c \in OtpCalls,
             GenerateStart(c) \/ GenerateDraw(c) \/ GenerateStore(c) \/ GenerateExpire(c)
               \/ GenerateCool(c) \/ VerifyRead(c) \/ VerifyMiss(c) \/ VerifyDelete(c)
      PROVE  RequestWindowEnds'
  <2>1. /\ otpCall[c].at # "window" /\ UNCHANGED << requests, unlimited >>
        /\ \A d \in OtpCalls \ {c} : otpCall'[d] = otpCall[d]
    BY <1>1, <1>2
       DEF GenerateStart, GenerateDraw, GenerateStore, GenerateExpire, GenerateCool, VerifyRead,
           VerifyMiss, VerifyDelete, OtpTypeOK, OtpGoto, OtpDone
  <2> QED
    BY <1>1, <2>1 DEF RequestWindowEnds
<1>3. ASSUME NEW c \in OtpCalls, GenerateCount(c)
      PROVE  RequestWindowEnds'
  <2>1. /\ otpCall[c].at = "count" /\ UNCHANGED unlimited
        /\ requests.count \in Nat /\ requests'.count = requests.count + 1
        /\ requests'.expires = requests.expires
        /\ \A d \in OtpCalls \ {c} : otpCall'[d] = otpCall[d]
        /\ requests.count = 0 => otpCall'[c].at = "window"
    BY <1>1, <1>3 DEF GenerateCount, OpensWindow, OtpTypeOK, OtpGoto, OtpDone, OtpCall
  <2> QED
    BY <1>1, <2>1 DEF RequestWindowEnds
<1>4. ASSUME NEW c \in OtpCalls, GenerateWindow(c)
      PROVE  RequestWindowEnds'
  BY <1>1, <1>4 DEF GenerateWindow, RequestWindowEnds, OtpTypeOK
<1>5. ASSUME NEW c \in OtpCalls, OtpCallFails(c)
      PROVE  RequestWindowEnds'
  BY <1>1, <1>5 DEF OtpCallFails, RequestWindowEnds, OtpTypeOK, OtpDone
<1>6. CASE CodeExpires \/ CooldownExpires \/ RequestsExpire \/ UNCHANGED otpVars
  BY <1>1, <1>6 DEF CodeExpires, CooldownExpires, RequestsExpire, otpVars, NoRequests,
                    RequestWindowEnds
<1> QED
  BY <1>2, <1>3, <1>4, <1>5, <1>6 DEF OtpNext

THEOREM OtpInvariant == OtpSpec => []OtpIInv
<1>1. OtpIInv /\ [OtpNext]_otpVars => OtpIInv'
  BY OtpTypeStep, GuessesStep, WindowStep DEF OtpIInv
<1> QED
  BY <1>1, OtpInitial, PTL DEF OtpSpec

(* Overlapping verify calls lose no attempt (otp.service.ts hincrby). *)
THEOREM WrongGuessesCountedHolds == OtpSpec => []WrongGuessesCounted
<1>1. OtpIInv => WrongGuessesCounted
  BY DEF OtpIInv
<1> QED
  BY <1>1, OtpInvariant, PTL

(* The count of requests of a phone ends with its hour (otp.service.ts incr and
   expire), unless a call died between the two. *)
THEOREM RequestWindowEndsHolds == OtpSpec => []RequestWindowEnds
<1>1. OtpIInv => RequestWindowEnds
  BY DEF OtpIInv
<1> QED
  BY <1>1, OtpInvariant, PTL

-----------------------------------------------------------------------------
(* RateLimit.                                                              *)

(* Requests of the current window that will pass by their count. *)
Passing == {r \in Requests : /\ rateCall[r].at # "idle"
                             /\ rateCall[r].window = window
                             /\ rateCall[r].count <= Limit}

(* A request knows a window that was; of the current one it has raised the
   count, and it decides once the key expires. *)
RequestsKnow ==
    \A r \in Requests : rateCall[r].at # "idle" =>
        /\ rateCall[r].window <= window
        /\ rateCall[r].window = window =>
              /\ rateKey.count > 0
              /\ rateCall[r].at = "decide" => rateKey.expires

RateIInv ==
    /\ RateTypeOK
    /\ RequestsKnow
    /\ rateKey.expires => rateKey.count > 0
    /\ refused => rateKey.expires
    /\ passed + Cardinality(Passing) <= Limit
    /\ passed + Cardinality(Passing) <= rateKey.count

LEMMA PassingFinite == IsFiniteSet(Passing) /\ Cardinality(Passing) \in Nat
<1>1. IsFiniteSet(Requests) /\ Passing \in SUBSET Requests
  BY RateAssumption DEF Passing
<1> QED
  BY <1>1, FS_Subset, FS_CardinalityType

LEMMA RateInitial == RateInit => RateIInv
<1> SUFFICES ASSUME RateInit PROVE RateIInv
  OBVIOUS
<1>1. \A r \in Requests : rateCall[r].at = "idle"
  BY DEF RateInit, NotCounted
<1>2. Cardinality(Passing) = 0
  BY <1>1, FS_EmptySet DEF Passing
<1>3. RateTypeOK
  BY DEF RateInit, RateTypeOK, NotCounted, RateCall
<1>4. passed = 0 /\ rateKey.count = 0 /\ ~rateKey.expires /\ ~refused
  BY DEF RateInit
<1> QED
  BY <1>1, <1>2, <1>3, <1>4, RateAssumption DEF RateIInv, RequestsKnow

(* A step of one request, in the same window. *)
LEMMA PassingChanges ==
  ASSUME NEW r \in Requests, UNCHANGED window,
         \A q \in Requests \ {r} : rateCall'[q] = rateCall[q]
  PROVE  /\ Cardinality(Passing) \in Nat /\ Cardinality(Passing') \in Nat
         /\ r \in Passing /\ r \in Passing' => Cardinality(Passing') = Cardinality(Passing)
         /\ r \notin Passing /\ r \notin Passing' => Cardinality(Passing') = Cardinality(Passing)
         /\ r \in Passing /\ r \notin Passing' => Cardinality(Passing') = Cardinality(Passing) - 1
         /\ r \notin Passing /\ r \in Passing' => Cardinality(Passing') = Cardinality(Passing) + 1
<1> DEFINE now == Passing
           next == Passing'
<1>1. /\ now \in SUBSET Requests /\ next \in SUBSET Requests
      /\ \A q \in Requests \ {r} : q \in now <=> q \in next
  BY DEF Passing
<1>2. IsFiniteSet(Requests)
  BY RateAssumption
<1> HIDE DEF now, next
<1>3. /\ Cardinality(now) \in Nat /\ Cardinality(next) \in Nat
      /\ r \in now /\ r \in next => Cardinality(next) = Cardinality(now)
      /\ r \notin now /\ r \notin next => Cardinality(next) = Cardinality(now)
      /\ r \in now /\ r \notin next => Cardinality(next) = Cardinality(now) - 1
      /\ r \notin now /\ r \in next => Cardinality(next) = Cardinality(now) + 1
  BY <1>1, <1>2, OneChanges
<1> QED
  BY <1>3 DEF now, next

LEMMA CountStep ==
  ASSUME RateIInv, NEW r \in Requests, CountRequest(r)
  PROVE  RateIInv'
<1>1. /\ rateKey.count \in Nat /\ rateKey.expires \in BOOLEAN /\ passed \in Nat /\ window \in Nat
      /\ Limit \in Nat /\ rateCall[r].at = "idle"
      /\ UNCHANGED << window, passed, refused >>
  BY RateAssumption DEF RateIInv, RateTypeOK, CountRequest
<1>2. rateKey' = [rateKey EXCEPT !.count = rateKey.count + 1]
      /\ rateCall' = [rateCall EXCEPT ![r] =
            [at |-> IF ~rateKey.expires THEN "expire" ELSE "decide",
             count |-> rateKey.count + 1, window |-> window]]
  BY DEF CountRequest, NeedsWindow
<1>3. /\ rateKey'.count = rateKey.count + 1 /\ rateKey'.expires = rateKey.expires
      /\ rateKey' \in [count : Nat, expires : BOOLEAN]
  BY <1>1, <1>2 DEF RateIInv, RateTypeOK
<1>4. /\ rateCall'[r].at \in {"expire", "decide"}
      /\ rateCall'[r].at = "decide" => rateKey.expires
      /\ rateCall'[r].count = rateKey.count + 1 /\ rateCall'[r].window = window
      /\ rateCall' \in [Requests -> RateCall]
      /\ \A q \in Requests \ {r} : rateCall'[q] = rateCall[q]
  BY <1>1, <1>2 DEF RateIInv, RateTypeOK, RateCall
<1>5. RateTypeOK'
  BY <1>1, <1>3, <1>4 DEF RateIInv, RateTypeOK
<1>6. RequestsKnow'
  BY <1>1, <1>3, <1>4 DEF RateIInv, RequestsKnow
<1>7. r \notin Passing /\ (r \in Passing' <=> rateKey.count + 1 <= Limit)
  BY <1>1, <1>4 DEF Passing
<1>8. /\ passed' + Cardinality(Passing') <= Limit
      /\ passed' + Cardinality(Passing') <= rateKey'.count
  BY <1>1, <1>3, <1>4, <1>7, PassingChanges DEF RateIInv
<1> QED
  BY <1>1, <1>3, <1>5, <1>6, <1>8 DEF RateIInv

LEMMA WindowStarts ==
  ASSUME RateIInv, NEW r \in Requests, StartWindow(r)
  PROVE  RateIInv'
<1>1. /\ rateKey.count \in Nat /\ rateKey.expires \in BOOLEAN /\ rateCall[r].at = "expire"
      /\ UNCHANGED << window, passed, refused >>
      /\ rateKey' = [rateKey EXCEPT !.expires = rateKey.count > 0]
      /\ rateCall' = [rateCall EXCEPT ![r].at = "decide"]
  BY DEF RateIInv, RateTypeOK, StartWindow
<1>2. /\ rateKey'.count = rateKey.count /\ (rateKey'.expires <=> rateKey.count > 0)
      /\ rateKey' \in [count : Nat, expires : BOOLEAN]
  <2>1. CASE rateKey.count > 0
    <3>1. rateKey' = [rateKey EXCEPT !.expires = TRUE]
      BY <1>1, <2>1
    <3> QED
      BY <2>1, <3>1 DEF RateIInv, RateTypeOK
  <2>2. CASE ~(rateKey.count > 0)
    <3>1. rateKey' = [rateKey EXCEPT !.expires = FALSE]
      <4>1. (rateKey.count > 0) = FALSE
        BY <2>2
      <4> QED
        BY <1>1, <4>1
    <3> QED
      BY <2>2, <3>1 DEF RateIInv, RateTypeOK
  <2> QED
    BY <2>1, <2>2
<1>3. /\ rateCall'[r].at = "decide" /\ rateCall'[r].count = rateCall[r].count
      /\ rateCall'[r].window = rateCall[r].window
      /\ rateCall' \in [Requests -> RateCall]
      /\ \A q \in Requests \ {r} : rateCall'[q] = rateCall[q]
  BY <1>1 DEF RateIInv, RateTypeOK, RateCall
<1>4. RateTypeOK'
  BY <1>1, <1>2, <1>3 DEF RateIInv, RateTypeOK
<1>5. RequestsKnow'
  BY <1>1, <1>2, <1>3 DEF RateIInv, RequestsKnow
<1>6. r \in Passing <=> r \in Passing'
  BY <1>1, <1>3 DEF Passing
<1>7. Cardinality(Passing') = Cardinality(Passing)
  BY <1>1, <1>3, <1>6, PassingChanges
<1> QED
  BY <1>1, <1>2, <1>4, <1>5, <1>7 DEF RateIInv

(* A request that passes moves from Passing to passed. *)
LEMMA DecideStep ==
  ASSUME RateIInv, NEW r \in Requests, Decide(r) \/ RequestSkipped(r)
  PROVE  RateIInv'
<1>1. /\ UNCHANGED << rateKey, window >>
      /\ rateCall[r].at # "idle" /\ rateCall' = [rateCall EXCEPT ![r] = NotCounted]
      /\ passed \in Nat /\ rateKey.count \in Nat /\ Limit \in Nat
  BY RateAssumption DEF RateIInv, RateTypeOK, Decide, RequestSkipped, RateDone
<1>2. /\ rateCall'[r].at = "idle"
      /\ rateCall' \in [Requests -> RateCall]
      /\ \A q \in Requests \ {r} : rateCall'[q] = rateCall[q]
  BY <1>1 DEF RateIInv, RateTypeOK, NotCounted, RateCall
<1>3. rateCall[r].count \in Nat /\ rateCall[r].window \in Nat
  BY DEF RateIInv, RateTypeOK, RateCall
<1>4. /\ \/ passed' = passed + 1 /\ r \in Passing
         \/ passed' = passed
      /\ refused' \in BOOLEAN
      /\ refused' => refused \/ (rateCall[r].at = "decide" /\ rateCall[r].window = window)
  <2>1. CASE Decide(r)
    <3>1. /\ passed' = IF rateCall[r].window = window /\ ~(rateCall[r].count > Limit)
                       THEN passed + 1 ELSE passed
          /\ refused' = (refused \/ (rateCall[r].window = window /\ rateCall[r].count > Limit))
          /\ rateCall[r].at = "decide"
      BY <2>1 DEF Decide
    <3>2. \/ passed' = passed + 1 /\ r \in Passing
          \/ passed' = passed
      BY <1>1, <1>3, <3>1 DEF Passing
    <3>3. refused \in BOOLEAN
      BY DEF RateIInv, RateTypeOK
    <3> QED
      BY <3>1, <3>2, <3>3
  <2>2. CASE RequestSkipped(r)
    BY <2>2 DEF RequestSkipped, RateIInv, RateTypeOK
  <2> QED
    BY <2>1, <2>2
<1>5. RateTypeOK'
  BY <1>1, <1>2, <1>4 DEF RateIInv, RateTypeOK
<1>6. RequestsKnow'
  BY <1>1, <1>2 DEF RateIInv, RequestsKnow
<1>7. r \notin Passing'
  BY <1>2 DEF Passing
<1>8. passed' + Cardinality(Passing') <= passed + Cardinality(Passing)
  BY <1>1, <1>2, <1>4, <1>7, PassingChanges
<1>9. Cardinality(Passing) \in Nat /\ Cardinality(Passing') \in Nat /\ passed' \in Nat
  BY <1>1, <1>2, <1>4, PassingChanges
<1>10. refused' => rateKey.expires
  BY <1>4 DEF RateIInv, RequestsKnow
<1> QED
  BY <1>1, <1>5, <1>6, <1>8, <1>9, <1>10 DEF RateIInv

LEMMA WindowEndsStep ==
  ASSUME RateIInv, WindowEnds
  PROVE  RateIInv'
<1>1. /\ rateKey' = [count |-> 0, expires |-> FALSE] /\ window' = window + 1 /\ passed' = 0
      /\ refused' = FALSE /\ UNCHANGED rateCall /\ window \in Nat
      /\ rateCall \in [Requests -> RateCall]
  BY DEF WindowEnds, RateIInv, RateTypeOK
<1>2. rateKey'.count = 0 /\ rateKey'.expires = FALSE
  BY <1>1
<1>3. \A r \in Requests : rateCall[r].at # "idle" =>
          rateCall[r].window \in Nat /\ rateCall[r].window < window'
  BY <1>1 DEF RateIInv, RequestsKnow, RateCall
<1>4. RateTypeOK'
  <2>1. [count |-> 0, expires |-> FALSE] \in [count : Nat, expires : BOOLEAN]
    OBVIOUS
  <2>2. rateKey' \in [count : Nat, expires : BOOLEAN]
    BY <1>1, <2>1
  <2>3. window' \in Nat /\ passed' \in Nat /\ refused' \in BOOLEAN
        /\ rateCall' \in [Requests -> RateCall]
    <3>1. refused' = FALSE
      BY DEF WindowEnds
    <3>2. refused' \in BOOLEAN
      BY <3>1
    <3> QED
      BY <1>1, <3>2
  <2> QED
    BY <2>2, <2>3 DEF RateTypeOK
<1>5. RequestsKnow'
  BY <1>1, <1>3 DEF RequestsKnow
<1>6. Passing' = {}
  BY <1>1, <1>3 DEF Passing
<1>7. Cardinality(Passing') = 0
  BY <1>6, FS_EmptySet
<1> QED
  BY <1>1, <1>2, <1>4, <1>5, <1>7, RateAssumption DEF RateIInv

THEOREM RateInvariant == RateSpec => []RateIInv
<1>1. RateIInv /\ [RateNext]_rateVars => RateIInv'
  <2> SUFFICES ASSUME RateIInv, [RateNext]_rateVars PROVE RateIInv'
    OBVIOUS
  <2>1. CASE UNCHANGED rateVars
    BY <2>1 DEF rateVars, RateIInv, RateTypeOK, RequestsKnow, Passing
  <2> QED
    BY <2>1, CountStep, WindowStarts, DecideStep, WindowEndsStep DEF RateNext
<1> QED
  BY <1>1, RateInitial, PTL DEF RateSpec

(* A window in which a request was refused ends, and no more than the limit
   pass by their count (rate-limit.guard.ts). *)
THEOREM RefusalEndsHolds == RateSpec => []RefusalEnds
<1>1. RateIInv => RefusalEnds
  <2> SUFFICES ASSUME RateIInv PROVE RefusalEnds
    OBVIOUS
  <2>1. passed \in Nat /\ Limit \in Nat /\ Cardinality(Passing) \in Nat
    BY RateAssumption, PassingFinite DEF RateIInv, RateTypeOK
  <2> QED
    BY <2>1 DEF RateIInv, RefusalEnds
<1> QED
  BY <1>1, RateInvariant, PTL

=============================================================================
