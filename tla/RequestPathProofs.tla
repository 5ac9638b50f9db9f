------------------------- MODULE RequestPathProofs --------------------------
(***************************************************************************)
(* Theorems about what a request meets: the choice of its rule and of its  *)
(* backend, the rate limiter, the pool of PHP servers and the access log.  *)
(***************************************************************************)
EXTENDS RequestPath, TLAPS

-----------------------------------------------------------------------------
(* Dispatch: for any workers, paths, prefixes and tables that were loaded. *)

RoutingRequest ==
    [stage : Routing!Stages \cup {"idle"},
     kind : Routing!Calls \cup {"page", "fixed", None},
     path : Path \cup {None}, host : BOOLEAN, entry : Prefix \cup {None},
     rule : Routing!AllRules \cup {None}, site : Routing!Vhost \cup {None},
     stream : BOOLEAN, held : SUBSET Routing!AllRules, seen : BOOLEAN,
     ran : 0..2]

RoutingLooking == {"redirect", "own", "prefix", "vhost", "hostonly"}

\* The look-ups of a request that no rule has answered yet have ruled out the rules
\* before them, among those that held all the time.
RoutingLooksOn(h, red, ten, site) ==
    h.rule = None =>
        /\ h.stage \in RoutingLooking \cup {"idle", "done"}
        /\ h.held \subseteq Routing!Matching(h, red, ten, site)
        /\ h.stage \in {"idle", "done"} => h.held = {}
        /\ h.kind # "page" /\ h.stage \in RoutingLooking => h.host
        /\ h.stage \in RoutingLooking \ {"redirect"} => Routing!Redirects \notin h.held
        /\ h.stage \in {"prefix", "vhost", "hostonly"} => Routing!Own \notin h.held
        /\ h.stage \in {"vhost", "hostonly"} => \A rule \in h.held : rule.rank # 3
        /\ h.stage = "hostonly" => Routing!Site \notin h.held

RoutingBest(h) == h.rule # None => \A rule \in h.held : ~Routing!Better(rule, h.rule)

\* How often it was carried out, and what an update has seen.
RoutingSound(h, ten) ==
    /\ h.stage \in RoutingLooking => h.rule = None
    /\ h.stage = "site" => h.site \in Routing!Vhost
    /\ h.stage \in {"send", "again"} => ~h.stream
    /\ h.stage = "again" => h.ran \in 0..1
    /\ h.stage # "done" /\ h.stage # "again" => h.ran = 0
    /\ h.stage \notin {"idle", "done"} /\ h.kind = "update" /\ ten # {} => h.seen
    /\ h.stage = "upsert" => h.seen

RoutingGood(h, red, ten, site) ==
    h \in RoutingRequest /\ RoutingLooksOn(h, red, ten, site) /\ RoutingBest(h)
     /\ RoutingSound(h, ten)

RoutingRegistries ==
    redirect \in BOOLEAN /\ tenants \subseteq Prefix \cup {None}
     /\ vhost \in Routing!Vhost \cup {None}

RoutingInv ==
    /\ RoutingRegistries
    /\ requests \in 0..MaxRequests
    /\ request \in [Worker -> RoutingRequest]
    /\ \A w \in Worker : RoutingGood(request[w], redirect, tenants, vhost)

LEMMA RoutingInvShows ==
    RoutingInv
        => Routing!TypeOK /\ Routing!BestStays
<1> SUFFICES ASSUME RoutingInv
             PROVE  Routing!TypeOK /\ Routing!BestStays
  OBVIOUS
<1>1. Routing!TypeOK
  BY DEF RoutingInv, RoutingRegistries, Routing!TypeOK, RoutingRequest, RoutingGood,
     RoutingSound
<1>2. Routing!BestStays
  BY DEF RoutingInv, Routing!BestStays, RoutingGood, RoutingBest
<1> QED BY <1>1, <1>2

\* The rules have their types.
LEMMA RoutingRulesTyped ==
    ASSUME Routing!Parameters
    PROVE  /\ {Routing!Redirects, Routing!Own, Routing!Site, Routing!HostOnly,
               Routing!AppUpstream, Routing!NotFound} \subseteq Routing!AllRules
           /\ \A p \in Prefix : Routing!Prefixed(p) \in Routing!AllRules /\ Len(p) \in Nat
           /\ None \notin Routing!AllRules
<1>1. \A p \in Prefix : Len(p) \in Nat
  BY DEF Routing!Parameters
<1> QED
  BY <1>1 DEF Routing!Parameters, Routing!AllRules, Routing!Rule, Routing!Redirects,
     Routing!Own, Routing!Site, Routing!HostOnly, Routing!AppUpstream,
              Routing!NotFound, Routing!Prefixed

LEMMA RoutingMatchingTyped ==
    ASSUME Routing!Parameters, NEW h, NEW red, NEW ten \in SUBSET (Prefix \cup {None}),
           NEW site
    PROVE  Routing!Matching(h, red, ten, site) \subseteq Routing!AllRules
<1>1. Routing!Candidates(ten, h.path) \subseteq Prefix
  BY DEF Routing!Candidates
<1> QED BY <1>1, RoutingRulesTyped DEF Routing!Matching

\* Only the host, the kind and the path of a request matter.
LEMMA RoutingMatchingSame ==
    ASSUME NEW h, NEW i, h.host = i.host, h.kind = i.kind, h.path = i.path,
           NEW red, NEW ten, NEW site
    PROVE  Routing!Matching(h, red, ten, site) = Routing!Matching(i, red, ten, site)
BY DEF Routing!Matching

\* One request moves, and the rules stay.
LEMMA RoutingOneMoves ==
    ASSUME RoutingInv, NEW w \in Worker, NEW h, RoutingGood(h, redirect, tenants, vhost),
           request' = [request EXCEPT ![w] = h], UNCHANGED Routing!registries,
           requests' \in 0..MaxRequests
    PROVE  RoutingInv'
<1>1. /\ redirect' = redirect /\ tenants' = tenants /\ vhost' = vhost
      /\ request'[w] = h /\ request' \in [Worker -> RoutingRequest]
      /\ \A v \in Worker \ {w} : request'[v] = request[v]
  BY DEF RoutingInv, RoutingGood, Routing!registries
<1>2. \A v \in Worker : RoutingGood(request'[v], redirect', tenants', vhost')
  BY <1>1 DEF RoutingInv
<1> QED BY <1>1, <1>2 DEF RoutingInv, RoutingRegistries

LEMMA RoutingIdleGood ==
    ASSUME Routing!Parameters, NEW red, NEW ten, NEW site
    PROVE  RoutingGood(Routing!Idle, red, ten, site)
<1>1. Routing!Idle \in RoutingRequest /\ Routing!Idle.rule = None
       /\ Routing!Idle.held = {}
  BY DEF Routing!Idle, RoutingRequest, Routing!Stages
<1>2. RoutingLooksOn(Routing!Idle, red, ten, site) /\ RoutingBest(Routing!Idle)
  BY <1>1 DEF RoutingLooksOn, RoutingBest, Routing!Idle, RoutingLooking
<1>3. RoutingSound(Routing!Idle, ten)
  BY DEF RoutingSound, Routing!Idle
<1> QED BY <1>1, <1>2, <1>3 DEF RoutingGood

LEMMA RoutingInvInit == Routing!Parameters /\ Routing!Init => RoutingInv
<1> SUFFICES ASSUME Routing!Parameters, Routing!Init PROVE RoutingInv
  OBVIOUS
<1>1. request = [w \in Worker |-> Routing!Idle] /\ Routing!Idle \in RoutingRequest
  BY RoutingIdleGood DEF Routing!Init, RoutingGood
<1>2. \A w \in Worker : RoutingGood(request[w], redirect, tenants, vhost)
  BY <1>1, RoutingIdleGood
<1>0. [php |-> "off", apache |-> FALSE] \in Routing!Vhost
  BY DEF Routing!Vhost
<1>3. vhost \in Routing!Vhost \cup {None}
  BY <1>0 DEF Routing!Init
<1>4. redirect \in BOOLEAN
  BY DEF Routing!Init
<1>5. tenants \subseteq Prefix \cup {None} /\ requests \in 0..MaxRequests
  <2>1. tenants \in Loaded /\ requests = 0
    BY DEF Routing!Init
  <2> QED BY <2>1 DEF Routing!Parameters
<1> QED BY <1>1, <1>2, <1>3, <1>4, <1>5 DEF RoutingInv, RoutingRegistries

\* The arrival of a request.
LEMMA RoutingStartStep ==
    ASSUME Routing!Parameters, RoutingInv, NEW w \in Worker, Routing!Start(w)
    PROVE  RoutingInv'
<1>0. requests < MaxRequests /\ requests' = requests + 1 /\ UNCHANGED Routing!registries
  BY Zenon DEF Routing!Start
<1>1. requests' \in 0..MaxRequests
  BY <1>0 DEF RoutingInv, Routing!Parameters
<1>2. CASE UNCHANGED request
  BY <1>0, <1>1, <1>2 DEF RoutingInv, RoutingRegistries, Routing!registries
<1>3. ASSUME NEW kind \in {"page", "fixed"} \cup Routing!Calls, NEW p \in Path,
             NEW host \in BOOLEAN, NEW entry \in Prefix \cup {None},
             NEW stream \in BOOLEAN, NEW seen \in BOOLEAN, NEW h,
             h = [Routing!Idle EXCEPT !.stage = IF host THEN "redirect" ELSE "prefix",
                              !.kind = kind, !.path = p, !.host = host,
                              !.entry = entry, !.stream = stream, !.seen = seen],
             seen <=> kind = "update" /\ tenants # {},
             kind # "page" => host,
             request' = [request EXCEPT ![w] =
                            [h EXCEPT !.held = Routing!Matching(h, redirect, tenants,
                             vhost)]]
      PROVE  RoutingInv'
  <2> DEFINE held == Routing!Matching(h, redirect, tenants, vhost)
             m == [h EXCEPT !.held = held]
  <2>1. held \in SUBSET Routing!AllRules
    BY RoutingMatchingTyped DEF RoutingInv, RoutingRegistries
  <2>2. /\ request' = [request EXCEPT ![w] = m]
        /\ held = Routing!Matching(h, redirect, tenants, vhost)
        /\ m = [h EXCEPT !.held = held]
    BY <1>3
  <2> HIDE DEF held, m
  <2> DEFINE st == IF host THEN "redirect" ELSE "prefix"
  <2>3. m = [Routing!Idle EXCEPT !.stage = st, !.kind = kind, !.path = p, !.host = host,
                         !.entry = entry, !.stream = stream, !.seen = seen, !.held = held]
        /\ st \in {"redirect", "prefix"}
    BY <1>3, <2>2 DEF Routing!Idle
  <2> HIDE DEF st
  <2>a. Routing!Idle \in RoutingRequest /\ Routing!Idle.rule = None
        /\ Routing!Idle.ran = 0
    BY RoutingIdleGood DEF RoutingGood, Routing!Idle
  <2>4. m \in RoutingRequest
    <3>1. st \in Routing!Stages \cup {"idle"}
      BY <2>3 DEF Routing!Stages
    <3>2. kind \in Routing!Calls \cup {"page", "fixed", None}
      OBVIOUS
    <3>3. [Routing!Idle EXCEPT !.stage = st, !.kind = kind, !.path = p, !.host = host,
                       !.entry = entry, !.stream = stream, !.seen = seen, !.held = held]
          \in RoutingRequest
      <4>1. Routing!Idle \in RoutingRequest
        BY <2>a
      <4> QED BY <2>1, <3>1, <3>2, <4>1, ZenonT(60) DEF RoutingRequest
    <3> QED BY <2>3, <3>3, Zenon
  <2>b. /\ m.rule = None /\ m.held = held /\ m.host = host /\ m.kind = kind /\ m.path = p
        /\ m.stage = st /\ m.seen = seen /\ m.ran = 0
    BY <2>3, <2>a DEF RoutingRequest
  <2>6. /\ m.rule = None /\ m.held = held /\ m.host = host /\ m.kind = kind /\ m.path = p
        /\ m.stage = (IF host THEN "redirect" ELSE "prefix")
    BY <2>b DEF st
  <2>5. held = Routing!Matching(m, redirect, tenants, vhost)
    <3>1. h.host = host /\ h.kind = kind /\ h.path = p
      BY <1>3 DEF Routing!Idle
    <3>2. h.host = m.host /\ h.kind = m.kind /\ h.path = m.path
      BY <3>1, <2>b, Zenon
    <3>3. Routing!Matching(h, redirect, tenants, vhost) = Routing!Matching(m, redirect, tenants, vhost)
      BY <3>2 DEF Routing!Matching
    <3> QED BY <2>2, <3>3, Zenon
  <2>7. ~host => kind = "page" /\ Routing!Redirects \notin held /\ Routing!Own \notin held
    <3>1. Routing!Redirects # Routing!Own /\ Routing!Redirects # Routing!HostOnly
           /\ Routing!Redirects # Routing!Site /\ Routing!Own # Routing!Site
          /\ Routing!Own # Routing!HostOnly /\ Routing!Redirects # Routing!AppUpstream
          /\ Routing!Own # Routing!AppUpstream
      BY DEF Routing!Redirects, Routing!Own, Routing!HostOnly, Routing!Site,
         Routing!AppUpstream, Routing!Rule
    <3> QED BY <3>1, <2>5, <2>6, <1>3 DEF Routing!Matching
  <2>8. RoutingLooksOn(m, redirect, tenants, vhost) /\ RoutingBest(m)
    BY <2>5, <2>6, <2>7, <1>3 DEF RoutingLooksOn, RoutingBest, RoutingLooking
  <2>9. RoutingSound(m, tenants)
    <3>1. m.stage \in {"redirect", "prefix"}
      BY <2>b, <2>3
    <3> QED BY <3>1, <2>b, <1>3 DEF RoutingSound
  <2> QED BY <1>0, <1>1, <2>2, <2>4, <2>8, <2>9, RoutingOneMoves DEF RoutingGood
<1> QED
  <2>1. CASE ~UNCHANGED request
    <3>1. PICK kind \in {"page",
                         "fixed"} \cup Routing!Calls, path \in Path, host \in BOOLEAN,
               entry \in Prefix \cup {None}, stream \in BOOLEAN, seen \in BOOLEAN :
             LET h == [Routing!Idle EXCEPT !.stage = IF host THEN "redirect"
                                                     ELSE "prefix",
                                   !.kind = kind, !.path = path, !.host = host,
                                   !.entry = entry, !.stream = stream, !.seen = seen]
             IN
             /\ seen <=> kind = "update" /\ tenants # {}
             /\ kind \notin {"add", "update", "remove"} => entry = None
             /\ kind # "page" => ~stream /\ host /\ path = CHOOSE p \in Path : TRUE
             /\ request' = [request EXCEPT ![w] =
                   [h EXCEPT !.held = Routing!Matching(h, redirect, tenants, vhost)]]
      BY <2>1, ZenonT(30) DEF Routing!Start
    <3>2. kind # "page" => host
      BY <3>1, Zenon
    <3> QED BY <3>1, <3>2, <1>3, ZenonT(30)
  <2> QED BY <1>2, <2>1

\* The rules change for another request.
LEMMA RoutingWatchedGood ==
    ASSUME Routing!Parameters, RoutingInv, NEW v \in Worker, request[v].stage # "idle",
           NEW red, NEW ten, NEW site, NEW m,
           m = [request[v] EXCEPT
                   !.held = IF request[v].rule = None
                            THEN @ \cap Routing!Matching(request[v], red, ten, site)
ELSE @,
                   !.seen = IF request[v].kind = "update" /\ ten # {} THEN TRUE ELSE @]
    PROVE  RoutingGood(m, red, ten, site)
<1> DEFINE h == request[v]
           held == IF h.rule = None THEN h.held \cap Routing!Matching(h, red, ten, site) ELSE h.held
           seen == IF h.kind = "update" /\ ten # {} THEN TRUE ELSE h.seen
<1>0. RoutingGood(h, redirect, tenants, vhost) /\ h \in RoutingRequest
  BY DEF RoutingInv, RoutingGood
<1>1. m = [h EXCEPT !.held = held, !.seen = seen]
  BY Zenon
<1>2. held \subseteq h.held /\ (h.rule # None => held = h.held)
      /\ (h.rule = None => held \subseteq Routing!Matching(h, red, ten, site))
  OBVIOUS
<1>3. seen \in BOOLEAN /\ (h.kind = "update" /\ ten # {} => seen)
  BY <1>0, Zenon DEF RoutingRequest
<1>3a. h.seen => seen
  BY Zenon
<1>4. held \in SUBSET Routing!AllRules
  BY <1>0, <1>2 DEF RoutingRequest
<1> HIDE DEF held, seen, h
<1>5. m \in RoutingRequest
  BY <1>0, <1>1, <1>3, <1>4, Zenon DEF RoutingRequest
<1>6. /\ m.stage = h.stage /\ m.kind = h.kind /\ m.path = h.path /\ m.host = h.host
      /\ m.rule = h.rule /\ m.site = h.site /\ m.stream = h.stream
      /\ m.ran = h.ran /\ m.held = held /\ m.seen = seen
  BY <1>0, <1>1, Zenon DEF RoutingRequest
<1>7. h.rule = None => m.held \subseteq Routing!Matching(m, red, ten, site)
  BY <1>2, <1>6 DEF Routing!Matching
<1>8. RoutingLooksOn(m, red, ten, site)
  BY <1>0, <1>2, <1>6, <1>7 DEF RoutingGood, RoutingLooksOn
<1>9. RoutingBest(m)
  BY <1>0, <1>2, <1>6 DEF RoutingGood, RoutingBest
<1>10. RoutingSound(m, ten)
  BY <1>0, <1>3, <1>3a, <1>6 DEF RoutingGood, RoutingSound, h
<1> QED BY <1>5, <1>8, <1>9, <1>10 DEF RoutingGood

\* A management call changes the rules and ends.
LEMMA RoutingChangeStep ==
    ASSUME Routing!Parameters, RoutingInv, NEW w \in Worker, NEW red \in BOOLEAN,
           NEW ten \in SUBSET (Prefix \cup {None}), NEW site \in Routing!Vhost \cup {None},
           Routing!Change(w, red, ten, site)
    PROVE  RoutingInv'
<1>1. redirect' = red /\ tenants' = ten /\ vhost' = site /\ requests' = requests
  BY DEF Routing!Change
<1>2. request' = Routing!Watch([request EXCEPT ![w] = Routing!Idle], red, ten, site)
  BY DEF Routing!Change
<1>3. request' = [v \in Worker |-> request'[v]]
  <2> DEFINE hs == [request EXCEPT ![w] = Routing!Idle]
             F(v) == IF hs[v].stage = "idle" THEN hs[v]
                     ELSE [hs[v] EXCEPT !.held = IF hs[v].rule = None
                                                 THEN @ \cap Routing!Matching(hs[v], red, ten, site)
                                                 ELSE @,
                                        !.seen = IF hs[v].kind = "update" /\ ten # {}
                                                 THEN TRUE ELSE @]
  <2>1. request' = [v \in Worker |-> F(v)]
    BY <1>2, Zenon DEF Routing!Watch
  <2> HIDE DEF F
  <2> QED BY <2>1
<1>4. ASSUME NEW v \in Worker PROVE RoutingGood(request'[v], red, ten, site)
  <2> DEFINE hs == [request EXCEPT ![w] = Routing!Idle]
  <2>1. hs[w] = Routing!Idle /\ (v # w => hs[v] = request[v])
    BY DEF RoutingInv
  <2>2. request'[v] =
          IF hs[v].stage = "idle" THEN hs[v]
          ELSE [hs[v] EXCEPT !.held = IF hs[v].rule = None
                                      THEN @ \cap Routing!Matching(hs[v], red, ten, site) ELSE @,
                             !.seen = IF hs[v].kind = "update" /\ ten # {}
                                      THEN TRUE ELSE @]
    BY <1>2 DEF Routing!Watch
  <2> HIDE DEF hs
  <2>3. CASE v = w
    <3>1. Routing!Idle.stage = "idle"
      BY DEF Routing!Idle
    <3> QED BY <2>1, <2>2, <2>3, <3>1, RoutingIdleGood
  <2>4. CASE v # w /\ request[v].stage = "idle"
    <3>1. RoutingGood(request[v], redirect, tenants, vhost) /\ request'[v] = request[v]
      BY <2>1, <2>2, <2>4 DEF RoutingInv
    <3>2. RoutingLooksOn(request[v], red, ten, site)
      BY <3>1, <2>4 DEF RoutingGood, RoutingLooksOn, RoutingLooking
    <3>3. RoutingSound(request[v], ten)
      BY <3>1, <2>4 DEF RoutingGood, RoutingSound
    <3> QED BY <3>1, <3>2, <3>3 DEF RoutingGood
  <2>5. CASE v # w /\ request[v].stage # "idle"
    BY <2>1, <2>2, <2>5, RoutingWatchedGood
  <2> QED BY <2>3, <2>4, <2>5
<1>5. request' \in [Worker -> RoutingRequest]
  BY <1>3, <1>4 DEF RoutingGood
<1>6. RoutingRegistries'
  BY <1>1 DEF RoutingRegistries
<1> QED BY <1>1, <1>4, <1>5, <1>6 DEF RoutingInv

\* A request goes on to another stage, nothing else about it changes.
LEMMA RoutingGoesOn ==
    ASSUME Routing!Parameters, RoutingInv, NEW w \in Worker, NEW s \in Routing!Stages,
           Routing!Goto(w, s),
           UNCHANGED <<Routing!registries, requests>>,
           LET h == request[w]
               m == [h EXCEPT !.stage = s]
           IN  RoutingLooksOn(m, redirect, tenants, vhost) /\ RoutingSound(m, tenants)
    PROVE  RoutingInv'
<1> DEFINE h == request[w]
           m == [h EXCEPT !.stage = s]
<1>1. request' = [request EXCEPT ![w] = m]
  BY Zenon DEF Routing!Goto
<1>2. h \in RoutingRequest /\ RoutingBest(h)
  BY DEF RoutingInv, RoutingGood
<1>3. m \in RoutingRequest /\ m.held = h.held /\ m.rule = h.rule
  BY <1>2 DEF RoutingRequest
<1>4. RoutingBest(m)
  BY <1>2, <1>3 DEF RoutingBest
<1>5. UNCHANGED Routing!registries /\ requests' \in 0..MaxRequests
  BY DEF RoutingInv
<1> HIDE DEF m
<1>6. RoutingGood(m, redirect, tenants, vhost)
  BY <1>3, <1>4 DEF RoutingGood, m
<1> QED BY <1>1, <1>5, <1>6, RoutingOneMoves

\* The fields of a request that goes on.
LEMMA RoutingGoesFields ==
    ASSUME NEW h \in RoutingRequest, NEW s
    PROVE  LET m == [h EXCEPT !.stage = s]
           IN  /\ m.stage = s /\ m.kind = h.kind /\ m.path = h.path /\ m.host = h.host
               /\ m.rule = h.rule /\ m.site = h.site /\ m.stream = h.stream
               /\ m.ran = h.ran
               /\ m.held = h.held /\ m.seen = h.seen
BY Zenon DEF RoutingRequest

\* A rule answers a request: none that is better has held all the time.
LEMMA RoutingChosen ==
    ASSUME Routing!Parameters, RoutingInv, NEW w \in Worker,
           NEW rule \in Routing!AllRules,
           NEW s \in {"done", "act", "forward"}, Routing!Choose(w, rule, s),
           UNCHANGED <<Routing!registries, requests>>,
           request[w].stage \in RoutingLooking,
           \A r \in request[w].held : ~Routing!Better(r, rule)
    PROVE  RoutingInv'
<1> DEFINE h == request[w]
           m == [h EXCEPT !.stage = s, !.rule = rule, !.path = None]
<1>1. request' = [request EXCEPT ![w] = m]
  BY Zenon DEF Routing!Choose
<1>2. h \in RoutingRequest /\ RoutingSound(h, tenants)
  BY DEF RoutingInv, RoutingGood
<1>3. /\ m.stage = s /\ m.kind = h.kind /\ m.rule = rule /\ m.stream = h.stream
      /\ m.ran = h.ran
      /\ m.held = h.held /\ m.seen = h.seen
  BY <1>2, Zenon DEF RoutingRequest
<1>4. m \in RoutingRequest
  <2>1. s \in Routing!Stages \cup {"idle"}
    BY DEF Routing!Stages
  <2> QED BY <1>2, <2>1, Zenon DEF RoutingRequest
<1>5. rule # None
  BY RoutingRulesTyped
<1> HIDE DEF m
<1>6. RoutingLooksOn(m, redirect, tenants, vhost) /\ RoutingBest(m)
  BY <1>3, <1>5 DEF RoutingLooksOn, RoutingBest
<1>7. RoutingSound(m, tenants)
  BY <1>2, <1>3 DEF RoutingSound, RoutingLooking
<1>8. UNCHANGED Routing!registries /\ requests' \in 0..MaxRequests
  BY DEF RoutingInv
<1>9. RoutingGood(m, redirect, tenants, vhost)
  BY <1>4, <1>6, <1>7 DEF RoutingGood
<1> QED BY <1>1, <1>8, <1>9, RoutingOneMoves

\* A request ends.
LEMMA RoutingAnswered ==
    ASSUME Routing!Parameters, RoutingInv, NEW w \in Worker, Routing!Answer(w),
           UNCHANGED <<Routing!registries, requests>>
    PROVE  RoutingInv'
<1>1. request' = [request EXCEPT ![w] = Routing!Idle]
  BY DEF Routing!Answer
<1>2. UNCHANGED Routing!registries /\ requests' \in 0..MaxRequests
  BY DEF RoutingInv
<1> QED BY <1>1, <1>2, RoutingIdleGood, RoutingOneMoves

\* The precedence of the rules.
LEMMA RoutingPrecedence ==
    /\ Routing!Redirects.rank = 1 /\ Routing!Own.rank = 2 /\ Routing!Site.rank = 4
    /\ Routing!HostOnly.rank = 5
    /\ Routing!AppUpstream.rank = 6 /\ Routing!NotFound.rank = 7
    /\ \A r \in {Routing!Redirects, Routing!Own, Routing!Site, Routing!HostOnly,
                 Routing!AppUpstream, Routing!NotFound} : r.length = 0
    /\ \A p : Routing!Prefixed(p).rank = 3 /\ Routing!Prefixed(p).length = Len(p)
BY DEF Routing!Redirects, Routing!Own, Routing!Site, Routing!HostOnly,
   Routing!AppUpstream, Routing!NotFound, Routing!Rule, Routing!Prefixed

\* What a request that looks on has found to hold all the time holds now.
LEMMA RoutingHeld ==
    ASSUME Routing!Parameters, RoutingInv, NEW w \in Worker,
           request[w].stage \in RoutingLooking,
           NEW r \in request[w].held
    PROVE  \/ r = Routing!Redirects /\ r.rank = 1 /\ r.length = 0 /\ request[w].host /\ redirect
           \/ r = Routing!Own /\ r.rank = 2 /\ r.length = 0 /\ request[w].kind # "page"
           \/ r = Routing!Site /\ r.rank = 4 /\ r.length = 0 /\ request[w].host /\ vhost # None
           \/ r = Routing!HostOnly /\ r.rank = 5 /\ r.length = 0 /\ request[w].host
              /\ None \in tenants
           \/ r = Routing!AppUpstream /\ r.rank = 6 /\ r.length = 0 /\ Upstream
           \/ /\ r.rank = 3 /\ request[w].host
              /\ \E p \in Routing!Candidates(tenants, request[w].path) :
                    p \in Prefix /\ r.length = Len(p)
<1>1. r \in Routing!Matching(request[w], redirect, tenants, vhost)
      /\ tenants \in SUBSET (Prefix \cup {None})
  BY DEF RoutingInv, RoutingRegistries, RoutingGood, RoutingSound, RoutingLooksOn,
     RoutingLooking
<1>2. \/ r = Routing!Redirects /\ request[w].host /\ redirect
      \/ r = Routing!Own /\ request[w].kind # "page"
      \/ r = Routing!Site /\ request[w].host /\ vhost # None
      \/ r = Routing!HostOnly /\ request[w].host /\ None \in tenants
      \/ r = Routing!AppUpstream /\ Upstream
      \/ request[w].host /\ \E p \in Routing!Candidates(tenants, request[w].path) :
                               p \in Prefix /\ r = Routing!Prefixed(p)
  <2>1. Routing!Candidates(tenants, request[w].path) \subseteq Prefix
    BY <1>1 DEF Routing!Candidates
  <2> QED BY <1>1, <2>1 DEF Routing!Matching
<1>3. CASE request[w].host /\ \E p \in Routing!Candidates(tenants, request[w].path) :
                                 p \in Prefix /\ r = Routing!Prefixed(p)
  BY <1>3, RoutingPrecedence
<1> QED BY <1>2, <1>3, RoutingPrecedence

LEMMA RoutingLookRedirectStep ==
    ASSUME Routing!Parameters, RoutingInv, NEW w \in Worker, Routing!LookRedirect(w)
    PROVE  RoutingInv'
<1> DEFINE h == request[w]
<1>1. h.stage = "redirect" /\ UNCHANGED <<Routing!registries, requests>>
  BY DEF Routing!LookRedirect
<1>2. RoutingGood(h, redirect, tenants, vhost) /\ h \in RoutingRequest
       /\ RoutingRegistries /\ h.rule = None
  BY <1>1 DEF RoutingInv, RoutingGood, RoutingSound, RoutingLooking
<1>3. h.held \subseteq Routing!Matching(h, redirect, tenants, vhost)
      /\ (h.kind # "page" => h.host)
  BY <1>1, <1>2 DEF RoutingGood, RoutingLooksOn, RoutingLooking
<1>4. CASE redirect
  <2>1. Routing!Choose(w, Routing!Redirects, "done")
    BY <1>4 DEF Routing!LookRedirect
  <2>2. \A r \in h.held : ~Routing!Better(r, Routing!Redirects)
    <3> SUFFICES ASSUME NEW r \in h.held PROVE ~Routing!Better(r, Routing!Redirects)
      OBVIOUS
    <3>1. r.rank \in 1..7 /\ (r.rank = 1 => r.length = 0)
      BY <1>1, RoutingHeld DEF RoutingLooking
    <3> QED BY <3>1, RoutingPrecedence DEF Routing!Better
  <2> QED BY <1>1, <2>1, <2>2, RoutingRulesTyped, RoutingChosen DEF RoutingLooking
<1>5. CASE ~redirect
  <2> DEFINE s == IF h.kind = "page" THEN "prefix" ELSE "own"
             m == [h EXCEPT !.stage = s]
  <2>1. Routing!Goto(w, s) /\ s \in {"prefix",
                                     "own"} /\ (s = "prefix" <=> h.kind = "page")
    BY <1>5 DEF Routing!LookRedirect
  <2>2. /\ m.stage = s /\ m.kind = h.kind /\ m.path = h.path /\ m.host = h.host
        /\ m.rule = h.rule /\ m.site = h.site /\ m.stream = h.stream
        /\ m.ran = h.ran
        /\ m.held = h.held /\ m.seen = h.seen
    BY <1>2, RoutingGoesFields
  <2> HIDE DEF m, s
  <2>3. Routing!Redirects \notin h.held /\ (h.kind = "page" => Routing!Own \notin h.held)
    <3>1. \A r \in h.held : r.rank # 1 /\ (r.rank = 2 => h.kind # "page")
      BY <1>1, <1>5, RoutingHeld DEF RoutingLooking
    <3> QED BY <3>1, RoutingPrecedence
  <2>4. m.held \subseteq Routing!Matching(m, redirect, tenants, vhost)
    BY <1>3, <2>2 DEF Routing!Matching
  <2>5. RoutingLooksOn(m, redirect, tenants, vhost)
    BY <1>3, <2>1, <2>2, <2>3, <2>4 DEF RoutingLooksOn, RoutingLooking
  <2>6. RoutingSound(m, tenants)
    BY <1>1, <1>2, <2>1, <2>2 DEF RoutingGood, RoutingSound, RoutingLooking
  <2>7. s \in Routing!Stages
    BY <2>1 DEF Routing!Stages
  <2> QED BY <1>1, <2>1, <2>5, <2>6, <2>7, RoutingGoesOn DEF m
<1> QED BY <1>4, <1>5

LEMMA RoutingLookOwnStep ==
    ASSUME Routing!Parameters, RoutingInv, NEW w \in Worker, Routing!LookOwn(w)
    PROVE  RoutingInv'
<1> DEFINE h == request[w]
<1>1. h.stage = "own" /\ UNCHANGED <<Routing!registries, requests>>
  BY DEF Routing!LookOwn
<1>2. RoutingGood(h, redirect, tenants, vhost) /\ h.rule = None /\ RoutingRegistries
  BY <1>1 DEF RoutingInv, RoutingGood, RoutingSound, RoutingLooking
<1>3. h.held \subseteq Routing!Matching(h, redirect, tenants, vhost)
       /\ Routing!Redirects \notin h.held
  BY <1>1, <1>2 DEF RoutingGood, RoutingLooksOn, RoutingLooking
<1>4. \A r \in h.held : ~Routing!Better(r, Routing!Own)
  <2> SUFFICES ASSUME NEW r \in h.held PROVE ~Routing!Better(r, Routing!Own)
    OBVIOUS
  <2>1. r.rank \in 2..7 /\ (r.rank = 2 => r.length = 0)
    BY <1>1, <1>3, RoutingHeld DEF RoutingLooking
  <2> QED BY <2>1, RoutingPrecedence DEF Routing!Better
<1>5. \E s \in {"done", "act"} : Routing!Choose(w, Routing!Own, s)
  BY DEF Routing!LookOwn
<1> QED BY <1>1, <1>4, <1>5, RoutingRulesTyped, RoutingChosen DEF RoutingLooking

LEMMA RoutingLookPrefixStep ==
    ASSUME Routing!Parameters, RoutingInv, NEW w \in Worker, Routing!LookPrefix(w)
    PROVE  RoutingInv'
<1> DEFINE h == request[w]
           c == Routing!Candidates(tenants, h.path)
<1>1. h.stage = "prefix" /\ UNCHANGED <<Routing!registries, requests>>
  BY DEF Routing!LookPrefix
<1>2. RoutingGood(h, redirect, tenants, vhost) /\ h \in RoutingRequest /\ h.rule = None
       /\ RoutingRegistries
  BY <1>1 DEF RoutingInv, RoutingGood, RoutingSound, RoutingLooking
<1>3. h.held \subseteq Routing!Matching(h, redirect, tenants, vhost)
      /\ Routing!Redirects \notin h.held /\ Routing!Own \notin h.held /\ (h.kind # "page" => h.host)
  BY <1>1, <1>2 DEF RoutingGood, RoutingLooksOn, RoutingLooking
<1>4. \A r \in h.held : \/ r.rank \in 4..7
                        \/ /\ r.rank = 3 /\ h.host
                           /\ \E p \in c : p \in Prefix /\ r.length = Len(p)
  BY <1>1, <1>3, RoutingHeld DEF RoutingLooking
<1>5. c \subseteq Prefix /\ \A p \in Prefix : Len(p) \in Nat
  BY <1>2, RoutingRulesTyped DEF Routing!Candidates, RoutingRegistries
<1>6. CASE h.host /\ c # {}
  <2>1. PICK p \in c : (\A q \in c : Len(q) <= Len(p))
                       /\ Routing!Choose(w, Routing!Prefixed(p), "forward")
    BY <1>6 DEF Routing!LookPrefix
  <2> HIDE DEF c
  <2>2. \A r \in h.held : ~Routing!Better(r, Routing!Prefixed(p))
    <3> SUFFICES ASSUME NEW r \in h.held PROVE ~Routing!Better(r, Routing!Prefixed(p))
      OBVIOUS
    <3>1. Routing!Prefixed(p).rank = 3 /\ Routing!Prefixed(p).length = Len(p)
           /\ Len(p) \in Nat
      BY <1>5, <2>1, RoutingPrecedence
    <3>2. CASE r.rank \in 4..7
      BY <3>1, <3>2 DEF Routing!Better
    <3>3. CASE r.rank = 3 /\ \E q \in c : q \in Prefix /\ r.length = Len(q)
      <4>1. PICK q \in c : r.rank = 3 /\ r.length = Len(q) /\ Len(q) \in Nat
        BY <1>5, <3>3
      <4> QED BY <2>1, <3>1, <4>1 DEF Routing!Better
    <3> QED BY <1>4, <3>2, <3>3
  <2>3. Routing!Prefixed(p) \in Routing!AllRules
    BY <1>5, RoutingRulesTyped
  <2> QED BY <1>1, <2>1, <2>2, <2>3, RoutingChosen DEF RoutingLooking
<1>7. CASE ~(h.host /\ c # {})
  <2> DEFINE m == [h EXCEPT !.stage = "vhost"]
  <2>1. Routing!Goto(w, "vhost")
    BY <1>7 DEF Routing!LookPrefix
  <2>2. /\ m.stage = "vhost" /\ m.kind = h.kind /\ m.path = h.path /\ m.host = h.host
        /\ m.rule = h.rule /\ m.site = h.site /\ m.stream = h.stream
        /\ m.ran = h.ran
        /\ m.held = h.held /\ m.seen = h.seen
    BY <1>2, RoutingGoesFields
  <2> HIDE DEF m
  <2>3. \A r \in h.held : r.rank # 3
    BY <1>4, <1>7
  <2>4. m.held \subseteq Routing!Matching(m, redirect, tenants, vhost)
    BY <1>3, <2>2 DEF Routing!Matching
  <2>5. RoutingLooksOn(m, redirect, tenants, vhost)
    BY <1>3, <2>2, <2>3, <2>4 DEF RoutingLooksOn, RoutingLooking
  <2>6. RoutingSound(m, tenants)
    BY <1>1, <1>2, <2>2 DEF RoutingGood, RoutingSound, RoutingLooking
  <2>7. "vhost" \in Routing!Stages
    BY DEF Routing!Stages
  <2> QED BY <1>1, <2>1, <2>5, <2>6, <2>7, RoutingGoesOn DEF m
<1> QED BY <1>6, <1>7

LEMMA RoutingLookVhostStep ==
    ASSUME Routing!Parameters, RoutingInv, NEW w \in Worker, Routing!LookVhost(w)
    PROVE  RoutingInv'
<1> DEFINE h == request[w]
<1>1. h.stage = "vhost" /\ UNCHANGED <<Routing!registries, requests>>
  BY DEF Routing!LookVhost
<1>2. RoutingGood(h, redirect, tenants, vhost) /\ h \in RoutingRequest /\ h.rule = None
       /\ RoutingRegistries
  BY <1>1 DEF RoutingInv, RoutingGood, RoutingSound, RoutingLooking
<1>3. /\ h.held \subseteq Routing!Matching(h, redirect, tenants, vhost)
      /\ Routing!Redirects \notin h.held /\ Routing!Own \notin h.held /\ (h.kind # "page" => h.host)
      /\ \A r \in h.held : r.rank # 3
  BY <1>1, <1>2 DEF RoutingGood, RoutingLooksOn, RoutingLooking
<1>4. \A r \in h.held : r.rank \in 4..7 /\ r.length = 0
                        /\ (r.rank = 4 => h.host /\ vhost # None)
  BY <1>1, <1>3, RoutingHeld DEF RoutingLooking
<1>5. CASE h.host /\ vhost # None
  <2> DEFINE m == [h EXCEPT !.stage = "site", !.rule = Routing!Site, !.site = vhost]
  <2>1. request' = [request EXCEPT ![w] = m]
    BY <1>5, Zenon DEF Routing!LookVhost
  <2>2. m \in RoutingRequest
    <3>1. "site" \in Routing!Stages \cup {"idle"} /\ Routing!Site \in Routing!AllRules
           /\ vhost \in Routing!Vhost \cup {None}
      BY <1>2, RoutingRulesTyped DEF Routing!Stages, RoutingRegistries
    <3>2. h \in RoutingRequest
      BY <1>2 DEF RoutingGood
    <3> QED BY <3>1, <3>2, Zenon DEF RoutingRequest
  <2>3. /\ m.stage = "site" /\ m.kind = h.kind /\ m.rule = Routing!Site /\ m.site = vhost
        /\ m.stream = h.stream /\ m.ran = h.ran /\ m.held = h.held /\ m.seen = h.seen
    BY <1>2, Zenon DEF RoutingRequest
  <2> HIDE DEF m
  <2>4. RoutingLooksOn(m, redirect, tenants, vhost) /\ RoutingBest(m)
    <3>1. Routing!Site # None
      BY RoutingRulesTyped
    <3>2. \A r \in h.held : ~Routing!Better(r, Routing!Site)
      BY <1>4, RoutingPrecedence DEF Routing!Better
    <3> QED BY <2>3, <3>1, <3>2 DEF RoutingLooksOn, RoutingBest
  <2>5. RoutingSound(m, tenants)
    BY <1>1, <1>2, <1>5, <2>3 DEF RoutingGood, RoutingSound, RoutingRegistries,
       RoutingLooking
  <2>6. UNCHANGED Routing!registries /\ requests' \in 0..MaxRequests
    BY <1>1 DEF RoutingInv
  <2> QED BY <2>1, <2>2, <2>4, <2>5, <2>6, RoutingOneMoves DEF RoutingGood
<1>6. CASE ~(h.host /\ vhost # None)
  <2> DEFINE m == [h EXCEPT !.stage = "hostonly"]
  <2>1. Routing!Goto(w, "hostonly")
    BY <1>6 DEF Routing!LookVhost
  <2>2. /\ m.stage = "hostonly" /\ m.kind = h.kind /\ m.path = h.path /\ m.host = h.host
        /\ m.rule = h.rule /\ m.site = h.site /\ m.stream = h.stream
        /\ m.ran = h.ran
        /\ m.held = h.held /\ m.seen = h.seen
    BY <1>2, RoutingGoesFields
  <2> HIDE DEF m
  <2>3. Routing!Site \notin h.held
    BY <1>4, <1>6, RoutingPrecedence
  <2>4. m.held \subseteq Routing!Matching(m, redirect, tenants, vhost)
    BY <1>3, <2>2 DEF Routing!Matching
  <2>5. RoutingLooksOn(m, redirect, tenants, vhost)
    BY <1>3, <2>2, <2>3, <2>4 DEF RoutingLooksOn, RoutingLooking
  <2>6. RoutingSound(m, tenants)
    BY <1>1, <1>2, <2>2 DEF RoutingGood, RoutingSound, RoutingLooking
  <2>7. "hostonly" \in Routing!Stages
    BY DEF Routing!Stages
  <2> QED BY <1>1, <2>1, <2>5, <2>6, <2>7, RoutingGoesOn DEF m
<1> QED BY <1>5, <1>6

LEMMA RoutingLookHostOnlyStep ==
    ASSUME Routing!Parameters, RoutingInv, NEW w \in Worker, Routing!LookHostOnly(w)
    PROVE  RoutingInv'
<1> DEFINE h == request[w]
<1>1. h.stage = "hostonly" /\ UNCHANGED <<Routing!registries, requests>>
  BY DEF Routing!LookHostOnly
<1>2. RoutingGood(h, redirect, tenants, vhost) /\ h.rule = None /\ RoutingRegistries
  BY <1>1 DEF RoutingInv, RoutingGood, RoutingSound, RoutingLooking
<1>3. /\ h.held \subseteq Routing!Matching(h, redirect, tenants, vhost)
      /\ Routing!Redirects \notin h.held /\ Routing!Own \notin h.held
      /\ Routing!Site \notin h.held
      /\ \A r \in h.held : r.rank # 3
  BY <1>1, <1>2 DEF RoutingGood, RoutingLooksOn, RoutingLooking
<1>4. \A r \in h.held : \/ r.rank = 5 /\ r.length = 0 /\ h.host /\ None \in tenants
                        \/ r.rank = 6 /\ r.length = 0 /\ Upstream
  BY <1>1, <1>3, RoutingHeld DEF RoutingLooking
<1>5. CASE h.host /\ None \in tenants
  <2>1. Routing!Choose(w, Routing!HostOnly, "forward")
    BY <1>5 DEF Routing!LookHostOnly
  <2>2. \A r \in h.held : ~Routing!Better(r, Routing!HostOnly)
    BY <1>4, RoutingPrecedence DEF Routing!Better
  <2> QED BY <1>1, <2>1, <2>2, RoutingRulesTyped, RoutingChosen DEF RoutingLooking
<1>6. CASE ~(h.host /\ None \in tenants) /\ Upstream
  <2>1. Routing!Choose(w, Routing!AppUpstream, "forward")
    BY <1>6 DEF Routing!LookHostOnly
  <2>2. \A r \in h.held : ~Routing!Better(r, Routing!AppUpstream)
    BY <1>4, <1>6, RoutingPrecedence DEF Routing!Better
  <2> QED BY <1>1, <2>1, <2>2, RoutingRulesTyped, RoutingChosen DEF RoutingLooking
<1>7. CASE ~(h.host /\ None \in tenants) /\ ~Upstream
  <2>1. Routing!Choose(w, Routing!NotFound, "done")
    BY <1>7 DEF Routing!LookHostOnly
  <2>2. h.held = {}
    BY <1>4, <1>7
  <2> QED BY <1>1, <2>1, <2>2, RoutingRulesTyped, RoutingChosen DEF RoutingLooking
<1> QED BY <1>5, <1>6, <1>7

\* After the choice a request only passes on.
LEMMA RoutingPassesOn ==
    ASSUME Routing!Parameters, RoutingInv, NEW w \in Worker,
           request[w].stage \in {"site", "forward", "act"},
           NEW s \in {"forward", "fastcgi", "send", "stream",
                      "upsert"}, Routing!Goto(w, s),
           s = "upsert" => request[w].kind = "update" /\ tenants # {},
           s = "send" => ~request[w].stream,
           UNCHANGED <<Routing!registries, requests>>
    PROVE  RoutingInv'
<1> DEFINE h == request[w]
           m == [h EXCEPT !.stage = s]
<1>1. h \in RoutingRequest /\ RoutingGood(h, redirect, tenants, vhost)
  BY DEF RoutingInv, RoutingGood
<1>2. h.rule # None
  BY <1>1 DEF RoutingGood, RoutingLooksOn, RoutingLooking
<1>3. /\ m.stage = s /\ m.kind = h.kind /\ m.path = h.path /\ m.host = h.host
      /\ m.rule = h.rule /\ m.site = h.site /\ m.stream = h.stream
      /\ m.ran = h.ran
      /\ m.held = h.held /\ m.seen = h.seen
  BY <1>1, RoutingGoesFields
<1> HIDE DEF m
<1>4. RoutingLooksOn(m, redirect, tenants, vhost)
  BY <1>2, <1>3 DEF RoutingLooksOn
<1>5. RoutingSound(m, tenants)
  BY <1>1, <1>3 DEF RoutingGood, RoutingSound, RoutingLooking
<1>6. s \in Routing!Stages
  BY DEF Routing!Stages
<1> QED BY <1>4, <1>5, <1>6, RoutingGoesOn DEF m

\* A request to the backend that is the last one.
LEMMA RoutingLastSend ==
    ASSUME Routing!Parameters, RoutingInv, NEW w \in Worker, NEW answered \in BOOLEAN,
           Routing!Send(w, answered, "done"), UNCHANGED <<Routing!registries, requests>>,
           request[w].ran \in 0..1
    PROVE  RoutingInv'
<1>1. PICK ran \in {0, 1} :
        request' = [request EXCEPT ![w] =
                       [Routing!Idle EXCEPT !.stage = "done",
                        !.ran = request[w].ran + ran]]
  BY DEF Routing!Send
<1> DEFINE n == request[w].ran + ran
           m == [Routing!Idle EXCEPT !.stage = "done", !.ran = n]
<1>2. n \in 0..2
  OBVIOUS
<1> HIDE DEF n
<1>3. Routing!Idle \in RoutingRequest /\ Routing!Idle.rule = None
       /\ Routing!Idle.held = {}
  BY RoutingIdleGood DEF RoutingGood, Routing!Idle
<1>4. m \in RoutingRequest
  <2>1. "done" \in Routing!Stages
    BY DEF Routing!Stages
  <2> QED BY <1>2, <1>3, <2>1, Zenon DEF RoutingRequest
<1>5. /\ m.stage = "done" /\ m.rule = None /\ m.held = {} /\ m.ran = n
  BY <1>3, Zenon DEF RoutingRequest
<1>6. request' = [request EXCEPT ![w] = m]
  BY <1>1 DEF n
<1> HIDE DEF m
<1>7. RoutingLooksOn(m, redirect, tenants, vhost) /\ RoutingBest(m)
  BY <1>5 DEF RoutingLooksOn, RoutingBest, RoutingLooking
<1>8. RoutingSound(m, tenants)
  BY <1>5 DEF RoutingSound, RoutingLooking
<1>9. UNCHANGED Routing!registries /\ requests' \in 0..MaxRequests
  BY DEF RoutingInv
<1> QED BY <1>4, <1>6, <1>7, <1>8, <1>9, RoutingOneMoves DEF RoutingGood

\* ... and one after which another try is made.
LEMMA RoutingFirstSend ==
    ASSUME Routing!Parameters, RoutingInv, NEW w \in Worker, request[w].stage = "send",
           Routing!Send(w, FALSE, "again"), UNCHANGED <<Routing!registries, requests>>,
           ~request[w].stream
    PROVE  RoutingInv'
<1> DEFINE h == request[w]
<1>1. h \in RoutingRequest /\ RoutingGood(h, redirect, tenants, vhost)
  BY DEF RoutingInv, RoutingGood
<1>2. h.rule # None /\ h.ran = 0
  BY <1>1 DEF RoutingGood, RoutingLooksOn, RoutingSound, RoutingLooking
<1> DEFINE M(ran) == [h EXCEPT !.stage = "again", !.ran = @ + ran]
           D(ran) == [Routing!Idle EXCEPT !.stage = "done", !.ran = h.ran + ran]
<1>3. PICK ran \in IF FALSE THEN {1} ELSE {0, 1} :
        request' = [request EXCEPT ![w] = IF "again" = "done" THEN D(ran) ELSE M(ran)]
  BY Zenon DEF Routing!Send
<1> DEFINE n == h.ran + ran
           m == [h EXCEPT !.stage = "again", !.ran = n]
<1>3a. ran \in {0, 1}
  OBVIOUS
<1>4. request' = [request EXCEPT ![w] = m]
  <2> HIDE DEF D, M
  <2>1. request' = [request EXCEPT ![w] = M(ran)]
    BY <1>3
  <2> QED BY <2>1, Zenon DEF M
<1>5. n \in 0..1 /\ n \in 0..2
  BY <1>2, <1>3a
<1> HIDE DEF n
<1>7. m \in RoutingRequest
  <2>1. "again" \in Routing!Stages
    BY DEF Routing!Stages
  <2> QED BY <1>1, <1>5, <2>1, Zenon DEF RoutingRequest
<1>8. /\ m.stage = "again" /\ m.rule = h.rule /\ m.held = h.held /\ m.kind = h.kind
      /\ m.seen = h.seen /\ m.stream = h.stream /\ m.ran = n
  BY <1>1, Zenon DEF RoutingRequest
<1> HIDE DEF m
<1>9. RoutingLooksOn(m, redirect, tenants, vhost) /\ RoutingBest(m)
  BY <1>1, <1>2, <1>8 DEF RoutingGood, RoutingLooksOn, RoutingBest
<1>10. RoutingSound(m, tenants)
  BY <1>1, <1>5, <1>8 DEF RoutingGood, RoutingSound, RoutingLooking
<1>11. UNCHANGED Routing!registries /\ requests' \in 0..MaxRequests
  BY DEF RoutingInv
<1> QED BY <1>4, <1>7, <1>9, <1>10, <1>11, RoutingOneMoves DEF RoutingGood

\* A step of the request itself, after the choice.
LEMMA RoutingServeStep ==
    ASSUME Routing!Parameters, RoutingInv, NEW w \in Worker,
           \/ Routing!ServeSite(w) \/ Routing!Forward(w) \/ Routing!SendFirst(w)
           \/ Routing!SendAgain(w) \/ Routing!SendOnce(w)
    PROVE  RoutingInv'
<1> DEFINE h == request[w]
<1>1. UNCHANGED <<Routing!registries, requests>>
  BY DEF Routing!ServeSite, Routing!Forward, Routing!SendFirst, Routing!SendAgain,
     Routing!SendOnce
<1>2. h \in RoutingRequest /\ RoutingSound(h, tenants)
  BY DEF RoutingInv, RoutingGood
<1>3. CASE Routing!ServeSite(w)
  <2>1. h.stage = "site" /\ (Routing!Answer(w) \/ Routing!Goto(w, "forward") \/ Routing!Goto(w, "fastcgi"))
    BY <1>3 DEF Routing!ServeSite
  <2> QED BY <1>1, <2>1, RoutingAnswered, RoutingPassesOn
<1>4. CASE Routing!Forward(w)
  <2>1. /\ h.stage = "forward"
        /\ Routing!Answer(w) \/ Routing!Goto(w, "stream") \/ (~h.stream /\ Routing!Goto(w, "send"))
    BY <1>4, Zenon DEF Routing!Forward
  <2> QED BY <1>1, <2>1, RoutingAnswered, RoutingPassesOn
<1>5. CASE Routing!SendFirst(w)
  <2>1. /\ h.stage = "send"
        /\ \/ \E answered \in BOOLEAN : Routing!Send(w, answered, "done")
           \/ Routing!Send(w, FALSE, "again")
    BY <1>5, Zenon DEF Routing!SendFirst
  <2>2. h.ran \in 0..1 /\ ~h.stream
    BY <1>2, <2>1 DEF RoutingSound
  <2> QED BY <1>1, <2>1, <2>2, RoutingLastSend, RoutingFirstSend
<1>6. CASE Routing!SendAgain(w) \/ Routing!SendOnce(w)
  <2>1. /\ h.stage \in {"again", "stream", "fastcgi"}
        /\ \E answered \in BOOLEAN : Routing!Send(w, answered, "done")
    BY <1>6 DEF Routing!SendAgain, Routing!SendOnce
  <2>2. h.ran \in 0..1
    BY <1>2, <2>1 DEF RoutingSound
  <2> QED BY <1>1, <2>1, <2>2, RoutingLastSend
<1> QED BY <1>3, <1>4, <1>5, <1>6

\* A management call.
LEMMA RoutingActStep ==
    ASSUME Routing!Parameters, RoutingInv, NEW w \in Worker,
           \/ Routing!AddTenant(w) \/ Routing!UpdateTenant(w) \/ Routing!Upsert(w)
           \/ Routing!RemoveTenant(w)
           \/ Routing!SetRedirect(w) \/ Routing!SetVhost(w) \/ Routing!ListRules(w)
    PROVE  RoutingInv'
<1> DEFINE h == request[w]
<1>1. h \in RoutingRequest /\ RoutingRegistries
  BY DEF RoutingInv
<1>2. h.entry \in Prefix \cup {None}
  BY <1>1 DEF RoutingRequest
<1>3. CASE Routing!UpdateTenant(w)
  <2>1. h.stage = "act" /\ h.kind = "update" /\ UNCHANGED <<Routing!registries, requests>>
    BY <1>3 DEF Routing!UpdateTenant, Routing!Acts
  <2>2. CASE tenants # {}
    <3>1. Routing!Goto(w, "upsert")
      BY <1>3, <2>2 DEF Routing!UpdateTenant
    <3> QED BY <2>1, <2>2, <3>1, RoutingPassesOn
  <2>3. CASE tenants = {}
    <3>1. Routing!Answer(w)
      BY <1>3, <2>3 DEF Routing!UpdateTenant
    <3> QED BY <2>1, <3>1, RoutingAnswered
  <2> QED BY <2>2, <2>3
<1>4. CASE Routing!AddTenant(w) \/ Routing!Upsert(w)
  <2>1. Routing!Change(w, redirect, tenants \cup {h.entry}, vhost)
    BY <1>4 DEF Routing!AddTenant, Routing!Upsert
  <2>2. tenants \cup {h.entry} \in SUBSET (Prefix \cup {None})
    BY <1>1, <1>2 DEF RoutingRegistries
  <2> QED BY <1>1, <2>1, <2>2, RoutingChangeStep DEF RoutingRegistries
<1>5. CASE Routing!RemoveTenant(w)
  <2>1. Routing!Change(w, redirect, tenants \ {h.entry}, vhost)
    BY <1>5 DEF Routing!RemoveTenant
  <2>2. tenants \ {h.entry} \in SUBSET (Prefix \cup {None})
    BY <1>1 DEF RoutingRegistries
  <2> QED BY <1>1, <2>1, <2>2, RoutingChangeStep DEF RoutingRegistries
<1>6. CASE Routing!SetRedirect(w)
  <2>1. \E red \in BOOLEAN : Routing!Change(w, red, tenants, vhost)
    BY <1>6, Zenon DEF Routing!SetRedirect
  <2>2. tenants \in SUBSET (Prefix \cup {None})
    BY <1>1 DEF RoutingRegistries
  <2> QED BY <1>1, <2>1, <2>2, RoutingChangeStep DEF RoutingRegistries
<1>7. CASE Routing!SetVhost(w) \/ Routing!ListRules(w)
  <2>1. \E site \in Routing!Vhost \cup {None} : Routing!Change(w, redirect, tenants, site)
    <3>1. CASE Routing!ListRules(w)
      BY <1>1, <3>1 DEF Routing!ListRules, RoutingRegistries
    <3>2. CASE \E site \in Routing!Vhost \cup {None} :
                     Routing!Change(w, redirect, tenants, site)
      BY <3>2
    <3>3. CASE \E apache \in BOOLEAN :
                 Routing!Change(w, redirect, tenants,
                        IF vhost = None THEN None ELSE [vhost EXCEPT !.apache = apache])
      <4>1. PICK apache \in BOOLEAN :
              Routing!Change(w, redirect, tenants,
                     IF vhost = None THEN None ELSE [vhost EXCEPT !.apache = apache])
        BY <3>3
      <4>2. (IF vhost = None THEN None ELSE [vhost EXCEPT !.apache = apache])
              \in Routing!Vhost \cup {None}
        BY <1>1, Zenon DEF RoutingRegistries, Routing!Vhost
      <4> QED BY <4>1, <4>2, Zenon
    <3> QED BY <1>7, <3>1, <3>2, <3>3, Zenon DEF Routing!SetVhost
  <2>2. tenants \in SUBSET (Prefix \cup {None})
    BY <1>1 DEF RoutingRegistries
  <2> QED BY <1>1, <2>1, <2>2, RoutingChangeStep DEF RoutingRegistries
<1> QED BY <1>3, <1>4, <1>5, <1>6, <1>7

LEMMA RoutingInvStep ==
    Routing!Parameters /\ RoutingInv /\ [Routing!Next]_(Routing!vars)
        => RoutingInv'
<1> SUFFICES ASSUME Routing!Parameters, RoutingInv, [Routing!Next]_(Routing!vars)
             PROVE  RoutingInv'
  OBVIOUS
<1>1. ASSUME NEW w \in Worker, Routing!Start(w) \/ Routing!Step(w) PROVE RoutingInv'
  <2>1. CASE Routing!Finish(w) \/ Routing!Cancel(w)
    <3>1. Routing!Answer(w) /\ UNCHANGED <<Routing!registries, requests>>
      BY <2>1 DEF Routing!Finish, Routing!Cancel
    <3> QED BY <3>1, RoutingAnswered
  <2> QED BY <1>1, <2>1, RoutingStartStep, RoutingLookRedirectStep, RoutingLookOwnStep,
             RoutingLookPrefixStep,
             RoutingLookVhostStep, RoutingLookHostOnlyStep, RoutingServeStep,
             RoutingActStep DEF Routing!Step
<1>2. CASE UNCHANGED Routing!vars
  BY <1>2 DEF Routing!vars, RoutingInv, RoutingRegistries
<1> QED BY <1>1, <1>2 DEF Routing!Next

\* The host gets its first tenant.
LEMMA RoutingFirstTenant ==
    ASSUME Routing!Parameters, RoutingInv, [Routing!Next]_(Routing!vars), tenants = {},
           tenants' # {}
    PROVE  \E w \in Worker :
                 Routing!Acts(w, "add") \/ (request[w].stage = "upsert" /\ request[w].seen)
<1>1. PICK w \in Worker : \/ Routing!AddTenant(w) \/ Routing!Upsert(w)
                          \/ Routing!RemoveTenant(w) \/ Routing!SetRedirect(w)
                          \/ Routing!SetVhost(w) \/ Routing!ListRules(w)
  <2>1. ASSUME NEW w \in Worker, UNCHANGED Routing!registries PROVE tenants' = tenants
    BY <2>1 DEF Routing!registries
  <2> QED BY <2>1 DEF Routing!Next, Routing!vars, Routing!Start, Routing!Step,
             Routing!LookRedirect, Routing!LookOwn, Routing!LookPrefix, Routing!LookVhost,
             Routing!LookHostOnly, Routing!ServeSite, Routing!Forward, Routing!SendFirst,
             Routing!SendAgain, Routing!SendOnce, Routing!UpdateTenant,
             Routing!Finish, Routing!Cancel
<1>2. ASSUME NEW red, NEW site, Routing!Change(w, red, tenants, site) PROVE FALSE
  BY <1>2 DEF Routing!Change
<1>3. ~Routing!SetRedirect(w) /\ ~Routing!SetVhost(w) /\ ~Routing!ListRules(w)
  BY <1>2 DEF Routing!SetRedirect, Routing!SetVhost, Routing!ListRules
<1>4. ~Routing!RemoveTenant(w)
  BY DEF Routing!RemoveTenant, Routing!Change
<1>5. Routing!Upsert(w) => request[w].stage = "upsert" /\ request[w].seen
  BY DEF Routing!Upsert, RoutingInv, RoutingGood, RoutingSound
<1> QED BY <1>1, <1>3, <1>4, <1>5 DEF Routing!AddTenant

LEMMA RoutingTypeCorrect ==
    ASSUME Routing!Parameters
    PROVE  Routing!Init /\ [][Routing!Next]_(Routing!vars) => []Routing!TypeOK
BY RoutingInvInit, RoutingInvStep, RoutingInvShows, PTL

LEMMA RoutingRightOrder ==
    ASSUME Routing!Parameters
    PROVE  Routing!Init /\ [][Routing!Next]_(Routing!vars) => []Routing!BestStays
BY RoutingInvInit, RoutingInvStep, RoutingInvShows, PTL

LEMMA RoutingComesBack ==
    ASSUME Routing!Parameters
    PROVE  Routing!Init /\ [][Routing!Next]_(Routing!vars) => Routing!ComesBackByOverlap
<1>1. Routing!Parameters /\ RoutingInv /\ [Routing!Next]_(Routing!vars) =>
        [tenants = {} /\ tenants' # {} =>
            \E w \in Worker :
               Routing!Acts(w, "add") \/ (request[w].stage = "upsert" /\ request[w].seen)]_(Routing!vars)
  BY RoutingFirstTenant
<1> QED BY <1>1, RoutingInvInit, RoutingInvStep, PTL DEF Routing!ComesBackByOverlap

-----------------------------------------------------------------------------
(* RateLimiter: for any clients, rate, burst and times.                    *)

\* What was admitted at the times s is paid for, with tokens left at the time t,
\* by the burst and what came in since any of them.
LimitingWithin(s, tokens, t) ==
    \A i \in 1..Len(s) : (Len(s) - i + 1) * Unit + tokens <= Burst + (t - s[i]) * Rate

\* ... and since one of them nothing was lost to the upper edge.
LimitingUsedUp(s, tokens, t) ==
    \/ tokens = Burst
    \/ \E i \in 1..Len(s) :
          (Len(s) - i + 1) * Unit + tokens >= Burst + (t - s[i]) * Rate

LimitingTypes ==
    /\ now \in 0..MaxTime
    /\ buckets \in [Client -> [tokens : 0..Burst, last : 0..MaxTime] \cup {None}]
    /\ \A c \in Client : buckets[c] # None => buckets[c].last <= now
    /\ admitted \in [Client -> Seq(0..MaxTime)]
    /\ refused \in Client \cup {None} /\ evicted \in BOOLEAN

LimitingBucketInv ==
    \A c \in Client :
        /\ buckets[c] # None =>
              /\ ~evicted
                    => LimitingWithin(admitted[c], buckets[c].tokens, buckets[c].last)
              /\ LimitingUsedUp(admitted[c], buckets[c].tokens, buckets[c].last)
        /\ buckets[c] = None /\ ~evicted => admitted[c] = <<>>

LimitingInv == LimitingTypes /\ LimitingBucketInv /\ Limiting!WindowBound
    /\ Limiting!RefusedOnlyWhenDue

\* A bucket that is refilled.
LEMMA LimitingRefilledIs ==
    ASSUME Limiting!Parameters, LimitingTypes, NEW c \in Client
    PROVE  /\ Limiting!Refilled(buckets[c]) \in 0..Burst
           /\ buckets[c] = None => Limiting!Refilled(buckets[c]) = Burst
           /\ buckets[c] # None =>
                LET more == buckets[c].tokens + (now - buckets[c].last) * Rate
                IN  /\ Limiting!Refilled(buckets[c]) <= more
                    /\ Limiting!Refilled(buckets[c]) = Burst \/ Limiting!Refilled(buckets[c]) = more
<1>1. CASE buckets[c] = None
  <2>1. (now - now) * Rate = 0
    BY DEF LimitingTypes, Limiting!Parameters
  <2> QED BY <1>1, <2>1 DEF Limiting!Refilled, Limiting!Least, LimitingTypes,
             Limiting!Parameters
<1>2. CASE buckets[c] # None
  <2>1. /\ buckets[c].tokens \in 0..Burst /\ buckets[c].last \in 0..now
        /\ now \in Nat /\ Rate \in Nat
    BY <1>2 DEF LimitingTypes, Limiting!Parameters
  <2>2. (now - buckets[c].last) * Rate \in Nat
    BY <2>1
  <2> QED BY <1>2, <2>1, <2>2 DEF Limiting!Refilled, Limiting!Least, Limiting!Parameters
<1> QED BY <1>1, <1>2

\* Later, with no more tokens than came in.
LEMMA LimitingWithinLater ==
    ASSUME Limiting!Parameters, NEW s \in Seq(Nat), NEW old \in Nat, NEW l \in Nat,
           NEW t \in Nat,
           NEW tokens \in Nat, LimitingWithin(s, old, l), tokens <= old + (t - l) * Rate
    PROVE  LimitingWithin(s, tokens, t)
<1> SUFFICES ASSUME NEW i \in 1..Len(s)
             PROVE  (Len(s) - i + 1) * Unit + tokens <= Burst + (t - s[i]) * Rate
  BY DEF LimitingWithin
<1>1. (Len(s) - i + 1) * Unit + old <= Burst + (l - s[i]) * Rate
  BY DEF LimitingWithin
<1>2. s[i] \in Nat /\ Rate \in Nat /\ Burst \in Nat /\ Unit \in Nat
  BY DEF Limiting!Parameters
<1> DEFINE cost == (Len(s) - i + 1) * Unit
           came == (t - l) * Rate
           before == (l - s[i]) * Rate
           all == (t - s[i]) * Rate
<1>3. all = came + before
  BY <1>2
<1>4. cost \in Int /\ came \in Int /\ before \in Int
  BY <1>2
<1>5. cost + old <= Burst + before /\ tokens <= old + came
  BY <1>1
<1> HIDE DEF cost, came, before, all
<1>6. cost + tokens <= Burst + all
  BY <1>2, <1>3, <1>4, <1>5
<1> QED BY <1>6 DEF cost, all

LEMMA LimitingUsedUpLater ==
    ASSUME Limiting!Parameters, NEW s \in Seq(Nat), NEW old \in Nat, NEW l \in Nat,
           NEW t \in Nat,
           NEW tokens \in Nat, LimitingUsedUp(s, old, l),
           old # Burst \/ tokens = Burst,
           tokens = Burst \/ tokens = old + (t - l) * Rate
    PROVE  LimitingUsedUp(s, tokens, t)
<1> SUFFICES ASSUME tokens # Burst PROVE LimitingUsedUp(s, tokens, t)
  BY DEF LimitingUsedUp
<1>1. PICK i \in 1..Len(s) :
           (Len(s) - i + 1) * Unit + old >= Burst + (l - s[i]) * Rate
  BY DEF LimitingUsedUp
<1>2. s[i] \in Nat /\ Rate \in Nat /\ Burst \in Nat /\ Unit \in Nat
  BY DEF Limiting!Parameters
<1> DEFINE cost == (Len(s) - i + 1) * Unit
           came == (t - l) * Rate
           before == (l - s[i]) * Rate
           all == (t - s[i]) * Rate
<1>3. all = came + before
  BY <1>2
<1>4. cost \in Int /\ came \in Int /\ before \in Int
  BY <1>2
<1>5. cost + old >= Burst + before /\ tokens = old + came
  BY <1>1
<1> HIDE DEF cost, came, before, all
<1>6. cost + tokens >= Burst + all
  BY <1>2, <1>3, <1>4, <1>5
<1>7. (Len(s) - i + 1) * Unit + tokens >= Burst + (t - s[i]) * Rate
  BY <1>6 DEF cost, all
<1> QED BY <1>7 DEF LimitingUsedUp

\* One more is admitted at t, and pays.
LEMMA LimitingWithinOneMore ==
    ASSUME Limiting!Parameters, NEW s \in Seq(Nat), NEW t \in Nat,
           NEW tokens \in 0..Burst,
           LimitingWithin(s, tokens, t)
    PROVE  LimitingWithin(Append(s, t), tokens - Unit, t)
<1> DEFINE a == Append(s, t)
<1>1. Len(a) = Len(s) + 1 /\ a[Len(a)] = t /\ \A i \in 1..Len(s) : a[i] = s[i]
  OBVIOUS
<1>2. Rate \in Nat /\ Burst \in Nat /\ Unit \in Nat
  BY DEF Limiting!Parameters
<1> HIDE DEF a
<1> SUFFICES ASSUME NEW i \in 1..Len(a)
             PROVE  (Len(a) - i + 1) * Unit + (tokens - Unit) <= Burst + (t - a[i]) * Rate
  BY DEF LimitingWithin, a
<1>3. CASE i = Len(a)
  <2>1. (Len(a) - i + 1) * Unit = Unit /\ (t - a[i]) * Rate = 0
    BY <1>1, <1>2, <1>3
  <2> QED BY <1>2, <2>1
<1>4. CASE i # Len(a)
  <2>1. i \in 1..Len(s) /\ a[i] = s[i] /\ s[i] \in Nat
    BY <1>1, <1>4
  <2> DEFINE cost == (Len(s) - i + 1) * Unit
             came == (t - s[i]) * Rate
  <2>2. cost + tokens <= Burst + came
    BY <2>1 DEF LimitingWithin
  <2>3. (Len(a) - i + 1) * Unit = cost + Unit
    BY <1>1, <1>2
  <2>4. cost \in Int /\ came \in Int /\ (t - a[i]) * Rate = came
    BY <1>2, <2>1
  <2> HIDE DEF cost, came
  <2>5. (cost + Unit) + (tokens - Unit) <= Burst + came
    BY <1>2, <2>2, <2>4
  <2> QED BY <2>3, <2>4, <2>5
<1> QED BY <1>3, <1>4

LEMMA LimitingUsedUpOneMore ==
    ASSUME Limiting!Parameters, NEW s \in Seq(Nat), NEW t \in Nat,
           NEW tokens \in 0..Burst,
           LimitingUsedUp(s, tokens, t)
    PROVE  LimitingUsedUp(Append(s, t), tokens - Unit, t)
<1> DEFINE a == Append(s, t)
<1>1. Len(a) = Len(s) + 1 /\ a[Len(a)] = t /\ \A i \in 1..Len(s) : a[i] = s[i]
  OBVIOUS
<1>2. Rate \in Nat /\ Burst \in Nat /\ Unit \in Nat
  BY DEF Limiting!Parameters
<1> HIDE DEF a
<1>3. CASE tokens = Burst
  <2>1. (Len(a) - Len(a) + 1) * Unit = Unit /\ (t - a[Len(a)]) * Rate = 0
        /\ Len(a) \in 1..Len(a)
    BY <1>1, <1>2
  <2>2. (Len(a) - Len(a) + 1) * Unit + (tokens - Unit) >= Burst + (t - a[Len(a)]) * Rate
    BY <1>2, <1>3, <2>1
  <2> QED BY <2>1, <2>2 DEF LimitingUsedUp, a
<1>4. CASE tokens # Burst
  <2>1. PICK i \in 1..Len(s) :
             (Len(s) - i + 1) * Unit + tokens >= Burst + (t - s[i]) * Rate
    BY <1>4 DEF LimitingUsedUp
  <2>2. i \in 1..Len(a) /\ a[i] = s[i] /\ s[i] \in Nat
    BY <1>1
  <2> DEFINE cost == (Len(s) - i + 1) * Unit
             came == (t - s[i]) * Rate
  <2>3. (Len(a) - i + 1) * Unit = cost + Unit
    BY <1>1, <1>2
  <2>4. cost \in Int /\ came \in Int /\ (t - a[i]) * Rate = came
    BY <1>2, <2>2
  <2>5. cost + tokens >= Burst + came
    BY <2>1
  <2> HIDE DEF cost, came
  <2>6. (cost + Unit) + (tokens - Unit) >= Burst + came
    BY <1>2, <2>4, <2>5
  <2>7. (Len(a) - i + 1) * Unit + (tokens - Unit) >= Burst + (t - a[i]) * Rate
    BY <2>3, <2>4, <2>6
  <2> QED BY <2>2, <2>7 DEF LimitingUsedUp, a
<1> QED BY <1>3, <1>4

LEMMA LimitingInvInit == ASSUME Limiting!Parameters PROVE Limiting!Init => LimitingInv
<1> SUFFICES ASSUME Limiting!Init PROVE LimitingInv
  OBVIOUS
<1>1. evicted \in BOOLEAN
  BY Zenon DEF Limiting!Init
<1>2. LimitingTypes
  BY <1>1 DEF Limiting!Init, LimitingTypes, Limiting!Parameters
<1>3. LimitingBucketInv
  BY DEF Limiting!Init, LimitingBucketInv
<1>4. Limiting!WindowBound
  BY DEF Limiting!Init, Limiting!WindowBound
<1> QED BY <1>2, <1>3, <1>4 DEF Limiting!Init, LimitingInv, Limiting!RefusedOnlyWhenDue

\* The bucket of c, refilled to now: nothing is lost that was paid for.
LEMMA LimitingRefillKeeps ==
    ASSUME Limiting!Parameters, LimitingInv, NEW c \in Client
    PROVE  /\ ~evicted => LimitingWithin(admitted[c], Limiting!Refilled(buckets[c]), now)
           /\ LimitingUsedUp(admitted[c], Limiting!Refilled(buckets[c]), now)
<1> DEFINE tokens == Limiting!Refilled(buckets[c])
<1>0. /\ tokens \in 0..Burst /\ tokens \in Nat /\ now \in Nat
      /\ admitted[c] \in Seq(Nat) /\ Burst \in Nat
  BY LimitingRefilledIs DEF LimitingInv, LimitingTypes, Limiting!Parameters
<1>1. CASE buckets[c] = None
  <2>1. tokens = Burst
    BY <1>1, LimitingRefilledIs DEF LimitingInv
  <2>2. ~evicted => admitted[c] = <<>>
    BY <1>1 DEF LimitingInv, LimitingBucketInv
  <2> QED BY <2>1, <2>2 DEF LimitingWithin, LimitingUsedUp
<1>2. CASE buckets[c] # None
  <2> DEFINE old == buckets[c].tokens
             l == buckets[c].last
  <2>1. old \in Nat /\ l \in Nat /\ old <= Burst /\ l <= now
    BY <1>2 DEF LimitingInv, LimitingTypes
  <2>2. tokens <= old + (now - l) * Rate /\ (tokens = Burst \/ tokens = old + (now - l) * Rate)
    BY <1>2, LimitingRefilledIs DEF LimitingInv
  <2>3. (~evicted => LimitingWithin(admitted[c], old, l)) /\ LimitingUsedUp(admitted[c], old, l)
    BY <1>2 DEF LimitingInv, LimitingBucketInv
  <2>4. old = Burst => tokens = Burst
    <3>1. (now - l) * Rate >= 0 /\ (now - l) * Rate \in Int
      <4>1. now - l \in Nat /\ Rate \in Nat
        BY <1>0, <2>1 DEF Limiting!Parameters
      <4> QED BY <4>1
    <3> QED BY <1>0, <2>1, <2>2, <3>1
  <2> HIDE DEF tokens, old, l
  <2>5. ~evicted => LimitingWithin(admitted[c], tokens, now)
    BY <1>0, <2>1, <2>2, <2>3, LimitingWithinLater
  <2>6. LimitingUsedUp(admitted[c], tokens, now)
    BY <1>0, <2>1, <2>2, <2>3, <2>4, LimitingUsedUpLater
  <2> QED BY <2>5, <2>6 DEF tokens
<1> QED BY <1>1, <1>2

LEMMA LimitingAcquireStep ==
    ASSUME Limiting!Parameters, LimitingInv, NEW c \in Client, Limiting!TryAcquire(c)
    PROVE  LimitingInv'
<1> DEFINE tokens == Limiting!Refilled(buckets[c])
<1>0. /\ tokens \in 0..Burst /\ now \in Nat /\ now \in 0..MaxTime
      /\ admitted[c] \in Seq(Nat) /\ admitted[c] \in Seq(0..MaxTime)
      /\ Burst \in Nat /\ Unit \in Nat /\ Unit <= Burst
  BY LimitingRefilledIs DEF LimitingInv, LimitingTypes, Limiting!Parameters
<1>1. /\ ~evicted => LimitingWithin(admitted[c], tokens, now)
      /\ LimitingUsedUp(admitted[c], tokens, now)
  BY LimitingRefillKeeps
<1>2. UNCHANGED <<now, evicted>>
  BY DEF Limiting!TryAcquire
<1>3. evicted' \in BOOLEAN
  BY <1>2, Zenon DEF LimitingInv, LimitingTypes
<1>4. CASE /\ tokens >= Unit
           /\ buckets' = [buckets EXCEPT ![c] = [tokens |-> tokens - Unit, last |-> now]]
           /\ admitted' = [admitted EXCEPT ![c] = Append(admitted[c], now)]
           /\ refused' = None
  <2>1. tokens - Unit \in 0..Burst
    BY <1>0, <1>4
  <2> HIDE DEF tokens
  <2>2. /\ buckets'[c] = [tokens |-> tokens - Unit, last |-> now]
        /\ admitted'[c] = Append(admitted[c], now)
        /\ \A d \in Client \ {c} : buckets'[d] = buckets[d] /\ admitted'[d] = admitted[d]
    BY <1>4 DEF LimitingInv, LimitingTypes
  <2>3. LimitingTypes'
    BY <1>0, <1>2, <1>3, <1>4, <2>1, <2>2 DEF LimitingInv, LimitingTypes
  <2>4. ~evicted => LimitingWithin(admitted'[c], tokens - Unit, now)
    BY <1>0, <1>1, <2>2, LimitingWithinOneMore
  <2>5. LimitingUsedUp(admitted'[c], tokens - Unit, now)
    BY <1>0, <1>1, <2>2, LimitingUsedUpOneMore
  <2>6. LimitingBucketInv'
    <3>1. ASSUME NEW d \in Client
          PROVE  /\ buckets'[d] # None =>
                      /\ ~evicted
                            => LimitingWithin(admitted'[d], buckets'[d].tokens, buckets'[d].last)
                      /\ LimitingUsedUp(admitted'[d], buckets'[d].tokens, buckets'[d].last)
                 /\ buckets'[d] = None /\ ~evicted => admitted'[d] = <<>>
      <4>1. CASE d = c
        <5>1. buckets'[c] # None /\ buckets'[c].tokens = tokens - Unit
               /\ buckets'[c].last = now
          BY <1>0, <2>1, <2>2 DEF Limiting!Parameters
        <5> QED BY <2>4, <2>5, <4>1, <5>1
      <4>2. CASE d # c
        BY <2>2, <4>2 DEF LimitingInv, LimitingBucketInv
      <4> QED BY <4>1, <4>2
    <3> QED BY <1>2, <3>1 DEF LimitingBucketInv, LimitingWithin, LimitingUsedUp
  <2>7. Limiting!WindowBound'
    <3> SUFFICES ASSUME ~evicted, NEW d \in Client, NEW i \in DOMAIN admitted'[d]
                 PROVE  (Len(admitted'[d]) - i + 1) * Unit
                          <= Burst + (admitted'[d][Len(admitted'[d])] - admitted'[d][i]) * Rate
      BY <1>2 DEF Limiting!WindowBound, Limiting!Paid
    <3>1. CASE d # c
      BY <2>2, <3>1 DEF LimitingInv, Limiting!WindowBound, Limiting!Paid
    <3>2. CASE d = c
      <4>1. /\ admitted'[c] \in Seq(Nat)
            /\ admitted'[c][Len(admitted'[c])] = now /\ i \in 1..Len(admitted'[c])
        BY <1>0, <2>2, <3>2
      <4> DEFINE cost == (Len(admitted'[c]) - i + 1) * Unit
                 came == (now - admitted'[c][i]) * Rate
      <4>2. cost + (tokens - Unit) <= Burst + came
        BY <2>4, <4>1 DEF LimitingWithin
      <4>3. cost \in Int /\ came \in Int
        <5>1. admitted'[c][i] \in Nat /\ Len(admitted'[c]) \in Nat /\ i \in Nat
          BY <4>1
        <5> QED BY <1>0, <5>1 DEF Limiting!Parameters
      <4> HIDE DEF cost, came
      <4>4. cost <= Burst + came
        BY <1>0, <2>1, <4>2, <4>3
      <4> QED BY <3>2, <4>1, <4>4 DEF cost, came
    <3> QED BY <3>1, <3>2
  <2> QED BY <1>4, <2>3, <2>6, <2>7 DEF LimitingInv, Limiting!RefusedOnlyWhenDue
<1>5. CASE /\ tokens < Unit
           /\ buckets' = [buckets EXCEPT ![c] = [tokens |-> tokens, last |-> now]]
           /\ UNCHANGED admitted /\ refused' = c
  <2> HIDE DEF tokens
  <2>2. /\ buckets'[c] = [tokens |-> tokens, last |-> now]
        /\ \A d \in Client \ {c} : buckets'[d] = buckets[d]
    BY <1>5 DEF LimitingInv, LimitingTypes
  <2>3. LimitingTypes'
    BY <1>0, <1>2, <1>3, <1>5, <2>2 DEF LimitingInv, LimitingTypes
  <2>6. LimitingBucketInv'
    <3>1. ASSUME NEW d \in Client
          PROVE  /\ buckets'[d] # None =>
                      /\ ~evicted
                            => LimitingWithin(admitted[d], buckets'[d].tokens, buckets'[d].last)
                      /\ LimitingUsedUp(admitted[d], buckets'[d].tokens, buckets'[d].last)
                 /\ buckets'[d] = None /\ ~evicted => admitted[d] = <<>>
      <4>1. CASE d = c
        <5>1. buckets'[c] # None /\ buckets'[c].tokens = tokens /\ buckets'[c].last = now
          BY <1>0, <2>2 DEF Limiting!Parameters
        <5> QED BY <1>1, <4>1, <5>1
      <4>2. CASE d # c
        BY <2>2, <4>2 DEF LimitingInv, LimitingBucketInv
      <4> QED BY <4>1, <4>2
    <3> QED BY <1>2, <1>5, <3>1 DEF LimitingBucketInv, LimitingWithin, LimitingUsedUp
  <2>7. Limiting!WindowBound'
    BY <1>2, <1>5 DEF LimitingInv, Limiting!WindowBound, Limiting!Paid
  <2>8. PICK i \in 1..Len(admitted[c]) :
             (Len(admitted[c]) - i + 1) * Unit + tokens >= Burst + (now - admitted[c][i]) * Rate
    BY <1>0, <1>1, <1>5 DEF LimitingUsedUp
  <2>9. (Len(admitted[c]) - i + 2) * Unit > Burst + (now - admitted[c][i]) * Rate
    <3>1. (Len(admitted[c]) - i + 2) * Unit = (Len(admitted[c]) - i + 1) * Unit + Unit
      BY <1>0
    <3>2. /\ (Len(admitted[c]) - i + 1) * Unit \in Int
          /\ (now - admitted[c][i]) * Rate \in Int
      <4>1. /\ Len(admitted[c]) \in Int /\ i \in Int /\ Unit \in Int
            /\ now \in Int /\ admitted[c][i] \in Int /\ Rate \in Int
        BY <1>0 DEF Limiting!Parameters
      <4>2. \A x, y \in Int : x * y \in Int
        OBVIOUS
      <4>3. /\ Len(admitted[c]) - i + 1 \in Int /\ now - admitted[c][i] \in Int
        BY <4>1
      <4> QED BY <4>1, <4>2, <4>3
    <3> QED BY <1>0, <1>5, <2>8, <3>1, <3>2
  <2>10. Limiting!RefusedOnlyWhenDue'
    BY <1>2, <1>5, <2>9 DEF Limiting!RefusedOnlyWhenDue
  <2> QED BY <2>3, <2>6, <2>7, <2>10 DEF LimitingInv
<1> QED BY <1>0, <1>4, <1>5 DEF Limiting!TryAcquire

LEMMA LimitingEvictStep ==
    ASSUME Limiting!Parameters, LimitingInv, Limiting!EvictIdle
    PROVE  LimitingInv'
<1> DEFINE idle == {c \in Client : buckets[c] # None /\ now - buckets[c].last >= IdleFor}
<1>1. /\ buckets' = [c \in Client |-> IF c \in idle THEN None ELSE buckets[c]]
      /\ admitted' = [c \in Client |-> IF c \in idle /\ Limiting!Refilled(buckets[c]) = Burst
                                       THEN <<>> ELSE admitted[c]]
      /\ evicted' = (evicted \/ \E c \in idle : Limiting!Refilled(buckets[c]) < Burst)
      /\ refused' = None /\ UNCHANGED now
  BY DEF Limiting!EvictIdle
<1>2. evicted' \in BOOLEAN
  BY <1>1, Zenon
<1>3. idle \subseteq Client
  OBVIOUS
<1> HIDE DEF idle
<1>4. \A c \in Client :
         /\ buckets'[c] = None \/ (c \notin idle /\ buckets'[c] = buckets[c])
         /\ admitted'[c] = <<>> \/ admitted'[c] = admitted[c]
         /\ c \notin idle => admitted'[c] = admitted[c] /\ buckets'[c] = buckets[c]
  BY <1>1
<1>5. ~evicted' => ~evicted /\ \A c \in idle : admitted'[c] = <<>>
  <2> SUFFICES ASSUME ~evicted' PROVE ~evicted /\ \A c \in idle : admitted'[c] = <<>>
    OBVIOUS
  <2>1. ~evicted /\ \A c \in idle : ~(Limiting!Refilled(buckets[c]) < Burst)
    BY <1>1
  <2>2. \A c \in idle : Limiting!Refilled(buckets[c]) = Burst
    <3> TAKE c \in idle
    <3>1. Limiting!Refilled(buckets[c]) \in 0..Burst /\ Burst \in Nat
      BY <1>3, LimitingRefilledIs DEF LimitingInv, Limiting!Parameters
    <3> QED BY <2>1, <3>1
  <2> QED BY <1>1, <1>3, <2>1, <2>2
<1>6. LimitingTypes'
  <2>1. buckets' \in [Client -> [tokens : 0..Burst, last : 0..MaxTime] \cup {None}]
    BY <1>1 DEF LimitingInv, LimitingTypes
  <2>2. admitted' \in [Client -> Seq(0..MaxTime)]
    <3>1. <<>> \in Seq(0..MaxTime)
      OBVIOUS
    <3>2. \A c \in Client : admitted[c] \in Seq(0..MaxTime)
      BY DEF LimitingInv, LimitingTypes
    <3> QED BY <1>1, <3>1, <3>2
  <2>3. \A c \in Client : buckets'[c] # None => buckets'[c].last <= now
    BY <1>4 DEF LimitingInv, LimitingTypes
  <2> QED BY <1>1, <1>2, <2>1, <2>2, <2>3 DEF LimitingInv, LimitingTypes
<1>7. LimitingBucketInv'
  <2>1. ASSUME NEW c \in Client
        PROVE  /\ buckets'[c] # None =>
                    /\ ~evicted'
                          => LimitingWithin(admitted'[c], buckets'[c].tokens, buckets'[c].last)
                    /\ LimitingUsedUp(admitted'[c], buckets'[c].tokens, buckets'[c].last)
               /\ buckets'[c] = None /\ ~evicted' => admitted'[c] = <<>>
    <3>1. CASE c \in idle
      <4>1. buckets'[c] = None
        BY <1>1, <3>1
      <4> QED BY <1>5, <3>1, <4>1
    <3>2. CASE c \notin idle
      <4>1. admitted'[c] = admitted[c] /\ buckets'[c] = buckets[c]
        BY <1>4, <3>2
      <4> QED BY <1>5, <4>1 DEF LimitingInv, LimitingBucketInv
    <3> QED BY <3>1, <3>2
  <2> QED BY <2>1 DEF LimitingBucketInv, LimitingWithin, LimitingUsedUp
<1>8. Limiting!WindowBound'
  BY <1>4, <1>5 DEF LimitingInv, Limiting!WindowBound, Limiting!Paid
<1> QED BY <1>1, <1>6, <1>7, <1>8 DEF LimitingInv, Limiting!RefusedOnlyWhenDue

LEMMA LimitingTickStep ==
    ASSUME Limiting!Parameters, LimitingInv, Limiting!Tick
    PROVE  LimitingInv'
<1>1. /\ now < MaxTime /\ now' = now + 1 /\ refused' = None
      /\ UNCHANGED <<buckets, admitted, evicted>>
  BY DEF Limiting!Tick
<1>2. evicted' \in BOOLEAN
  BY <1>1, Zenon DEF LimitingInv, LimitingTypes
<1>3. LimitingTypes'
  BY <1>1, <1>2 DEF LimitingInv, LimitingTypes, Limiting!Parameters
<1>4. LimitingBucketInv'
  BY <1>1 DEF LimitingInv, LimitingBucketInv, LimitingWithin, LimitingUsedUp
<1>5. Limiting!WindowBound'
  BY <1>1 DEF LimitingInv, Limiting!WindowBound, Limiting!Paid
<1> QED BY <1>1, <1>3, <1>4, <1>5 DEF LimitingInv, Limiting!RefusedOnlyWhenDue

LEMMA LimitingInvStep ==
    ASSUME Limiting!Parameters
    PROVE  LimitingInv /\ [Limiting!Next]_(Limiting!vars) => LimitingInv'
<1> SUFFICES ASSUME LimitingInv, [Limiting!Next]_(Limiting!vars) PROVE LimitingInv'
  OBVIOUS
<1>1. ASSUME UNCHANGED Limiting!vars PROVE LimitingInv'
  <2>1. /\ UNCHANGED <<now, buckets, admitted, refused>> /\ evicted' = evicted
    BY <1>1 DEF Limiting!vars
  <2>2. evicted' \in BOOLEAN
    BY <2>1, Zenon DEF LimitingInv, LimitingTypes
  <2>3. LimitingTypes'
    BY <2>1, <2>2 DEF LimitingInv, LimitingTypes
  <2>4. LimitingBucketInv'
    BY <2>1 DEF LimitingInv, LimitingBucketInv, LimitingWithin, LimitingUsedUp
  <2>5. Limiting!WindowBound'
    BY <2>1 DEF LimitingInv, Limiting!WindowBound, Limiting!Paid
  <2> QED BY <2>1, <2>3, <2>4, <2>5 DEF LimitingInv, Limiting!RefusedOnlyWhenDue
<1> QED BY <1>1, LimitingAcquireStep, LimitingEvictStep, LimitingTickStep
           DEF Limiting!Next

LEMMA LimitingTypeCorrect ==
    ASSUME Limiting!Parameters
    PROVE  Limiting!Init /\ [][Limiting!Next]_(Limiting!vars) => []Limiting!TypeOK
<1>1. LimitingInv => Limiting!TypeOK
  BY DEF LimitingInv, LimitingTypes, Limiting!TypeOK
<1> QED BY <1>1, LimitingInvInit, LimitingInvStep, PTL

\* A token bucket keeps to the sliding window.
LEMMA LimitingNoneTooMany ==
    ASSUME Limiting!Parameters
    PROVE  Limiting!Init /\ [][Limiting!Next]_(Limiting!vars) => []Limiting!WindowBound
<1>1. LimitingInv => Limiting!WindowBound
  BY DEF LimitingInv
<1> QED BY <1>1, LimitingInvInit, LimitingInvStep, PTL

\* ... and uses it.
LEMMA LimitingNoneTooFew ==
    ASSUME Limiting!Parameters
    PROVE  Limiting!Init /\ [][Limiting!Next]_(Limiting!vars)
           => []Limiting!RefusedOnlyWhenDue
<1>1. LimitingInv => Limiting!RefusedOnlyWhenDue
  BY DEF LimitingInv
<1> QED BY <1>1, LimitingInvInit, LimitingInvStep, PTL

-----------------------------------------------------------------------------
(* PhpServerPool: for any workers, document roots, ports and crashes.      *)

\* The child is alive, registered, or about to be.
PoolingKnown(c) ==
    \/ c \in alive
    \/ \E r \in DocRoot : instances[r] = c
    \/ \E w \in Worker : handler[w].child = c

PoolingTask == [stage : {"idle", "wait", "sleep", "answered"}, root : DocRoot \cup {None},
         child : Pooling!Child \cup {None}, answer : Pooling!Port \cup {None}]

\* What a task is doing.
PoolingTaskInv ==
    \A w \in Worker :
        /\ handler[w].stage \in {"wait", "answered"} =>
              handler[w].root \in DocRoot /\ handler[w].child = None
        /\ handler[w].stage = "sleep" =>
              /\ handler[w].child \in 1..started
              /\ handler[w].root \in DocRoot
              /\ root[handler[w].child] = handler[w].root
        /\ handler[w].stage = "idle" => handler[w].child = None
        /\ handler[w].stage = "answered" => handler[w].answer \in Pooling!Port

\* What is known of a document root.
PoolingRootInv ==
    /\ \A r \in DocRoot : instances[r] # None =>
          instances[r] \in 1..started /\ root[instances[r]] = r
    /\ \A c \in alive : root[c] \in DocRoot

\* Ports are given out once, until the counter wraps.
PoolingPortInv ==
    ~wrapped /\ ~orphaned =>
        /\ \A c \in Pooling!Child : PoolingKnown(c) => port[c] < nextPort
        /\ \A c, d \in Pooling!Child :
                 PoolingKnown(c) /\ PoolingKnown(d) /\ port[c] = port[d] => c = d
        /\ \A w \in Worker : handler[w].stage = "answered" =>
              /\ handler[w].answer < nextPort
              /\ \A c \in Pooling!Child :
                       PoolingKnown(c) /\ port[c] = handler[w].answer =>
                    root[c] = handler[w].root

PoolingInv == Pooling!TypeOK /\ PoolingTaskInv /\ PoolingRootInv
    /\ Pooling!NoneForgotten /\ PoolingPortInv

LEMMA PoolingStartedAre == Pooling!Parameters /\ Pooling!TypeOK
                              => 1..started \subseteq Pooling!Child
BY DEF Pooling!Parameters, Pooling!TypeOK, Pooling!Child

LEMMA PoolingKnownStarted ==
    ASSUME Pooling!Parameters, PoolingInv, NEW c, PoolingKnown(c), c # None
    PROVE  c \in 1..started /\ c \in Pooling!Child
<1>1. started \in Nat /\ started <= MaxChildren /\ MaxChildren \in Nat
  BY DEF PoolingInv, Pooling!TypeOK, Pooling!Parameters
<1>2. CASE c \in alive
  BY <1>1, <1>2 DEF PoolingInv, Pooling!TypeOK, Pooling!Child
<1>3. CASE \E r \in DocRoot : instances[r] = c
  BY <1>1, <1>3 DEF PoolingInv, PoolingRootInv, Pooling!Child
<1>4. CASE \E w \in Worker : handler[w].child = c
  <2>1. PICK w \in Worker : handler[w].child = c
    BY <1>4
  <2>2. handler[w].stage \in {"idle", "wait", "sleep", "answered"}
    BY DEF PoolingInv, Pooling!TypeOK
  <2>3. c \in 1..started
    BY <2>1, <2>2 DEF PoolingInv, PoolingTaskInv
  <2> QED BY <1>1, <2>3 DEF Pooling!Child
<1> QED BY <1>2, <1>3, <1>4 DEF PoolingKnown

LEMMA PoolingTasks == Pooling!TypeOK => handler \in [Worker -> PoolingTask]
BY DEF Pooling!TypeOK, PoolingTask

LEMMA PoolingInvInit == ASSUME Pooling!Parameters PROVE Pooling!Init => PoolingInv
<1> SUFFICES ASSUME Pooling!Init PROVE PoolingInv
  OBVIOUS
<1>1. wrapped \in BOOLEAN /\ orphaned \in BOOLEAN
  BY Zenon DEF Pooling!Init
<1>2. \A w \in Worker : handler[w] = Pooling!Idle
  BY DEF Pooling!Init
<1>3. None \notin Worker /\ None \notin Pooling!Child
  BY DEF Pooling!Parameters, Pooling!Child
<1>4. Pooling!TypeOK
  BY <1>1, <1>2, <1>3 DEF Pooling!Init, Pooling!TypeOK, Pooling!Idle, Pooling!Parameters,
     Pooling!Port
<1>5. PoolingTaskInv
  BY <1>2 DEF PoolingTaskInv, Pooling!Idle
<1>6. PoolingRootInv
  BY DEF Pooling!Init, PoolingRootInv
<1>7. Pooling!NoneForgotten
  BY DEF Pooling!Init, Pooling!NoneForgotten
<1>8. \A c \in Pooling!Child : ~PoolingKnown(c)
  BY <1>2, <1>3 DEF Pooling!Init, PoolingKnown, Pooling!Idle
<1>9. PoolingPortInv
  BY <1>2, <1>8 DEF PoolingPortInv, Pooling!Idle
<1> QED BY <1>4, <1>5, <1>6, <1>7, <1>9 DEF PoolingInv

LEMMA PoolingCallStep ==
    ASSUME Pooling!Parameters, PoolingInv, NEW w \in Worker, Pooling!Call(w)
    PROVE  PoolingInv'
<1>1. PICK r \in DocRoot :
         handler' = [handler EXCEPT ![w].stage = "wait", ![w].root = r]
  BY Zenon DEF Pooling!Call
<1>2. /\ handler[w].stage = "idle"
      /\ UNCHANGED <<instances, nextPort, lock, root, port, alive, started, restarts>>
      /\ wrapped' = wrapped /\ orphaned' = orphaned
  BY DEF Pooling!Call, Pooling!children
<1>3. wrapped' \in BOOLEAN /\ orphaned' \in BOOLEAN
  BY <1>2, Zenon DEF PoolingInv, Pooling!TypeOK
<1>4. handler \in [Worker -> PoolingTask]
  BY PoolingTasks DEF PoolingInv
<1>5. /\ handler'[w] = [handler[w] EXCEPT !.stage = "wait", !.root = r]
      /\ \A v \in Worker \ {w} : handler'[v] = handler[v]
      /\ handler' = [v \in Worker |-> handler'[v]]
  BY <1>1, <1>4
<1>6. /\ handler'[w].stage = "wait" /\ handler'[w].root = r
      /\ handler'[w].child = handler[w].child
  BY <1>4, <1>5 DEF PoolingTask
<1>7. \A v \in Worker : handler'[v].child = handler[v].child
  BY <1>5, <1>6
<1>8. Pooling!TypeOK'
  <2>1. \A v \in Worker : handler'[v].stage = "sleep" <=> lock = v
    BY <1>2, <1>5, <1>6 DEF PoolingInv, Pooling!TypeOK
  <2>2. handler'[w] \in PoolingTask
    BY <1>4, <1>5 DEF PoolingTask
  <2>3. \A v \in Worker : handler'[v] \in PoolingTask
    BY <1>4, <1>5, <2>2
  <2>4. handler' \in [Worker -> PoolingTask]
    BY <1>5, <2>3
  <2> QED BY <1>2, <1>3, <2>1, <2>4 DEF PoolingInv, Pooling!TypeOK, PoolingTask
<1>9. PoolingTaskInv'
  BY <1>2, <1>5, <1>6 DEF PoolingInv, PoolingTaskInv
<1>10. PoolingRootInv'
  BY <1>2 DEF PoolingInv, PoolingRootInv
<1>11. Pooling!NoneForgotten'
  BY <1>2, <1>7 DEF PoolingInv, Pooling!NoneForgotten
<1>12. PoolingPortInv'
  <2>1. \A c \in Pooling!Child : PoolingKnown(c)' => PoolingKnown(c)
    BY <1>2, <1>7 DEF PoolingKnown
  <2>2. \A v \in Worker : handler'[v].stage = "answered" => handler'[v] = handler[v]
    BY <1>5, <1>6
  <2>3. ASSUME ~wrapped, ~orphaned PROVE PoolingPortInv'
    BY <1>2, <2>1, <2>2, <2>3 DEF PoolingInv, PoolingPortInv
  <2> QED BY <1>2, <2>3 DEF PoolingPortInv
<1> QED BY <1>8, <1>9, <1>10, <1>11, <1>12 DEF PoolingInv

\* An address is answered that has been the root's own.
LEMMA PoolingAnswerIs ==
    ASSUME Pooling!Parameters, PoolingInv, NEW w \in Worker, NEW p \in Pooling!Port,
           Pooling!Answer(w, p)
    PROVE  /\ handler' \in [Worker -> PoolingTask]
           /\ handler'[w].stage = "answered" /\ handler'[w].answer = p
           /\ handler'[w].child = None /\ handler'[w].root = handler[w].root
           /\ \A v \in Worker \ {w} : handler'[v] = handler[v]
<1>1. handler \in [Worker -> PoolingTask]
  BY PoolingTasks DEF PoolingInv
<1>2. handler' = [handler EXCEPT ![w].stage = "answered", ![w].child = None,
                  ![w].answer = p]
  BY DEF Pooling!Answer
<1>3. /\ handler'[w] = [handler[w] EXCEPT !.stage = "answered", !.child = None,
                        !.answer = p]
      /\ \A v \in Worker \ {w} : handler'[v] = handler[v]
      /\ handler' = [v \in Worker |-> handler'[v]]
  BY <1>1, <1>2
<1>4. /\ handler'[w].stage = "answered" /\ handler'[w].answer = p
      /\ handler'[w].child = None /\ handler'[w].root = handler[w].root
  BY <1>1, <1>3 DEF PoolingTask
<1>5. handler'[w] \in PoolingTask
  BY <1>1, <1>3 DEF PoolingTask
<1>6. \A v \in Worker : handler'[v] \in PoolingTask
  BY <1>1, <1>3, <1>5
<1>7. handler' \in [Worker -> PoolingTask]
  BY <1>3, <1>6
<1> QED BY <1>3, <1>4, <1>7

LEMMA PoolingFindStep ==
    ASSUME Pooling!Parameters, PoolingInv, NEW w \in Worker, Pooling!Find(w)
    PROVE  PoolingInv'
<1> DEFINE k == instances[handler[w].root]
<1>1. /\ handler[w].stage = "wait" /\ lock = None /\ k # None
      /\ Pooling!Answer(w, port[k])
      /\ UNCHANGED <<instances, nextPort, lock, root, port, alive, started, restarts>>
      /\ wrapped' = wrapped /\ orphaned' = orphaned
  BY DEF Pooling!Find, Pooling!children
<1>2. handler[w].root \in DocRoot /\ handler[w].child = None
  BY <1>1 DEF PoolingInv, PoolingTaskInv
<1>3. k \in 1..started /\ root[k] = handler[w].root /\ PoolingKnown(k)
  BY <1>1, <1>2 DEF PoolingInv, PoolingRootInv, PoolingKnown
<1> HIDE DEF k
<1>4. k \in Pooling!Child /\ port[k] \in Pooling!Port
  BY <1>1, <1>3, PoolingKnownStarted DEF PoolingInv, Pooling!TypeOK
<1>5. /\ handler' \in [Worker -> PoolingTask]
      /\ handler'[w].stage = "answered" /\ handler'[w].answer = port[k]
      /\ handler'[w].child = None /\ handler'[w].root = handler[w].root
      /\ \A v \in Worker \ {w} : handler'[v] = handler[v]
  BY <1>1, <1>4, PoolingAnswerIs
<1>6. wrapped' \in BOOLEAN /\ orphaned' \in BOOLEAN
  BY <1>1, Zenon DEF PoolingInv, Pooling!TypeOK
<1>7. \A v \in Worker : handler'[v].child = handler[v].child
  BY <1>2, <1>5
<1>8. Pooling!TypeOK'
  <2>1. \A v \in Worker : handler'[v].stage = "sleep" <=> lock = v
    BY <1>1, <1>5 DEF PoolingInv, Pooling!TypeOK
  <2> QED BY <1>1, <1>5, <1>6, <2>1 DEF PoolingInv, Pooling!TypeOK, PoolingTask
<1>9. PoolingTaskInv'
  BY <1>1, <1>2, <1>4, <1>5 DEF PoolingInv, PoolingTaskInv
<1>10. PoolingRootInv'
  BY <1>1 DEF PoolingInv, PoolingRootInv
<1>11. Pooling!NoneForgotten'
  BY <1>1, <1>7 DEF PoolingInv, Pooling!NoneForgotten
<1>12. PoolingPortInv'
  <2>1. \A c \in Pooling!Child : PoolingKnown(c)' => PoolingKnown(c)
    BY <1>1, <1>7 DEF PoolingKnown
  <2> SUFFICES ASSUME ~wrapped, ~orphaned PROVE PoolingPortInv'
    BY <1>1 DEF PoolingPortInv
  <2>2. /\ \A c \in Pooling!Child : PoolingKnown(c) => port[c] < nextPort
        /\ \A c, d \in Pooling!Child :
                 PoolingKnown(c) /\ PoolingKnown(d) /\ port[c] = port[d] => c = d
    BY DEF PoolingInv, PoolingPortInv
  <2>3. ASSUME NEW v \in Worker, handler'[v].stage = "answered"
        PROVE  /\ handler'[v].answer < nextPort
               /\ \A c \in Pooling!Child :
                        PoolingKnown(c) /\ port[c] = handler'[v].answer =>
                      root[c] = handler'[v].root
    <3>1. CASE v = w
      BY <1>3, <1>4, <1>5, <2>2, <3>1
    <3>2. CASE v # w
      BY <1>5, <2>3, <3>2 DEF PoolingInv, PoolingPortInv
    <3> QED BY <3>1, <3>2
  <2> QED BY <1>1, <2>1, <2>2, <2>3 DEF PoolingPortInv
<1> QED BY <1>8, <1>9, <1>10, <1>11, <1>12 DEF PoolingInv

\* The counter: the next value, unless it wraps.
LEMMA PoolingNextPortIs ==
    ASSUME Pooling!Parameters, PoolingInv, nextPort' = (nextPort + 1) % Ports,
           wrapped' = (wrapped \/ nextPort' < nextPort)
    PROVE  /\ nextPort' \in Pooling!Port /\ wrapped' \in BOOLEAN
           /\ ~wrapped' => ~wrapped /\ nextPort' = nextPort + 1
<1>1. nextPort \in 0..(Ports - 1) /\ Ports \in Nat /\ Ports >= 2
  BY DEF PoolingInv, Pooling!TypeOK, Pooling!Port, Pooling!Parameters
<1>2. CASE nextPort = Ports - 1
  <2>1. (nextPort + 1) % Ports = 0
    BY <1>1, <1>2
  <2>2. nextPort' < nextPort /\ nextPort' \in Pooling!Port
    BY <1>1, <1>2, <2>1 DEF Pooling!Port
  <2>3. wrapped'
    BY <2>2
  <2>4. wrapped' \in BOOLEAN
    BY Zenon
  <2> QED BY <2>2, <2>3, <2>4
<1>3. CASE nextPort # Ports - 1
  <2>1. nextPort + 1 \in 0..(Ports - 1)
    BY <1>1, <1>3
  <2>2. (nextPort + 1) % Ports = nextPort + 1
    BY <1>1, <2>1
  <2>3. nextPort' \in Pooling!Port /\ nextPort' = nextPort + 1
    BY <2>1, <2>2 DEF Pooling!Port
  <2>4. wrapped' \in BOOLEAN
    BY Zenon
  <2> QED BY <2>3, <2>4
<1> QED BY <1>2, <1>3

LEMMA PoolingSpawnStep ==
    ASSUME Pooling!Parameters, PoolingInv, NEW w \in Worker, Pooling!Spawn(w)
    PROVE  PoolingInv'
<1> DEFINE k == started + 1
<1>1. /\ handler[w].stage = "wait" /\ lock = None
      /\ instances[handler[w].root] = None /\ started < MaxChildren
      /\ nextPort' = (nextPort + 1) % Ports
      /\ wrapped' = (wrapped \/ nextPort' < nextPort)
      /\ UNCHANGED <<instances, restarts>> /\ orphaned' = orphaned
  BY DEF Pooling!Spawn
<1>2. /\ nextPort' \in Pooling!Port /\ wrapped' \in BOOLEAN
      /\ ~wrapped' => ~wrapped /\ nextPort' = nextPort + 1
  BY <1>1, PoolingNextPortIs
<1>3. orphaned' \in BOOLEAN
  BY <1>1, Zenon DEF PoolingInv, Pooling!TypeOK
<1>4. /\ handler \in [Worker -> PoolingTask]
      /\ handler[w].root \in DocRoot /\ handler[w].child = None
      /\ None \notin Worker /\ nextPort \in Nat
  BY <1>1, PoolingTasks DEF PoolingInv, Pooling!TypeOK, PoolingTaskInv,
     Pooling!Parameters, Pooling!Port
<1>5. CASE handler' = [handler EXCEPT ![w] = Pooling!Idle] /\ UNCHANGED <<lock, Pooling!children>>
  <2>1. /\ handler'[w] = Pooling!Idle /\ \A v \in Worker \ {w} : handler'[v] = handler[v]
        /\ UNCHANGED <<lock, root, port, alive, started>>
    BY <1>4, <1>5 DEF Pooling!children
  <2>2. \A v \in Worker : handler'[v].child = handler[v].child
    BY <1>4, <2>1 DEF Pooling!Idle
  <2>3. Pooling!TypeOK'
    <3>1. \A v \in Worker : handler'[v].stage = "sleep" <=> lock = v
      BY <1>1, <2>1 DEF PoolingInv, Pooling!TypeOK, Pooling!Idle
    <3>2. Pooling!Idle \in PoolingTask
      BY DEF PoolingTask, Pooling!Idle
    <3>3. handler' \in [Worker -> PoolingTask]
      BY <1>4, <1>5, <3>2
    <3> QED BY <1>1, <1>2, <1>3, <2>1, <3>1, <3>3 DEF PoolingInv, Pooling!TypeOK,
               PoolingTask
  <2>4. PoolingTaskInv'
    BY <2>1 DEF PoolingInv, PoolingTaskInv, Pooling!Idle
  <2>5. PoolingRootInv'
    BY <1>1, <2>1 DEF PoolingInv, PoolingRootInv
  <2>6. Pooling!NoneForgotten'
    BY <1>1, <2>1, <2>2 DEF PoolingInv, Pooling!NoneForgotten
  <2>7. PoolingPortInv'
    <3>1. \A c \in Pooling!Child : PoolingKnown(c)' => PoolingKnown(c)
      BY <1>1, <2>1, <2>2 DEF PoolingKnown
    <3>2. \A c \in Pooling!Child : port[c] \in Nat
      BY DEF PoolingInv, Pooling!TypeOK, Pooling!Port
    <3>3. \A v \in Worker : handler[v].stage = "answered" => handler[v].answer \in Nat
      BY DEF PoolingInv, PoolingTaskInv, Pooling!Port
    <3> QED BY <1>1, <1>2, <1>4, <2>1, <3>1, <3>2, <3>3 DEF PoolingInv, PoolingPortInv,
               Pooling!Idle
  <2> QED BY <2>3, <2>4, <2>5, <2>6, <2>7 DEF PoolingInv
<1>6. CASE /\ started' = k
           /\ root' = [root EXCEPT ![k] = handler[w].root]
           /\ port' = [port EXCEPT ![k] = nextPort]
           /\ alive' = IF Pooling!Taken(nextPort) \/ nextPort = 0 THEN alive ELSE alive \cup {k}
           /\ handler' = [handler EXCEPT ![w].stage = "sleep", ![w].child = k]
           /\ lock' = w
  <2>0. k \in Pooling!Child /\ k \in 1..MaxChildren /\ k \notin 1..started
         /\ 1..started \subseteq 1..k
        /\ k # None /\ started \in Nat
    BY <1>1 DEF PoolingInv, Pooling!TypeOK, Pooling!Parameters, Pooling!Child
  <2>1. /\ root' \in [Pooling!Child -> DocRoot \cup {None}]
        /\ port' \in [Pooling!Child -> Pooling!Port]
        /\ root'[k] = handler[w].root /\ port'[k] = nextPort
        /\ \A c \in Pooling!Child \ {k} : root'[c] = root[c] /\ port'[c] = port[c]
    BY <1>4, <1>6, <2>0 DEF PoolingInv, Pooling!TypeOK
  <2>2. alive' \subseteq alive \cup {k} /\ alive \subseteq 1..started
        /\ started' = k /\ lock' = w
    BY <1>6 DEF PoolingInv, Pooling!TypeOK
  <2>3. k \in Pooling!Child \cup {None}
    BY <2>0
  <2> HIDE DEF k
  <2>4. /\ handler'[w] = [handler[w] EXCEPT !.stage = "sleep", !.child = k]
        /\ \A v \in Worker \ {w} : handler'[v] = handler[v]
        /\ handler' = [v \in Worker |-> handler'[v]]
    BY <1>4, <1>6
  <2>5. /\ handler'[w].stage = "sleep" /\ handler'[w].child = k
        /\ handler'[w].root = handler[w].root
    BY <1>4, <2>4 DEF PoolingTask
  <2>6. \A c \in Pooling!Child : PoolingKnown(c)' => PoolingKnown(c) \/ c = k
    BY <1>1, <2>2, <2>4, <2>5 DEF PoolingKnown
  <2>7. \A c :
              PoolingKnown(c) /\ c # None
                 => c \in 1..started /\ c \in Pooling!Child /\ c # k
    BY <2>0, PoolingKnownStarted
  <2>8. Pooling!TypeOK'
    <3>1. \A v \in Worker : handler'[v].stage = "sleep" <=> lock' = v
      <4>1. \A v \in Worker : handler[v].stage # "sleep"
        BY <1>1, <1>4 DEF PoolingInv, Pooling!TypeOK
      <4> QED BY <2>2, <2>4, <2>5, <4>1
    <3>2. alive' \subseteq 1..k /\ k \in 0..MaxChildren
      BY <2>0, <2>2 DEF PoolingInv, Pooling!TypeOK
    <3>3. handler' \in [Worker -> PoolingTask]
      <4>1. handler'[w] \in PoolingTask
        <5>1. handler[w] \in PoolingTask
          BY <1>4
        <5>2. \A x \in PoolingTask, y \in Pooling!Child \cup {None} :
                 [x EXCEPT !.stage = "sleep", !.child = y] \in PoolingTask
          BY DEF PoolingTask
        <5> QED BY <2>3, <2>4, <5>1, <5>2
      <4>2. \A v \in Worker : handler'[v] \in PoolingTask
        BY <1>4, <2>4, <4>1
      <4> QED BY <2>4, <4>2
    <3> QED BY <1>1, <1>2, <1>3, <2>1, <2>2, <3>1, <3>2, <3>3 DEF PoolingInv,
               Pooling!TypeOK, PoolingTask
  <2>9. PoolingTaskInv'
    <3> SUFFICES ASSUME NEW v \in Worker
        PROVE  /\ handler'[v].stage \in {"wait", "answered"} =>
                    handler'[v].root \in DocRoot /\ handler'[v].child = None
               /\ handler'[v].stage = "sleep" =>
                    /\ handler'[v].child \in 1..started'
                    /\ handler'[v].root \in DocRoot
                    /\ root'[handler'[v].child] = handler'[v].root
               /\ handler'[v].stage = "idle" => handler'[v].child = None
               /\ handler'[v].stage = "answered" => handler'[v].answer \in Pooling!Port
      BY DEF PoolingTaskInv
    <3>1. CASE v = w
      BY <1>4, <2>0, <2>1, <2>2, <2>5, <3>1
    <3>2. CASE v # w
      <4>1. handler'[v] = handler[v] /\ handler[v].stage # "sleep"
        BY <1>1, <1>4, <2>4, <3>2 DEF PoolingInv, Pooling!TypeOK
      <4> QED BY <4>1 DEF PoolingInv, PoolingTaskInv
    <3> QED BY <3>1, <3>2
  <2>10. PoolingRootInv'
    <3>1. ASSUME NEW r \in DocRoot, instances[r] # None
          PROVE  instances[r] \in 1..k /\ root'[instances[r]] = r
      <4>1. PoolingKnown(instances[r])
        BY DEF PoolingKnown
      <4>2. instances[r] \in 1..started /\ instances[r] \in Pooling!Child \ {k}
        BY <2>7, <3>1, <4>1
      <4> QED BY <2>0, <2>1, <3>1, <4>2 DEF PoolingInv, PoolingRootInv
    <3>2. \A c \in alive' : root'[c] \in DocRoot
      <4> TAKE c \in alive'
      <4>1. CASE c = k
        BY <1>4, <2>1, <4>1
      <4>2. CASE c # k
        <5>1. c \in alive /\ c \in Pooling!Child
          <6>1. c \in alive /\ c \in 1..started
            BY <2>2, <4>2
          <6> QED BY <2>0, <6>1, PoolingStartedAre DEF PoolingInv
        <5> QED BY <2>1, <4>2, <5>1 DEF PoolingInv, PoolingRootInv
      <4> QED BY <4>1, <4>2
    <3> QED BY <1>1, <2>2, <3>1, <3>2 DEF PoolingRootInv
  <2>11. Pooling!NoneForgotten'
    <3> SUFFICES ASSUME ~orphaned, NEW c \in alive'
        PROVE  instances[root'[c]] = c \/ \E v \in Worker : handler'[v].child = c
      BY <1>1 DEF Pooling!NoneForgotten
    <3>1. CASE c = k
      BY <2>5, <3>1
    <3>2. CASE c # k
      <4>1. c \in alive /\ c \in Pooling!Child
        <5>1. c \in alive /\ c \in 1..started
          BY <2>2, <3>2
        <5> QED BY <2>0, <5>1, PoolingStartedAre DEF PoolingInv
      <4>2. c # None
        BY <4>1 DEF Pooling!Parameters, Pooling!Child
      <4>3. instances[root[c]] = c \/ \E v \in Worker : handler[v].child = c
        BY <4>1 DEF PoolingInv, Pooling!NoneForgotten
      <4> QED BY <1>4, <2>1, <2>4, <3>2, <4>1, <4>2, <4>3
    <3> QED BY <3>1, <3>2
  <2>12. PoolingPortInv'
    <3> SUFFICES ASSUME ~wrapped', ~orphaned PROVE PoolingPortInv'
      BY <1>1 DEF PoolingPortInv
    <3>1. ~wrapped /\ nextPort' = nextPort + 1
      BY <1>2
    <3>2. \A c \in Pooling!Child :
                PoolingKnown(c)
                   => port[c] < nextPort /\ port'[c] = port[c] /\ root'[c] = root[c]
      <4> TAKE c \in Pooling!Child
      <4>1. c # None
        BY DEF Pooling!Parameters, Pooling!Child
      <4> QED BY <2>1, <2>7, <3>1, <4>1 DEF PoolingInv, PoolingPortInv
    <3>3. \A c \in Pooling!Child : port[c] \in Nat
      BY DEF PoolingInv, Pooling!TypeOK, Pooling!Port
    <3>4. \A c \in Pooling!Child : PoolingKnown(c)' => port'[c] < nextPort'
      BY <1>4, <2>1, <2>6, <3>1, <3>2, <3>3
    <3>5. \A c, d \in Pooling!Child :
                PoolingKnown(c)' /\ PoolingKnown(d)' /\ port'[c] = port'[d] => c = d
      <4> SUFFICES ASSUME NEW c \in Pooling!Child, NEW d \in Pooling!Child,
                          PoolingKnown(c)', PoolingKnown(d)',
                          port'[c] = port'[d]
                   PROVE  c = d
        OBVIOUS
      <4>1. CASE PoolingKnown(c) /\ PoolingKnown(d)
        BY <3>1, <3>2, <4>1 DEF PoolingInv, PoolingPortInv
      <4>2. CASE c = k \/ d = k
        BY <1>4, <2>1, <2>6, <3>2, <3>3, <4>2
      <4> QED BY <2>6, <4>1, <4>2
    <3>6. ASSUME NEW v \in Worker, handler'[v].stage = "answered"
          PROVE  /\ handler'[v].answer < nextPort'
                 /\ \A c \in Pooling!Child :
                          PoolingKnown(c)' /\ port'[c] = handler'[v].answer =>
                       root'[c] = handler'[v].root
      <4>1. v # w /\ handler'[v] = handler[v]
        BY <2>4, <2>5, <3>6
      <4>2. /\ handler[v].answer < nextPort
            /\ \A c \in Pooling!Child : PoolingKnown(c) /\ port[c] = handler[v].answer =>
                  root[c] = handler[v].root
        BY <3>1, <3>6, <4>1 DEF PoolingInv, PoolingPortInv
      <4>3. handler[v].answer \in Nat
        BY <3>6, <4>1 DEF PoolingInv, PoolingTaskInv, Pooling!Port
      <4> QED BY <1>4, <2>1, <2>6, <3>1, <3>2, <4>1, <4>2, <4>3
    <3> QED BY <3>4, <3>5, <3>6 DEF PoolingPortInv
  <2> QED BY <2>8, <2>9, <2>10, <2>11, <2>12 DEF PoolingInv
<1> QED BY <1>5, <1>6 DEF Pooling!Spawn

LEMMA PoolingRegisterStep ==
    ASSUME Pooling!Parameters, PoolingInv, NEW w \in Worker, Pooling!Register(w)
    PROVE  PoolingInv'
<1> DEFINE r == handler[w].root
           k == handler[w].child
<1>1. /\ handler[w].stage = "sleep"
      /\ instances' = [instances EXCEPT ![r] = k]
      /\ alive' = alive \ ({instances[r]} \ {None})
      /\ Pooling!Answer(w, port[k])
      /\ lock' = None
      /\ UNCHANGED <<nextPort, root, port, started, restarts>>
      /\ wrapped' = wrapped /\ orphaned' = orphaned
  BY DEF Pooling!Register
<1>2. /\ k \in 1..started /\ r \in DocRoot /\ root[k] = r /\ PoolingKnown(k) /\ lock = w
  BY <1>1 DEF PoolingInv, PoolingTaskInv, PoolingKnown, Pooling!TypeOK
<1>3. wrapped' \in BOOLEAN /\ orphaned' \in BOOLEAN
  BY <1>1, Zenon DEF PoolingInv, Pooling!TypeOK
<1>4. k \in Pooling!Child /\ port[k] \in Pooling!Port /\ started \in Nat
  BY <1>2 DEF PoolingInv, Pooling!TypeOK, Pooling!Child, Pooling!Parameters
<1> HIDE DEF r, k
<1>5. /\ handler' \in [Worker -> PoolingTask]
      /\ handler'[w].stage = "answered" /\ handler'[w].answer = port[k]
      /\ handler'[w].child = None /\ handler'[w].root = r
      /\ \A v \in Worker \ {w} : handler'[v] = handler[v]
  BY <1>1, <1>4, PoolingAnswerIs DEF r
<1>6. /\ instances' \in [DocRoot -> Pooling!Child \cup {None}] /\ instances'[r] = k
      /\ \A q \in DocRoot \ {r} : instances'[q] = instances[q]
  BY <1>1, <1>2, <1>4 DEF PoolingInv, Pooling!TypeOK
<1>7. \A c \in Pooling!Child : PoolingKnown(c)' => PoolingKnown(c)
  <2> SUFFICES ASSUME NEW c \in Pooling!Child, PoolingKnown(c)' PROVE PoolingKnown(c)
    OBVIOUS
  <2>0. c # None
    BY DEF Pooling!Parameters, Pooling!Child
  <2>1. CASE c \in alive'
    BY <1>1, <2>1 DEF PoolingKnown
  <2>2. CASE \E q \in DocRoot : instances'[q] = c
    BY <1>2, <1>6, <2>2 DEF PoolingKnown
  <2>3. CASE \E v \in Worker : handler'[v].child = c
    BY <1>5, <2>0, <2>3 DEF PoolingKnown
  <2> QED BY <2>1, <2>2, <2>3 DEF PoolingKnown
<1>8. Pooling!TypeOK'
  <2>1. \A v \in Worker : handler'[v].stage = "sleep" <=> lock' = v
    BY <1>1, <1>2, <1>5 DEF PoolingInv, Pooling!TypeOK, Pooling!Parameters
  <2>2. alive' \subseteq 1..started
    BY <1>1 DEF PoolingInv, Pooling!TypeOK
  <2> QED BY <1>1, <1>3, <1>5, <1>6, <2>1, <2>2 DEF PoolingInv, Pooling!TypeOK,
             PoolingTask
<1>9. PoolingTaskInv'
  BY <1>1, <1>2, <1>4, <1>5 DEF PoolingInv, PoolingTaskInv
<1>10. PoolingRootInv'
  BY <1>1, <1>2, <1>6 DEF PoolingInv, PoolingRootInv
<1>11. Pooling!NoneForgotten'
  <2> SUFFICES ASSUME ~orphaned, NEW c \in alive'
        PROVE  instances'[root[c]] = c \/ \E v \in Worker : handler'[v].child = c
    BY <1>1 DEF Pooling!NoneForgotten
  <2>1. c \in alive /\ c # None /\ c # instances[r] /\ root[c] \in DocRoot
    BY <1>1 DEF PoolingInv, PoolingRootInv, Pooling!TypeOK, Pooling!Parameters
  <2>2. instances[root[c]] = c \/ \E v \in Worker : handler[v].child = c
    BY <2>1 DEF PoolingInv, Pooling!NoneForgotten
  <2>3. CASE instances[root[c]] = c
    BY <1>6, <2>1, <2>3
  <2>4. CASE \E v \in Worker \ {w} : handler[v].child = c
    BY <1>5, <2>4
  <2>5. CASE handler[w].child = c
    BY <1>2, <1>6, <2>5 DEF k
  <2> QED BY <2>2, <2>3, <2>4, <2>5
<1>12. PoolingPortInv'
  <2> SUFFICES ASSUME ~wrapped, ~orphaned PROVE PoolingPortInv'
    BY <1>1 DEF PoolingPortInv
  <2>2. /\ \A c \in Pooling!Child : PoolingKnown(c) => port[c] < nextPort
        /\ \A c, d \in Pooling!Child :
                 PoolingKnown(c) /\ PoolingKnown(d) /\ port[c] = port[d] => c = d
    BY DEF PoolingInv, PoolingPortInv
  <2>3. ASSUME NEW v \in Worker, handler'[v].stage = "answered"
        PROVE  /\ handler'[v].answer < nextPort
               /\ \A c \in Pooling!Child :
                        PoolingKnown(c) /\ port[c] = handler'[v].answer =>
                      root[c] = handler'[v].root
    <3>1. CASE v = w
      BY <1>2, <1>4, <1>5, <2>2, <3>1
    <3>2. CASE v # w
      BY <1>5, <2>3, <3>2 DEF PoolingInv, PoolingPortInv
    <3> QED BY <3>1, <3>2
  <2> QED BY <1>1, <1>7, <2>2, <2>3 DEF PoolingPortInv
<1> QED BY <1>8, <1>9, <1>10, <1>11, <1>12 DEF PoolingInv

\* A task that ends leaves nothing behind.
LEMMA PoolingBecomesIdle ==
    ASSUME Pooling!Parameters, PoolingInv, NEW w \in Worker,
           handler' = [handler EXCEPT ![w] = Pooling!Idle],
           alive' = alive \ ({handler[w].child} \ {None}),
           lock' = IF lock = w THEN None ELSE lock,
           UNCHANGED <<instances, nextPort, root, port, started, restarts>>,
           wrapped' = wrapped, orphaned' = orphaned
    PROVE  PoolingInv'
<1>1. wrapped' \in BOOLEAN /\ orphaned' \in BOOLEAN
  BY Zenon DEF PoolingInv, Pooling!TypeOK
<1>2. /\ handler \in [Worker -> PoolingTask]
      /\ None \notin Worker /\ None \notin Pooling!Child
  BY PoolingTasks DEF PoolingInv, Pooling!Parameters, Pooling!Child
<1>3. handler'[w] = Pooling!Idle /\ \A v \in Worker \ {w} : handler'[v] = handler[v]
  BY <1>2
<1>4. \A c \in Pooling!Child : PoolingKnown(c)' => PoolingKnown(c)
  BY <1>2, <1>3 DEF PoolingKnown, Pooling!Idle
<1>5. Pooling!TypeOK'
  <2>1. \A v \in Worker : handler'[v].stage = "sleep" <=> lock' = v
    BY <1>2, <1>3 DEF PoolingInv, Pooling!TypeOK, Pooling!Idle
  <2>2. handler' \in [Worker -> PoolingTask]
    <3>1. Pooling!Idle \in PoolingTask
      BY DEF PoolingTask, Pooling!Idle
    <3> QED BY <1>2, <3>1
  <2> QED BY <1>1, <2>1, <2>2 DEF PoolingInv, Pooling!TypeOK, PoolingTask
<1>6. PoolingTaskInv'
  BY <1>3 DEF PoolingInv, PoolingTaskInv, Pooling!Idle
<1>7. PoolingRootInv'
  BY DEF PoolingInv, PoolingRootInv
<1>8. Pooling!NoneForgotten'
  <2> SUFFICES ASSUME ~orphaned, NEW c \in alive'
        PROVE  instances[root[c]] = c \/ \E v \in Worker : handler'[v].child = c
    BY DEF Pooling!NoneForgotten
  <2>1. c \in alive /\ c # None
    BY DEF PoolingInv, Pooling!TypeOK, Pooling!Parameters
  <2>2. c # handler[w].child
    BY <2>1
  <2>3. instances[root[c]] = c \/ \E v \in Worker : handler[v].child = c
    BY <2>1 DEF PoolingInv, Pooling!NoneForgotten
  <2> QED BY <1>3, <2>2, <2>3
<1>9. PoolingPortInv'
  BY <1>3, <1>4 DEF PoolingInv, PoolingPortInv, Pooling!Idle
<1> QED BY <1>5, <1>6, <1>7, <1>8, <1>9 DEF PoolingInv

LEMMA PoolingForwardedStep ==
    ASSUME Pooling!Parameters, PoolingInv, NEW w \in Worker, Pooling!Forwarded(w)
    PROVE  PoolingInv'
<1>1. /\ handler[w].stage = "answered" /\ handler' = [handler EXCEPT ![w] = Pooling!Idle]
      /\ UNCHANGED <<instances, nextPort, lock, root, port, alive, started, restarts>>
      /\ wrapped' = wrapped /\ orphaned' = orphaned
  BY DEF Pooling!Forwarded, Pooling!children
<1>2. handler[w].child = None /\ lock # w
  BY <1>1 DEF PoolingInv, PoolingTaskInv, Pooling!TypeOK
<1>3. /\ alive' = alive \ ({handler[w].child} \ {None})
      /\ lock' = IF lock = w THEN None ELSE lock
  BY <1>1, <1>2
<1> QED BY <1>1, <1>3, PoolingBecomesIdle

LEMMA PoolingCancelStep ==
    ASSUME Pooling!Parameters, PoolingInv, NEW w \in Worker, Pooling!Cancel(w)
    PROVE  PoolingInv'
BY PoolingBecomesIdle DEF Pooling!Cancel

LEMMA PoolingEndsStep ==
    ASSUME Pooling!Parameters, PoolingInv, Pooling!ChildEnds
    PROVE  PoolingInv'
<1>1. /\ alive' \subseteq alive
      /\ UNCHANGED <<instances, nextPort, lock, handler, root, port, started, restarts>>
      /\ wrapped' = wrapped /\ orphaned' = orphaned
  BY DEF Pooling!ChildEnds
<1>2. wrapped' \in BOOLEAN /\ orphaned' \in BOOLEAN
  BY <1>1, Zenon DEF PoolingInv, Pooling!TypeOK
<1>3. \A c \in Pooling!Child : PoolingKnown(c)' => PoolingKnown(c)
  BY <1>1 DEF PoolingKnown
<1>4. Pooling!TypeOK'
  BY <1>1, <1>2 DEF PoolingInv, Pooling!TypeOK
<1>5. PoolingTaskInv'
  BY <1>1 DEF PoolingInv, PoolingTaskInv
<1>6. PoolingRootInv'
  BY <1>1 DEF PoolingInv, PoolingRootInv
<1>7. Pooling!NoneForgotten'
  BY <1>1 DEF PoolingInv, Pooling!NoneForgotten
<1>8. PoolingPortInv'
  BY <1>1, <1>3 DEF PoolingInv, PoolingPortInv
<1> QED BY <1>4, <1>5, <1>6, <1>7, <1>8 DEF PoolingInv

LEMMA PoolingCrashStep ==
    ASSUME Pooling!Parameters, PoolingInv, Pooling!Crash
    PROVE  PoolingInv'
<1>1. /\ restarts < MaxRestarts /\ restarts' = restarts + 1
      /\ orphaned' = (orphaned \/ alive # {})
      /\ instances' = [r \in DocRoot |-> None]
      /\ nextPort' = FirstPort /\ lock' = None
      /\ handler' = [w \in Worker |-> Pooling!Idle]
      /\ UNCHANGED <<root, port, alive, started>> /\ wrapped' = wrapped
  BY DEF Pooling!Crash, Pooling!children
<1>2. wrapped' \in BOOLEAN /\ orphaned' \in BOOLEAN
  BY <1>1, Zenon DEF PoolingInv, Pooling!TypeOK
<1>3. /\ \A w \in Worker : handler'[w] = Pooling!Idle
      /\ None \notin Worker /\ None \notin Pooling!Child
  BY <1>1 DEF Pooling!Parameters, Pooling!Child
<1>4. Pooling!TypeOK'
  BY <1>1, <1>2, <1>3 DEF PoolingInv, Pooling!TypeOK, Pooling!Idle, Pooling!Parameters,
     Pooling!Port
<1>5. PoolingTaskInv'
  BY <1>3 DEF PoolingTaskInv, Pooling!Idle
<1>6. PoolingRootInv'
  BY <1>1 DEF PoolingInv, PoolingRootInv
<1>7. ~orphaned' => alive' = {}
  BY <1>1
<1>8. Pooling!NoneForgotten'
  BY <1>7 DEF Pooling!NoneForgotten
<1>9. ~orphaned' => \A c \in Pooling!Child : ~PoolingKnown(c)'
  BY <1>1, <1>3, <1>7 DEF PoolingKnown, Pooling!Idle
<1>10. PoolingPortInv'
  BY <1>3, <1>9 DEF PoolingPortInv, Pooling!Idle
<1> QED BY <1>4, <1>5, <1>6, <1>8, <1>10 DEF PoolingInv

LEMMA PoolingInvStep ==
    ASSUME Pooling!Parameters
    PROVE  PoolingInv /\ [Pooling!Next]_(Pooling!vars) => PoolingInv'
<1> SUFFICES ASSUME PoolingInv, [Pooling!Next]_(Pooling!vars) PROVE PoolingInv'
  OBVIOUS
<1>1. ASSUME UNCHANGED Pooling!vars PROVE PoolingInv'
  <2>1. /\ UNCHANGED <<instances, nextPort, lock, handler, root, port, alive, started, restarts>>
        /\ wrapped' = wrapped /\ orphaned' = orphaned
    BY <1>1 DEF Pooling!vars, Pooling!children
  <2>2. wrapped' \in BOOLEAN /\ orphaned' \in BOOLEAN
    BY <2>1, Zenon DEF PoolingInv, Pooling!TypeOK
  <2>3. Pooling!TypeOK'
    BY <2>1, <2>2 DEF PoolingInv, Pooling!TypeOK
  <2>4. PoolingTaskInv' /\ PoolingRootInv' /\ Pooling!NoneForgotten'
    BY <2>1 DEF PoolingInv, PoolingTaskInv, PoolingRootInv, Pooling!NoneForgotten
  <2>5. PoolingPortInv'
    BY <2>1 DEF PoolingInv, PoolingPortInv, PoolingKnown
  <2> QED BY <2>3, <2>4, <2>5 DEF PoolingInv
<1> QED BY <1>1, PoolingCallStep, PoolingFindStep, PoolingSpawnStep, PoolingRegisterStep,
           PoolingForwardedStep, PoolingCancelStep,
           PoolingEndsStep, PoolingCrashStep DEF Pooling!Next

LEMMA PoolingTypeCorrect ==
    ASSUME Pooling!Parameters
    PROVE  Pooling!Init /\ [][Pooling!Next]_(Pooling!vars) => []Pooling!TypeOK
<1>1. PoolingInv => Pooling!TypeOK
  BY DEF PoolingInv
<1> QED BY <1>1, PoolingInvInit, PoolingInvStep, PTL

\* An answered address is the root's own.
LEMMA PoolingOwnServer ==
    ASSUME Pooling!Parameters
    PROVE  Pooling!Init /\ [][Pooling!Next]_(Pooling!vars) => []Pooling!RightRoot
<1>1. PoolingInv => Pooling!RightRoot
  <2> SUFFICES ASSUME PoolingInv, ~wrapped, ~orphaned, NEW w \in Worker,
                      handler[w].stage = "answered", NEW c \in alive,
                      port[c] = handler[w].answer
               PROVE  root[c] = handler[w].root
    BY DEF Pooling!RightRoot
  <2>1. PoolingKnown(c) /\ c \in Pooling!Child
    BY DEF PoolingKnown, PoolingInv, Pooling!TypeOK, Pooling!Child, Pooling!Parameters
  <2> QED BY <2>1 DEF PoolingInv, PoolingPortInv
<1> QED BY <1>1, PoolingInvInit, PoolingInvStep, PTL

\* ... and no child is forgotten.
LEMMA PoolingAllKept ==
    ASSUME Pooling!Parameters
    PROVE  Pooling!Init /\ [][Pooling!Next]_(Pooling!vars) => []Pooling!NoneForgotten
<1>1. PoolingInv => Pooling!NoneForgotten
  BY DEF PoolingInv
<1> QED BY <1>1, PoolingInvInit, PoolingInvStep, PTL

-----------------------------------------------------------------------------
(* AccessLogger: for any limit, number of backups, sizes, failures and     *)
(* crashes.                                                                *)

\* The entries of a line.
LoggingInLine(l) == {Logging!Number(l[j]) : j \in DOMAIN l}

\* What is on disk.
LoggingDiskInv ==
    /\ current = None \/ current \in Seq(Logging!Line)
    /\ \A g \in Logging!Generation : backup[g] = None \/ backup[g] \in Seq(Logging!Line)
    /\ Logging!InFile(current) \subseteq 1..entries
    /\ \A g \in Logging!Generation : Logging!InFile(backup[g]) \subseteq 1..entries

\* How far the task is that has the mutex.
LoggingTaskInv ==
    /\ stage # "idle" => size \in Size /\ entries >= 1
    /\ stage \in Logging!Rotating \cup {"check", "line"}
          => entries \notin Logging!InFile(current)
    /\ stage # "idle"
          => \A g \in Logging!Generation : entries \notin Logging!InFile(backup[g])
    /\ stage = "end" =>
          /\ current # None /\ current # <<>>
          /\ current[Len(current)][1] = -entries
    /\ stage \in Logging!Rotating => MaxBackups >= 1 /\ current # None
    /\ stage = "shift" =>
          gen \in 1..(MaxBackups - 1) /\ backup[gen + 1] = None
    /\ stage = "create" => backup[1] = None
    /\ stage = "compress" => backup[1] = <<>>
    /\ stage = "remove" => backup[1] = current

\* How long the file is.
LoggingLengthInv ==
    /\ length \in Nat /\ (current = None => length = 0)
    /\ MaxBackups # 0 =>
          /\ length <= MaxBytes \/ \E s \in Size : length <= s + 1
          /\ stage = "line" => length = 0 \/ Logging!Fits
          /\ stage = "end" => length + 1 <= MaxBytes \/ length <= size

\* A backup has been rotated as often as its number says, and once more when this
\* rotation has still to move it.
LoggingAgeInv ==
    /\ stage \in Logging!Rotating => \A e \in written : rotations[e] >= 1
    /\ \A g \in Logging!Generation : \A e \in Logging!InFile(backup[g]) \cap written :
          /\ rotations[e] >= g
          /\ stage = "oldest" \/ (stage = "shift" /\ g <= gen) => rotations[e] > g

LoggingTypes ==
    /\ backup = [g \in Logging!Generation |-> backup[g]]
    /\ stage \in Logging!Stages /\ gen \in 0..MaxBackups /\ size \in Size \cup {0}
    /\ entries \in 0..MaxEntries /\ written \subseteq 1..entries
    /\ stage # "idle" => entries \notin written
    /\ rotations \in [Logging!Entry -> Nat] /\ broken \in BOOLEAN
    /\ failures \in 0..MaxFailures /\ crashes \in 0..MaxCrashes

LoggingInv == LoggingTypes /\ LoggingDiskInv /\ LoggingTaskInv /\ LoggingLengthInv
    /\ LoggingAgeInv /\ Logging!Retained /\ Logging!InOrder

-----------------------------------------------------------------------------
(* Lines, and the entries they hold.                                       *)

LEMMA LoggingInFileIs ==
    ASSUME NEW l \in Seq(Logging!Line), l # None
    PROVE  Logging!InFile(l) = UNION {LoggingInLine(l[i]) : i \in 1..Len(l)}
BY DEF Logging!InFile, LoggingInLine

LEMMA LoggingNothingIn == Logging!InFile(None) = {} /\ Logging!InFile(<<>>) = {}
BY DEF Logging!InFile

LEMMA LoggingLineIs ==
    ASSUME NEW x \in Logging!Line
    PROVE  x \in Seq(Int) /\ Len(x) \in Nat \ {0} /\ x[1] \in Int
           /\ LoggingInLine(x) = {Logging!Number(x[j]) : j \in 1..Len(x)}
<1>1. x \in Seq(Int) /\ x # <<>>
  BY DEF Logging!Line
<1>2. Len(x) \in Nat /\ Len(x) # 0
  BY <1>1
<1> QED BY <1>1, <1>2 DEF LoggingInLine

LEMMA LoggingJoined ==
    ASSUME NEW S, NEW s \in Seq(S), NEW t \in Seq(S)
    PROVE  /\ s \o t \in Seq(S) /\ Len(s \o t) = Len(s) + Len(t)
           /\ \A i \in 1..Len(s) : (s \o t)[i] = s[i]
           /\ \A i \in 1..Len(t) : (s \o t)[Len(s) + i] = t[i]
OBVIOUS

LEMMA LoggingLastReplaced ==
    ASSUME NEW S, NEW s \in Seq(S), NEW y \in S, Len(s) >= 1,
           NEW m, m = [s EXCEPT ![Len(s)] = y]
    PROVE  /\ m \in Seq(S) /\ Len(m) = Len(s) /\ m[Len(s)] = y
           /\ \A i \in 1..(Len(s) - 1) : m[i] = s[i]
OBVIOUS

LEMMA LoggingFilesAreNotNone ==
    ASSUME Logging!Parameters, NEW l \in Seq(Logging!Line)
    PROVE  l # None
<1>1. l \in Seq(Seq(Int))
  <2>1. Logging!Line \subseteq Seq(Int)
    BY DEF Logging!Line
  <2> QED BY <2>1
<1> QED BY <1>1 DEF Logging!Parameters

\* Two files that differ in their last line.
LEMMA LoggingLastDiffers ==
    ASSUME Logging!Parameters, NEW l \in Seq(Logging!Line), NEW m \in Seq(Logging!Line),
           NEW S,
           Len(l) >= 1, Len(m) = Len(l),
           \A i \in 1..(Len(l) - 1) : m[i] = l[i],
           LoggingInLine(m[Len(l)]) = LoggingInLine(l[Len(l)]) \cup S
    PROVE  Logging!InFile(m) = Logging!InFile(l) \cup S
<1>1. /\ Logging!InFile(l) = UNION {LoggingInLine(l[i]) : i \in 1..Len(l)}
      /\ Logging!InFile(m) = UNION {LoggingInLine(m[i]) : i \in 1..Len(l)}
  BY LoggingInFileIs, LoggingFilesAreNotNone
<1>2. Len(l) \in Nat
  OBVIOUS
<1> DEFINE k == Len(l)
<1>3. 1..k = 1..(k - 1) \cup {k}
  BY <1>2
<1> HIDE DEF k
<1>4. \A x : x \in Logging!InFile(l) <=> \E i \in 1..(k - 1) \cup {k} :
                                               x \in LoggingInLine(l[i])
  BY <1>1, <1>3, Zenon DEF k
<1>5. \A x : x \in Logging!InFile(m) <=> \E i \in 1..(k - 1) \cup {k} :
                                               x \in LoggingInLine(m[i])
  BY <1>1, <1>3, Zenon DEF k
<1>6. (\A i \in 1..(k - 1) :
             m[i] = l[i]) /\ LoggingInLine(m[k]) = LoggingInLine(l[k]) \cup S
  BY DEF k
<1> QED BY <1>4, <1>5, <1>6, Zenon

\* A line is added, without its end.
LEMMA LoggingLineAdded ==
    ASSUME Logging!Parameters, NEW l \in Seq(Logging!Line), NEW n \in Nat
    PROVE  /\ Append(l, <<-n>>) \in Seq(Logging!Line)
           /\ Logging!InFile(Append(l, <<-n>>)) = Logging!InFile(l) \cup {n}
           /\ Append(l, <<-n>>) # <<>>
           /\ Append(l, <<-n>>)[Len(Append(l, <<-n>>))][1] = -n
<1> DEFINE x == <<-n>>
<1>1. x \in Logging!Line /\ x[1] = -n /\ DOMAIN x = {1}
  BY DEF Logging!Line
<1>2. LoggingInLine(x) = {n}
  BY <1>1 DEF LoggingInLine, Logging!Number
<1> HIDE DEF x
<1> DEFINE m == Append(l, x)
           k == Len(l)
<1>3. /\ m \in Seq(Logging!Line) /\ Len(m) = k + 1 /\ m[k + 1] = x /\ k \in Nat
      /\ \A i \in 1..k : m[i] = l[i]
  BY <1>1
<1>4. /\ Logging!InFile(l) = UNION {LoggingInLine(l[i]) : i \in 1..k}
      /\ Logging!InFile(m) = UNION {LoggingInLine(m[i]) : i \in 1..(k + 1)}
  BY <1>3, LoggingInFileIs, LoggingFilesAreNotNone
<1>5. m # <<>> /\ m[Len(m)][1] = -n
  BY <1>1, <1>3
<1>6. 1..(k + 1) = 1..k \cup {k + 1}
  BY <1>3
<1> HIDE DEF m, k
<1>7. Logging!InFile(m) = Logging!InFile(l) \cup {n}
  <2>1. \A z : z \in Logging!InFile(m) <=> \E i \in 1..(k + 1) : z \in LoggingInLine(m[i])
    BY <1>4, Zenon
  <2>2. \A z : z \in Logging!InFile(l) <=> \E i \in 1..k : z \in LoggingInLine(l[i])
    BY <1>4, Zenon
  <2>3. \A z : z \in LoggingInLine(m[k + 1]) <=> z = n
    BY <1>2, <1>3
  <2>4. k + 1 \in 1..(k + 1) /\ \A i \in 1..k : i \in 1..(k + 1)
    BY <1>3
  <2>5. \A i \in 1..(k + 1) : i \in 1..k \/ i = k + 1
    BY <1>6, Zenon
  <2>6. \A i \in 1..k : m[i] = l[i]
    BY <1>3
  <2>7. \A z : z \in Logging!InFile(m) <=> z \in Logging!InFile(l) \/ z = n
    BY <2>1, <2>2, <2>3, <2>4, <2>5, <2>6, Zenon
  <2> QED BY <2>7
<1> QED BY <1>3, <1>5, <1>7 DEF m, x

\* The last line of a file changes.
LEMMA LoggingLastChanges ==
    ASSUME Logging!Parameters, NEW l \in Seq(Logging!Line), l # <<>>,
           NEW y \in Logging!Line, NEW S,
           LoggingInLine(y) = LoggingInLine(l[Len(l)]) \cup S
    PROVE  LET m == [l EXCEPT ![Len(l)] = y]
           IN  m \in Seq(Logging!Line) /\ m # <<>> /\ m[Len(m)] = y
            /\ Logging!InFile(m) = Logging!InFile(l) \cup S
<1> DEFINE m == [l EXCEPT ![Len(l)] = y]
<1>1. Len(l) >= 1
  OBVIOUS
<1>2. /\ m \in Seq(Logging!Line) /\ Len(m) = Len(l) /\ m[Len(l)] = y
      /\ \A i \in 1..(Len(l) - 1) : m[i] = l[i]
  BY <1>1, LoggingLastReplaced
<1> HIDE DEF m
<1>3. Logging!InFile(m) = Logging!InFile(l) \cup S
  BY <1>1, <1>2, LoggingLastDiffers
<1>4. m # <<>>
  BY <1>1, <1>2
<1> QED BY <1>2, <1>3, <1>4 DEF m

\* A line that has lost its end, and an entry that goes on with it.
LEMMA LoggingGlued ==
    ASSUME NEW x \in Logging!Line, x[1] < 0, NEW n \in Nat
    PROVE  LET y == <<-n>> \o <<-x[1]>> \o Tail(x)
           IN  y \in Logging!Line /\ y[1] = -n
            /\ LoggingInLine(y) = LoggingInLine(x) \cup {n}
<1>1. /\ x \in Seq(Int) /\ Len(x) \in Nat \ {0} /\ x[1] \in Int
      /\ LoggingInLine(x) = {Logging!Number(x[j]) : j \in 1..Len(x)}
  BY LoggingLineIs
<1> DEFINE z == <<-n>> \o <<-x[1]>>
           t == Tail(x)
           y == z \o t
<1>2. z \in Seq(Int) /\ Len(z) = 2 /\ z[1] = -n /\ z[2] = -x[1]
  BY <1>1
<1>3. t \in Seq(Int) /\ Len(t) = Len(x) - 1 /\ \A j \in 1..(Len(x) - 1) : t[j] = x[j + 1]
  BY <1>1
<1> HIDE DEF t, z
<1>4. /\ y \in Seq(Int) /\ Len(y) = 2 + Len(t)
      /\ \A i \in 1..2 : y[i] = z[i]
      /\ \A i \in 1..Len(t) : y[2 + i] = t[i]
  <2>1. z \in Seq(Int) /\ t \in Seq(Int)
    BY <1>2, <1>3
  <2>2. /\ y \in Seq(Int) /\ Len(y) = Len(z) + Len(t)
        /\ \A i \in 1..Len(z) : y[i] = z[i]
        /\ \A i \in 1..Len(t) : y[Len(z) + i] = t[i]
    BY <2>1, LoggingJoined
  <2> QED BY <1>2, <2>2
<1> HIDE DEF y
<1>5. Len(y) = Len(x) + 1 /\ y[1] = -n /\ y[2] = -x[1]
  BY <1>1, <1>2, <1>3, <1>4
<1>6. \A i \in 1..(Len(x) - 1) : y[2 + i] = x[i + 1]
  BY <1>3, <1>4
<1>7. y \in Logging!Line
  BY <1>1, <1>4, <1>5 DEF Logging!Line
<1>8. LoggingInLine(y) = {Logging!Number(y[j]) : j \in 1..Len(y)}
  BY <1>7, LoggingLineIs
<1>9. Logging!Number(y[1]) = n /\ Logging!Number(y[2]) = Logging!Number(x[1])
  BY <1>1, <1>5 DEF Logging!Number
<1>10. ASSUME NEW j \in 1..Len(y) PROVE Logging!Number(y[j]) \in LoggingInLine(x) \cup {n}
  <2>1. CASE j = 1
    BY <1>9, <2>1
  <2>2. CASE j = 2
    <3>1. 1 \in 1..Len(x)
      BY <1>1
    <3>2. Logging!Number(x[1]) \in LoggingInLine(x)
      BY <1>1, <3>1
    <3> QED BY <1>9, <2>2, <3>2
  <2>3. CASE j > 2
    <3> DEFINE i == j - 2
    <3>1. i \in 1..(Len(x) - 1) /\ j = 2 + i /\ i + 1 \in 1..Len(x)
      BY <1>1, <1>5, <2>3
    <3> HIDE DEF i
    <3>2. y[j] = x[i + 1]
      BY <1>6, <3>1
    <3> QED BY <1>1, <3>1, <3>2
  <2> QED BY <2>1, <2>2, <2>3
<1>11. ASSUME NEW j \in 1..Len(x) PROVE Logging!Number(x[j]) \in LoggingInLine(y)
  <2>1. CASE j = 1
    <3>1. 2 \in 1..Len(y)
      BY <1>1, <1>5
    <3>2. Logging!Number(y[2]) \in LoggingInLine(y)
      BY <1>8, <3>1
    <3> QED BY <1>9, <2>1, <3>2
  <2>2. CASE j # 1
    <3> DEFINE i == j - 1
    <3>1. i \in 1..(Len(x) - 1) /\ j = i + 1 /\ 2 + i \in 1..Len(y)
      BY <1>1, <1>5, <2>2
    <3> HIDE DEF i
    <3>2. y[2 + i] = x[j]
      BY <1>6, <3>1
    <3> QED BY <1>8, <3>1, <3>2
  <2> QED BY <2>1, <2>2
<1>12. n \in LoggingInLine(y)
  <2>1. 1 \in 1..Len(y)
    BY <1>1, <1>5
  <2>2. Logging!Number(y[1]) \in LoggingInLine(y)
    BY <1>8, <2>1
  <2> QED BY <1>9, <2>2
<1>13. LoggingInLine(y) \subseteq LoggingInLine(x) \cup {n}
  BY <1>8, <1>10
<1>14. LoggingInLine(x) \subseteq LoggingInLine(y)
  BY <1>1, <1>11
<1>15. LoggingInLine(y) = LoggingInLine(x) \cup {n}
  BY <1>12, <1>13, <1>14
<1> QED BY <1>5, <1>7, <1>15 DEF y, z, t

\* A line that gets its end.
LEMMA LoggingEnded ==
    ASSUME NEW x \in Logging!Line, NEW n \in Nat, x[1] = -n
    PROVE  LET y == [x EXCEPT ![1] = n]
           IN  y \in Logging!Line /\ LoggingInLine(y) = LoggingInLine(x)
            /\ n \in LoggingInLine(x)
<1>1. /\ x \in Seq(Int) /\ Len(x) \in Nat \ {0}
      /\ LoggingInLine(x) = {Logging!Number(x[j]) : j \in 1..Len(x)}
  BY LoggingLineIs
<1> DEFINE y == [x EXCEPT ![1] = n]
<1>2. /\ y \in Seq(Int) /\ Len(y) = Len(x) /\ y[1] = n
      /\ \A j \in 2..Len(x) : y[j] = x[j]
  BY <1>1
<1> HIDE DEF y
<1>3. y \in Logging!Line
  BY <1>1, <1>2 DEF Logging!Line
<1>4. Logging!Number(y[1]) = n /\ Logging!Number(x[1]) = n
  BY <1>2 DEF Logging!Number
<1>5. \A j \in 1..Len(x) : Logging!Number(y[j]) = Logging!Number(x[j])
  <2> TAKE j \in 1..Len(x)
  <2>1. CASE j = 1
    BY <1>4, <2>1
  <2>2. CASE j # 1
    <3>1. j \in 2..Len(x)
      BY <1>1, <2>2
    <3>2. y[j] = x[j]
      BY <1>2, <3>1
    <3> QED BY <3>2
  <2> QED BY <2>1, <2>2
<1>6. LoggingInLine(y) = LoggingInLine(x)
  <2>1. LoggingInLine(y) = {Logging!Number(y[j]) : j \in 1..Len(x)}
    BY <1>2, <1>3, LoggingLineIs
  <2> QED BY <1>1, <1>5, <2>1
<1>7. n \in LoggingInLine(x)
  <2>1. 1 \in 1..Len(x)
    BY <1>1
  <2>2. Logging!Number(x[1]) \in LoggingInLine(x)
    BY <1>1, <2>1
  <2> QED BY <1>4, <2>2
<1> QED BY <1>3, <1>6, <1>7 DEF y

\* An entry goes on with a line that has lost its end.
LEMMA LoggingLineContinued ==
    ASSUME Logging!Parameters, NEW l \in Seq(Logging!Line), l # <<>>, l[Len(l)][1] < 0,
           NEW n \in Nat
    PROVE  LET m == [l EXCEPT ![Len(l)] = <<-n>> \o <<-@[1]>> \o Tail(@)]
           IN  /\ m \in Seq(Logging!Line) /\ m # <<>> /\ m[Len(m)][1] = -n
               /\ Logging!InFile(m) = Logging!InFile(l) \cup {n}
<1> DEFINE x == l[Len(l)]
           y == <<-n>> \o <<-x[1]>> \o Tail(x)
<1>1. x \in Logging!Line
  OBVIOUS
<1>2. y \in Logging!Line /\ y[1] = -n /\ LoggingInLine(y) = LoggingInLine(x) \cup {n}
  BY <1>1, LoggingGlued
<1> HIDE DEF y
<1>3. LET m == [l EXCEPT ![Len(l)] = y]
      IN  m \in Seq(Logging!Line) /\ m # <<>> /\ m[Len(m)] = y
       /\ Logging!InFile(m) = Logging!InFile(l) \cup {n}
  BY <1>2, LoggingLastChanges
<1> QED BY <1>2, <1>3 DEF y

\* A line gets its end.
LEMMA LoggingLineEnded ==
    ASSUME Logging!Parameters, NEW l \in Seq(Logging!Line), l # <<>>, NEW n \in Nat,
           l[Len(l)][1] = -n
    PROVE  LET m == [l EXCEPT ![Len(l)][1] = n]
           IN  m \in Seq(Logging!Line) /\ Logging!InFile(m) = Logging!InFile(l)
            /\ n \in Logging!InFile(l)
<1> DEFINE x == l[Len(l)]
           y == [x EXCEPT ![1] = n]
<1>1. x \in Logging!Line /\ Len(l) \in 1..Len(l)
  OBVIOUS
<1>2. y \in Logging!Line /\ LoggingInLine(y) = LoggingInLine(x) \cup {}
       /\ n \in LoggingInLine(x)
  BY <1>1, LoggingEnded
<1>3. n \in Logging!InFile(l)
  <2>1. Logging!InFile(l) = UNION {LoggingInLine(l[i]) : i \in 1..Len(l)}
    BY LoggingInFileIs, LoggingFilesAreNotNone
  <2> QED BY <1>1, <1>2, <2>1
<1> HIDE DEF y
<1>4. LET m == [l EXCEPT ![Len(l)] = y]
      IN  m \in Seq(Logging!Line) /\ m # <<>> /\ m[Len(m)] = y
       /\ Logging!InFile(m) = Logging!InFile(l) \cup {}
  BY <1>2, LoggingLastChanges
<1>5. [l EXCEPT ![Len(l)] = y] = [l EXCEPT ![Len(l)][1] = n]
  BY DEF y
<1> HIDE DEF x
<1> QED BY <1>3, <1>4, <1>5

-----------------------------------------------------------------------------
(* The invariant.                                                          *)

LEMMA LoggingInvInit == ASSUME Logging!Parameters PROVE Logging!Init => LoggingInv
<1> SUFFICES ASSUME Logging!Init PROVE LoggingInv
  OBVIOUS
<1>1. broken \in BOOLEAN
  BY Zenon DEF Logging!Init
<1>2. LoggingTypes
  BY <1>1 DEF Logging!Init, LoggingTypes, Logging!Parameters, Logging!Stages,
     Logging!Generation, Logging!Entry
<1>3. Logging!InFile(current) = {} /\ \A g \in Logging!Generation :
                                            Logging!InFile(backup[g]) = {}
  BY LoggingNothingIn DEF Logging!Init
<1>4. LoggingDiskInv
  BY <1>3 DEF Logging!Init, LoggingDiskInv
<1>5. LoggingTaskInv
  BY DEF Logging!Init, LoggingTaskInv, Logging!Rotating
<1>6. LoggingLengthInv
  BY DEF Logging!Init, LoggingLengthInv, Logging!Parameters
<1>7. LoggingAgeInv
  BY <1>3 DEF Logging!Init, LoggingAgeInv
<1>8. Logging!Retained /\ Logging!InOrder
  BY <1>3 DEF Logging!Init, Logging!Retained, Logging!InOrder
<1> QED BY <1>2, <1>4, <1>5, <1>6, <1>7, <1>8 DEF LoggingInv

LEMMA LoggingBeginStep ==
    ASSUME Logging!Parameters, LoggingInv, Logging!Begin
    PROVE  LoggingInv'
<1>1. /\ stage = "idle" /\ entries < MaxEntries /\ entries' = entries + 1
      /\ size' \in Size /\ stage' = "check"
      /\ UNCHANGED <<current, length, backup, gen, written, rotations, failures, crashes>>
      /\ broken' = broken
  BY DEF Logging!Begin, Logging!disk, Logging!history, Logging!bounds
<1>2. broken' \in BOOLEAN
  BY <1>1, Zenon DEF LoggingInv, LoggingTypes
<1>3. entries \in Nat /\ entries + 1 \notin 1..entries
       /\ 1..entries \subseteq 1..(entries + 1)
  BY DEF LoggingInv, LoggingTypes
<1>4. LoggingTypes'
  BY <1>1, <1>2, <1>3 DEF LoggingInv, LoggingTypes, Logging!Stages, Logging!Parameters
<1>5. LoggingDiskInv'
  BY <1>1, <1>3 DEF LoggingInv, LoggingDiskInv
<1>6. LoggingTaskInv'
  BY <1>1, <1>3 DEF LoggingInv, LoggingDiskInv, LoggingTaskInv, Logging!Rotating
<1>7. LoggingLengthInv'
  BY <1>1 DEF LoggingInv, LoggingLengthInv
<1>8. LoggingAgeInv'
  BY <1>1 DEF LoggingInv, LoggingAgeInv, Logging!Rotating
<1>9. Logging!Retained' /\ Logging!InOrder'
  BY <1>1 DEF LoggingInv, Logging!Retained, Logging!InOrder
<1> QED BY <1>4, <1>5, <1>6, <1>7, <1>8, <1>9 DEF LoggingInv

LEMMA LoggingCheckStep ==
    ASSUME Logging!Parameters, LoggingInv, Logging!Check
    PROVE  LoggingInv'
<1>1. /\ stage = "check"
      /\ UNCHANGED <<gen, size, entries, written, backup, failures, crashes>>
      /\ broken' = broken
  BY DEF Logging!Check, Logging!disk, Logging!bounds
<1>2. broken' \in BOOLEAN
  BY <1>1, Zenon DEF LoggingInv, LoggingTypes
<1> DEFINE more == [e \in Logging!Entry |-> IF e \in written THEN rotations[e] + 1
                                            ELSE rotations[e]]
<1>3. written \subseteq Logging!Entry /\ \A e \in Logging!Entry : rotations[e] \in Nat
  BY DEF LoggingInv, LoggingTypes, Logging!Entry, Logging!Parameters
<1>4. more \in [Logging!Entry -> Nat] /\ \A e \in written : more[e] = rotations[e] + 1
  BY <1>3
<1> HIDE DEF more
<1>5. CASE /\ current = None \/ length = 0 \/ Logging!Fits
           /\ stage' = "line" /\ UNCHANGED <<current, length, rotations>>
  <2>1. LoggingTypes'
    BY <1>1, <1>2, <1>5 DEF LoggingInv, LoggingTypes, Logging!Stages
  <2>2. LoggingDiskInv' /\ LoggingTaskInv'
    BY <1>1, <1>5 DEF LoggingInv, LoggingDiskInv, LoggingTaskInv, Logging!Rotating
  <2>3. LoggingLengthInv'
    BY <1>1, <1>5 DEF LoggingInv, LoggingLengthInv, Logging!Fits
  <2>4. LoggingAgeInv' /\ Logging!Retained' /\ Logging!InOrder'
    BY <1>1, <1>5 DEF LoggingInv, LoggingAgeInv, Logging!Retained, Logging!InOrder,
       Logging!Rotating
  <2> QED BY <2>1, <2>2, <2>3, <2>4 DEF LoggingInv
<1>6. CASE /\ MaxBackups = 0
           /\ (current' = None /\ length' = 0) \/ UNCHANGED <<current, length>>
           /\ stage' = "line" /\ rotations' = more
  <2>0. Logging!Generation = {}
    BY <1>6 DEF Logging!Generation
  <2>1. LoggingTypes'
    BY <1>1, <1>2, <1>4, <1>6 DEF LoggingInv, LoggingTypes, Logging!Stages
  <2>2. LoggingDiskInv' /\ LoggingTaskInv'
    BY <1>1, <1>6, <2>0, LoggingNothingIn DEF LoggingInv, LoggingDiskInv, LoggingTaskInv,
       Logging!Rotating
  <2>3. LoggingLengthInv'
    BY <1>1, <1>6 DEF LoggingInv, LoggingLengthInv, Logging!Fits
  <2>4. LoggingAgeInv' /\ Logging!InOrder'
    BY <1>1, <1>6, <2>0 DEF LoggingAgeInv, Logging!InOrder, Logging!Rotating
  <2>5. Logging!Retained'
    BY <1>1, <1>3, <1>4, <1>6 DEF Logging!Retained
  <2> QED BY <2>1, <2>2, <2>3, <2>4, <2>5 DEF LoggingInv
<1>7. CASE /\ current # None /\ MaxBackups # 0
           /\ stage' = "oldest" /\ UNCHANGED <<current, length>> /\ rotations' = more
  <2>1. LoggingTypes'
    BY <1>1, <1>2, <1>4, <1>7 DEF LoggingInv, LoggingTypes, Logging!Stages
  <2>2. LoggingDiskInv' /\ LoggingTaskInv'
    BY <1>1, <1>7 DEF LoggingInv, LoggingDiskInv, LoggingTaskInv, Logging!Rotating,
       Logging!Parameters
  <2>3. LoggingLengthInv'
    BY <1>1, <1>7 DEF LoggingInv, LoggingLengthInv
  <2>4. LoggingAgeInv'
    <3>1. \A e \in written : rotations'[e] >= 1
      BY <1>3, <1>4, <1>7
    <3>2. ASSUME NEW g \in Logging!Generation,
                 NEW e \in Logging!InFile(backup[g]) \cap written
          PROVE  rotations'[e] > g /\ rotations'[e] >= g
      <4>1. rotations[e] >= g /\ rotations[e] \in Nat /\ g \in Nat
        BY <1>3 DEF LoggingInv, LoggingAgeInv, Logging!Generation
      <4> QED BY <1>4, <1>7, <4>1
    <3> QED BY <1>1, <3>1, <3>2 DEF LoggingAgeInv
  <2>5. Logging!Retained'
    <3>1. \A e \in written : rotations'[e] <= MaxBackups => rotations[e] <= MaxBackups
      BY <1>3, <1>4, <1>7 DEF Logging!Parameters
    <3> QED BY <1>1, <1>7, <3>1 DEF LoggingInv, Logging!Retained
  <2>6. Logging!InOrder'
    BY <1>1, <1>7 DEF LoggingInv, Logging!InOrder
  <2> QED BY <2>1, <2>2, <2>3, <2>4, <2>5, <2>6 DEF LoggingInv
<1> QED BY <1>5, <1>6, <1>7 DEF Logging!Check, Logging!disk, more

LEMMA LoggingOldestStep ==
    ASSUME Logging!Parameters, LoggingInv, Logging!RemoveOldest
    PROVE  LoggingInv'
<1>1. /\ stage = "oldest" /\ backup' = [backup EXCEPT ![MaxBackups] = None]
      /\ gen' = MaxBackups - 1 /\ stage' = IF MaxBackups = 1 THEN "create" ELSE "shift"
      /\ UNCHANGED <<current, length, size, entries, written, rotations, failures, crashes>>
      /\ broken' = broken
  BY DEF Logging!RemoveOldest, Logging!history, Logging!bounds
<1>2. broken' \in BOOLEAN
  BY <1>1, Zenon DEF LoggingInv, LoggingTypes
<1>3. /\ MaxBackups \in Nat /\ MaxBackups >= 1 /\ MaxBackups \in Logging!Generation
      /\ backup = [g \in Logging!Generation |-> backup[g]]
  BY <1>1 DEF LoggingInv, LoggingTaskInv, LoggingTypes, Logging!Rotating,
     Logging!Parameters, Logging!Generation
<1>4. /\ backup' = [g \in Logging!Generation |-> backup'[g]] /\ backup'[MaxBackups] = None
      /\ \A g \in Logging!Generation :
               backup'[g] = None \/ (g # MaxBackups /\ backup'[g] = backup[g])
      /\ \A g \in Logging!Generation : g # MaxBackups => backup'[g] = backup[g]
  BY <1>1, <1>3
<1>5. LoggingTypes'
  BY <1>1, <1>2, <1>3, <1>4 DEF LoggingInv, LoggingTypes, Logging!Stages
<1>6. \A g \in Logging!Generation :
            Logging!InFile(backup'[g]) \subseteq Logging!InFile(backup[g])
  BY <1>4, LoggingNothingIn
<1>7. LoggingDiskInv'
  BY <1>1, <1>4, <1>6 DEF LoggingInv, LoggingDiskInv
<1>8. LoggingTaskInv'
  <2>1. stage' \in {"create", "shift"} /\ (stage' = "create" => MaxBackups = 1)
        /\ (stage' = "shift" => MaxBackups # 1)
    BY <1>1
  <2> QED BY <1>1, <1>3, <1>4, <1>6, <2>1 DEF LoggingInv, LoggingTaskInv, Logging!Rotating
<1>9. LoggingLengthInv'
  <2>1. stage' \in {"create", "shift"}
    BY <1>1
  <2> QED BY <1>1, <2>1 DEF LoggingInv, LoggingLengthInv
<1>10. LoggingAgeInv'
  BY <1>1, <1>6 DEF LoggingInv, LoggingAgeInv, Logging!Rotating
<1>11. Logging!Retained'
  <2>1. \A e \in Logging!InFile(backup[MaxBackups]) \cap written :
              rotations[e] > MaxBackups
    BY <1>1, <1>3 DEF LoggingInv, LoggingAgeInv
  <2>2. \A e \in written : rotations[e] \in Nat
    BY DEF LoggingInv, LoggingTypes, Logging!Entry, Logging!Parameters
  <2>3. ASSUME NEW e \in written, rotations[e] <= MaxBackups
        PROVE  e \in Logging!InFile(current) \/ \E g \in Logging!Generation :
                                                      e \in Logging!InFile(backup'[g])
    <3>1. e \notin Logging!InFile(backup[MaxBackups])
      BY <1>3, <2>1, <2>2, <2>3
    <3>2. e \in Logging!InFile(current) \/ \E g \in Logging!Generation :
                                                 e \in Logging!InFile(backup[g])
      BY <2>3 DEF LoggingInv, Logging!Retained
    <3> QED BY <1>4, <3>1, <3>2
  <2> QED BY <1>1, <2>3 DEF Logging!Retained
<1>12. Logging!InOrder'
  <2> SUFFICES ASSUME ~broken, NEW g \in Logging!Generation,
                      NEW e \in Logging!InFile(backup'[g])
      PROVE  /\ \A h \in 1..(g - 1) : \A f \in Logging!InFile(backup'[h]) : e < f
             /\ \A f \in Logging!InFile(current) : e < f
    BY <1>1 DEF Logging!InOrder
  <2>1. \A h \in 1..(g - 1) : h \in Logging!Generation
    BY <1>3 DEF Logging!Generation
  <2> QED BY <1>1, <1>6, <2>1 DEF LoggingInv, Logging!InOrder
<1> QED BY <1>5, <1>7, <1>8, <1>9, <1>10, <1>11, <1>12 DEF LoggingInv

LEMMA LoggingShiftStep ==
    ASSUME Logging!Parameters, LoggingInv, Logging!Shift
    PROVE  LoggingInv'
<1>1. /\ stage = "shift"
      /\ backup' = IF backup[gen] = None THEN backup
                   ELSE [backup EXCEPT ![gen + 1] = backup[gen], ![gen] = None]
      /\ gen' = gen - 1 /\ stage' = IF gen = 1 THEN "create" ELSE "shift"
      /\ UNCHANGED <<current, length, size, entries, written, rotations, failures, crashes>>
      /\ broken' = broken
  BY DEF Logging!Shift, Logging!history, Logging!bounds
<1>2. broken' \in BOOLEAN
  BY <1>1, Zenon DEF LoggingInv, LoggingTypes
<1>3. /\ MaxBackups \in Nat /\ gen \in 1..(MaxBackups - 1) /\ backup[gen + 1] = None
      /\ gen \in Logging!Generation /\ gen + 1 \in Logging!Generation
      /\ backup = [g \in Logging!Generation |-> backup[g]]
  BY <1>1 DEF LoggingInv, LoggingTaskInv, LoggingTypes, Logging!Parameters,
     Logging!Generation
<1>4. /\ backup' = [g \in Logging!Generation |-> backup'[g]]
      /\ backup'[gen + 1] = backup[gen] /\ backup'[gen] = None
      /\ \A g \in Logging!Generation : g # gen /\ g # gen + 1 => backup'[g] = backup[g]
  <2>1. CASE backup[gen] = None
    <3>1. backup' = backup
      BY <1>1, <2>1
    <3> QED BY <1>3, <2>1, <3>1
  <2>2. CASE backup[gen] # None
    BY <1>1, <1>3, <2>2
  <2> QED BY <2>1, <2>2
<1>5. LoggingTypes'
  BY <1>1, <1>2, <1>3, <1>4 DEF LoggingInv, LoggingTypes, Logging!Stages
<1>6. /\ Logging!InFile(backup'[gen + 1]) = Logging!InFile(backup[gen])
      /\ Logging!InFile(backup'[gen]) = {}
      /\ \A g \in Logging!Generation : g # gen /\ g # gen + 1 =>
            Logging!InFile(backup'[g]) = Logging!InFile(backup[g])
  BY <1>4, LoggingNothingIn
<1>7. LoggingDiskInv'
  <2>1. ASSUME NEW g \in Logging!Generation
        PROVE  /\ backup'[g] = None \/ backup'[g] \in Seq(Logging!Line)
               /\ Logging!InFile(backup'[g]) \subseteq 1..entries
    <3>1. CASE g = gen + 1
      BY <1>3, <1>4, <1>6, <3>1 DEF LoggingInv, LoggingDiskInv
    <3>2. CASE g = gen
      BY <1>4, <1>6, <3>2
    <3>3. CASE g # gen /\ g # gen + 1
      BY <1>4, <3>3 DEF LoggingInv, LoggingDiskInv
    <3> QED BY <3>1, <3>2, <3>3
  <2> QED BY <1>1, <2>1 DEF LoggingInv, LoggingDiskInv
<1>8. LoggingTaskInv'
  <2>1. stage' \in {"create", "shift"} /\ (stage' = "create" => gen = 1)
        /\ (stage' = "shift" => gen # 1)
    BY <1>1
  <2>2. \A g \in Logging!Generation : entries \notin Logging!InFile(backup'[g])
    BY <1>1, <1>3, <1>6 DEF LoggingInv, LoggingTaskInv
  <2>3. (gen - 1) + 1 = gen
    BY <1>3
  <2> QED BY <1>1, <1>3, <1>4, <2>1, <2>2, <2>3 DEF LoggingInv, LoggingTaskInv,
             Logging!Rotating
<1>9. LoggingLengthInv'
  <2>1. stage' \in {"create", "shift"}
    BY <1>1
  <2> QED BY <1>1, <2>1 DEF LoggingInv, LoggingLengthInv
<1>10. LoggingAgeInv'
  <2>0. \A e \in written : rotations[e] \in Nat /\ rotations[e] >= 1
    BY <1>1 DEF LoggingInv, LoggingAgeInv, LoggingTypes, Logging!Entry,
       Logging!Parameters, Logging!Rotating
  <2>1. ASSUME NEW g \in Logging!Generation,
               NEW e \in Logging!InFile(backup'[g]) \cap written
        PROVE  /\ rotations[e] >= g
               /\ g <= gen - 1 => rotations[e] > g
    <3>0. g \in Nat /\ gen \in Nat
      BY <1>3 DEF Logging!Generation
    <3>1. CASE g = gen + 1
      <4>1. rotations[e] > gen
        BY <1>1, <1>3, <1>6, <3>1 DEF LoggingInv, LoggingAgeInv
      <4> QED BY <2>0, <3>0, <3>1, <4>1
    <3>2. CASE g = gen
      BY <1>6, <3>2
    <3>3. CASE g # gen /\ g # gen + 1
      <4>1. rotations[e] >= g /\ (g <= gen => rotations[e] > g)
        BY <1>1, <1>6, <3>3 DEF LoggingInv, LoggingAgeInv
      <4> QED BY <3>0, <4>1
    <3> QED BY <3>1, <3>2, <3>3
  <2>2. stage' # "oldest"
    BY <1>1
  <2> QED BY <1>1, <2>0, <2>1, <2>2 DEF LoggingAgeInv
<1>11. Logging!Retained'
  <2>1. ASSUME NEW e \in written, rotations[e] <= MaxBackups
        PROVE  e \in Logging!InFile(current) \/ \E g \in Logging!Generation :
                                                      e \in Logging!InFile(backup'[g])
    <3>1. CASE e \in Logging!InFile(current)
      BY <3>1
    <3>2. CASE \E g \in Logging!Generation : e \in Logging!InFile(backup[g])
      <4>1. PICK g \in Logging!Generation : e \in Logging!InFile(backup[g])
        BY <3>2
      <4>2. CASE g = gen
        BY <1>3, <1>6, <4>1, <4>2
      <4>3. CASE g = gen + 1
        BY <1>3, <4>1, <4>3, LoggingNothingIn
      <4>4. CASE g # gen /\ g # gen + 1
        BY <1>6, <4>1, <4>4
      <4> QED BY <4>2, <4>3, <4>4
    <3> QED BY <2>1, <3>1, <3>2 DEF LoggingInv, Logging!Retained
  <2> QED BY <1>1, <2>1 DEF Logging!Retained
<1>12. Logging!InOrder'
  <2> SUFFICES ASSUME ~broken, NEW g \in Logging!Generation,
                      NEW e \in Logging!InFile(backup'[g])
      PROVE  /\ \A h \in 1..(g - 1) : \A f \in Logging!InFile(backup'[h]) : e < f
             /\ \A f \in Logging!InFile(current) : e < f
    BY <1>1 DEF Logging!InOrder
  <2> DEFINE old(x) == IF x = gen + 1 THEN gen ELSE x
  <2>1. \A x \in Logging!Generation : \A f \in Logging!InFile(backup'[x]) :
           x # gen /\ old(x) \in Logging!Generation
            /\ f \in Logging!InFile(backup[old(x)])
    BY <1>3, <1>6
  <2>2. \A h \in 1..(g - 1) : h \in Logging!Generation
    BY <1>3 DEF Logging!Generation
  <2>3. /\ \A h \in 1..(old(g) - 1) : \A f \in Logging!InFile(backup[h]) : e < f
        /\ \A f \in Logging!InFile(current) : e < f
    BY <1>1, <2>1 DEF LoggingInv, Logging!InOrder
  <2>4. ASSUME NEW h \in 1..(g - 1), NEW f \in Logging!InFile(backup'[h]) PROVE e < f
    <3>1. h \in Logging!Generation /\ h # gen /\ g # gen
      BY <2>1, <2>2, <2>4
    <3>2. old(h) \in 1..(old(g) - 1)
      BY <1>3, <3>1 DEF Logging!Generation
    <3>3. f \in Logging!InFile(backup[old(h)])
      BY <2>1, <2>4, <3>1
    <3> HIDE DEF old
    <3> QED BY <2>3, <3>2, <3>3
  <2> QED BY <2>3, <2>4
<1> QED BY <1>5, <1>7, <1>8, <1>9, <1>10, <1>11, <1>12 DEF LoggingInv

LEMMA LoggingCreateStep ==
    ASSUME Logging!Parameters, LoggingInv, Logging!Create
    PROVE  LoggingInv'
<1>1. /\ stage = "create" /\ backup' = [backup EXCEPT ![1] = <<>>] /\ stage' = "compress"
      /\ UNCHANGED <<current, length, gen, size, entries, written, rotations, failures,
                     crashes>>
      /\ broken' = broken
  BY DEF Logging!Create, Logging!history, Logging!bounds
<1>2. broken' \in BOOLEAN
  BY <1>1, Zenon DEF LoggingInv, LoggingTypes
<1>3. /\ 1 \in Logging!Generation /\ backup[1] = None /\ MaxBackups \in Nat
      /\ backup = [g \in Logging!Generation |-> backup[g]]
  BY <1>1 DEF LoggingInv, LoggingTaskInv, LoggingTypes, Logging!Rotating,
     Logging!Parameters, Logging!Generation
<1>4. /\ backup' = [g \in Logging!Generation |-> backup'[g]] /\ backup'[1] = <<>>
      /\ \A g \in Logging!Generation \ {1} : backup'[g] = backup[g]
  BY <1>1, <1>3
<1>5. LoggingTypes'
  BY <1>1, <1>2, <1>4 DEF LoggingInv, LoggingTypes, Logging!Stages
<1>6. \A g \in Logging!Generation : Logging!InFile(backup'[g]) = Logging!InFile(backup[g])
  BY <1>3, <1>4, LoggingNothingIn
<1>7. LoggingDiskInv'
  BY <1>1, <1>4, <1>6 DEF LoggingInv, LoggingDiskInv
<1>8. LoggingTaskInv'
  BY <1>1, <1>4, <1>6 DEF LoggingInv, LoggingTaskInv, Logging!Rotating
<1>9. LoggingLengthInv'
  BY <1>1 DEF LoggingInv, LoggingLengthInv
<1>10. LoggingAgeInv'
  BY <1>1, <1>6 DEF LoggingInv, LoggingAgeInv, Logging!Rotating
<1>11. Logging!Retained'
  BY <1>1, <1>6 DEF LoggingInv, Logging!Retained
<1>12. Logging!InOrder'
  <2> SUFFICES ASSUME ~broken, NEW g \in Logging!Generation,
                      NEW e \in Logging!InFile(backup'[g])
      PROVE  /\ \A h \in 1..(g - 1) : \A f \in Logging!InFile(backup'[h]) : e < f
             /\ \A f \in Logging!InFile(current) : e < f
    BY <1>1 DEF Logging!InOrder
  <2>1. \A h \in 1..(g - 1) : h \in Logging!Generation
    BY <1>3 DEF Logging!Generation
  <2> QED BY <1>1, <1>6, <2>1 DEF LoggingInv, Logging!InOrder
<1> QED BY <1>5, <1>7, <1>8, <1>9, <1>10, <1>11, <1>12 DEF LoggingInv

LEMMA LoggingCompressStep ==
    ASSUME Logging!Parameters, LoggingInv, Logging!Compress
    PROVE  LoggingInv'
<1>1. /\ stage = "compress" /\ backup' = [backup EXCEPT ![1] = current]
      /\ stage' = "remove"
      /\ UNCHANGED <<current, length, gen, size, entries, written, rotations, failures,
                     crashes>>
      /\ broken' = broken
  BY DEF Logging!Compress, Logging!history, Logging!bounds
<1>2. broken' \in BOOLEAN
  BY <1>1, Zenon DEF LoggingInv, LoggingTypes
<1>3. /\ 1 \in Logging!Generation /\ backup[1] = <<>> /\ MaxBackups \in Nat
      /\ backup = [g \in Logging!Generation |-> backup[g]]
  BY <1>1 DEF LoggingInv, LoggingTaskInv, LoggingTypes, Logging!Rotating,
     Logging!Parameters, Logging!Generation
<1>4. /\ backup' = [g \in Logging!Generation |-> backup'[g]] /\ backup'[1] = current
      /\ \A g \in Logging!Generation \ {1} : backup'[g] = backup[g]
  BY <1>1, <1>3
<1>5. LoggingTypes'
  BY <1>1, <1>2, <1>4 DEF LoggingInv, LoggingTypes, Logging!Stages
<1>6. /\ Logging!InFile(backup'[1]) = Logging!InFile(current)
      /\ Logging!InFile(backup[1]) = {}
      /\ \A g \in Logging!Generation \ {1} :
               Logging!InFile(backup'[g]) = Logging!InFile(backup[g])
  BY <1>3, <1>4, LoggingNothingIn
<1>7. LoggingDiskInv'
  BY <1>1, <1>4, <1>6 DEF LoggingInv, LoggingDiskInv
<1>8. LoggingTaskInv'
  BY <1>1, <1>4, <1>6 DEF LoggingInv, LoggingTaskInv, Logging!Rotating
<1>9. LoggingLengthInv'
  BY <1>1 DEF LoggingInv, LoggingLengthInv
<1>10. LoggingAgeInv'
  <2>0. \A e \in written : rotations[e] >= 1
    BY <1>1 DEF LoggingInv, LoggingAgeInv, Logging!Rotating
  <2>1. ASSUME NEW g \in Logging!Generation,
               NEW e \in Logging!InFile(backup'[g]) \cap written
        PROVE  rotations[e] >= g
    <3>1. CASE g = 1
      BY <2>0, <3>1
    <3>2. CASE g # 1
      BY <1>6, <3>2 DEF LoggingInv, LoggingAgeInv
    <3> QED BY <3>1, <3>2
  <2> QED BY <1>1, <2>0, <2>1 DEF LoggingAgeInv
<1>11. Logging!Retained'
  BY <1>1, <1>6 DEF LoggingInv, Logging!Retained
<1>12. Logging!InOrder'
  <2> SUFFICES ASSUME ~broken, NEW g \in Logging!Generation,
                      NEW e \in Logging!InFile(backup'[g]),
                      NEW h \in 1..(g - 1), NEW f \in Logging!InFile(backup'[h])
      PROVE  e < f
    BY <1>1 DEF Logging!InOrder
  <2>1. g # 1 /\ g \in Logging!Generation /\ h \in Logging!Generation
         /\ e \in Logging!InFile(backup[g])
    BY <1>3, <1>6 DEF Logging!Generation
  <2>2. CASE h = 1
    BY <1>1, <1>6, <2>1, <2>2 DEF LoggingInv, Logging!InOrder
  <2>3. CASE h # 1
    BY <1>6, <2>1, <2>3 DEF LoggingInv, Logging!InOrder
  <2> QED BY <2>2, <2>3
<1> QED BY <1>5, <1>7, <1>8, <1>9, <1>10, <1>11, <1>12 DEF LoggingInv

LEMMA LoggingRemoveStep ==
    ASSUME Logging!Parameters, LoggingInv, Logging!RemoveCurrent
    PROVE  LoggingInv'
<1>1. /\ stage = "remove" /\ current' = None /\ length' = 0 /\ stage' = "line"
      /\ UNCHANGED <<backup, gen, size, entries, written, rotations, failures, crashes>>
      /\ broken' = broken
  BY DEF Logging!RemoveCurrent, Logging!history, Logging!bounds
<1>2. broken' \in BOOLEAN
  BY <1>1, Zenon DEF LoggingInv, LoggingTypes
<1>3. 1 \in Logging!Generation /\ backup[1] = current
  BY <1>1 DEF LoggingInv, LoggingTaskInv, Logging!Rotating, Logging!Parameters,
     Logging!Generation
<1>4. Logging!InFile(current') = {}
  BY <1>1, LoggingNothingIn
<1>5. LoggingTypes'
  BY <1>1, <1>2 DEF LoggingInv, LoggingTypes, Logging!Stages
<1>6. LoggingDiskInv' /\ LoggingTaskInv'
  BY <1>1, <1>4 DEF LoggingInv, LoggingDiskInv, LoggingTaskInv, Logging!Rotating
<1>7. LoggingLengthInv'
  <2>1. MaxBytes \in Nat
    BY DEF Logging!Parameters
  <2> QED BY <1>1, <2>1 DEF LoggingInv, LoggingLengthInv
<1>8. LoggingAgeInv' /\ Logging!Retained' /\ Logging!InOrder'
  BY <1>1, <1>3, <1>4 DEF LoggingInv, LoggingAgeInv, Logging!Retained, Logging!InOrder,
     Logging!Rotating
<1> QED BY <1>5, <1>6, <1>7, <1>8 DEF LoggingInv

LEMMA LoggingWriteLineStep ==
    ASSUME Logging!Parameters, LoggingInv, Logging!WriteLine
    PROVE  LoggingInv'
<1> DEFINE lines == IF current = None THEN <<>> ELSE current
<1>1. /\ stage = "line" /\ length' = length + size /\ stage' = "end"
      /\ UNCHANGED <<backup, gen, size, entries, written, rotations, failures, crashes>>
      /\ broken' = broken
      /\ current' = IF Logging!Unended
                    THEN [lines EXCEPT ![Len(lines)] = <<-entries>> \o <<-@[1]>> \o Tail(@)]
                    ELSE Append(lines, <<-entries>>)
  BY DEF Logging!WriteLine, Logging!history, Logging!bounds
<1>2. broken' \in BOOLEAN
  BY <1>1, Zenon DEF LoggingInv, LoggingTypes
<1>3. entries \in Nat /\ size \in Nat /\ size \in Size
  BY <1>1 DEF LoggingInv, LoggingTypes, LoggingTaskInv, Logging!Parameters
<1>4. lines \in Seq(Logging!Line) /\ Logging!InFile(lines) = Logging!InFile(current)
  <2>1. CASE current = None
    BY <2>1, LoggingNothingIn
  <2>2. CASE current # None
    BY <2>2 DEF LoggingInv, LoggingDiskInv
  <2> QED BY <2>1, <2>2
<1>5. Logging!Unended => lines # <<>> /\ lines[Len(lines)][1] < 0
  BY DEF Logging!Unended
<1> HIDE DEF lines
<1>6. /\ current' \in Seq(Logging!Line) /\ current' # <<>>
      /\ current'[Len(current')][1] = -entries
      /\ Logging!InFile(current') = Logging!InFile(lines) \cup {entries}
  <2>1. CASE Logging!Unended
    <3>1. current' = [lines EXCEPT ![Len(lines)] = <<-entries>> \o <<-@[1]>> \o Tail(@)]
      BY <1>1, <2>1
    <3>2. lines # <<>> /\ lines[Len(lines)][1] < 0
      BY <1>5, <2>1
    <3> QED BY <1>3, <1>4, <3>1, <3>2, LoggingLineContinued
  <2>2. CASE ~Logging!Unended
    <3>1. current' = Append(lines, <<-entries>>)
      BY <1>1, <2>2
    <3> QED BY <1>3, <1>4, <3>1, LoggingLineAdded
  <2> QED BY <2>1, <2>2
<1>7. current' # None /\ Logging!InFile(current') = Logging!InFile(current) \cup {entries}
  BY <1>4, <1>6, LoggingFilesAreNotNone
<1>8. LoggingTypes'
  BY <1>1, <1>2 DEF LoggingInv, LoggingTypes, Logging!Stages
<1>9. LoggingDiskInv'
  <2>1. entries \in 1..entries
    BY <1>1, <1>3 DEF LoggingInv, LoggingTaskInv
  <2>2. Logging!InFile(current') \subseteq 1..entries
    BY <1>7, <2>1 DEF LoggingInv, LoggingDiskInv
  <2> QED BY <1>1, <1>6, <2>2 DEF LoggingInv, LoggingDiskInv
<1>10. LoggingTaskInv'
  BY <1>1, <1>6, <1>7 DEF LoggingInv, LoggingTaskInv, Logging!Rotating
<1>11. LoggingLengthInv'
  <2>1. length \in Nat /\ MaxBytes \in Nat
    BY DEF LoggingInv, LoggingLengthInv, Logging!Parameters
  <2>2. MaxBackups # 0 => length = 0 \/ length + size + 1 <= MaxBytes
    BY <1>1 DEF LoggingInv, LoggingLengthInv, Logging!Fits
  <2>3. MaxBackups # 0 =>
           /\ (length + size) + 1 <= MaxBytes \/ length + size <= size
           /\ length + size <= MaxBytes \/ length + size <= size + 1
    BY <1>3, <2>1, <2>2
  <2> QED BY <1>1, <1>3, <1>7, <2>1, <2>3 DEF LoggingLengthInv
<1>12. LoggingAgeInv' /\ Logging!Retained'
  BY <1>1, <1>7 DEF LoggingInv, LoggingAgeInv, Logging!Retained, Logging!Rotating
<1>13. Logging!InOrder'
  <2> SUFFICES ASSUME ~broken, NEW g \in Logging!Generation,
                      NEW e \in Logging!InFile(backup[g])
      PROVE  /\ \A h \in 1..(g - 1) : \A f \in Logging!InFile(backup[h]) : e < f
             /\ \A f \in Logging!InFile(current') : e < f
    BY <1>1 DEF Logging!InOrder
  <2>1. e \in 1..entries /\ e # entries
    BY <1>1 DEF LoggingInv, LoggingDiskInv, LoggingTaskInv
  <2>2. e < entries
    BY <1>3, <2>1
  <2> QED BY <1>1, <1>7, <2>2 DEF LoggingInv, Logging!InOrder
<1> QED BY <1>8, <1>9, <1>10, <1>11, <1>12, <1>13 DEF LoggingInv

LEMMA LoggingWriteEndStep ==
    ASSUME Logging!Parameters, LoggingInv, Logging!WriteEnd
    PROVE  LoggingInv'
<1>1. /\ stage = "end" /\ current' = [current EXCEPT ![Len(current)][1] = entries]
      /\ length' = length + 1 /\ written' = written \cup {entries} /\ stage' = "idle"
      /\ UNCHANGED <<backup, gen, size, entries, rotations, failures, crashes>>
      /\ broken' = broken
  BY DEF Logging!WriteEnd, Logging!bounds
<1>2. broken' \in BOOLEAN
  BY <1>1, Zenon DEF LoggingInv, LoggingTypes
<1>3. entries \in Nat /\ entries >= 1 /\ entries \in Logging!Entry /\ size \in Size
       /\ size \in Nat
  BY <1>1 DEF LoggingInv, LoggingTypes, LoggingTaskInv, Logging!Parameters, Logging!Entry
<1>4. current \in Seq(Logging!Line) /\ current # <<>>
       /\ current[Len(current)][1] = -entries
  BY <1>1 DEF LoggingInv, LoggingDiskInv, LoggingTaskInv
<1>5. current' \in Seq(Logging!Line)
       /\ Logging!InFile(current') = Logging!InFile(current)
       /\ entries \in Logging!InFile(current)
  BY <1>1, <1>3, <1>4, LoggingLineEnded
<1>6. current' # None
  BY <1>5, LoggingFilesAreNotNone
<1>7. LoggingTypes'
  BY <1>1, <1>2, <1>3 DEF LoggingInv, LoggingTypes, Logging!Stages
<1>8. LoggingDiskInv'
  BY <1>1, <1>5 DEF LoggingInv, LoggingDiskInv
<1>9. LoggingTaskInv'
  BY <1>1 DEF LoggingTaskInv, Logging!Rotating
<1>10. LoggingLengthInv'
  <2>1. length \in Nat /\ MaxBytes \in Nat
    BY DEF LoggingInv, LoggingLengthInv, Logging!Parameters
  <2>2. MaxBackups # 0 => length + 1 <= MaxBytes \/ length <= size
    BY <1>1 DEF LoggingInv, LoggingLengthInv
  <2>3. MaxBackups # 0 => length + 1 <= MaxBytes \/ length + 1 <= size + 1
    BY <1>3, <2>1, <2>2
  <2> QED BY <1>1, <1>3, <1>6, <2>1, <2>3 DEF LoggingLengthInv
<1>11. LoggingAgeInv'
  <2>1. \A g \in Logging!Generation : entries \notin Logging!InFile(backup[g])
    BY <1>1 DEF LoggingInv, LoggingTaskInv
  <2>2. \A g \in Logging!Generation :
              Logging!InFile(backup[g]) \cap written' = Logging!InFile(backup[g]) \cap written
    BY <1>1, <2>1
  <2> QED BY <1>1, <2>2 DEF LoggingInv, LoggingAgeInv, Logging!Rotating
<1>12. Logging!Retained'
  BY <1>1, <1>5 DEF LoggingInv, Logging!Retained
<1>13. Logging!InOrder'
  BY <1>1, <1>5 DEF LoggingInv, Logging!InOrder
<1> QED BY <1>7, <1>8, <1>9, <1>10, <1>11, <1>12, <1>13 DEF LoggingInv

\* The task ends early: what it did stays.
LEMMA LoggingEndsEarly ==
    ASSUME Logging!Parameters, LoggingInv, stage # "idle",
           broken' = (broken \/ stage \in Logging!Rotating), stage' = "idle",
           UNCHANGED <<current, length, backup, gen, size, entries, written, rotations>>,
           failures' \in 0..MaxFailures, crashes' \in 0..MaxCrashes
    PROVE  LoggingInv'
<1>1. broken' \in BOOLEAN
  BY Zenon
<1>2. LoggingTypes'
  BY <1>1 DEF LoggingInv, LoggingTypes, Logging!Stages
<1>3. LoggingDiskInv' /\ LoggingTaskInv'
  BY DEF LoggingInv, LoggingDiskInv, LoggingTaskInv, Logging!Rotating
<1>4. LoggingLengthInv'
  BY DEF LoggingInv, LoggingLengthInv
<1>5. LoggingAgeInv' /\ Logging!Retained'
  BY DEF LoggingInv, LoggingAgeInv, Logging!Retained, Logging!Rotating
<1>6. Logging!InOrder'
  <2>1. ~broken' => ~broken /\ stage # "remove"
    BY DEF Logging!Rotating
  <2> QED BY <2>1 DEF LoggingInv, Logging!InOrder
<1> QED BY <1>2, <1>3, <1>4, <1>5, <1>6 DEF LoggingInv

LEMMA LoggingFailStep ==
    ASSUME Logging!Parameters, LoggingInv, Logging!Fail
    PROVE  LoggingInv'
<1>1. failures' \in 0..MaxFailures /\ crashes' \in 0..MaxCrashes
  BY DEF Logging!Fail, LoggingInv, LoggingTypes, Logging!Parameters
<1> QED BY <1>1, LoggingEndsEarly DEF Logging!Fail, Logging!disk, Logging!history

LEMMA LoggingCrashStep ==
    ASSUME Logging!Parameters, LoggingInv, Logging!Crash
    PROVE  LoggingInv'
<1>1. failures' \in 0..MaxFailures /\ crashes' \in 0..MaxCrashes
  BY DEF Logging!Crash, LoggingInv, LoggingTypes, Logging!Parameters
<1> QED BY <1>1, LoggingEndsEarly DEF Logging!Crash, Logging!disk, Logging!history

LEMMA LoggingInvStep ==
    ASSUME Logging!Parameters
    PROVE  LoggingInv /\ [Logging!Next]_(Logging!vars) => LoggingInv'
<1> SUFFICES ASSUME LoggingInv, [Logging!Next]_(Logging!vars) PROVE LoggingInv'
  OBVIOUS
<1>1. ASSUME UNCHANGED Logging!vars PROVE LoggingInv'
  <2>1. /\ UNCHANGED <<current, length, backup, stage, gen, size, entries, written,
                       rotations, failures, crashes>>
        /\ broken' = broken
    BY <1>1 DEF Logging!vars, Logging!disk, Logging!history, Logging!bounds
  <2>2. broken' \in BOOLEAN
    BY <2>1, Zenon DEF LoggingInv, LoggingTypes
  <2>3. LoggingTypes' /\ LoggingDiskInv' /\ LoggingTaskInv'
    BY <2>1, <2>2 DEF LoggingInv, LoggingTypes, LoggingDiskInv, LoggingTaskInv
  <2>4. LoggingLengthInv' /\ LoggingAgeInv'
    BY <2>1 DEF LoggingInv, LoggingLengthInv, LoggingAgeInv, Logging!Fits
  <2>5. Logging!Retained' /\ Logging!InOrder'
    BY <2>1 DEF LoggingInv, Logging!Retained, Logging!InOrder
  <2> QED BY <2>3, <2>4, <2>5 DEF LoggingInv
<1> QED BY <1>1, LoggingBeginStep, LoggingCheckStep, LoggingOldestStep, LoggingShiftStep,
           LoggingCreateStep, LoggingCompressStep,
           LoggingRemoveStep, LoggingWriteLineStep, LoggingWriteEndStep, LoggingFailStep,
           LoggingCrashStep DEF Logging!Next

LEMMA LoggingTypeCorrect ==
    ASSUME Logging!Parameters
    PROVE  Logging!Init /\ [][Logging!Next]_(Logging!vars) => []Logging!TypeOK
<1>1. LoggingInv => Logging!TypeOK
  BY DEF LoggingInv, LoggingTypes, LoggingDiskInv, LoggingLengthInv, Logging!TypeOK
<1> QED BY <1>1, LoggingInvInit, LoggingInvStep, PTL

\* A written entry stays until its backup is due to go.
LEMMA LoggingEntriesStay ==
    ASSUME Logging!Parameters
    PROVE  Logging!Init /\ [][Logging!Next]_(Logging!vars) => []Logging!Retained
<1>1. LoggingInv => Logging!Retained
  BY DEF LoggingInv
<1> QED BY <1>1, LoggingInvInit, LoggingInvStep, PTL

\* ... and backups hold their entries in order.
LEMMA LoggingInTheirOrder ==
    ASSUME Logging!Parameters
    PROVE  Logging!Init /\ [][Logging!Next]_(Logging!vars) => []Logging!InOrder
<1>1. LoggingInv => Logging!InOrder
  BY DEF LoggingInv
<1> QED BY <1>1, LoggingInvInit, LoggingInvStep, PTL

-----------------------------------------------------------------------------
(* The composition: a step of it is a step of one part and none of the others. *)

LEMMA RoutingMoves == Spec => Routing!Init /\ [][Routing!Next]_(Routing!vars)
<1>1. Init => Routing!Init
  BY DEF Init
<1>2. [Next]_vars => [Routing!Next]_(Routing!vars)
  <2>1. UNCHANGED dispatchVars => UNCHANGED Routing!vars
    BY DEF dispatchVars, Routing!vars
  <2>2. Next => Routing!Next \/ UNCHANGED dispatchVars
    BY DEF Next
  <2>3. UNCHANGED vars => UNCHANGED dispatchVars
    BY DEF vars
  <2> QED BY <2>1, <2>2, <2>3
<1> QED BY <1>1, <1>2, PTL DEF Spec

LEMMA LimitingMoves == Spec => Limiting!Init /\ [][Limiting!Next]_(Limiting!vars)
<1>1. Init => Limiting!Init
  BY DEF Init
<1>2. [Next]_vars => [Limiting!Next]_(Limiting!vars)
  <2>1. UNCHANGED limitVars => UNCHANGED Limiting!vars
    BY DEF limitVars, Limiting!vars
  <2>2. Next => Limiting!Next \/ UNCHANGED limitVars
    BY DEF Next
  <2>3. UNCHANGED vars => UNCHANGED limitVars
    BY DEF vars
  <2> QED BY <2>1, <2>2, <2>3
<1> QED BY <1>1, <1>2, PTL DEF Spec

LEMMA PoolingMoves == Spec => Pooling!Init /\ [][Pooling!Next]_(Pooling!vars)
<1>1. Init => Pooling!Init
  BY DEF Init
<1>2. [Next]_vars => [Pooling!Next]_(Pooling!vars)
  <2>1. UNCHANGED poolVars => UNCHANGED Pooling!vars
    BY DEF poolVars, Pooling!vars, Pooling!children
  <2>2. Next => Pooling!Next \/ UNCHANGED poolVars
    BY DEF Next
  <2>3. UNCHANGED vars => UNCHANGED poolVars
    BY DEF vars
  <2> QED BY <2>1, <2>2, <2>3
<1> QED BY <1>1, <1>2, PTL DEF Spec

LEMMA LoggingMoves == Spec => Logging!Init /\ [][Logging!Next]_(Logging!vars)
<1>1. Init => Logging!Init
  BY DEF Init
<1>2. [Next]_vars => [Logging!Next]_(Logging!vars)
  <2>1. UNCHANGED logVars => UNCHANGED Logging!vars
    BY DEF logVars, Logging!vars, Logging!disk, Logging!history, Logging!bounds
  <2>2. Next => Logging!Next \/ UNCHANGED logVars
    BY DEF Next
  <2>3. UNCHANGED vars => UNCHANGED logVars
    BY DEF vars
  <2> QED BY <2>1, <2>2, <2>3
<1> QED BY <1>1, <1>2, PTL DEF Spec

\* Every variable of the four modules has its type; the lock of the pool is with the
\* task that starts a child, and the file of the log is longer than its limit only by one
\* long entry.
THEOREM TypesKept == Spec => []TypeOK
<1>1. Routing!TypeOK /\ Limiting!TypeOK /\ Pooling!TypeOK /\ Logging!TypeOK => TypeOK
  BY DEF TypeOK
<1> QED BY <1>1, Assumptions, RoutingMoves, RoutingTypeCorrect, LimitingMoves,
           LimitingTypeCorrect, PoolingMoves, PoolingTypeCorrect, LoggingMoves,
           LoggingTypeCorrect, PTL

\* However the registries change while a request looks for its rule: no rule that was
\* there all the time and is better than the chosen one is passed over.
THEOREM BestRuleChosen == Spec => []BestStays
<1>1. Routing!BestStays => BestStays
  BY DEF BestStays
<1> QED BY <1>1, Assumptions, RoutingMoves, RoutingRightOrder, PTL

\* A host whose last entry was removed comes back by an update only if that update had
\* seen the host before.
THEOREM HostsComeBackByOverlap == Spec => ComesBackByOverlap
BY Assumptions, RoutingMoves, RoutingComesBack, PTL DEF ComesBackByOverlap

\* What the token bucket admits is within the burst and what came in meanwhile, over
\* every window; what it refuses was due to be refused. An evicted bucket is excepted.
THEOREM WindowIsKept == Spec => []WindowKept
<1>1. Limiting!WindowBound /\ Limiting!RefusedOnlyWhenDue => WindowKept
  BY DEF WindowKept
<1> QED BY <1>1, Assumptions, LimitingMoves, LimitingNoneTooMany, LimitingNoneTooFew, PTL

\* Until the port counter wraps or a crash leaves children behind, an answered address is
\* that of a child of the document root, and every living child is known.
THEOREM ChildrenAreKnown == Spec => []ChildrenKnown
<1>1. Pooling!RightRoot /\ Pooling!NoneForgotten => ChildrenKnown
  BY DEF ChildrenKnown
<1> QED BY <1>1, Assumptions, PoolingMoves, PoolingOwnServer, PoolingAllKept, PTL

\* Whichever operation fails and wherever the process dies: a written entry stays until
\* its backup is due to go, and unless a rotation was cut short the backups are in order.
THEOREM BackupsAreKept == Spec => []BackupsKept
<1>1. Logging!Retained /\ Logging!InOrder => BackupsKept
  BY DEF BackupsKept
<1> QED BY <1>1, Assumptions, LoggingMoves, LoggingEntriesStay, LoggingInTheirOrder, PTL
=============================================================================
