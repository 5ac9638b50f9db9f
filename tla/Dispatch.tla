------------------------------ MODULE Dispatch ------------------------------
(***************************************************************************)
(* The way of a request through route and dispatch_inner (lib.rs), for one *)
(* host: which rule answers it, and how it is passed on (proxy.rs,         *)
(* handlers/web_vhost.rs, php_fastcgi.rs). The management calls that       *)
(* change the rules run at the same time (connect.rs, handlers/tenants.rs, *)
(* tenant_router.rs, redirects.rs, web_vhost.rs).                          *)
(*                                                                         *)
(* Every look-up takes the lock of its own registry and releases it, so    *)
(* each is an action; a change is one action under the write lock. What    *)
(* reaches the disk is the business of HostRegistry, who may make a        *)
(* management call that of AdminAccess, the limit that of RateLimiter.     *)
(*                                                                         *)
(* A path is a sequence of characters, Slash first.                        *)
(***************************************************************************)
EXTENDS Integers, FiniteSets, Sequences

CONSTANTS
    Worker,         \* tasks that handle requests
    Char,           \* the characters of paths
    Path,           \* paths of requests
    Prefix,         \* path prefixes of tenants
    Slash,          \* the character "/"
    Upstream,       \* is OPEN_WEB_SERVER_APP_UPSTREAM set?
    Loaded,         \* what domains.toml may hold for the host at the start
    MaxRequests,    \* bound: requests
    None            \* no path prefix, no vhost

Vhost == [php : {"off", "builtin", "fastcgi"}, apache : BOOLEAN]

\* What the constants must be.
Parameters ==
    /\ Slash \in Char /\ Path \subseteq Seq(Char) /\ Prefix \subseteq Seq(Char)
    /\ Upstream \in BOOLEAN /\ MaxRequests \in Nat
    /\ Loaded \subseteq SUBSET (Prefix \cup {None})
    /\ None \notin Prefix \cup Path \cup Vhost \cup [rank : Nat, length : Nat]

VARIABLES
    redirect,   \* has the host a rule in RedirectRegistry?
    tenants,    \* the path prefixes of the host's entries in TenantRegistry
    vhost,      \* the entry of the host in WebVhostRegistry, or None
    handler,    \* the request each task handles
    requests    \* bound counter

vars == <<redirect, tenants, vhost, handler, requests>>

Calls == {"add", "update", "remove", "redirect", "unredirect", "site", "unsite",
          "compat", "list"}

Stages == {"redirect", "own", "act", "upsert", "prefix", "vhost", "hostonly", "site",
           "forward", "send", "again", "stream", "fastcgi", "done"}

-----------------------------------------------------------------------------
(* The rules that may answer a request, by precedence.                     *)

Rule(rank) == [rank |-> rank, length |-> 0]

Redirects == Rule(1)
Own == Rule(2)          \* management and public API, health, demo, ACME
Prefixed(p) == [rank |-> 3, length |-> Len(p)]
Site == Rule(4)
HostOnly == Rule(5)
AppUpstream == Rule(6)
NotFound == Rule(7)

Better(a, b) == a.rank < b.rank \/ (a.rank = b.rank /\ a.length > b.length)

StartsWith(path, prefix) ==
    /\ Len(prefix) <= Len(path)
    /\ \A i \in 1..Len(prefix) : path[i] = prefix[i]

\* path_matches_prefix: "/" stands for the top page alone.
PathMatches(prefix, path) ==
    IF prefix = <<Slash>> THEN path = <<Slash>> ELSE StartsWith(path, prefix)

\* The entries resolve_prefix_only chooses from; an empty prefix is none.
Candidates(ten, path) ==
    {p \in ten \ {None} : p # <<>> /\ PathMatches(p, path)}

\* The rules for the request of h that are registered.
Matching(h, red, ten, site) ==
    {rule \in {Redirects, Own, Site, HostOnly} :
        \/ rule = Redirects /\ h.host /\ red
        \/ rule = Own /\ h.kind # "page"
        \/ rule = Site /\ h.host /\ site # None
        \/ rule = HostOnly /\ h.host /\ None \in ten}
    \cup (IF h.host THEN {Prefixed(p) : p \in Candidates(ten, h.path)} ELSE {})
    \cup (IF Upstream THEN {AppUpstream} ELSE {})

-----------------------------------------------------------------------------

\* rule: the one that answers, None until it is chosen. held: the rules that have
\* matched from the start until then. seen: has the host had a tenant since an
\* update of it began? ran: how often the backend has carried the request out.
Idle == [stage |-> "idle", kind |-> None, path |-> None, host |-> FALSE,
         entry |-> None, rule |-> None, site |-> None, stream |-> FALSE,
         held |-> {}, seen |-> FALSE, ran |-> 0]

\* The files are read at the start. Of two entries with one prefix, which the API
\* refuses and domains.toml may hold, whatever finds or removes one meets both.
Init ==
    /\ redirect \in BOOLEAN
    /\ tenants \in Loaded
    /\ vhost \in {None, [php |-> "off", apache |-> FALSE]}
    /\ handler = [w \in Worker |-> Idle]
    /\ requests = 0

\* The handlers after a change of the rules.
Watch(hs, red, ten, site) ==
    [w \in Worker |->
        IF hs[w].stage = "idle" THEN hs[w]
        ELSE [hs[w] EXCEPT !.held = IF hs[w].rule = None
                                    THEN @ \cap Matching(hs[w], red, ten, site) ELSE @,
                           !.seen = IF hs[w].kind = "update" /\ ten # {} THEN TRUE ELSE @]]

Goto(w, s) == handler' = [handler EXCEPT ![w].stage = s]

\* The rule that answers, and the stage that does it. The path has done its work.
Choose(w, rule, s) ==
    handler' = [handler EXCEPT ![w].stage = s, ![w].rule = rule, ![w].path = None]

Answer(w) == handler' = [handler EXCEPT ![w] = Idle]

registries == <<redirect, tenants, vhost>>

\* route: a preflight, a client over its limit and an API call without an
\* Idempotency-Key are answered at once. HTTP/2 brings the host as authority;
\* HTTP/1.0 may bring none, which only pages are modelled with. HEAD is handled
\* as GET.
Start(w) ==
    /\ handler[w].stage = "idle" /\ requests < MaxRequests
    /\ requests' = requests + 1
    /\ \/ UNCHANGED handler
       \/ \E kind \in {"page", "fixed"} \cup Calls, path \in Path, host \in BOOLEAN,
             entry \in Prefix \cup {None}, stream \in BOOLEAN, seen \in BOOLEAN :
             LET h == [Idle EXCEPT !.stage = IF host THEN "redirect" ELSE "prefix",
                                   !.kind = kind, !.path = path, !.host = host,
                                   !.entry = entry, !.stream = stream, !.seen = seen]
             IN
             /\ seen <=> kind = "update" /\ tenants # {}
             /\ kind \notin {"add", "update", "remove"} => entry = None
             /\ kind # "page" => ~stream /\ host /\ path = CHOOSE p \in Path : TRUE
             /\ handler' = [handler EXCEPT ![w] =
                   [h EXCEPT !.held = Matching(h, redirect, tenants, vhost)]]
    /\ UNCHANGED registries

\* The redirect of a host comes before everything else it may serve.
LookRedirect(w) ==
    /\ handler[w].stage = "redirect"
    /\ IF redirect THEN Choose(w, Redirects, "done")
       ELSE Goto(w, IF handler[w].kind = "page" THEN "prefix" ELSE "own")
    /\ UNCHANGED <<registries, requests>>

\* connect::handle, and the fixed paths: a call that is not POST, not JSON or
\* not allowed is answered with an error.
LookOwn(w) ==
    /\ handler[w].stage = "own"
    /\ \/ Choose(w, Own, "done")
       \/ handler[w].kind \in Calls /\ Choose(w, Own, "act")
    /\ UNCHANGED <<registries, requests>>

\* Mutant: any matching prefix will do.
LookPrefixAny(w) ==
    LET h == handler[w] IN
    /\ h.stage = "prefix"
    /\ IF h.host /\ Candidates(tenants, h.path) # {}
       THEN \E p \in Candidates(tenants, h.path) : Choose(w, Prefixed(p), "forward")
       ELSE Goto(w, "vhost")
    /\ UNCHANGED <<registries, requests>>

\* resolve_prefix_only: the longest matching prefix.
LookPrefix(w) ==
    LET h == handler[w]
        c == Candidates(tenants, h.path)
    IN
    /\ h.stage = "prefix"
    /\ IF h.host /\ c # {}
       THEN \E p \in c : /\ \A q \in c : Len(q) <= Len(p)
                         /\ Choose(w, Prefixed(p), "forward")
       ELSE Goto(w, "vhost")
    /\ UNCHANGED <<registries, requests>>

LookVhost(w) ==
    /\ handler[w].stage = "vhost"
    /\ IF handler[w].host /\ vhost # None
       THEN handler' = [handler EXCEPT ![w].stage = "site", ![w].rule = Site,
                                       ![w].site = vhost]
       ELSE Goto(w, "hostonly")
    /\ UNCHANGED <<registries, requests>>

\* resolve_host_only, then OPEN_WEB_SERVER_APP_UPSTREAM, then 404.
LookHostOnly(w) ==
    /\ handler[w].stage = "hostonly"
    /\ IF handler[w].host /\ None \in tenants THEN Choose(w, HostOnly, "forward")
       ELSE IF Upstream THEN Choose(w, AppUpstream, "forward")
       ELSE Choose(w, NotFound, "done")
    /\ UNCHANGED <<registries, requests>>

-----------------------------------------------------------------------------
(* handlers::web_vhost::dispatch and proxy.rs.                             *)

\* A rewrite rule may answer with a redirect, a static file may be there;
\* without PHP the rest is a file, index.html (Apache mode) or 404.
ServeSite(w) ==
    LET php == handler[w].site.php IN
    /\ handler[w].stage = "site"
    /\ \/ Answer(w)
       \/ php = "builtin" /\ Goto(w, "forward")
       \/ php = "fastcgi" /\ Goto(w, "fastcgi")
    /\ UNCHANGED <<registries, requests>>

\* forward_to_stripped reads the body first, except that of a gRPC call,
\* which is streamed. A bad override_host, address or body ends it.
Forward(w) ==
    /\ handler[w].stage = "forward"
    /\ \/ Answer(w)
       \/ Goto(w, IF handler[w].stream THEN "stream" ELSE "send")
    /\ UNCHANGED <<registries, requests>>

\* One request to the backend: whether it carries it out, which it has done when
\* it answers, and what is next.
Send(w, answered, next) ==
    LET h == handler[w] IN
    \E ran \in IF answered THEN {1} ELSE {0, 1} :
        handler' = [handler EXCEPT ![w] =
                       IF next = "done"
                       THEN [Idle EXCEPT !.stage = "done", !.ran = h.ran + ran]
                       ELSE [h EXCEPT !.stage = next, !.ran = @ + ran]]

\* A connection that was refused, or closed before a whole answer came, is
\* tried once more after 50 ms.
SendFirst(w) ==
    /\ handler[w].stage = "send"
    /\ \/ Send(w, TRUE, "done")
       \/ \E next \in {"again", "done"} : Send(w, FALSE, next)
    /\ UNCHANGED <<registries, requests>>

SendAgain(w) ==
    /\ handler[w].stage = "again"
    /\ \E answered \in BOOLEAN : Send(w, answered, "done")
    /\ UNCHANGED <<registries, requests>>

\* forward_grpc_streaming and proxy_fastcgi send once.
SendOnce(w) ==
    /\ handler[w].stage \in {"stream", "fastcgi"}
    /\ \E answered \in BOOLEAN : Send(w, answered, "done")
    /\ UNCHANGED <<registries, requests>>

\* The answer is compressed if it may be, gets its CORS headers, and is logged.
Finish(w) ==
    /\ handler[w].stage = "done"
    /\ Answer(w)
    /\ UNCHANGED <<registries, requests>>

\* The client is gone at an await: its task is dropped.
Cancel(w) ==
    /\ handler[w].stage # "idle"
    /\ Answer(w)
    /\ UNCHANGED <<registries, requests>>

-----------------------------------------------------------------------------
(* The management calls that change what answers for the host.             *)

\* w ends its call, and the rules are as given.
Change(w, red, ten, site) ==
    /\ redirect' = red /\ tenants' = ten /\ vhost' = site
    /\ handler' = Watch([handler EXCEPT ![w] = Idle], red, ten, site)
    /\ UNCHANGED requests

Acts(w, kind) == handler[w].stage = "act" /\ handler[w].kind = kind

AddTenant(w) ==
    /\ Acts(w, "add")
    /\ Change(w, redirect, tenants \cup {handler[w].entry}, vhost)

\* Mutant: an update of a host that is not there is an addition.
UpdateTenantUnchecked(w) ==
    /\ Acts(w, "update")
    /\ Goto(w, "upsert")
    /\ UNCHANGED <<registries, requests>>

\* update_tenant asks whether the host has an entry, under a lock of its own.
UpdateTenant(w) ==
    /\ Acts(w, "update")
    /\ IF tenants # {} THEN Goto(w, "upsert") ELSE Answer(w)
    /\ UNCHANGED <<registries, requests>>

Upsert(w) ==
    /\ handler[w].stage = "upsert"
    /\ Change(w, redirect, tenants \cup {handler[w].entry}, vhost)

RemoveTenant(w) ==
    /\ Acts(w, "remove")
    /\ Change(w, redirect, tenants \ {handler[w].entry}, vhost)

SetRedirect(w) ==
    \/ Acts(w, "redirect") /\ Change(w, TRUE, tenants, vhost)
    \/ Acts(w, "unredirect") /\ Change(w, FALSE, tenants, vhost)

\* upsert_web_vhost, import_web_vhost, remove_web_vhost, update_compat_mode.
SetVhost(w) ==
    \/ Acts(w, "site") /\ \E v \in Vhost : Change(w, redirect, tenants, v)
    \/ Acts(w, "unsite") /\ Change(w, redirect, tenants, None)
    \/ /\ Acts(w, "compat")
       /\ \E apache \in BOOLEAN :
             Change(w, redirect, tenants,
                    IF vhost = None THEN None ELSE [vhost EXCEPT !.apache = apache])

ListRules(w) == Acts(w, "list") /\ Change(w, redirect, tenants, vhost)

-----------------------------------------------------------------------------

Step(w) ==
    \/ LookRedirect(w) \/ LookOwn(w) \/ LookPrefix(w) \/ LookVhost(w) \/ LookHostOnly(w)
    \/ ServeSite(w) \/ Forward(w) \/ SendFirst(w) \/ SendAgain(w) \/ SendOnce(w)
    \/ AddTenant(w) \/ UpdateTenant(w) \/ Upsert(w) \/ RemoveTenant(w)
    \/ SetRedirect(w) \/ SetVhost(w) \/ ListRules(w)
    \/ Finish(w) \/ Cancel(w)

Next == \E w \in Worker : Start(w) \/ Step(w)

Spec == Init /\ [][Next]_vars

-----------------------------------------------------------------------------

AllRules == [rank : 1..7, length : Nat]

\* Every variable has its type; a backend carries a request out at most twice.
TypeOK ==
    /\ redirect \in BOOLEAN
    /\ tenants \subseteq Prefix \cup {None}
    /\ vhost \in Vhost \cup {None}
    /\ handler \in [Worker -> [stage : Stages \cup {"idle"},
                               kind : Calls \cup {"page", "fixed", None},
                               path : Path \cup {None}, host : BOOLEAN,
                               entry : Prefix \cup {None}, rule : AllRules \cup {None},
                               site : Vhost \cup {None}, stream : BOOLEAN,
                               held : SUBSET AllRules, seen : BOOLEAN, ran : 0..2]]
    /\ \A w \in Worker : handler[w].stage = "site" => handler[w].site \in Vhost
    /\ requests \in 0..MaxRequests

\* The rule that answers gives way to no better one that was registered all the
\* time from the arrival to the choice, whatever the management calls between
\* the look-ups did: redirect, own paths, longest prefix, vhost, host, upstream, 404.
BestStays ==
    \A w \in Worker : handler[w].rule # None =>
        \A rule \in handler[w].held : ~Better(rule, handler[w].rule)

\* The retry is for requests that did not reach the backend (proxy.rs, at
\* request_with_one_retry_on_connect_failure): none is carried out twice.
CarriedOutOnce == \A w \in Worker : handler[w].ran <= 1

\* A host without tenants gets one by an addition, or by an update during which
\* its last one was removed; an update that starts later is answered 404.
ComesBackByOverlap ==
    [][tenants = {} /\ tenants' # {} =>
          \E w \in Worker : Acts(w, "add") \/ (handler[w].stage = "upsert" /\ handler[w].seen)]_vars
=============================================================================
