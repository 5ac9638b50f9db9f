----------------------------- MODULE FreeDomain -----------------------------
(***************************************************************************)
(* The DuckDNS names of the gateway (free_domain.rs and its handlers): a   *)
(* registry in memory, a loop that tells DuckDNS when the machine's IPv4   *)
(* or IPv6 address has changed, and the management calls that add a name   *)
(* and tell DuckDNS about it themselves. DuckDNS may refuse an update, as  *)
(* it does one with what is no address; a request or its answer may be     *)
(* lost, and a request whose connection broke may still arrive later.      *)
(***************************************************************************)
EXTENDS Integers, FiniteSets

CONSTANTS
    Domain,         \* names at DuckDNS
    Seed,           \* those of them the environment registers at start
    Capacity,       \* MAX_DUCKDNS_DOMAINS
    Addr, Addr6,    \* IPv4 and IPv6 addresses the machine may have
    Page,           \* an answer of an echo service that is no address
    MaxLate,        \* bound: broken requests on their way at the same time
    MaxSetups,      \* bound: calls of setup_free_domain
    MaxMoves,       \* bound: changes of the machine's addresses
    None            \* no address, no name, no request

\* What the constants must be.
Parameters ==
    /\ Seed \subseteq Domain /\ IsFiniteSet(Seed)
    /\ Capacity \in Nat /\ Cardinality(Seed) <= Capacity
    /\ MaxSetups \in Nat /\ MaxMoves \in Nat /\ MaxLate \in Nat
    /\ None \notin Addr \cup Addr6 \cup Domain /\ Page \notin Addr \cup Addr6 \cup {None}
    /\ None \notin [name : Domain, now : [v4 : Addr \cup {None}, v6 : Addr6 \cup {None}]]

VARIABLES
    wan,            \* the machine's addresses, v6 only where there is one
    moves,          \* bound counter
    registered,     \* DomainRegistry.entries
    status,         \* names with an entry in DomainRegistry.last_update
    record,         \* at DuckDNS: the addresses of each name
    late,           \* broken requests that may still reach DuckDNS
    last,           \* last_ip and last_ipv6 of the loop
    loop,           \* the loop's stage, the addresses of this pass, names to do
    setup, setups,  \* the name a setup call is about to announce; bound counter
    touched,        \* history: names set up, or given an address by a late request,
                    \* since the loop took its snapshot
    fresh,          \* history: the same since the last good update of all began
    torn,           \* history: has an update of another address failed since?
    overtaken       \* history: names removed while an update was on its way

vars == <<wan, moves, registered, status, record, late, last, loop, setup, setups, touched,
          fresh, torn, overtaken>>
history == <<touched, fresh, torn>>

Family == {"v4", "v6"}
Address(f) == IF f = "v4" THEN Addr ELSE Addr6
Asleep == [stage |-> "asleep", now |-> [f \in Family |-> None], todo |-> {}, good |-> TRUE]

Init ==
    /\ wan \in [v4 : Addr, v6 : Addr6 \cup {None}] /\ moves = 0
    /\ registered = Seed
    /\ status = {}
    /\ record = [d \in Domain |-> [f \in Family |-> None]]
    /\ late = [i \in 1..MaxLate |-> None]
    /\ last = [f \in Family |-> None]
    /\ loop = Asleep
    /\ setup = None /\ setups = 0
    /\ touched = {} /\ fresh = [f \in Family |-> Seed] /\ torn = [f \in Family |-> FALSE]
    /\ overtaken = {}

\* The provider gives the machine another IPv4 address, or gives it, changes or
\* takes its IPv6 one.
Move ==
    /\ moves < MaxMoves
    /\ moves' = moves + 1
    /\ \/ \E ip \in Addr \ {wan.v4} : wan' = [wan EXCEPT !.v4 = ip]
       \/ \E ip \in (Addr6 \cup {None}) \ {wan.v6} : wan' = [wan EXCEPT !.v6 = ip]
    /\ UNCHANGED <<registered, status, record, late, last, loop, setup, setups, history, overtaken>>

-----------------------------------------------------------------------------
\* What the addresses sent make of the record of a name.
Given(d, now) == [f \in Family |-> IF now[f] = None THEN record[d][f] ELSE now[f]]

\* setup_free_domain registers the name, within the capacity, and then has
\* DuckDNS take the address the call comes from.
Register(d) ==
    /\ setup = None /\ setups < MaxSetups
    /\ d \in registered \/ Cardinality(registered) < Capacity
    /\ registered' = registered \cup {d} /\ overtaken' = overtaken \ {d}
    /\ setup' = d /\ setups' = setups + 1
    /\ touched' = touched \cup {d}
    /\ fresh' = [f \in Family |-> fresh[f] \cup {d}]
    /\ UNCHANGED <<wan, moves, status, record, late, last, loop, torn>>

\* A request breaks, and is on its way.
Leave(d, now) ==
    \E i \in 1..MaxLate :
        late[i] = None /\ late' = [late EXCEPT ![i] = [name |-> d, now |-> now]]

\* A broken request reaches DuckDNS after all.
Land(i) ==
    LET d == late[i].name
        now == late[i].now
    IN
    /\ late[i] # None
    /\ record' = [record EXCEPT ![d] = Given(d, now)]
    /\ touched' = touched \cup {d}
    /\ fresh' = [f \in Family |-> IF now[f] = None THEN fresh[f] ELSE fresh[f] \cup {d}]
    /\ late' = [late EXCEPT ![i] = None]
    /\ UNCHANGED <<wan, moves, registered, status, last, loop, setup, setups, torn, overtaken>>

\* No answer, no status of it; and the name stays registered.
Announce ==
    /\ setup # None /\ setup' = None
    /\ \E taken \in BOOLEAN, answer \in {"good", "bad", "lost"} :
          /\ taken = (answer = "good") \/ answer = "lost"
          /\ record' = IF taken THEN [record EXCEPT ![setup].v4 = wan.v4] ELSE record
          /\ status' = IF answer = "lost" THEN status ELSE status \cup {setup}
          /\ \/ UNCHANGED late
             \/ ~taken /\ answer = "lost" /\ Leave(setup, [v4 |-> wan.v4, v6 |-> None])
    /\ touched' = touched \cup {setup}
    /\ fresh' = [fresh EXCEPT !.v4 = @ \cup {setup}]
    /\ UNCHANGED <<wan, moves, registered, last, loop, setups, torn, overtaken>>

\* Mutant: the status stays behind.
RemoveKeepsStatus(d) ==
    /\ d \in registered
    /\ registered' = registered \ {d}
    /\ overtaken' = IF d = setup \/ d \in loop.todo THEN overtaken \cup {d} ELSE overtaken
    /\ UNCHANGED <<wan, moves, status, record, late, last, loop, setup, setups, history>>

\* DomainRegistry::remove, with its status.
Remove(d) ==
    /\ d \in registered
    /\ registered' = registered \ {d}
    /\ status' = status \ {d}
    /\ overtaken' = IF d = setup \/ d \in loop.todo THEN overtaken \cup {d} ELSE overtaken
    /\ UNCHANGED <<wan, moves, record, late, last, loop, setup, setups, history>>

-----------------------------------------------------------------------------
\* A pass of run_loop: the names, the IPv6 address if one can be had, the IPv4
\* address or nothing at all. What the echo services answer is not looked at.
StartPass ==
    /\ loop.stage = "asleep" /\ registered # {}
    /\ \E v6 \in {None, wan.v6, Page} :
          loop' = [stage |-> "fetch", now |-> [v4 |-> None, v6 |-> v6],
                   todo |-> registered, good |-> TRUE]
    /\ touched' = IF setup = None THEN {} ELSE {setup}
    /\ UNCHANGED <<wan, moves, registered, status, record, late, last, setup, setups, fresh, torn,
                   overtaken>>

Changed(v4, v6) == v4 # last.v4 \/ (v6 # None /\ v6 # last.v6)

FetchIp ==
    /\ loop.stage = "fetch"
    /\ \E v4 \in {wan.v4, Page} :
          loop' = IF Changed(v4, loop.now.v6)
                  THEN [loop EXCEPT !.stage = "update", !.now.v4 = v4]
                  ELSE Asleep
    /\ UNCHANGED <<wan, moves, registered, status, record, late, last, setup, setups, history,
                   overtaken>>

FetchFails ==
    /\ loop.stage = "fetch"
    /\ loop' = Asleep
    /\ UNCHANGED <<wan, moves, registered, status, record, late, last, setup, setups, history,
                   overtaken>>

\* Is what this pass sends no address?
Ill == Page \in {loop.now.v4, loop.now.v6}

\* One name after the other, with the addresses of this pass.
Update(d) ==
    /\ loop.stage = "update" /\ d \in loop.todo
    /\ \E taken \in BOOLEAN, answer \in {"good", "bad"} :
          /\ answer = "good" => taken
          /\ taken => ~Ill
          /\ record' = IF taken THEN [record EXCEPT ![d] = Given(d, loop.now)] ELSE record
          /\ loop' = [loop EXCEPT !.todo = @ \ {d}, !.good = @ /\ answer = "good"]
          /\ \/ UNCHANGED late
             \/ ~taken /\ ~Ill /\ Leave(d, loop.now)
    /\ status' = status \cup {d}
    /\ UNCHANGED <<wan, moves, registered, last, setup, setups, history, overtaken>>

Sent(f) == loop.now[f] # None

\* Some name may have been given an address that does not count as told.
Torn(f) ==
    IF ~Sent(f) \/ Ill THEN torn[f]
    ELSE ~loop.good /\ (torn[f] \/ last'[f] # loop.now[f])

\* Mutant: the addresses count as told whatever DuckDNS said.
EndPassAnyway ==
    /\ loop.stage = "update" /\ loop.todo = {}
    /\ last' = [f \in Family |-> IF Sent(f) THEN loop.now[f] ELSE last[f]]
    /\ fresh' = [f \in Family |-> IF loop.good /\ Sent(f) THEN touched ELSE fresh[f]]
    /\ torn' = [f \in Family |-> Torn(f)]
    /\ loop' = Asleep
    /\ UNCHANGED <<wan, moves, registered, status, record, late, setup, setups, touched, overtaken>>

\* The addresses count as told only if every name took them.
EndPass ==
    /\ loop.stage = "update" /\ loop.todo = {}
    /\ last' = [f \in Family |-> IF loop.good /\ Sent(f) THEN loop.now[f] ELSE last[f]]
    /\ fresh' = [f \in Family |-> IF loop.good /\ Sent(f) THEN touched ELSE fresh[f]]
    /\ torn' = [f \in Family |-> Torn(f)]
    /\ loop' = Asleep
    /\ UNCHANGED <<wan, moves, registered, status, record, late, setup, setups, touched, overtaken>>

\* The registry is not saved: the names of the environment are left.
Restart ==
    /\ registered' = Seed /\ status' = {}
    /\ last' = [f \in Family |-> None] /\ loop' = Asleep /\ setup' = None
    /\ touched' = {} /\ fresh' = [f \in Family |-> Domain] /\ overtaken' = {}
    /\ torn' = [f \in Family |-> FALSE]
    /\ UNCHANGED <<wan, moves, record, late, setups>>

Next ==
    \/ Move \/ Announce \/ StartPass \/ FetchIp \/ FetchFails \/ EndPass \/ Restart
    \/ \E i \in 1..MaxLate : Land(i)
    \/ \E d \in Domain : Register(d) \/ Remove(d) \/ Update(d)

-----------------------------------------------------------------------------
Addresses == [v4 : Addr \cup {None}, v6 : Addr6 \cup {None}]
Answers == [v4 : Addr \cup {Page, None}, v6 : Addr6 \cup {Page, None}]

TypeOK ==
    /\ wan \in Addresses /\ moves \in 0..MaxMoves /\ setups \in 0..MaxSetups
    /\ registered \subseteq Domain /\ Cardinality(registered) <= Capacity
    /\ status \subseteq Domain
    /\ record \in [Domain -> Addresses] /\ last \in Addresses
    /\ late \in [1..MaxLate -> [name : Domain, now : Addresses] \cup {None}]
    /\ loop \in [stage : {"asleep", "fetch", "update"}, now : Answers,
                 todo : SUBSET Domain, good : BOOLEAN]
    /\ setup \in Domain \cup {None}
    /\ touched \subseteq Domain /\ overtaken \subseteq Domain
    /\ fresh \in [Family -> SUBSET Domain] /\ torn \in [Family -> BOOLEAN]

\* What run_loop takes for told is at DuckDNS, for every name that was there
\* when it was told, as long as no update of another address has failed since:
\* an address that changes and comes back after such a failure, a name set up
\* meanwhile, or a request that comes late is what leaves a stale record.
ToldIsThere ==
    loop.stage # "update" =>
      \A f \in Family : last[f] # None /\ ~torn[f] =>
        \A d \in registered \ fresh[f] : record[d][f] = last[f]

\* A removed name has no status, unless an update of it was on its way when it
\* was removed: its record then shows again once the name is back.
GoneIsGone == status \subseteq registered \cup overtaken
=============================================================================
