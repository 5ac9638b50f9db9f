----------------------------- MODULE AddressLoop ----------------------------
(***************************************************************************)
(* The loop of ddns.rs that tells one provider the machine's address, the  *)
(* power profile that sets its pace (power_profile.rs and its handlers),   *)
(* and the heartbeat by which the health page judges whether the loop is   *)
(* alive. Time is counted in units of one minute or so.                    *)
(*                                                                         *)
(* The provider may refuse an address under a status of success, as the    *)
(* DuckDNS of the module's own example does with its "KO"; what is no      *)
(* address it does not take. A request whose connection broke may still    *)
(* reach it, at any later time.                                            *)
(***************************************************************************)
EXTENDS Integers

CONSTANTS
    Addr,           \* addresses the machine may have
    Page,           \* an answer of the echo service that is no address
    Base,           \* CHECK_INTERVAL
    Timeout,        \* REQUEST_TIMEOUT
    Limit,          \* seconds after which heartbeat_status is unhealthy
    MaxLate,        \* bound: broken requests on their way at the same time
    None            \* no address, no heartbeat, no request

\* What the constants must be: the naps of always_on are a fifth of Base.
Parameters ==
    /\ Base \in Nat \ {0} /\ Base % 5 = 0 /\ Timeout \in Nat \ {0}
    /\ Limit > Base + 2 * Timeout /\ Limit \in Nat /\ None \notin Addr /\ None \notin Nat
    /\ Page \notin Addr /\ Page # None /\ MaxLate \in Nat

Flag == {"memory_saver", "power_save", "always_on"}

VARIABLES
    wan,            \* the machine's address
    record,         \* the address at the provider
    late,           \* the addresses of broken requests that may still reach it
    flags,          \* PowerProfileRegistry.current
    lastIp,         \* last_ip of the loop
    loop,           \* the loop's stage, the time its nap or request still has,
                    \* the address it tells
    since,          \* LAST_TICK_UNIX: time since the last pass began
    frugal,         \* history: was this nap begun to save power?
    stale,          \* history: how long the address has not counted as told, since
                    \* it changed or something failed
    torn            \* history: since an address was taken that counts as told, was
                    \* one refused that counts, or one taken that does not?

vars == <<wan, record, late, flags, lastIp, loop, since, frugal, stale, torn>>

Init ==
    /\ wan \in Addr /\ record = None /\ flags \in SUBSET Flag
    /\ lastIp = None /\ late = [i \in 1..MaxLate |-> None]
    /\ \E started \in BOOLEAN :
          /\ loop = [stage |-> IF started THEN "begin" ELSE "off", left |-> 0, ip |-> None]
          /\ since = IF started THEN 0 ELSE None
    /\ frugal = FALSE /\ stale = 0 /\ torn = FALSE

Move ==
    /\ wan' \in Addr \ {wan} /\ stale' = 0
    /\ UNCHANGED <<record, late, flags, lastIp, loop, since, frugal, torn>>

\* set_power_profile: any combination, at any time.
SetPowerProfile ==
    /\ flags' \in SUBSET Flag \ {flags}
    /\ UNCHANGED <<wan, record, late, lastIp, loop, since, frugal, stale, torn>>

\* Mutant: power_save wins.
NapSaving(profile) ==
    IF "power_save" \in profile THEN 3 * Base
    ELSE IF "always_on" \in profile THEN Base \div 5 ELSE Base

\* effective_poll_interval: always_on wins.
Nap(profile) ==
    IF "always_on" \in profile THEN Base \div 5
    ELSE IF "power_save" \in profile THEN 3 * Base ELSE Base

Sleep ==
    /\ loop' = [stage |-> "asleep", left |-> Nap(flags), ip |-> None]
    /\ frugal' = ("power_save" \in flags /\ "always_on" \notin flags)

\* A pass begins with the heartbeat.
Begin ==
    /\ loop.stage = "begin"
    /\ since' = 0
    /\ loop' = [stage |-> "fetch", left |-> Timeout, ip |-> None]
    /\ UNCHANGED <<wan, record, late, flags, lastIp, frugal, stale, torn>>

\* Neither the status nor the form of the echo service's answer is looked at.
Fetched ==
    /\ loop.stage = "fetch"
    /\ \E ip \in {wan, Page} :
          /\ IF ip # lastIp
             THEN /\ loop' = [stage |-> "update", left |-> Timeout, ip |-> ip]
                  /\ UNCHANGED frugal
             ELSE Sleep
          /\ stale' = IF ip = wan THEN stale ELSE 0
    /\ UNCHANGED <<wan, record, late, flags, lastIp, since, torn>>

\* Mutant: an address counts as told once it was sent.
FailsButCounts ==
    /\ loop.stage \in {"fetch", "update"}
    /\ Sleep /\ stale' = 0
    /\ lastIp' = IF loop.stage = "update" THEN loop.ip ELSE lastIp
    /\ UNCHANGED <<wan, record, late, flags, since, torn>>

\* The request to the echo service or to the provider fails, or the provider
\* refuses the address with a status of failure. Or it takes it, now or later,
\* and the answer is lost.
Fails ==
    /\ loop.stage \in {"fetch", "update"}
    /\ Sleep /\ stale' = 0
    /\ \/ UNCHANGED <<record, late, torn>>
       \/ /\ loop.stage = "update" /\ loop.ip \in Addr
          /\ \/ record' = loop.ip /\ torn' = TRUE /\ UNCHANGED late
             \/ /\ \E i \in 1..MaxLate :
                      late[i] = None /\ late' = [late EXCEPT ![i] = loop.ip]
                /\ UNCHANGED <<record, torn>>
    /\ UNCHANGED <<wan, flags, lastIp, since>>

\* A broken request reaches the provider after all.
Land(i) ==
    /\ late[i] # None
    /\ record' = late[i] /\ torn' = TRUE
    /\ late' = [late EXCEPT ![i] = None]
    /\ UNCHANGED <<wan, flags, lastIp, loop, since, frugal, stale>>

\* Whatever the answer's body says, a status of success makes the address count
\* as told.
Updated ==
    /\ loop.stage = "update"
    /\ \E taken \in BOOLEAN :
          /\ taken => loop.ip \in Addr
          /\ record' = IF taken THEN loop.ip ELSE record
          /\ torn' = ~taken
    /\ lastIp' = loop.ip
    /\ stale' = IF loop.ip = wan THEN 0 ELSE stale
    /\ Sleep
    /\ UNCHANGED <<wan, late, flags, since>>

\* A nap or a request lasts no longer than it may.
Tick ==
    /\ loop.stage = "off" \/ loop.left > 0
    /\ loop' = IF loop.stage = "off" THEN loop ELSE [loop EXCEPT !.left = @ - 1]
    /\ since' = IF since = None THEN None ELSE since + 1
    /\ stale' = IF lastIp = wan \/ loop.stage = "off" THEN 0 ELSE stale + 1
    /\ UNCHANGED <<wan, record, late, flags, lastIp, frugal, torn>>

Wake ==
    /\ loop.stage = "asleep" /\ loop.left = 0
    /\ loop' = [loop EXCEPT !.stage = "begin"]
    /\ UNCHANGED <<wan, record, late, flags, lastIp, since, frugal, stale, torn>>

Next ==
    \/ Move \/ SetPowerProfile \/ Begin \/ Fetched \/ Fails \/ Updated \/ Tick \/ Wake
    \/ \E i \in 1..MaxLate : Land(i)

-----------------------------------------------------------------------------
Longest == 3 * Base + 3 * Timeout

TypeOK ==
    /\ wan \in Addr /\ record \in Addr \cup {None} /\ flags \subseteq Flag
    /\ late \in [1..MaxLate -> Addr \cup {None}]
    /\ lastIp \in Addr \cup {Page, None} /\ frugal \in BOOLEAN /\ torn \in BOOLEAN
    /\ loop \in [stage : {"off", "asleep", "begin", "fetch", "update"}, left : Nat,
                 ip : Addr \cup {Page, None}]
    /\ since \in Nat \cup {None} /\ stale \in Nat

\* heartbeat_status calls the living loop unhealthy only during the long nap of
\* power_save: no failing request holds it that long, no switch of the profile
\* in the middle of a nap does.
AliveLooksAlive == since # None /\ since >= Limit => frugal /\ loop.stage \in {"asleep", "begin"}

\* An address of the machine counts as told within one nap and three requests
\* of its last change and of the last failure, whatever is told in between and
\* however the profile is switched.
ToldInTime == stale <= Longest

\* What counts as told is the record, unless it was refused under a status of
\* success, or another was taken since whose answer was lost: then the provider
\* keeps what it has until the address changes again.
ToldIsTaken == lastIp # None /\ ~torn => record = lastIp
=============================================================================
