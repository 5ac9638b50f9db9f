--------------------------- MODULE DomainWatchdog ---------------------------
(***************************************************************************)
(* The watchdog of domain_watchdog.rs as lib.rs starts it: rounds of       *)
(* checks of the gateway's own hosts, and an order for a certificate where *)
(* the handshake keeps failing. Operators change the hosts, their          *)
(* certificates and the expected texts while a round runs. What an order   *)
(* does is in AcmeIssuance; here it succeeds or fails.                     *)
(***************************************************************************)
EXTENDS Integers, FiniteSets

CONSTANTS
    Host,           \* hosts the gateway may serve
    Threshold,      \* DomainWatchdog.failure_threshold
    None            \* no host, no health entry

\* WatchdogState.hosts: failures in a row and last action of a host.
Entry == [failures : 0..Threshold, action : {"none", "reissued", "failed"}]

\* What the constants must be.
Parameters ==
    IsFiniteSet(Host) /\ Threshold \in Nat \ {0} /\ None \notin Host /\ None \notin Entry

VARIABLES
    registered,     \* hosts of the tenants and of the web vhosts
    served,         \* hosts the certificate resolver has a certificate for
    expecting,      \* hosts with expected texts (WatchdogState.expectations)
    health,         \* WatchdogState.hosts
    round,          \* the watchdog's stage, hosts still to check, host at hand
    began,          \* history: hosts registered when the round began
    bad,            \* history: checks of a host since a good one, and the last
    lacking,        \* history: hosts with no certificate since the round began
    waited          \* history: whole rounds a host has been so, unattended

vars == <<registered, served, expecting, health, round, began, bad, lacking, waited>>
history == <<began, bad, lacking, waited>>

Asleep == [stage |-> "asleep", todo |-> {}, host |-> None]
Unbeaten == [checks |-> 0, last |-> "ok"]

Init ==
    /\ registered \in SUBSET Host /\ served \in SUBSET Host /\ expecting = {}
    /\ health = [h \in Host |-> None]
    /\ round = Asleep /\ began = {}
    /\ bad = [h \in Host |-> Unbeaten]
    /\ lacking = {} /\ waited = [h \in Host |-> 0]

\* A host that gets a certificate or an order waits no more.
Attended(h) == lacking' = lacking \ {h} /\ waited' = [waited EXCEPT ![h] = 0]

-----------------------------------------------------------------------------
\* The management calls. Removing a tenant or a vhost leaves its certificate,
\* its health entry and its expected texts.
Register(h) ==
    /\ registered' \in {registered \cup {h}, registered \ {h}} \ {registered}
    /\ UNCHANGED <<served, expecting, health, round, history>>

SetExpectations(h) ==
    /\ expecting' \in {expecting \cup {h}, expecting \ {h}} \ {expecting}
    /\ UNCHANGED <<registered, served, health, round, history>>

UpsertTls(h) ==
    /\ served' = served \cup {h}
    /\ Attended(h)
    /\ UNCHANGED <<registered, expecting, health, round, began, bad>>

RemoveTls(h) ==
    /\ served' = served \ {h}
    /\ UNCHANGED <<registered, expecting, health, round, history>>

-----------------------------------------------------------------------------
\* A round works on the hosts registered as it begins.
Begin(hosts) ==
    /\ round.stage = "asleep"
    /\ round' = [stage |-> "choose", todo |-> hosts, host |-> None]
    /\ began' = registered
    /\ lacking' = registered \ served
    /\ UNCHANGED <<registered, served, expecting, health, bad, waited>>

\* Mutant: every host with a health entry is checked for ever.
StartRoundKnown == Begin(registered \cup {h \in Host : health[h] # None})

StartRound == Begin(registered)

\* What a check of h may find: the handshake fails for want of a certificate,
\* or for another reason (the listener is not reached in time); the site
\* answers with an error; its body lacks an expected text.
Outcomes(h) ==
    {"tls"} \cup (IF h \in served THEN {"ok", "http"} ELSE {})
            \cup (IF h \in served \cap expecting THEN {"content"} ELSE {})

\* The counter saturates (here at the threshold).
Saturated(n) == IF n < Threshold THEN n + 1 ELSE n

\* Mutant: a good check leaves the counter alone.
RecordedKept(h, outcome) ==
    LET before == IF health[h] = None THEN [failures |-> 0, action |-> "none"]
                  ELSE health[h] IN
    IF outcome = "ok" THEN [before EXCEPT !.action = "none"]
    ELSE [before EXCEPT !.failures = Saturated(@)]

\* WatchdogState::record.
Recorded(h, outcome) ==
    LET before == IF health[h] = None THEN [failures |-> 0, action |-> "none"]
                  ELSE health[h] IN
    IF outcome = "ok" THEN [failures |-> 0, action |-> "none"]
    ELSE [before EXCEPT !.failures = Saturated(@)]

\* Mutant: a host is put to the CA when it crosses the threshold, not past it.
RepairsOnce(h, outcome) ==
    /\ outcome = "tls" /\ Recorded(h, outcome).failures >= Threshold
    /\ health[h] # None /\ health[h].failures < Threshold

\* Past the threshold a failing handshake is put to the CA; other failures are
\* only put to the AI advisor.
Repairs(h, outcome) == outcome = "tls" /\ Recorded(h, outcome).failures >= Threshold

Check(h) ==
    /\ round.stage = "choose" /\ h \in round.todo
    /\ \E outcome \in Outcomes(h) :
          /\ health' = [health EXCEPT ![h] = Recorded(h, outcome)]
          /\ bad' = [bad EXCEPT ![h] = IF outcome = "ok" THEN Unbeaten
                                       ELSE [checks |-> Saturated(@.checks), last |-> outcome]]
          /\ IF Repairs(h, outcome)
             THEN /\ round' = [stage |-> "repair", todo |-> round.todo \ {h}, host |-> h]
                  /\ Attended(h)
             ELSE /\ round' = [round EXCEPT !.todo = @ \ {h}]
                  /\ UNCHANGED <<lacking, waited>>
    /\ UNCHANGED <<registered, served, expecting, began>>

\* The order ends; the next host is not checked before it does.
Repaired ==
    LET h == round.host IN
    /\ round.stage = "repair"
    /\ \E done \in BOOLEAN :
          /\ served' = IF done THEN served \cup {h} ELSE served
          /\ health' = [health EXCEPT ![h].action = IF done THEN "reissued" ELSE "failed"]
    /\ round' = [round EXCEPT !.stage = "choose", !.host = None]
    /\ UNCHANGED <<registered, expecting, history>>

EndRound ==
    /\ round.stage = "choose" /\ round.todo = {}
    /\ round' = Asleep /\ lacking' = {}
    /\ waited' = [h \in Host |-> IF h \in lacking THEN waited[h] + 1
                                 ELSE IF h \in began THEN 0 ELSE waited[h]]
    /\ UNCHANGED <<registered, served, expecting, health, began, bad>>

\* The process starts anew: hosts and certificates are read from disk, health
\* and expected texts are gone.
Restart ==
    /\ round' = Asleep /\ health' = [h \in Host |-> None] /\ expecting' = {}
    /\ began' = {} /\ bad' = [h \in Host |-> Unbeaten]
    /\ lacking' = {} /\ waited' = [h \in Host |-> 0]
    /\ UNCHANGED <<registered, served>>

Next ==
    \/ StartRound \/ Repaired \/ EndRound \/ Restart
    \/ \E h \in Host : \/ Register(h) \/ SetExpectations(h) \/ UpsertTls(h)
                       \/ RemoveTls(h) \/ Check(h)

-----------------------------------------------------------------------------
TypeOK ==
    /\ registered \subseteq Host /\ served \subseteq Host /\ expecting \subseteq Host
    /\ health \in [Host -> {None} \cup Entry]
    /\ round \in [stage : {"asleep", "choose", "repair"}, todo : SUBSET Host,
                  host : Host \cup {None}]
    /\ began \subseteq Host /\ lacking \subseteq Host
    /\ bad \in [Host -> [checks : 0..Threshold, last : {"ok", "tls", "http", "content"}]]
    /\ waited \in [Host -> Nat]

\* run_once asks the CA only for a host whose last Threshold checks in a row
\* were bad, the last of them in the handshake: neither a failing site nor a
\* missing text ever costs an order.
ReissueJustified ==
    round.stage = "repair" =>
      bad[round.host].checks >= Threshold /\ bad[round.host].last = "tls"

\* run_once asks only for hosts that were registered when its round began; a
\* host removed since may still get a certificate, one removed before not.
AsksForRegistered == round.stage = "repair" => round.host \in began

\* A registered host that stays without a certificate is put to the CA before
\* Threshold whole rounds have passed, however often earlier orders failed.
NeverLeftWaiting == \A h \in Host : waited[h] < Threshold
=============================================================================
