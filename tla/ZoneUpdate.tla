----------------------------- MODULE ZoneUpdate -----------------------------
(***************************************************************************)
(* The AAAA records of aon.co.jp that custom_dns_ipv6_autoupdate.rs keeps  *)
(* up to date through ValueDomainProvider (custom_dns.rs): names are added *)
(* and removed by management calls, a loop fetches the machine's IPv6      *)
(* address and, when it has changed, writes it for every name. The         *)
(* provider takes whole zones: each write replaces all records. The        *)
(* results of the last updates are only shown, and left out.               *)
(***************************************************************************)
EXTENDS Integers, FiniteSets

CONSTANTS
    Name,           \* subdomains of aon.co.jp
    Capacity,       \* MAX_IPV6_AUTO_UPDATE_ENTRIES
    Addr,           \* IPv6 addresses the machine may have
    Page,           \* an answer of the echo service that is no address
    MaxLate,        \* bound: broken requests on their way at the same time
    Site,           \* the records the zone had before
    None            \* no address, no request

\* What the constants must be.
Parameters ==
    /\ Capacity \in Nat /\ MaxLate \in Nat
    /\ {Page, None} \cap Addr = {} /\ Page # None /\ Site # {}
    /\ None \notin [name : Name, text : Addr]

VARIABLES
    address,        \* the machine's IPv6 address
    names,          \* Ipv6AutoUpdateRegistry.entries
    zone,           \* at the provider: the records of the zone
    late,           \* broken requests that may still reach it: what they write
    told,           \* last_ipv6 of the loop
    pass,           \* the loop's stage, address of this pass, names to do
    wrote,          \* history: has this pass written the zone, and no late request since?
    torn            \* history: was another address written since told was set, or
                    \* anything by a late request?

vars == <<address, names, zone, late, told, pass, wrote, torn>>

Asleep == [stage |-> "asleep", now |-> None, todo |-> {}, good |-> TRUE]

Init ==
    /\ address \in Addr /\ names = {}
    /\ zone = Site /\ told = None /\ pass = Asleep
    /\ late = [i \in 1..MaxLate |-> None]
    /\ wrote = FALSE /\ torn = FALSE

Move ==
    /\ address' \in Addr \ {address}
    /\ UNCHANGED <<names, zone, late, told, pass, wrote, torn>>

\* Mutant: the bound on the entries is not looked at.
RegisterUnbounded(n) ==
    /\ names' = names \cup {n}
    /\ UNCHANGED <<address, zone, late, told, pass, wrote, torn>>

\* setup_ipv6_auto_update only registers; the loop sees to the rest.
Register(n) ==
    /\ n \in names \/ Cardinality(names) < Capacity
    /\ names' = names \cup {n}
    /\ UNCHANGED <<address, zone, late, told, pass, wrote, torn>>

\* The record stays in the zone.
Remove(n) ==
    /\ n \in names
    /\ names' = names \ {n}
    /\ UNCHANGED <<address, zone, late, told, pass, wrote, torn>>

-----------------------------------------------------------------------------
StartPass ==
    /\ pass.stage = "asleep" /\ names # {}
    /\ pass' = [stage |-> "fetch", now |-> None, todo |-> names, good |-> TRUE]
    /\ UNCHANGED <<address, names, zone, late, told, wrote, torn>>

\* The status of the echo service's answer is not looked at.
Fetch ==
    /\ pass.stage = "fetch"
    /\ \E now \in {address, Page, None} :
          pass' = IF now \in {None, told} THEN Asleep
                  ELSE [pass EXCEPT !.stage = "update", !.now = now]
    /\ UNCHANGED <<address, names, zone, late, told, wrote, torn>>

\* Mutant: whatever the echo service says is written.
ValidIpv6Any(text) == text # None

\* validate_ipv6_format.
ValidIpv6(text) == text \in Addr

\* update_ipv6 of one name. It fails before any request if the text is no
\* address; the provider may refuse, or its answer may be lost, and a request
\* that broke may still reach it.
Update(n) ==
    /\ pass.stage = "update" /\ n \in pass.todo
    /\ \E taken, good \in BOOLEAN :
          /\ good => taken
          /\ taken => ValidIpv6(pass.now)
          /\ zone' = IF taken THEN {[name |-> n, text |-> pass.now]} ELSE zone
          /\ wrote' = (wrote \/ taken)
          /\ pass' = [pass EXCEPT !.todo = @ \ {n}, !.good = @ /\ good]
          /\ \/ UNCHANGED late
             \/ /\ ~taken /\ ValidIpv6(pass.now)
                /\ \E i \in 1..MaxLate :
                      /\ late[i] = None
                      /\ late' = [late EXCEPT ![i] = [name |-> n, text |-> pass.now]]
    /\ UNCHANGED <<address, names, told, torn>>

\* A broken request reaches the provider after all.
Land(i) ==
    /\ late[i] # None
    /\ zone' = {late[i]} /\ late' = [late EXCEPT ![i] = None]
    /\ wrote' = FALSE /\ torn' = TRUE
    /\ UNCHANGED <<address, names, told, pass>>

\* Is what the zone holds now another address than told, for all the loop knows?
Torn == IF pass.good THEN ~wrote ELSE torn \/ (wrote /\ told' # pass.now)

\* Mutant: the address counts as told whatever the provider said.
EndPassAnyway ==
    /\ pass.stage = "update" /\ pass.todo = {}
    /\ told' = pass.now
    /\ torn' = Torn /\ wrote' = FALSE
    /\ pass' = Asleep
    /\ UNCHANGED <<address, names, zone, late>>

\* The address counts as told only if every name took it.
EndPass ==
    /\ pass.stage = "update" /\ pass.todo = {}
    /\ told' = IF pass.good THEN pass.now ELSE told
    /\ torn' = Torn /\ wrote' = FALSE
    /\ pass' = Asleep
    /\ UNCHANGED <<address, names, zone, late>>

\* Nothing is saved.
Restart ==
    /\ names' = {} /\ told' = None /\ pass' = Asleep
    /\ wrote' = FALSE /\ torn' = FALSE
    /\ UNCHANGED <<address, zone, late>>

Next ==
    \/ Move \/ StartPass \/ Fetch \/ EndPass \/ Restart
    \/ \E i \in 1..MaxLate : Land(i)
    \/ \E n \in Name : Register(n) \/ Remove(n) \/ Update(n)

-----------------------------------------------------------------------------
TypeOK ==
    /\ address \in Addr /\ names \subseteq Name /\ Cardinality(names) <= Capacity
    /\ told \in Addr \cup {Page, None}
    /\ zone = Site \/ zone \subseteq [name : Name, text : Addr \cup {Page}]
    /\ late \in [1..MaxLate -> [name : Name, text : Addr] \cup {None}]
    /\ pass \in [stage : {"asleep", "fetch", "update"}, now : Addr \cup {Page, None},
                 todo : SUBSET Name, good : BOOLEAN]
    /\ wrote \in BOOLEAN /\ torn \in BOOLEAN

\* What the echo service answers when it is ill reaches neither the zone nor
\* last_ipv6, where it would keep the true address from being written.
OnlyAddresses == told # Page /\ \A r \in zone : r \in Site \/ r.text \in Addr

\* When the loop takes an address for told, and no other was written since, by
\* a pass that failed or by a request that came late, it is what the zone holds:
\* one record, for one of the names. The others, and what the zone had before, are
\* gone, as update_ipv6 says of itself.
ToldInZone ==
    pass.stage # "update" /\ told # None /\ ~torn =>
      \E n \in Name : zone = {[name |-> n, text |-> told]}
=============================================================================
