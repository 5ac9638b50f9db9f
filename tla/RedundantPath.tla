---------------------------- MODULE RedundantPath ----------------------------
(***************************************************************************)
(* The redundant notices of udp_channel.rs: the sender gives each a        *)
(* sequence number and a MAC and sends it once; the network loses, repeats,*)
(* reorders and damages datagrams; the receiver's tasks verify one, look   *)
(* its idempotency key up in the set of known keys, and hand it to their   *)
(* caller. The set is in memory and only grows.                            *)
(***************************************************************************)
EXTENDS Integers, FiniteSets

CONSTANTS
    Key,            \* idempotency keys
    Task,           \* callers of recv_mutation
    MaxSent,        \* bound: notices sent
    MaxDamaged      \* bound: datagrams the network damages

\* What the constants must be.
Parameters == MaxSent \in Nat /\ MaxDamaged \in Nat

VARIABLES
    nextSeq,        \* UdpSender.next_seq
    sent,           \* history: keys of the notices sent
    air,            \* datagrams under way; mac is what the MAC was made of
    task,           \* per receiving task: its stage and datagram
    seen,           \* Deduplicator.seen
    handed,         \* history: per key, times handed out since the start
    damaged         \* bound counter

vars == <<nextSeq, sent, air, task, seen, handed, damaged>>

Frame(s, k) == [seq |-> s, key |-> k, mac |-> <<s, k>>]
Datagram == [seq : 0..MaxSent, key : Key, mac : (0..MaxSent) \X Key]
Idle == [stage |-> "recv", frame |-> {}]

Init ==
    /\ nextSeq = 0 /\ sent = {} /\ air = {}
    /\ task = [t \in Task |-> Idle]
    /\ seen = {} /\ handed = [k \in Key |-> 0] /\ damaged = 0

\* A commit of the same key that is tried again takes a new number; so does a
\* notice that the socket does not take.
Send(k) ==
    /\ nextSeq < MaxSent /\ nextSeq' = nextSeq + 1
    /\ \/ sent' = sent \cup {k} /\ air' = air \cup {Frame(nextSeq, k)}
       \/ UNCHANGED <<sent, air>>
    /\ UNCHANGED <<task, seen, handed, damaged>>

Lose(d) ==
    /\ air' = air \ {d}
    /\ UNCHANGED <<nextSeq, sent, task, seen, handed, damaged>>

Damage(d) ==
    /\ damaged < MaxDamaged /\ damaged' = damaged + 1
    /\ \E k \in Key : air' = (air \ {d}) \cup {[d EXCEPT !.key = k]}
    /\ UNCHANGED <<nextSeq, sent, task, seen, handed>>

\* A datagram that stays in the air is a repeated one.
Receive(t, d) ==
    /\ task[t].stage = "recv"
    /\ task' = [task EXCEPT ![t] = [stage |-> "decode", frame |-> {d}]]
    /\ air' \in {air, air \ {d}}
    /\ UNCHANGED <<nextSeq, sent, seen, handed, damaged>>

\* Mutant: any datagram long enough is taken.
GenuineAny(d) == d \in Datagram

\* decode_frame: the MAC covers the number and the sealed request.
Genuine(d) == d.mac = <<d.seq, d.key>>

Decode(t) ==
    /\ task[t].stage = "decode"
    /\ \E d \in task[t].frame :
          task' = [task EXCEPT ![t] = IF Genuine(d) THEN [@ EXCEPT !.stage = "insert"]
                                      ELSE Idle]
    /\ UNCHANGED <<nextSeq, sent, air, seen, handed, damaged>>

\* Mutant: the key is looked up, and registered by nobody.
InsertIfNewOnlyLooks(t) ==
    /\ task[t].stage = "insert"
    /\ \E d \in task[t].frame :
          handed' = IF d.key \in seen THEN handed ELSE [handed EXCEPT ![d.key] = @ + 1]
    /\ task' = [task EXCEPT ![t] = Idle]
    /\ UNCHANGED <<nextSeq, sent, air, seen, damaged>>

\* Under the lock: a key that is new is registered and handed to the caller.
\* Should the caller fail, no repeated notice will bring it again.
InsertIfNew(t) ==
    /\ task[t].stage = "insert"
    /\ \E d \in task[t].frame :
          /\ seen' = seen \cup {d.key}
          /\ handed' = IF d.key \in seen THEN handed ELSE [handed EXCEPT ![d.key] = @ + 1]
    /\ task' = [task EXCEPT ![t] = Idle]
    /\ UNCHANGED <<nextSeq, sent, air, damaged>>

\* The receiver starts again, and knows no key.
Restart ==
    /\ seen # {}
    /\ task' = [t \in Task |-> Idle] /\ seen' = {} /\ handed' = [k \in Key |-> 0]
    /\ UNCHANGED <<nextSeq, sent, air, damaged>>

Next ==
    \/ Restart
    \/ \E k \in Key : Send(k)
    \/ \E d \in air : Lose(d) \/ Damage(d) \/ \E t \in Task : Receive(t, d)
    \/ \E t \in Task : Decode(t) \/ InsertIfNew(t)

Spec == Init /\ [][Next]_vars

-----------------------------------------------------------------------------
TypeOK ==
    /\ nextSeq \in 0..MaxSent /\ sent \subseteq Key /\ air \subseteq Datagram
    /\ task \in [Task -> [stage : {"recv", "decode", "insert"}, frame : SUBSET Datagram]]
    /\ seen \subseteq Key /\ handed \in [Key -> Nat] /\ damaged \in 0..MaxDamaged

\* Between two restarts a key is handed out once at most, however often its
\* notice is repeated or sent anew, and whichever tasks receive them.
HandedOnce == \A k \in Key : handed[k] <= 1

\* Only what the sender sent is known: a damaged datagram never makes the true
\* one be taken for a duplicate and thrown away.
KnownWasSent == seen \subseteq sent
=============================================================================
