--------------------------- MODULE SecureChannel ---------------------------
(***************************************************************************)
(* One direction of SecureChannel (open-web-server-wire, replay_guard.rs): *)
(* the sender stamps every frame with a sequence number and the time, the  *)
(* receiver's ReplayGuard refuses frames outside the freshness window and  *)
(* sequence numbers it remembers. Neither side stores anything: both may   *)
(* restart with the same key.                                              *)
(*                                                                         *)
(* A frame is what its associated data binds together: its sequence number *)
(* and its time, and the sender's life it belongs to (its ciphertext and   *)
(* nonce). The network delivers a frame any number of times, in any order, *)
(* or never; what fails authentication never reaches the guard and is left *)
(* out. The clock is the wall clock, which may also be set back.           *)
(***************************************************************************)
EXTENDS Integers, FiniteSets

CONSTANTS
    Window,     \* FRESHNESS_WINDOW_SECS
    MaxTracked, \* MAX_TRACKED_SEQ
    Time,       \* bound: the wall-clock times
    MaxSeq,     \* bound: frames of one life of the sender
    MaxLife,    \* bound: restarts of the sender
    MayRestart  \* may the receiver restart?

ASSUME BoundsAssumption ==
    /\ Window \in Nat /\ MaxTracked \in Nat \ {0}
    /\ Time \subseteq Nat /\ Time # {}
    /\ MaxSeq \in Nat /\ MaxLife \in Nat /\ MayRestart \in BOOLEAN

VARIABLES
    now,        \* SystemTime, for both sides
    nextSeq,    \* SecureChannel.next_seq of the sender
    life,       \* the sender's life, counted up by its restarts
    sent,       \* the frames on the network
    seen,       \* ReplayGuard.seen of the receiver
    accepted,   \* history: frames whose payload was handed over
    repeated,   \* history: frames whose payload was handed over again
    refused,    \* history: first arrivals refused inside the window
    forgot      \* history: has the guard dropped a sequence number?

vars == <<now, nextSeq, life, sent, seen, accepted, repeated, refused, forgot>>

Frame == [life : Nat, seq : Nat, at : Time]

Init ==
    /\ now \in Time
    /\ nextSeq = 0 /\ life = 0
    /\ sent = {} /\ seen = {}
    /\ accepted = {} /\ repeated = {} /\ refused = {}
    /\ forgot = FALSE

-----------------------------------------------------------------------------

\* Mutant: the sequence number is read and not advanced.
EncryptSameSeq ==
    /\ nextSeq < MaxSeq
    /\ sent' = sent \cup {[life |-> life, seq |-> nextSeq, at |-> now]}
    /\ UNCHANGED <<now, nextSeq, life, seen, accepted, repeated, refused, forgot>>

\* encrypt stamps the frame with the next sequence number and the time.
Encrypt ==
    /\ nextSeq < MaxSeq
    /\ sent' = sent \cup {[life |-> life, seq |-> nextSeq, at |-> now]}
    /\ nextSeq' = nextSeq + 1
    /\ UNCHANGED <<now, life, seen, accepted, repeated, refused, forgot>>

\* now_secs().abs_diff(timestamp_secs) is within the window.
Fresh(f) == now - f.at <= Window /\ f.at - now <= Window

Overfull(seqs) == Cardinality(seqs) > MaxTracked

\* Mutant: a checked number is not remembered.
RecordedNothing(seq) == seen

\* The set after the insert: when it is overfull, its least number goes,
\* which may be the one that was just inserted.
Recorded(seq) ==
    LET all == seen \cup {seq} IN
    IF Overfull(all) THEN {s \in all : \E t \in all : t < s} ELSE all

\* decrypt, once the frame is authenticated: check_and_record, and the
\* payload is handed over if it passes.
Decrypt(f) ==
    /\ f \in sent
    /\ \/ /\ Fresh(f) /\ f.seq \notin seen
          /\ seen' = Recorded(f.seq)
          /\ forgot' = (forgot \/ Overfull(seen \cup {f.seq}))
          /\ accepted' = accepted \cup {f}
          /\ repeated' = repeated \cup ({f} \cap accepted)
          /\ UNCHANGED refused
       \/ /\ Fresh(f) /\ f.seq \in seen
          /\ refused' = refused \cup ({f} \ accepted)
          /\ UNCHANGED <<seen, forgot, accepted, repeated>>
    /\ UNCHANGED <<now, nextSeq, life, sent>>

\* A new SecureChannel with the same key, at the sender or at the receiver.
SenderRestart ==
    /\ life < MaxLife
    /\ life' = life + 1 /\ nextSeq' = 0
    /\ UNCHANGED <<now, sent, seen, accepted, repeated, refused, forgot>>

ReceiverRestart ==
    /\ MayRestart /\ seen # {}
    /\ seen' = {} /\ forgot' = TRUE
    /\ UNCHANGED <<now, nextSeq, life, sent, accepted, repeated, refused>>

Clock ==
    /\ \E t \in Time : now' = t
    /\ UNCHANGED <<nextSeq, life, sent, seen, accepted, repeated, refused, forgot>>

Next ==
    \/ Encrypt \/ SenderRestart \/ ReceiverRestart \/ Clock
    \/ \E f \in sent : Decrypt(f)

Spec == Init /\ [][Next]_vars

-----------------------------------------------------------------------------
(* Properties.                                                             *)

\* The numbers of the current life are below next_seq, and the receiver has
\* nothing that was not sent.
TypeOK ==
    /\ now \in Time /\ nextSeq \in Nat /\ life \in Nat
    /\ sent \subseteq Frame
    /\ \A f \in sent : f.life <= life /\ (f.life = life => f.seq < nextSeq)
    /\ seen \subseteq Nat /\ IsFiniteSet(seen)
    /\ accepted \subseteq sent /\ repeated \subseteq accepted
    /\ refused \subseteq sent
    /\ forgot \in BOOLEAN

\* ReplayGuard: as long as the receiver neither restarts nor drops a number
\* from its set, no payload is handed over twice, however often and in
\* whatever order frames arrive and whatever the clock does.
NeverTwiceUnlessForgot == repeated # {} => forgot

\* ReplayGuard: a frame that arrives late, out of order or after others were
\* dropped from the set is not taken for a duplicate; only a frame of
\* another life of the sender, with the same number, can shut it out.
FalseAlarmNeedsRestart ==
    \A f \in refused : \E g \in accepted : g.seq = f.seq /\ g.life # f.life

\* MAX_TRACKED_SEQ bounds the memory of the guard at every step.
SeenBounded == Cardinality(seen) <= MaxTracked
=============================================================================
