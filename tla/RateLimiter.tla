---------------------------- MODULE RateLimiter ----------------------------
(***************************************************************************)
(* The limiter of requests per client address (rate_limit.rs): a token     *)
(* bucket per client, under one lock. Tokens are counted in fractions of   *)
(* Unit, so that a tick of the clock brings Rate of them; the rounding of  *)
(* the code's f64 is left out.                                             *)
(*                                                                         *)
(* The reference is the sliding window: in no stretch of time are more     *)
(* requests of one client admitted than Burst and the tokens of that       *)
(* stretch pay for, and none is refused that they would pay for.           *)
(***************************************************************************)
EXTENDS Integers, FiniteSets, Sequences

CONSTANTS
    Client,         \* client addresses
    Unit,           \* one token
    Rate,           \* tokens a tick brings: RATE_LIMIT_RPS
    Burst,          \* tokens a bucket holds: RATE_LIMIT_BURST
    IdleFor,        \* ticks after which evict_idle drops a bucket
    MaxTime,        \* bound: the clock
    MaxAdmitted,    \* bound: admissions of one client
    None            \* no bucket

\* from_env: the rate is positive, and a bucket holds at least one token.
Parameters ==
    /\ Unit \in Nat \ {0} /\ Rate \in Nat \ {0}
    /\ Burst \in Nat /\ Burst >= Unit
    /\ IdleFor \in Nat /\ MaxTime \in Nat /\ MaxAdmitted \in Nat
    /\ None \notin Client \cup [tokens : Int, last : Int]

VARIABLES
    now,        \* Instant::now()
    buckets,    \* RateLimiter.buckets by client, None when absent
    admitted,   \* history: times of admissions since the client's bucket was new
    refused,    \* history: the client whose request was just refused, or None
    evicted     \* history: has a bucket been dropped that was not full?

vars == <<now, buckets, admitted, refused, evicted>>

Bucket == [tokens : Int, last : Int]
Least(a, b) == IF a < b THEN a ELSE b

Init ==
    /\ now = 0
    /\ buckets = [c \in Client |-> None]
    /\ admitted = [c \in Client |-> <<>>]
    /\ refused = None /\ evicted = FALSE

\* Mutant: the bucket has no upper edge.
RefilledForever(b) ==
    LET known == IF b = None THEN [tokens |-> Burst, last |-> now] ELSE b IN
    known.tokens + (now - known.last) * Rate

\* The tokens of a bucket now; a new one is full.
Refilled(b) ==
    LET known == IF b = None THEN [tokens |-> Burst, last |-> now] ELSE b IN
    Least(known.tokens + (now - known.last) * Rate, Burst)

\* Mutant: a refused request pays as well.
TryAcquireCharging(c) ==
    LET tokens == Refilled(buckets[c]) IN
    /\ Len(admitted[c]) < MaxAdmitted
    /\ buckets' = [buckets EXCEPT ![c] = [tokens |-> tokens - Unit, last |-> now]]
    /\ IF tokens >= Unit
       THEN admitted' = [admitted EXCEPT ![c] = Append(@, now)] /\ refused' = None
       ELSE UNCHANGED admitted /\ refused' = c
    /\ UNCHANGED <<now, evicted>>

TryAcquire(c) ==
    LET tokens == Refilled(buckets[c]) IN
    /\ Len(admitted[c]) < MaxAdmitted
    /\ IF tokens >= Unit
       THEN /\ buckets' = [buckets EXCEPT ![c] = [tokens |-> tokens - Unit, last |-> now]]
            /\ admitted' = [admitted EXCEPT ![c] = Append(@, now)]
            /\ refused' = None
       ELSE /\ buckets' = [buckets EXCEPT ![c] = [tokens |-> tokens, last |-> now]]
            /\ UNCHANGED admitted
            /\ refused' = c
    /\ UNCHANGED <<now, evicted>>

\* evict_idle drops what has not been used for IdleFor, full or not.
EvictIdle ==
    LET idle == {c \in Client : buckets[c] # None /\ now - buckets[c].last >= IdleFor} IN
    /\ idle # {}
    /\ buckets' = [c \in Client |-> IF c \in idle THEN None ELSE buckets[c]]
    /\ admitted' = [c \in Client |-> IF c \in idle /\ Refilled(buckets[c]) = Burst
                                     THEN <<>> ELSE admitted[c]]
    /\ evicted' = (evicted \/ \E c \in idle : Refilled(buckets[c]) < Burst)
    /\ refused' = None
    /\ UNCHANGED now

Tick ==
    /\ now < MaxTime
    /\ now' = now + 1
    /\ refused' = None
    /\ UNCHANGED <<buckets, admitted, evicted>>

Next == (\E c \in Client : TryAcquire(c)) \/ EvictIdle \/ Tick

Spec == Init /\ [][Next]_vars

-----------------------------------------------------------------------------

\* Every variable has its type, and a bucket is neither overdrawn nor overfull.
TypeOK ==
    /\ now \in 0..MaxTime
    /\ \A c \in Client : buckets[c] # None =>
          buckets[c].tokens \in 0..Burst /\ buckets[c].last \in 0..now
    /\ admitted \in [Client -> Seq(0..MaxTime)]
    /\ refused \in Client \cup {None} /\ evicted \in BOOLEAN

\* Admissions of c from the i-th on, with the tokens of the time until t.
Paid(c, i, t) ==
    (Len(admitted[c]) - i + 1) * Unit <= Burst + (t - admitted[c][i]) * Rate

\* In every stretch of time a client gets at most the burst and what the
\* stretch brings, unless its bucket was dropped before it was full again.
WindowBound ==
    ~evicted => \A c \in Client : \A i \in DOMAIN admitted[c] :
                    Paid(c, i, admitted[c][Len(admitted[c])])

\* A request is refused only if some stretch up to now is used up by what was
\* admitted in it.
RefusedOnlyWhenDue ==
    refused # None =>
        LET n == Len(admitted[refused]) IN
        \E i \in 1..n :
            (n - i + 2) * Unit > Burst + (now - admitted[refused][i]) * Rate
=============================================================================
