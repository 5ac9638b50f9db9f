---------------------------- MODULE RequestPath ----------------------------
(***************************************************************************)
(* The parts a request meets: Dispatch, RateLimiter, PhpServerPool and     *)
(* AccessLogger. They share no variable, so that their interleavings show  *)
(* nothing new: part names the one that moves.                             *)
(***************************************************************************)
EXTENDS Integers, Sequences, FiniteSets

CONSTANTS
    Worker,                         \* tasks that serve a request
    None,                           \* Rust's Option::None
    Char, Slash, Path, Prefix, Upstream, Loaded, MaxRequests,       \* Dispatch
    Client, Unit, Rate, Burst, IdleFor, MaxTime, MaxAdmitted,       \* RateLimiter
    DocRoot, Ports, FirstPort, MaxChildren, MaxRestarts,            \* PhpServerPool
    MaxBytes, MaxBackups, Size, MaxEntries, MaxFailures, MaxCrashes \* AccessLogger

VARIABLES part,
    redirect, tenants, vhost, request, requests,
    now, buckets, admitted, refused, evicted,
    instances, nextPort, lock, handler, root, port, alive, started, wrapped, orphaned,
    restarts,
    current, length, backup, stage, gen, size, entries, written, rotations, broken,
    failures, crashes

Routing == INSTANCE Dispatch WITH handler <- request

Limiting == INSTANCE RateLimiter

Pooling == INSTANCE PhpServerPool WITH MaxCrashes <- MaxRestarts, crashes <- restarts

Logging == INSTANCE AccessLogger

ASSUME Assumptions ==
    /\ Routing!Parameters /\ Limiting!Parameters /\ Pooling!Parameters
    /\ Logging!Parameters

dispatchVars == <<redirect, tenants, vhost, request, requests>>
limitVars == <<now, buckets, admitted, refused, evicted>>
poolVars == <<instances, nextPort, lock, handler, root, port, alive, started, wrapped,
              orphaned, restarts>>
logVars == <<current, length, backup, stage, gen, size, entries, written, rotations,
             broken, failures, crashes>>

vars == <<part, dispatchVars, limitVars, poolVars, logVars>>

Init ==
    /\ part \in {"dispatch", "limit", "pool", "log"}
    /\ Routing!Init /\ Limiting!Init /\ Pooling!Init /\ Logging!Init
    /\ part # "dispatch" => tenants = {} /\ vhost = None /\ ~redirect

Next ==
    /\ UNCHANGED part
    /\ \/ /\ part = "dispatch" /\ Routing!Next
          /\ UNCHANGED <<limitVars, poolVars, logVars>>
       \/ /\ part = "limit" /\ Limiting!Next
          /\ UNCHANGED <<dispatchVars, poolVars, logVars>>
       \/ /\ part = "pool" /\ Pooling!Next
          /\ UNCHANGED <<dispatchVars, limitVars, logVars>>
       \/ /\ part = "log" /\ Logging!Next
          /\ UNCHANGED <<dispatchVars, limitVars, poolVars>>

Spec == Init /\ [][Next]_vars

-----------------------------------------------------------------------------

\* The type invariants of the four modules.
TypeOK == Routing!TypeOK /\ Limiting!TypeOK /\ Pooling!TypeOK /\ Logging!TypeOK

\* Dispatch: no better rule that held all the time is passed over.
BestStays == Routing!BestStays

\* Dispatch: a backend carries out no request twice.
CarriedOutOnce == Routing!CarriedOutOnce

\* Dispatch: an update brings back a host only if its removal overlapped it.
ComesBackByOverlap == Routing!ComesBackByOverlap

\* RateLimiter: the sliding window bounds what is admitted and explains what is
\* refused.
WindowKept == Limiting!WindowBound /\ Limiting!RefusedOnlyWhenDue

\* PhpServerPool: an answered address is that of the document root's child, and
\* every child is registered or about to be.
ChildrenKnown == Pooling!RightRoot /\ Pooling!NoneForgotten

\* AccessLogger: a written entry stays until its backup is due to go, and the
\* backups are in order.
BackupsKept == Logging!Retained /\ Logging!InOrder
=============================================================================
