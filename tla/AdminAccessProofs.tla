------------------------- MODULE AdminAccessProofs -------------------------
(* Theorems about AdminAccess.tla: for any number of owners and handlers,  *)
(* every configuration, and every failure of a write and crash.            *)
EXTENDS AdminAccess, FiniteSetTheorems, SequenceTheorems, TLAPS

(***************************************************************************)
(* Types, by the parts of the state. The times of mail requests come last: *)
(* they need what Selected keeps of a sequence, and no other theorem needs *)
(* them.                                                                   *)
(***************************************************************************)

TotpTypes ==
    /\ enrollments \in [Owner -> Enrolment \cup {None}]
    /\ enrollFile \in [Owner -> Enrolment \cup {None}]
    /\ secrets \in Nat /\ accepted \subseteq Code /\ again \subseteq Code

MailTypes ==
    /\ overrides \in [Owner -> Nat] /\ challenges \in [Owner -> Challenge \cup {None}]
    /\ mails \in 0..MaxMails /\ answered \subseteq Owner \X (1..MaxMails)

LockTypes ==
    /\ failures \in [Owner -> FailureState \cup {None}]
    /\ \A o \in Owner : failures[o] # None => failures[o].failures < MaxFailed
    /\ lockEnd \in [Owner -> Nat]

RingTypes ==
    /\ records \in [Key -> KeyRecord \cup {None}]
    /\ recordsFile \in [Key -> KeyRecord \cup {None}]
    /\ usage \in [Key -> UsageState] /\ keys \in 0..MaxKeys /\ revoked \subseteq Key

BoundTypes ==
    /\ now \in Time /\ forgot \in BOOLEAN /\ ops \in 0..MaxOps

HandlerTypes ==
    /\ handler \in [Worker -> Busy \cup {Idle}]
    /\ \A w \in Worker :
          /\ handler[w].stage \in {"auth", "usage", "suspended"} => handler[w].key \in Key
          /\ handler[w].stage \in {"usage", "suspended"} => handler[w].record \in KeyRecord

Types == TotpTypes /\ MailTypes /\ LockTypes /\ RingTypes /\ BoundTypes /\ HandlerTypes

LEMMA BusyOrIdle ==
    ASSUME HandlerTypes, NEW w \in Worker, handler[w].stage # "idle"
    PROVE  handler[w] \in Busy
BY DEF HandlerTypes, Idle

\* Goto keeps the types, if verify is not entered half-way.
LEMMA GotoTypes ==
    ASSUME HandlerTypes, NEW w \in Worker, handler[w].stage # "idle",
           NEW s \in Stages, Goto(w, s), s \notin {"auth", "usage"},
           s = "suspended" => handler[w].stage = "usage"
    PROVE  HandlerTypes'
<1>1. handler[w] \in Busy
  BY BusyOrIdle
<1>2. CASE s = "idle"
  BY <1>2 DEF HandlerTypes, Goto, Idle
<1>3. CASE s # "idle"
  <2>1. handler' = [handler EXCEPT ![w] = [handler[w] EXCEPT !.stage = s]]
    BY <1>3 DEF Goto, HandlerTypes
  <2>2. [handler[w] EXCEPT !.stage = s] \in Busy
    BY <1>1, <1>3 DEF Busy
  <2> QED BY <1>1, <2>1, <2>2 DEF HandlerTypes, Busy
<1> QED BY <1>2, <1>3

LEMMA TypesInit == Init => Types
<1> SUFFICES ASSUME Init PROVE Types
  OBVIOUS
<1> USE BoundsAssumption
<1>1. TotpTypes
  <2>1. \A p \in Owner : Enrolled(p, 1) \in Enrolment
    BY DEF Enrolled, Enrolment
  <2> QED BY <2>1 DEF Init, TotpTypes
<1>2. MailTypes
  BY DEF Init, MailTypes
<1>3. LockTypes
  BY DEF Init, LockTypes
<1>4. RingTypes
  BY DEF Init, RingTypes, FreshUsage, UsageState, Key
<1>5. BoundTypes
  <2>1. forgot \in BOOLEAN
    BY DEF Init
  <2> QED BY <2>1 DEF Init, BoundTypes
<1>6. HandlerTypes
  BY DEF Init, HandlerTypes, Idle, Busy, Stages
<1> QED BY <1>1, <1>2, <1>3, <1>4, <1>5, <1>6 DEF Types

\* The requests and the critical sections, one lemma per group of them.
LEMMA StartTypes ==
    ASSUME Types, NEW w \in Worker, Start(w) PROVE Types'
<1> USE BoundsAssumption
<1>1. PICK kind \in Request, o \in Owner, k \in 0..keys, m \in 0..mails,
           right \in BOOLEAN, ip \in Address, tls \in {None} \cup BOOLEAN,
           c \in {None} \cup [secret : 1..secrets, step : (now - 1)..(now + 1)] :
        LET static == StaticAuth(TokenMode, InsecureDev, right, ip) IN
        /\ kind \notin {"login", "override", "confirm"} => c = None
        /\ kind # "login" => m = 0
        /\ kind \notin Guarded => k = 0
        /\ kind # "tls" => tls = None
        /\ handler' = [handler EXCEPT ![w] =
              IF Entry(kind, k, static, right, ip, tls) = "idle" THEN Idle
              ELSE [stage |-> Entry(kind, k, static, right, ip, tls),
                    kind |-> kind, owner |-> o, key |-> k, record |-> None,
                    mail |-> m, code |-> c, at |-> now, ok |-> FALSE,
                    static |-> kind \in Guarded /\ static,
                    late |-> <<o, m>> \in answered \/ k \in revoked]]
  BY DEF Start
<1> DEFINE static == StaticAuth(TokenMode, InsecureDev, right, ip)
           stage == Entry(kind, k, static, right, ip, tls)
           h == [stage |-> stage, kind |-> kind, owner |-> o, key |-> k,
                 record |-> None, mail |-> m, code |-> c, at |-> now, ok |-> FALSE,
                 static |-> kind \in Guarded /\ static,
                 late |-> <<o, m>> \in answered \/ k \in revoked]
<1>2. /\ stage \in {"idle", "locked", "otp", "unenroll", "act", "auth"}
      /\ stage = "auth" => k # 0
  BY DEF Entry
<1>3. k \in 0..MaxKeys /\ m \in 0..MaxMails /\ c \in Code \cup {None}
  BY DEF Types, TotpTypes, MailTypes, RingTypes, BoundTypes, Code
<1>4. h.static \in BOOLEAN /\ h.late \in BOOLEAN
  OBVIOUS
<1> HIDE DEF stage, static
<1>5. stage # "idle" => h \in Busy
  BY <1>2, <1>3, <1>4 DEF Busy, Stages, Kinds, Types, BoundTypes
<1>6. handler' = [handler EXCEPT ![w] = IF stage = "idle" THEN Idle ELSE h]
  BY <1>1 DEF stage, static
<1>7. HandlerTypes'
  <2>1. handler' \in [Worker -> Busy \cup {Idle}]
    BY <1>5, <1>6 DEF Types, HandlerTypes
  <2>2. handler'[w].stage = stage /\ (stage # "idle" => handler'[w].key = k)
    BY <1>6 DEF Types, HandlerTypes, Idle
  <2>3. \A v \in Worker : v # w => handler'[v] = handler[v]
    BY <1>6 DEF Types, HandlerTypes
  <2> QED BY <1>2, <1>3, <2>1, <2>2, <2>3 DEF Types, HandlerTypes, Key
<1>8. ops' \in 0..MaxOps
  BY DEF Start, Types, BoundTypes
<1> QED BY <1>7, <1>8
        DEF Start, Types, TotpTypes, MailTypes, LockTypes, RingTypes, BoundTypes,
            totp, mail, lock, ring, bounds

\* A code that is accepted, and the contents a file may have after a change.
LEMMA AcceptTypes ==
    ASSUME TotpTypes, NEW o \in Owner, enrollments[o] # None, NEW code \in Code,
           NEW confirm \in BOOLEAN, Accept(o, code, confirm)
    PROVE  TotpTypes'
<1>1. enrollments[o] \in Enrolment
  BY DEF TotpTypes
<1>2. [enrollments[o] EXCEPT !.last = code.step, !.confirmed = @ \/ confirm] \in Enrolment
  BY <1>1 DEF Enrolment, Code
<1>3. enrollments' \in [Owner -> Enrolment \cup {None}]
  BY <1>2 DEF Accept, TotpTypes
<1> QED BY <1>3 DEF Accept, TotpTypes, Saved

LEMMA CountedTypes ==
    ASSUME NEW f \in FailureState \cup {None}, NEW at \in Nat
    PROVE  Counted(f, at) \in FailureState /\ Counted(f, at).failures < MaxFailed
<1> USE BoundsAssumption, RecordAssumption
<1>1. CASE f = None
  BY <1>1 DEF Counted, FailureState
<1>2. CASE f # None
  BY <1>2 DEF Counted, FailureState
<1> QED BY <1>1, <1>2

LEMMA IssuedTypes ==
    ASSUME RingTypes, NEW o \in Owner, NEW e \in Nat \cup {None}, NEW a \in BOOLEAN,
           Issued(o, e, a)
    PROVE  RingTypes'
<1>1. [owner |-> o, expires |-> e, revoked |-> FALSE, admin |-> a] \in KeyRecord
  BY DEF KeyRecord
<1>2. keys + 1 \in Key /\ keys' \in 0..MaxKeys
  BY BoundsAssumption DEF Issued, RingTypes, Key
<1> QED BY <1>1, <1>2 DEF Issued, RingTypes, Saved

\* verify_login and verify_for_override.
LEMMA LoginTypes ==
    ASSUME Types, NEW w \in Worker,
           \/ CheckLocked(w) \/ MatchMail(w) \/ ConsumeTotp(w) \/ DropChallenge(w)
           \/ CountFailure(w) \/ Grant(w) \/ IssueLoginKey(w)
    PROVE  Types'
<1> USE BoundsAssumption DEF Types, Stages
<1>0. handler[w] \in Busy
  BY BusyOrIdle DEF CheckLocked, MatchMail, ConsumeTotp, DropChallenge, CountFailure,
                    Grant, IssueLoginKey
<1>1. CASE CheckLocked(w)
  <2>1. HandlerTypes'
    BY <1>1, GotoTypes DEF CheckLocked
  <2> QED BY <1>1, <2>1
       DEF CheckLocked, TotpTypes, MailTypes, LockTypes, RingTypes, BoundTypes,
           totp, mail, lock, ring, bounds
<1>2. CASE MatchMail(w)
  <2>1. HandlerTypes'
    BY <1>2, GotoTypes DEF MatchMail
  <2> QED BY <1>2, <2>1
       DEF MatchMail, TotpTypes, MailTypes, LockTypes, RingTypes, BoundTypes,
           totp, mail, lock, ring, bounds
<1>3. CASE ConsumeTotp(w)
  <2> DEFINE h == handler[w]
             e == enrollments[h.owner]
             next == IF h.kind = "login" THEN "unmail" ELSE "count"
  <2>1. CASE e # None /\ h.code # None /\ e.confirmed /\ FreshStep(e, h.code, h.at)
    <3>1. /\ Accept(h.owner, h.code, FALSE)
          /\ handler' = [handler EXCEPT ![w].stage = next, ![w].ok = TRUE]
      BY <1>3, <2>1 DEF ConsumeTotp
    <3>2. TotpTypes'
      BY <1>0, <2>1, <3>1, AcceptTypes DEF Busy
    <3>3. [h EXCEPT !.stage = next, !.ok = TRUE] \in Busy
      <4>1. next \in {"unmail", "count"}
        OBVIOUS
      <4> HIDE DEF next
      <4> QED BY <1>0, <4>1 DEF Busy
    <3>4. handler' = [handler EXCEPT ![w] = [h EXCEPT !.stage = next, !.ok = TRUE]]
      BY <3>1 DEF HandlerTypes
    <3>5. HandlerTypes'
      BY <1>0, <3>3, <3>4 DEF HandlerTypes, Busy
    <3> QED BY <1>3, <3>2, <3>5
       DEF ConsumeTotp, TotpTypes, MailTypes, LockTypes, RingTypes, BoundTypes,
           totp, mail, lock, ring, bounds
  <2>2. CASE ~(e # None /\ h.code # None /\ e.confirmed /\ FreshStep(e, h.code, h.at))
    <3>1. Goto(w, next) /\ UNCHANGED totp
      BY <1>3, <2>2 DEF ConsumeTotp
    <3>2. HandlerTypes'
      BY <1>3, <3>1, GotoTypes DEF ConsumeTotp
    <3> QED BY <1>3, <3>1, <3>2
       DEF ConsumeTotp, TotpTypes, MailTypes, LockTypes, RingTypes, BoundTypes,
           totp, mail, lock, ring, bounds
  <2> QED BY <2>1, <2>2
<1>4. CASE DropChallenge(w)
  <2>1. HandlerTypes'
    BY <1>4, GotoTypes DEF DropChallenge
  <2>2. MailTypes'
    BY <1>0, <1>4 DEF DropChallenge, MailTypes, Busy
  <2> QED BY <1>4, <2>1, <2>2
       DEF DropChallenge, TotpTypes, MailTypes, LockTypes, RingTypes, BoundTypes,
           totp, mail, lock, ring, bounds
<1>5. CASE CountFailure(w)
  <2>1. HandlerTypes'
    BY <1>5, GotoTypes DEF CountFailure
  <2>2. Counted(failures[handler[w].owner], handler[w].at) \in FailureState
        /\ Counted(failures[handler[w].owner], handler[w].at).failures < MaxFailed
    BY <1>0, CountedTypes DEF LockTypes, Busy
  <2>3. LockTypes'
    <3>1. CASE handler[w].ok
      BY <1>0, <1>5, <3>1 DEF CountFailure, LockTypes, Busy
    <3>2. CASE ~handler[w].ok
      <4>1. /\ failures' = [failures EXCEPT ![handler[w].owner] =
                               Counted(failures[handler[w].owner], handler[w].at)]
            /\ lockEnd' = [lockEnd EXCEPT ![handler[w].owner] =
                 IF failures'[handler[w].owner].failures = 0 THEN handler[w].at + Lockout
                 ELSE lockEnd[handler[w].owner]]
        BY <1>0, <1>5, <3>2 DEF CountFailure, LockTypes, Busy
      <4>2. lockEnd' \in [Owner -> Nat]
        BY <1>0, <4>1 DEF LockTypes, Busy
      <4> QED BY <1>0, <2>2, <4>1, <4>2 DEF LockTypes, Busy
    <3> QED BY <3>1, <3>2
  <2> QED BY <1>5, <2>1, <2>3
       DEF CountFailure, TotpTypes, MailTypes, LockTypes, RingTypes, BoundTypes,
           totp, mail, lock, ring, bounds
<1>6. CASE Grant(w)
  <2>1. HandlerTypes'
    BY <1>6, GotoTypes DEF Grant
  <2>2. MailTypes'
    BY <1>0, <1>6 DEF Grant, MailTypes, Busy
  <2> QED BY <1>6, <2>1, <2>2
       DEF Grant, TotpTypes, MailTypes, LockTypes, RingTypes, BoundTypes,
           totp, mail, lock, ring, bounds
<1>7. CASE IssueLoginKey(w)
  <2>1. HandlerTypes'
    BY <1>7, GotoTypes DEF IssueLoginKey
  <2>2. RingTypes'
    <3>1. handler[w].owner \in Owner /\ handler[w].at + KeyTtl \in Nat
      BY <1>0 DEF Busy
    <3>2. Issued(handler[w].owner, handler[w].at + KeyTtl, TRUE)
      BY <1>7 DEF IssueLoginKey
    <3> QED BY <3>1, <3>2, IssuedTypes
  <2> QED BY <1>7, <2>1, <2>2
       DEF IssueLoginKey, TotpTypes, MailTypes, LockTypes, RingTypes, BoundTypes,
           totp, mail, lock, ring, bounds
<1> QED BY <1>1, <1>2, <1>3, <1>4, <1>5, <1>6, <1>7

\* request_otp and reset.
LEMMA OtpTypes ==
    ASSUME Types, NEW w \in Worker,
           \/ AllowOtp(w) \/ FindChallenge(w) \/ FindAddress(w) \/ SendChallenge(w)
           \/ Unenroll(w) \/ Ungrant(w) \/ Unsend(w) \/ Unlock(w)
    PROVE  Types'
<1> USE BoundsAssumption DEF Types, Stages
<1>0. handler[w] \in Busy
  BY BusyOrIdle DEF AllowOtp, FindChallenge, FindAddress, SendChallenge, Unenroll,
                    Ungrant, Unsend, Unlock
<1>1. CASE AllowOtp(w)
  <2>1. HandlerTypes'
    BY <1>1, GotoTypes DEF AllowOtp
  <2> QED BY <1>1, <2>1
       DEF AllowOtp, TotpTypes, MailTypes, LockTypes, RingTypes, BoundTypes,
           totp, mail, lock, ring, bounds
<1>2. CASE FindChallenge(w)
  <2>1. HandlerTypes'
    BY <1>2, GotoTypes DEF FindChallenge
  <2> QED BY <1>2, <2>1
       DEF FindChallenge, TotpTypes, MailTypes, LockTypes, RingTypes, BoundTypes,
           totp, mail, lock, ring, bounds
<1>3. CASE FindAddress(w)
  <2>1. HandlerTypes'
    BY <1>3, GotoTypes DEF FindAddress
  <2> QED BY <1>3, <2>1
       DEF FindAddress, TotpTypes, MailTypes, LockTypes, RingTypes, BoundTypes,
           totp, mail, lock, ring, bounds
<1>4. CASE SendChallenge(w)
  <2>1. HandlerTypes'
    BY <1>4, GotoTypes DEF SendChallenge
  <2>2. MailTypes'
    BY <1>0, <1>4 DEF SendChallenge, MailTypes, Busy, Challenge
  <2> QED BY <1>4, <2>1, <2>2
       DEF SendChallenge, TotpTypes, MailTypes, LockTypes, RingTypes, BoundTypes,
           totp, mail, lock, ring, bounds
<1>5. CASE Unenroll(w)
  <2>1. HandlerTypes'
    BY <1>5, GotoTypes DEF Unenroll
  <2>2. TotpTypes'
    BY <1>0, <1>5 DEF Unenroll, TotpTypes, Busy, Saved, totp
  <2> QED BY <1>5, <2>1, <2>2
       DEF Unenroll, TotpTypes, MailTypes, LockTypes, RingTypes, BoundTypes,
           totp, mail, lock, ring, bounds
<1>6. CASE Ungrant(w)
  <2>1. HandlerTypes'
    BY <1>6, GotoTypes DEF Ungrant
  <2>2. MailTypes'
    BY <1>0, <1>6 DEF Ungrant, MailTypes, Busy
  <2> QED BY <1>6, <2>1, <2>2
       DEF Ungrant, TotpTypes, MailTypes, LockTypes, RingTypes, BoundTypes,
           totp, mail, lock, ring, bounds
<1>7. CASE Unsend(w)
  <2>1. HandlerTypes'
    BY <1>7, GotoTypes DEF Unsend
  <2>2. MailTypes'
    BY <1>0, <1>7 DEF Unsend, MailTypes, Busy
  <2> QED BY <1>7, <2>1, <2>2
       DEF Unsend, TotpTypes, MailTypes, LockTypes, RingTypes, BoundTypes,
           totp, mail, lock, ring, bounds
<1>8. CASE Unlock(w)
  <2>1. HandlerTypes'
    BY <1>8, GotoTypes DEF Unlock
  <2>2. LockTypes'
    BY <1>0, <1>8 DEF Unlock, LockTypes, Busy
  <2> QED BY <1>8, <2>1, <2>2
       DEF Unlock, TotpTypes, MailTypes, LockTypes, RingTypes, BoundTypes,
           totp, mail, lock, ring, bounds
<1> QED BY <1>1, <1>2, <1>3, <1>4, <1>5, <1>6, <1>7, <1>8

\* The check of a key.
LEMMA VerifyTypes ==
    ASSUME Types, NEW w \in Worker,
           VerifyRecord(w) \/ VerifyUsage(w) \/ CheckOverride(w)
    PROVE  Types'
<1> USE BoundsAssumption DEF Types, Stages
<1>0. handler[w] \in Busy
  BY BusyOrIdle DEF VerifyRecord, VerifyUsage, CheckOverride
<1> DEFINE h == handler[w]
<1>1. CASE VerifyRecord(w)
  <2> DEFINE r == records[h.key]
             expired == r # None /\ r.expires # None /\ now >= r.expires
  <2>1. h.key \in Key /\ h.stage = "auth"
    BY <1>1 DEF VerifyRecord, HandlerTypes
  <2>2. RingTypes'
    BY <1>1, <2>1 DEF VerifyRecord, RingTypes, Saved
  <2>3. HandlerTypes'
    <3>1. CASE r # None /\ ~expired /\ ~r.revoked
      <4>1. handler' = [handler EXCEPT ![w].stage = "usage", ![w].record = r, ![w].at = now]
        BY <1>1, <3>1 DEF VerifyRecord
      <4>2. handler' = [handler EXCEPT ![w] =
                          [h EXCEPT !.stage = "usage", !.record = r, !.at = now]]
        BY <4>1 DEF HandlerTypes
      <4>3. r \in KeyRecord
        BY <2>1, <3>1 DEF RingTypes
      <4>4. [h EXCEPT !.stage = "usage", !.record = r, !.at = now] \in Busy
        BY <1>0, <4>3 DEF Busy, BoundTypes
      <4> QED BY <2>1, <4>2, <4>3, <4>4 DEF HandlerTypes, Busy
    <3>2. CASE ~(r # None /\ ~expired /\ ~r.revoked)
      <4>1. Fallback(w)
        BY <1>1, <3>2 DEF VerifyRecord
      <4> QED BY <2>1, <4>1, GotoTypes DEF Fallback
    <3> QED BY <3>1, <3>2
  <2> QED BY <1>1, <2>2, <2>3
       DEF VerifyRecord, TotpTypes, MailTypes, LockTypes, RingTypes, BoundTypes,
           totp, mail, lock, ring, bounds
<1>2. CASE VerifyUsage(w)
  <2>1. h.key \in Key /\ h.stage = "usage"
    BY <1>2 DEF VerifyUsage, HandlerTypes
  <2>2. usage' \in [Key -> UsageState]
    BY <1>0, <1>2, <2>1 DEF VerifyUsage, RingTypes, UsageState, Busy
  <2>3. ASSUME Goto(w, "suspended") PROVE HandlerTypes'
    BY <2>1, <2>3, GotoTypes
  <2>4. ASSUME Fallback(w) PROVE HandlerTypes'
    BY <2>1, <2>4, GotoTypes DEF Fallback
  <2>5. ASSUME handler' = [handler EXCEPT ![w].stage = "act", ![w].ok = TRUE]
        PROVE HandlerTypes'
    <3>1. handler' = [handler EXCEPT ![w] = [h EXCEPT !.stage = "act", !.ok = TRUE]]
      BY <2>5 DEF HandlerTypes
    <3>2. [h EXCEPT !.stage = "act", !.ok = TRUE] \in Busy
      BY <1>0 DEF Busy
    <3> QED BY <3>1, <3>2 DEF HandlerTypes, Busy
  <2>6. HandlerTypes'
    BY <1>2, <2>3, <2>4, <2>5 DEF VerifyUsage
  <2> QED BY <1>2, <2>2, <2>6
       DEF VerifyUsage, TotpTypes, MailTypes, LockTypes, RingTypes, BoundTypes,
           totp, mail, lock, ring, bounds
<1>3. CASE CheckOverride(w)
  <2>1. ASSUME handler' = [handler EXCEPT ![w].stage = "act", ![w].ok = TRUE]
        PROVE HandlerTypes'
    <3>1. handler' = [handler EXCEPT ![w] = [h EXCEPT !.stage = "act", !.ok = TRUE]]
      BY <2>1 DEF HandlerTypes
    <3>2. [h EXCEPT !.stage = "act", !.ok = TRUE] \in Busy
      BY <1>0 DEF Busy
    <3> QED BY <3>1, <3>2 DEF HandlerTypes, Busy
  <2>2. HandlerTypes'
    BY <1>3, <2>1, GotoTypes DEF CheckOverride
  <2> QED BY <1>3, <2>2
       DEF CheckOverride, TotpTypes, MailTypes, LockTypes, RingTypes, BoundTypes,
           totp, mail, lock, ring, bounds
<1> QED BY <1>1, <1>2, <1>3

\* The handlers that act once they are let in.
LEMMA ActTypes ==
    ASSUME Types, NEW w \in Worker,
           Enroll(w) \/ Confirm(w) \/ IssueKey(w) \/ Revoke(w) \/ Status(w)
    PROVE  Types'
<1> USE BoundsAssumption DEF Types, Stages
<1>0. handler[w] \in Busy
  BY BusyOrIdle DEF Enroll, Confirm, IssueKey, Revoke, Status
<1> DEFINE h == handler[w]
<1>1. CASE Enroll(w)
  <2>1. HandlerTypes'
    BY <1>1, GotoTypes DEF Enroll
  <2>2. [secret |-> secrets + 1, confirmed |-> FALSE, last |-> -1] \in Enrolment
    BY DEF TotpTypes, Enrolment
  <2>3. TotpTypes'
    BY <1>0, <1>1, <2>2 DEF Enroll, TotpTypes, Saved, totp, Busy
  <2> QED BY <1>1, <2>1, <2>3
       DEF Enroll, TotpTypes, MailTypes, LockTypes, RingTypes, BoundTypes,
           totp, mail, lock, ring, bounds
<1>2. CASE Confirm(w)
  <2>1. HandlerTypes'
    BY <1>2, GotoTypes DEF Confirm
  <2>2. TotpTypes'
    <3>1. CASE UNCHANGED totp
      BY <3>1 DEF TotpTypes, totp
    <3>2. CASE /\ enrollments[h.owner] # None /\ h.code # None
               /\ Accept(h.owner, h.code, TRUE)
      BY <1>0, <3>2, AcceptTypes DEF Busy
    <3> QED BY <1>2, <3>1, <3>2 DEF Confirm
  <2> QED BY <1>2, <2>1, <2>2
       DEF Confirm, TotpTypes, MailTypes, LockTypes, RingTypes, BoundTypes,
           totp, mail, lock, ring, bounds
<1>3. CASE IssueKey(w)
  <2>1. HandlerTypes'
    BY <1>3, GotoTypes DEF IssueKey
  <2>2. RingTypes'
    <3>1. PICK e \in {None, now + KeyTtl}, a \in BOOLEAN : Issued(h.owner, e, a)
      BY <1>3 DEF IssueKey
    <3>2. e \in Nat \cup {None} /\ h.owner \in Owner
      BY <1>0 DEF BoundTypes, Busy
    <3> QED BY <3>1, <3>2, IssuedTypes
  <2> QED BY <1>3, <2>1, <2>2
       DEF IssueKey, TotpTypes, MailTypes, LockTypes, RingTypes, BoundTypes,
           totp, mail, lock, ring, bounds
<1>4. CASE Revoke(w)
  <2>1. HandlerTypes'
    BY <1>4, GotoTypes DEF Revoke
  <2>2. \A k \in Key : records[k] # None =>
           [records[k] EXCEPT !.revoked = TRUE] \in KeyRecord
    BY DEF RingTypes, KeyRecord
  <2>3. records' \in [Key -> KeyRecord \cup {None}]
    BY SMTT(30), <1>4, <2>2 DEF Revoke, Revokes, RingTypes
  <2>4. revoked' \subseteq Key
    BY <1>4 DEF Revoke, RingTypes, Key
  <2> QED BY <1>4, <2>1, <2>3, <2>4 
       DEF Revoke, Saved, TotpTypes, MailTypes, LockTypes, RingTypes, BoundTypes,
           totp, mail, lock, ring, bounds
<1>5. CASE Status(w)
  <2>1. HandlerTypes'
    BY <1>5, GotoTypes DEF Status
  <2> QED BY <1>5, <2>1
       DEF Status, TotpTypes, MailTypes, LockTypes, RingTypes, BoundTypes,
           totp, mail, lock, ring, bounds
<1> QED BY <1>1, <1>2, <1>3, <1>4, <1>5

LEMMA TypesStep == Types /\ [Next]_vars => Types'
<1> SUFFICES ASSUME Types, [Next]_vars PROVE Types'
  OBVIOUS
<1> USE BoundsAssumption
<1>1. ASSUME NEW w \in Worker, Start(w) \/ Step(w) PROVE Types'
  BY <1>1, StartTypes, LoginTypes, OtpTypes, VerifyTypes, ActTypes DEF Step
<1>2. CASE Crowd \/ CrowdRequests
  <2>1. LockTypes'
    BY <1>2 DEF Crowd, CrowdRequests, lock, Types, LockTypes
  <2>2. /\ UNCHANGED <<totp, overrides, challenges, mails, answered>>
        /\ UNCHANGED <<ring, handler, bounds>>
    BY <1>2 DEF Crowd, CrowdRequests, mail
  <2> QED BY <2>1, <2>2 
       DEF Types, HandlerTypes, TotpTypes, MailTypes, RingTypes, BoundTypes,
                            totp, ring, bounds
<1>3. CASE Crash
  <2>1. forgot' \in BOOLEAN
    BY <1>3 DEF Crash, Types, BoundTypes
  <2>2. usage' \in [Key -> UsageState]
    BY <1>3 DEF Crash, FreshUsage, UsageState
  <2>3. HandlerTypes'
    BY <1>3 DEF Crash, HandlerTypes, Idle
  <2> QED BY <1>3, <2>1, <2>2, <2>3
          DEF Crash, Types, TotpTypes, MailTypes, LockTypes, RingTypes, BoundTypes,
          totp, mail, lock, ring, bounds
<1>4. CASE Clock
  <2>1. now' \in Time
    BY <1>4 DEF Clock
  <2> QED BY <1>4, <2>1 DEF Clock, Types, HandlerTypes, TotpTypes, MailTypes, LockTypes, RingTypes, BoundTypes,
          totp, mail, lock, ring, bounds
<1>5. CASE UNCHANGED vars
  BY <1>5 DEF vars, Types, HandlerTypes, TotpTypes, MailTypes, LockTypes, RingTypes, BoundTypes,
          totp, mail, lock, ring, bounds
<1> QED BY <1>1, <1>2, <1>3, <1>4, <1>5 DEF Next

(***************************************************************************)
(* The times of mail requests. What Selected keeps is defined by recursion *)
(* over a sequence, so that its type follows by induction over the length. *)
(***************************************************************************)

\* Finite sets are well-founded by inclusion, so that a set of numbers has a least one:
\* of the intervals up to its members one includes no other.
LEMMA Least ==
    ASSUME NEW T \in SUBSET Nat, T # {}
    PROVE  \E n \in T : \A m \in T : n <= m
<1> DEFINE Below == {1..n : n \in T}
           R == StrictSubsetOrdering(Nat)
<1>1. \A n \in T : 1..n \in FiniteSubsetsOf(Nat)
  BY FS_Interval DEF FiniteSubsetsOf
<1>2. PICK s \in Below : \A t \in Below : ~(<<t, s>> \in R)
  <2>1. Below \subseteq FiniteSubsetsOf(Nat) /\ Below # {}
    BY <1>1
  <2>2. IsWellFoundedOn(R, FiniteSubsetsOf(Nat))
    BY FS_StrictSubsetOrderingWellFounded
  <2> HIDE DEF Below, R
  <2> QED BY <2>1, <2>2, WFMin
<1>3. PICK n \in T : s = 1..n
  BY <1>2
<1>4. ASSUME NEW m \in T, ~(n <= m) PROVE FALSE
  <2>1. 1..m \subseteq 1..n /\ 1..m # 1..n
    <3>1. n \in 1..n /\ n \notin 1..m
      BY <1>4
    <3> QED BY <3>1, <1>4
  <2>2. <<1..m, s>> \in R
    BY <2>1, <1>3 DEF StrictSubsetOrdering
  <2> QED BY <1>2, <2>2
<1> QED BY <1>4

\* Induction over the numbers, as a set that holds them all.
LEMMA Induction ==
    ASSUME NEW S \in SUBSET Nat, 0 \in S, \A n \in S : n + 1 \in S
    PROVE  S = Nat
<1> SUFFICES ASSUME S # Nat PROVE FALSE
  OBVIOUS
<1>1. PICK n \in Nat \ S : \A m \in Nat \ S : n <= m
  BY Least
<1> QED BY <1>1

\* What is selected of the first n elements, if f says so for those before.
UptoBody(f, s, K, n) ==
    IF n = 0 THEN <<>> ELSE IF n \in K THEN Append(f[n - 1], s[n]) ELSE f[n - 1]

\* The recursive function of Selected exists.
LEMMA UptoExists ==
    ASSUME NEW s, NEW K
    PROVE  \A m \in Nat : \E f : f = [n \in 0..m |-> UptoBody(f, s, K, n)]
<1> DEFINE S == {m \in Nat : \E f : f = [n \in 0..m |-> UptoBody(f, s, K, n)]}
<1>1. 0 \in S
  <2> DEFINE f == [n \in 0..0 |-> <<>>]
  <2>1. f = [n \in 0..0 |-> UptoBody(f, s, K, n)]
    BY DEF UptoBody
  <2> QED BY <2>1
<1>2. ASSUME NEW m \in S PROVE m + 1 \in S
  <2>1. PICK f : f = [n \in 0..m |-> UptoBody(f, s, K, n)]
    OBVIOUS
  <2> DEFINE g == [n \in 0..(m + 1) |-> UptoBody(f, s, K, n)]
  <2>2. \A k \in 0..m : g[k] = f[k]
    <3> DEFINE h == [n \in 0..m |-> UptoBody(f, s, K, n)]
    <3>1. \A k \in 0..m : g[k] = h[k]
      OBVIOUS
    <3>2. h = f
      BY <2>1, Zenon
    <3> QED BY <3>1, <3>2, Zenon
  <2>3. \A n \in 0..(m + 1) : UptoBody(f, s, K, n) = UptoBody(g, s, K, n)
    <3> HIDE DEF g
    <3> QED BY <2>2 DEF UptoBody
  <2>4. g = [n \in 0..(m + 1) |-> UptoBody(g, s, K, n)]
    <3>1. g = [n \in 0..(m + 1) |-> UptoBody(f, s, K, n)]
      OBVIOUS
    <3> HIDE DEF g
    <3> QED BY <2>3, <3>1
  <2>5. m + 1 \in Nat
    OBVIOUS
  <2> QED BY <2>4, <2>5, Zenon
<1>3. S = Nat
  <2>1. S \in SUBSET Nat
    OBVIOUS
  <2> HIDE DEF S
  <2> QED BY <1>1, <1>2, <2>1, Induction
<1> QED BY <1>3, Zenon

\* Selected is what it says.
LEMMA SelectedDef ==
    ASSUME NEW s, NEW K, Len(s) \in Nat
    PROVE  \E f : /\ f = [n \in 0..Len(s) |-> UptoBody(f, s, K, n)]
                  /\ Selected(s, K) = f[Len(s)]
<1> DEFINE upto == CHOOSE f : f = [n \in 0..Len(s) |-> UptoBody(f, s, K, n)]
<1>1. upto = [n \in 0..Len(s) |-> UptoBody(upto, s, K, n)]
  <2>1. \A m \in Nat : \E f : f = [n \in 0..m |-> UptoBody(f, s, K, n)]
    BY UptoExists
  <2>2. \E f : f = [n \in 0..Len(s) |-> UptoBody(f, s, K, n)]
    BY <2>1, Zenon
  <2> QED BY <2>2, Zenon
<1>2. Selected(s, K) = upto[Len(s)]
  BY DEF Selected, UptoBody
<1> HIDE DEF upto
<1> QED BY <1>1, <1>2

\* What is kept is a sequence of the same elements and no longer.
LEMMA SelectedTypes ==
    ASSUME NEW S, NEW s \in Seq(S), NEW K
    PROVE  Selected(s, K) \in Seq(S) /\ Len(Selected(s, K)) <= Len(s)
<1>1. Len(s) \in Nat
  OBVIOUS
<1>2. PICK f : /\ f = [n \in 0..Len(s) |-> UptoBody(f, s, K, n)]
               /\ Selected(s, K) = f[Len(s)]
  BY <1>1, SelectedDef
<1>3. \A n \in 0..Len(s) : f[n] = UptoBody(f, s, K, n)
  <2> DEFINE h == [n \in 0..Len(s) |-> UptoBody(f, s, K, n)]
  <2>1. \A n \in 0..Len(s) : h[n] = UptoBody(f, s, K, n)
    OBVIOUS
  <2>2. h = f
    BY <1>2, Zenon
  <2> QED BY <2>1, <2>2, Zenon
<1> DEFINE N == {n \in Nat : n <= Len(s) => f[n] \in Seq(S) /\ Len(f[n]) <= n}
<1>4. 0 \in N
  <2>1. f[0] = <<>>
    BY <1>1, <1>3 DEF UptoBody
  <2>2. f[0] \in Seq(S) /\ Len(f[0]) = 0
    BY <2>1
  <2> QED BY <2>2
<1>5. ASSUME NEW n \in N PROVE n + 1 \in N
  <2>1. SUFFICES ASSUME n + 1 <= Len(s) PROVE f[n + 1] \in Seq(S) /\ Len(f[n + 1]) <= n + 1
    OBVIOUS
  <2>2. n + 1 \in 0..Len(s) /\ s[n + 1] \in S /\ n + 1 # 0 /\ (n + 1) - 1 = n
    BY <1>1, <2>1
  <2>3. f[n] \in Seq(S) /\ Len(f[n]) <= n /\ Len(f[n]) \in Nat
    BY <1>1, <2>1
  <2>4. f[n + 1] = Append(f[n], s[n + 1]) \/ f[n + 1] = f[n]
    BY <1>3, <2>2 DEF UptoBody
  <2>5. Append(f[n], s[n + 1]) \in Seq(S) /\ Len(Append(f[n], s[n + 1])) = Len(f[n]) + 1
    BY <2>2, <2>3
  <2>6. Len(f[n]) <= n + 1 /\ Len(f[n]) + 1 <= n + 1
    BY <2>3
  <2> HIDE DEF N
  <2>7. CASE f[n + 1] = Append(f[n], s[n + 1])
    BY <2>5, <2>6, <2>7
  <2>8. CASE f[n + 1] = f[n]
    BY <2>3, <2>6, <2>8
  <2> QED BY <2>4, <2>7, <2>8
<1>6. N = Nat
  <2>1. N \in SUBSET Nat
    OBVIOUS
  <2> HIDE DEF N
  <2> QED BY <1>4, <1>5, <2>1, Induction
<1> QED BY <1>1, <1>2, <1>6

RequestTypes ==
    /\ otpRequests \in [Owner -> Seq(Nat)]
    /\ \A o \in Owner : Len(otpRequests[o]) <= OtpLimit

LEMMA RequestTypesInit == Init => RequestTypes
<1>1. <<>> \in Seq(Nat) /\ Len(<<>>) <= OtpLimit
  BY BoundsAssumption
<1> QED BY <1>1 DEF Init, RequestTypes

LEMMA RequestTypesStep == Types /\ RequestTypes /\ [Next]_vars => RequestTypes'
<1> SUFFICES ASSUME Types, RequestTypes, [Next]_vars PROVE RequestTypes'
  OBVIOUS
<1>1. ASSUME NEW w \in Worker, AllowOtp(w) PROVE RequestTypes'
  <2> DEFINE h == handler[w]
             old == otpRequests[h.owner]
             kept == Within(old, h.at)
  <2>1. h.owner \in Owner /\ h.at \in Nat
    BY <1>1, BusyOrIdle DEF AllowOtp, Types, Busy
  <2>2. old \in Seq(Nat) /\ Len(old) <= OtpLimit
    BY <2>1 DEF RequestTypes
  <2>3. kept \in Seq(Nat) /\ Len(kept) <= Len(old)
    BY <2>2, SelectedTypes DEF Within
  <2>4. PICK new : /\ new = (IF Len(kept) < OtpLimit THEN Append(kept, h.at) ELSE kept)
                   /\ otpRequests' = [otpRequests EXCEPT ![h.owner] = new]
    BY <1>1 DEF AllowOtp
  <2> HIDE DEF kept
  <2>5. new \in Seq(Nat) /\ Len(new) <= OtpLimit
    BY <2>1, <2>2, <2>3, <2>4, BoundsAssumption
  <2> QED BY <2>1, <2>4, <2>5 DEF RequestTypes
<1>2. CASE UNCHANGED otpRequests
  BY <1>2 DEF RequestTypes
<1>3. CASE CrowdRequests \/ Crash
  <2>1. otpRequests' = [o \in Owner |-> <<>>]
    BY <1>3 DEF CrowdRequests, Crash
  <2>2. <<>> \in Seq(Nat) /\ Len(<<>>) <= OtpLimit
    BY BoundsAssumption
  <2> QED BY <2>1, <2>2 DEF RequestTypes
<1>4. ASSUME NEW w \in Worker, Step(w) PROVE UNCHANGED otpRequests \/ AllowOtp(w)
  BY <1>4 DEF Step, CheckLocked, MatchMail, ConsumeTotp, DropChallenge, CountFailure,
       Grant, IssueLoginKey, FindChallenge, FindAddress, SendChallenge, Unenroll,
       Ungrant, Unsend, Unlock, VerifyRecord, VerifyUsage, CheckOverride, Enroll,
       Confirm, IssueKey, Revoke, Status, mail
<1>5. ASSUME NEW w \in Worker, Start(w) PROVE UNCHANGED otpRequests
  BY <1>5 DEF Start, mail
<1>6. Crowd \/ Clock \/ UNCHANGED vars => UNCHANGED otpRequests
  BY DEF Crowd, Clock, vars, mail
<1> QED BY <1>1, <1>2, <1>3, <1>4, <1>5, <1>6 DEF Next

\* Every variable keeps its type: a failure counter stays below MAX_FAILED_ATTEMPTS, and
\* of one owner no more requests for a mail are remembered than OTP_REQUEST_LIMIT.
THEOREM TypeCorrect == Spec => []TypeOK
<1>1. Types /\ RequestTypes => TypeOK
  BY DEF Types, TotpTypes, MailTypes, LockTypes, RingTypes, BoundTypes, HandlerTypes,
         RequestTypes, TypeOK
<1> QED BY <1>1, TypesInit, TypesStep, RequestTypesInit, RequestTypesStep, PTL DEF Spec

(***************************************************************************)
(* TOTP codes. A secret belongs to one owner and was generated; a code     *)
(* that was accepted is not after the last step of the enrolment with its  *)
(* secret, so that it is not fresh again. Only a restart that lost the     *)
(* step breaks this.                                                       *)
(***************************************************************************)

CodeInv ==
    ~forgot =>
      /\ again = {}
      /\ \A o \in Owner : enrollments[o] # None => enrollments[o].secret <= secrets
      /\ \A o, p \in Owner :
            /\ enrollments[o] # None /\ enrollments[p] # None
            /\ enrollments[o].secret = enrollments[p].secret
            => o = p
      /\ \A c \in accepted :
            /\ c.secret <= secrets
            /\ \A o \in Owner :
                  enrollments[o] # None /\ enrollments[o].secret = c.secret
                    => c.step <= enrollments[o].last

LEMMA AcceptKeeps ==
    ASSUME Types, CodeInv, NEW o \in Owner, enrollments[o] # None, NEW code \in Code,
           NEW at \in Int, FreshStep(enrollments[o], code, at), NEW confirm \in BOOLEAN,
           Accept(o, code, confirm), forgot' = forgot
    PROVE  CodeInv'
<1> SUFFICES ASSUME ~forgot PROVE CodeInv'
  BY DEF CodeInv
<1> DEFINE e == enrollments[o]
<1>1. e \in Enrolment /\ code.secret = e.secret /\ code.step > e.last
  BY DEF Types, TotpTypes, FreshStep
<1>2. /\ enrollments'[o] # None /\ enrollments'[o].secret = e.secret
      /\ enrollments'[o].last = code.step
      /\ \A p \in Owner : p # o => enrollments'[p] = enrollments[p]
      /\ secrets' = secrets
  <2>1. enrollments' = [enrollments EXCEPT ![o] =
                          [e EXCEPT !.last = code.step, !.confirmed = @ \/ confirm]]
    BY DEF Accept, Types, TotpTypes
  <2>2. [e EXCEPT !.last = code.step, !.confirmed = @ \/ confirm] \in Enrolment
    BY <1>1 DEF Enrolment, Code
  <2> QED BY <1>1, <2>1, <2>2, RecordAssumption DEF Accept, Types, TotpTypes, Enrolment
<1>3. code \notin accepted
  BY <1>1 DEF CodeInv, Types, TotpTypes, Enrolment, Code
<1>4. again' = {}
  BY <1>3 DEF Accept, CodeInv
<1>5. \A p \in Owner : /\ (enrollments'[p] # None) <=> (enrollments[p] # None)
                       /\ enrollments[p] # None => enrollments'[p].secret = enrollments[p].secret
  BY <1>2
<1>6. ASSUME NEW c \in accepted' PROVE
        /\ c.secret <= secrets'
        /\ \A p \in Owner : enrollments'[p] # None /\ enrollments'[p].secret = c.secret
                              => c.step <= enrollments'[p].last
  <2>1. CASE c = code
    BY <1>1, <1>2, <1>5, <2>1 DEF CodeInv, Code, Types, TotpTypes
  <2>2. CASE c \in accepted
    <3>1. c \in Code /\ c.secret <= secrets
      BY <2>2 DEF CodeInv, Types, TotpTypes
    <3>2. ASSUME NEW p \in Owner, enrollments'[p] # None, enrollments'[p].secret = c.secret
          PROVE  c.step <= enrollments'[p].last
      <4>1. enrollments[p] # None /\ enrollments[p].secret = c.secret
        BY <1>5, <3>2
      <4>2. c.step <= enrollments[p].last
        BY <2>2, <4>1 DEF CodeInv
      <4> QED BY <1>1, <1>2, <3>1, <4>2 DEF Enrolment, Code
    <3> QED BY <1>2, <3>1, <3>2
  <2> QED BY <2>1, <2>2 DEF Accept
<1> QED BY <1>2, <1>4, <1>5, <1>6 DEF CodeInv

\* What changes enrolments or codes.
LEMMA TotpChanges ==
    ASSUME [Next]_vars
    PROVE  \/ UNCHANGED <<totp, forgot>>
           \/ \E w \in Worker : ConsumeTotp(w) \/ Confirm(w) \/ Enroll(w) \/ Unenroll(w)
           \/ Crash
<1>1. ASSUME NEW w \in Worker, Step(w)
      PROVE  \/ UNCHANGED <<totp, forgot>>
             \/ ConsumeTotp(w) \/ Confirm(w) \/ Enroll(w) \/ Unenroll(w)
  BY <1>1 DEF Step, CheckLocked, MatchMail, DropChallenge, CountFailure, Grant,
              IssueLoginKey, AllowOtp, FindChallenge, FindAddress, SendChallenge, Ungrant,
              Unsend, Unlock, VerifyRecord, VerifyUsage, CheckOverride, IssueKey, Revoke,
              Status, bounds
<1>2. ASSUME NEW w \in Worker, Start(w) PROVE UNCHANGED <<totp, forgot>>
  BY <1>2 DEF Start
<1>3. Crowd \/ CrowdRequests \/ Clock \/ UNCHANGED vars => UNCHANGED <<totp, forgot>>
  BY DEF Crowd, CrowdRequests, Clock, vars, bounds
<1> QED BY <1>1, <1>2, <1>3 DEF Next

LEMMA CodeInvStep == Types /\ CodeInv /\ [Next]_vars => CodeInv'
<1> SUFFICES ASSUME Types, CodeInv, [Next]_vars PROVE CodeInv'
  OBVIOUS
<1>1. CASE UNCHANGED <<totp, forgot>>
  BY <1>1 DEF totp, CodeInv
<1>2. ASSUME NEW w \in Worker, ConsumeTotp(w) PROVE CodeInv'
  <2> DEFINE h == handler[w]
             e == enrollments[h.owner]
  <2>1. h \in Busy /\ forgot' = forgot
    BY <1>2, BusyOrIdle DEF ConsumeTotp, Types, bounds
  <2>2. CASE e # None /\ h.code # None /\ e.confirmed /\ FreshStep(e, h.code, h.at)
    <3>1. Accept(h.owner, h.code, FALSE)
      BY <1>2, <2>2 DEF ConsumeTotp
    <3>2. h.owner \in Owner /\ h.code \in Code /\ h.at \in Int
      BY <2>1, <2>2 DEF Busy
    <3> QED BY <2>1, <2>2, <3>1, <3>2, AcceptKeeps
  <2>3. CASE ~(e # None /\ h.code # None /\ e.confirmed /\ FreshStep(e, h.code, h.at))
    BY <1>2, <2>1, <2>3 DEF ConsumeTotp, totp, CodeInv
  <2> QED BY <2>2, <2>3
<1>3. ASSUME NEW w \in Worker, Confirm(w) PROVE CodeInv'
  <2> DEFINE h == handler[w]
             e == enrollments[h.owner]
  <2>1. h \in Busy /\ forgot' = forgot
    BY <1>3, BusyOrIdle DEF Confirm, Types, bounds
  <2>2. CASE e # None /\ h.code # None /\ FreshStep(e, h.code, now)
    <3>1. Accept(h.owner, h.code, TRUE)
      BY <1>3, <2>2 DEF Confirm
    <3>2. h.owner \in Owner /\ h.code \in Code /\ now \in Int
      BY <2>1, <2>2, BoundsAssumption DEF Busy, Types, BoundTypes
    <3> QED BY <2>1, <2>2, <3>1, <3>2, AcceptKeeps
  <2>3. CASE ~(e # None /\ h.code # None /\ FreshStep(e, h.code, now))
    BY <1>3, <2>1, <2>3 DEF Confirm, totp, CodeInv
  <2> QED BY <2>2, <2>3
<1>4. ASSUME NEW w \in Worker, Enroll(w) PROVE CodeInv'
  <2> DEFINE o == handler[w].owner
             e == [secret |-> secrets + 1, confirmed |-> FALSE, last |-> -1]
  <2>1. o \in Owner /\ forgot' = forgot
    BY <1>4, BusyOrIdle DEF Enroll, Types, bounds, Busy
  <2>2. CASE UNCHANGED totp
    BY <2>1, <2>2 DEF totp, CodeInv
  <2>3. CASE /\ enrollments' = [enrollments EXCEPT ![o] = e]
             /\ secrets' = secrets + 1 /\ UNCHANGED <<accepted, again>>
    <3>1. \A p \in Owner : enrollments'[p] = IF p = o THEN e ELSE enrollments[p]
      BY <2>1, <2>3 DEF Types, TotpTypes
    <3>2. \A p \in Owner : enrollments[p] # None => enrollments[p] \in Enrolment
      BY DEF Types, TotpTypes
    <3>3. secrets \in Nat /\ accepted \subseteq Code
      BY DEF Types, TotpTypes
    <3> QED BY <2>1, <2>3, <3>1, <3>2, <3>3 DEF CodeInv, Enrolment, Code
  <2> QED BY <1>4, <2>2, <2>3 DEF Enroll
<1>5. ASSUME NEW w \in Worker, Unenroll(w) PROVE CodeInv'
  <2>1. handler[w].owner \in Owner /\ forgot' = forgot
    BY <1>5, BusyOrIdle DEF Unenroll, Types, bounds, Busy
  <2>2. \A p \in Owner : enrollments'[p] \in {None, enrollments[p]}
    BY <1>5, <2>1 DEF Unenroll, Types, TotpTypes
  <2> QED BY <1>5, <2>1, <2>2 DEF Unenroll, CodeInv
<1>6. CASE Crash
  BY <1>6 DEF Crash, CodeInv
<1> QED BY <1>1, <1>2, <1>3, <1>4, <1>5, <1>6, TotpChanges

\* A TOTP code is accepted once, whatever handlers, clocks and crashes do, as
\* long as no restart lost the step it used up.
THEOREM CodesAreUsedUp == Spec => []CodeOnce
<1>1. Init => CodeInv
  BY DEF Init, CodeInv, Enrolled
<1>2. CodeInv => CodeOnce
  BY DEF CodeInv, CodeOnce
<1> QED BY <1>1, <1>2, TypesInit, TypesStep, CodeInvStep, PTL DEF Spec

(***************************************************************************)
(* Mail codes, keys and locks. What a handler carries relates to the rest  *)
(* only through state that grows: the clock, the codes sent, the codes     *)
(* answered, the keys revoked, and whether a change was lost. So a handler *)
(* that does not move keeps what is said of it.                            *)
(***************************************************************************)

HandlerInv(h) ==
    h.stage # "idle" =>
      /\ h.mail <= mails /\ h.at <= now
      /\ h.stage \in {"locked", "totp", "unmail", "count"} => h.kind \in {"login", "override"}
      /\ h.stage \in {"mail", "issue"} => h.kind = "login"
      /\ h.stage = "issue" => h.ok
      /\ h.stage \in {"auth", "usage", "suspended"} => h.kind \in Guarded
      /\ h.kind = "login" /\ h.late => <<h.owner, h.mail>> \in answered
      /\ h.kind = "login" /\ (h.stage = "totp" \/ h.ok) => ~h.late
      /\ h.kind \in Guarded /\ h.late => h.key \in revoked
      /\ h.kind \in Guarded /\ (h.stage \in {"usage", "suspended"} \/ h.ok) /\ h.late
            => forgot

MailInv ==
    /\ \A o \in Owner : challenges[o] # None =>
          challenges[o].code <= mails /\ <<o, challenges[o].code>> \notin answered
    /\ \A o \in Owner, m \in 1..MaxMails : <<o, m>> \in answered => m <= mails

RingInv ==
    /\ revoked \subseteq 1..keys
    /\ ~forgot => \A k \in revoked : records[k] = None \/ records[k].revoked

LockInv ==
    \A o \in Owner :
        lockEnd[o] > now => failures[o] # None /\ failures[o].until = lockEnd[o]

AccessInv ==
    /\ MailInv /\ RingInv /\ LockInv
    /\ \A w \in Worker : HandlerInv(handler[w])

Grows ==
    /\ mails <= mails' /\ now <= now' /\ answered \subseteq answered'
    /\ revoked \subseteq revoked' /\ (forgot => forgot')

LEMMA StepGrows == Types /\ [Next]_vars => Grows
<1> SUFFICES ASSUME Types, [Next]_vars PROVE Grows
  OBVIOUS
<1>0. mails \in Nat /\ now \in Nat /\ forgot \in BOOLEAN
  BY BoundsAssumption DEF Types, MailTypes, BoundTypes
<1>1. ASSUME NEW w \in Worker, Step(w) PROVE Grows
  <2>1. UNCHANGED <<now, forgot>>
    BY <1>1 DEF Step, CheckLocked, MatchMail, ConsumeTotp, DropChallenge, CountFailure,
         Grant, IssueLoginKey, AllowOtp, FindChallenge, FindAddress, SendChallenge,
         Unenroll, Ungrant, Unsend, Unlock, VerifyRecord, VerifyUsage, CheckOverride,
         Enroll, Confirm, IssueKey, Revoke, Status, bounds
  <2>2. answered \subseteq answered' /\ mails' \in {mails, mails + 1}
    BY <1>1 DEF Step, CheckLocked, MatchMail, ConsumeTotp, DropChallenge, CountFailure,
         Grant, IssueLoginKey, AllowOtp, FindChallenge, FindAddress, SendChallenge,
         Unenroll, Ungrant, Unsend, Unlock, VerifyRecord, VerifyUsage, CheckOverride,
         Enroll, Confirm, IssueKey, Revoke, Status, mail
  <2>3. revoked \subseteq revoked'
    BY <1>1 DEF Step, CheckLocked, MatchMail, ConsumeTotp, DropChallenge, CountFailure,
         Grant, IssueLoginKey, AllowOtp, FindChallenge, FindAddress, SendChallenge,
         Unenroll, Ungrant, Unsend, Unlock, VerifyRecord, VerifyUsage, CheckOverride,
         Enroll, Confirm, IssueKey, Revoke, Status, ring, Issued
  <2> QED BY <1>0, <2>1, <2>2, <2>3 DEF Grows
<1>2. ASSUME NEW w \in Worker, Start(w) PROVE Grows
  BY <1>0, <1>2 DEF Start, Grows, mail, ring
<1>3. CASE Crowd \/ CrowdRequests \/ UNCHANGED vars
  BY <1>0, <1>3 DEF Crowd, CrowdRequests, vars, Grows, mail, ring, bounds
<1>4. CASE Crash
  BY <1>0, <1>4 DEF Crash, Grows
<1>5. CASE Clock
  <2>1. now' \in Nat /\ now < now'
    BY <1>5, BoundsAssumption DEF Clock
  <2> QED BY <1>0, <1>5, <2>1 DEF Clock, Grows, mail, ring
<1> QED BY <1>1, <1>2, <1>3, <1>4, <1>5 DEF Next

\* A handler that is as it was.
LEMMA HandlerKept ==
    ASSUME Types, Types', Grows, NEW h \in Busy \cup {Idle}, HandlerInv(h)
    PROVE  HandlerInv(h)'
<1>1. CASE h.stage = "idle"
  BY <1>1 DEF HandlerInv
<1>2. CASE h.stage # "idle"
  <2>1. h \in Busy /\ h.mail \in Nat /\ h.at \in Nat
    BY <1>2 DEF Idle, Busy
  <2>2. mails \in Nat /\ mails' \in Nat /\ now \in Nat /\ now' \in Nat
    BY BoundsAssumption DEF Types, MailTypes, BoundTypes
  <2>3. h.mail <= mails' /\ h.at <= now'
    BY <1>2, <2>1, <2>2 DEF HandlerInv, Grows
  <2> QED BY <1>2, <2>3 DEF HandlerInv, Grows
<1> QED BY <1>1, <1>2

\* A handler that goes on to section s.
LEMMA HandlerMoved ==
    ASSUME Types, Types', Grows, NEW w \in Worker, handler[w].stage # "idle",
           HandlerInv(handler[w]), NEW s \in Stages, Goto(w, s),
           s \in {"totp", "unmail", "count"} => handler[w].kind \in {"login", "override"},
           s \in {"mail", "issue"} => handler[w].kind = "login",
           s = "totp" /\ handler[w].kind = "login" => ~handler[w].late,
           s = "issue" => handler[w].ok,
           s = "suspended" => handler[w].stage = "usage",
           s \notin {"locked", "auth", "usage"}
    PROVE  HandlerInv(handler[w])'
<1>0. PICK h \in Busy : h = handler[w]
  BY BusyOrIdle DEF Types
<1>1. HandlerInv(h)'
  BY <1>0, HandlerKept
<1>2. CASE s = "idle"
  <2>1. handler'[w] = Idle
    BY <1>2 DEF Goto, Types, HandlerTypes
  <2> QED BY <2>1 DEF HandlerInv, Idle
<1>3. CASE s # "idle"
  <2>1. handler'[w] = [h EXCEPT !.stage = s]
    BY <1>0, <1>3 DEF Goto, Types, HandlerTypes
  <2>2. /\ handler'[w].stage = s
        /\ handler'[w].mail = h.mail /\ handler'[w].at = h.at /\ handler'[w].kind = h.kind
        /\ handler'[w].ok = h.ok /\ handler'[w].late = h.late /\ handler'[w].key = h.key
        /\ handler'[w].owner = h.owner
    BY <2>1 DEF Busy
  <2> QED BY <1>0, <1>1, <2>2 DEF HandlerInv
<1> QED BY <1>2, <1>3

LEMMA StartInv ==
    ASSUME Types, Types', Grows, NEW w \in Worker, Start(w)
    PROVE  HandlerInv(handler[w])'
<1>1. PICK kind \in Request, o \in Owner, k \in 0..keys, m \in 0..mails,
           right \in BOOLEAN, ip \in Address, tls \in {None} \cup BOOLEAN,
           c \in {None} \cup [secret : 1..secrets, step : (now - 1)..(now + 1)] :
        LET static == StaticAuth(TokenMode, InsecureDev, right, ip) IN
        /\ kind \notin {"login", "override", "confirm"} => c = None
        /\ kind # "login" => m = 0
        /\ kind \notin Guarded => k = 0
        /\ kind # "tls" => tls = None
        /\ handler' = [handler EXCEPT ![w] =
              IF Entry(kind, k, static, right, ip, tls) = "idle" THEN Idle
              ELSE [stage |-> Entry(kind, k, static, right, ip, tls),
                    kind |-> kind, owner |-> o, key |-> k, record |-> None,
                    mail |-> m, code |-> c, at |-> now, ok |-> FALSE,
                    static |-> kind \in Guarded /\ static,
                    late |-> <<o, m>> \in answered \/ k \in revoked]]
  BY DEF Start
<1> DEFINE stage == Entry(kind, k, StaticAuth(TokenMode, InsecureDev, right, ip),
                          right, ip, tls)
<1>2. /\ stage \in {"idle", "locked", "otp", "unenroll", "act", "auth"}
      /\ stage = "locked" => kind \in {"login", "override"}
      /\ stage = "auth" => kind \in Guarded
  BY BoundsAssumption DEF Entry, Guarded
<1>3. UNCHANGED <<mails, now, answered, revoked>>
  BY DEF Start, mail, ring
<1> HIDE DEF stage
<1>4. CASE stage = "idle"
  <2>1. handler'[w] = Idle
    BY <1>1, <1>4 DEF stage, Types, HandlerTypes
  <2> QED BY <2>1 DEF HandlerInv, Idle
<1>5. CASE stage # "idle"
  <2>1. /\ handler'[w].stage = stage /\ handler'[w].kind = kind
        /\ handler'[w].owner = o /\ handler'[w].key = k /\ handler'[w].mail = m
        /\ handler'[w].at = now /\ handler'[w].ok = FALSE
        /\ handler'[w].late = (<<o, m>> \in answered \/ k \in revoked)
    BY <1>1, <1>5 DEF stage, Types, HandlerTypes
  <2>2. m <= mails /\ now <= now
    BY BoundsAssumption DEF Types, MailTypes, BoundTypes
  <2>3. kind = "login" => k \notin revoked
    BY <1>1 DEF Guarded, Types, RingTypes, Key
  <2>4. kind \in Guarded => <<o, m>> \notin answered
    BY <1>1 DEF Guarded, Types, MailTypes
  <2> QED BY <1>2, <1>3, <2>1, <2>2, <2>3, <2>4 DEF HandlerInv
<1> QED BY <1>4, <1>5

\* verify_login and verify_for_override.
LEMMA LoginInv ==
    ASSUME Types, Types', Grows, AccessInv, NEW w \in Worker,
           \/ CheckLocked(w) \/ MatchMail(w) \/ ConsumeTotp(w) \/ DropChallenge(w)
           \/ CountFailure(w) \/ Grant(w) \/ IssueLoginKey(w)
    PROVE  HandlerInv(handler[w])'
<1> USE DEF Stages
<1>0. PICK h \in Busy : h = handler[w] /\ HandlerInv(h)
  BY BusyOrIdle DEF CheckLocked, MatchMail, ConsumeTotp, DropChallenge, CountFailure,
                    Grant, IssueLoginKey, Types, AccessInv
<1>1. CASE CheckLocked(w)
  BY <1>0, <1>1, HandlerMoved DEF CheckLocked, HandlerInv
<1>2. CASE MatchMail(w)
  <2> DEFINE c == challenges[h.owner]
  <2>1. CASE c # None /\ c.code = h.mail /\ c.expires > h.at
    <3>1. ~h.late
      BY <1>0, <1>2, <2>1 DEF MatchMail, AccessInv, MailInv, HandlerInv, Busy
    <3>2. Goto(w, "totp")
      BY <1>0, <1>2, <2>1 DEF MatchMail
    <3> QED BY <1>0, <1>2, <3>1, <3>2, HandlerMoved DEF MatchMail, HandlerInv
  <2>2. CASE ~(c # None /\ c.code = h.mail /\ c.expires > h.at)
    <3>1. Goto(w, "unmail")
      BY <1>0, <1>2, <2>2 DEF MatchMail
    <3> QED BY <1>0, <1>2, <3>1, HandlerMoved DEF MatchMail, HandlerInv
  <2> QED BY <2>1, <2>2
<1>3. CASE ConsumeTotp(w)
  <2> DEFINE next == IF h.kind = "login" THEN "unmail" ELSE "count"
  <2>1. h.stage = "totp" /\ h.kind \in {"login", "override"}
    BY <1>0, <1>3 DEF ConsumeTotp, HandlerInv
  <2>2. CASE Goto(w, next)
    BY <1>0, <2>1, <2>2, HandlerMoved
  <2>3. CASE handler' = [handler EXCEPT ![w].stage = next, ![w].ok = TRUE]
    <3>1. handler'[w] = [h EXCEPT !.stage = next, !.ok = TRUE]
      BY <1>0, <2>3 DEF Types, HandlerTypes
    <3>2. HandlerInv(h)'
      BY <1>0, HandlerKept
    <3>3. /\ handler'[w].stage \in {"unmail", "count"}
          /\ handler'[w].mail = h.mail /\ handler'[w].at = h.at
          /\ handler'[w].kind = h.kind /\ handler'[w].late = h.late
          /\ handler'[w].key = h.key /\ handler'[w].owner = h.owner
      BY <3>1 DEF Busy
    <3> QED BY <2>1, <3>2, <3>3 DEF HandlerInv, Guarded
  <2> QED BY <1>0, <1>3, <2>2, <2>3 DEF ConsumeTotp
<1>4. CASE DropChallenge(w)
  BY <1>0, <1>4, HandlerMoved DEF DropChallenge, HandlerInv
<1>5. CASE CountFailure(w)
  BY <1>0, <1>5, HandlerMoved DEF CountFailure, HandlerInv
<1>6. CASE Grant(w)
  BY <1>0, <1>6, HandlerMoved DEF Grant
<1>7. CASE IssueLoginKey(w)
  BY <1>0, <1>7, HandlerMoved DEF IssueLoginKey
<1> QED BY <1>1, <1>2, <1>3, <1>4, <1>5, <1>6, <1>7

\* The check of a key: one that was revoked before the request is not copied.
LEMMA VerifyInv ==
    ASSUME Types, Types', Grows, AccessInv, NEW w \in Worker,
           VerifyRecord(w) \/ VerifyUsage(w) \/ CheckOverride(w)
    PROVE  HandlerInv(handler[w])'
<1> USE DEF Stages
<1>0. PICK h \in Busy : h = handler[w] /\ HandlerInv(h)
  BY BusyOrIdle DEF VerifyRecord, VerifyUsage, CheckOverride, Types, AccessInv
<1>1. HandlerInv(h)'
  BY <1>0, HandlerKept
<1>2. h.stage \in {"auth", "usage", "suspended"} /\ h.kind \in Guarded
  BY <1>0 DEF VerifyRecord, VerifyUsage, CheckOverride, HandlerInv
<1>3. h.kind # "login"
  BY <1>2 DEF Guarded
<1>4. CASE Fallback(w)
  BY <1>0, <1>2, <1>4, HandlerMoved DEF Fallback
<1>5. CASE Goto(w, "suspended") /\ h.stage = "usage"
  BY <1>0, <1>5, HandlerMoved
<1>6. CASE Goto(w, "idle")
  BY <1>0, <1>2, <1>6, HandlerMoved
<1>7. CASE /\ handler' = [handler EXCEPT ![w].stage = "act", ![w].ok = TRUE]
           /\ h.stage \in {"usage", "suspended"}
  <2>1. handler'[w] = [h EXCEPT !.stage = "act", !.ok = TRUE]
    BY <1>0, <1>7 DEF Types, HandlerTypes
  <2>2. /\ handler'[w].stage = "act"
        /\ handler'[w].mail = h.mail /\ handler'[w].at = h.at
        /\ handler'[w].kind = h.kind /\ handler'[w].late = h.late
        /\ handler'[w].key = h.key /\ handler'[w].owner = h.owner
    BY <2>1 DEF Busy
  <2> QED BY <1>1, <1>3, <1>7, <2>2 DEF HandlerInv
<1>8. CASE VerifyRecord(w)
  <2> DEFINE r == records[h.key]
             expired == r # None /\ r.expires # None /\ now >= r.expires
  <2>1. CASE r # None /\ ~expired /\ ~r.revoked
    <3>1. h.late => forgot
      BY <1>0, <1>2, <2>1 DEF AccessInv, RingInv, HandlerInv
    <3>2. handler' = [handler EXCEPT ![w].stage = "usage", ![w].record = r, ![w].at = now]
          /\ UNCHANGED <<now, forgot>>
      BY <1>0, <1>8, <2>1 DEF VerifyRecord, bounds
    <3>3. handler'[w] = [h EXCEPT !.stage = "usage", !.record = r, !.at = now]
      BY <1>0, <3>2 DEF Types, HandlerTypes
    <3>4. /\ handler'[w].stage = "usage" /\ handler'[w].at = now
          /\ handler'[w].mail = h.mail /\ handler'[w].ok = h.ok
          /\ handler'[w].kind = h.kind /\ handler'[w].late = h.late
          /\ handler'[w].key = h.key /\ handler'[w].owner = h.owner
      BY <3>3 DEF Busy
    <3>5. now <= now
      BY BoundsAssumption DEF Types, BoundTypes
    <3> QED BY <1>1, <1>2, <1>3, <3>1, <3>2, <3>4, <3>5 DEF HandlerInv
  <2>2. CASE ~(r # None /\ ~expired /\ ~r.revoked)
    BY <1>0, <1>4, <1>8, <2>2 DEF VerifyRecord
  <2> QED BY <2>1, <2>2
<1>9. CASE VerifyUsage(w)
  BY <1>0, <1>4, <1>5, <1>7, <1>9 DEF VerifyUsage
<1>10. CASE CheckOverride(w)
  BY <1>0, <1>6, <1>7, <1>10 DEF CheckOverride
<1> QED BY <1>8, <1>9, <1>10

\* The rest goes on to sections of which nothing is said, or is over.
LEMMA RestInv ==
    ASSUME Types, Types', Grows, AccessInv, NEW w \in Worker,
           \/ AllowOtp(w) \/ FindChallenge(w) \/ FindAddress(w) \/ SendChallenge(w)
           \/ Unenroll(w) \/ Ungrant(w) \/ Unsend(w) \/ Unlock(w)
           \/ Enroll(w) \/ Confirm(w) \/ IssueKey(w) \/ Revoke(w) \/ Status(w)
    PROVE  HandlerInv(handler[w])'
<1>1. PICK s \in {"idle", "active", "address", "send", "ungrant", "unsend", "unlock"} :
         Goto(w, s)
  BY DEF AllowOtp, FindChallenge, FindAddress, SendChallenge, Unenroll, Ungrant, Unsend,
         Unlock, Enroll, Confirm, IssueKey, Revoke, Status
<1>2. handler[w].stage # "idle"
  BY DEF AllowOtp, FindChallenge, FindAddress, SendChallenge, Unenroll, Ungrant, Unsend,
         Unlock, Enroll, Confirm, IssueKey, Revoke, Status
<1> QED BY <1>1, <1>2, HandlerMoved DEF AccessInv, Stages

\* Who moves: a handler is changed by its own sections only, or by a crash.
LEMMA OthersStay ==
    ASSUME Types, NEW w \in Worker, Start(w) \/ Step(w), NEW v \in Worker, v # w
    PROVE  handler'[v] = handler[v]
<1>1. CASE Start(w)
  BY <1>1 DEF Start, Types, HandlerTypes
<1>2. CASE Step(w)
  BY <1>2 DEF Step, CheckLocked, MatchMail, ConsumeTotp, DropChallenge, CountFailure,
       Grant, IssueLoginKey, AllowOtp, FindChallenge, FindAddress, SendChallenge,
       Unenroll, Ungrant, Unsend, Unlock, VerifyRecord, VerifyUsage, CheckOverride,
       Enroll, Confirm, IssueKey, Revoke, Status, Goto, Fallback, Types, HandlerTypes
<1> QED BY <1>1, <1>2

LEMMA HandlerStep ==
    ASSUME Types, Types', Grows, AccessInv, [Next]_vars, NEW v \in Worker
    PROVE  HandlerInv(handler[v])'
<1>1. PICK h \in Busy \cup {Idle} : h = handler[v] /\ HandlerInv(h)
  BY DEF Types, HandlerTypes, AccessInv
<1>2. CASE handler'[v] = handler[v]
  BY <1>1, <1>2, HandlerKept DEF HandlerInv
<1>3. ASSUME NEW w \in Worker, Start(w) \/ Step(w) PROVE HandlerInv(handler[v])'
  BY <1>2, <1>3, OthersStay, StartInv, LoginInv, VerifyInv, RestInv DEF Step
<1>4. CASE Crash
  <2>1. handler'[v] = Idle
    BY <1>4 DEF Crash
  <2> QED BY <2>1 DEF HandlerInv, Idle
<1>5. CASE Crowd \/ CrowdRequests \/ Clock \/ UNCHANGED vars
  BY <1>2, <1>5 DEF Crowd, CrowdRequests, Clock, vars
<1> QED BY <1>3, <1>4, <1>5 DEF Next

\* A challenge is replaced by one with a new code, and a code that is answered
\* was that of a challenge that is gone.
LEMMA MailStep ==
    ASSUME Types, Types', AccessInv, [Next]_vars PROVE MailInv'
<1>0. /\ challenges \in [Owner -> Challenge \cup {None}] /\ mails \in 0..MaxMails
      /\ answered \subseteq Owner \X (1..MaxMails) /\ MaxMails \in Nat /\ MailInv
  BY BoundsAssumption DEF Types, MailTypes, AccessInv
<1>1. CASE UNCHANGED <<challenges, mails, answered>>
  BY <1>0, <1>1 DEF MailInv
<1>2. ASSUME NEW w \in Worker, DropChallenge(w) PROVE MailInv'
  <2> DEFINE h == handler[w]
  <2>1. h.owner \in Owner /\ h.mail \in 0..MaxMails /\ h.mail <= mails
    BY <1>2, BusyOrIdle DEF DropChallenge, Types, Busy, AccessInv, HandlerInv
  <2>2. /\ challenges' = [challenges EXCEPT ![h.owner] = None] /\ mails' = mails
        /\ answered' = answered \cup ({h.owner} \X ({h.mail} \ {0}))
    BY <1>2 DEF DropChallenge
  <2>3. \A o \in Owner : challenges'[o] # None =>
           o # h.owner /\ challenges'[o] = challenges[o]
    BY <1>0, <2>1, <2>2
  <2>4. \A o : \A m : <<o, m>> \in answered' =>
           <<o, m>> \in answered \/ (o = h.owner /\ m = h.mail)
    BY <2>2
  <2> QED BY <1>0, <2>1, <2>2, <2>3, <2>4 DEF MailInv
<1>3. ASSUME NEW w \in Worker, SendChallenge(w) PROVE MailInv'
  <2> DEFINE o == handler[w].owner
             c == [code |-> mails + 1, expires |-> handler[w].at + MailValidity]
  <2>1. o \in Owner
    BY <1>3, BusyOrIdle DEF SendChallenge, Types, Busy
  <2>2. /\ challenges' = [challenges EXCEPT ![o] = c]
        /\ mails' = mails + 1 /\ mails < MaxMails /\ answered' = answered
    BY <1>3 DEF SendChallenge
  <2>3. \A p \in Owner : challenges'[p] = IF p = o THEN c ELSE challenges[p]
    BY <1>0, <2>1, <2>2
  <2>4. <<o, mails + 1>> \notin answered
    <3>1. \A m \in 1..MaxMails : <<o, m>> \in answered => m <= mails
      BY <1>0, <2>1 DEF MailInv
    <3> QED BY <1>0, <2>2, <3>1
  <2>5. \A p \in Owner : challenges[p] # None => challenges[p].code \in Nat
    BY <1>0 DEF Challenge
  <2>6. c.code = mails + 1
    OBVIOUS
  <2> HIDE DEF c
  <2>7. ASSUME NEW p \in Owner, challenges'[p] # None
        PROVE  challenges'[p].code <= mails' /\ <<p, challenges'[p].code>> \notin answered'
    BY <1>0, <2>2, <2>3, <2>4, <2>5, <2>6, <2>7 DEF MailInv
  <2>8. \A p \in Owner, m \in 1..MaxMails : <<p, m>> \in answered' => m <= mails'
    BY <1>0, <2>2 DEF MailInv
  <2> QED BY <2>7, <2>8 DEF MailInv
<1>4. ASSUME NEW w \in Worker, Unsend(w) PROVE MailInv'
  <2>1. \A o \in Owner : challenges'[o] \in {None, challenges[o]}
    BY <1>0, <1>4 DEF Unsend
  <2> QED BY <1>0, <1>4, <2>1 DEF Unsend, MailInv
<1>5. CASE Crash
  BY <1>0, <1>5 DEF Crash, MailInv
<1>6. ASSUME NEW w \in Worker, Step(w)
      PROVE  \/ UNCHANGED <<challenges, mails, answered>>
             \/ DropChallenge(w) \/ SendChallenge(w) \/ Unsend(w)
  BY <1>6 DEF Step, CheckLocked, MatchMail, ConsumeTotp, CountFailure, Grant,
       IssueLoginKey, AllowOtp, FindChallenge, FindAddress, Unenroll, Ungrant, Unlock,
       VerifyRecord, VerifyUsage, CheckOverride, Enroll, Confirm, IssueKey, Revoke,
       Status, mail
<1>7. ASSUME NEW w \in Worker, Start(w) PROVE UNCHANGED <<challenges, mails, answered>>
  BY <1>7 DEF Start, mail
<1>8. Crowd \/ CrowdRequests \/ Clock \/ UNCHANGED vars
        => UNCHANGED <<challenges, mails, answered>>
  BY DEF Crowd, CrowdRequests, Clock, vars, mail
<1> QED BY <1>1, <1>2, <1>3, <1>4, <1>5, <1>6, <1>7, <1>8 DEF Next

\* The record of a revoked key is gone or says so, unless a restart brought an
\* old one back; a new key is none of them.
LEMMA RingStep ==
    ASSUME Types, Types', AccessInv, [Next]_vars PROVE RingInv'
<1>0. /\ records \in [Key -> KeyRecord \cup {None}] /\ keys \in 0..MaxKeys
      /\ MaxKeys \in Nat /\ RingInv
  BY BoundsAssumption DEF Types, RingTypes, AccessInv
<1>1. CASE UNCHANGED <<records, keys, revoked, forgot>>
  BY <1>0, <1>1 DEF RingInv
<1>2. ASSUME NEW o, NEW e, NEW a, Issued(o, e, a), forgot' = forgot PROVE RingInv'
  <2>1. \A k \in 1..keys : records'[k] = records[k] /\ k \in 1..keys'
    BY <1>0, <1>2 DEF Issued, Key
  <2> QED BY <1>0, <1>2, <2>1 DEF Issued, RingInv
<1>3. ASSUME NEW w \in Worker, VerifyRecord(w) PROVE RingInv'
  <2>1. \A k \in Key : records'[k] \in {None, records[k]}
    BY <1>0, <1>3 DEF VerifyRecord
  <2>2. UNCHANGED <<keys, revoked, forgot>>
    BY <1>3 DEF VerifyRecord, bounds
  <2>3. revoked \subseteq Key
    BY DEF Types, RingTypes
  <2> QED BY <1>0, <2>1, <2>2, <2>3 DEF RingInv
<1>4. ASSUME NEW w \in Worker, Revoke(w) PROVE RingInv'
  <2> DEFINE o == handler[w].owner
  <2>1. /\ \A k \in Key : records'[k] = IF Revokes(records[k], o)
                                        THEN [records[k] EXCEPT !.revoked = TRUE]
                                        ELSE records[k]
        /\ revoked' = revoked \cup {k \in 1..keys : Revokes(records[k], o)}
        /\ UNCHANGED <<keys, forgot>>
    BY <1>4 DEF Revoke, Revokes, bounds
  <2>2. \A k \in Key : Revokes(records[k], o) => records'[k].revoked
    BY <1>0, <2>1 DEF Revokes, KeyRecord
  <2>3. 1..keys \subseteq Key
    BY <1>0 DEF Key
  <2> QED BY <1>0, <2>1, <2>2, <2>3 DEF RingInv
<1>5. CASE Crash
  BY <1>0, <1>5 DEF Crash, RingInv
<1>6. ASSUME NEW w \in Worker, Step(w)
      PROVE  \/ UNCHANGED <<records, keys, revoked, forgot>>
             \/ VerifyRecord(w) \/ Revoke(w)
             \/ forgot' = forgot /\ \E o, e, a : Issued(o, e, a)
  BY <1>6 DEF Step, CheckLocked, MatchMail, ConsumeTotp, DropChallenge, CountFailure,
       Grant, IssueLoginKey, AllowOtp, FindChallenge, FindAddress, SendChallenge,
       Unenroll, Ungrant, Unsend, Unlock, VerifyUsage, CheckOverride, Enroll, Confirm,
       IssueKey, Status, ring, bounds
<1>7. ASSUME NEW w \in Worker, Start(w)
      PROVE  UNCHANGED <<records, keys, revoked, forgot>>
  BY <1>7 DEF Start, ring
<1>8. Crowd \/ CrowdRequests \/ Clock \/ UNCHANGED vars
        => UNCHANGED <<records, keys, revoked, forgot>>
  BY DEF Crowd, CrowdRequests, Clock, vars, ring, bounds
<1> QED BY <1>1, <1>2, <1>3, <1>4, <1>5, <1>6, <1>7, <1>8 DEF Next

\* The failure that locks sets the end of the lock, and a failure of an attempt
\* that began before it does not take it away.
LEMMA LockStep ==
    ASSUME Types, Types', AccessInv, [Next]_vars PROVE LockInv'
<1>0. /\ failures \in [Owner -> FailureState \cup {None}] /\ lockEnd \in [Owner -> Nat]
      /\ now \in Nat /\ now' \in Nat /\ LockInv
  BY BoundsAssumption DEF Types, LockTypes, BoundTypes, AccessInv
<1>1. CASE UNCHANGED <<failures, lockEnd>> /\ now <= now'
  BY <1>0, <1>1 DEF LockInv
<1>2. ASSUME NEW w \in Worker, CountFailure(w) PROVE LockInv'
  <2> DEFINE h == handler[w]
             o == h.owner
             f == failures[o]
  <2>1. o \in Owner /\ h.at \in Nat /\ h.at <= now
    BY <1>2, BusyOrIdle DEF CountFailure, Types, Busy, AccessInv, HandlerInv
  <2>2. now' = now
    BY <1>2 DEF CountFailure, bounds
  <2>3. CASE h.ok
    BY <1>0, <1>2, <2>1, <2>2, <2>3 DEF CountFailure, LockInv
  <2>4. CASE ~h.ok
    <3>1. /\ failures' = [failures EXCEPT ![o] = Counted(f, h.at)]
          /\ lockEnd' = [lockEnd EXCEPT ![o] = IF failures'[o].failures = 0
                                               THEN h.at + Lockout ELSE lockEnd[o]]
      BY <1>0, <1>2, <2>1, <2>4 DEF CountFailure
    <3>2. \A p \in Owner : p # o =>
             failures'[p] = failures[p] /\ lockEnd'[p] = lockEnd[p]
      BY <1>0, <2>1, <3>1
    <3>3. failures'[o] = Counted(f, h.at) /\ Counted(f, h.at) \in FailureState
      BY <1>0, <2>1, <3>1, CountedTypes
    <3>4. CASE Counted(f, h.at).failures = 0
      <4>1. Counted(f, h.at).until = h.at + Lockout
        BY <1>0, <2>1, <3>4, BoundsAssumption DEF Counted, FailureState
      <4>2. lockEnd'[o] = h.at + Lockout
        BY <1>0, <2>1, <3>1, <3>3, <3>4
      <4> QED BY <1>0, <2>2, <3>2, <3>3, <4>1, <4>2, RecordAssumption DEF LockInv
    <3>5. CASE Counted(f, h.at).failures # 0
      <4>1. lockEnd'[o] = lockEnd[o]
        BY <1>0, <2>1, <3>1, <3>3, <3>5
      <4>2. ASSUME lockEnd[o] > now PROVE Counted(f, h.at).until = lockEnd[o]
        <5>1. f # None /\ f.until = lockEnd[o] /\ f \in FailureState
          BY <1>0, <2>1, <4>2 DEF LockInv
        <5> QED BY <1>0, <2>1, <3>5, <4>2, <5>1 DEF Counted, FailureState
      <4> QED BY <1>0, <2>2, <3>2, <3>3, <4>1, <4>2, RecordAssumption DEF LockInv
    <3> QED BY <3>4, <3>5
  <2> QED BY <2>3, <2>4
<1>3. ASSUME NEW w \in Worker, Unlock(w) PROVE LockInv'
  <2>1. now' = now
    BY <1>3 DEF Unlock, bounds
  <2> QED BY <1>0, <1>3, <2>1 DEF Unlock, LockInv
<1>4. CASE Crowd \/ Crash
  BY <1>0, <1>4 DEF Crowd, Crash, LockInv
<1>5. ASSUME NEW w \in Worker, Step(w)
      PROVE  \/ UNCHANGED <<failures, lockEnd, now>>
             \/ CountFailure(w) \/ Unlock(w)
  BY <1>5 DEF Step, CheckLocked, MatchMail, ConsumeTotp, DropChallenge, Grant,
       IssueLoginKey, AllowOtp, FindChallenge, FindAddress, SendChallenge, Unenroll,
       Ungrant, Unsend, VerifyRecord, VerifyUsage, CheckOverride, Enroll, Confirm,
       IssueKey, Revoke, Status, lock, bounds
<1>6. ASSUME NEW w \in Worker, Start(w) PROVE UNCHANGED <<failures, lockEnd, now>>
  BY <1>6 DEF Start, lock
<1>7. CrowdRequests \/ Clock \/ UNCHANGED vars
        => UNCHANGED <<failures, lockEnd>> /\ now <= now'
  <2>1. CASE CrowdRequests \/ UNCHANGED vars
    BY <1>0, <2>1 DEF CrowdRequests, vars, lock, bounds
  <2>2. CASE Clock
    <3>1. now' > now
      BY <2>2 DEF Clock
    <3> QED BY <1>0, <2>2, <3>1 DEF Clock, lock
  <2> QED BY <2>1, <2>2
<1>8. UNCHANGED <<failures, lockEnd, now>> => LockInv'
  BY <1>0, <1>1
<1> QED BY <1>1, <1>2, <1>3, <1>4, <1>5, <1>6, <1>7, <1>8 DEF Next

LEMMA AccessInvInit == Init => AccessInv
<1> SUFFICES ASSUME Init PROVE AccessInv
  OBVIOUS
<1>1. MailInv
  BY DEF Init, MailInv
<1>2. RingInv
  BY DEF Init, RingInv
<1>3. LockInv
  BY BoundsAssumption DEF Init, LockInv
<1>4. \A w \in Worker : HandlerInv(handler[w])
  BY DEF Init, HandlerInv, Idle
<1> QED BY <1>1, <1>2, <1>3, <1>4 DEF AccessInv

LEMMA AccessInvStep == Types /\ AccessInv /\ [Next]_vars => AccessInv'
<1> SUFFICES ASSUME Types, AccessInv, [Next]_vars PROVE AccessInv'
  OBVIOUS
<1>1. Types' /\ Grows
  BY TypesStep, StepGrows
<1>2. MailInv' /\ RingInv' /\ LockInv'
  BY <1>1, MailStep, RingStep, LockStep
<1>3. \A w \in Worker : HandlerInv(handler[w])'
  BY <1>1, HandlerStep
<1> QED BY <1>2, <1>3 DEF AccessInv

\* A mail code is good for one attempt, even a failed one, whatever other logins,
\* requests for codes and resets do in between.
THEOREM MailCodesAreSpent == Spec => []MailSpent
<1>1. AccessInv => MailSpent
  BY DEF AccessInv, HandlerInv, MailSpent
<1> QED BY <1>1, AccessInvInit, AccessInvStep, TypesInit, TypesStep, PTL DEF Spec

\* A key is not accepted for a request that starts after its revocation, by the
\* registry or by an override, unless a restart lost a change.
THEOREM RevocationHolds == Spec => []RevokedNeverActs
<1>1. Types /\ AccessInv => RevokedNeverActs
  <2> SUFFICES ASSUME Types, AccessInv, NEW w \in Worker,
                      handler[w].kind \in Guarded, handler[w].ok, handler[w].late
               PROVE  forgot
    BY DEF RevokedNeverActs
  <2>1. handler[w].stage # "idle"
    BY DEF Types, HandlerTypes, Busy, Idle
  <2> QED BY <2>1 DEF AccessInv, HandlerInv
<1> QED BY <1>1, AccessInvInit, AccessInvStep, TypesInit, TypesStep, PTL DEF Spec

\* Only is_locked takes a handler on, and it sees every lock that still holds:
\* the time a request was received is not after the clock.
THEOREM LocksHold == Spec => LockHolds
<1> DEFINE Kept == \A w \in Worker :
              handler[w].stage = "locked" /\ handler'[w].stage \in {"mail", "totp"}
                => now >= lockEnd[handler[w].owner]
<1>1. Types /\ AccessInv /\ [Next]_vars => Kept
  <2> SUFFICES ASSUME Types, AccessInv, [Next]_vars, NEW w \in Worker,
                      handler[w].stage = "locked", handler'[w].stage \in {"mail", "totp"}
               PROVE  now >= lockEnd[handler[w].owner]
    OBVIOUS
  <2> DEFINE h == handler[w]
             o == h.owner
  <2>1. h.owner \in Owner /\ h.at \in Nat /\ h.at <= now
    BY BusyOrIdle DEF Types, Busy, AccessInv, HandlerInv
  <2>2. now \in Nat /\ lockEnd[o] \in Nat
    BY <2>1, BoundsAssumption DEF Types, LockTypes, BoundTypes
  <2>3. CheckLocked(w)
    <3>1. handler'[w] # handler[w] /\ handler'[w] # Idle
      BY DEF Idle
    <3>2. ~Crash /\ ~Crowd /\ ~CrowdRequests /\ ~Clock /\ ~UNCHANGED vars
      BY <3>1 DEF Crash, Crowd, CrowdRequests, Clock, vars
    <3>3. Start(w) \/ Step(w)
      BY <3>1, <3>2, OthersStay DEF Next
    <3> QED BY <3>3 DEF Start, Step, MatchMail, ConsumeTotp, DropChallenge,
         CountFailure, Grant, IssueLoginKey, AllowOtp, FindChallenge, FindAddress,
         SendChallenge, Unenroll, Ungrant, Unsend, Unlock, VerifyRecord, VerifyUsage,
         CheckOverride, Enroll, Confirm, IssueKey, Revoke, Status
  <2>4. ~Locked(o, h.at)
    <3>1. SUFFICES ASSUME Locked(o, h.at) PROVE FALSE
      OBVIOUS
    <3>2. Goto(w, "idle")
      BY <2>3, <3>1 DEF CheckLocked
    <3>3. handler'[w] = Idle
      BY <3>2 DEF Goto, Types, HandlerTypes
    <3> QED BY <3>3 DEF Idle
  <2>5. SUFFICES ASSUME lockEnd[o] > now PROVE FALSE
    BY <2>2
  <2>6. failures[o] # None /\ failures[o].until = lockEnd[o]
    BY <2>1, <2>5 DEF AccessInv, LockInv
  <2> QED BY <2>1, <2>2, <2>4, <2>5, <2>6 DEF Locked
<1>2. Spec => [][Kept]_vars
  BY <1>1, AccessInvInit, AccessInvStep, TypesInit, TypesStep, PTL DEF Spec
<1> QED BY <1>2 DEF LockHolds
=============================================================================
