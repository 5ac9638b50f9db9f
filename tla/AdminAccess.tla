---------------------------- MODULE AdminAccess ----------------------------
(***************************************************************************)
(* Access to the management API: TwoFactorStore (two_factor.rs), its login *)
(* handlers (admin_login.rs), KeyGuardian (keyring.rs) with its handlers   *)
(* (keys.rs), and the checks every management handler starts with          *)
(* (tenants.rs, ip_allowlist.rs).                                          *)
(*                                                                         *)
(* None of these functions awaits: a handler runs to its end on its thread *)
(* unless the process dies, and handlers on other threads come in between  *)
(* two of its critical sections. Each action is one critical section. A    *)
(* registry is written to its file under its lock, by rename; a failed     *)
(* write is only logged.                                                   *)
(*                                                                         *)
(* A TOTP code is the secret and the time step it was made for; secrets,   *)
(* mail codes and keys that are generated differ. Time is counted in TOTP  *)
(* steps.                                                                  *)
(***************************************************************************)
EXTENDS Integers, FiniteSets, Sequences, Selection

CONSTANTS
    Owner,          \* owners of enrolments and keys
    Worker,         \* handlers
    Time,           \* bound: the times of the clock, in TOTP steps
    MaxFailed,      \* MAX_FAILED_ATTEMPTS
    Lockout,        \* LOCKOUT_MINUTES
    OtpLimit,       \* OTP_REQUEST_LIMIT
    OtpWindow,      \* OTP_REQUEST_WINDOW_SECS
    MailValidity,   \* EMAIL_OTP_VALIDITY_MINUTES
    Grace,          \* OVERRIDE_VALIDITY_MINUTES
    KeyTtl,         \* login_key_ttl_minutes
    Warmup,         \* GuardianConfig.warmup_requests
    Cooldown,       \* GuardianConfig.cooldown
    TokenSet,       \* is OPEN_WEB_SERVER_ADMIN_TOKEN set?
    TokenMode,      \* OPEN_WEB_SERVER_ADMIN_STATIC_TOKEN_MODE
    InsecureDev,    \* OPEN_WEB_SERVER_ADMIN_INSECURE_DEV
    TlsTokenSet,    \* is OPEN_WEB_SERVER_TLS_TOKEN set?
    AddressBits,    \* width of an address
    Loopback,       \* the addresses that are loopback
    Allowlist,      \* entries [net, len], or None: not configured
    CanFail,        \* may a write of a registry fail?
    Request,        \* bound: the kinds of requests
    MaxOps,         \* bound: requests
    MaxSecrets,     \* bound: generated secrets
    MaxMails,       \* bound: mail codes
    MaxKeys,        \* bound: issued keys
    None            \* no entry, no code, no key

Kinds == {"login", "override", "otp", "reset", "tls",
          "enroll", "confirm", "issue", "revoke", "status"}

\* The requests that go through check_admin_auth.
Guarded == Kinds \ {"login", "override", "otp", "reset"}

Address == 0..(2^AddressBits - 1)

ASSUME BoundsAssumption ==
    /\ Time \subseteq Nat /\ Time # {} /\ Request \subseteq Kinds
    /\ MaxFailed \in Nat \ {0} /\ Lockout \in Nat \ {0}
    /\ OtpLimit \in Nat /\ OtpWindow \in Nat /\ MailValidity \in Nat
    /\ Grace \in Nat /\ KeyTtl \in Nat /\ Warmup \in Nat /\ Cooldown \in Nat
    /\ MaxOps \in Nat
    /\ MaxSecrets \in Nat /\ MaxMails \in Nat /\ MaxKeys \in Nat
    /\ CanFail \in BOOLEAN /\ AddressBits \in Nat /\ Loopback \subseteq Address
    /\ TokenSet \in BOOLEAN /\ InsecureDev \in BOOLEAN /\ TlsTokenSet \in BOOLEAN
    /\ TokenMode \in {"any", "loopback", "off"}

ASSUME SentinelAssumption == None \notin Int /\ None \notin Owner

Code == [secret : Nat, step : Int]

Enrolment == [secret : Nat, confirmed : BOOLEAN, last : Int]

Challenge == [code : Nat, expires : Nat]

FailureState == [failures : Nat, start : Nat, until : Nat]

KeyRecord == [owner : Owner, expires : Nat \cup {None}, revoked : BOOLEAN,
              admin : BOOLEAN]

UsageState == [requests : Nat, until : Nat]

ASSUME RecordAssumption ==
    /\ None \notin Enrolment /\ None \notin KeyRecord
    /\ None \notin FailureState /\ None \notin Code /\ None \notin Challenge

VARIABLES
    now,            \* Utc::now()
    enrollments,    \* TwoFactorStore.enrollments
    enrollFile,     \* the file OPEN_WEB_SERVER_2FA_STORE_PATH
    overrides,      \* TwoFactorStore.overrides: end of each, or 0
    challenges,     \* TwoFactorStore.email_challenges
    otpRequests,    \* TwoFactorStore.otp_requests, one address per owner
    failures,       \* TwoFactorStore.failures
    records,        \* KeyGuardian.records by key, None when absent
    recordsFile,    \* the file OPEN_WEB_SERVER_KEY_STORE_PATH
    usage,          \* KeyGuardian.usage by key
    handler,        \* the request each worker handles
    secrets, mails, keys,   \* how many were generated
    accepted,       \* history: TOTP codes that were accepted
    again,          \* history: codes that were accepted again
    answered,       \* history: owners and mail codes of logins that were answered
    revoked,        \* history: keys whose revocation was done
    lockEnd,        \* history: end of the lock each owner is under, or 0
    forgot,         \* history: has a restart lost a change whose write failed?
    ops             \* bound counter: requests so far

totp == <<enrollments, enrollFile, secrets, accepted, again>>
mail == <<overrides, challenges, otpRequests, mails, answered>>
lock == <<failures, lockEnd>>
ring == <<records, recordsFile, usage, keys, revoked>>
bounds == <<now, forgot, ops>>

vars == <<totp, mail, lock, ring, handler, bounds>>

Stages == {"idle", "locked", "mail", "totp", "unmail", "count", "issue", "grant",
           "otp", "active", "address", "send", "unenroll", "ungrant", "unsend",
           "unlock", "auth", "usage", "suspended", "act"}

\* ok: the code, or the key, was accepted. static: the static token would pass.
\* late: the mail code or the key was used up before the request started.
Idle == [stage |-> "idle", kind |-> None, owner |-> None, key |-> 0, record |-> None,
         mail |-> 0, code |-> None, at |-> 0, ok |-> FALSE, static |-> FALSE,
         late |-> FALSE]

FreshUsage == [requests |-> 0, until |-> 0]

Key == 1..MaxKeys

Enrolled(o, n) == [secret |-> n, confirmed |-> TRUE, last |-> -1]

\* The process starts with the file of an earlier life: no enrolment, or a
\* confirmed one of one owner.
Init ==
    /\ now \in Time
    /\ \/ enrollments = [o \in Owner |-> None] /\ secrets = 0
       \/ /\ \E p \in Owner :
                enrollments = [o \in Owner |-> IF o = p THEN Enrolled(o, 1) ELSE None]
          /\ secrets = 1
    /\ enrollFile = enrollments
    /\ overrides = [o \in Owner |-> 0]
    /\ challenges = [o \in Owner |-> None]
    /\ otpRequests = [o \in Owner |-> <<>>]
    /\ failures = [o \in Owner |-> None] /\ lockEnd = [o \in Owner |-> 0]
    /\ records = [k \in Key |-> None] /\ recordsFile = records
    /\ usage = [k \in Key |-> FreshUsage]
    /\ handler = [w \in Worker |-> Idle]
    /\ mails = 0 /\ keys = 0
    /\ accepted = {} /\ again = {} /\ answered = {} /\ revoked = {}
    /\ forgot = FALSE /\ ops = 0

-----------------------------------------------------------------------------
(* The checks that need no state.                                          *)

\* AllowEntry::matches: the first len bits agree.
Matches(entry, ip) ==
    LET rest == 2^(AddressBits - entry.len) IN
    ip \div rest = entry.net \div rest

IsAllowed(ip) == Allowlist = None \/ \E entry \in Allowlist : Matches(entry, ip)

\* static_auth_decision: without a configured token only the development
\* switch lets a request through.
StaticAuth(mode, dev, right, ip) ==
    IF ~TokenSet THEN dev
    ELSE /\ mode # "off"
         /\ mode = "loopback" => ip \in Loopback
         /\ right

\* check_breakglass_auth: loopback only, without the development switch.
Breakglass(right, ip) ==
    StaticAuth(IF TokenMode = "any" THEN "loopback" ELSE TokenMode, FALSE, right, ip)

\* tls_token_decision: a presented TLS token decides alone.
TlsAuth(right, ip) == TlsTokenSet /\ ip \in Loopback /\ right

\* Where the handler of a request begins; "idle": the request is refused.
Entry(kind, key, static, right, ip, tls) ==
    CASE kind \in {"login", "override"} -> "locked"
      [] kind = "otp" -> "otp"
      [] kind = "reset" -> IF Breakglass(right, ip) THEN "unenroll" ELSE "idle"
      [] kind = "tls" /\ tls # None -> IF TlsAuth(tls, ip) THEN "act" ELSE "idle"
      [] OTHER -> IF ~IsAllowed(ip) THEN "idle"
                  ELSE IF key # 0 THEN "auth"
                  ELSE IF static THEN "act" ELSE "idle"

\* The next critical section of w is s; a handler that is done is idle.
Goto(w, s) ==
    handler' = [handler EXCEPT ![w] = IF s = "idle" THEN Idle
                                      ELSE [@ EXCEPT !.stage = s]]

\* persist under the lock: the file has the new contents, or the old ones.
Saved(file, contents) == {contents} \cup (IF CanFail THEN {file} ELSE {})

\* totp_matching_step allows one step of clock drift; fresh_totp_step wants a
\* step after the last accepted one.
FreshStep(e, code, at) ==
    /\ code.secret = e.secret
    /\ code.step \in (at - 1)..(at + 1)
    /\ code.step > e.last

Locked(o, at) == failures[o] # None /\ failures[o].until > at

\* The request starts; what it carries is chosen by its sender.
Start(w) ==
    /\ handler[w].stage = "idle" /\ ops < MaxOps
    /\ ops' = ops + 1
    /\ \E kind \in Request, o \in Owner, k \in 0..keys, m \in 0..mails,
          right \in BOOLEAN, ip \in Address, tls \in {None} \cup BOOLEAN,
          c \in {None} \cup [secret : 1..secrets, step : (now - 1)..(now + 1)] :
          LET static == StaticAuth(TokenMode, InsecureDev, right, ip) IN
          /\ kind \notin {"login", "override", "confirm"} => c = None
          /\ kind # "login" => m = 0
          /\ kind \notin Guarded => k = 0
          /\ kind # "tls" => tls = None
          /\ handler' = [handler EXCEPT ![w] =
                IF Entry(kind, k, static, right, ip, tls) = "idle" THEN Idle
                ELSE [stage |-> Entry(kind, k, static, right, ip, tls),
                      kind |-> kind, owner |-> o, key |-> k, record |-> None,
                      mail |-> m, code |-> c, at |-> now, ok |-> FALSE,
                      static |-> kind \in Guarded /\ static,
                      late |-> <<o, m>> \in answered \/ k \in revoked]]
    /\ UNCHANGED <<totp, mail, lock, ring, now, forgot>>

-----------------------------------------------------------------------------
(* verify_login and verify_for_override.                                   *)

\* Mutant: verify_for_override does not ask for the lock.
CheckLockedLogin(w) ==
    LET h == handler[w] IN
    /\ h.stage = "locked"
    /\ Goto(w, IF h.kind = "override" THEN "totp"
               ELSE IF Locked(h.owner, h.at) THEN "idle" ELSE "mail")
    /\ UNCHANGED <<totp, mail, lock, ring, bounds>>

\* is_locked: a locked owner is refused at once.
CheckLocked(w) ==
    LET h == handler[w] IN
    /\ h.stage = "locked"
    /\ Goto(w, IF Locked(h.owner, h.at) THEN "idle"
               ELSE IF h.kind = "login" THEN "mail" ELSE "totp")
    /\ UNCHANGED <<totp, mail, lock, ring, bounds>>

\* email_otp_matches, under the read lock.
MatchMail(w) ==
    LET h == handler[w]
        c == challenges[h.owner]
    IN
    /\ h.stage = "mail"
    /\ Goto(w, IF c # None /\ c.code = h.mail /\ c.expires > h.at
               THEN "totp" ELSE "unmail")
    /\ UNCHANGED <<totp, mail, lock, ring, bounds>>

\* Mutant: the accepted step is not recorded.
AcceptUnrecorded(o, code, confirm) ==
    /\ enrollments' = [enrollments EXCEPT ![o].confirmed = @ \/ confirm]
    /\ enrollFile' \in Saved(enrollFile, enrollments')
    /\ accepted' = accepted \cup {code}
    /\ again' = again \cup ({code} \cap accepted)
    /\ UNCHANGED secrets

\* The step of an accepted code is used up.
Accept(o, code, confirm) ==
    /\ enrollments' = [enrollments EXCEPT ![o].last = code.step,
                                          ![o].confirmed = @ \/ confirm]
    /\ enrollFile' \in Saved(enrollFile, enrollments')
    /\ accepted' = accepted \cup {code}
    /\ again' = again \cup ({code} \cap accepted)
    /\ UNCHANGED secrets

\* consume_totp: look up, check and record under one write lock.
ConsumeTotp(w) ==
    LET h == handler[w]
        e == enrollments[h.owner]
        next == IF h.kind = "login" THEN "unmail" ELSE "count"
    IN
    /\ h.stage = "totp"
    /\ IF e # None /\ h.code # None /\ e.confirmed /\ FreshStep(e, h.code, h.at)
       THEN /\ Accept(h.owner, h.code, FALSE)
            /\ handler' = [handler EXCEPT ![w].stage = next, ![w].ok = TRUE]
       ELSE Goto(w, next) /\ UNCHANGED totp
    /\ UNCHANGED <<mail, lock, ring, bounds>>

\* Mutant: only a success uses the challenge up.
DropChallengeIfOk(w) ==
    LET h == handler[w] IN
    /\ h.stage = "unmail"
    /\ challenges' = IF h.ok THEN [challenges EXCEPT ![h.owner] = None] ELSE challenges
    /\ answered' = answered \cup ({h.owner} \X ({h.mail} \ {0}))
    /\ Goto(w, "count")
    /\ UNCHANGED <<totp, overrides, otpRequests, mails, lock, ring, bounds>>

\* The challenge of the owner is removed, whether the login succeeds or not.
DropChallenge(w) ==
    LET h == handler[w] IN
    /\ h.stage = "unmail"
    /\ challenges' = [challenges EXCEPT ![h.owner] = None]
    /\ answered' = answered \cup ({h.owner} \X ({h.mail} \ {0}))
    /\ Goto(w, "count")
    /\ UNCHANGED <<totp, overrides, otpRequests, mails, lock, ring, bounds>>

\* record_failure: old failures do not count, and the last allowed one locks.
Counted(f, at) ==
    LET anew == f = None \/ (at - f.start >= Lockout /\ f.until <= at)
        n == IF anew THEN 1 ELSE f.failures + 1
    IN  IF n >= MaxFailed
        THEN [failures |-> 0, start |-> at, until |-> at + Lockout]
        ELSE [failures |-> n, start |-> IF anew THEN at ELSE f.start,
              until |-> IF anew THEN 0 ELSE f.until]

\* clear_failures after a success, record_failure otherwise.
CountFailure(w) ==
    LET h == handler[w]
        o == h.owner
    IN
    /\ h.stage = "count"
    /\ IF h.ok
       THEN /\ failures' = [failures EXCEPT ![o] = None]
            /\ lockEnd' = [lockEnd EXCEPT ![o] = 0]
            /\ Goto(w, IF h.kind = "login" THEN "issue" ELSE "grant")
       ELSE /\ failures' = [failures EXCEPT ![o] = Counted(@, h.at)]
            /\ lockEnd' = [lockEnd EXCEPT ![o] =
                  IF failures'[o].failures = 0 THEN h.at + Lockout ELSE @]
            /\ Goto(w, "idle")
    /\ UNCHANGED <<totp, mail, ring, bounds>>

\* Failures of other owners fill the table (MAX_TRACKED_KEYS), and all entries go.
Crowd ==
    /\ failures' = [o \in Owner |-> None] /\ lockEnd' = [o \in Owner |-> 0]
    /\ UNCHANGED <<totp, mail, ring, handler, bounds>>

\* So do the times of mail requests.
CrowdRequests ==
    /\ otpRequests' = [o \in Owner |-> <<>>]
    /\ UNCHANGED <<totp, overrides, challenges, mails, answered, lock, ring, handler,
                   bounds>>

\* The override holds from the time the request was received.
Grant(w) ==
    LET h == handler[w] IN
    /\ h.stage = "grant"
    /\ overrides' = [overrides EXCEPT ![h.owner] = h.at + Grace]
    /\ Goto(w, "idle")
    /\ UNCHANGED <<totp, challenges, otpRequests, mails, answered, lock, ring, bounds>>

-----------------------------------------------------------------------------
(* request_otp and reset.                                                  *)

Within(times, at) == Selected(times, {i \in DOMAIN times : at - times[i] < OtpWindow})

\* allow_otp_request: a sliding window per owner and address.
AllowOtp(w) ==
    LET h == handler[w]
        kept == Within(otpRequests[h.owner], h.at)
        allowed == Len(kept) < OtpLimit
    IN
    /\ h.stage = "otp"
    /\ otpRequests' = [otpRequests EXCEPT ![h.owner] =
                          IF allowed THEN Append(kept, h.at) ELSE kept]
    /\ Goto(w, IF allowed THEN "active" ELSE "idle")
    /\ UNCHANGED <<totp, overrides, challenges, mails, answered, lock, ring, bounds>>

\* has_active_email_challenge: a challenge is not replaced while it is valid.
FindChallenge(w) ==
    LET c == challenges[handler[w].owner] IN
    /\ handler[w].stage = "active"
    /\ Goto(w, IF c # None /\ c.expires > handler[w].at THEN "idle" ELSE "address")
    /\ UNCHANGED <<totp, mail, lock, ring, bounds>>

\* email_for and SmtpConfig::from_env: an enrolment may have no address.
FindAddress(w) ==
    /\ handler[w].stage = "address"
    /\ \/ enrollments[handler[w].owner] # None /\ Goto(w, "send")
       \/ Goto(w, "idle")
    /\ UNCHANGED <<totp, mail, lock, ring, bounds>>

\* issue_email_otp; the mail itself is sent by a task of its own.
SendChallenge(w) ==
    LET h == handler[w] IN
    /\ h.stage = "send" /\ mails < MaxMails
    /\ mails' = mails + 1
    /\ challenges' = [challenges EXCEPT ![h.owner] =
                        [code |-> mails + 1, expires |-> h.at + MailValidity]]
    /\ Goto(w, "idle")
    /\ UNCHANGED <<totp, overrides, otpRequests, answered, lock, ring, bounds>>

\* reset: four maps, one lock after the other.
Unenroll(w) ==
    LET o == handler[w].owner IN
    /\ handler[w].stage = "unenroll"
    /\ enrollments' = [enrollments EXCEPT ![o] = None]
    /\ enrollFile' \in IF enrollments[o] = None THEN {enrollFile}
                       ELSE Saved(enrollFile, enrollments')
    /\ Goto(w, "ungrant")
    /\ UNCHANGED <<secrets, accepted, again, mail, lock, ring, bounds>>

Ungrant(w) ==
    /\ handler[w].stage = "ungrant"
    /\ overrides' = [overrides EXCEPT ![handler[w].owner] = 0]
    /\ Goto(w, "unsend")
    /\ UNCHANGED <<totp, challenges, otpRequests, mails, answered, lock, ring, bounds>>

Unsend(w) ==
    /\ handler[w].stage = "unsend"
    /\ challenges' = [challenges EXCEPT ![handler[w].owner] = None]
    /\ Goto(w, "unlock")
    /\ UNCHANGED <<totp, overrides, otpRequests, mails, answered, lock, ring, bounds>>

Unlock(w) ==
    LET o == handler[w].owner IN
    /\ handler[w].stage = "unlock"
    /\ failures' = [failures EXCEPT ![o] = None]
    /\ lockEnd' = [lockEnd EXCEPT ![o] = 0]
    /\ Goto(w, "idle")
    /\ UNCHANGED <<totp, mail, ring, bounds>>

-----------------------------------------------------------------------------
(* KeyGuardian and the check of the management handlers.                   *)

\* issue: a new key, shown once.
Issued(o, expires, admin) ==
    /\ keys < MaxKeys
    /\ keys' = keys + 1
    /\ records' = [records EXCEPT ![keys + 1] =
          [owner |-> o, expires |-> expires, revoked |-> FALSE, admin |-> admin]]
    /\ recordsFile' \in Saved(recordsFile, records')
    /\ UNCHANGED <<usage, revoked>>

\* verify_login answers a success with a key of limited life.
IssueLoginKey(w) ==
    LET h == handler[w] IN
    /\ h.stage = "issue"
    /\ Issued(h.owner, h.at + KeyTtl, TRUE)
    /\ Goto(w, "idle")
    /\ UNCHANGED <<totp, mail, lock, bounds>>

\* What is left of a request whose key is refused is the static token.
Fallback(w) ==
    Goto(w, IF handler[w].static THEN "act" ELSE "idle")

\* verify, first lock: an expired key is removed, an absent or revoked one is
\* refused, and the record of any other is copied.
VerifyRecord(w) ==
    LET h == handler[w]
        r == records[h.key]
        expired == r # None /\ r.expires # None /\ now >= r.expires
    IN
    /\ h.stage = "auth"
    /\ IF expired
       THEN /\ records' = [records EXCEPT ![h.key] = None]
            /\ recordsFile' \in Saved(recordsFile, records')
       ELSE UNCHANGED <<records, recordsFile>>
    /\ IF r # None /\ ~expired /\ ~r.revoked
       THEN handler' = [handler EXCEPT ![w].stage = "usage", ![w].record = r,
                                       ![w].at = now]
       ELSE Fallback(w)
    /\ UNCHANGED <<totp, mail, lock, usage, keys, revoked, bounds>>

\* verify, second lock: a key that is suspended, or whose rate is found to be
\* anomalous after the warm-up, is suspended; then key_grants_admin_access.
VerifyUsage(w) ==
    LET h == handler[w]
        u == usage[h.key]
    IN
    /\ h.stage = "usage"
    /\ \/ /\ h.at < u.until
          /\ Goto(w, "suspended") /\ UNCHANGED usage
       \/ /\ h.at >= u.until /\ u.requests >= Warmup
          /\ usage' = [usage EXCEPT ![h.key].until = h.at + Cooldown]
          /\ Goto(w, "suspended")
       \/ /\ h.at >= u.until
          /\ usage' = [usage EXCEPT ![h.key] =
                [requests |-> IF @.requests < Warmup THEN @.requests + 1 ELSE Warmup,
                 until |-> 0]]
          /\ IF h.record.admin
             THEN handler' = [handler EXCEPT ![w].stage = "act", ![w].ok = TRUE]
             ELSE Fallback(w)
    /\ UNCHANGED <<totp, mail, lock, records, recordsFile, keys, revoked, bounds>>

\* has_valid_override lets a suspended key through; there is no fallback.
CheckOverride(w) ==
    LET h == handler[w] IN
    /\ h.stage = "suspended"
    /\ IF overrides[h.record.owner] > now
       THEN handler' = [handler EXCEPT ![w].stage = "act", ![w].ok = TRUE]
       ELSE Goto(w, "idle")
    /\ UNCHANGED <<totp, mail, lock, ring, bounds>>

\* enroll refuses an owner whose enrolment is confirmed.
Enroll(w) ==
    LET o == handler[w].owner IN
    /\ handler[w].stage = "act" /\ handler[w].kind = "enroll"
    /\ IF enrollments[o] # None /\ enrollments[o].confirmed
       THEN UNCHANGED totp
       ELSE /\ secrets < MaxSecrets
            /\ secrets' = secrets + 1
            /\ enrollments' = [enrollments EXCEPT ![o] =
                  [secret |-> secrets + 1, confirmed |-> FALSE, last |-> -1]]
            /\ enrollFile' \in Saved(enrollFile, enrollments')
            /\ UNCHANGED <<accepted, again>>
    /\ Goto(w, "idle")
    /\ UNCHANGED <<mail, lock, ring, bounds>>

\* confirm uses a step up as a login does, and may be repeated.
Confirm(w) ==
    LET h == handler[w]
        e == enrollments[h.owner]
    IN
    /\ h.stage = "act" /\ h.kind = "confirm"
    /\ IF e # None /\ h.code # None /\ FreshStep(e, h.code, now)
       THEN Accept(h.owner, h.code, TRUE)
       ELSE UNCHANGED totp
    /\ Goto(w, "idle")
    /\ UNCHANGED <<mail, lock, ring, bounds>>

IssueKey(w) ==
    LET h == handler[w] IN
    /\ h.stage = "act" /\ h.kind = "issue"
    /\ \E expires \in {None, now + KeyTtl}, admin \in BOOLEAN :
          Issued(h.owner, expires, admin)
    /\ Goto(w, "idle")
    /\ UNCHANGED <<totp, mail, lock, bounds>>

\* Mutant: a key that has expired in the meantime is passed over.
RevokesOnlyExpiring(r, o) == r # None /\ r.owner = o /\ r.expires # None

Revokes(r, o) == r # None /\ r.owner = o

\* revoke_owner: all keys of the owner, and one write if there was any.
Revoke(w) ==
    LET o == handler[w].owner
        hit == {k \in Key : Revokes(records[k], o)}
    IN
    /\ handler[w].stage = "act" /\ handler[w].kind = "revoke"
    /\ records' = [k \in Key |-> IF k \in hit THEN [records[k] EXCEPT !.revoked = TRUE]
                                 ELSE records[k]]
    /\ recordsFile' \in IF records' = records THEN {recordsFile}
                        ELSE Saved(recordsFile, records')
    /\ revoked' = revoked \cup {k \in 1..keys : records[k] # None /\ records[k].owner = o}
    /\ Goto(w, "idle")
    /\ UNCHANGED <<totp, mail, lock, usage, keys, bounds>>

\* key_status and the handlers that act on something else.
Status(w) ==
    /\ handler[w].stage = "act" /\ handler[w].kind \in {"status", "tls"}
    /\ Goto(w, "idle")
    /\ UNCHANGED <<totp, mail, lock, ring, bounds>>

-----------------------------------------------------------------------------

\* The process dies; the next one loads the two files and nothing else.
Crash ==
    /\ forgot' = (forgot \/ enrollFile # enrollments \/ recordsFile # records)
    /\ enrollments' = enrollFile /\ records' = recordsFile
    /\ overrides' = [o \in Owner |-> 0]
    /\ challenges' = [o \in Owner |-> None]
    /\ otpRequests' = [o \in Owner |-> <<>>]
    /\ failures' = [o \in Owner |-> None] /\ lockEnd' = [o \in Owner |-> 0]
    /\ usage' = [k \in Key |-> FreshUsage]
    /\ handler' = [w \in Worker |-> Idle]
    /\ UNCHANGED <<enrollFile, recordsFile, secrets, mails, keys, accepted, again,
                   answered, revoked, now, ops>>

\* The clock goes on; it is not set back.
Clock ==
    /\ now' \in {t \in Time : t > now}
    /\ UNCHANGED <<totp, mail, lock, ring, handler, forgot, ops>>

Step(w) ==
    \/ CheckLocked(w) \/ MatchMail(w) \/ ConsumeTotp(w) \/ DropChallenge(w)
    \/ CountFailure(w) \/ Grant(w) \/ IssueLoginKey(w)
    \/ AllowOtp(w) \/ FindChallenge(w) \/ FindAddress(w) \/ SendChallenge(w)
    \/ Unenroll(w) \/ Ungrant(w) \/ Unsend(w) \/ Unlock(w)
    \/ VerifyRecord(w) \/ VerifyUsage(w) \/ CheckOverride(w)
    \/ Enroll(w) \/ Confirm(w) \/ IssueKey(w) \/ Revoke(w) \/ Status(w)

Next == (\E w \in Worker : Start(w) \/ Step(w)) \/ Crowd \/ CrowdRequests \/ Crash \/ Clock

Spec == Init /\ [][Next]_vars

-----------------------------------------------------------------------------

Busy == [stage : Stages \ {"idle"}, kind : Kinds, owner : Owner, key : 0..MaxKeys,
         record : KeyRecord \cup {None}, mail : 0..MaxMails, code : Code \cup {None},
         at : Nat, ok : BOOLEAN, static : BOOLEAN, late : BOOLEAN]

\* Every variable has its type: a failure counter stays below the limit, no more
\* requests for a mail are remembered than a window lets through, and a handler
\* past the first lock of verify holds the record it copied.
TypeOK ==
    /\ now \in Time
    /\ enrollments \in [Owner -> Enrolment \cup {None}]
    /\ enrollFile \in [Owner -> Enrolment \cup {None}]
    /\ overrides \in [Owner -> Nat]
    /\ challenges \in [Owner -> Challenge \cup {None}]
    /\ otpRequests \in [Owner -> Seq(Nat)]
    /\ \A o \in Owner : Len(otpRequests[o]) <= OtpLimit
    /\ failures \in [Owner -> FailureState \cup {None}]
    /\ \A o \in Owner : failures[o] # None => failures[o].failures < MaxFailed
    /\ records \in [Key -> KeyRecord \cup {None}]
    /\ recordsFile \in [Key -> KeyRecord \cup {None}]
    /\ usage \in [Key -> UsageState]
    /\ handler \in [Worker -> Busy \cup {Idle}]
    /\ \A w \in Worker :
          /\ handler[w].stage \in {"auth", "usage", "suspended"} => handler[w].key \in Key
          /\ handler[w].stage \in {"usage", "suspended"} => handler[w].record \in KeyRecord
    /\ secrets \in Nat /\ mails \in 0..MaxMails /\ keys \in 0..MaxKeys
    /\ accepted \subseteq Code /\ again \subseteq Code
    /\ answered \subseteq Owner \X (1..MaxMails) /\ revoked \subseteq Key
    /\ lockEnd \in [Owner -> Nat]
    /\ forgot \in BOOLEAN /\ ops \in 0..MaxOps

\* A TOTP code is accepted once, by whichever of login, override and confirm, on
\* however many threads and across restarts, unless a restart lost the step it
\* used up because the write of the file had failed.
CodeOnce == again # {} => forgot

\* A mail code is good for one attempt: no login that starts after its owner's
\* attempt with it was over is accepted, also when that attempt failed.
MailSpent ==
    \A w \in Worker : handler[w].stage = "issue" => ~handler[w].late

\* A key is not accepted for a request that starts after its revocation, by the
\* registry or by an override, across restarts, unless a failed write was lost.
RevokedNeverActs ==
    \A w \in Worker :
        handler[w].kind \in Guarded /\ handler[w].ok /\ handler[w].late => forgot

\* While an owner is locked no login and no override gets as far as its codes,
\* whatever the requests that were under way when the lock began do.
LockHolds ==
    [][\A w \in Worker :
          handler[w].stage = "locked" /\ handler'[w].stage \in {"mail", "totp"}
             => now >= lockEnd[handler[w].owner]]_vars
=============================================================================
