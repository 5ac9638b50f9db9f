---------------------------- MODULE AcmeIssuance ----------------------------
(***************************************************************************)
(* obtain_certificate_http01 of acme.rs, as the watchdog and the           *)
(* management calls run it at the same time: the account key in its file,  *)
(* the order, the token the CA fetches from this very process, the         *)
(* finalization. Two orders of one account for one host may be given the   *)
(* same authorization, hence the same token. What the caller does with the *)
(* certificate, upsert_pem, is CertStore's business.                       *)
(***************************************************************************)
EXTENDS Integers, FiniteSets

CONSTANTS
    Caller,         \* the watchdog and the management calls
    Key,            \* account keys that can be generated
    MaxOrders,      \* bound: orders placed
    MaxRestarts,    \* bound: restarts of the process
    None            \* no key, no file, an empty file

\* What the constants must be.
Parameters ==
    /\ IsFiniteSet(Caller) /\ IsFiniteSet(Key) /\ None \notin Key
    /\ MaxOrders \in Nat /\ MaxRestarts \in Nat

Authz == 1..MaxOrders

VARIABLES
    content,        \* the files, named by the key that was to make each
    keyFile, tmp,   \* the files under the two names
    generated,      \* keys generated
    spoilt,         \* history: did a write or a rename fail or get cut?
    call,           \* what each caller is doing
    tokens,         \* ChallengeStore: the key that answers each token
    authz, orders,  \* at the CA: authorizations, orders placed
    leftover,       \* history: tokens whose call ended before the answer
    restarts        \* bound counter

keyVars == <<content, keyFile, tmp, generated, spoilt>>
caVars == <<authz, orders>>
vars == <<keyVars, call, tokens, caVars, leftover, restarts>>

Idle == [stage |-> "idle", key |-> None, file |-> None, authz |-> 0]
NoAuthz == [key |-> None, status |-> "none", asked |-> FALSE]

Init ==
    /\ content = [k \in Key |-> None] /\ keyFile = None /\ tmp = None
    /\ generated = {} /\ spoilt = FALSE
    /\ call = [c \in Caller |-> Idle]
    /\ tokens = [a \in Authz |-> None] /\ leftover = {}
    /\ authz = [a \in Authz |-> NoAuthz] /\ orders = 0
    /\ restarts = 0

At(c, stage) == call[c].stage = stage
Goto(c, stage) == call' = [call EXCEPT ![c].stage = stage]
End(c) == call' = [call EXCEPT ![c] = Idle]

-----------------------------------------------------------------------------
\* load_or_generate: the account key is the one on disk, or a new one if there
\* is none or the file is no key.
LoadKey(c) ==
    /\ At(c, "idle") /\ orders < MaxOrders
    /\ IF keyFile # None /\ content[keyFile] # None
       THEN /\ call' = [call EXCEPT ![c].stage = "order", ![c].key = content[keyFile]]
            /\ UNCHANGED generated
       ELSE \E k \in Key \ generated :
               /\ call' = [call EXCEPT ![c].stage = "open", ![c].key = k]
               /\ generated' = generated \cup {k}
    /\ UNCHANGED <<content, keyFile, tmp, spoilt, tokens, caVars, leftover, restarts>>

\* The temporary file has one name for all calls: opening it empties it.
OpenTmp(c) ==
    LET file == IF tmp = None THEN call[c].key ELSE tmp IN
    /\ At(c, "open")
    /\ \/ /\ tmp' = file /\ content' = [content EXCEPT ![file] = None]
          /\ call' = [call EXCEPT ![c].stage = "fill", ![c].file = file]
          /\ UNCHANGED spoilt
       \/ spoilt' = TRUE /\ Goto(c, "order") /\ UNCHANGED <<tmp, content>>
    /\ UNCHANGED <<keyFile, generated, tokens, caVars, leftover, restarts>>

FillTmp(c) ==
    /\ At(c, "fill")
    /\ \/ /\ content' = [content EXCEPT ![call[c].file] = call[c].key]
          /\ Goto(c, "rename") /\ UNCHANGED spoilt
       \/ spoilt' = TRUE /\ Goto(c, "order") /\ UNCHANGED content
    /\ UNCHANGED <<keyFile, tmp, generated, tokens, caVars, leftover, restarts>>

\* Mutant: the key is never put in its place.
RenameTmpForgotten(c) ==
    /\ At(c, "rename") /\ Goto(c, "order")
    /\ UNCHANGED <<keyVars, tokens, caVars, leftover, restarts>>

\* A rename that fails is not looked at.
RenameTmp(c) ==
    /\ At(c, "rename") /\ Goto(c, "order")
    /\ \/ /\ keyFile' = (IF tmp = None THEN keyFile ELSE tmp) /\ tmp' = None
          /\ UNCHANGED spoilt
       \/ spoilt' = TRUE /\ UNCHANGED <<keyFile, tmp>>
    /\ UNCHANGED <<content, generated, tokens, caVars, leftover, restarts>>

\* newAccount and newOrder: the CA opens an authorization or gives one of the
\* account that is still good.
PlaceOrder(c) ==
    LET k == call[c].key IN
    /\ At(c, "order") /\ orders < MaxOrders
    /\ orders' = orders + 1
    /\ \/ /\ authz' = [authz EXCEPT ![orders + 1] =
                         [key |-> k, status |-> "pending", asked |-> FALSE]]
          /\ call' = [call EXCEPT ![c].stage = "publish", ![c].authz = orders + 1]
       \/ \E a \in Authz :
             /\ authz[a].key = k /\ authz[a].status \in {"pending", "valid"}
             /\ call' = [call EXCEPT ![c].stage = "publish", ![c].authz = a]
             /\ UNCHANGED authz
    /\ UNCHANGED <<keyVars, tokens, leftover, restarts>>

\* The token is published before the CA is told that it is.
Publish(c) ==
    /\ At(c, "publish")
    /\ tokens' = [tokens EXCEPT ![call[c].authz] = call[c].key]
    /\ Goto(c, "respond")
    /\ UNCHANGED <<keyVars, caVars, leftover, restarts>>

Respond(c) ==
    /\ At(c, "respond")
    /\ authz' = [authz EXCEPT ![call[c].authz].asked = TRUE]
    /\ Goto(c, "poll")
    /\ UNCHANGED <<keyVars, orders, tokens, leftover, restarts>>

\* The CA fetches the token (challenge_response_handler), or cannot reach the
\* gateway.
Validate(a) ==
    /\ authz[a].status = "pending" /\ authz[a].asked
    /\ \E reached \in BOOLEAN :
          authz' = [authz EXCEPT ![a].status =
                      IF reached /\ tokens[a] = authz[a].key THEN "valid" ELSE "invalid"]
    /\ UNCHANGED <<keyVars, orders, call, tokens, leftover, restarts>>

\* Mutant: the token stays.
PolledKeeps(c) ==
    /\ At(c, "poll") /\ authz[call[c].authz].status = "valid"
    /\ Goto(c, "finalize")
    /\ UNCHANGED <<keyVars, tokens, caVars, leftover, restarts>>

\* An authorization that is valid needs its token no more.
Polled(c) ==
    /\ At(c, "poll") /\ authz[call[c].authz].status = "valid"
    /\ tokens' = [tokens EXCEPT ![call[c].authz] = None]
    /\ Goto(c, "finalize")
    /\ UNCHANGED <<keyVars, caVars, leftover, restarts>>

\* The order is finalized with a new key, polled, and its certificate fetched;
\* whatever the status of that last answer, its body is what the call returns.
Finalize(c) ==
    /\ At(c, "finalize")
    /\ End(c)
    /\ UNCHANGED <<keyVars, tokens, caVars, leftover, restarts>>

\* Mutant: a call that fails takes its token with it.
FailCleansUp(c) ==
    /\ call[c].stage \in {"order", "publish", "respond", "poll", "finalize"}
    /\ tokens' = IF call[c].stage \in {"respond", "poll"}
                 THEN [tokens EXCEPT ![call[c].authz] = None] ELSE tokens
    /\ End(c)
    /\ UNCHANGED <<keyVars, caVars, leftover, restarts>>

\* Any request to the CA may fail, a poll may find an end or its last attempt,
\* and the client of a management call may go: the call ends where it is, and a
\* token it has published stays.
Fail(c) ==
    /\ call[c].stage \in {"order", "publish", "respond", "poll", "finalize"}
    /\ leftover' = IF call[c].stage \in {"respond", "poll"}
                   THEN leftover \cup {call[c].authz} ELSE leftover
    /\ End(c)
    /\ UNCHANGED <<keyVars, tokens, caVars, restarts>>

\* The process starts anew, maybe in the middle of writing its key.
Restart ==
    /\ restarts < MaxRestarts
    /\ restarts' = restarts + 1
    /\ call' = [c \in Caller |-> Idle]
    /\ spoilt' = (spoilt \/ \E c \in Caller : call[c].stage \in {"open", "fill", "rename"})
    /\ tokens' = [a \in Authz |-> None] /\ leftover' = {}
    /\ UNCHANGED <<content, keyFile, tmp, generated, caVars>>

Exchange(c) ==
    \/ LoadKey(c) \/ OpenTmp(c) \/ FillTmp(c) \/ RenameTmp(c) \/ PlaceOrder(c)
    \/ Publish(c) \/ Respond(c) \/ Polled(c) \/ Finalize(c) \/ Fail(c)

Next ==
    \/ Restart
    \/ \E c \in Caller : Exchange(c)
    \/ \E a \in Authz : Validate(a)

-----------------------------------------------------------------------------
TypeOK ==
    /\ spoilt \in BOOLEAN /\ restarts \in 0..MaxRestarts
    /\ content \in [Key -> Key \cup {None}] /\ generated \subseteq Key
    /\ keyFile \in Key \cup {None} /\ tmp \in Key \cup {None}
    /\ call \in [Caller -> [stage : {"idle", "open", "fill", "rename", "order", "publish",
                                     "respond", "poll", "finalize"},
                            key : Key \cup {None}, file : Key \cup {None},
                            authz : 0..MaxOrders]]
    /\ tokens \in [Authz -> Key \cup {None}] /\ leftover \subseteq Authz
    /\ authz \in [Authz -> [key : Key \cup {None}, asked : BOOLEAN,
                            status : {"none", "pending", "valid", "invalid"}]]
    /\ orders \in 0..MaxOrders

\* As long as a call waits for a pending authorization, the CA finds its token
\* answered with the key of the account, whatever other calls of
\* obtain_certificate_http01 for the same host do or however they end.
ChallengeServed ==
    \A c \in Caller :
       At(c, "poll") /\ authz[call[c].authz].status = "pending"
         => tokens[call[c].authz] = call[c].key

\* A published token belongs to a call in progress or to one that failed.
TokensAccounted ==
    \A a \in Authz : tokens[a] # None =>
       \/ a \in leftover
       \/ \E c \in Caller : call[c].authz = a /\ call[c].stage \in {"respond", "poll"}

\* When no call is writing it and no write has failed, load_or_generate has left
\* a whole key on disk, though calls share the temporary file: later calls make
\* no new account.
KeyOnDisk ==
    /\ generated # {} /\ ~spoilt
    /\ \A c \in Caller : call[c].stage \notin {"open", "fill", "rename"}
    => keyFile # None /\ content[keyFile] \in generated
=============================================================================
