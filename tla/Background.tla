----------------------------- MODULE Background -----------------------------
(***************************************************************************)
(* What runs beside the requests: the watchdog and the issuance of         *)
(* certificates, the three loops that tell providers the machine's         *)
(* address, the self update, the backup, the audit log, the redundant      *)
(* notices, the exchanges over QUIC, the SFTP server, the state reader,    *)
(* the rewriting of paths, the import of configurations and the dual       *)
(* writes. They share no variable, so that their interleavings show        *)
(* nothing new: part names the one that moves.                             *)
(***************************************************************************)
EXTENDS Integers, Sequences, FiniteSets

CONSTANTS
    Task,                           \* callers: of commit, of write, of a reader...
    None,                           \* Rust's Option::None
    Host, Threshold,                \* DomainWatchdog
    AccountKey, MaxOrders, MaxRestarts,                     \* AcmeIssuance
    Addr, First,                    \* addresses, and the one a machine starts with
    Domain, Seed, Addr6, Capacity, MaxSetups, MaxMoves,     \* FreeDomain
    Name, Page, Site,               \* ZoneUpdate
    Base, Timeout, Limit,           \* AddressLoop
    MaxLate,                        \* requests at large: these three, DualWrite
    MaxVersion, MaxCrashes,         \* SelfUpdate
    Source, NameOf, MaxTime, MaxKills,                      \* CrossrepoBackup
    IdemKey, MaxAttempts, MaxCuts,  \* AuditLog
    MaxSent, MaxDamaged,            \* RedundantPath
    Channel, Path, MaxLen, MaxFiles, MaxOpens,              \* SftpSession
    Client, Password, MaxHostKeys,  \* SftpServer
    MaxKeys,                        \* StateReader
    MaxSends,                       \* QuicExchange
    PathPattern, ValuePattern, Request, Value, MaxRules,    \* Rewrite
    Text, Cond, MaxLines,           \* ConfigImport
    Subdomain, Owner, Ip            \* DualWrite

VARIABLES part,
    watchdogRegistered, watchdogServed, expecting, health, round, began, bad,
    lacking, waited,
    content, keyFile, tmp, generated, spoilt, call, tokens, authz,
    orders, leftover, restarts,
    duckdnsWan, moves, duckdnsRegistered, status, duckdnsRecord, last, duckdnsLoop,
    setup, setups, touched, fresh, duckdnsTorn, overtaken, duckdnsLate,
    address, names, zone, told, pass, wrote, zoneTorn, zoneLate,
    ddnsWan, ddnsRecord, flags, lastIp, ddnsLoop, since, frugal, stale, ddnsTorn,
    ddnsLate,
    release, sound, overwrites, enabled, disk, backup, updateStage, new, todo,
    running, heir, updateTorn, crashed, crashes,
    target, now, run, report, kept, shared, used, kills,
    auditFile, ended, lock, auditTask, attempts, acked, committed, cuts,
    nextSeq, sent, air, noticeTask, seen, noticeHanded, damaged,
    tree, length, handles, next_handle, exhausted, doing, opened, stored,
    sftpStage, hostKey, sftpFile, synced, made, authorized_keys, accepted,
    allow_password, password, sessions, known, harm,
    cached_api_key, issued, live, readerTask,
    link, server, quicHanded, broken, dropped,
    rules, path, context, outcome,
    dialect, acc, pending, skipping, named, lines, result, stood, oneLine,
    postgres, aruaru, dualTask, dualLate, held, doubted

Watching == INSTANCE DomainWatchdog WITH
    registered <- watchdogRegistered, served <- watchdogServed

Issuing == INSTANCE AcmeIssuance WITH
    Caller <- Task, Key <- AccountKey

Announcing == INSTANCE FreeDomain WITH
    wan <- duckdnsWan, registered <- duckdnsRegistered, record <- duckdnsRecord,
    loop <- duckdnsLoop, torn <- duckdnsTorn, late <- duckdnsLate

Zoning == INSTANCE ZoneUpdate WITH
    torn <- zoneTorn, late <- zoneLate

Telling == INSTANCE AddressLoop WITH
    wan <- ddnsWan, record <- ddnsRecord, loop <- ddnsLoop, torn <- ddnsTorn,
    late <- ddnsLate

Updating == INSTANCE SelfUpdate WITH
    stage <- updateStage, torn <- updateTorn

Copying == INSTANCE CrossrepoBackup WITH
    File <- Source

Auditing == INSTANCE AuditLog WITH
    Key <- IdemKey, file <- auditFile, task <- auditTask

Noticing == INSTANCE RedundantPath WITH
    Key <- IdemKey, task <- noticeTask, handed <- noticeHanded

Filing == INSTANCE SftpSession

Starting == INSTANCE SftpServer WITH
    MaxKeys <- MaxHostKeys, stage <- sftpStage, file <- sftpFile

Reading == INSTANCE StateReader WITH
    task <- readerTask

Exchanging == INSTANCE QuicExchange WITH
    handed <- quicHanded

Rewriting == INSTANCE Rewrite

Importing == INSTANCE ConfigImport

Writing == INSTANCE DualWrite WITH
    Name <- Subdomain, task <- dualTask, late <- dualLate

ASSUME Assumptions ==
    /\ Watching!Parameters
    /\ Issuing!Parameters
    /\ Announcing!Parameters
    /\ Zoning!Parameters
    /\ Telling!Parameters
    /\ Updating!Parameters
    /\ Copying!Parameters
    /\ Auditing!Parameters
    /\ Noticing!Parameters
    /\ Filing!Parameters
    /\ Starting!Parameters
    /\ Reading!Parameters
    /\ Exchanging!Parameters
    /\ Rewriting!Parameters
    /\ Importing!Parameters
    /\ Writing!Parameters
    /\ First \in Addr

watchdogVars == <<watchdogRegistered, watchdogServed, expecting, health, round,
                  began, bad, lacking, waited>>
acmeVars == <<content, keyFile, tmp, generated, spoilt, call, tokens,
              authz, orders, leftover, restarts>>
duckdnsVars == <<duckdnsWan, moves, duckdnsRegistered, status, duckdnsRecord, last,
                 duckdnsLoop, setup, setups, touched, fresh, duckdnsTorn, overtaken,
                 duckdnsLate>>
zoneVars == <<address, names, zone, told, pass, wrote, zoneTorn, zoneLate>>
ddnsVars == <<ddnsWan, ddnsRecord, flags, lastIp, ddnsLoop, since, frugal, stale,
              ddnsTorn, ddnsLate>>
updateVars == <<release, sound, overwrites, enabled, disk, backup, updateStage, new,
                todo, running, heir, updateTorn, crashed, crashes>>
copyVars == <<target, now, run, report, kept, shared, used, kills>>
auditVars == <<auditFile, ended, lock, auditTask, attempts, acked, committed, cuts>>
noticeVars == <<nextSeq, sent, air, noticeTask, seen, noticeHanded, damaged>>
filesVars == <<tree, length, handles, next_handle, exhausted, doing, opened, stored>>
sftpVars == <<sftpStage, hostKey, sftpFile, synced, made, authorized_keys, accepted,
              allow_password, password, sessions, known, harm>>
readerVars == <<cached_api_key, issued, live, readerTask>>
quicVars == <<link, server, quicHanded, broken, dropped>>
rewriteVars == <<rules, path, context, outcome>>
importVars == <<dialect, acc, pending, skipping, named, lines, result, stood, oneLine>>
dualVars == <<postgres, aruaru, dualTask, dualLate, held, doubted>>

vars == <<part, watchdogVars, acmeVars, duckdnsVars, zoneVars, ddnsVars, updateVars,
          copyVars, auditVars, noticeVars, filesVars, sftpVars, readerVars, quicVars,
          rewriteVars, importVars, dualVars>>

\* No address differs from another but by its name, and of a part that rests it
\* does not matter how it is configured.
Init ==
    /\ part \in {"watchdog", "acme", "duckdns", "zone", "ddns", "update", "copy",
                "audit", "notice", "files", "sftp", "reader", "quic", "rewrite",
                "import", "dual"}
    /\ Watching!Init
    /\ part # "watchdog" => watchdogRegistered = {} /\ watchdogServed = {}
    /\ Issuing!Init
    /\ Announcing!Init
    /\ duckdnsWan = [v4 |-> First, v6 |-> None]
    /\ Zoning!Init
    /\ address = First
    /\ Telling!Init
    /\ part # "ddns" => flags = {} /\ since = None
    /\ ddnsWan = First
    /\ Updating!Init
    /\ part # "update" => sound = {1} /\ ~overwrites /\ ~enabled /\ disk["version.json"] = 1
    /\ Copying!Init
    /\ Auditing!Init
    /\ Noticing!Init
    /\ Filing!Init
    /\ Starting!Init
    /\ part # "sftp" => authorized_keys = {} /\ ~allow_password /\ password = None
    /\ Reading!Init
    /\ Exchanging!Init
    /\ Rewriting!Init
    /\ Importing!Init
    /\ part # "import" => dialect = "nginx"
    /\ Writing!Init

Next ==
    /\ UNCHANGED part
    /\ \/ /\ part = "watchdog"
          /\ UNCHANGED <<acmeVars, duckdnsVars, zoneVars, ddnsVars, updateVars,
                        copyVars, auditVars, noticeVars, filesVars, sftpVars,
                        readerVars, quicVars, rewriteVars, importVars, dualVars>>
          /\ Watching!Next
       \/ /\ part = "acme"
          /\ UNCHANGED <<watchdogVars, duckdnsVars, zoneVars, ddnsVars, updateVars,
                        copyVars, auditVars, noticeVars, filesVars, sftpVars,
                        readerVars, quicVars, rewriteVars, importVars, dualVars>>
          /\ Issuing!Next
       \/ /\ part = "duckdns"
          /\ UNCHANGED <<watchdogVars, acmeVars, zoneVars, ddnsVars, updateVars,
                        copyVars, auditVars, noticeVars, filesVars, sftpVars,
                        readerVars, quicVars, rewriteVars, importVars, dualVars>>
          /\ Announcing!Next
       \/ /\ part = "zone"
          /\ UNCHANGED <<watchdogVars, acmeVars, duckdnsVars, ddnsVars, updateVars,
                        copyVars, auditVars, noticeVars, filesVars, sftpVars,
                        readerVars, quicVars, rewriteVars, importVars, dualVars>>
          /\ Zoning!Next
       \/ /\ part = "ddns"
          /\ UNCHANGED <<watchdogVars, acmeVars, duckdnsVars, zoneVars, updateVars,
                        copyVars, auditVars, noticeVars, filesVars, sftpVars,
                        readerVars, quicVars, rewriteVars, importVars, dualVars>>
          /\ Telling!Next
       \/ /\ part = "update"
          /\ UNCHANGED <<watchdogVars, acmeVars, duckdnsVars, zoneVars, ddnsVars,
                        copyVars, auditVars, noticeVars, filesVars, sftpVars,
                        readerVars, quicVars, rewriteVars, importVars, dualVars>>
          /\ Updating!Next
       \/ /\ part = "copy"
          /\ UNCHANGED <<watchdogVars, acmeVars, duckdnsVars, zoneVars, ddnsVars,
                        updateVars, auditVars, noticeVars, filesVars, sftpVars,
                        readerVars, quicVars, rewriteVars, importVars, dualVars>>
          /\ Copying!Next
       \/ /\ part = "audit"
          /\ UNCHANGED <<watchdogVars, acmeVars, duckdnsVars, zoneVars, ddnsVars,
                        updateVars, copyVars, noticeVars, filesVars, sftpVars,
                        readerVars, quicVars, rewriteVars, importVars, dualVars>>
          /\ Auditing!Next
       \/ /\ part = "notice"
          /\ UNCHANGED <<watchdogVars, acmeVars, duckdnsVars, zoneVars, ddnsVars,
                        updateVars, copyVars, auditVars, filesVars, sftpVars,
                        readerVars, quicVars, rewriteVars, importVars, dualVars>>
          /\ Noticing!Next
       \/ /\ part = "files"
          /\ UNCHANGED <<watchdogVars, acmeVars, duckdnsVars, zoneVars, ddnsVars,
                        updateVars, copyVars, auditVars, noticeVars, sftpVars,
                        readerVars, quicVars, rewriteVars, importVars, dualVars>>
          /\ Filing!Next
       \/ /\ part = "sftp"
          /\ UNCHANGED <<watchdogVars, acmeVars, duckdnsVars, zoneVars, ddnsVars,
                        updateVars, copyVars, auditVars, noticeVars, filesVars,
                        readerVars, quicVars, rewriteVars, importVars, dualVars>>
          /\ Starting!Next
       \/ /\ part = "reader"
          /\ UNCHANGED <<watchdogVars, acmeVars, duckdnsVars, zoneVars, ddnsVars,
                        updateVars, copyVars, auditVars, noticeVars, filesVars,
                        sftpVars, quicVars, rewriteVars, importVars, dualVars>>
          /\ Reading!Next
       \/ /\ part = "quic"
          /\ UNCHANGED <<watchdogVars, acmeVars, duckdnsVars, zoneVars, ddnsVars,
                        updateVars, copyVars, auditVars, noticeVars, filesVars,
                        sftpVars, readerVars, rewriteVars, importVars, dualVars>>
          /\ Exchanging!Next
       \/ /\ part = "rewrite"
          /\ UNCHANGED <<watchdogVars, acmeVars, duckdnsVars, zoneVars, ddnsVars,
                        updateVars, copyVars, auditVars, noticeVars, filesVars,
                        sftpVars, readerVars, quicVars, importVars, dualVars>>
          /\ Rewriting!Next
       \/ /\ part = "import"
          /\ UNCHANGED <<watchdogVars, acmeVars, duckdnsVars, zoneVars, ddnsVars,
                        updateVars, copyVars, auditVars, noticeVars, filesVars,
                        sftpVars, readerVars, quicVars, rewriteVars, dualVars>>
          /\ Importing!Next
       \/ /\ part = "dual"
          /\ UNCHANGED <<watchdogVars, acmeVars, duckdnsVars, zoneVars, ddnsVars,
                        updateVars, copyVars, auditVars, noticeVars, filesVars,
                        sftpVars, readerVars, quicVars, rewriteVars, importVars>>
          /\ Writing!Next

Spec == Init /\ [][Next]_vars

\* The properties are those of the part that moves: the others rest in a state they
\* start from. First the type invariants.
TypeOK ==
    /\ part = "watchdog" => Watching!TypeOK
    /\ part = "acme" => Issuing!TypeOK
    /\ part = "duckdns" => Announcing!TypeOK
    /\ part = "zone" => Zoning!TypeOK
    /\ part = "ddns" => Telling!TypeOK
    /\ part = "update" => Updating!TypeOK
    /\ part = "copy" => Copying!TypeOK
    /\ part = "audit" => Auditing!TypeOK
    /\ part = "notice" => Noticing!TypeOK
    /\ part = "files" => Filing!TypeOK
    /\ part = "sftp" => Starting!TypeOK
    /\ part = "reader" => Reading!TypeOK
    /\ part = "quic" => Exchanging!TypeOK
    /\ part = "rewrite" => Rewriting!TypeOK
    /\ part = "import" => Importing!TypeOK
    /\ part = "dual" => Writing!TypeOK

\* DomainWatchdog: a certificate is asked for only when it is due and only for a
\* host that was registered when the round began; a host without one gets one.
RepairsDue ==
    part = "watchdog" =>
        /\ Watching!ReissueJustified
        /\ Watching!AsksForRegistered
        /\ Watching!NeverLeftWaiting

\* AcmeIssuance: the CA finds the answer while it may ask for it, no token is left
\* behind but by a call that ended early, the account key in use is on disk.
IssuanceSound ==
    part = "acme" =>
        /\ Issuing!ChallengeServed
        /\ Issuing!TokensAccounted
        /\ Issuing!KeyOnDisk

\* FreeDomain, ZoneUpdate, AddressLoop: what a loop takes for told is at its provider,
\* if that answered and took it, nothing but addresses is written, a name that was
\* removed has no status, and a new address is told in time by a loop that looks alive.
AddressesTold ==
    /\ part = "duckdns" => Announcing!ToldIsThere /\ Announcing!GoneIsGone
    /\ part = "zone" => Zoning!ToldInZone /\ Zoning!OnlyAddresses
    /\ part = "ddns" => Telling!ToldInTime /\ Telling!ToldIsTaken /\ Telling!AliveLooksAlive

\* SelfUpdate: an attempt leaves a sound binary, and a version that serves is sound.
UpdateHarmless == part = "update" => Updating!BinaryPutRight /\ Updating!NeverUnsound

\* CrossrepoBackup: what was reported as synced can be had back, and every file is
\* reported on.
CopiesKept == part = "copy" => Copying!KeptForGood /\ Copying!EveryFileTold

\* AuditLog: a log that verifies is complete, one that does not was cut, and a
\* duplicate is a commit tried again.
ScanIsTrue ==
    part = "audit" =>
        /\ Auditing!VerifiedIsComplete
        /\ Auditing!FailsOnlyAfterCut
        /\ Auditing!DuplicateMeansRetried

\* RedundantPath, QuicExchange: what was sent and acknowledged is taken, nothing else
\* is, and nothing twice but when the network failed.
TakenOnce ==
    /\ part = "notice" => Noticing!HandedOnce /\ Noticing!KnownWasSent
    /\ part = "quic" => Exchanging!AckedIsTaken /\ Exchanging!DoubledOnlyIfBroken

\* SftpSession, SftpServer: a handle keeps its path and gives its listing once, what
\* was acknowledged stays; clients meet one host key and are let in as configured.
FilesAsTold ==
    /\ part = "files" =>
          /\ Filing!HandleKeepsPath
          /\ Filing!ListedOnce
          /\ Filing!StoredStays
    /\ part = "sftp" =>
          /\ Starting!SameHostKey
          /\ Starting!UnreadableOnlyIfCut
          /\ Starting!LetInAsTold

\* StateReader: a reader is refused only with a key of its own.
RefusedWithOwnKey == part = "reader" => Reading!RefusedWithOwnKey

\* Rewrite, ConfigImport: a rule that cannot be evaluated does not decide, one that
\* does not compile is as good as absent, and each has the conditions of its text.
RulesAsWritten ==
    /\ part = "rewrite" => Rewriting!FailsClosed /\ Rewriting!OthersUnharmed
    /\ part = "import" => Importing!GuardedAsWritten

\* DualWrite: the stores agree unless a write told otherwise, and aruaru-db is never
\* ahead.
StoresAgreeOrTell == part = "dual" => Writing!DivergenceReported /\ Writing!AuthorityFirst
=============================================================================
