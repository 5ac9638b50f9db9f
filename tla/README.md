# Verification of open-web-server

TLA+ models of the parts of open-web-server that keep state across requests,
with the TLC configurations that check them on small instances and TLAPS proofs
of the properties that matter most. Every definition is translated from the Rust
source; `PROJECT.json` gives, for each one, the lines it stands for.

Paths below are relative to `src/crates/`; `core`, `ledger`, `wire` and `gateway`
stand for the crates `open-web-server-core`, `-ledger`, `-wire` and `-gateway`.

How to run, inside this directory:

    tlc -workers 2 -config MCLedgerInMemory.cfg MCLedger
    tlapm LedgerProofs.tla

## 1. Inventory

### What the system is

One process: an HTTP(S) server for many tenants (`gateway`) that routes a request
to a tenant, a PHP pool, static files or its own API, and a write pipeline
(`ledger`) for the mutations of a game or payment service. The pipeline sends each
mutation to open-runo, which commits it in aruaru-db and answers with a commit id.
`wire` holds the transports and the certificates. Handlers are tokio tasks over
one shared `AppState`; hyper drops a handler's future when its client disconnects,
so every `await` is a place where another handler runs, where this one may stop
for good, and where the process may die. Beside the requests run loops that the
gateway spawns at start: the certificate watchdog, three loops that tell DNS
providers the machine's address, the self update, the cross-repository backup and
the SFTP server.

### Components

| component | state | operations | with whom | what is hard | correct when |
|---|---|---|---|---|---|
| Commit pipeline (`ledger/lib.rs`, `postgres_wal.rs`, `gateway/handlers/{wal,items,transactions}.rs`) | the write-ahead log; nothing else between requests | `commit`: check, append, announce, replicate, forward with retries, mark | WAL, regions, audit file, UDP, mail, open-runo | overlapping duplicates, dropped handlers, lost replies, crash between any two steps | a receipt is true; a key is committed once; nothing leaves before the log row |
| Multi-region replication (`ledger/multi_region.rs`) | one table per region | `replicate`, `PostgresRegion::write` | called by `commit` | partial acks, writes that outlive an aborted commit | upstream never ahead of `min_acks` regions |
| Audit log (`ledger/audit_log.rs`) | an append-only file with checksums | `append`, `scan_and_verify`, `reconcile` | called by `commit` | cut last line, duplicates through retries | a log that verifies is complete; a duplicate means a retry |
| State reader (`ledger/state_reader.rs`) | a cached API key | `get_at_commit` | open-runo | key expires between two readers, slow reissue | a reader is refused only on its own key |
| Cross-repository backup (`ledger/crossrepo_backup.rs`) | a directory of copies | `sync_once`, `run_loop` | files, a target | one file fails, a kill in a copy, two runs in one second | what was reported as copied can be had back |
| Mail backup (`ledger/disaster_email_backup.rs`) | none | `backup_failed_mutation` | fired by a failed `commit` | lost message | never changes the result of `commit` |
| Certificate store (`wire/tls.rs`, `gateway/handlers/tls.rs`) | map host -> certificate, a pair of files per host | `upsert_pem`, `remove`, `load_from_disk`, `resolve` | management API, ACME, watchdog | concurrent calls on one temporary name, crash between two renames | files are whole, and say what memory says |
| Replay-protected channel (`wire/replay_guard.rs`, `payload_crypto.rs`) | next number; the set of seen numbers | `encrypt`, `decrypt` | UDP and QUIC paths | duplication, reordering, clock, full set, restarts | a payload is handed over once |
| UDP path (`wire/udp_channel.rs`) | sequence counter, set of keys | `send_mutation`, `recv_mutation`, `Deduplicator` | fired by `commit` | loss, duplicates, damage, unbounded set | a mutation is reported once |
| QUIC path (`wire/quic_channel.rs`) | one connection per mutation | `send_mutation_over_quic`, `accept_one_mutation` | - | connection ends at any step | an acknowledged request was taken |
| Key registry (`gateway/keyring.rs`, `handlers/keys.rs`) | hashed keys with owner and expiry, per-key usage, a JSON file | `issue`, `revoke_owner`, `verify`, `load_from_disk` | management API, admin login | stale record after an unlock, failed write | a revoked or expired key is not accepted, also after a restart |
| Two-factor store (`gateway/two_factor.rs`, `handlers/admin_login.rs`) | enrolments, last used step, mail codes, failure counters, overrides, a JSON file | `enroll`, `confirm`, `reset`, `verify_login`, `verify_for_override` | issues keys of the key registry | separate locks for check and count, clock steps, tables at their limit, restart | a code is accepted once; a lock holds |
| Tenants, redirects, virtual hosts (`gateway/{tenant_router,redirects,web_vhost}.rs`) | map host -> entries, a TOML file | `add`, `upsert`, `remove`, `resolve`, `persist`, load | management API, dispatch | persist awaits inside a cancellable handler, two reads in one `resolve` | the file says what memory says; the best rule that held all along answers |
| Dispatch and proxy (`gateway/{lib,proxy,connect}.rs`) | `AppState` | order of the routing rules, one retry | all of the above | rules change between look-ups, an answer breaks half-way | one rule answers; what a backend carried out is not sent again |
| Rate limiter (`gateway/rate_limit.rs`) | token buckets | `try_acquire`, `evict_idle` | dispatch | refill, cap, eviction | no more than burst and rate pay for, no less |
| Access log (`gateway/access_log.rs`) | the current file and numbered backups | `write_entry_blocking`, `rotate` | dispatch | crash or error inside a rotation | a written entry stays until its backup is due |
| PHP pool (`gateway/php_server.rs`, `php_fastcgi.rs`) | child per document root, port counter | `ensure_running` | dispatch | dead child, wrapped counter, dropped handler | an address answers for its own root |
| Domain watchdog (`gateway/domain_watchdog.rs`) | failure counters | `run_once`, reissue | certificate store, ACME | registry changes during a round, no backoff | reissue is justified and nobody is left waiting |
| ACME (`gateway/acme.rs`) | account key file, challenge tokens | `obtain_certificate_http01` | an external CA, certificate store | concurrent orders, shared tokens and names | the CA finds the answer; the key in use is on disk |
| Addresses (`gateway/{free_domain,custom_dns,custom_dns_ipv6_autoupdate,ddns}.rs`) | registries of names, last address, heartbeat | three loops and their API | DNS providers | names change during a pass, lost answers, long naps | what counts as told is told |
| Self update, power profile (`gateway/{self_update,power_profile}.rs`) | the installed files, a backup | check, copy, probe, switch, roll back | GitHub, the operating system | crash or failure between any two steps, who has the port | a binary that starts is left, and somebody who serves |
| SFTP (`gateway/sftp.rs`) | host key file, accepted keys, open handles | start, login, file requests | the file system | several channels over one tree, crash while the key is written | handles reach their path; clients meet one host key |
| Rewriting and import (`gateway/{rewrite,config_import}.rs`) | rules; what a parser keeps between lines | `apply`, `import_apache`, `import_nginx` | virtual hosts | rules that do not compile, conditions kept across lines | a rule that cannot be evaluated decides nothing |
| Dual write (`gateway/dual_write.rs`) | none; two databases | `write` | free domains | one side fails, writes overlap, a write is made late | no divergence passes for a full success |
| HTTP middleware (`middleware/*`, `compression.rs`, `static_files.rs`, `ip_allowlist.rs`) | none | per request | dispatch | order of checks | equal to their definition |
| MPTCP, AF_XDP, JWT, payload keys, OAuth, UPnP, demo, `ios-bridge`, `android/`, `ios/`, `installer/`, `scripts/`, `site/` | sockets, libraries, packaging | wrappers | - | - | - |

The concrete hazards, each at its line with the properties that would catch it
going wrong, are under "hazards" in `PROJECT.json`. Two have no property:
`ledger/lib.rs:112`, see Fairness, and `gateway/custom_dns.rs:281`, where every
write of a name takes the names of the same pass away; the code says so of itself.

## 2. Modules

| module | models | status |
|---|---|---|
| `Ledger` | `Ledger::commit` run by concurrent handlers, both WAL backends, regions, audit file, fire-and-forget tasks, upstream | checked, proved |
| `CertStore` | `TenantCertResolver` for one host: memory, two files, concurrent calls | checked, proved |
| `SecureChannel` | one direction of `SecureChannel` with its `ReplayGuard` | checked, proved |
| `HostRegistry` | the tenant, redirect and virtual-host registries: map, lock, file, dropped handlers | checked, proved |
| `DurableMap` | what a persisted registry promises: a map and its copy on disk | refined by `HostRegistry` |
| `AdminAccess` | two-factor store, logins, key registry, the checks before every management handler | checked, proved |
| `Dispatch` | the way of a request through the routing rules and the proxy, with management calls that change the rules | checked, proved |
| `RateLimiter`, `PhpServerPool`, `AccessLogger` | what else a request meets | checked, proved |
| `DomainWatchdog`, `AcmeIssuance` | rounds of checks and the orders they place; an order call by call | checked, proved |
| `FreeDomain`, `ZoneUpdate`, `AddressLoop` | the three loops that tell an address, their registries and API, the power profile | checked, proved |
| `SelfUpdate`, `CrossrepoBackup`, `AuditLog` | what writes files beside the requests | checked, proved |
| `RedundantPath`, `QuicExchange`, `StateReader`, `DualWrite` | the paths to other machines | checked, proved |
| `SftpServer` | start, host key and logins | checked, proved |
| `SftpSession` | the requests of several channels | checked, proved |
| `Rewrite`, `ConfigImport` | the rewriting of paths; the import of Apache and Nginx configurations | checked, proved |
| `Selection` | what `Vec::retain` leaves of a sequence; used by `Rewrite` and `AdminAccess` | proved where it is used |
| `LedgerProofs`, `CertStoreProofs`, `HostRegistryProofs`, `SecureChannelProofs`, `AdminAccessProofs` | theorems about the module of that name | proved |
| `BackgroundProofs`, `UpkeepProofs` | theorems about `Background` and its parts | proved |
| `RequestPathProofs` | theorems about `RequestPath` and its parts | proved |
| `MCLedger`, `MCCertStore`, `MCHostRegistry`, `MCSecureChannel`, `MCAdminAccess`, `MCSelfUpdate` | instances for TLC: symmetry and sets | - |
| `RequestPath`, `MCRequestPath` | `Dispatch`, `RateLimiter`, `PhpServerPool`, `AccessLogger` side by side; an instance for TLC | - |
| `Background`, `MCBackground` | the sixteen modules that run beside the requests side by side; an instance for TLC | - |

`RequestPath` and `Background` put modules side by side that share no
variable. Their product would show nothing that the parts do not, so a variable
`part` names the one that moves; the initial choices of the others are pinned to
one value, and each type invariant is evaluated for the part that moves. Where two
components do interact the interaction is inside one module: handlers with the WAL
and upstream in `Ledger`, logins with keys in `AdminAccess`, requests with
management calls in `Dispatch`, orders with the challenge store in
`AcmeIssuance`, the power profile with a loop in `AddressLoop`. A module that is instanced states what its constants must be as
`Parameters`; `RequestPath` and `Background` assume it, so that TLC evaluates it.

### Ledger

| variable | code |
|---|---|
| `wal` | `InMemoryWal.entries` or the table `wal_entries`: no row, a row without a commit id (`Pending`), or its commit id |
| `handler` | where a call of `commit` is, its key, `attempt`, the region tasks it waits for and their acks, the commit id in the reply |
| `regions`, `orphans` | the tables `region_mutations`; region tasks whose handler was dropped |
| `audit` | records in the audit file per key |
| `tasks`, `delivered` | spawned UDP and mail tasks; messages that arrived |
| `upstream`, `strays` | aruaru-db by commit id; requests open-runo may still process for nobody |
| `told` | history: what handlers answered |

| action | code |
|---|---|
| `Submit` | `grant_item`, `charge` call `commit` |
| `Check`, `Append`, `Announce`, `RegionWrite`, `Replicated`, `ForwardOnce`, `ForwardOk`, `ForwardErr`, `Mark` | the segments of `commit` between two awaits, in order, with its early returns |
| `Cancel` | hyper drops the handler's future; spawned tasks live on |
| `OrphanWrite`, `TaskDone` | spawned tasks end |
| `Crash` | the process dies; `InMemoryWal` is empty afterwards, `PostgresWal` is not; nothing is replayed, as in the code |
| `UpstreamCommit`, `StrayCommit` | external: open-runo commits, with or without somebody waiting |

A WAL call ends "ok", "fail" (nothing happened) or "unacked" (it happened and the
caller got an error). `UpstreamDedups` says whether open-runo answers a key it
knows with the first commit id; the repository does not contain open-runo, so what
needs this is stated as an assumption of the theorem or of the run.

### CertStore

One host stands for all, because names of different hosts differ also while they
are written. Names (`tmp`, `final`) and contents (`content`, by inode) are kept
apart, because two calls of one process use the same temporary name and a rename
moves whatever that name refers to. `call` is where each concurrent `upsert_pem`
or `remove` is; `memory` is the map entry. `Upsert` and `Remove` are the locked
part, `Open`, `Write`, `Rename`, `Unlink` the file operations after it, each of
which may fail; `Crash` includes the reload of `load_from_disk`. `persisted` is a
history variable: the last call met no file error.

### HostRegistry

`TenantRegistry`, `RedirectRegistry` and `WebVhostRegistry` persist in the same way,
so one module stands for the three: `Prefix` is `{}` for the two that know no path
prefixes, and `SetCompatMode` exists only for virtual hosts. `memory` is the map
behind the lock, by place (host and prefix). As in `CertStore`, names (`tmp`,
`final`) and contents (`content`) are kept apart. `call` is where each `persist` is;
`attached` says that its handler still waits, and holds the lock.

`Add`, `Upsert`, `SetCompatMode` and `Remove` change the map and hand the text to
the blocking pool, in one step under the lock; the look-up and the early return of
each are its guard. `Open`, `Write` and `Rename` are what the pool does, each of
which may fail, and with it `persist`, which only logs. `Cancel` drops the handler:
the lock is free, the operation on the pool goes on, and nobody continues after it.
`Crash` includes the load at the next start, which ends the start if the file
cannot be read. Without a configured file nothing is persisted; that case has no
behaviour worth a module.

### SecureChannel

A frame is what its associated data binds: number, time and the sender's life.
`Encrypt`, `Decrypt`, `SenderRestart`, `ReceiverRestart` and `Clock` act on
`nextSeq`, `seen` and the frames on the network, which delivers them any number of
times in any order. `accepted`, `repeated`, `refused` and `forgot` are history.
Frames that fail authentication never reach the guard and are left out.

### AdminAccess

None of these functions awaits, so a handler stops only when the process dies, but
handlers of other threads come between two of its critical sections. Each critical
section is an action and `handler[w].stage` names the next one.

| variable | code |
|---|---|
| `enrollments`, `enrollFile` | `TwoFactorStore.enrollments` (secret, confirmed, last accepted step) and its file |
| `overrides`, `challenges`, `otpRequests`, `failures` | the other maps of `TwoFactorStore`, in memory only |
| `records`, `recordsFile`, `usage` | `KeyGuardian.records` with its file, and the per-key rate state |
| `handler` | the request of each worker: what it carries, when it was received, the record it copied |
| `accepted`, `again`, `answered`, `revoked`, `lockEnd`, `forgot` | history, for the properties |

| action | code |
|---|---|
| `Start` | the check of the request: `check_admin_auth`, `check_breakglass_auth`, `tls_token_decision`, the allow list |
| `CheckLocked`, `MatchMail`, `ConsumeTotp`, `DropChallenge`, `CountFailure`, `Grant`, `IssueLoginKey` | `verify_login` and `verify_for_override`, lock by lock |
| `AllowOtp`, `FindChallenge`, `FindAddress`, `SendChallenge` | `request_otp` |
| `Unenroll`, `Ungrant`, `Unsend`, `Unlock` | `reset`, which clears four maps one after the other |
| `VerifyRecord`, `VerifyUsage`, `CheckOverride` | `KeyGuardian::verify` with its two locks, and the override |
| `Enroll`, `Confirm`, `IssueKey`, `Revoke`, `Status` | the handlers behind the check |
| `Crowd`, `CrowdRequests` | the tables reach `MAX_TRACKED_KEYS` through other owners and are emptied |
| `Crash`, `Clock` | the process dies and loads its two files; time |

A registry is written to its file under its lock; a write that fails is only
logged, so the file keeps the old contents. `forgot` records that a restart lost
such a change, and the properties say what holds until then.

### What a request meets

`Dispatch` follows one request for one host: each look-up takes the lock of its
own registry and is an action of its own; so is each change by a management call.
`Start` also chooses what middleware decides from the request alone.
`resolve` of the tenants is two look-ups, `update_tenant` a check and a change,
sending is an attempt, at most one retry, and an answer that may break half-way.
Paths are short sequences of characters, so that the precedence of prefixes is
computed and not assumed; `Loaded` includes a file with two equal entries, which
`load_from_toml` (`tenant_router.rs:194`) accepts and `add` does not.

`RateLimiter` counts tokens in fractions of a unit. `PhpServerPool` holds the lock
over the start of a child, as the code does; a child that ends is never noticed.
`AccessLogger` has one action per file operation of an entry and of a rotation,
each of which may fail or be the last one before a crash.

### What runs beside the requests

| module | variables that are code | actions |
|---|---|---|
| `DomainWatchdog` | the hosts of both registries, `expectations`, `hosts` with their failures, the round | `StartRound`, `Check` (one host, with its order), `Repaired`, `EndRound`; `Register`, `SetExpectations`, `UpsertTls`, `RemoveTls` by operators; `Restart` |
| `AcmeIssuance` | account key (memory, temporary and final name), `ChallengeStore`, call stages; the CA's authorizations | `Exchange` is the next step of a call of `obtain_certificate_http01`; `Validate` the CA's fetch; `Restart`. What becomes of the certificate is `CertStore`'s |
| `FreeDomain` | `DomainRegistry` (`entries`, `last_update`), `last_ip`, `last_ipv6`; records at DuckDNS | `StartPass`, `FetchIp`, `FetchFails`, `Update`, `EndPass`; `Register`, `Announce`, `Remove` by the API; `Move`, `Land`, `Restart` |
| `ZoneUpdate` | `Ipv6AutoUpdateRegistry`, `last_ipv6`; the zone at the provider | `StartPass`, `Fetch`, `Update`, `EndPass`; `Register`, `Remove`; `Move`, `Land`, `Restart`. The table of results is only shown, and left out |
| `AddressLoop` | `PowerProfileRegistry.current`, `last_ip`, `LAST_TICK_UNIX`; the record at the provider | `Begin`, `Fetched`, `Fails`, `Updated`, `Tick`, `Wake`, `SetPowerProfile`, `Move`, `Land` |
| `SelfUpdate` | installed files, backup, `AutoUpdateState.enabled`, the processes | `Check`, `BackUp`, `Open`, `Write`, `Probe`, `Exit`, `TakeOver`, `Restore`, `Restored`; `Release`, `SetAutoUpdate`, `Crash`, `Start` |
| `CrossrepoBackup` | the directory of copies, the run with its report | `StartRun`, `Read`, `Upload`, `Write`, `EndRun`; `Tick`, `Kill` |
| `AuditLog` | the lines of the file, its lock, the parts of a line still to write | `Begin`, `Lock`, `Write`, `WriteEnd`, `Fail`, `Commit`; `Crash`. Scan and reconcile are operators |
| `RedundantPath` | `next_seq`, `Deduplicator.seen`, receiving tasks; datagrams | `Send`, `Receive`, `Decode`, `InsertIfNew`; `Lose`, `Damage`, `Restart` |
| `QuicExchange` | the connection of each send, the stage of `accept_one_mutation` | `Connect`, `Write`, `TakeAck`, `Fail` at the client; `Accept`, `Read`, `Ack`, `Return`, `Drop` at the server; `Break` |
| `StateReader` | `cached_api_key`, readers; keys at open-runo | `Begin`, `Issue`, `IssueFails`, `Keep`, `Ask`, `Leave`; `Expire` |
| `DualWrite` | the two databases, callers | `Call`, `Insert`, `RecordChange`, `Fail`, `Land` |
| `SftpServer` | the host key in memory and file, accepted keys, settings, sessions | `Spawn`, `LoadKey`, `WriteKey`, `SetMode`, `Bind`, `Enter`, `Leave`; `EditKeys`, `Kill`, `PowerFails`, `Sync` |
| `SftpSession` | the tree, handles per channel, listings | the requests that change files or handles, those of two calls in two steps; `ChannelEnds`, `Restart` |
| `Rewrite` | rules, the last request and its outcome | `AddRule`, `Ask` |
| `ConfigImport` | `ParseAccumulator` and what both parsers keep between lines | one action per kind of line; `Build` |

Providers, the CA, GitHub, file systems and clients are external: they are what
the code's use of them allows, an answer that is lost and a change that was made
all the same included. A request whose connection broke, or whose caller went away,
may be on its way still: `Land` is its arrival at any later time, after later requests
too (`strays` in `Ledger`). What an echo service answers is an address or a page, since
`ddns.rs:104-107` and `free_domain.rs` look at neither its status nor its form; and the
provider of `ddns.rs` may refuse with a status of success (DuckDNS answers "KO"), which
`free_domain.rs:238,292` notice and `ddns.rs:86-88` does not.

## 3. Runs

| run | instance | shows |
|---|---|---|
| `ledger_inmemory` | 2 handlers, 2 keys, 2 commit ids, 3 requests, 2 attempts, one region, 1 crash, `InMemoryWal`, with fairness | receipts are true and all equal; every accepted request ends |
| `ledger_postgres` | `PostgresWal` with failing and unacknowledged calls, regions, audit, UDP and mail, 1 crash | nothing leaves before the log row; regions and audit are ahead of upstream; a settled key is not admitted again |
| `ledger_pending_answer` | violation, 1 handler, 2 requests | `PostgresWal`: a client that was told 409 and sends its request again is answered 200 without a commit id |
| `cert_serial` | 1 call at a time, 4 calls, 3 certificates, every file operation may fail, 2 crashes | files are whole, a restart serves the same |
| `cert_half_pair` | violation, 1 call, 1 crash | a new chain with the old key is loaded and served |
| `registry_serial` | 1 handler at a time, 3 changes of 2 places, every file operation may fail, disconnects, 2 crashes | an undisturbed change is on disk when it is answered; implements `DurableMap`, so the file is always a whole state of the map |
| `channel_forgetful` | 2 numbers per life, 2 lives, 2 instants, restarts, a small set | a payload is handed over twice only after the guard forgot; a refusal of a first arrival needs another life |
| `admin_access` | 2 handlers, 1 owner, 3 operations of every kind, failing writes, crashes at any time | a code is used once, a mail code is good for one attempt, a revoked key admits nothing, a lock holds |
| `request_path` | see below | what a request meets |
| `request_retry` | violation, same instance | a backend that carried a request out is asked again when its answer breaks off |
| `background` | see below | what runs beside the requests |
| `update_outage` | violation, 1 newer release, no crash | an update of which every step succeeds may leave nobody who serves |

The properties of `request_path`:

| property | says |
|---|---|
| `BestStays` | no rule that was there all along and is better than the one that answered is passed over, although the look-ups of one request see different states of the registries |
| `ComesBackByOverlap` | `update_tenant` brings a removed host back only when the removal came between its check and its change |
| `WindowKept` | over every window no more is admitted than burst and rate pay for, and nothing is refused that they pay for |
| `ChildrenKnown` | while no child was left behind by a killed gateway: every child is registered for its root or about to be, and an answered address is not another root's child's, unless the port counter has wrapped |
| `BackupsKept` | an entry whose write ended stays until its backup is due to go; the backups are in order |

and of `background`. Each joins the properties of one component, or of components
that promise the same; the conjuncts are defined, and explained, in the modules, and
every one of them but `ToldInTime` is broken by a mutated definition under "mutants":
an address that is never told takes more steps than any other part has, so that TLC
meets it only at the end of the run.

| property | conjuncts from | says |
|---|---|---|
| `RepairsDue` | `DomainWatchdog` | a certificate is asked for only after as many failures as the threshold, for a host that was registered when the round began; a host without one is not left waiting |
| `IssuanceSound` | `AcmeIssuance` | the CA finds the answer as long as it may ask; tokens stay only where a call ended early; the account key in use is on disk |
| `AddressesTold` | `FreeDomain`, `ZoneUpdate`, `AddressLoop` | what a loop takes for told is at its provider, unless it was refused under a status of success or another request was taken since; the zone holds only addresses; a removed name has no status; a loop that is alive looks alive, and a new address counts as told in time |
| `UpdateHarmless` | `SelfUpdate` | an attempt that was not cut short leaves a binary that starts; whoever serves passes the health check. That somebody serves is what `update_outage` refutes |
| `CopiesKept` | `CrossrepoBackup` | what was reported as copied can be had back; every file is reported on |
| `ScanIsTrue` | `AuditLog` | a log that verifies is complete, one that does not was cut, a duplicate is a commit tried again |
| `TakenOnce` | `RedundantPath`, `QuicExchange` | a key is handed out once between two restarts, and only if it was sent; an acknowledged request was taken, and comes again only if the network broke its connection |
| `FilesAsTold` | `SftpSession`, `SftpServer` | a handle reaches the path it was opened with, a listing is given once, what was acknowledged stays; clients meet one host key, it keeps the server off only if it was cut, and who is in was to be let in |
| `RefusedWithOwnKey` | `StateReader` | a reader is refused only with a key that it was issued itself |
| `RulesAsWritten` | `Rewrite`, `ConfigImport` | a rule that cannot be evaluated does not decide, one that does not compile is as good as absent; an imported rule has the conditions its text sets |
| `StoresAgreeOrTell` | `DualWrite` | the two databases hold one address for a name, unless it is being written, or some write of it did not report full success or met another; aruaru-db never holds what PostgreSQL never had |

### Bounds

`Ledger`: two handlers let duplicates overlap, and a third request resends after either
of them; two keys are needed for one key's row to be mistaken for another's; two attempts
for a retry after a lost reply; one crash separates what happened before from what is
asked after, and a second adds only a third life of the same kind. `CertStore`:
three certificates let a reload return one that is neither the served nor the
previous one, and the inodes are enough that a call never waits for one.
`HostRegistry`: one handler stands for changes that do not overlap an abandoned
one, because the lock lets only one through; a second crash meets the temporary file
of the first life. `SecureChannel`: the set is smaller than the frames of a life, so
that it overflows, and there are instants inside and outside the window. The guard
drops the least number of an overfull set also when its frame is still fresh, as the
comment at replay_guard.rs:26 accepts; `forgot` records it.

`AdminAccess`: two handlers of one owner are the least that interleave; the limits
(failures, mails, keys) are one or two, so that each is met, and its tables are
emptied by the crowd of other owners; crashes need no bound, the operations have
one. `Dispatch`: two workers, one of which may be a management call, and three
prefixes of which one is a prefix of another.
`RateLimiter`: a rate that does not divide the burst, and a clock that runs past the
idle limit. `PhpServerPool`: four ports and three children, so that the counter
wraps onto a port in use. `AccessLogger`: three backups and six entries fill all of
them. In `MCBackground` each part has two tasks, names, keys or addresses (three
names and a capacity of two in `ZoneUpdate`, so that the limit is met), a threshold of
two, one crash or two; three SFTP handles; five lines of configuration, enough for a
condition, a block, a rule and what follows it. One request per part may be on its
way for nobody (`MaxLate`): it can arrive after any later one, and the next may break as
soon as it has. In `FreeDomain` the machine's addresses change one at a time. Symmetry is used where no constant
tells the members apart: workers and values of `Ledger`, `CertStore`,
`HostRegistry`; workers of `AdminAccess` and `MCRequestPath`; not in `MCBackground`.
`CHECK_DEADLOCK FALSE` is set because the bounded runs stop when the requests, calls
or frames are used up.

### Fairness

`LiveSpec` of `Ledger`, for `Handled` of `ledger_inmemory`, only. Tokio polls every ready task, which is weak fairness of each
handler's own steps. That an exchange with upstream ends, in a reply or an error, is
an assumption about the network and open-runo and not about this code:
`reqwest::Client::new()` (`ledger/lib.rs:112`) has no timeout, so against an upstream
that stays silent a handler waits for ever and does not retry, contrary to
docs/integration.md:68-69. Cancellation and crashes are not fair. `AddressLoop`
needs no fairness: its steps take time, which the bounds of the code limit, and
"in time" is a safety property there.

### What the models taught, and no run shows

Each of these follows from a module in a few steps, with the constants named.

- `InMemoryWal`, duplicates that overlap: the slower one's `append` overwrites the
  commit id the faster one recorded (`Ledger`, `SettledNeverReadmitted` with
  `Backend = "InMemory"`); the key is open again.
- `CertStore` with two workers: `write_atomically` uses one temporary name, so two
  calls may leave a mixed or empty file (`NeverPartial`), and memory and disk may end
  with different certificates (`RestartServesSame`).
- `HostRegistry` with two workers: the write of an abandoned `persist` mixes with the
  file of the next change (`FileLoads`, `KeepsPromise`). The same holds for the
  redirect and virtual-host registries.
- The default log (`gateway/state.rs:171`) is in memory and nothing reads a log back
  at start, so the replay after a restart of docs/integration.md:72-73 does not
  exist; `Crash` models that.
- `load_from_toml` accepts two equal entries; one `remove` takes both away.
- `evict_idle` (rate limiter), `DualWriteCoordinator`, `UdpReceiver` and
  `accept_one_mutation` have no caller outside tests. In the dual write an owner that
  differs stays different (PostgreSQL keeps the first); in the UDP path a mutation
  whose handling fails is not delivered again; a QUIC request that was read but not
  acknowledged is not returned.
- The virtual hosts call `rewrite::apply` without a context, so rules with conditions
  never fire there.
- PHP children whose start was dropped are killed, but those of a killed gateway live
  on and keep their ports.
- A log entry whose line end is missing is joined by the next one.
- In `acme.rs` `reqwest` has no timeout: one silent CA stops all checks of the
  watchdog. The watchdog accepts any certificate, so an expired one is never a
  failure, and a refused TCP connection counts as broken TLS.
- An update whose new version is sound may end the service (`update_outage`, and
  `self_update.rs:297`): the new process is spawned before the old one exits, and ends on
  the port that the old one still has; the old one then exits with status 0, which
  `Restart=on-failure` (`install.sh:61`) takes for no failure. Under systemd's default
  `KillMode` the spawned process would, besides, be ended together with the service; that
  is not modelled.
- `ddns.rs`: an address that DuckDNS refuses with 200 and "KO" counts as told, so the
  record stays wrong until the address changes again (`ToldIsTaken` without `~torn`); any
  text the echo service answers counts as an address, also in `free_domain.rs`.
- Dual write: a request of a write that failed may be taken after a later full success
  and undo it in one store. Nothing compares the stores afterwards. `DualWrite` is about
  the subdomains of one base domain, since aruaru-db is told the subdomain alone.
- A certificate whose files could not be written is served until the next restart and
  then gone: `tls.rs:235-250` only logs. `CertStore` has this (`RestartServesSame` asks
  for a call that met no file error).
- The naps of the saving profile are 15 minutes, the comment at `ddns.rs:31-35` calls
  10 minutes without a tick abnormal.
- On Linux `fs::copy` onto the running binary ends with ETXTBSY, so the update gives
  up; a rollback leaves the new `version.json` in place. `~overwrites` is that case.
- `crossrepo_backup`: files of one name, or two runs in one second, share a label.
- `audit_log`: a record appended behind a cut line is glued to it, and the scan fails
  from then on.
- SFTP: `open` ignores truncate, create and exclusive; `rename` checks and then acts,
  so it may overwrite; `rmdir` of `/` over an empty root removes the root; a cut host
  key keeps SFTP off at every start; accepted keys are read once; a write to a file
  that was removed meanwhile is acknowledged.
- State reader: a slow reissue may put an older key over a newer one.
- Import: an unreadable `RewriteCond` is skipped, so its rule fires under fewer
  conditions; an Nginx `if` on one line takes the following lines for its block, and
  the block of an unreadable `if` is read as if it stood outside.

## 4. Proofs

TLAPS proves the following for every value of the constants that satisfies the
named `ASSUME`s of the module; TLC evaluates these in every run.

`LedgerProofs` (all keys, handlers, regions, attempts and crashes):

- `TypeCorrect`: `TypeOK` is inductive; its conjunct on busy handlers (a handler
  has a key, one about to mark has a commit id) is what makes it so.
- `ReceiptSafety`: `ReceiptIsStored`. The invariant `ReceiptInv` adds that every
  commit id in a log row, and every id in a handler's reply, names that key
  upstream; `upstream` only grows (`UpstreamGrows`).
- `WriteAhead` (`Backend = "Postgres"`): `WriteAheadFirst`. The invariant adds that
  a handler past its append, an orphan, a task and a stray request have a row, and
  that rows are never removed (`RowsKept`).
- `SettledStays` (`Backend = "Postgres"`): the action property
  `SettledNeverReadmitted`, from: a confirmed key has a row.
- `ReplicatedFirst`: `RegionsBeforeStore`. The regions that have a row only grow, and a
  handler past `replicate` has counted at least `min_acks` of them: the invariant
  relates the count of acknowledgements, a number, to the set of regions.
- `AuditedFirst` (an audit file that can be written): `AuditCoversStore`.
- `OneReceipt` (`InMemoryWal`, `UpstreamDedups`): `AnswersAgree` and
  `NoSilentSuccess`, from `ReceiptInv` and `OneCommitInv`: a key has at most one commit id
  upstream.

`HostRegistryProofs` (all hosts, configurations, handlers and failures):

- `TypeCorrect`: `TypeOK`, also when handlers are dropped and operations overlap.
- `FileAlwaysLoads` and `Refinement` (`Serial`): `FileLoads` and
  `Spec => KeepsPromise`. `Serial` says that no handler is dropped, or that there is
  one; without it the file may be mixed, see above. `DiskInv` is the inductive
  invariant: one operation at a time, its text is the map, its file is the temporary
  one and not the file the next start loads, empty before the write and the map's
  text after it.

- `DiskIsCurrent` (`Serial`): `DiskKeepsUp`. `SavedInv` adds what the running operation
  has changed and not yet written.

`CertStoreProofs` (all callers, certificates, inodes, failures and crashes):

- `TypeCorrect`: `TypeOK`, for calls that overlap too.
- `FilesComplete`, `RestartIsFaithful` (`Serial`: one call at a time): `NeverPartial`
  and `RestartServesSame`. `FilesInv` says what the temporary file holds at each step of the call; the rest
  relates the two final files to the served certificate, file by file.

`SecureChannelProofs` (every window, set size, bound and set of times):

- `TypeCorrect`, and `GuardSafety`: `NeverTwiceUnlessForgot`. `GuardInv` says that
  as long as nothing was forgotten the set holds the number of every accepted frame,
  and that what is in the set was accepted in some life; a number names one frame of a
  life.
- `FirstArrivalsPass`: `FalseAlarmNeedsRestart`, from the same invariant.
- `MemoryBounded`: `SeenBounded`, by the cardinality of a set with one element more
  and one less.

`AdminAccessProofs` (all owners, handlers, times, limits, keys and crashes):

- `TypeCorrect`: `TypeOK`. Its conjunct on the times of mail requests needs what
  `Selected` keeps of a sequence: elements of it, and no more than there were, so
  that no more than `OtpLimit` are remembered (`SelectedTypes`, see Recursion below).
- `CodesAreUsedUp`: `CodeOnce`. The invariant relates the last accepted step of an
  enrolment, in memory and in the file, to the history of accepted codes, and a
  handler past its check to the secret it was checked against.
- `MailCodesAreSpent`: `MailSpent`. A mail code that is still stored was answered by
  no login, and codes are numbered, so a later one is another.
- `RevocationHolds`: `RevokedNeverActs`, from: a revoked key is in no record, neither
  in memory nor in the file unless a change was lost, and a handler that has copied a
  record began before the revocation.
- `LocksHold`: `LockHolds`, an action property: while the lock of an owner lasts no
  handler of that owner passes `CheckLocked`, also when a failure counted for an
  older attempt arrives late.

`BackgroundProofs` and `UpkeepProofs` prove about `Background` all that its run
checks. Each part has a section, with its types and its inductive invariant, for
every value of its own constants; a lemma `...Moves` says that a step of
`Background` is a step of that part or leaves its variables alone, and carries the
results over. `BackgroundProofs` extends `UpkeepProofs`, because the last theorem
joins all sixteen parts. The invariants:

- `TakenAsSent` (`TakenOnce`): a key counts as handed out only if it is in the set of
  the deduplicator; an unharmed datagram carries what was sent; the stage of the
  QUIC server's task tells what its client may have received.
- `RefusedOnItsOwn` (`RefusedWithOwnKey`): a reader that asks holds a key it was
  issued, or one that another has cached since; after its second issue, its own.
- `NoSilentDivergence` (`StoresAgreeOrTell`): writes of one name that overlap know of each
  other and leave the name in doubt, as does a request at large; PostgreSQL holds the
  address of a write that has got through to aruaru-db and met no other.
- `CopiesCanBeHad` (`CopiesKept`): what was reported is in the target under its label
  or was kept when a later run copied over it; a run has reported the files it is past.
- `ScanTellsTheTruth` (`ScanIsTrue`): at most one task writes, into the last line;
  every other line is a whole record or was cut; an acknowledged append has a whole
  line of its own; a key has no more lines than attempts.
- `RulesStayAsWritten` (`RulesAsWritten`). Of `Rewrite`: the first rule that fires
  decides (`RewritingFirstDecides`), and what was answered last is what the rules say of
  the request that was asked last. That a rule which does not compile is as good as
  absent compares two lists: the rules that do compile are an increasing enumeration of
  their positions in the whole list (`RewritingSelectedEnumerates`), so that the first
  that fires is the same rule in both. Of `ConfigImport`: a rule that comes now would get
  the conditions that the text sets for it, which in Nginx holds only as long as no
  block stood on one line (`ImportingPendingInv`).
- `TypesKept` (`TypeOK`): the types of all sixteen parts.
- `UpdatesDoNoHarm` (`UpdateHarmless`): the binary is the old one until it is opened
  and the new one once it is written, and the backup is sound from before that on;
  the one to take over has passed the health check.
- `IssuedSoundly` (`IssuanceSound`): a pending
  authorization belongs to a call that waits for it or to a token left over; the file
  under the temporary name is written through by calls that opened it, and two of them
  leave a whole key of one or the other.
- `RepairsWhenDue` (`RepairsDue`): the count of failures of a host in the registry is
  the number of failed checks since its last success, for each point of the round; a
  round without a certificate is one of them.
- `AddressesToldWell` (`AddressesTold`): what `last` holds is in the record of every
  name that was not set up or reached by a late request since, as long as no update of
  another address failed; within a pass the same holds of the addresses it sends, for the
  names it has done. A request at large carries an address, never a page. In
  `AddressLoop` the time until the next call is bounded at each stage.
- `FilesAndLoginsAsTold` (`FilesAsTold`). Of `SftpServer`: the key in use is the one in
  the file, and unless the file was lost it has the key that the clients keep, or is
  cut. Of `SftpSession`: the tree is closed under the directory of a path, nothing lies
  under a file, and a file has one name (`FilingTreeInv`); a rename moves what is under
  the old name to the same place under the new one and loses no file. A rename under way
  found no file under its new name, a handle that the client holds is open with its path,
  and what was acknowledged of a file is no longer than the file.

`RequestPathProofs` proves about `RequestPath` all that its run checks, in one
section per part and with the same `...Moves` lemmas:

- `TypesKept`: `TypeOK`. The lock of the pool is with a task that starts a child, and
  the log is longer than its limit only by one long entry, or because no backup is kept
  and the file could not be removed (`MaxBackups = 0`).
- `BestRuleChosen` (`BestStays`): the look-ups that a request is past have ruled out
  their rules among those that held all the time (`RoutingLooksOn`); a rule that held
  all the time holds at the moment of the look-up.
- `HostsComeBackByOverlap` (`ComesBackByOverlap`): only three steps change the entries
  of the host, and an update that is about to change them had seen one. A request is one
  step of `Dispatch` at a time, so the proof is by stages.
- `WindowIsKept` (`WindowKept`): since any admission, what was admitted and the tokens
  left are together no more than burst and rate pay for (`LimitingWithin`), and no less
  for some admission, since which nothing was lost to the upper edge, or the bucket is
  full (`LimitingUsedUp`). The first bounds what is admitted, the second explains what
  is refused.
- `ChildrenAreKnown` (`ChildrenKnown`): a child that lives is registered or in the hands
  of the task that holds the lock; until the counter wraps, ports are given out once and
  are below `nextPort`, so an address that was a root's own is no other root's.
- `BackupsAreKept` (`BackupsKept`): what is in backup g has been rotated g times, and
  once more while this rotation has still to move it (`LoggingAgeInv`); how far the task
  is says which number is free. Lemmas on lines say what a line that lost its end, and
  the entry joined to it, leave in the file.

The assumptions are those under `Parameters`. Two of them rule out values that the code
does not have: the pool has at least two ports (the counter is a `u16`; with one port
its return to the start could not be told from standing still), and `None` is not a text
of the log.

### Recursion

`Selected` is the one recursive definition that the theorems reason about. Neither the
induction theorems of the library, which take an operator as a parameter, nor
`SelectSeq`, which the provers treat as their own, can be used for it. Instead: finite
sets are well-founded by strict inclusion, so a set of numbers has a least element, for
of the intervals 1..n up to its members one includes no other (`Least`); a set of numbers
that holds 0, and n + 1 with n, is therefore all of them (`Induction`). By this the
recursive function inside `Selected` exists (`UptoExists`) and satisfies its equation
(`SelectedDef`), and what it computes is shown for all lengths. `BackgroundProofs` and
`AdminAccessProofs` each have these lemmas, since neither extends the other.

### Only model-checked

`Handled`, because liveness under fairness is beyond TLAPS. Every other property that a
passing run checks is the statement of a theorem. Of the type invariants, which are all
proved, a run repeats those of `CertStore`, `RequestPath` and `Background`.

## 5. Plan

What a continuation would take up, the most important first:

1. `AuditLog` composed with the attempts of `Ledger`, instead of the counter `audit`.
2. The start-up sequence of `run` as a module of its own: which load ends the start
   and which only warns.
3. A history of the mail requests that `AllowOtp` lets through, and the theorem that no
   window has more of them than `OtpLimit` between two clearings of the table.

## 6. Not modelled

Contents of messages, PEM and JSON parsing, cryptography (frames are authentic,
certificates readable or not), SMTP, SQL beyond what a statement does to a row,
elapsed time in the pipeline (a backoff is the gap between two steps), the bytes of
files and compressed answers, and the spelling of configuration lines. Of the SFTP
server: contents, modes, times, links and the requests that only read. Of the address
updates: the ConoHa provider and `register_subdomain`, which are single requests. Of
the self update: the Windows script. MPTCP and AF_XDP only probe what the system
offers. JWT and payload keys are calls of a library without state. OAuth keeps one
map of accounts that is only added to; UPnP asks a router; the demo is a page of
fixed answers. The mobile shells start the gateway; installers, scripts and site are
packaging.
