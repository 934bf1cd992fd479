# Verification of the Secure Data Vault & Threat Intelligence Platform

This directory holds a TLA+ model of the platform's own logic, the TLC
configurations that check it on small instances, and TLAPS proofs of what matters
most about it for every size. The definitions are translated from `app/`; when they
and the documentation disagree, the model follows the code and the disagreement is
listed under [Where code and documents disagree](#4-where-code-and-documents-disagree).

To run something: `tlc -workers 2 -config Vault.cfg MCVault.tla` for a model, `tlapm
Vault_proofs.tla` for proofs. `PROJECT.json` lists the components, the runs, the
source lines of every definition, the hazards and the theorems.

## 1. The system

Two services and two command-line tools share one SQLite file, the directory
`keys/` and the passwords of the users; four analyses and a scanner read files.

| Part | State it keeps | Operations | Talks to |
|---|---|---|---|
| Login (`auth/routes.py`, `security/rate_limiter.py`) | deque of timestamps, violations and block per address, in memory | `login` | database (audit log), token issuer |
| Limiters (`security/rate_limiter.py`) | deque for each key; tokens and time for each key | `SlidingWindowLimiter.check`, `TokenBucketLimiter.check` | login (the first), no route (the second) |
| Registration (`auth/routes.py`, `middleware/validation.py`, `auth/hashing.py`) | `users` rows | `register` | database |
| Tokens (`auth/jwt_manager.py`, `auth/rbac.py`) | blacklist in memory; tokens are with the clients | login, refresh, logout, `get_current_user`; a purge that nothing calls yet | keys on disk |
| Vault (`vault/routes.py`, `vault/key_cache.py`, `vault/vault_engine.py`) | key cache in memory, `.enc` files, `vault_entries` rows | upload, download | file system, database |
| Startup (`main.py`, `auth/keys.py`, `security/file_permissions.py`, `database.py`) | key files, permission bits, tables | key generation, permission scan, `create_all` | file system, database, the other service |
| Honeypot (`honeypot/`) | `captured_events` in memory, `honeypot_logs`, `threat_intel` | catch-all route, classify, persist, alert | the database it shares with the application, a webhook |
| Zero-knowledge login (`zkp/`) | the group's file, registered public values in memory | enrol, prove, verify | file system |
| Password manager (`cli/password_manager.py`) | `site_credentials` rows, the clipboard, a clearing thread | add, get, generate | database, system clipboard |
| Messenger (`cli/messenger.py`, `messenger/e2e.py`) | two key files for a user, a message file | keygen, send, receive | file system, whatever carries the file |
| Access log (`middleware/access_log.py`) | the log file | one line for each response | log analyzer |
| Analyses (`analysis/`, `forensics/`, `vault/caesar_cipher.py`) | none | analyze a log, a capture, a binary; crack a cipher | files, the database |
| PII redaction (`vault/pii_redaction.py`) | none | mask addresses, social security and card numbers | vault routes |
| Aggregated report (`privacy/`) | none | noisy count, k-anonymity | users' rows |
| Scanner (`audit/`) | none | visit syntax trees, SARIF report | source files |
| Administration and demonstration (`admin/`, `insecure/`, `vault/secure_queries.py`) | none | read-only queries | database |

**What makes it hard.** FastAPI runs synchronous handlers on a pool of threads, so
requests meet between any two calls that a handler makes: between asking the
backoff and asking the window, inside the limiters' own methods, between decoding
a refresh token and revoking it, between looking for a name and inserting it,
between looking into the key cache and filling it. Almost everything that
decides (limiters, blacklist, key cache, public values) is memory that dies with
the process, and almost everything that lasts (key files, the group's file,
encrypted files, log lines, message files) is written in place in several steps,
so crashes matter. Two services start at once on one database and lock each other
out of it. Times decide in most components: windows, blocks, expiries, refills,
TTLs, delays. The analyses are one pass over data in which an order or a boundary
is easy to get wrong. `PROJECT.json` lists each such hazard at its line with
the properties that cover it.

**What makes each part correct.** *Login*: no more admissions in a window than
the limiter's threads explain, penalties that are coherent and hold, a check of a password only for an
admission, no answer before its audit row, and an answer for everybody. *Limiters*:
the bucket grants exactly what an allowance over all history grants; threads
inside one check of the window exceed it by a bound only. *Registration*: each
answer is what happened. *Tokens*: what was revoked stays dead, a rotation kills its
parent and replaces it, a role does not outlive its document. *Vault*: a request
works with its own key only, rows have whole files of their owner. *Startup*: keys
outlive restarts and never mix, secrets are not exposed while serving, and both
services come up. *Honeypot*: the tables are an atomic feed, answers tell the truth
about what was stored. *Zero-knowledge login*: a proof is accepted exactly if it was
made of the registered secret, whoever sends it. *Password manager*: get is stable,
a living process takes its password off the clipboard, and nothing else that was there when
it looked. *Messenger*: what is shown was sent, what was sent between settled keys
can be shown. *Analyses, redaction, report, scanner*: each pass agrees with the
definition of what it looks for.

## 2. Modules

| Module | Models | Variables and the code's state | Actions and the code's calls |
|---|---|---|---|
| `LoginGuard` | `login` with the inside of both limiters | `requests` is `_requests`, `violations` and `blockedUntil` are the tracker's dictionaries, `held` what a limiter's method keeps between two steps; `admitted`, `checked`, `crossed` are history | `Arrive`; `is_blocked`: `ReadBlock`, `CheckBackoff`; `check`: `ReadClock`, `DropOne`, `Count`, `Refuse`, `Admit`; `record_violation`: `AddViolation`, `LengthenBlock`, `StampBlock`, `StoreBlock`; either may raise: `LimiterRaises`; `VerifyCredentials`; `reset`: `PopViolations`, `PopBlock`; `LogEvent` / `DatabaseFails`, `IssueTokens` |
| `SlidingWindow` | `SlidingWindowLimiter.check` for one key, by itself | `window` is the deque, `seen` each call's `now`, `admitted` is history | `ReadClock`, `DropOne`, `Count`, `Refuse`, `Admit` |
| `Allowance` | what a token bucket promises: a bound on every stretch of grants | `grants` is the whole history | `Grant`, `Refuse` |
| `TokenBucket` | `TokenBucketLimiter.check` | `buckets` is `_buckets` with exact fractions | `Grant`, `Refuse` |
| `Registration` | `register` with the validators and bcrypt's limit | `users` is the table, `looked` what a request's look-up saw | `Post`, `LookUp`, `Hash`, `Insert`, `Refresh`, `Fault` |
| `Tokens` | `JWTManager`, `TokenBlacklist`, `refresh`, `logout` | `tokens` are all tokens ever issued, `revoked` is `_revoked`, `role` the users' rows | `Login`; `RefreshDecode`, `RefreshRevoke`, `RefreshMint`; `LogoutCheck`, `LogoutRevoke`; `PurgeExpired`, `ChangeRole`, `Restart`, `Tick` |
| `Vault` | the two routes and `KeyCache` | `cache` is `_store`, `files` the storage directory, `entries` the table | `Upload`, `Download`, `LookupKey`, `DeriveAndStore`, `Invalidate`, `WriteIV`, `WriteCiphertext`, `CommitEntry`, `FindEntry`, `Decrypt`, `Damage`, `Crash`, `Tick` |
| `Startup` | imports and start of both services | contents and permissions of the key files, `tables`, what the process loaded | `CheckKeys`, `OpenPrivate` ... `Chmod`, `ScanPermissions`, `InspectTables`, `CreateTable`, `SignToken`, `Crash`, `Loosen`, `FixPermissions` |
| `ThreatFeed` | what the honeypot promises to readers of its tables | `logs`, `intel`, `alerts` | `Record`, `Raise` |
| `Honeypot` | `catch_all`, `_record_event`, `persist_event`, `maybe_alert` | tables, `captured_events`, the lock of the database file; `webhook`: is one configured, `alerts` and `failed`: what was posted to it and which posts failed | `CatchAll`, `Capture`, `Insert`, `Commit`, `MaybeAlert`, `Deny`, `ApplicationLocks`, `Restart` |
| `ZeroKnowledge` | the two routes, the group's file and the proof's equations | `file`, `registered`, each call's step and group, the proof it sends; `raced` is history | `Start`, `Look`, `Read`, `Open`, `Write`, `Enrol`, `Send`, `Replay`, `Find`, `Judge`, `Kill`, `Restart` |
| `PasswordManager` | the CLI and its clearing thread | `rows`, `clipboard`, processes and their threads | `Run`, `Authenticate`, `AddCredential`, `GetCredential`, `CopyToClipboard`, `Exit`; the thread's `CompareClipboard`, `ClearClipboard`, either of which may raise and end it (`FailThread`) |
| `Messenger` | the CLI and `encrypt_and_sign` / `verify_and_decrypt` | key files, the message file, processes | `Keygen`, `OpenPrivate` ... `WritePublic`; `Send`, `UnlockPrivate`, `Encrypt`, `OpenMessage`, `PutMessage`; `Receive`, `Verify`; `Kill`, `Damage` |
| `AccessLog` | `AccessLogMiddleware.dispatch`, `load_log_entries` | the lines of the file, the wall clock | `Dispatch`, `Tear`, `Raise`, `SetClock` |
| `Filtering` | the loops that keep some of what they read, as one fold | | `Filter` |
| `LogAnalyzer`, `PacketSniffer`, `CaesarCipher`, `StringExtractor`, `PiiRedaction`, `SecurityScan`, `PrivateReport` | pure functions | | operators and the definitions they are compared with |

Three components are refinements: `Honeypot`
instantiates `ThreatFeed` with its own tables, `TokenBucket` instantiates `Allowance`
with its history of grants, and `LoginGuard` instantiates `SlidingWindow` with the deque of an
address; each is checked and proved to implement it. What `SlidingWindow` promises
(`OffByThreadsOnly`, checked and proved of that module) is thereby promised of the login. `LogAnalyzer`, `PacketSniffer`,
`PiiRedaction` and `SecurityScan` extend `Filtering`. One pass over data is a fold (`LoadLogEntries`,
`Filter`, `Timestamps`, `Groups`, `Scan`, `BuildRuleMetadata`), and a search that goes on
behind what it found is a recursive function (`Sub`, `ScanFile`); the prover can reason about both.

`MCAnalyses` composes `AccessLog` with `LogAnalyzer` (the analyzer reads the log that
the middleware wrote) and grows the inputs of the other analyses. `MCWorkers` joins
the bucket, the window, the registration and the zero-knowledge login, and
`MCCommandLine` the two programs: a behaviour chooses one of them at its start, so
that one run covers each with its own small bounds. The other `MC` modules give
constants their values. `*_proofs` hold the theorems (section 5).

Each step of a thread or process is one call of the source that reads or writes
shared state, the clock included. What a call does on private data (hashing, encryption, JSON) is part
of the step. Definitions whose names begin with `Bug` belong to no specification:
each is a plausible mistake in the definition after it, and putting it in that
definition's place must violate the property that `PROJECT.json` names.

## 3. Runs

| Run | Configuration | Shows |
|---|---|---|
| `login_threads` | `LoginGuardThreads.cfg` | the deque is the one of `SlidingWindow`, penalties are coherent but for a reset that overlaps a violation, paid-for checks, audit before answer, penalties that hold, every login answered, with two threads on one address between any two calls, failing audit writes, an emptied deque and a power beyond the floats |
| `token_lifecycle` | `Tokens.cfg` | dead tokens stay dead through purges, rotation kills its parent and replaces it, a refresh token is used at most once for each thread, a login's role ages out |
| `token_single_use` | `TokensSingleUse.cfg` | violation: a refresh token is used twice |
| `token_role` | `TokensRole.cfg` | violation: a changed role never reaches a session that keeps refreshing |
| `vault_requests` | `Vault.cfg` | keys are one's own, downloads return what was uploaded, rows have files |
| `startup` | `Startup.cfg` | keys are written once and never mixed, nothing is served with exposed secrets or missing tables (`ServesReady`), both services come up |
| `startup_torn_key` | `StartupTokens.cfg` | violation: a torn public key file is reused for good |
| `honeypot` | `Honeypot.cfg` | the tables implement `ThreatFeed`, answers match them and, where a webhook is configured, the posts (`AnswersTrue`), everything is answered |
| `worker_threads` | `Workers.cfg` | the bucket keeps the allowance (`KeepsAllowance`), threads inside one check exceed the window or are refused unduly by a bounded number only, a registration is told what happened, a proof, sent for the first time or again, is accepted exactly if it was made of the registered secret |
| `command_line` | `CommandLine.cfg` | get is stable, living processes whose clipboard works clear it in time, and nothing but their own or what comes between their look and their clearing; what is shown was sent by the named sender to the reader, what was sent between settled keys is shown |
| `clipboard_forgets` | `PasswordManagerClipboard.cfg` | violation: the copied password stays |
| `analyses` | `Analyses.cfg` | torn log lines cost two entries each at most, bursts are reported exactly, saved flows are evidence, the cracker cracks, masking leaves nothing it knows, indicators are found and the rule fires on them, every node of a syntax tree is reported, small groups are counted |

### Bounds and why they are enough

* Two threads, processes or terminals. The hazards are races between a check and
  its use, which take two actors. Where a third matters (uses of a refresh token,
  requests beyond a window), the property counts threads, and where it is proved, the
  proof holds for any number. Registration and the zero-knowledge login have three
  requests: two that race and one that comes later.
* Login: a window of 2 with one slot, blocks of 3 seconds (the cap; 2 where a reset took the
  violation away before it was read), time up to 3: a window passes, blocks end inside
  the run, and a second violation without a success is already beyond the powers that
  are floats (`MaxExponent`, 1023 in CPython). One address, which is `Watched`: addresses
  share no state but the dictionaries.
* Sliding window: two slots in a window of 2, five admissions, time up to 4, so that one
  window is exceeded and the next one sees late appends.
* Token bucket: two keys, a capacity of two requests and a third (7 thirds) and 2 thirds for
  each tick: it fills up, is emptied, and refills to fractions that a request does and
  does not fit into.
* Registration: six payloads (two that share an address, two of one address with a name
  that ends in a newline or does not, a password of 72 characters in 72 bytes and one of as
  many in 73, bad fields), one failing statement.
* Tokens: access tokens live 1 and refresh tokens 2 ticks until time 2, four pairs
  of which one is a login's: two generations of refresh, expiry, purge and a restart.
  The two violations use a longer-lived refresh token.
* Vault: two users, two passwords, two files of which one is damaged or lost, keys that expire
  in the run.
* Startup: two tables, three crashes and four key pairs, so that a crash can hit a
  start that repairs what an earlier crash left.
* Honeypot: two categories of four, three requests, one restart; payloads with no
  match, one match, one in each and two in one, the cases that `Confidence` tells apart; each start
  finds a webhook configured or not.
* Zero-knowledge login: safe primes 23 and 47, two secrets, two random numbers of which one is
  zero, two identifiers, three calls, one crash: two first calls can race for the file and a
  third uses what they left, or sends again what one of them sent, for itself or for the other.
* Password manager: one owner with two secrets for one site, two rows, a delay of one
  tick; one other text that the user copies at any time. Messenger: two users, three keygens altogether (both, and one again), two
  messages in one file, one damage.
* Log: four entries with thresholds of 2 and 3, a clock that may go back, two faults (a
  torn append, a handler that raises). A burst that the detector could miss or
  invent needs one request more than the threshold.
* Inputs of the other analyses: four packets with a threshold of 2 ports; texts of four
  characters over an alphabet of three letters in both cases, a letter outside it
  and a non-letter; descriptions of five words (digit, letter, dash, space, `@`, dot, and
  the ends of an address and of a social security number), with patterns of scaled-down digit
  counts, so that two addresses or numbers fit side by side, overlap and chain; seven bytes of four classes, with strings and indicators of two; syntax
  trees of three nodes, nested in every way; five users with K of 2.

`CHECK_DEADLOCK FALSE` stands where behaviours really end: in `Analyses.cfg` when the input
is complete, in `Workers.cfg` when every request is answered and the clock has reached its
bound, in `CommandLine.cfg` when no command is called any more.

### Fairness

Liveness is claimed under these assumptions only. `LoginGuard`: weak fairness of each thread's
handler, the pool's scheduling; no call waits for another. (The loop that drops old entries
ends, since each of its steps shortens the deque and only an admission lengthens it.) `Startup`: weak
fairness of each service's start, because compose restarts a service that has ended
(`restart: unless-stopped`), and strong fairness of the operator, who repairs the
permissions that an aborted start has named; crashes are bounded. `Honeypot`: weak
fairness of each thread; SQLite's busy timeout and the 5 seconds of `requests.post`
bound every wait, and the model lets an insert that finds the lock taken give up.
`PasswordManager` (only for the violated `ClipboardForgets`): processes run to their
end, threads run as long as their process, and time passes.

## 4. Where code and documents disagree

1. **Refresh tokens are not single-use** (`token_single_use`). Decode and revoke are two
   steps without a lock: two requests with one token may both pass the first.
   `UsesPerThread` bounds the damage.
2. **A changed role may never arrive** (`token_role`). Refresh copies the role from the old
   token, so a session that keeps refreshing keeps its role beyond the 15 minutes the
   documents give. `LoginRoleAges` shows that pairs a login issued do age.
3. **A torn key file is reused** (`startup_torn_key`). After a crash inside the second write
   the next starts take an empty public key for a key and the tokens they sign
   verify nowhere. The permission scan aborts the first such start, since the crash
   also came before `chmod`; following its advice makes the state permanent.
4. **The clipboard is not cleared** (`clipboard_forgets`). The clearing thread is a daemon
   of a process that exits at once. `GoneAfterDelay` shows that the thread would do its work in
   a process that lives.

Known not to hold and checked by no run: a 429 names the retry time of one limiter while
the other may still refuse; expired keys are skipped by the key cache, not evicted
(`KeyLeavesMemory` in `Vault` states the wish).

Disagreements that a property bounds instead of refuting:

* **What the user copies may be wiped.** `docs/3` (167-169) and
  `test_does_not_clear_if_user_copied_something_else` have it that newer clipboard content
  is never wiped. The thread compares what `paste()` returns and then calls `copy("")`
  (`password_manager.py:92-93`): what is copied between the two calls is wiped.
  `ClearsOnlyOwn` excepts exactly that gap, and nothing else.
* **A clipboard that raises** in the background thread is logged and swallowed (94-101): the password stays, also in a process that lives. `GoneAfterDelay` excepts
  exactly those threads.
* **The backoff stops working after 1024 rejections without a success.** `record_violation`
  makes the power before it caps it (`rate_limiter.py:127`): `float * 2**1024` is an
  OverflowError, the request dies with a 500 and sets no block, nor does any later one
  of that address, although the class documents a cap. `LimiterRaises` is that branch.
* **A rejection may answer 500.** A deque that another thread emptied between `len` and
  `window[0]` (`rate_limiter.py:65-66`) is an IndexError (`LimiterRaises`).
* **Blocks without violations.** A success whose `reset` overlaps another thread's
  `record_violation` may leave a block without a violation, a longer one than the violations
  justify, or violations without a block, until the next reset. `PenaltyCoherent` excepts
  exactly the addresses for which such an overlap happened (`crossed`).
* **Halves of different pairs.** Two keygens of one user at the same time may end with one's
  private and the other's public key; nothing locks the two files. `IntactIsShown` speaks of
  users whose last keygen ran by itself (`quiet`).
* **A proof says that the secret was known, not by whom.** A captured zero-knowledge proof
  verifies again, as `docs/5` (95-103) and `test_replaying_a_captured_proof_still_verifies`
  say; `KnowledgeIsVerified` covers such replays, for any identifier.

The properties say what does hold where a document or a comment says more:

* "At most N requests in the last T seconds" is exact for one thread. Between threads inside
  the check it may be exceeded by two for each further thread, and late appends can cause
  refusals that nobody has deserved (`OffByThreadsOnly`, which `WindowIsSliding` carries over
  to the login).
* Two first calls of the zero-knowledge login may generate two groups, of which the file
  keeps one; public values of the other one are then unverifiable. `KnowledgeIsVerified`
  says that this is the only way to two groups: unless one call opened the file that another
  had opened before (`raced`), a proof, the registered value and the verifier are of one
  group. A file torn by a crash stays torn.
* What is said of revoked tokens (`DeadStaysDead`, `RotationKillsParent`, `RotationReplaces`)
  is said of one process: a restart empties the blacklist, by the design its class comment
  describes. It is also said of a wall clock that is not set back. `purge_expired` is
  an action although nothing in the repository calls it, so that calling it is safe too.
* Redaction chains its patterns although the docstring says that it does not
  (`pii_redaction.py`): each works on what the masks before it left. Partial masking
  of addresses keeps the domain, which directly before another `@` reads as the
  name of what follows (`a@b.com@c.com` becomes `a***@b.com@c.com`, `Chained`). Partial card
  masking keeps digits that may look like a card again with those that follow, and may
  swallow the separator behind the number. The check for fewer than 13 digits can never
  be true after the pattern has matched.
* The port-scan detector counts ports over all hosts although its docstring says "on the
  same host". Letters that `isalpha` accepts beyond A-Z do not survive the Caesar cipher.
* The scanner excludes a file by any part of its path, while its comment speaks of the
  path below the scanned directory; one file that does not parse ends the whole scan.
* The pattern of a username ends in `$`, which accepts a trailing newline. The
  validation counts characters (10 at least), bcrypt takes 72 bytes: a password that is
  encoded in more, also one of 72 characters or fewer, is cut or refused, by bcrypt's
  version (`TooLong`), and two that differ behind the cut log in for each other.

## 5. Proofs

| Module | Theorems | Argument |
|---|---|---|
| `LoginGuard_proofs` | `LoginGuardTyping`, `LoginWindowIsSliding`, `LoginPenaltyCoherent`, `LoginPenaltyFreezes`, `LoginChecksArePaidFor`, `LoginAnsweredAfterAudit` | *Window*: a thread is in `SlidingWindow` what it is in the login while it is inside `check` for the watched address, and idle otherwise (`SiftingSteps`, `SiftingElsewhere`); every step of the login is then one of its steps or leaves the deque and the history alone (`WindowStep`). *Penalties*, `PenaltyInv`: what a thread inside `record_violation` holds is a span or a time that the violations are worth (`Sound`), unless a reset has crossed it; an address that nobody is popping is coherent (`Coherent`). An overlap can only begin at the first pop and end at the second, which is where `crossed` is set and cleared. Checks are paid for because an admission adds one thread to those that verify, and a check takes one away. `AuditInv` says for each step of a thread which row it has written or is about to write. |
| `Tokens_proofs` | `TokensTyping`, `TokensDeadStaysDead`, `TokensRotationKillsParent`, `TokensLoginRoleAges`, `TokensRotationReplaces`, `TokensUsesPerThread` | `Buried`: a dead token is on the blacklist or past its time, which survives a purge because the purge drops only what is past its time. `MintsFromDead`: a thread about to mint holds a dead refresh token. `ParentsDead` follows at the mint. `RolesDated`: a login's token with another role than its user's was issued before the change. `LogoutsHoldAccess`: what a logout kills is no refresh token. `UsesInv`: the children of a token in this process and the threads past their decode of it are together no more than the threads, since a token that is accepted has no children yet (`AcceptedIsUnused`) and a mint turns one into the other. |
| `Vault_proofs` | `VaultTyping`, `VaultKeyIsOwn`, `VaultEntryHasFile`, `VaultReadsOwnUpload` | `VaultInv` joins: a cache entry's key is the one its slot's user and password derive; a request past the cache has such a key; a file being written belongs to one request, which is its owner's, and has no row (this rests on `FreshName`, an assumption about `os.urandom`); a committed row names a file of its owner that was whole. `ReadsOwnUpload` is an action property that follows from it. |
| `Honeypot_proofs` | `HoneypotTyping`, `HoneypotImplementsFeed`, `HoneypotAnswersTrue` | `Come`: for each step of a thread, how far its event has come, in memory, in the tables and among the posts, and that nothing is posted where no webhook is configured. With `OwnNumbers` (no two threads have an event of the same number) a commit adds a new event and an alert is raised once, so each step maps to `Record`, `Raise` or a stutter. |
| `Startup_proofs` | `StartupTyping`, `StartupPairsNeverMix`, `StartupServesReady`, `StartupKeysOutliveRestarts` | `FilesInOrder`: the public file is written last, and from its creation on the private one is whole; a crash anywhere therefore leaves no public key, an empty one or the right one. `SignedLate`, `TablesListed` (what is missing in the database is on the list of whoever creates it) and `ExposedSince` (what was exposed at the scan would have ended the start) carry what a service has looked at to the time when it serves. |
| `Workers_proofs` | `TokenBucketExact`, `TokenBucketKeepsAllowance`, `WindowOffByThreadsOnly`, `RegistrationOutcomeTold`, `LoginKnowledgeIsVerified` | *Bucket*: it keeps one number and one time, the allowance is a condition on all pairs of grants. `Exact`: the number is the least of what the allowance has left since any one of the grants, or the capacity; so a request fits the bucket exactly when it fits all of the history, at every later time. *Window*: a thread may append late. `Suffix`: the deque is the tail of all admissions. `Late`: those that were overtaken by an admission, and the threads that still may be, are no more than the other threads. `Bounded` says it of every window that has ended or will: while nothing of it was dropped, only threads that have counted already can overfill it; once something was, nobody begins any more to look at it. `Refused` counts what a refusal has seen. *Registration*: `RowsOwn`: a row says what its request carried, and no two rows share a name or an address. `Knows`: users only grow, so what a look-up saw is still there, and before its insert a request has no row. `RefusedFor`: why a request was answered with 409, 422 or 500 stays true. *Zero-knowledge login*, `KnowledgeInv`: `StoresKept` and `Proved` follow a proof from whoever made it to each verdict on it, replays included; until two calls have raced for the file, one call at most writes it (`OneWriter`), nothing was registered or proved before it was written (`NothingYet`), and everything since is of its group (`SameGroup`); that the verdict compares exponents modulo the order of the group is arithmetic (`ComparesExponents`), from the laws of powers that `Workers_proofs` derives: a generator of prime order gives equal powers exactly to exponents with equal remainders. |
| `CommandLine_proofs` | `MessengerShownWasSent`, `MessengerIntactIsShown`, `PasswordManagerSameAnswer`, `PasswordManagerGoneAfterDelay`, `PasswordManagerClearsOnlyOwn` | *Messenger*, `MessengerInv`: key files hold their owner's keys only and, of a user whose last keygen ran by itself to its end (`quiet`), both halves of the newest pair (`KeysOwn`); a keygen that began by itself and is the newest has its user's files to itself (`KeygenAlone`); what was noted of the keygens when send was called is never ahead of them, and where it is not behind either, the users still have the keys of then (`Noted`), which each step of a send and of a receive (`Jobs`) and each message (`Carried`) passes on. *Password manager*, `ManagerInv`: an answer is the password of a row that stays the first of its site (`Answered`); who put a password on the clipboard has a thread that waits for it and is not late, or one that the clipboard failed (`Guards`); a thread about to clear has just compared (`Compared`). |
| `Analyses_proofs` | `AccessLogTornWriteCostsTwo`, `LogBurstsReported`, `CaesarTextsCracked`, `ReportCountsSmallGroups`, `CapturesAreEvidence`, `DescriptionsMasked`, `EveryIndicatorReported`, `EveryFindingReported` | Induction over the numbers, in the form of sets that contain zero and successors (`AllNaturals`), gives the existence of the function of a fold (`FoldExists`), of a list's flattening (`FlatExists`) and of a search from behind (`BackwardExists`) and induction over sequences that grow at their end (`GrowsToAll`). *Log*, `LogInv`: what can be read of the closed lines falls short of what was served by what tears and exceptions explain (`Lost`), and is embedded in it in its order. *Bursts*: inserting one by one sorts the times and only reorders them (`TimesSorted`); some threshold of entries lie within a window exactly if consecutive ones of the sorted times do (`BurstsAreClusters`, `ClustersAreBursts`), and filtering keeps an address's entries at places of their own (`FilterPlaces`). *Cipher*: shifts add up modulo the alphabet (`ShiftAdds`), and the cracker keeps the least score (`BestIsLeast`). *Groups*: after each user every count is the number of those alike so far (`Counted`). *Captures*: filters commute with the detector, are idempotent and split every list (`FilterTwice`, `FilterParts`). *Redaction*: `Origin` says of each character of a substituted text which character or match of the text before it comes from, by induction from the end (`TraceExists`). A match none of whose characters was replaced was a match before (`KeptMatch`), so what is left begins or ends inside a mask; full masks hold nothing that a pattern matches, the masks of numbers can be no part of an address (`PartialNumbers`, `PartialAddresses`), and an address that partial masking leaves runs on from a domain that was kept (`OwnAddresses`, which led to the exception `Chained`). *Extraction*: indicators do not reach across a byte that does not print or one of another kind, so the indicators of two pieces are those of each (`FindAllConcat`); after each byte those of the strings found are those of the data before the current run (`Passed`). *Scanner*: `AboveExists` gives each node the set of the nodes above it, children come behind their parents, subtrees of two children are apart (`SubtreesApart`), and so by induction from the last node to the module the findings below a node are those of its subtree, once for each target or argument (`ScanReports`); the declared rules are those of the findings so far, each once (`RulesDeclared`). |

The assumptions are the named `ASSUME`s on constants, which TLC evaluates in runs of
modules that extend theirs: natural numbers, positive sizes, a request no larger than
the bucket, a finite set of threads where threads are counted. Three say more.
`PasswordManagerAssumption`: the empty text that clears the clipboard is nobody's
password. `GroupAssumption`: the order q of the group is prime and the generator to
the power of q is 1, which holds of the safe primes that OpenSSL generates.
`HashAssumption`: among the secrets and random numbers in use no two
secrets give one response, which a hash into numbers modulo a large q fails with
negligible probability; without it a proof by the wrong secret would be accepted
in that one case. `FindsIndicators` itself supposes that no indicator is shorter than the
strings that are kept, which holds of the patterns and the default of 4 characters.
Nothing else is taken on trust. The bounds (`MaxNow`, `MaxPairs`,
`MaxFiles`, `MaxLength`, ...) are constants, so each theorem holds for all of them. TLC
checked the inductive invariants first.

Only model-checked: liveness (`EveryLoginAnswered`, `BothComeUp`, `EveryRequestAnswered`),
which is beyond the prover. Every other property of the passing runs, safety invariants and
action properties alike, is stated by a theorem. The four violated properties have
counterexamples (section 4).

## 6. What is abstracted

* Cryptography is ideal: signatures cannot be forged, AES-GCM and OAEP decrypt with the
  right key and otherwise fail, PBKDF2 maps different (user, password) pairs to different
  keys, and the hash of a zero-knowledge proof is never zero. The proof's equations
  are computed, in small groups.
* Texts, file contents, passwords and addresses are model values; regular expressions
  are the classes they sort texts into. The patterns of `PiiRedaction` are matched as the engine
  matches them, over classes of characters and with scaled-down lengths. Those of
  `StringExtractor` are not: an indicator is a run of one class of bytes, of a least length, which
  stands for all three patterns. What is checked is that extraction loses no such run.
* What runs when it is due: in `PasswordManager` commands and threads that are due take their steps
  before the next tick, so `GoneAfterDelay` says that a thread waits for every copied
  password, with the right text and time, and not how punctual the scheduler is.
* Time is a counter of ticks; every TTL keeps its comparison (`<`, `<=`) of the source.
* The bucket's floats are exact fractions with a common denominator (`One`); Caesar scores are
  compared as exact integers, where the code's floats could break exact ties otherwise.
* Database transactions are atomic and may fail; SQLite's lock is a variable where two
  services meet (`Honeypot`).
* A call on one Python dictionary or deque is one step, as CPython makes it, and so is `+=` on a
  dictionary's value; creating a file and writing it are two. Between two such
  steps any other thread may run. CPython 3.12 switches threads at calls and backward jumps only, so
  some of these switches (between `rate_limiter.py:126` and the read in 127, say) cannot
  happen there; the model allows them.
* Names made by `os.urandom` are taken to repeat no name given before (`FreshName` in `Vault`): the
  code opens them with "wb" and does not look. Uploads are coroutines of one event loop, and give
  way to one another only at the `await` of the body (`LoopFree`).
* In `ZeroKnowledge` nobody sends numbers that were not derived from some secret; replays of proofs are
  included. In `Messenger` a message is not signed anew by a third user under a
  third name; damage, replay and delivery to another reader are included.
* A restart of the application ends the calls it was handling; clients of the
  zero-knowledge login and programs of the command line end by themselves.

## 7. Plan

Done, in this order: login, tokens, vault (each with proofs), startup, honeypot with its
abstract feed, password manager, messenger, log, capture and cipher; then the limiters with
the allowance, registration, zero-knowledge login, redaction, extractor, scanner and report;
the proofs about honeypot, startup, bucket and registration, and the rest of the
safety properties of login and tokens; then the proofs about the window between threads,
the zero-knowledge login, both programs of the command line, and of all analyses,
of redaction, of the extractor, the scanner and the report; then both limiters of the
login call by call, the proof that its deque is a sliding window, replayed proofs, overlapping
keygens, failing clipboards and missing webhooks. Next:

1. *Abstract specifications*: a token service whose refresh is atomic, implemented by
   `Tokens` for one thread; a vault as a map from (user, password) to contents.
2. *Models*: several addresses in `LoginGuard`; refresh and vault in one process, whose
   threads they share.

## 8. Not modelled

* Administration and the SQL-injection demonstration: read-only queries, no state
  changes; the check of the role is part of `Tokens`.
* The Laplace distribution of the noise is real-valued and out of TLC's reach (`PrivateReport`
  takes any integer); the chart draws.
* The JSON report of the log analyzer and the messages of the scanner: wording and layout.
  Python's parser, scapy's dissection and the database are external.
* `password_manager generate`: random text, no shared state. The interactive functions of
  `schnorr.py`: called by no route, the same equations as the others.
