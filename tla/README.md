# A TLA+ model of otdel

otdel is a document-intake service for a bureau: an owner signs in, creates
partners, uploads original files for each of them, and follows their extraction.
It is a Rust API (axum, sqlx, PostgreSQL with row-level security, a local-filesystem
object store), a maintenance worker, and a React client.

This directory specifies the parts of the system whose correctness depends on
interleaving, failure or time; TLC checks them on small instances and TLAPS proves
the most important results for every value of the constants. Paths below are
relative to `src/`.

## 1. The system

| Component | State | Operations | Talks to |
|---|---|---|---|
| Material intake: `otdel-api/routes/materials.rs`, `upload.rs` | one async handler per request | upload, list, download, retry | object store, database |
| Object store: `otdel-storage/fs.rs`, `key.rs` | `.part` files in staging; immutable objects under `bureau/partner/shard/digest` | `put_stream`, `open`, `exists`, `list_objects`, `sweep_staging`, `health` | disk |
| Materials and jobs: `otdel-db/materials.rs`, `jobs.rs`, `migrations/0001_schema.sql` | tables `materials`, `jobs` with unique keys and CHECKs | `insert`, `enqueue_extraction`, `requeue`, `requeue_extraction`, `reclaim_expired_leases` | PostgreSQL locks |
| Login throttle: `otdel-api/auth/throttle.rs` | attempts by client under a mutex; a semaphore of hash slots | `reserve`, `record_success`, `hash_permit` | login handler, blocking pool |
| Sessions: `auth/mod.rs`, `routes/session.rs`, `otdel-db/sessions.rs`, four SQL functions | table `sessions` | open, touch (on every request), close, purge | every handler, the worker |
| Maintenance worker: `otdel-worker/lib.rs`, `apps/worker/main.rs` | an interval timer | `run_once`: purge sessions, reclaim leases, sweep staging, report orphans; `run_until` | database, store |
| Partners: `otdel-db/partners.rs`, `routes/partners.rs` | table `partners` | create, get, update, list | database |
| Tenancy: `otdel-db/tenancy.rs`, RLS policies | `otdel.bureau_id` of a transaction | `ScopedTx` begin, commit, rollback | connection pool |
| Deployment: `otdel-core/config.rs`, `secret.rs`, `otdel-db/lib.rs`, `otdel-api/lib.rs`, `routes/health.rs`, `apps/api/main.rs` | the process and its settings; migration history, bureaus, roles | `Config::load`, `serve`, `ready`, `migrate`, `bootstrap`, `verify_runtime_role` | database, store |
| What clients send: `upload.rs`, `otdel-core/media.rs`, `validate.rs` | the form being read | `receive_file`, `MediaType::detect`, `partner_name`, `partner_note`, `display_filename` | object store |
| Web client, auth: `apps/web/src/auth/AuthContext.tsx`, `App.tsx`, `api/client.ts` | auth state, CSRF token | check, login, logout, `runMutation`, `runRead` | API |
| Web client, materials: `hooks/useMaterials.ts`, upload dialog, panel | list, timer, epochs | load, poll, upsert, reload | API |
| DTOs, error texts | none | pure functions | - |

Where it is hard:

- **Interleaving.** Uploads of the same bytes race for one object and one row; a
  handler is dropped at any `.await` when its client disconnects; retries overlap each
  other and the extraction workers; statements wait for row locks with a `now()` taken
  earlier; poll responses overtake each other; other tabs replace the cookie under a
  call in flight; migrations, starts and an older release share one database.
- **Failure.** The API is killed, power is lost between a rename and an fsync, an
  unlink fails, an answer is lost after its effect, a worker dies with a lease, a pass of
  the worker fails half-way, a migrate command is killed between two scripts.
- **Time and limits.** Windows, lockouts, lifetimes, idle timeouts, attempt, upload and
  scan limits meet at their exact ends; a chunk may cross several of them.

`PROJECT.json` lists each of these under `hazards`, at its line, with the properties
that would catch it.

## 2. Modules

| Module | Models | Status |
|---|---|---|
| `Intake` | upload, object store, publishing transaction, download, sweep, kills and power losses | checked, proved |
| `Originals` | what intake promises (abstract) | refined by `Intake`: checked, proved |
| `LoginThrottle` | login up to the session, throttle, hash slots | checked, proved |
| `JobQueue` | retry, requeue, lease recovery | checked; proved within `Maintenance` |
| `Maintenance` (extends `JobQueue`) | the worker's passes beside the queue and beside uploads | checked, proved |
| `Sessions` | the life of a session | checked, proved |
| `Tenancy` | bureau-scoped transactions on a connection pool, partners | checked and proved within `Deployment` |
| `Deployment` (extends `Tenancy`) | configuration, start, readiness, stop and kill of the API; migrate and bootstrap | checked, proved |
| `Forms` | multipart bodies chunk by chunk, media detection, names and notes | checked, proved |
| `WebSession` | authentication in the browser | checked, proved |
| `MaterialsPolling` | the materials panel | checked, proved |
| `XProofs` for X each of `Intake`, `LoginThrottle`, `Maintenance`, `Sessions`, `Deployment`, `Forms`, `WebSession`, `MaterialsPolling` | inductive invariants, lemmas and theorems about X | proved |

"Proved" means every invariant and every action property of the module's run; liveness
is model-checked only (section 5).

The modules compose in three ways: `Maintenance` and `Deployment` extend the state they
share with others; `Maintenance` and `WebSession` use what `Originals` and `Sessions`
promise (an object, then its row; a set of live sessions) as their environment; and
`Intake` implements `Originals`. The `.cfg` files give the constants; `MCDeployment`,
`MCForms` and `MCMaintenance` define the larger ones (environments, bodies and texts,
paths).
Operators marked `Mutant:` are plausible bugs of the definition that follows them:
each one makes the property named for it in `PROJECT.json` fail. No specification
uses them.

### Intake

One request is one upload. `pc[r]` is the place of its handler, in the order of the
code: `CheckPartner` (its own transaction), `ReadFileField`/`RefuseBody`
(`receive_file`), then `put_stream` step by step: `PrivateCreate`, `WriteChunk`,
`EndOfBody` (flush), `SyncAll`, `StatFinal` (adopt an object of the right size),
`Rename`, `SyncDir`, then `EndOfForm`, and the publishing transaction
`InsertMaterial`, `EnqueueExtraction`, `Commit`, `Answer`. Each is a separate step
because the code awaits between them. `AbortBody`, `PublishFails` and `Disconnect`
are the early returns, database errors and dropped futures. `DropGuard` is the
`Drop` of `StagingGuard`; it is part of every action that leaves `put_stream`.

`InsertMaterial` waits while another transaction holds an uncommitted row with the same
(partner, digest) (PostgreSQL's unique index) and takes over the row it finds committed
(`ON CONFLICT DO NOTHING`, then the lookup). The transaction is opened after the client's
form has ended, so nobody waits for a client: that is what `PublishingEnds` says, and its
mutant inserts before the end of the form. `EnqueueExtraction` would wait for an uncommitted job
in the same way, but never has to: whoever names another's material found it committed,
and with it its job (`NoWaitForJobs`, proved). So the waits go through one index only
and form no cycle.

`objects` is what the running system sees, `disk` what is durable. A power loss
resets `objects` to `disk`; an object whose bytes were not fsynced would come back
truncated. The entry of an object is durable once `sync_dir` ran on its shard
directory; the entries of freshly made shard directories themselves are taken to be
durable with it. `Crash` kills the API and runs no guard. `TruncateObject` is
damage by the disk. Only `put_stream` notices it, by the size of what it would adopt; `open`
hands out whatever file it finds, with the size it has now.

### Originals

No staging files, transactions or faults: store, then list and queue in one step, then
accept an upload by naming the one material with its bytes. `Fail` lets uploads fail;
`LosePower` may also take stored originals, never what is listed or queued. `Intake!ImplementsOriginals` maps
`stored` to the keys with an object, `catalog` to `materials`, `queue` to `jobs` and the
answers to the places of the handlers, in every behaviour of `Intake`, kills and power
losses included.

### LoginThrottle

`ReadClock` and `Reserve` are separate because `reserve` reads `Instant::now()` before
it locks the mutex. `Reserve` is the whole critical section: the retain, the entry,
lockout, window renewal and limit. `HashPermit`, `HashEnds` and `Resume` are the semaphore, the
blocking Argon2 task (which owns the permit) and the awaiting handler; `Disconnect` drops
the handler at either await, and the task runs on. `admitted` is history.

### JobQueue

`RetryRead` and `RetryCommit` are separate: `retry` reads the status with a plain
SELECT. `Reclaim` is the single UPDATE of `reclaim_expired_leases` over all rows.
The extraction workers are not in the repository; `Lease`, `Finish` and `LeaseExpires`
model what the columns of `otdel.jobs` provide for and are marked external.
`requeue_extraction` also creates a job where there is none; that branch is left out
because intake publishes both rows together (`PublishedTogether`, proved).

### Maintenance

`run_once` is one action per chore, in the order of the code: `PurgeExpired`, `FindBureau`,
`ReclaimLeases` (which is `JobQueue!Reclaim`), `SweepStaging`, the listing, and
`ReportOrphan`/`ReportEnd`. `PassFails` is the `?` of any of them: it ends the pass, and the next tick begins
anew. `Outage` switches the database and the disk independently. `Stop` is the shutdown
branch of `select!`, looked at between passes only; `Kill` happens anywhere.
`SweepStaging` only passes or fails here: what it removes is in `Intake`.

The listing is the walk of `list_objects` over a tree of paths, which are sequences of
segments: a key is `<<bureau, partner, shard, digest>>`, and a directory exists when something is stored under it.
`scan.stack` is the stack of directories; `OpenDirectory` takes one from its end,
`NextEntry` meets one more entry of the open one: a directory that is not too deep goes on the stack,
a name that parses as a key is listed, everything else is skipped, and at `ScanLimit`
the walk returns what it has, flagged. `ListEnd` asks only for an empty stack and says
nothing of completeness. Uploads add objects, and the directories above them, at any moment of the walk.
What the operating system promises of `readdir` is external: what was in a directory
when it was opened is met (`scan.due`), what is added later may be met or not. The bytes of
an entry are not looked at; an upload's shard directory and its rename
are one step, since an empty directory changes nothing in a walk.

### Sessions

A statement is two steps, start and effect, because `now()` is the start of the
transaction and the row may be locked. `Touch` re-checks its WHERE on the locked row, as
READ COMMITTED does; a row missed by the snapshot may be refused although another request
has refreshed it meanwhile. `Touch` refreshes `last_seen_at` before Origin and
CSRF are looked at, as `from_request_parts` does. Each statement may also fail, and the answer of
`session_open` may be lost after its row was inserted.

### Tenancy and Deployment

A handler takes a connection (`Begin`, or `AcquireTimesOut`), sets the bureau
(`SetContext`: `set_config(..., true)`), executes one statement of the repository, and
commits; `Abandon` drops the transaction anywhere, and the pool's own task rolls it back
(`Rollback`) before the connection is idle again. What a statement sees is decided by the
policies on the connection's context and by the attributes of its role. An `UPDATE` waits
for a row that another transaction has updated and then applies its patch to the row it
finds (`COALESCE` and `CASE` per column).

`Deployment` puts the process around it. `Loads` and `Settings` are `Config::load` over
records with one field per environment variable, whose values are classes: unset, blank,
unparsable, a placeholder, or what it says, with numbers at their bounds. `Serve` is
`build_state` with all its refusals; `Ready`, `Stop`, `Exit` and `Kill` follow.
`migrate` is several steps (remove the stray history table, take the advisory lock, one
transaction per script, end), so that two shells, kills and starts interleave;
`EarlierRelease` is the release whose trace `remove_stray` repairs.

### Forms

`NextField`, `DrainChunk`, `HeadChunk`, `HeldChunk` and `FieldStream` read a form in chunks
of any of the sizes of `ChunkSizes`: fields that are not the file are drained and counted,
the head of the file is held back until the signature can be judged, the rest goes to the
writer through `limit_size`. `Detect`, the declared type, `DisplayFilename`, `PartnerName` and
`PartnerNote` are operators over bytes and over classes of characters. `Deserved` is
the reference: the answer read off the whole form, without chunks.

### WebSession

A tab has three slots of calls in flight: one about the session, one mutation, one
read (the code may have several reads at once; each of them is handled by itself). A call carries the cookie of the moment it is sent, the server answers it later, the network
may lose the request or the answer, and an answer sets state and cookie when it arrives.
A change that the client has given up on may reach the server later (`late`, `HandleLate`).
`FirstAnswered`, `RefreshAnswered` and `ReplayAnswered` are the three stages of
`runMutation`. `panel` is what decides whether the workspace reads by itself: `MaterialsPolling` in
three values. `OpenPanel`, `Reload` and `RunRead` are the user's or the first
rendering's; a timer is set only by a read or an upload that may have brought something
pending (`MayArm`), and not after an error; `Poll` is the timer. Other tabs with the same cookie are `SignInElsewhere` and
`SignOutElsewhere`: all that the tab under study can notice of them is the cookie and the
set of live sessions.

### MaterialsPolling

The refs of `useMaterials` are variables; reads and writes in flight carry the epoch and the
partner of the closure that started them. `WorkspacePage` gives the panel the key of its
partner, so each partner has a hook instance of its own. One epoch counter stands for the
counters of all instances: it never repeats, so it also tells instances apart. The
An upload finds an existing material as it is, a retry requeues a failed one and is refused
otherwise (`RefuseRetry`, 409, which never reaches `upsert`). The
`partner_id` check of `upsert` compares a material with the partner of the same closure
and always holds; what keeps a late upload out is the remount. The server, the network and the
extraction are the environment.

## 3. Runs

All runs use two TLC workers; the longest (`maintenance`, `deployment`) take two to three minutes.

| Run | Instance | Shows |
|---|---|---|
| `intake` | 2 uploads, a known and an unknown partner, a download, 1 kill, 1 power loss, 1 disk fault | rows and objects agree, one row per original, no torn object; nothing takes an original away; `put_stream` and downloads keep their contract; refinement of `Originals`; publishing ends and leftovers are swept |
| `throttle` | 1 client, 2 connections, 1 hash slot, 8 ticks | bursts and hashes stay bounded, no permit is lost |
| `maintenance` | 1 material, 2 retries, 1 extraction worker, limit 2; an object of its own and one of another bureau, a file and a directory that belong to no object, scan limit 2 | queued jobs can be taken and queued materials have one; passes that fail anywhere still take up interrupted runs and come to the purge; orphans surface, a walk that is not flagged misses nothing, shutdown ends |
| `sessions` | 1 session, 2 connections, waits of 1 tick | logout is final, expiry is met from both sides, dead rows go |
| `deployment` | 2 requests, 2 connections, 2 bureaus, 20 environments, 2 shells, 2 starts | the policies isolate bureaus by themselves, pooled connections forget and come back, overlapping patches keep each other's columns, ready means that login works, migrate may be repeated |
| `forms` | files at the edges of signature, prefix (12) and limit (14); all texts of up to 4 characters | every cutting into chunks gives the answer the content deserves, the writer stays in its limit, what is stored satisfies the schema's CHECKs |
| `web` | 1 tab beside others, 1 mutation, 2 sign-ins, 1 lost call | a mutation is applied at most once, a shown logout happened, a workspace that polls notices a dead session |
| `polling` | 2 partners, 2 reads, 1 write, 1 failure | no list or timer of another partner; polling does not die while something is pending, and what is pending settles |
| `intake_fsync`, `queue_retry`, `queue_hang`, `polling_order` | smallest that show it | disagreements between the text of the repository and its code (section 4) |

Why these bounds are enough to be interesting: two uploads of the same bytes race for
the object and for the row, and with one failure every crash between two steps of the one
meets every place of the other; the proofs of section 5 cover any number. The failure
counters bound how often the environment fails and not what it can interrupt. Two windows
and a lockout fit into the eight ticks of the throttle. A session lives 4 ticks of 6 and
idles out after 3, so it can be renewed, idle out and expire in one behaviour; sessions do
not interact, so one is enough. Two reads are the least that can overtake each other, two
partners the least that can be confused. Two patches, one per column, are the least that
can undo each other; two requests on two connections let one reuse a connection that served
another bureau, and two starts let a server follow a killed one. The prefix of 12 bytes is
that of the code, and the upload limit lies just above it, so one chunk can cross both; all that
`forms` leaves out is scale. Two sign-ins are what a stale token and its replacement need; a
second replacement during the recovery takes a third, which is beyond the time of a
run and covered by the theorems. One object of the worker's bureau comes to the scan while it
runs, that of the other bureau may be there from the start (other bureaus do not upload during
a run); together with the strays they lie in different directories and at every
depth the walk tells apart. With both stored the scan is flagged, with one it is not. `Focus` in `MCDeployment` explores requests
beside a ready server when no command runs: they share no variable with the commands.
No run uses symmetry.

Deadlock is checked in the runs `intake`, `throttle` and `maintenance`. The other modules may
stop: a stopped clock, a form that was answered, a tab or a panel nobody touches, an operator who has no
more commands.

Fairness is only what the code's scheduling gives:

- `Intake`: a publishing transaction goes on (tokio polls a runnable task), files age, and the
  worker sweeps at every interval. Nothing is assumed of clients.
- `LoginThrottle`: tokio's semaphore is FIFO, hence strong fairness of `HashPermit`; a
  hash ends; a woken handler resumes.
- `Maintenance`: a pass is polled until it ends and the interval fires again after a
  failed one (weak fairness); `select!` picks among its ready branches at random, so a
  signal that is pending between passes is not passed over forever (strong fairness of
  `Stop`). Recovery of an outage is a hypothesis of the properties. Extraction workers,
  retries and starts get no fairness.
- `Sessions`: the purge comes around (shown for `Maintenance` by `DatabaseChoresDone`).
- `Deployment`: handlers and the pool's rollbacks go on. Operators do nothing on schedule.
- `WebSession`: a timer that is set fires, reads are answered or break, and their answers
  are handled. Nothing reads forever: `DeadSessionSurfaces` is about a workspace whose
  materials are being polled. A settled or empty one, or one whose last read failed, asks
  nothing by itself and stays in front of the user over a dead session until the next
  click; that is how the code is, and no property denies it. Nobody has to sign in, sign out
  or mutate.
- `MaterialsPolling`: timers fire, calls settle, extraction ends. The user does nothing on
  schedule.

## 4. Where the text and the code disagree

1. **Adopting an object that is not durable yet** (`intake_fsync`).
   `put_stream` returns when an object of the right size exists (`fs.rs:126`) without
   fsyncing the directory, although the upload that renamed it may not have done so yet.
   A power loss can then leave a committed row without its object.
   `otdel-storage/src/lib.rs:13` says the object is fsynced before metadata is published.
2. **Overlapping retries** (`queue_retry`). The second retry requeues a material that
   is by then running. `model.rs:97` says a retry of such a material is a no-op.
3. **A hanging material** (`queue_hang`). A run interrupted at the attempt limit
   fails the job and leaves the material in `processing`, which retry refuses.
   `otdel-worker/src/lib.rs:9` says an interrupted run does not hang.
4. **Responses out of order** (`polling_order`). Of two reads of one panel the older one
   may arrive last and stay. `useMaterials.ts:14-16` says the list reflects the
   server's state.

Deviations met while modelling that no run is about:

- **Late answers after a logout.** A read, or the token refresh of `runMutation`, that is in
  flight when the user logs out sets the state when it arrives: `toExpiry` turns logged-out
  into expired, the refresh into authenticated (`AuthContext.tsx:179`, `:207`), whereas
  the comments at `:35-39` keep the two apart. `WebSession` contains these steps.
- **A staging file behind the guard.** A request dropped while its file is being created on the
  blocking pool leaves it behind (`fs.rs:79`); `fs.rs:75` says every exit path
  removes it. The sweep does later (`LeftoverStagingSwept`).
- **A file name of dots.** `display_filename(". .. .")` is `".."`, which the comment at
  `validate.rs:63-67` excludes; the name is only shown.
- **A full scan.** `list_objects` sets the truncated flag also when exactly `limit` objects exist.
- **Two first bootstraps.** `bootstrap_bureau` may answer "row not found" when another one
  inserts the slug between its two statements (`otdel-db/lib.rs:229-251`); a repetition succeeds.
- **Values the configuration lets through.** A slug longer than the 64 characters of the CHECK
  (bootstrap refuses it, so a server with it never becomes ready); a throttle window or lockout of
  zero, or a lockout so long that `now + lockout` overflows an `Instant`
  (`throttle.rs`; the models use small numbers).
- **The stray table** is counted and dropped before the advisory lock is taken.
- **The role** is verified at the start only; `ALTER ROLE` under a running server goes unnoticed.

## 5. Proofs

TLAPS checks every theorem to the last leaf, for arbitrary sets and bounds. All
invariants and action properties of the passing runs are theorems, and so is type
correctness of each module. The assumptions are the named `ASSUME`s of the modules, which
TLC evaluates in every run:

- types of the constants, and null values outside the sets they stand beside;
- `ThrottleAssumption`: finitely many connections; the limit is at least 1 (the configuration
  raises it) and so are the slots (a constant, 2); window and lockout may be zero, which the
  configuration lets through;
- `EnvironmentAssumption`: a numeric variable of the environment is a number, unset,
  blank or unparsable, and `U32Max`, the bound of the two limits kept as `u32`, is a
  number (4294967295 in the code, beyond TLC's own integers);
- `FormsAssumption`: what clients send are sequences of bytes and characters, and no signature
  is longer than the bytes held back (`SIGNATURE_PREFIX_LEN` is 12, the longest one 8).

None of the properties is inductive as it stands. What each proof adds:

- **Intake.** Whether a commit keeps `RowsHaveOriginals` depends on what the request did
  before. `IInv` adds what each place of the handler knows: a request past `put_stream`
  has an object (`ObjectsKept`); a transaction's row is its own or a committed one with its
  key (`RowsHeld`); committed and uncommitted rows have distinct keys (`KeysUnique`); only
  fsynced files get a final name (`ObjectsWhole`); a handler outside `put_stream` has no
  staging file (`FilesGone`); what a download found is committed (`DownloadsFound`). Each
  conjunct has a step lemma with one case per action. From `IInv` follow `RowsHaveOriginals`,
  `PublishedTogether`, `OneRowPerOriginal`, `NoTornOriginals`, `AnsweredLeavesNoStaging`,
  `FoundMaterialOpens`, `NoWaitForJobs`, and the action properties `OriginalsNeverTaken` and
  `PutLeavesWholeObject`.
- **Refinement.** The last part of `IntakeProofs` shows that each action of `Intake` maps to
  one of `Originals` or to a stutter: most are invisible, `Rename` stores, `Commit`
  publishes, `Answer` accepts, `Crash` fails.
- **LoginThrottle.** `PermitsConserved`: free permits and running tasks add up to the slots,
  and exactly the handlers that hash, or were dropped while hashing, own a task.
  `BurstInv` is about the windows that a client's entry went through. Admissions are
  counted from the last one (`Back`). While an entry is present (`WindowOpen`), its
  `started` counts the admissions of the open window, the first of them came within
  `MaxSkew` of the window's begin and is far from the one `MaxFailures` before it; when
  the entry is gone (`WindowOver`), the last `MaxFailures` admissions are far from now.
  `ThreeOutcomes` shows that a call either opens a window, continues one or is rejected,
  and each has its lemma. A call that reads the clock early is covered because
  `StampsFresh` bounds its delay by `MaxSkew`, which is part of the bound proved.
- **Maintenance and JobQueue.** The two properties of the queue are inductive together
  with its types (`QueueInv`): each writer of a job row resets, keeps or checks the
  attempts. For the walk, `WalkInv` says that every object which was there at its begin is
  listed or still ahead of it (`Ahead`): a directory above it is on the stack, or the
  next step down to it is among the entries due in the open directory. `WalkBegins`,
  `WalkOpens` and `WalkMeets` are the steps of the walk, `WalkUndisturbed` says that uploads
  add and never take away, and `Paths` and `StoredPath` are about prefixes of paths. With an
  empty stack and nothing due nothing is ahead, hence `UnflaggedScanIsComplete`. Were the
  walk to descend less deep, `StoredPath`, on which all of it rests, would not hold.
- **Sessions.** `ClosedForGood`: a closed token has no row and its login is over, so no
  INSERT for it is to come; with `KnownTokens` (a request carries a token of an
  answered login) that makes `LoggedOutIsOut` a theorem. For the limits, `LimitsInv` adds
  that a statement is at most `MaxWait` old (`StatementsFresh`), that a row tells the
  truth about its sign-in and its last use up to a wait (`RowsTrue`), and that a request whose
  snapshot missed its row was due then (`SnapshotsTrue`).
- **Tenancy and Deployment.** `TenancyInv`: a held connection belongs to one request, its
  context is that request's bureau once it is scoped and nobody's before, and the role
  that serves was verified. `WritesPatch`: an uncommitted row has the committed value in
  every column that was not sent, and two of them are never of one partner (the row
  lock); hence `PatchesNotLost`. `HistoryTrue`: the history names the migrations whose
  objects exist. `ServesLoaded`: a server runs with settings that `Config::load` returned. The
  constraint `Focus` of the run is not used: the theorems are about all behaviours.
- **Forms.** `FormsInv` relates the chunks to the form: the parts before this one are
  without fault, the counter holds their bytes, and the sizes held back lead from what was
  written to what has arrived (`Leads`, with the subtotals as a witness, because a sum over a
  sequence would need induction). `PrefixSuffices` and `OneSignature` show that the bytes
  held back decide like the whole body, `FirstFault` that the first fault is the answer,
  `Trimmed`, `SegmentFree` and `DisplayFilenameFits` what the text functions return for
  every text. The bytes of the other fields are counted in the reference as a set of
  positions, so that the library's theorems on cardinality apply.
- **WebSession.** `OneCallPerMutation`: a mutation has at most one call, and until a call
  was answered with success or broken by the network it is not applied; hence a replay,
  which follows a refused CSRF token, cannot apply it twice. `LogoutsReal`: the verdict of a logout
  tells the truth about the token it was sent with, which other tabs cannot revive
  because tokens are never reused (`SessionsKnown`). `LateKept`: a
  request that is on its way after its client gave up is the only one that may still
  apply its mutation. The logout of an expired tab asks
  nobody and is not part of `LogoutIsReal`.
- **MaterialsPolling.** Reads, writes and the timer of the current epoch are the open
  partner's (`ReadsTagged`, `WritesTagged`, `TimerTagged`); everything else is dropped by
  the epoch checks.

TLC has checked each inductive invariant on an instance before it was proved.

Only model-checked, because fairness and ENABLED are out of the prover's reach: the
liveness properties `PublishingEnds`, `LeftoverStagingSwept`, `AdmittedLoginEnds`,
`DatabaseChoresDone`, `OrphansSurface`, `ShutdownEnds`, `DeadRowsPurged`, `ConnectionsReturn`,
`DeadSessionSurfaces` and `PendingSettles`. The four violations of section 4 are
counterexamples and need no proof.

## 6. Plan

What is left, in this order:

1. The safety half of the liveness properties, where it can be stated without fairness: that a
   step which they wait for stays possible until it is taken (for example, that a login
   waiting for a permit never waits while no task runs and none is free).
2. `Maintenance` beside `Intake`: that what `Maintenance` takes from intake (an object
   before its row, rows never taken back) is what `Originals` promises.
3. `JobQueue`: the exact condition under which a retry is a no-op, as a theorem beside the
   violation `queue_retry`.

## 7. Not modelled

- DTOs, error texts and logging: no property tells them apart. The class of an answer is modelled.
- `hash-password` and `check-config` print and change nothing; `/health` looks at nothing.
- The probe file that the store's `health` writes and removes under a name nobody else uses;
  `delete` of the store, which has no caller outside tests.
- The header of a download (its file name is quoted and encoded), and bytes of a file beyond its first 12.
- The rows of the upload dialog, which are local to it.
- The extraction workers of phase 1B, which do not exist yet; the columns they will use are
  exercised by external actions.
