# unblock: a verification project

unblock keeps issues and the dependencies between them in a libSQL (SQLite) file
`.unblock/unblock.db` and serves them to coding agents over MCP and to people over a
CLI. Several processes, one MCP server per client, share the file with no daemon
between them. This directory holds TLA+ models of that program, the TLC
configurations that check them on small instances, and TLAPS proofs of what matters
most for every value of the constants. The source is read as it stands under `src/`;
every definition of a model is mapped to its lines in `PROJECT.json`.

Contents: 1 inventory, 2 what is modelled, 3 runs and bounds, 4 fairness, 5 proofs,
6 disagreements between code and documents, 7 what is not modelled, 8 plan.

## 1. Inventory

A *mutation* goes: front end (MCP tool or CLI command) → `Session` method → permit →
advisory file lock → configuration gate → one `BEGIN IMMEDIATE` transaction in the
storage crate → post-write reads under the same guard → guards dropped, inner first.
A *read* goes from the Session to storage's read connection with no lock at all.

| component | state it keeps | operations | what is hard | what makes it correct | status |
|---|---|---|---|---|---|
| write serialisation (`engine/permit.rs`, `storage/libsql/lock.rs`) | semaphore permit, shutdown flag, flock, in-memory held marker | `acquire_write`, `acquire_with_timeout`, guard drop, `drain` | calls, processes, crashes, cancellation and timeouts interleave; a marker and a kernel lock have to agree | one writer at a time; the marker never lies; calls return; shutdown drains | WriteLock |
| session lifecycle (`engine/session/lifecycle.rs`, `config/context.rs`) | open handle, flag | open (migrates under the lock, fail-fast), `migrate`, `shutdown` | opening races writers; the drain races calls that are parked | no write survives the drain | WriteLock |
| signals and process shutdown (`cli/shutdown.rs`, `cli/commands/mcp.rs`) | recorded signal, token, flag | first signal records, cancels, raises the flag; second one exits; teardown; exit code | three steps of a thread that main does not wait for | the process ends; the exit code tells why | McpProcess, WriteLock |
| child-id allocation (`engine/session/ids.rs`) | committed children | `next_child_number`, insert | read before the transaction that uses it | a number is still free when it is inserted | WriteLock |
| dependency graph (`storage/libsql/deps.rs`, `crud.rs`) | `dependencies` table, row statuses | add, remove, create with edges, batch insert, reparent, delete, restore | the guard must hold over every order of six ways to change edges | no gating cycle, no edge to nothing | IssueGraph |
| ready and blocked reads (`storage/libsql/query.rs`, `policy/ready.rs`, `engine/session/write.rs`) | none (computed live) | ready, blocked, close with suggestions | three passes here, one pass there; several statements without a snapshot | the two answers agree | IssueGraph (partly) |
| issue lifecycle (`crud.rs`, `mutate.rs`, `model/issue/tombstone.rs`) | `issues` row, `events` table | create, import, update, close, reopen, claim, delete ×3, restore, batch close | several ways to the same status, only one column to remember what it was | CHECK kept, events replay, claims exclude, restore returns | IssueLifecycle |
| epic cascade close (`engine/epic.rs`) | counts of one planning pass | close_eligible | counts what it is about to close itself | it closes the epics that are done, all and no other | IssueGraph |
| bulk create (`engine/session/bulk.rs`) | parsed records | one batch transaction | forward references in the batch | all or none | Create/CreateBatch |
| import (`sync/import.rs`, `bd_import.rs`) | plan per record | classify, one batch insert | tombstones must stay dead; repeating it is a no-op | existing rows and what hangs on them untouched | Import/CreateBatch/ImportWhole |
| export (`sync/atomic.rs`, `export.rs`) | target file, temporary file | snapshot, write, sync, rename, sync directory | no lock between exporters; any step may fail, crash or lose power | the target is always one whole export; what was acknowledged is durable; no litter | AtomicExport |
| live configuration (`engine/session/config.rs`, `config/reload.rs`) | a snapshot `RwLock<Arc<RuntimeConfig>>` per Session, the shared `config` table | set, unset, get, list, reload, the gate of the others | a spawned task outlives its cancelled caller; a faulty row, written by hand or by another build, gates every process, and one process's repair reaches the others late | mutations use the live snapshot; what is swapped in is the table; a gated Session can be repaired; no config call gates one | ConfigSwap |
| schema migrations (`storage/libsql/migrations.rs`) | `user_version`, the tables on disk | baseline, ladder, sentinel, printed recovery | a crash between two steps; another opener; a stamp that lies | no honest file is made to lie; an open means the current schema; a re-open finishes the ladder | Migrations |
| comments (`storage/libsql/comments.rs`) | comment rows, events | add, edit, redact, import, cascade | an edit after a redaction; several ways to the same text | the events tell the text | IssueRelations |
| labels and their rename (`crud.rs`, `engine/session/organization.rs`) | `labels` table, events | with a create, an import or a patch; rename across issues | four statements that must agree on which issues count; names that merge | the events tell the labels | IssueRelations |
| MCP front end (`mcp/wire.rs`, `pre_handshake.rs`, `server.rs`, `tools/`) | line buffer, parked reply, handshake latch, running requests | read, scan, answer, gate, dispatch, limit, close | `receive()` is dropped at any await; replies written by tasks of their own | lines whole, replies in order, one answer each, no frame ends the session | McpTransport (partly) |
| discovery and layered settings (`config`) | file and env layers | find project, merge | – (pure) | precedence | `open_resolved` only |
| domain model, validation, ready policy (`model`, `policy`) | – | pure functions | – | field rules | where a model uses them |
| CLI; rendering; errors; health; fuzz; tooling | – | – | – | – | not modelled |

`PROJECT.json` lists them all with the reason for each status, and under `hazards`
the places where this code is hard to test, with the property that watches each.

## 2. What is modelled

### WriteLock, SerialStore

`WriteLock` is the path of a mutation from the semaphore to the dropped guards, one
action per step that another actor can fall between. An *actor* is a task (one call
on a Session) or a process (its `open` and its `shutdown`).

| state | code |
|---|---|
| `permit`, `ahead` | tokio's `Semaphore(1)`: its holder, and its FIFO queue of waiters |
| `stopping` | the `AtomicBool` of the Session, also set by the signal thread |
| `flock`, `held`, `guard` | the kernel's lock on `.write.lock`; `WriteLock.held`; the `WriteLockGuard` a task owns, real or re-entrant |
| `dbWriter`, `children` | SQLite's one writer; the committed child numbers of one parent |
| `pc`, `op`, `polls`, `cand` | program counters and locals |

`StartCall … Park … Admit` is `acquire_write` (the flag is read in `StartCall`, before
the wait). `LoadHeld … FastTry … Poll/LockTimeout … Mark` is `acquire_with_timeout`.
`Allocate … Begin … Commit/Rollback/Abort` is the span. `Unlock, ClearHeld,
ReleasePermit` is the drop of the guards in their order: the file is unlocked *before*
the marker is cleared, which leaves a window in which the marker is stale.
`OpenLock … OpenDone` is opening a workspace. `Crash`, `CancelQueued`, `GiveUp`,
`Abort`, `Signal` are what the environment does. `SerialStore` is what all this
promises: an owner, and a counter that only the owner advances, by one.

### IssueGraph

`deps` is the `dependencies` table, `status` the statuses of the rows. `blocks` stands
for the three blocking types, which the code treats alike, and `related` for the types
that do not gate. The cycle guard (`WouldCycle`) searches parent-child edges from
parent to child and the rest as stored. `Found` is the search itself, which the guard and
the blocked pass share: a node at a time is taken from those that wait (`Visit`); which one
decides the path that is reported and not what is found. `Reaches` and `Acyclic`, with which
the properties are stated, say the same without a search, as membership in every closed set.
`Create`
stages a row with all its edges and then checks each of them; `CreateBatch` (bulk
markdown, JSONL, bd import) has no cycle guard; `Update` carries a reparent
(`apply_reparent`), which drops every parent edge first. `Direct`, `Rollup` and
`BlockedIds` are the three passes of `live_blocked_ids`; `NewlyUnblocked` is the other
rule, the one close_with_suggestions uses. `batched` and `report` are history.

`CloseEligible` is the epic cascade: `Eligible` is tested against counts (`Children`,
`Done`), a `Round` counts what earlier rounds placed, and `CascadeCloseSet` is closed in
one transaction. `CascadeExact` compares it with a definition that has no rounds and no
counts: the least set that holds every live epic whose children are done or in the set.

### IssueLifecycle

One row is its status, whether it has `closed_at`, and its assignee. `trail` is what a
reader who replays the `events` table knows about the issue. `Blank` is an assignee of
white space, which the claim's `TRIM` treats as no assignee. `before` and `winners`
are history: the status at the last deletion, and who was told Ok by `claim` since the
issue was last handed out. `Claim` is the compare-and-set of `claim_issue`: it looks at
the assignee alone, so it takes a deleted issue, while a row that has `closed_at` is
refused by the table's CHECK (the caller sees an opaque backend error although
`mutate.rs:21` says an unassigned issue is claimed). A call that is refused changes
nothing; it is a stutter and not an action.

### IssueRelations

What hangs on a row, on top of `IssueLifecycle`: `labels` and `comment` are the two
tables, `heard` and `told` what a reader who replays the label and the comment events
makes of them. An operation that writes a row and what hangs on it (`CreateLabelled`,
`ImportWhole`, `UpdateLabels`, `HardDeleteWhole`) is the row's action and the rest in one
step, as it is one transaction; `Alone` are the actions that touch the row only.
`RenameLabel` keeps the four statements of the code apart: two that select the issues to
write events for (`Affected`, `Merged`) and two that change the table (`MergeDelete`,
`RenameUpdate`); each has its own test for deleted issues, and they must agree. `Hear` is
how an event that carries the old text is understood, so a wrong old text would show.
`UpdateComment` does not look at `redacted`, as in the code.

### McpTransport, McpProcess

`McpTransport` is `unblock mcp` between its standard input and its tools. A line is two
pieces, so that it can be cut anywhere; what it holds is a `Frame`, the few things the
code tells apart (what it decodes to, the method, what the raw bytes say of the id, strict
JSON, duplicate keys, quotas).

| state | code |
|---|---|
| `lineBuf`, `lineComplete`, `parked`, `writeHalf` | the fields of `DupScanningTransport` |
| `at` | the await at which the pending `receive()` stands: nowhere, before the parked reply is settled, in `read_until`, in the gate's own reply |
| `answered` | `PreHandshakeGateTransport.initialize_answered` |
| `call` | the handler of each request; `executing` ones hold a permit of the rate limit |
| `phase`, `result` | rmcp: handshake, serve loop, how it ended |
| `answers`, `taken` | history: what was written for which line, what was in the buffer when a line was handled |

rmcp polls `receive()` as one arm of a select and drops it when another arm wins: a reply
to send (`Respond`) or the token (`ObserveCancel`). The next call starts at `LoopHead`
with whatever the dropped one left in the fields. What one poll does without a wait is one
action (`HandleLine` in `FillLine`). rmcp itself is external: `Deliver`, `EndRead`,
`Respond` and `ObserveCancel` say what it does with a frame, an end, a result and the
token.

`McpProcess` puts the process around it: the signal thread's three steps
(`RecordSignal`, `FireToken`, `RaiseFlag`), a second signal, opening, teardown and
`ResolveExit`. Nothing orders the thread and main.

### Migrations

`db` is the file: its `user_version` and which tables and columns it has. `Init` takes
any stamp over any shape, since a stamp is one number that another build, a crash or a
hand may have written. `tx` is the open transaction, `fence` the write lock file, `pc`,
`found` and `at` the run of each opener. The baseline is one statement after the other,
each its own commit; a step of the ladder is `BeginStep`, its statements, `StampStep`,
`CommitStep`; `Reread` and `Witness` are the checks at the end, and `DropConfig` and
`ResetTheStamp` the recovery which the report of a lying stamp spells out for the
operator. `Die` is a death or a failed statement at any step.

### AtomicExport

An export takes no lock, so exports of one process and of several run at once. Each call
in `Export` runs once and stands for the file (inode) it creates; `dir` is the directory
as processes see it, `disk` the one a power loss would leave, `body` and `flushed` what is
in a file and whether that has reached the disk. The steps are those of
`write_atomic_blocking`, one per system call another export can fall between:
`TakeName`/`NextName`/`NoName` (`create_new` over the names built from the pid), `Write`,
`Flush`, `Rename` (by name: it moves whatever has the name), `SyncDirectory`; `Fail`,
`SyncFails` and `DropGuard` are the error paths through `TempFileGuard`. A cancelled
caller changes nothing (the blocking task runs on). `Crash` kills a process, whose pid may
be given out again; `Writeback` lets the kernel write entries back in any order;
`PowerLoss` keeps only the disk and tears what was not synced. `faults` and `since` are
history. The corpus is one value here. `DurableFile` is what all this promises of the
exported file: one step replaces it by a call's whole output, a power loss takes it back to
what the disk had, and whoever is told Ok has everything visible on the disk.

### ConfigSwap

`rows` is the `config` table, which all processes share; `snap` is the runtime snapshot of
each Session, represented by the rows it was resolved from: values, sources and faults are
functions of them and of layers no call writes. A cell is absent, a canonical value, or
`Bad` (a value or a non-text cell that no build decodes); what is wrong with a row depends
on the class of its key (`Fault`). `guard` is the permit and the file lock together, whose
exclusion `WriteLock` establishes. The phases of a call are `waiting` for the guard,
`holding` it, having `read` the rows, and then either `writing` (a mutation past the gate)
or `commit` and `swap`, which are the spawned task of `commit_and_swap`: it owns the guard,
so `Cancel` reaches a call before its task or inside its transaction and never the task
itself. Between the read and the spawn there is no await, so `read` cannot be cancelled
either; a process can die anywhere (`Crash`). `Refused` is the order of checks in
`config_unset`, with its exception for a fault the snapshot still lists. `EditTable` is a
hand edit or another build, which take no lock; `BreakFile` and `MendFile` are edits of the
TOML files that a reload reads. `Open` reads the rows after the migration has released the
lock. `edits` and `readAt` are history.

The modules fit together by the lock: every action of `IssueGraph`, `IssueLifecycle` and
`IssueRelations` is one transaction inside the span that `WriteLock` proves exclusive,
so they need no interleaving below the transaction. `ConfigSwap`
takes the lock as given too and adds what happens between the guard and the transaction.
`AtomicExport` stands alone: it reads the store and owns the file. A handler that
`McpTransport` executes is a call of `WriteLock`, and the signal of `McpProcess` is its
`Signal`; `Migrations` is what happens inside `WriteLock.OpenMigrate`.

## 3. Runs

| run | instance | states | shows |
|---|---|---|---|
| WriteLockSafety | 2 processes, 2 calls in one and 1 in the other, 1 poll retry, 1 child | 168,492 | TypeOK, SingleWriter, FreshCandidate, HeldMarkerTruthful, DrainExcludesWriters, refinement of SerialStore |
| WriteLockLiveness | 2 processes, 2 calls in the first | 23,331 | CallsReturn, ShutdownDrains under FairSpec |
| WriteLockShutdown | as Safety | – | violation of ShutdownWitness |
| IssueGraphSafety | 3 issues (two epics, one dotted below the other), ≤ 3 edges, batches of ≤ 2 | 95,462 | TypeOK, NoDangling, InteractiveAcyclic, CascadeExact |
| IssueGraphBlocking | no epic, 1 external id, ≤ 2 edges | – | violation of BlockingDirection |
| IssueRelationsSafety | 2 issues, 2 actors, 2 labels, 1 comment, 2 texts, imports of ≤ 1, symmetric | 34,824 | TypeOK, Coherent, AuditComplete, OneHolder, RestoreReturns |
| IssueLifecycleRestore | 2 issues, 2 actors, symmetric | – | violation of LeavesByRestore |
| AtomicExportSafety | 3 exports, 2 of one process, 3 temporary names, 2 tries, the names overlap | 403,210 | TypeOK, TargetWhole, AckedDurable, OwnTemp, TempsCleared |
| AtomicExportSyncFails | 3 exports of one process | – | violation of AlwaysWhole |
| ConfigSwapSafety | 2 processes, 2 calls on either, a layer key and a startup key, 1 value, 1 edit, 2 troubles, symmetric | 876,924 | TypeOK, MutationOnLiveSnapshot, SwapIsTable, CommitThenSwap, NoFaultMinted, HintRepairs |
| McpProcessRun | 13 streams of 3 lines, 1 request at a time, FairProcSpec | 271,466 | TypeOK, LinesWhole, ReplyBeforeNextRead, HandshakeHolds, OneAnswer, ExitTruthful, Answered, SignalEnds |
| MigrationsRun | 2 processes, 2 faults, 400 files, FairSpec | 108,572 | TypeOK, EndsTruthfully, StaysHonest, Repaired |

Why the bounds are enough:

- *WriteLock.* Two calls in one process are needed for the semaphore, the marker and
  the drain; a second process for the file lock. `MaxPoll = 1` gives the first try, one
  retry and the timeout. `MaxChild = 1` stops calls from starting once a child exists,
  but every call that has started by then still runs, so two calls and a second process
  do compete for number 1. The safety properties are proved for all values.
- *IssueGraph.* The shortest cycle that one edge at a time cannot close needs two edges
  of one `create`; the third issue makes cycles of length three and mixed ones.
  `MaxDeps` and `MaxBatch` cap edges and records; `EdgesFrom` declares at most two edges
  per insert. External ids have no outgoing edge; the safety run leaves them out and the
  blocking run keeps one.
- *IssueLifecycle.* Issues do not interact except in `CloseAll`, `Delete` and `Import`,
  for which two are enough; exclusion of claims needs two actors. The state is finite
  without a cap. Issues and actors are interchangeable, so the run uses symmetry.
- *IssueRelations.* Two labels merge and part again; a comment needs two texts for an edit.
  No definition reads a label or a comment together with an assignee, so `MCSpec` lets
  either rows have holders or something hang on them (`MCNext`); the theorems cover both at
  once. An import of one record (`MaxBatch`) is enough where rows of a batch do not meet.
- *McpTransport.* Three lines: one that opens the session and two in flight, or one that
  comes too early, the opening, and one to serve. The streams of `MCMcpProcess` take every
  branch of the reader, the gate and the tools. One permit makes the limit bite.
  `CHECK_DEADLOCK FALSE`: a process that has exited does nothing more.
- *Migrations.* Two openers meet at the fence; two faults interrupt a run and the one
  that resumes it. All files are initial states, and opens repeat without end.
- *AtomicExport.* Two exports meet in a name or in the target; the third is the one whose
  unfinished file is moved in the violation. Each call runs once, which bounds the state,
  and two tries stand for the 64 of `MAX_TEMP_ATTEMPTS`. The second process's first name is
  the first one's second (a pid may equal a hundred times another plus the attempt).
- *ConfigSwap.* Two calls, because the hazards are pairs: a mutation and a config call of
  one Session, or the config calls of two. The first table is any table, so faulty rows need
  no edit; `MaxEdit = 1` lets one come in between. `MaxTrouble = 2` counts crashes,
  cancellations, failed commits and broken files; waiting without end is possible, for no
  fairness is assumed. A blocking key and a settable one meet every branch except the
  harmless unknown key, which the theorems cover with the rest.

Each property of a passing run is paired in `PROJECT.json` with a mutant: a definition
changed the way a plausible bug would change it (a dropped test, a guard that leaves the
permit early, a marker that is not cleared, edges checked one by one, a patch that
forgets `closed_at`), under which TLC finds the property violated.

## 4. Fairness

Three runs assume any. In `WriteLockLiveness`, `FairSpec` is weak fairness of `Advance(t)` for
each call and of `Serve(p)` for each process: a future that can make progress is polled
again by tokio, the semaphore is FIFO (`ahead` records who parked first), the poll loop
is bounded by its deadline and sleeps between tries, and `open` and `shutdown` are
awaited by `main`. No fairness is assumed of what the environment does: crashes,
cancellations, errors, signals, new calls, starting processes. Weak fairness is enough:
a call that finds the lock taken still advances, by another poll and then by the
timeout, and only the holder of the file lock waits for SQLite's writer. Safety
and the refinement assume nothing.

In `McpProcessRun`, `FairProcSpec` says that what is ready to run is polled (`Receive`,
`WriteParked`, `Serve`, each handler, the arm of the token), that main goes on when its
await returns, and that the signal thread finishes the signal it has in hand. A write
completes because the peer reads or has gone; a peer that does neither for ever is outside
`Answered` and `SignalEnds`. Nothing is assumed of the client, of read failures, or of
signals. The select is unbiased, but weak fairness suffices: nothing disables the token's
arm once it is ready.

In `MigrationsRun`, a run goes on and the workspace is opened again (weak fairness of
`Run(p)`), and the operator carries out the recovery that is reported to him again and
again: strong fairness, for he needs a moment at which no run is going on, and opens can
come and take it away.

## 5. Proofs

`WriteLockProof`, `IssueGraphProof`, `IssueLifecycleProof`, `IssueRelationsProof`,
`AtomicExportProof`, `ConfigSwapProof`, `MigrationsProof` and `McpProcessProof` prove the
safety properties of their modules' passing runs for any sets of processes, calls, issues,
actors, labels, comments, names, keys and streams and any bounds, from the `ASSUME`s on the
constants alone (disjoint sets, naturals, lines of the known kinds, and finitely many issues
and external ids, without which a search need not end). Some theorems go further than the
runs; what they state was checked by TLC on the same instances before it was proved.

The library's induction theorems take an operator and cannot be used. Where a proof needs
induction (the searches, the rounds of the cascade, the first in a queue) it goes by sets of
naturals: such a set has a least element (`LeastNumber`, from the well-foundedness of `<`).

**WriteLock.** None of the properties is inductive. The invariant `IInv` adds to
`TypeOK` the conjunction `Owned`: who may hold the permit at which step
(`PermitOwned`), the flock (`LockOwned`), the marker (`HeldOwned`), that a guard is
always real (`GuardReal`, so the re-entrant branch, which would skip the file lock, is
never taken by a mutation: the marker is up only while the permit is, and the permit
excludes everybody who could load it), and `FreshCandidate` itself. It is needed
because exclusion between processes rests on the flock and exclusion inside one on the
permit, and the marker links them. The theorem `Refinement` shows that each step is an
`Enter`, `Mint` or `Leave` of `SerialStore` or a stutter.

Two theorems are the safety half of what `CallsReturn` says on a small instance.
`NothingLeaks`: whatever is held (permit, file lock, transaction) is held by a call or a
process that stands at a step which still has it to give back, after any timeout, error,
cancellation or crash. `NoDeadlock`: in every Session with something under way, one of its
actors can take its next step, and `BEGIN IMMEDIATE` never finds a transaction open. The
argument is the order permit, file lock, transaction, plus that a queue has a first: `Line`
says that who is ahead is transitive, irreflexive and finite, without assuming that calls
are finitely many. That the file lock may be taken does not stop a call from going on: it
polls, and then times out. `CanGoOn` names the two guards that can make an actor wait, and
TLC finds it to agree with the enabledness of `Advance` and `Serve` on the small instance.

**IssueGraph.** Reachability is treated by closed sets: lemmas give reflexivity and
transitivity, that removing edges cannot create a path (`RemovalSafe`), and that adding
a set of edges each of which closes no cycle in the union keeps the graph acyclic
(`InsertionSafe`). The search of the code is proved to find what can be reached and nothing
else: each turn visits a new node or none is left, so that as many turns as there are nodes
are enough. `AcyclicStep` then has one step per action. `NoDangling` is inductive with
`TypeOK`.

`CascadeProved` is `CascadeExact`: the planning rounds, which count what earlier rounds
placed, reach the least set that holds every live epic whose children are done or in it.
`CascadeComplete` adds that a second call finds nothing.

What the blocked pass means: `StallsExplained` says that if all open work is blocked then an
epic has an open child or the edges form a ring in the blocking direction (the search for a
way out follows blockers and parents until it repeats itself), and `GuardKeepsWork` that the
guard rules both out while nobody has a parent. With parents it does not, and
`EpicChildrenWait` shows how sure that is: an open child of an epic is *never* ready, for it
blocks the epic and inherits the block (section 6). `SuggestionsSound` bounds the other
disagreement: a suggestion of a close that is not ready is an epic with an open child, or
hangs below a closed parent that is blocked itself.

**IssueLifecycle.** The invariant is per issue, `RowInv`: the CHECK, the assignee the
events name, the winners, the status the events name, and, for a tombstone, that it has
`closed_at` exactly if it was closed when it was deleted and that the events agree. The
last conjunct is what `RestoreReturns` and the replay after a restore rest on.

**IssueRelations.** `RowsAlone` shows that each step is one of `IssueLifecycle` or leaves
the rows alone, so that all of its theorems hold here (`RelatedRows`). `Hangs` says that
labels and comments hang on rows that exist and are as their events tell; each action keeps
it because only a hard delete takes a row away and because the two
statements of a rename come to what its events say.

**AtomicExport.** `IInv` says that a file under a temporary name is held by a call that has
not finished with it (`Held`), that a guard which is about to remove still owns its file
(`OwnUntilRemoved`), that data is whole before it is synced and synced before it is
renamed (`InOrder`), that target and disk are safe to lose power over (`TargetSafe`), and
that every later rename counts for each call that has replaced the target (`Since`). All
but `Held` and `InOrder` assume that no directory sync has failed; the violation shows why.
`ExportsAtomically` is the refinement of `DurableFile`, and says the same in one piece: no
reader, and no reader after a power loss, ever sees anything but the whole output of one
call, in the order of the renames. `Fresh` (who has not renamed has replaced nothing) gives
that a call replaces the file once. Its hypothesis is the one under which the code keeps the
promise: after a failed directory sync the armed guard removes by name.

**ConfigSwap.** `IInv` adds four conjuncts to `TypeOK`. `Owned`: from `holding` on a call
is the guard's holder, so at most one call is past the guard. `Asked`: a call in a phase was
asked something that leads there (an accepted `set` in `commit`, for instance), at a Session
that is open. `Live`: a mutation's own snapshot is the live one and passes the gate. `Current`:
with no edit since the read, the call's rows are the table in `read`, the table as it will be
in `commit`, and the table as it is in `swap`. The action properties follow from `IInv` and
one step.

**Migrations.** Neither property is inductive. `Fenced` says that the run which is going on
has the fence and that an open transaction is its own, so what it has seen at one statement
still holds at the next: `Stage` relates the label it stands at and the version its ladder
has reached to the stamp and the shape of the file and of its transaction. `Hinted` says that
a report of a lying stamp stays true until the operator has acted on it, hence that nobody
who ended with an open file is contradicted by the recovery. `HonestStays` then has to look
at the three steps that write the file, and at the operator, who never has an honest one.

`FileEffect` lists what a step can make of the file. From it follow `NewerLeftAlone` (a file
of a newer build is not written by runs or recoveries), `NothingLost` (a run, wherever it
dies, takes nothing away and lowers no stamp; only the operator does) and `RepairableEnds`.
`RecoveryLasts` says that one recovery is enough. For that `Reported` keeps the report equal
to the gaps of the file until the operator has acted, and `Sound` says what his reset leaves:
the comments' parts are there if their step will not run again, and the config table is whole
or does not exist. Every later step, and every death in between, keeps `Sound`, and on a
sound file no run reports a gap.

**McpTransport and McpProcess.** `Refines` carries what is proved of the transport over to
the process. The transport's invariant says where the loop may wait in each phase, what the
latch says there and when a reply may be parked (`Place`), what the buffer holds after each
number of pieces (`Buffered`: nothing, a head, or the line that was handled, so that a
dropped `receive()` finds the head it left), and for each line who still owes its answer:
its call, the parked reply, the gate or the handshake, and only one of them (`LineInv`,
`Pending`). `PInv` relates token, recorded signal, the result of the loop and the exit code.

`OneAnswer` says that no line is answered twice; `NothingForgotten` that none is lost: while
the reader waits for the next byte, every line read so far that expects an answer has it, or a
handler that is still to give it, or there is nobody to read it. Its invariant `Owed` follows
a request from hand to hand (gate, handshake, handler) and ends with the answer or the end of
the loop. `LimitKept` counts the calls that execute against the permits.

Model-checked only: the liveness properties (liveness under fairness is out of the prover's
reach) and the four violations. That the recovery is carried out and the ladder then finishes
(`Repaired`), that calls return and that the drain ends are such; `RecoveryLasts` and
`NoDeadlock` are as near to them as an invariant comes.

## 6. Where the code and its documents disagree

Each has a run in which TLC finds the counterexample.

1. `WriteLockShutdown`: `Session::shutdown` says its `Ok(())` witnesses that no write is
   in a transaction. A call that loaded the flag before it was set, and parked behind the
   drain, is admitted when the drain gives its permit back.
2. `IssueGraphBlocking`: the spine says the cycle guard follows unblock's own blocking
   direction. It searches parent-child the other way, and so accepts an issue that is
   blocked by its own child; the child inherits the block and neither becomes ready.
3. `IssueLifecycleRestore`: restore is said to be the dedicated way out of a deletion.
   A claim is another, without a `restored` event.
4. `AtomicExportSyncFails` (a fault of the code): if the directory sync fails after the
   rename, the guard is still armed and removes the name, which another export of the same
   process may have taken by then. A third export that takes it next has its unfinished
   file renamed over the target by the second. Disarming the guard at the rename would do.

Read on the way and not given a run:

- `newly_unblocked` is said to list what the close made ready
  (`close_with_suggestions.rs:15`). It looks at a candidate's own edges; the ready query
  also looks at the open children of epics (of closed ones too) and at everything above.
  `IssueGraph.SuggestionsReady` states the promise; closing an epic that has an open child
  refutes it, for the child is reported and is not ready. It can go wrong in two
  ways only (`SuggestionsSound`).
- An epic with an open child counts as blocked, and what hangs below a blocked issue is
  blocked, so an open child of an epic is never in the ready list (`EpicChildrenWait`), be the
  epic open or closed. The two passes are each as their comments say; no document was found
  that speaks of the two together.
- The policy crate's `is_ready` blocks the child of an open parent that is no epic, the
  storage's query does not.
- `relations.rs:64` calls the presence of `redacted_at` the flag of a redacted comment,
  whose body is gone. `update_comment` gives such a comment a body again and leaves the
  flag, after which `delete_comment` does nothing, so the new body cannot be redacted.
- A stamped file that has no comments table at all makes step 2 fail on every open, and
  is reported as a failed step, without a recovery. `Repaired` is therefore stated of the
  files that have the tables of the baseline (`Repairable`).

## 7. Not modelled, and why

Rendering, errors, the command line, discovery, field validation, ids and hashing are
pure functions or input and output; the repository tests them by example and by
property. Of the fields
of an issue only those are kept that a guard or a property reads: titles, priorities,
types, `defer_until` and templates are left out, so the ready set here is that of an
unfiltered query. Time is left out: `now` never decides anything but the lock's deadline,
which is a count of polls. The durability of SQLite is taken as given: a commit is
atomic, and the transaction of a dead process is rolled back. Failures of `flock` other
than "taken" end like a timeout (`GiveUp`).

A read of several statements (ready, blocked, the corpus of an export) has no snapshot of
its own, and another process may write between two of them. The code promises nothing
about the moment such a read describes, and no property of it was found that holds and is
worth having; the models take a read as one step. Of the MCP server are left out: schemas
and the decoding of arguments, prompts, `notifications/cancelled`, the clamp of the
protocol version, what a quota measures, and reading on after a read error, which rmcp does
not do. Parsers (markdown, bd records), ranking and inheritance are pure. Test kits, fuzz
targets, lints and the release tool are not part of the program.

## 8. Plan

Order: what several actors share first, then what one transaction must keep, then files,
then the front end.

1. Done: `WriteLock` with `SerialStore`, `IssueGraph` with the epic cascade,
   `IssueLifecycle`, `IssueRelations`, `AtomicExport`, `ConfigSwap`, `Migrations`,
   `McpTransport` and `McpProcess`, and the proofs of their safety.
2. Done: the searches and the cascade, by induction on sets of naturals; leaks and deadlock of
   the lock; the recovery of the ladder; the refinement of `DurableFile`; lines that are owed.
3. To prove next: what a reader of the events can rely on across an import, and a statement of
   `ConfigSwap` that relates the snapshots of two Sessions. To model next: the decoding of tool
   arguments, and the corpus of an export as the several reads it is.
