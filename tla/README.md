# githttp-fs in TLA+

githttp-fs serves one git repository per tenant over HTTP: a write is a commit,
a listing is a tree, and every change is posted to a webhook receiver. A node is
a standalone server, a *master* that also announces its repositories, or a
*replica* that mirrors a master and only reads. This directory holds models of
the parts where order, failure and concurrency decide whether data survives,
TLC configurations that check them on small instances, and TLAPS proofs.

File references below are to the Rust sources in `src/src/`.

| Module | Models | Checked by | Proofs |
| --- | --- | --- | --- |
| `RepositoryIndex` | the in-memory listing of a node and the disk walks that feed it | `index` | `RepositoryIndexProofs` |
| `CommitGraph` | git history as replication sees it | through `Follower` | |
| `Follower` | a replica: reconcile, drain, sync, stream, locks, bootstrap gate, crashes | `follower`, `follower_liveness`, `follower_crash_lock` | `FollowerProofs` |
| `ReplicaRegistry` | a master's row for one node id: presence, refusals, collisions, verdict | `registry`, `registry_reconnect` | `ReplicaRegistryProofs` |
| `TenantLog` | what the users of one tenant are promised (abstract) | through `TenantStore` | |
| `TenantStore` | one tenant's lock, write, delete and read handlers, the blocking pool, maintenance | `store`, `store_prune` | `TenantStoreProofs` |
| `ContentTree` | what each write does to a tree, the disk and the hooks (pure) | through the next three | `ContentTreeProofs` (lemmas) |
| `TenantContent` | a tenant's history under the write routes, one write after another, and the heal of its working tree | `content`, `content_revert` | `TenantContentProofs` |
| `TenantReads` | listings, counts, dates, logs and line windows over that history | `reads` | `TenantReadsProofs` |
| `HookQueue` | a tenant's webhook queue, its consumer and replays | `hooks` | `HookQueueProofs` |

`MC<Module>` gives a module its small instance: sets of paths and orders,
commit graphs, symmetry. `FollowerConstants`, `History` and the other named
assumptions are on the constants only, and TLC evaluates them on every run.

## 1. Inventory

### Repository index (`replication.rs`, `RepositoryIndex`; `git.rs`, `list_repositories`)

*State*: `heads` (a head per repository and the sequence number it was
announced at, 0 if a walk found it), `complete`, `scanned`, `sequence`, the
async mutex `scan_lock`, and on disk the identity file whose absence means that
`repos_path` is not mounted.
*Operations*: `record_head` and `remove`, called by the notifier under the
tenant's lock; `rescan` by a timer; `snapshot` by `GET /_replication/state`,
health probes and a replica's reconcile, which rescans first when the index is
incomplete.
*Hard*: a walk takes long enough for commits and deletions to land under it; a
directory may be unreadable; `repos_path` may vanish between any two steps.
*Correct when*: a listing served as complete omits no live repository, because a
replica deletes what a complete listing omits (which the code keeps but for one
window, divergence 8); a walk never rolls a repository back; after any
disturbance rescans bring the index back to the disk.

### Replica follower (`replication.rs`, `ReplicaFollower`; `git.rs`, `GitReplication`)

*State*: `pending` (repository to target), the flags `full_reconcile_requested`
and `identity_verified`, the permit of `wake`, the open issues
(`replica_ahead`, `history_diverged`, `deletion_refused`), the bootstrap gate;
on disk each repository's objects and HEAD; the node's own index.
*Operations*: the worker loop (`reconcile`, `drain_pending`, `sync_repository`
with a semaphore of `parallelism`), the stream task (`run_event_stream`,
`handle_event`), `fetch_and_apply` with its 404s and broken transfers,
`import_pack` (objects, then ref) or `GitStaging::create` (a whole repository by
rename), `delete_repository`, the deletion guard, the pairing with a master's
identity.
*Interacts* with the master by polling its listing (an HTTP response of
`RepositoryIndex.snapshot`), with its notification stream, and with its packs,
each of which may be older or newer than the others.
*Hard*: three sources of truth that disagree, retries that outlive what they
retry, a crash between objects and ref, a hint that overtakes a listing, wiping
a replica because a listing was short, starting cold and answering 404.
*Correct when*: a local HEAD only moves forward or is deleted on the word of a
complete listing; what HEAD reaches is there; a repository is locked out only
against history that does not fast-forward it; the gate does not open before
what was listed has landed; every repository ends where the master has it.

### Tenant store and maintenance (`routes/files.rs`, `routes/tenant.rs`, `state.rs`, `util.rs`, `maintenance.rs`, `git.rs`)

*State*: the tenant's async lock (`AppState::repo_locks`), the handlers waiting
for it or for the work they spawned, the blocking pool, the objects and HEAD on
disk, `MaintenanceScheduler`'s slot per tenant.
*Operations*: a write (lock, `open_or_init_repo`, blob, tree, commit, ref,
`notify`, `enqueue`, `schedule`, unlock), `DELETE` of a tenant, reads that take
no lock, the maintenance pass (list, pack, prune loose objects, prune packs).
*Hard*: a handler whose client goes away is dropped with its lock guard while
the closure on the blocking pool runs on; a pass deletes objects by listing;
deletion and re-creation of a tenant under a read.
*Correct when*: nothing HEAD reaches is destroyed; history only grows; the
queue and the announcements are in commit order; a read fails only if its
tenant was deleted under it; a write that was enqueued is eventually packed.

### File operations, orders, revert and rollback (`git.rs`, `GitWrite`, `GitOrder`, `GitCommits`; `order.rs`; `routes/{files,order,commits}.rs`)

*State*: the tree of HEAD, with an `.order.json` index in some directories; the
working tree on disk when `checkout_files` is on.
*Operations*: write, delete, move of a file or a folder, write, reorder,
unpin and delete of an order, revert, rollback; each also keeps the indexes of
the directories it touches up and yields the changes for the hooks.
*Hard*: sequences of legal calls: renames found by similarity, folders where
files were, stale index entries, operations that fail after they began on disk.
*Correct when*: what a receiver was told is what HEAD holds; the disk mirrors
HEAD; upkeep preserves order; a reorder moves one entry; a revert of the last
commit restores the tree before it.

### Hooks and replay (`hooks.rs`, `routes/replay.rs`)

*State*: a queue per tenant in memory, one consumer task per busy tenant, and a
receiver behind HTTP.
*Operations*: enqueue under the tenant's lock, the consumer task
(`spawn_consumer`), `deliver_with_retries`, `replay_hook` (which decides the paths at once) and
`deliver_replay` (which reads contents in chunks when their turn comes).
*Hard*: refused posts, answers lost after the receiver applied the event, a
crash with events in memory, a replay whose paths and contents are of different
commits, commits made between the two.
*Correct when*: a drained queue leaves the receiver with what HEAD has unless
something was lost, a replay mends a loss, and the queue always drains.

### Replica registry (`replication.rs`, `ReplicaRegistry`; `routes/replication.rs`)

*State*: a row per node id (whether a stream is connected and under which
instance token, the last contact, the poll interval and the sync status the
replica stated, the run of refusals), the collision issue on each side.
*Operations*: `note_request` on every request, `stream_opened` and
`stream_closed` around the stream's task, `expire_collisions` and
`master_status` in a health probe, the replica's reconnect loop with its
backoff.
*Hard*: a dead connection is noticed late, so a replica that restarts meets its
own previous socket and looks like a second replica of the same name; one that
dies before its hello ends without `stream_closed`; nothing but time says that a
collision is over or that a replica went dark.
*Correct when*: restarts alone are never reported, as long as dead connections
are noticed in time; a row never says connected of a process without a
connection; a collision that is forgotten is over, and one that is over is
forgotten; a dark replica is noticed, and a replica that is back is healthy
again. On the row of a stream that ended before its hello only this holds of it:
a collision that is forgotten is over (divergence 15).

### Reads (`git.rs`, `GitFiles::list_files` and what it calls, `list_commits`; `traverse.rs`, `seek.rs`)

*State*: none; pure functions of the history.
*Operations*: a plain listing, a search by name, a selection by path, a listing
by date, each with a depth, hidden names, an order and pages; the count; the
log of a path across renames; the window of lines of a read.
*Hard*: four modes that reach the same answer by different routes; a depth that
must cut the answer and not the dates below it; a walk through the history
under a time budget; a log that is walked again for each page.
*Correct when*: the modes agree on what they share, a dated listing shows what
has a date in the window, a log is whole and its pages add up to it.

### In part

*Notification streams*: the channel, its overflow (`Lagged`) and the reconnect
are in `Follower` for one subscriber; who may hold a stream is in
`ReplicaRegistry`. *Status and health*: issues and gate are in `Follower`, the
silence threshold and the verdict of a master in `ReplicaRegistry`. *Reads*:
see section 6 for what is left out.

### Not modelled

Configuration, validation of single values, authentication and error rendering
(`config.rs`, `validate.rs`, `middleware.rs`, `error.rs`) keep no state and
decide nothing about order. Creating the replication identity and promoting a
replica is sequential code at start-up; what the identity protects is in
`RepositoryIndex` and `Follower`. libgit2, tokio, the file system and HTTP are
modelled only by what the code relies on: a rename is atomic,
`git_commit_create` needs its tree and its tip, a tokio mutex is fair.

## 2. How the modules correspond to the code

### RepositoryIndex

| TLA+ | Code |
| --- | --- |
| `Commit`, `DeleteTenant` | a handler changes the disk, holding the tenant's lock |
| `RecordHead`, `RemoveEntry` | `record_head`, `remove`: the announcement before that lock is let go |
| `SnapshotCall`, `SkipScan`, `VerifyIdentity`, `ServeListing` | `snapshot`, at its awaits |
| `RescanDue` | the timer's `rescan` |
| `StartScan`, `CheckCanary`, `Probe`, `ProbeUnreadable`, `Merge` | `rescan_locked`: sequence at the start, identity file, `list_repositories` one directory at a time, the fold into the index |
| `OutOfBand`, `Unmount`, `Remount` | an operator, a mount |

A head is the number of the store change that made it, 0 for what the process
found on its disk. `Settled` excludes what
the process cannot know yet: a repository between write and announcement, and
one changed behind its back until a walk has seen it (`drift`, `dirty`, ghosts).
A repository on a store that is away is settled like any other, because it will
be back: `store` is what the operator's disk holds, `Visible` what a walk finds.
Three more ghosts say how far the identity file can vouch for a listing: `left`,
of a walk, that the store went away after the walk had found the file; `misled`,
that the index was last made from such a walk, taken for complete; `present`, of
a caller, that the store was in place at some moment of its call to `snapshot`.

### Follower

`up` is the master's disk, `shown` its listing, `known` the replica's own index,
`head` and `objects` its disk. `CommitUpstream`, `DeleteUpstream` and `Announce`
are the master's handlers; `RestoreUpstream` is an operator restoring a backup
upstream; `Swap` puts a master of another data set at `master_url`.

| TLA+ | Code |
| --- | --- |
| `Connect`, `HandleUpdated`, `HandleDeleted`, `DropStream` | `run_event_stream`, `handle_event` |
| `BeginPass`, `FetchState`, `FetchStateFails`, `RefuseListing`, `ActOnListing` | `run_worker`, `fetch_state`, `reconcile` |
| `BeginDrain`, `StartSync`, `Admit` | `drain_pending` and its semaphore |
| `Probe`, `Download`, `DownloadFails` | `sync_repository`, `fetch_and_apply`, `relation_to` |
| `ImportObjects`, `MoveRef`, `MoveRefFails` | `import_pack`: objects first, then the ref if it fast-forwards |
| `Clone`, `CloneFails` | a fresh repository, whole by rename |
| `Delete` | `delete_repository` |
| `EndPass`, `Poll`, `Woken` | the end of a pass: stall count, gate, sleep or wake-up |

Steps are cut at awaits and between writes to disk. A commit is a model value
with the set of its ancestors; a pack is a set of commits.

### TenantStore

A write is a number, and makes two objects: its content and its commit.
`TenantLog` is the abstract specification, and `Promise` in `TenantStore` the
refinement mapping: `seen` is the tip a write under way was prepared on
(`MadeFrom`), `committed` what was committed since boot, `told` the hooks'
queue. The other steps of the store are stutters, and so is the pass. That is
what holds whether or not handlers are dropped: a commit is made on the state
it was prepared from or not at all, because `git_commit_create` insists on the
tip, not because of the lock.
`Request`, `StartWrite`, `StartDelete`, `PublishWrite`, `PublishDelete`,
`AnswerNothingDone` are the handler; `CreateRepository`, `Open`, `WriteContent`,
`WriteCommit`, `MoveHead`, `RemoveRepository`, `JobFails` are what it handed to
the blocking pool; `Disconnect` drops the handler and its lock and leaves the
work alone, `Forget` ends work nobody waits for. `StartPass` to `EndPass` are
`MaintenanceScheduler` and `GitMaintenance::run`, step by step; `OpenRead`,
`Lookup`, `FailRead` are `run_tenant_read`. All the write routes have this
shape; what they do to a tree is in `ContentTree`.

### ContentTree, TenantContent, HookQueue

A tree maps paths (sequences of names) to blobs; a name is a number so that it
has an alphabetical order, `Index` (0) is `.order.json`, `HiddenName` are those
with a leading dot. Each write of `git.rs` is an *edit*: removals and upserts
for `TreeUpdateBuilder`, commands for the working tree, changes for the hooks.
`Applies`/`After` are the builder (which refuses a path below a blob of the tree
it starts from, even if the same edit removes that blob), `Job` is `HookJob::new`, `Receive` is the
receiver that API.md describes (insert-or-replace; external). `Renames` gives every
pairing `find_similar` may choose: equal blobs must be paired, others may be.

`TenantContent` applies edits in the order of the code: disk commands one by
one, the commit only if all worked, then the hooks. Its writes are atomic, as
the tenant's lock makes them (`TenantStore` has what happens when it does not).
`Heal` is `checkout.rs`: a restart that makes the disk what HEAD is, from what a
failed operation (`torn`) or a node without `checkout_files` left there. A
process killed half way through an operation leaves the same kind of disk as an
operation that fails half way, and has no action of its own.
`HookQueue` has a tree that changes under a queue; `Take`, `ReadFiles`,
`ReadOrders`, `Delivered`, `Failed`, `Abort`, `EndJob` are
`spawn_consumer`, `deliver_all`, `deliver_replay` and `deliver_with_retries`.

### TenantReads

Every read is an operator over `TenantContent`'s history. `CollectFlat`,
`BuildTree`, `PlainListing`, `FilteredListing`, `Search`, `Selection`,
`DateListing`, `FinishDated` are the functions of those names in `git.rs`; a
tree of nodes is its set of files and its set of directories. `FileDates` walks
the history with a budget counted in commits, `Log` follows the pairs
`find_similar` made, the same at each call. The date of a commit is its number:
two commits never share a date. `SeekStep` is one line of `apply_reader`, a line
a short sequence of characters.

### ReplicaRegistry

| TLA+ | Code |
| --- | --- |
| `Start`, `Stop`, `Lose` | processes under one node id, and the network; a number is free for a later process once nothing is left of the last (`Forgot`) |
| `Poll` | the state poll, which states interval and sync status (`Noted`, `Reported`) |
| `Dial` | the events route up to its decision: `note_request`, `stream_opened` (`Holds`, `Refusal`, `Admission`) |
| `Answer` | its second half, after the row was let go (the issue), and `run_event_stream` reading the answer |
| `SendHello` | the first step of the stream's task |
| `EndLost`, `EndLagged` | the stream's task ends: `stream_closed` |
| `EndUnsaid` | it ends because its hello cannot be sent, without `stream_closed` |
| `HealthProbe`, `Verdict` | `expire_collisions` and `master_status` in `build_health` |
| `Tick` | time, which may not pass while something due within it has not happened |

Timestamps are ages, capped where no comparison tells them apart any more.
`mute` and `lostMute` are the streams whose task has yet to send its hello: a
task may be so late that the connection is dead by then, and whether the hello
still goes into the channel depends on whether the master has noticed. Three
ghosts record what excuses a report: `rivals` (two processes were up at once),
`overdue` (a dead connection lasted for `COLLISION_REPORT_AFTER_SECS`) and
`forgotten` (the row is still connected for a stream that ended before its
hello). A forgotten row is `Stranded` once its process is gone: nothing on the
master will ever release it, and every process that comes after is refused.

## 3. Runs

Times are with two workers.

| Run | Question | Instance |
| --- | --- | --- |
| `index` | Can commits, deletions, walks, unreadable directories, out-of-band changes and a `repos_path` that vanishes interleave so that a complete index or listing omits a live repository, a walk rolls one back, or the index never recovers? | 1 repository, 1 client and the timer, 3 store changes, 2 faults; fair |
| `follower` | Is a HEAD always whole, does it only advance, is every deletion justified, does the gate open in time, whatever fails where? | 3 interchangeable repositories, `parallelism` 2; a root, its child and an unrelated root; 1 upstream change; 1 fault of seven kinds |
| `follower_liveness` | Does each repository converge, or end up locked or refused? | 1 repository; a fork and an unrelated root; 2 changes, 1 fault of nine kinds; fair |
| `follower_crash_lock` | *Violation*: can a fast-forward be locked out? | 1 repository, 1 commit, 1 crash |
| `registry` | Are restarts told from collisions, presence and collisions kept true, dark replicas noticed and others called healthy? | 2 process numbers, used again for later processes; intervals of 1 to 3 units; dead connections last up to `ReportAfter`; fair |
| `registry_reconnect` | *Violation*: does the row of a process that reconnected survive the end of its old stream? | 2 processes |
| `store` | Does maintenance destroy anything reachable, is the tenant a log of atomic writes, is every commit told, do reads fail only by deletion, does every write get packed? | 2 writers, 1 reader, 2 writes, 1 deletion, 1 client that leaves, 1 crash or error; `destructive_prune` on and off; fair |
| `store_prune` | *Violation*: does destructive pruning need no grace period? | same, without fairness |
| `content` | Do events, disk, orders, reverts and rollbacks agree with the tree? | 3 names (one hidden), paths `1`, `2`, `3`, `1/2`, 2 contents, 5 commits after the root |
| `content_revert` | *Violation*: is every change of a revert told? | same, 4 commits |
| `reads` | Do the modes of a listing agree, are dates, logs and windows what the history says? | paths `1`, `3`, `1/1`, `1/1/3`, `1/2/1`, one hidden name, 3 commits after the root; depths 1, 2 and none; pages of 1 and 2; up to 3 lines |
| `hooks` | What does the receiver hold when the queue is drained, and does it drain? | 2 files, 3 writes, 2 replays, chunks of 1, 2 attempts, 1 loss; fair |

Why the bounds are enough. A race on the index needs one walk, one change
before and one during it, and one more to be stale against: three changes;
repositories do not interact, so one shows it, and the proofs cover any number.
The guard (a majority of at least two), the semaphore and the gate relate
several repositories, and three give both a minority and a majority. A fork plus
an unrelated root gives every answer of `relation_to`. One fault at each
possible step shows what a single failure breaks. Two process numbers give
a restart and a second replica of the same name; a number is used again once
nothing is left of the process that had it, so that there is no bound on
restarts. The intervals are the smallest that keep the order of the real ones (a
refused replica dials before a collision expires) and let a dead connection be
noticed both before and after the time a collision is reported at. `content` and
`reads` treat the two contents alike. `content` compares states without the
events and the operation of the last step (`MCView`): no invariant and no action
reads them, and the action properties look at each step by itself. The four paths
give file over file, folder over file, file in folder and a folder where a file
was; five commits are enough to build such a folder, order it and undo an earlier
commit, and `content_revert` needs four. `reads` has a third level, so that a
depth of two cuts below a folder, and a folder holding nothing but hidden names.
A pass and a
dropped handler need two writes and one deletion to overlap in each order.

`CHECK_DEADLOCK FALSE` is set where the bounds on writes, commits or changes let
the system come to rest. In `Follower` a timer is always enabled, so deadlock is
checked there.

### Fairness

- `RepositoryIndex`: a handler that wrote announces, the rescan task is a loop
  around a sleep, a walk and a request that started go on. Weak fairness; the
  scan lock is not assumed fair.
- `Follower`: weak fairness of the worker loop as a whole (it sleeps at most the
  poll interval), of the stream task (a reconnect loop), of each sync task
  (requests have timeouts), of the announcement that follows a write, and of the
  local rescan timer. Nothing is assumed of the faults; `Converges` assumes that
  the replica's own master ends up being the one that answers.
- `TenantStore`: work on the pool ends and a handler goes on when it has; the
  pass gets the lock with *strong* fairness, because a tokio `Mutex` hands the
  lock over in the order of requests.
- `ReplicaRegistry`: a replica that is up polls and dials, a handler answers, a
  spawned task takes its first step, the end of a dead connection is noticed,
  monitors probe, time passes. Nothing has to start, stop or break, and no hello
  has to fail.
- `HookQueue`: the consumer runs while there is work, and every post ends. The
  code sets no timeout on that client, so this is an assumption on the receiver.

### What the properties say

`CompleteIndexOmitsNothing`: an index that says it is complete is, unless the
store left under the walk it was made from. `CompleteListingsAreVouchedFor`: and
even then it takes a store that is back, or still there, during the call for its
listing to be complete, which is what `snapshot`'s own look at the identity file
is for; without that look the run finds a listing called complete while the store
is away. The two excuses are divergence 8, exactly. `NeverRolledBack`: a walk yields to later announcements.
`ForgetsOnlyWhatLeft`: a walk that finds `repos_path` gone makes the index forget
nothing. `RescanRepairs`: after any disturbance the index ends up exactly the
store. `HeadIsWhole`, `HistoryOnlyGrows`, `DeletionsAreJustified`: a replica
never tears, rewinds or wipes. `LocksAreNotFastForwards` (which a crash
refutes, divergence 1): the two lock issues mean what they say. `GateOpensCaughtUp`: a cold replica does not answer before
it has what it heard of; one that restarts with part of it is not cold.
`RestartIsNoCollision`, `PresenceIsNotInvented`, `ExpiryMeansGone`,
`CollisionsClear`, `DarkIsNoticed`, `VerdictRecovers`, `SlowerIsTolerated`:
section 1 for the registry, each but the third and the last with the row of a
stream that ended before its hello as its exception (divergence 15). `NothingReachableIsLost`, `ReadsFailOnlyByDeletion`,
`ImplementsTenantLog`, `EveryCommitIsTold`, `WritesGetPacked`: section 1 for the
store. `EventsTellTheCommit`: a receiver that applies every event holds the
files and orders of HEAD. `DiskMirrorsHead`, `OrdersNameToldFiles`,
`UpkeepKeepsOrder`, `ReorderMovesOneEntry`, `HistoryRestores`: section 1 for file
operations. `ListingsAgree`, `DatedListingsShowTheWindow`, `DatesAreTrue`,
`LogIsWhole`, `SeekIsWindow`: section 1 for reads. `ReceiverHoldsHead`: once the
queue is drained a receiver lacks something only if something was lost, and has
something of its own only likewise, and a replay in the right direction mends
either. `QueueDrains`: it always drains.

For each property of a passing run, `PROJECT.json` names a mutant of a definition (defined
beside it as `Mutant of ...`) that a plausible bug would produce and that the
same run refutes.

## 4. Proofs

All theorems hold for any sets and bounds, from the named assumptions on the
constants only. Each module's comment and lemmas lay the argument out; what
follows says why an invariant stronger than the property is needed.

`RepositoryIndexProofs` (from `Sentinels` and `Bounds`):

- `TypeCorrect`: `Spec => []TypeOK`.
- `IndexIsFaithful`: `Spec => []CompleteIndexOmitsNothing`, and
  `NothingRolledBack`: `Spec => []NeverRolledBack`.
- `ListingsAreVouchedFor`: `Spec => CompleteListingsAreVouchedFor`, an action
  property. That the index was misled follows from `IndexIsFaithful`; that the
  store was there needs `PresenceSeen`, an invariant of its own: a caller under
  way has seen the store if it is there now, and if its check found it.
- `NothingForgottenUnseen`: `Spec => ForgetsOnlyWhatLeft`, an action property.

The first two properties are not inductive: what a merge puts in the index was
gathered by the walk over many steps. The invariant `IndexInv` adds what a walk
under way knows:

- `WalkShape`: only the holder of `scan_lock` walks; it started at a sequence
  number that is not in the future, with every directory still to do.
- `WriterShape`: a handler holding a tenant's lock has put on disk what it is
  about to announce.
- `WalkKnows`: of every settled repository it has passed, a walk either saw the
  head that is there now, or knows its listing to be incomplete, or lost the
  store under it, or the head was announced after the walk started, so that the
  merge will yield to it.
- `AwayIsNoticed`: a walk that goes on while `repos_path` is away either found
  that out before it started or had the store taken from under it.

`WalkKnows` is why a commit landing behind a walk is harmless, and `Merge` is
the only step where it is spent.

`FollowerProofs` proves six theorems, for any commit graph that satisfies
`History`, any finite set of repositories, any parallelism and guard, and any
bounds and faults except the ones named:

- `FollowerTypeCorrect`: `Spec => []TypeOK`. A failed task queues its head
  again, so typing `pending` needs `TaskShape`: a task past its permit that is
  no deletion has a head, and one that imports knows which.
- `RepositoriesAreWhole`: without `operator`, `Spec => []HeadIsWhole`. The
  invariant `WholeInv` follows a pack through its task: HEAD has not moved since
  the download was asked for, so pack and old history together are the whole
  history of the new head (`PackFacts`); after `ImportObjects` the store holds
  it, so that `MoveRef` may move; a crash at any point loses only the task.
- `DeletionsFollowListings`: without `swap`, `Spec => []DeletionsAreJustified`.
  `DeletionInv` says where a deletion can be: outside of a drain there is none,
  between the listing and the drain the upstream is verified (so the drain takes
  all of them up), and during the drain each is in the batch or in a task.
  `GuardFacts` is the arithmetic of the majority.
- `NoWipe`: without either fault, `Spec => HistoryOnlyGrows`, an action property
  that follows from the invariants at the three actions that write a HEAD.
- `GateHolds`: without either fault, `Spec => GateOpensCaughtUp`. `GateInv` says
  that what a listing named and has no HEAD yet is queued, in the batch or in a
  task: the queue, the batch and the tasks hand it on, and a task ends with a
  HEAD, a place in the queue, or a deletion of what no listing names. Since the
  gate opens only when all three are empty, everything has landed by then.

- `LocksAreEarned`: without `crash` and `ref`, `Spec => []LocksAreNotFastForwards`:
  a repository is locked only on a head that does not fast-forward it. `LockInv`
  says that nothing in a store is ahead of its HEAD but what a task has imported
  and is about to move HEAD to (`RestInv`: a pass starts with no task
  left over), so `relation_to` mistakes a new head for an old one only while a
  task is between the two. The two faults are the ones that stop it there:
  `follower_crash_lock` shows that the theorem fails with them.

The other two faults are left out because the code does not withstand them
(divergences 9 and 10).

`TenantStoreProofs` (from `StoreConstants`):

- `StoreTypeCorrect`: `Spec => []TypeOK`.
- `StoreIsALog`: `Spec => ImplementsTenantLog`, the refinement of `TenantLog`:
  each action maps to an action of the log or to a stutter. `StoreInv` adds
  `Numbered` (a write under way has a number of its own that is not in the log),
  `Locked` (who waits for work holds the lock) and `Placed` (all that was told
  is before the commit a waiting handler is about to tell). `Placed` is what
  survives a dropped handler: its commit is passed over, never told late.

Of a maintenance pass, and of the reads beside it:

- `MaintenanceLosesNothing`: `Spec => []NothingReachableIsLost`. A pass removes
  what it listed some steps before, so the invariant says of what is alive
  (reachable from HEAD, or made for a commit under way) that all of it that the
  pass listed is in the pack the pass wrote (`Kept`), that what a write is still
  to make nobody has seen (`Fresh`), and that work goes on in the repository it
  was begun in (`Dated`) and, while no client has gone away, for a handler that
  holds the lock (`Attended`).
- `ReadsAreWhole`: `Spec => []ReadsFailOnlyByDeletion`: what a read needs is part
  of what HEAD reaches as long as the tenant has not been deleted.
- `CommitsAreTold`: `Spec => []EveryCommitIsTold`, from `Owed`: what is not told
  yet is what the one handler at work is about to tell.

`ReplicaRegistryProofs` (from `DialsOutpaceExpiry`, which is about the constants
of `replication.rs`: a refused replica's longest backoff is no longer than the
time a collision is kept; nothing is assumed of how long a dead connection
lasts):

- `RegistryTypeCorrect`, `PresenceIsWitnessed`, `SlowerReplicasAreTolerated`.
  `PresenceIsWitnessed` needs `Forgetting`: a row is forgotten together with the
  process it names, whose connection has ended.
- `RestartsAreNotReported`: `Spec => []RestartIsNoCollision`. `RegistryInv` has
  `Alone`: while no two processes were ever up at once, no connection was overdue
  and the row is not stranded, a run of refusals is not older than the lost
  connection that causes it, which `Noticed` says is younger than it takes to
  report one.
- `ExpiryIsSafe`: `Spec => ExpiryMeansGone`. `RegistryInv` has `Recorded`: whoever
  counts refusals was last refused no longer ago than it last dialled.

`ContentTreeProofs` (from `TreeConstants`) has the lemmas about trees and edits
that the next two modules rest on. What a fold computes is proved by induction
over a set of naturals (`Induct`, from the well-foundedness of `Nat`): the set of
lengths for which the fold has the property holds 0 and every successor.

- Sequences of changes, events or disk commands are read by their *last word*:
  `Mentions(s, k)` and `LastSays(s, k, v)`, for a file, an order or a path on
  disk. Concatenation, flattening and dropping the head have laws
  (`OutcomeConcat`, `FlattenOutcome`, `TailFacts`), and a receiver or a disk
  holds what the last word says (`ReceivedTells`, `RunFacts`). `OrdersLast`: a
  job tells no file after an order.
- An edit is `Tidy` when its changes and its commands say of each path it alters
  what `After` leaves there, and speak of no other. Each operation is shown to
  be tidy: `FileEdits`, `MoveFileFacts`, `DeleteDirectoryFacts`,
  `MoveDirectoryFacts`, `StageIndexFacts`, `RevertFacts`, `RollbackFacts`. The
  last two need that the deltas of a diff are about disjoint paths whatever
  renames it finds (`DeltasApart`), so that their order does not matter
  (`TogetherTidy`).
- `AfterOK`: an edit that `create_updated` accepts turns a tree into a tree.
- Orders: `Keeping` sifts a sequence, and what is sifted from a concatenation, a
  sifted sequence or one with an element put in elsewhere follows by laws. A sort
  is a choice among the sequences of a set, so `SortFacts` first shows that there
  is one to choose: the ranking of entries is total (`LessTrans`), and every
  finite set of entries with distinct names has a sequence that climbs it
  (`OrderExists`: each entry stands after as many as are ranked before it). Two
  sequences of one set that climb one ranking are
  equal, which is all a proof about a listing needs.
- Typed edits: an operation puts sequences of at least one entry at index paths
  and contents elsewhere (`WellTyped`, `TypedAfter`).
- What upkeep does to one index: every write, deletion or move leaves the stored
  order of a directory as it was, without one name, with one appended, or with
  one renamed in place (`Kin`, and `Renamed` where the operation moves the entry
  within the directory).

`TenantContentProofs` (from `ContentConstants` too):

- `ContentIsRight`: `Spec => []ContentInv`, the inductive invariant. It speaks of
  paths one by one, not of whole maps: every commit is a tree (`TreesOK`); what
  HEAD carries for a key the receiver holds, and nothing else unless a revert
  took a folder (`Told`); the directories on disk are at least those its files
  are in (`IsDisk`); the disk has what HEAD has when nothing failed (`OnDisk`).
  The hard step is a revert that removes a folder (divergence 3): it is a tidy
  edit of the tree without what it buries (`Bared`), so that even then the
  receiver misses nothing HEAD has, and `IsDisk` shows that with `checkout_files`
  the command would have failed.
- `ReceiversAreTold`: `Spec => []EventsTellTheCommit`, and `DiskFollowsHead`:
  `Spec => []DiskMirrorsHead`: maps that agree at every key are equal.
- `OrdersFollowTheirFiles`: `Spec => OrdersNameToldFiles`, an action property: the
  last word of the job on a file comes before its first order, or the file was
  not changed and the receiver had it.
- `TreesAreTyped`: `Spec => []TypeOK`. An index is only ever put with an entry in
  it: whatever edit would leave it empty removes it.
- `ReordersMoveOneEntry`: `Spec => ReorderMovesOneEntry`, an action property. The
  order a reorder starts from is the one a listing shows (`materialized_order`),
  which has every entry at its place; it takes one out and puts it elsewhere, so
  what is sifted of the rest is the same before and after. The new index lists the
  entries a listing shows in a sequence that climbs the new ranking, so it is what
  the next listing shows.
- `UpkeepsKeepOrder`: `Spec => UpkeepKeepsOrder`, an action property, by `Kin`: two
  orders that are kin keep the names they share in one order, whatever other
  directory the operation also touched.
- `RevertsAndRollbacksRestore`: `Spec => HistoryRestores`, an action property:
  `RevertRestores` and `RollbackRestores` compute the tree after the edit path
  by path; that no blob is below another is what keeps a removal from taking
  more than it says.

`HookQueueProofs`:

- `QueueIsRight`: `Spec => []QueueInv`. The property is about a drained queue, the
  invariant about every moment: of the jobs not over yet, the last to speak of a
  key says what HEAD carries for it, and what none is to speak of the receiver
  holds (`Telling`), in so far as nothing was lost. A replay that
  mends promises (`WillMend`) that it will yet read a key from HEAD when its turn
  comes, or that a job behind it speaks of that key, so a commit made in between,
  whose own job is behind it, breaks nothing.
- `QueueTypes`: `Spec => []TypeOK`; `ReceiversHoldHead`:
  `Spec => []ReceiverHoldsHead`.

`TenantReadsProofs` (from `ReadConstants`, whose only demand beyond the types is
that the depths asked for are finitely many; the history is any that `ContentInv`
allows). Dates, logs and windows are folds over the commits or over the lines of
a file, so each of their proofs has three parts: the fold is a sequence of steps
(`FileDatesSteps`, `LogSteps`, `ScanSteps`), an invariant says what is known
after each of them, and at the end it is the property.

- `DatesFollowHistory`: `Spec => []DatesAreTrue`. Once the commits from the
  `k`-th on are read the walk goes on, has every date, or stopped before it had
  (`WalkOK`); what it dates by then is what those commits say.
- `WindowsShowTheirFiles`: `Spec => []DatedListingsShowTheWindow`. `DatedSearch`:
  what a search by name shows after the dates is what leads, down to the depth,
  to the files it caught that are inside the window: a file below the depth
  keeps the stub it is under, and a directory with none of those goes.
- `LogsAreWhole`: `Spec => []LogIsWhole`. Until a commit that moved a file to the
  path the walk follows the path itself (`LogStays`); from there on it is the
  walk of the older path, from that commit's parent (`LogSplits`), which is why
  a page walked anew from HEAD goes on where the last one ended. A walk that
  needs less has the head of the whole (`LogCuts`), and one entry more than the
  page is enough to know whether there is a next one (`PagesOfCut`). The log
  turns to the older path only where nothing was at the path before
  (`MovesTo`), as `list_commits_by_file` does: a file that took the place of a
  folder would be logged under its own path.
- `ReadsSeekTheirWindow`: `Spec => []SeekIsWindow`. After `k` lines nothing opened
  the window, it is open, or it is closed at the least of the bounds (`ScanOK`);
  the line that opens it is never asked whether it closes it.
- `ListingsAnswerAlike`: `Spec => []ListingsAgree`, from `TypeOK` and the trees.
  All modes show the same tree, `Whole`: the files in depth, the directories at
  the root, and what leads to a file in depth or to a directory at the limit. A
  search and a selection find it at once (`SearchFinds`, `SelectionFinds`,
  `FinishIs`) and are then cut to a page (`FilteredIs`); the plain listing decides
  the page first and walks each of its directories with one level less
  (`PlainIs`). That the two meet is `DownFacts` and `LeadDown`: what a listing of
  one depth less finds below a directory is what the listing finds there. Pages
  agree because the entries at the root are the same set, and a sort depends on
  nothing else. `NoneBarren` is where the count of directories needs that none is
  barren (divergence 16).

Only model-checked: liveness and fairness, everywhere (`RescanRepairs`,
`Converges`, `WritesGetPacked`, `QueueDrains`, `CollisionsClear`, `DarkIsNoticed`,
`VerdictRecovers`), which are beyond this prover. Every invariant and every
action property of a passing run is a theorem.

## 5. Abstractions and known divergences

Abstractions that a reader should know:

- `Follower` has one subscriber, heads and identities without text, and the
  listing as one response; timeouts appear as failed requests.
- `TenantStore`: objects of one write are two; the delay of a maintenance pass
  is left out; a crash keeps what was written, in order.
- `TenantContent`: an index is never paired with a file of another kind in a
  rename, there is no folder named `.order.json`, and a commit's merge parents
  do not occur because nothing in the code makes them.
- `TenantReads`: see section 2; `Paired` picks one of the pairings git may find,
  the same for every walk, as git's are.
- `ReplicaRegistry`: a process loses one connection at a time, a handler answers
  and the stream's task sends its hello, or fails to, within a unit of time, a
  request is handled while its process is up; replicas
  report `synced` or `halted` (`stalled` and `lagging` are left out), and every
  one of them sends an instance token.
- `HookQueue`: all events are subscribed to; a post the receiver got is applied
  before the next one is sent; the prefix and throttle of a replay are left out.

Disagreements between the code and what its documents say, each a run whose
property TLC violates:

1. `follower_crash_lock`. `import_pack` writes objects, then the ref. After a
   crash between the two, `relation_to` finds the remote head among the local
   objects, not behind HEAD, and answers *diverged*: a fast-forward is locked
   out until an operator acts. (REPLICATION.md: restarts are harmless.)
2. `store_prune`. A dropped handler frees the tenant's lock while its write runs
   on; a destructive pass prunes the new objects, and HEAD moves onto them.
   (`GitMaintenance::run`: "pruning needs no grace period".)
3. `content_revert`. A revert removes whatever is at the path of a file the
   commit added; where a folder is there by now (the file was deleted and another
   put below its name), the whole of it goes and the receiver is told of one
   file. With `checkout_files` on, the disk command fails first and the revert
   answers an error.
4. `registry_reconnect`. `stream_closed` compares instance tokens, and a process
   that reconnects has the same one as before: the late end of its old
   connection marks the row closed while the new stream is open. (Its doc: "A
   reconnect that replaced an older connection must not be marked closed".)

Found while modelling, described here and not claimed by a property:

5. A stale update frame (its commit already behind HEAD) makes `relation_to`
   answer *ahead* and locks a repository that is up to date; while the listing
   then agrees with the local head, nothing lifts the lock until the next commit
   upstream.
6. `RepositoryIndex::remove` leaves no tombstone: a walk that passed the
   directory before the deletion lists the repository again until the next walk.
7. A repository deleted upstream while it is locked is removed, but its issue
   stays open. One that is queued and then deleted upstream before it ever
   landed fails with 404 on every pass, and a cold gate may never open on it.
8. A walk reads the identity file before it starts and `snapshot` reads it before
   it takes the listing: a `repos_path` that goes away right after the first and
   is back for the second leaves a complete listing made from an empty walk, which
   `verify_on_disk` (`replication.rs:1005`) promises to be marked incomplete.
   `CompleteIndexOmitsNothing` and `CompleteListingsAreVouchedFor` name the case
   (`misled`, `present`); without `~misled` TLC reaches it in a call, a check, a
   dismount and a merge. `RescanRepairs` shows that it is temporary; the deletion
   guard is what protects replicas meanwhile.
9. A queued deletion survives a later listing that names the repository again.
   `Justified` follows the code's own rule and the model shows the case only
   with `swap`.
10. Removing a locked repository's directory while a download for it is under
    way (the `operator` fault) can clone a pack that lacks the history the
    replica used to hold. `follower` leaves that fault out,
    `follower_liveness` includes it.
11. An index may name an entry twice: a stale entry (a folder that lost its last
    file keeps its entry) and a rename onto that name. `UpkeepKeepsOrder` claims
    nothing there.
12. The rename branch of `rollback_commit` moves files with `std::fs` whether or
    not `checkout_files` is on (`Forced`). An empty directory left on disk makes
    the write of a file of its name fail, though the tree allows it.
13. Reverting the creation of a file does not take its name out of the order,
    and reverting the modification of a file that is gone since says
    `file.updated`.
14. A replay's order snapshot is read from HEAD when it is delivered, while the
    events of commits made since it was asked for wait behind it, so an order can
    name a file the receiver has not been told about yet. (`deliver_replay`,
    `hooks.rs:487`: "an order snapshot must never name a file the receiver has
    not been told about yet".) `ReceiverHoldsHead` is about the drained queue.
15. A stream task whose hello cannot be sent returns without `stream_closed`
    (`routes/replication.rs:384`): the row stays connected under a process that
    may be gone, and others are refused, and reported as collisions, until the
    master restarts. (The comment below it: presence is "released as soon as the
    socket dies".) `EndUnsaid` is that return; without `forgotten` in it,
    `PresenceIsNotInvented` fails after a start, a dial, a stop, the answer and
    the return.
16. `count_files` counts directories that hold nothing but hidden names or an
    order index, and a listing shows them as stubs when the depth ends there, but
    not when it goes deeper. `ListingsAgree` claims nothing of directories then.
17. `select_by_file_paths` reports a directory cut short below a named folder as
    one that shows even when childless, and a date filter drops all of those: a
    dated selection of a folder with a depth loses directories that hold files
    inside the window. API.md says that it "behaves exactly like
    `file_name_starts_with`", which keeps them. `DatedListingsShowTheWindow`
    claims nothing of dated selections.
18. A cold replica that crashes half way boots with an open gate, because some
    repository is on its disk. `GateOpensCaughtUp` excepts the restart.

## 6. What is left out

The modules were written in the order of the table at the top, what replicas'
deletions rest on first. Left out, and why:

- The verdict of a replica on itself (`lagging`, `stalled`), statistics of
  commits, counts by extension, a single commit: functions of one state, better
  tested than checked.
- The order of levels below the root of a listing: the same `apply_order` in
  every mode, checked at the root.
- Identity creation and promotion: sequential, at start-up.
- Several subscribers of one master: they share nothing but the registry's rows,
  which do not interact.
- `Follower` and `RepositoryIndex` are not composed into one model; the listing
  is the only thing between them, `CompleteListingsAreVouchedFor` is what the
  one keeps, and `Follower` takes listings that are whole, or, with the fault
  `omit`, that do not name a repository and say that they are incomplete.
