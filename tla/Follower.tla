------------------------------- MODULE Follower -------------------------------
(***************************************************************************)
(* A replica following its upstream (replication.rs, ReplicaFollower; the  *)
(* git side is git.rs, GitReplication), with the upstream it polls and the *)
(* notification stream between them.                                       *)
(*                                                                         *)
(* The worker alternates a reconcile (fetch the upstream's whole listing,  *)
(* compare it with the local one, queue what differs) and a drain (sync    *)
(* every queued repository, several at a time).  The stream task queues    *)
(* repositories on its own as frames arrive, at any moment of either.      *)
(***************************************************************************)
EXTENDS CommitGraph, Naturals, Sequences, FiniteSets

CONSTANTS
    Repo,           \* repositories
    Parallelism,    \* replication.parallelism
    DeletionGuard,  \* replication.deletion_guard
    GuardMinimum,   \* DELETION_GUARD_MINIMUM_HELD
    Foreign,        \* what another data set's master holds, per repository
    UpstreamMay,    \* which of "commit", "delete", "restore" the upstream does
    FaultKinds,     \* which faults may happen
    MaxChanges,     \* bound on upstream changes
    MaxFaults,      \* bound on faults
    MaxFrames       \* bound on frames in flight, past which the stream closes

ASSUME FollowerConstants ==
    /\ IsFiniteSet(Repo)
    /\ Parallelism \in Nat \ {0} /\ GuardMinimum \in Nat
    /\ DeletionGuard \in BOOLEAN
    /\ Foreign \in [Repo -> Commit \cup {None}]
    /\ UpstreamMay \subseteq {"commit", "delete", "restore"}
    /\ FaultKinds \subseteq {"state", "omit", "pack", "ref", "remove", "stream",
                             "crash", "swap", "operator"}
    /\ MaxChanges \in Nat /\ MaxFaults \in Nat /\ MaxFrames \in Nat

VARIABLES
    (* the upstream *)
    up,         \* HEAD of each repository on its disk
    shown,      \* HEAD of each repository in its listing
    home,       \* whether our data set's master is what answers at master_url
    (* the notification stream *)
    connected, chan,
    (* the replica's disk and its index of it *)
    objects, head, known,
    (* the follower's memory *)
    pending,    \* ReplicaFollower.pending
    locked,     \* open replica_ahead / history_diverged issues: the remote head
    refused,    \* the deletion_refused issue is open
    verified,   \* identity_verified
    requested,  \* full_reconcile_requested
    wake,       \* the permit in `wake`
    pc,         \* where run_worker is
    listing,    \* the listing fetch_state returned
    batch,      \* drain_pending's targets not started yet
    task,       \* one sync_repository per started target
    pass,       \* whether this pass landed something, failed something
    gate,       \* reconciled_once, stalled_passes, landed_total > 0, bootstrapped
    mayDelete,  \* ghost: the deletions the listings acted on justify
    changes, faults

upstreamVars == <<up, shown, home, changes>>
streamVars   == <<connected, chan>>
diskVars     == <<objects, head, known>>
queueVars    == <<pending, requested, wake>>
workerVars   == <<pc, listing, batch, pass, gate>>
issueVars    == <<locked, refused, verified, mayDelete>>
vars == <<upstreamVars, streamVars, diskVars, queueVars, workerVars, issueVars,
          task, faults>>

MaybeCommit == Commit \cup {None}
Idle    == [kind |-> "none", to |-> None]
At(c)   == [kind |-> "at", to |-> c]
Deleted == [kind |-> "deleted", to |-> None]
Target  == {Idle, Deleted} \cup {At(c) : c \in Commit}

Frame(r, c) == [repo |-> r, head |-> c]      \* head None: repository.deleted

(* A sync_repository task: the target, the local HEAD it started from, and *)
(* the pack it downloaded with the HEAD the pack was built at.             *)
NoTask == [step |-> "none", to |-> None, have |-> None, got |-> None, pack |-> {}]
Queued(target) == [NoTask EXCEPT !.step = "permit", !.to = target.to]

Fault(kind) == kind \in FaultKinds /\ faults < MaxFaults /\ faults' = faults + 1

(* A process that just started: only the disk speaks.  It serves reads at  *)
(* once if it holds anything (run_worker, up to the loop).                 *)
NoTargets  == [r \in Repo |-> Idle]
NoLocks    == [r \in Repo |-> None]
NoListing  == [heads |-> [r \in Repo |-> None], whole |-> FALSE, ours |-> TRUE]
NoTasks    == [r \in Repo |-> NoTask]
FreshPass  == [landed |-> FALSE, failed |-> FALSE]
BootGate(heads) == [reconciled |-> FALSE, stalled |-> 0, landed |-> FALSE,
                    open |-> \E r \in Repo : heads[r] # None]

(* The replica starts on whatever an earlier life left it: nothing, a      *)
(* state the upstream has been in, or what the upstream has since deleted. *)
LeftBehind(r) ==
    IF up[r] = None /\ "delete" \in UpstreamMay THEN MaybeCommit
    ELSE Reach(up[r]) \cup {None}

Init ==
    /\ up \in [Repo -> MaybeCommit]
    /\ shown = up
    /\ home = TRUE
    /\ head \in {h \in [Repo -> MaybeCommit] : \A r \in Repo : h[r] \in LeftBehind(r)}
    /\ objects = [r \in Repo |-> Reach(head[r])]
    /\ known = head
    /\ pending = NoTargets /\ batch = NoTargets /\ task = NoTasks
    /\ locked = NoLocks /\ refused = FALSE /\ verified = FALSE
    /\ requested = TRUE /\ wake = FALSE
    /\ pc = "top" /\ listing = NoListing
    /\ pass = FreshPass /\ gate = BootGate(head)
    /\ mayDelete = {}
    /\ connected = FALSE /\ chan = <<>>
    /\ changes = 0 /\ faults = 0

-----------------------------------------------------------------------------
(* The upstream.  A write or a deletion reaches the disk first and is      *)
(* announced, to the listing and the stream, before the next one.          *)

Change(kind) ==
    kind \in UpstreamMay /\ changes < MaxChanges /\ changes' = changes + 1

CommitUpstream(r) ==
    /\ Change("commit") /\ shown[r] = up[r]
    /\ \E c \in ChildrenOf(up[r]) : up' = [up EXCEPT ![r] = c]
    /\ UNCHANGED <<shown, home, streamVars, diskVars, queueVars, workerVars,
                   issueVars, task, faults>>

DeleteUpstream(r) ==
    /\ Change("delete") /\ shown[r] = up[r] /\ up[r] # None
    /\ up' = [up EXCEPT ![r] = None]
    /\ UNCHANGED <<shown, home, streamVars, diskVars, queueVars, workerVars,
                   issueVars, task, faults>>

(* An operator puts another copy of the repository in place, and a rescan  *)
(* or a restart of the upstream finds it: no frame tells.                  *)
RestoreUpstream(r) ==
    /\ Change("restore") /\ shown[r] = up[r]
    /\ \E c \in Commit \ {up[r]} :
          /\ up' = [up EXCEPT ![r] = c]
          /\ shown' = [shown EXCEPT ![r] = c]
    /\ UNCHANGED <<home, streamVars, diskVars, queueVars, workerVars, issueVars,
                   task, faults>>

(* repository_updated, repository_deleted.  A subscriber too far behind is *)
(* disconnected (Lagged), frames and all.                                  *)
Announce(r) ==
    /\ shown[r] # up[r]
    /\ shown' = [shown EXCEPT ![r] = up[r]]
    /\ IF connected /\ Len(chan) < MaxFrames
       THEN chan' = Append(chan, Frame(r, up[r])) /\ UNCHANGED connected
       ELSE chan' = <<>> /\ connected' = FALSE
    /\ UNCHANGED <<up, home, changes, diskVars, queueVars, workerVars,
                   issueVars, task, faults>>

(* Another process answers at master_url, or ours does again.  The         *)
(* connection to the previous one is lost.                                 *)
Swap ==
    /\ IF home THEN Fault("swap") ELSE UNCHANGED faults
    /\ home' = ~home
    /\ connected' = FALSE /\ chan' = <<>>
    /\ UNCHANGED <<up, shown, changes, diskVars, queueVars, workerVars,
                   issueVars, task>>

-----------------------------------------------------------------------------
(* The stream task. *)

RequestFullReconcile == requested' = TRUE /\ wake' = TRUE

(* run_event_stream: the upstream subscribes the connection before it      *)
(* answers, the replica asks for a reconcile once it is answered and then  *)
(* reads the hello, which verifies the upstream as a listing does, or      *)
(* closes the stream again.                                                *)
Connect ==
    /\ ~connected
    /\ connected' = home
    /\ verified' = home
    /\ RequestFullReconcile
    /\ UNCHANGED <<upstreamVars, chan, diskVars, pending, workerVars, locked,
                   refused, mayDelete, task, faults>>

DropStream ==
    /\ connected /\ Fault("stream")
    /\ connected' = FALSE /\ chan' = <<>>
    /\ UNCHANGED <<upstreamVars, diskVars, queueVars, workerVars, issueVars, task>>

(* handle_event.  An update queues its repository whatever the worker is   *)
(* doing; a deletion only asks for a listing.                              *)
HandleUpdated ==
    /\ chan # <<>> /\ Head(chan).head # None
    /\ LET frame == Head(chan) IN
       pending' = [pending EXCEPT ![frame.repo] = At(frame.head)]
    /\ chan' = Tail(chan)
    /\ wake' = TRUE
    /\ UNCHANGED <<upstreamVars, connected, diskVars, requested, workerVars,
                   issueVars, task, faults>>

HandleDeleted ==
    /\ chan # <<>> /\ Head(chan).head = None
    /\ chan' = Tail(chan)
    /\ RequestFullReconcile
    /\ UNCHANGED <<upstreamVars, connected, diskVars, pending, workerVars,
                   issueVars, task, faults>>

-----------------------------------------------------------------------------
(* The worker: reconcile. *)

(* The request is taken before the listing is asked for, so one that       *)
(* arrives meanwhile is kept for the next pass.                            *)
BeginPass ==
    /\ pc = "top"
    /\ requested' = FALSE
    /\ pc' = IF requested THEN "fetch" ELSE "drain"
    /\ UNCHANGED <<upstreamVars, streamVars, diskVars, pending, wake, listing,
                   batch, pass, gate, issueVars, task, faults>>

(* fetch_state: an upstream that cannot read part of its disk says so, and *)
(* leaves those repositories out.                                          *)
FetchState ==
    /\ pc = "fetch"
    /\ \E omitted \in SUBSET Repo :
          /\ IF omitted = {} THEN UNCHANGED faults ELSE Fault("omit")
          /\ listing' = [heads |-> [r \in Repo |->
                                       IF r \in omitted THEN None
                                       ELSE IF home THEN shown[r] ELSE Foreign[r]],
                         whole |-> omitted = {},
                         ours  |-> home]
    /\ pc' = "act"
    /\ UNCHANGED <<upstreamVars, streamVars, diskVars, queueVars, batch, pass,
                   gate, issueVars, task>>

FetchStateFails ==
    /\ pc = "fetch" /\ Fault("state")
    /\ requested' = TRUE
    /\ pc' = "drain"
    /\ UNCHANGED <<upstreamVars, streamVars, diskVars, pending, wake, listing,
                   batch, pass, gate, issueVars, task>>

(* reconcile, once the listing is in: nothing in it counts unless the      *)
(* upstream is the one this replica is paired with.                        *)
RefuseListing ==
    /\ pc = "act" /\ ~listing.ours
    /\ verified' = FALSE
    /\ requested' = TRUE
    /\ pc' = "drain"
    /\ UNCHANGED <<upstreamVars, streamVars, diskVars, pending, wake, listing,
                   batch, pass, gate, locked, refused, mayDelete, task, faults>>

LockedAt(r) == locked[r] # None /\ locked[r] = listing.heads[r]
Differs(r)  == listing.heads[r] # None /\ known[r] # listing.heads[r]
(* A repository locked at this very head whose directory is gone was       *)
(* removed by an operator.                                                 *)
Removed(r)  == Differs(r) /\ LockedAt(r) /\ head[r] = None
Stale(r)    == Differs(r) /\ (LockedAt(r) => head[r] = None)

Held      == {r \in Repo : known[r] # None}
Doomed    == {r \in Held : listing.heads[r] = None}

(* Mutant: only the loss of everything is refused. *)
WholeDeletion ==
    /\ DeletionGuard
    /\ Cardinality(Held) >= GuardMinimum
    /\ Cardinality(Doomed) = Cardinality(Held)

MassDeletion ==
    /\ DeletionGuard
    /\ Cardinality(Held) >= GuardMinimum
    /\ Cardinality(Doomed) * 2 > Cardinality(Held)

(* What a listing justifies, whatever the code does with it: to delete     *)
(* what a whole listing omits, when that is not most of what is held.      *)
Justified ==
    LET missing == {r \in Repo : known[r] # None /\ listing.heads[r] = None}
        held    == {r \in Repo : known[r] # None}
    IN  IF ~listing.whole
        THEN {r \in mayDelete : listing.heads[r] = None}
        ELSE IF DeletionGuard /\ Cardinality(held) >= GuardMinimum
                              /\ Cardinality(held \ missing) < Cardinality(missing)
        THEN {} ELSE missing

ActOnListing ==
    /\ pc = "act" /\ listing.ours
    /\ verified' = TRUE
    /\ refused' = IF listing.whole THEN MassDeletion ELSE refused
    /\ pending' = [r \in Repo |->
                      IF Stale(r) THEN At(listing.heads[r])
                      ELSE IF listing.whole /\ ~MassDeletion /\ r \in Doomed
                      THEN Deleted ELSE pending[r]]
    /\ locked' = [r \in Repo |-> IF Removed(r) THEN None ELSE locked[r]]
    /\ known' = [r \in Repo |-> IF Removed(r) THEN None ELSE known[r]]
    /\ mayDelete' = Justified
    /\ gate' = [gate EXCEPT !.reconciled = TRUE]
    /\ pc' = "drain"
    /\ UNCHANGED <<upstreamVars, streamVars, objects, head, requested, wake,
                   listing, batch, pass, task, faults>>

-----------------------------------------------------------------------------
(* The worker: drain. *)

BeginDrain ==
    /\ pc = "drain"
    /\ batch' = IF verified THEN pending ELSE NoTargets
    /\ pass' = FreshPass
    /\ pc' = "sync"
    /\ UNCHANGED <<upstreamVars, streamVars, diskVars, queueVars, listing, gate,
                   issueVars, task, faults>>

Running == {r \in Repo : task[r] # NoTask}

(* The target is the one the batch was taken with; what is pending by now  *)
(* is dropped with it, before the permit it needs is free.                 *)
StartSync(r) ==
    /\ pc = "sync" /\ batch[r] # Idle /\ \A q \in Repo : task[q].step # "permit"
    /\ pending' = [pending EXCEPT ![r] = Idle]
    /\ batch' = [batch EXCEPT ![r] = Idle]
    /\ task' = [task EXCEPT ![r] = Queued(batch[r])]
    /\ UNCHANGED <<upstreamVars, streamVars, diskVars, requested, wake, pc,
                   listing, pass, gate, issueVars, faults>>

Admit(r) ==
    /\ task[r].step = "permit" /\ Cardinality(Running \ {r}) < Parallelism
    /\ task' = [task EXCEPT ![r].step = IF task[r].to = None THEN "delete"
                                        ELSE "probe"]
    /\ UNCHANGED <<upstreamVars, streamVars, diskVars, queueVars, workerVars,
                   issueVars, faults>>

(* The end of run_worker's pass: the stall count, the bootstrap gate, and  *)
(* whether to go straight round.                                           *)
EndPass ==
    LET stuck   == pass.failed /\ ~pass.landed
        stalled == IF ~stuck THEN 0
                   ELSE IF gate.stalled = 2 THEN 2 ELSE gate.stalled + 1
        landed  == gate.landed \/ pass.landed
        empty   == \A r \in Repo : pending[r] = Idle
    IN
    /\ pc = "sync" /\ \A r \in Repo : batch[r] = Idle /\ task[r] = NoTask
    /\ gate' = [gate EXCEPT
                   !.stalled = stalled, !.landed = landed,
                   !.open = @ \/ (gate.reconciled
                                  /\ (empty \/ (stalled = 2 /\ landed)))]
    /\ pc' = IF pass.landed /\ ~empty THEN "top" ELSE "idle"
    /\ UNCHANGED <<upstreamVars, streamVars, diskVars, queueVars, listing, batch,
                   pass, issueVars, task, faults>>

(* Mutant: the timer only drains. *)
PollWithoutListing ==
    /\ pc = "idle"
    /\ pc' = "top"
    /\ UNCHANGED <<upstreamVars, streamVars, diskVars, queueVars, listing, batch,
                   pass, gate, issueVars, task, faults>>

Poll ==
    /\ pc = "idle"
    /\ requested' = TRUE
    /\ pc' = "top"
    /\ UNCHANGED <<upstreamVars, streamVars, diskVars, pending, wake, listing,
                   batch, pass, gate, issueVars, task, faults>>

Woken ==
    /\ pc = "idle" /\ wake
    /\ wake' = FALSE
    /\ pc' = "top"
    /\ UNCHANGED <<upstreamVars, streamVars, diskVars, pending, requested,
                   listing, batch, pass, gate, issueVars, task, faults>>

-----------------------------------------------------------------------------
(* sync_repository, one repository's task.  Each step is what happens      *)
(* between two awaits, or between two writes to the disk.                  *)

taskFrame == <<upstreamVars, streamVars, requested, wake, pc, listing, batch,
               gate, refused, verified, mayDelete>>

(* SyncOutcome::Synced: the lock, if there is one, is lifted *)
Synced(r) ==
    /\ task' = [task EXCEPT ![r] = NoTask]
    /\ pass' = [pass EXCEPT !.landed = TRUE]
    /\ locked' = [locked EXCEPT ![r] = None]
    /\ UNCHANGED pending

(* SyncOutcome::Locked *)
Refuse(r, remote) ==
    /\ task' = [task EXCEPT ![r] = NoTask]
    /\ locked' = [locked EXCEPT ![r] = remote]
    /\ UNCHANGED <<pass, pending>>

(* Mutant: the retry aims at the head the master served, not the announced *)
(* one.                                                                    *)
FailedAtServed(r) ==
    /\ task' = [task EXCEPT ![r] = NoTask]
    /\ pass' = [pass EXCEPT !.failed = TRUE]
    /\ pending' = [pending EXCEPT ![r] = At(task[r].got)]
    /\ UNCHANGED locked

(* Mutant: what failed waits for the next listing. *)
FailedForNow(r) ==
    /\ task' = [task EXCEPT ![r] = NoTask]
    /\ pass' = [pass EXCEPT !.failed = TRUE]
    /\ UNCHANGED <<pending, locked>>

(* SyncOutcome::Failed: queued again, over whatever arrived meanwhile *)
Failed(r) ==
    /\ task' = [task EXCEPT ![r] = NoTask]
    /\ pass' = [pass EXCEPT !.failed = TRUE]
    /\ pending' = [pending EXCEPT ![r] = At(task[r].to)]
    /\ UNCHANGED locked

Related(r) == Relation(objects[r], head[r], task[r].to)

Probe(r) ==
    /\ task[r].step = "probe"
    /\ \/ /\ Related(r) = "unknown"
          /\ task' = [task EXCEPT ![r].step = "download", ![r].have = head[r]]
          /\ UNCHANGED <<pass, locked, pending>>
       \/ Related(r) = "same" /\ Synced(r)
       \/ Related(r) \in {"ahead", "diverged"} /\ Refuse(r, task[r].to)
    /\ UNCHANGED <<taskFrame, diskVars, faults>>

Served(r) == IF home THEN up[r] ELSE Foreign[r]

Download(r) ==
    /\ task[r].step = "download" /\ Served(r) # None
    /\ \E pack \in Packs(Served(r), task[r].have) :
          task' = [task EXCEPT ![r].step = "import", ![r].got = Served(r),
                               ![r].pack = pack]
    /\ UNCHANGED <<taskFrame, diskVars, pass, locked, pending, faults>>

(* 404, or a transfer that broke off *)
DownloadFails(r) ==
    /\ task[r].step = "download"
    /\ IF Served(r) = None THEN UNCHANGED faults ELSE Fault("pack")
    /\ Failed(r)
    /\ UNCHANGED <<taskFrame, diskVars>>

(* Mutant: the ref first. *)
ImportRefFirst(r) ==
    /\ task[r].step = "import" /\ head[r] # None
    /\ head' = [head EXCEPT ![r] = task[r].got]
    /\ task' = [task EXCEPT ![r].step = "ref"]
    /\ UNCHANGED <<taskFrame, objects, known, pass, locked, pending, faults>>

(* import_pack on a repository that is there: objects first ...            *)
ImportObjects(r) ==
    /\ task[r].step = "import" /\ head[r] # None
    /\ objects' = [objects EXCEPT ![r] = @ \cup task[r].pack]
    /\ task' = [task EXCEPT ![r].step = "ref"]
    /\ UNCHANGED <<taskFrame, head, known, pass, locked, pending, faults>>

(* Mutant: the ref goes wherever the pack says. *)
MoveRefAnywhere(r) ==
    /\ task[r].step = "ref" /\ task[r].got \in objects[r]
    /\ head' = [head EXCEPT ![r] = task[r].got]
    /\ known' = [known EXCEPT ![r] = task[r].got]
    /\ Synced(r)
    /\ UNCHANGED <<taskFrame, objects, faults>>

(* ... the ref last, and only forward; then the index is told.             *)
MoveRef(r) ==
    LET new == task[r].got IN
    /\ task[r].step = "ref" /\ new \in objects[r]
    /\ IF head[r] = new THEN Synced(r) /\ UNCHANGED <<head, known>>
       ELSE IF DescendsFrom(new, head[r])
       THEN /\ head' = [head EXCEPT ![r] = new]
            /\ known' = [known EXCEPT ![r] = new]
            /\ Synced(r)
       ELSE Refuse(r, new) /\ UNCHANGED <<head, known>>
    /\ UNCHANGED <<taskFrame, objects, faults>>

MoveRefFails(r) ==
    /\ task[r].step = "ref"
    /\ IF task[r].got \in objects[r] THEN Fault("ref") ELSE UNCHANGED faults
    /\ Failed(r)
    /\ UNCHANGED <<taskFrame, diskVars>>

(* GitStaging::create: a repository that was not there appears whole, HEAD *)
(* and all, or not at all.                                                 *)
Clone(r) ==
    /\ task[r].step = "import" /\ head[r] = None /\ task[r].got \in task[r].pack
    /\ objects' = [objects EXCEPT ![r] = task[r].pack]
    /\ head' = [head EXCEPT ![r] = task[r].got]
    /\ known' = [known EXCEPT ![r] = task[r].got]
    /\ Synced(r)
    /\ UNCHANGED <<taskFrame, faults>>

CloneFails(r) ==
    /\ task[r].step = "import" /\ head[r] = None
    /\ IF task[r].got \in task[r].pack THEN Fault("ref") ELSE UNCHANGED faults
    /\ Failed(r)
    /\ UNCHANGED <<taskFrame, diskVars>>

(* delete_repository.  A removal that fails is logged and counts as done.  *)
Delete(r) ==
    /\ task[r].step = "delete"
    /\ \/ /\ head[r] # None
          /\ head' = [head EXCEPT ![r] = None]
          /\ objects' = [objects EXCEPT ![r] = {}]
          /\ known' = [known EXCEPT ![r] = None]
          /\ UNCHANGED faults
       \/ head[r] = None /\ UNCHANGED <<diskVars, faults>>
       \/ head[r] # None /\ Fault("remove") /\ UNCHANGED diskVars
    /\ task' = [task EXCEPT ![r] = NoTask]
    /\ pass' = [pass EXCEPT !.landed = TRUE]
    /\ UNCHANGED <<taskFrame, locked, pending>>

-----------------------------------------------------------------------------
(* What befalls the replica. *)

(* Every byte already on disk stays, the memory and the partial downloads  *)
(* do not.                                                                 *)
Crash ==
    /\ Fault("crash")
    /\ known' = head
    /\ pending' = NoTargets /\ batch' = NoTargets /\ task' = NoTasks
    /\ locked' = NoLocks /\ refused' = FALSE /\ verified' = FALSE
    /\ requested' = TRUE /\ wake' = FALSE
    /\ pc' = "top" /\ listing' = NoListing
    /\ pass' = FreshPass /\ gate' = BootGate(head)
    /\ mayDelete' = {}
    /\ connected' = FALSE /\ chan' = <<>>
    /\ UNCHANGED <<upstreamVars, objects, head>>

(* The runbook for a locked repository: delete its directory, stop nothing. *)
OperatorRemoves(r) ==
    /\ Fault("operator")
    /\ locked[r] # None /\ head[r] # None /\ task[r].step # "ref"
    /\ head' = [head EXCEPT ![r] = None]
    /\ objects' = [objects EXCEPT ![r] = {}]
    /\ UNCHANGED <<upstreamVars, streamVars, known, queueVars, workerVars,
                   issueVars, task>>

(* RepositoryIndex::rescan *)
Rescan ==
    /\ known # head
    /\ known' = head
    /\ UNCHANGED <<upstreamVars, streamVars, objects, head, queueVars,
                   workerVars, issueVars, task, faults>>

-----------------------------------------------------------------------------
Upstream ==
    \/ \E r \in Repo : CommitUpstream(r) \/ DeleteUpstream(r)
                       \/ RestoreUpstream(r) \/ Announce(r)
    \/ Swap

StreamTask == Connect \/ HandleUpdated \/ HandleDeleted

Reconcile == BeginPass \/ FetchState \/ FetchStateFails \/ RefuseListing
             \/ ActOnListing

Sync(r) ==
    \/ Admit(r) \/ Probe(r) \/ Download(r) \/ DownloadFails(r)
    \/ ImportObjects(r) \/ MoveRef(r) \/ MoveRefFails(r)
    \/ Clone(r) \/ CloneFails(r) \/ Delete(r)

Worker == Reconcile \/ BeginDrain \/ (\E r \in Repo : StartSync(r)) \/ EndPass
          \/ Poll \/ Woken

Next ==
    \/ Upstream
    \/ StreamTask \/ DropStream
    \/ Worker
    \/ \E r \in Repo : Sync(r)
    \/ Crash \/ Rescan
    \/ \E r \in Repo : OperatorRemoves(r)

Spec == Init /\ [][Next]_vars

(* Tasks run to their next await, the reconnect loop retries, timers fire. *)
Fairness ==
    /\ \A r \in Repo : WF_vars(Announce(r)) /\ WF_vars(Sync(r))
    /\ WF_vars(Worker) /\ WF_vars(StreamTask) /\ WF_vars(Rescan)

FairSpec == Spec /\ Fairness

-----------------------------------------------------------------------------
TypeOK ==
    /\ up \in [Repo -> MaybeCommit] /\ shown \in [Repo -> MaybeCommit]
    /\ home \in BOOLEAN
    /\ connected \in BOOLEAN
    /\ chan \in Seq([repo : Repo, head : MaybeCommit])
    /\ objects \in [Repo -> SUBSET Commit]
    /\ head \in [Repo -> MaybeCommit] /\ known \in [Repo -> MaybeCommit]
    /\ pending \in [Repo -> Target] /\ batch \in [Repo -> Target]
    /\ locked \in [Repo -> MaybeCommit]
    /\ refused \in BOOLEAN /\ verified \in BOOLEAN
    /\ requested \in BOOLEAN /\ wake \in BOOLEAN
    /\ pc \in {"top", "fetch", "act", "drain", "sync", "idle"}
    /\ listing \in [heads : [Repo -> MaybeCommit], whole : BOOLEAN, ours : BOOLEAN]
    /\ task \in [Repo -> [step : {"none", "permit", "probe", "download",
                                  "import", "ref", "delete"},
                          to : MaybeCommit, have : MaybeCommit,
                          got : MaybeCommit, pack : SUBSET Commit]]
    /\ pass \in [landed : BOOLEAN, failed : BOOLEAN]
    /\ gate \in [reconciled : BOOLEAN, stalled : 0..2, landed : BOOLEAN,
                 open : BOOLEAN]
    /\ mayDelete \subseteq Repo
    /\ changes \in Nat /\ faults \in Nat

(* A repository is whole: whatever interrupts an import, its HEAD never    *)
(* points at a commit whose history is not all there (apply_pack).         *)
HeadIsWhole == \A r \in Repo : Reach(head[r]) \subseteq objects[r]

(* The no-wipe rule: HEAD only ever moves forward, along one line of       *)
(* history, or goes away in a deletion a listing justified.                *)
HistoryOnlyGrows ==
    [][\A r \in Repo :
          head[r] # None /\ head'[r] # head[r]
          => \/ head'[r] # None /\ head[r] \in Past[head'[r]]
             \/ head'[r] = None /\ r \in mayDelete]_vars

(* Nothing is on its way to deletion that the last listing acted on does   *)
(* not justify deleting: no hint, no incomplete or earlier listing, and    *)
(* never most of what the replica holds.                                   *)
OnTheirWayOut ==
    {r \in Repo : \/ pending[r] = Deleted \/ batch[r] = Deleted
                  \/ task[r].step = "permit" /\ task[r].to = None
                  \/ task[r].step = "delete"}
DeletionsAreJustified == OnTheirWayOut \subseteq mayDelete

(* A repository is locked out only against a head that does not            *)
(* fast-forward the copy the replica holds (replica_ahead: the announced   *)
(* head is an ancestor; history_diverged: neither descends).               *)
LocksAreNotFastForwards ==
    \A r \in Repo : locked[r] # None /\ head[r] # None
                    => head[r] \notin Past[locked[r]]

(* The gate of a cold replica opens on an empty pending set only when      *)
(* everything the last listing named has landed, so that no 404 is served  *)
(* for a repository the replica has heard of.  A replica that restarts     *)
(* with part of it is no longer cold.                                      *)
GateOpensCaughtUp ==
    [][~gate.open /\ gate'.open /\ gate'.stalled < 2 /\ ~Crash
       => \A r \in Repo : listing.heads[r] # None => head[r] # None]_vars

(* Polling is what converges: whatever frames were lost, each repository   *)
(* ends up where the upstream has it, unless it is locked or the listing   *)
(* asks for a mass deletion.                                               *)
Converges ==
    (<>[]home) =>
        \A r \in Repo :
            <>[](\/ head[r] = up[r]
                 \/ locked[r] # None
                 \/ refused /\ up[r] = None)
=============================================================================
