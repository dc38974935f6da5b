----------------------------- MODULE TenantStore -----------------------------
(***************************************************************************)
(* One tenant's repository on the node that is written to: the write       *)
(* handlers (routes/*.rs), the git work they hand to the blocking pool     *)
(* (git.rs), the maintenance pass (maintenance.rs, GitMaintenance), the    *)
(* tenant deletion and the reads.                                          *)
(*                                                                         *)
(* The tenant's write lock is held by the handler, not by the work: when a *)
(* client goes away its handler is dropped, lock and all, and the blocking *)
(* work it started runs on to its end.                                     *)
(*                                                                         *)
(* A write is numbered.  It makes two objects, its content (blob and       *)
(* trees) and its commit; a commit is reachable from HEAD when its number  *)
(* is in the repository's history.                                         *)
(***************************************************************************)
EXTENDS Naturals, Sequences, FiniteSets, SequencesExt

CONSTANTS
    Writer,         \* concurrent write requests
    Reader,         \* concurrent read requests
    Maintenance,    \* the maintenance task, as a holder of the lock
    Free,           \* nobody holds the lock
    Absent,         \* no repository, as announced to the replicas
    MaxWrites,      \* bound on writes
    MaxDeletes,     \* bound on tenant deletions
    MaxDrops,       \* bound on clients that go away
    MaxFaults       \* bound on crashes and I/O errors

ASSUME StoreConstants ==
    /\ Absent \notin Nat
    /\ Maintenance \notin Writer /\ Free \notin Writer \cup {Maintenance}
    /\ MaxWrites \in Nat /\ MaxDeletes \in Nat
    /\ MaxDrops \in Nat /\ MaxFaults \in Nat

VARIABLES
    (* the disk *)
    exists,     \* repo_path holds a repository
    history,    \* the writes reachable from its HEAD, oldest first
    loose,      \* loose objects
    packs,      \* packfiles, as the objects in each
    era,        \* how many repositories there were before this one (ghost)
    (* the process *)
    prune,      \* maintenance.destructive_prune
    lock,       \* AppState.repo_locks
    handler,    \* where each write request's handler is
    job,        \* what each request runs on the blocking pool
    slot,       \* MaintenanceScheduler.pending
    pass,       \* the maintenance pass, on the blocking pool
    queue,      \* what was enqueued for the hooks since boot
    announced,  \* what the notifier last announced
    read,       \* what each reader is doing
    (* what happened *)
    log,        \* ghost: every commit since boot, in order
    writes, deletes, drops, faults

diskVars == <<exists, history, loose, packs, era>>
toldVars == <<queue, announced, slot>>
vars == <<diskVars, prune, lock, handler, job, pass, toldVars, read, log,
          writes, deletes, drops, faults>>

Object  == (1..MaxWrites) \X {"content", "commit"}
Content(n) == <<n, "content">>
Commit(n)  == <<n, "commit">>
Stored  == loose \cup UNION packs

(* Mutant of HeadOf: a repository that is created without a root commit. *)
HeadOrUnborn(h) == IF h = <<>> THEN Absent ELSE Last(h)

(* HEAD: the last write, 0 the root commit an empty repository starts with *)
HeadOf(h) == IF h = <<>> THEN 0 ELSE Last(h)
Reachable(h) == {Content(h[i]) : i \in DOMAIN h} \cup {Commit(h[i]) : i \in DOMAIN h}

NoJob   == [step |-> "none", write |-> 0, base |-> 0, era |-> 0]
NoPass  == [step |-> "none", loose |-> {}, before |-> {}, pack |-> {}]
NoRead  == [step |-> "none", needs |-> {}, era |-> 0]

Fault == faults < MaxFaults /\ faults' = faults + 1

Init ==
    /\ exists = FALSE /\ history = <<>> /\ loose = {} /\ packs = {} /\ era = 0
    /\ prune \in BOOLEAN
    /\ lock = Free
    /\ handler = [w \in Writer |-> "idle"]
    /\ job = [w \in Writer |-> NoJob]
    /\ slot = "none" /\ pass = NoPass
    /\ queue = <<>> /\ announced = Absent
    /\ read = [r \in Reader |-> NoRead]
    /\ log = <<>>
    /\ writes = 0 /\ deletes = 0 /\ drops = 0 /\ faults = 0

-----------------------------------------------------------------------------
(* The handlers. *)

Request(w) ==
    /\ handler[w] = "idle" /\ job[w] = NoJob
    /\ handler' = [handler EXCEPT ![w] = "locking"]
    /\ UNCHANGED <<diskVars, prune, lock, job, pass, toldVars, read, log,
                   writes, deletes, drops, faults>>

(* lock().await, and the closure handed to the blocking pool *)
StartWrite(w) ==
    /\ handler[w] = "locking" /\ lock = Free /\ writes < MaxWrites
    /\ lock' = w
    /\ writes' = writes + 1
    /\ handler' = [handler EXCEPT ![w] = "waiting"]
    /\ job' = [job EXCEPT ![w] = [NoJob EXCEPT !.step = "open", !.write = writes']]
    /\ UNCHANGED <<diskVars, prune, pass, toldVars, read, log, deletes, drops,
                   faults>>

StartDelete(w) ==
    /\ handler[w] = "locking" /\ lock = Free /\ deletes < MaxDeletes
    /\ lock' = w
    /\ deletes' = deletes + 1
    /\ handler' = [handler EXCEPT ![w] = "waiting"]
    /\ job' = [job EXCEPT ![w] = [NoJob EXCEPT !.step = "remove"]]
    /\ UNCHANGED <<diskVars, prune, pass, toldVars, read, log, writes, drops,
                   faults>>

Answer(w) ==
    /\ handler[w] = "waiting"
    /\ handler' = [handler EXCEPT ![w] = "idle"]
    /\ job' = [job EXCEPT ![w] = NoJob]
    /\ lock' = Free
    /\ UNCHANGED <<diskVars, prune, pass, read, log, writes, deletes, drops,
                   faults>>

(* A commit was made: announced, enqueued and maintenance armed, all before *)
(* the lock is let go.                                                      *)
PublishWrite(w) ==
    /\ job[w].step = "committed"
    /\ announced' = job[w].write
    /\ queue' = Append(queue, job[w].write)
    /\ slot' = IF slot = "none" THEN "armed" ELSE slot
    /\ Answer(w)

(* Mutant of PublishDelete: the deletion is not announced.                 *)
PublishDeleteUntold(w) ==
    /\ job[w].step = "removed"
    /\ slot' = "none"
    /\ UNCHANGED <<queue, announced>>
    /\ Answer(w)

(* MaintenanceScheduler::cancel: a pass that waits for the lock is aborted *)
PublishDelete(w) ==
    /\ job[w].step = "removed"
    /\ announced' = Absent
    /\ slot' = "none"
    /\ UNCHANGED queue
    /\ Answer(w)

AnswerNothingDone(w) ==
    /\ job[w].step = "nothing"
    /\ UNCHANGED toldVars
    /\ Answer(w)

(* The client goes away: the handler is dropped where it waits.            *)
Disconnect(w) ==
    /\ handler[w] \in {"locking", "waiting"} /\ drops < MaxDrops
    /\ drops' = drops + 1
    /\ handler' = [handler EXCEPT ![w] = "idle"]
    /\ lock' = IF lock = w THEN Free ELSE lock
    /\ UNCHANGED <<diskVars, prune, job, pass, toldVars, read, log, writes,
                   deletes, faults>>

(* Nobody is left to hear how the work ended. *)
Forget(w) ==
    /\ handler[w] = "idle" /\ job[w].step \in {"committed", "removed", "nothing"}
    /\ job' = [job EXCEPT ![w] = NoJob]
    /\ UNCHANGED <<diskVars, prune, lock, handler, pass, toldVars, read, log,
                   writes, deletes, drops, faults>>

-----------------------------------------------------------------------------
(* The blocking pool: one write. *)

poolFrame == <<prune, lock, handler, pass, toldVars, read, writes, deletes, drops>>
Step(w, step) == job' = [job EXCEPT ![w].step = step]

(* open_or_init_repo, GitStaging::create: a repository appears whole, with *)
(* the root commit every write needs a HEAD to build on.                   *)
CreateRepository(w) ==
    /\ job[w].step = "open" /\ ~exists
    /\ exists' = TRUE /\ history' = <<>> /\ loose' = {} /\ packs' = {}
    /\ UNCHANGED <<poolFrame, era, job, log, faults>>

(* HEAD is read once; the commit is built on what it was.  A write that    *)
(* changes nothing, or is not allowed on that tree, ends here.             *)
Open(w) ==
    /\ job[w].step = "open" /\ exists
    /\ \/ job' = [job EXCEPT ![w].step = "content", ![w].base = HeadOf(history),
                             ![w].era = era]
       \/ Step(w, "nothing")
    /\ UNCHANGED <<poolFrame, diskVars, log, faults>>

WriteContent(w) ==
    /\ job[w].step = "content" /\ exists
    /\ loose' = loose \cup {Content(job[w].write)}
    /\ Step(w, "commit")
    /\ UNCHANGED <<poolFrame, exists, history, packs, era, log, faults>>

(* Mutant of OnTip: the commit is written whatever the tip has become.     *)
OnAnyTip(w) == exists

OnTip(w) == exists /\ job[w].era = era /\ job[w].base = HeadOf(history)

(* git_commit_create: the tree must be in the store and the parent must be *)
(* the tip, else nothing is written ...                                    *)
WriteCommit(w) ==
    /\ job[w].step = "commit" /\ OnTip(w) /\ Content(job[w].write) \in Stored
    /\ loose' = loose \cup {Commit(job[w].write)}
    /\ Step(w, "ref")
    /\ UNCHANGED <<poolFrame, exists, history, packs, era, log, faults>>

(* ... and the ref moves only from the parent.                             *)
MoveHead(w) ==
    /\ job[w].step = "ref" /\ OnTip(w)
    /\ history' = Append(history, job[w].write)
    /\ log' = Append(log, job[w].write)
    /\ Step(w, "committed")
    /\ UNCHANGED <<poolFrame, exists, loose, packs, era, faults>>

Refused(w) ==
    \/ job[w].step = "content" /\ ~exists
    \/ job[w].step = "commit" /\ ~(OnTip(w) /\ Content(job[w].write) \in Stored)
    \/ job[w].step = "ref" /\ ~OnTip(w)

JobFails(w) ==
    /\ job[w].step \in {"open", "content", "commit", "ref", "remove"}
    /\ IF Refused(w) THEN UNCHANGED faults ELSE Fault
    /\ Step(w, "nothing")
    /\ UNCHANGED <<poolFrame, diskVars, log>>

(* Mutant of RemoveRepository: the directory is emptied in place.          *)
RemoveRepositoryInPlace(w) ==
    /\ job[w].step = "remove"
    /\ IF exists
       THEN /\ loose' = {} /\ packs' = {}
            /\ IF Stored # {}
               THEN UNCHANGED <<exists, history, era, job>>
               ELSE /\ exists' = FALSE /\ history' = <<>> /\ era' = era + 1
                    /\ Step(w, "removed")
       ELSE Step(w, "nothing") /\ UNCHANGED diskVars
    /\ UNCHANGED <<poolFrame, log, faults>>

(* GitTenant::delete_repo, GitStaging::remove: renamed away in one step.   *)
RemoveRepository(w) ==
    /\ job[w].step = "remove"
    /\ IF exists
       THEN /\ exists' = FALSE /\ history' = <<>> /\ loose' = {} /\ packs' = {}
            /\ era' = era + 1
            /\ Step(w, "removed")
       ELSE Step(w, "nothing") /\ UNCHANGED diskVars
    /\ UNCHANGED <<poolFrame, log, faults>>

-----------------------------------------------------------------------------
(* The maintenance pass. *)

passFrame == <<prune, handler, job, queue, announced, read, log, writes,
               deletes, drops>>

(* The timer has fired and the lock is free. *)
StartPass ==
    /\ slot = "armed" /\ lock = Free
    /\ lock' = Maintenance /\ slot' = "running"
    /\ pass' = [NoPass EXCEPT !.step = "list"]
    /\ UNCHANGED <<diskVars, passFrame, faults>>

ListObjects ==
    /\ pass.step = "list" /\ exists
    /\ pass' = IF loose = {} /\ Cardinality(packs) <= 1
               THEN [pass EXCEPT !.step = "end"]
               ELSE [pass EXCEPT !.step = "select", !.loose = loose, !.before = packs]
    /\ UNCHANGED <<diskVars, passFrame, lock, slot, faults>>

(* Mutant of SelectObjects: only what is loose is carried over.            *)
SelectLooseObjects ==
    /\ pass.step = "select"
    /\ pass' = [pass EXCEPT !.step = "pack", !.pack = pass.loose]
    /\ UNCHANGED <<diskVars, passFrame, lock, slot, faults>>

SelectObjects ==
    /\ pass.step = "select"
    /\ pass' = [pass EXCEPT !.step = "pack",
                            !.pack = IF prune THEN Reachable(history) \cap Stored
                                     ELSE Stored]
    /\ UNCHANGED <<diskVars, passFrame, lock, slot, faults>>

WritePack ==
    /\ pass.step = "pack" /\ exists /\ pass.pack \subseteq Stored
    /\ packs' = packs \cup {pass.pack}
    /\ pass' = [pass EXCEPT !.step = "loose"]
    /\ UNCHANGED <<exists, history, loose, era, passFrame, lock, slot, faults>>

RemoveLoose ==
    /\ pass.step = "loose"
    /\ loose' = loose \ pass.loose
    /\ pass' = [pass EXCEPT !.step = "packs"]
    /\ UNCHANGED <<exists, history, packs, era, passFrame, lock, slot, faults>>

(* Superseded packs go only if a pack of another name appeared.            *)
RemovePacks ==
    /\ pass.step = "packs"
    /\ packs' = IF packs \subseteq pass.before THEN packs ELSE packs \ pass.before
    /\ pass' = [pass EXCEPT !.step = "end"]
    /\ UNCHANGED <<exists, history, loose, era, passFrame, lock, slot, faults>>

(* A pass that finds no repository, or fails on the way, ends all the same *)
PassFails ==
    /\ pass.step \notin {"none", "end"}
    /\ IF exists /\ pass.pack \subseteq Stored THEN Fault ELSE UNCHANGED faults
    /\ pass' = [pass EXCEPT !.step = "end"]
    /\ UNCHANGED <<diskVars, passFrame, lock, slot>>

(* Mutant of EndPass: the slot is not cleared.                             *)
EndPassKeepingSlot ==
    /\ pass.step = "end"
    /\ pass' = NoPass
    /\ lock' = Free
    /\ UNCHANGED <<diskVars, passFrame, slot, faults>>

(* The slot is cleared before the lock is let go. *)
EndPass ==
    /\ pass.step = "end"
    /\ pass' = NoPass
    /\ slot' = "none" /\ lock' = Free
    /\ UNCHANGED <<diskVars, passFrame, faults>>

-----------------------------------------------------------------------------
(* Reads take no lock: HEAD, and then what it reaches.                     *)

readFrame == <<diskVars, prune, lock, handler, job, pass, toldVars, log,
               writes, deletes, drops, faults>>

OpenRead(r) ==
    /\ read[r] = NoRead /\ exists
    /\ read' = [read EXCEPT ![r] = [step |-> "look", needs |-> Reachable(history),
                                    era |-> era]]
    /\ UNCHANGED readFrame

Found(r) == read[r].era = era /\ read[r].needs \subseteq Stored

Lookup(r) ==
    /\ read[r].step = "look"
    /\ read' = [read EXCEPT ![r] = IF Found(r) THEN NoRead
                                   ELSE [@ EXCEPT !.step = "failed"]]
    /\ UNCHANGED readFrame

(* run_tenant_read: a read that fails answers 404 if the repository is     *)
(* gone by now, and the git error otherwise.                               *)
FailRead(r) ==
    /\ read[r].step = "failed"
    /\ read' = [read EXCEPT ![r] = IF exists THEN [@ EXCEPT !.step = "error"]
                                   ELSE NoRead]
    /\ UNCHANGED readFrame

EndRead(r) ==
    /\ read[r].step = "error"
    /\ read' = [read EXCEPT ![r] = NoRead]
    /\ UNCHANGED readFrame

(* What is in memory is lost; the index starts from the disk.              *)
Crash ==
    /\ Fault
    /\ lock' = Free
    /\ handler' = [w \in Writer |-> "idle"]
    /\ job' = [w \in Writer |-> NoJob]
    /\ pass' = NoPass /\ slot' = "none"
    /\ queue' = <<>> /\ log' = <<>>
    /\ announced' = IF exists THEN HeadOf(history) ELSE Absent
    /\ read' = [r \in Reader |-> NoRead]
    /\ UNCHANGED <<diskVars, prune, writes, deletes, drops>>

-----------------------------------------------------------------------------
Handle(w) ==
    \/ StartWrite(w) \/ StartDelete(w)
    \/ PublishWrite(w) \/ PublishDelete(w) \/ AnswerNothingDone(w)

Work(w) ==
    \/ CreateRepository(w) \/ Open(w) \/ WriteContent(w) \/ WriteCommit(w)
    \/ MoveHead(w) \/ RemoveRepository(w) \/ JobFails(w)

Pass ==
    \/ ListObjects \/ SelectObjects \/ WritePack \/ RemoveLoose \/ RemovePacks
    \/ PassFails \/ EndPass

Next ==
    \/ \E w \in Writer : Request(w) \/ Handle(w) \/ Disconnect(w) \/ Forget(w)
                         \/ Work(w)
    \/ StartPass \/ Pass
    \/ \E r \in Reader : OpenRead(r) \/ Lookup(r) \/ FailRead(r) \/ EndRead(r)
    \/ Crash

Spec == Init /\ [][Next]_vars

(* Work on the pool ends, a handler goes on when its work has ended, and a *)
(* timer that fired gets the lock, which is handed over in turn.           *)
Fairness ==
    /\ \A w \in Writer : WF_vars(Handle(w)) /\ WF_vars(Work(w))
    /\ SF_vars(StartPass) /\ WF_vars(Pass)

FairSpec == Spec /\ Fairness

-----------------------------------------------------------------------------
(* The types of the disk, the process and the ghosts. *)
TypeOK ==
    /\ exists \in BOOLEAN /\ prune \in BOOLEAN
    /\ history \in Seq(1..MaxWrites) /\ log \in Seq(1..MaxWrites)
    /\ queue \in Seq(1..MaxWrites)
    /\ loose \subseteq Object /\ packs \subseteq SUBSET Object
    /\ era \in Nat
    /\ lock \in Writer \cup {Maintenance, Free}
    /\ handler \in [Writer -> {"idle", "locking", "waiting"}]
    /\ job \in [Writer -> [step : {"none", "open", "content", "commit", "ref",
                                   "committed", "remove", "removed", "nothing"},
                           write : 0..MaxWrites, base : 0..MaxWrites,
                           era : Nat]]
    /\ slot \in {"none", "armed", "running"}
    /\ pass \in [step : {"none", "list", "select", "pack", "loose", "packs", "end"},
                 loose : SUBSET Object, before : SUBSET SUBSET Object,
                 pack : SUBSET Object]
    /\ announced \in (0..MaxWrites) \cup {Absent}
    /\ read \in [Reader -> [step : {"none", "look", "failed", "error"},
                            needs : SUBSET Object, era : Nat]]
    /\ writes \in 0..MaxWrites /\ deletes \in 0..MaxDeletes
    /\ drops \in 0..MaxDrops /\ faults \in 0..MaxFaults

HistoryIsWhole == exists => Reachable(history) \subseteq Stored

(* Maintenance never destroys what HEAD reaches, whatever a crash or an    *)
(* I/O error interrupts: with destructive_prune off "under any             *)
(* circumstance", with it on as long as no client has gone away.           *)
NothingReachableIsLost == (prune => drops = 0) => HistoryIsWhole

(* "Objects are only ever created under the same lock, so there can be no  *)
(* in-flight object that is not referenced yet": pruning needs no grace    *)
(* period, whatever clients do.                                            *)
PruneNeedsNoGrace == HistoryIsWhole

(* What a write under way was made from. *)
MadeFrom(w) ==
    IF job[w].step \in {"content", "commit", "ref"}
    THEN [generation |-> job[w].era, tip |-> job[w].base] ELSE Absent

Promise == INSTANCE TenantLog WITH
    Client <- Writer, Write <- 1..MaxWrites, Nothing <- Absent,
    present <- exists, repo <- history,
    generation <- era,
    seen <- [w \in Writer |-> MadeFrom(w)],
    committed <- log,
    told <- queue

(* The store is a log of atomic writes: a commit is made on the tip it was  *)
(* prepared on or not at all, at most once, by work that may outlive its    *)
(* handler; the hooks' queue is in commit order; crashes keep every commit. *)
ImplementsTenantLog == Promise!Spec

(* While every client waits for its answer: once the lock is free, every   *)
(* commit since boot was enqueued and the last one announced.  Only the    *)
(* root commit of a repository whose first write failed is never told.     *)
EveryCommitIsTold ==
    drops = 0 /\ lock = Free =>
        /\ queue = log
        /\ \/ announced = IF exists THEN HeadOf(history) ELSE Absent
           \/ exists /\ history = <<>>

(* A read that opened a repository finds everything its HEAD reaches, pass *)
(* or no pass, unless the tenant was deleted under it; then it answers an  *)
(* error only if the tenant is already there again.                        *)
ReadsFailOnlyByDeletion ==
    \A r \in Reader :
        (prune => drops = 0) /\ read[r].step \in {"failed", "error"}
            => read[r].era # era

(* No write that was enqueued waits for ever to be packed, unless a crash  *)
(* or a failed pass dropped its timer or the tenant is gone.               *)
WritesGetPacked ==
    \A n \in 1..MaxWrites :
        (\E i \in DOMAIN queue : queue[i] = n)
        ~> \/ Commit(n) \in UNION packs /\ Commit(n) \notin loose
           \/ \A i \in DOMAIN history : history[i] # n
           \/ faults > 0
=============================================================================
