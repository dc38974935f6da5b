--------------------------- MODULE RepositoryIndex ---------------------------
(***************************************************************************)
(* The in-memory repository listing of one node (replication.rs,           *)
(* RepositoryIndex): what `GET /_replication/state`, every health probe    *)
(* and a replica's own reconcile read instead of walking the disk.         *)
(*                                                                         *)
(* It is fed by two writers that do not exclude each other: the notifier,  *)
(* which announces each commit and deletion under the tenant's write lock, *)
(* and disk walks, which take long enough for commits and deletions to     *)
(* land meanwhile.  A walk remembers the sequence number it started at     *)
(* and yields to whatever was announced later.                             *)
(*                                                                         *)
(* A head is abstracted to the number of the store change that made it, 0  *)
(* when that was before the process started.                               *)
(***************************************************************************)
EXTENDS Naturals

CONSTANTS
    Repo,           \* repositories, the index keys "collection_id/tenant_id"
    Client,         \* concurrent callers of snapshot()
    Timer,          \* the periodic rescan task
    Null,           \* no repository, no entry
    Free,           \* nobody holds the tenant's write lock
    Gone,           \* a deletion waits for its announcement
    MaxWrites,      \* bound on store changes
    MaxFaults       \* bound on unreadable directories and unmounts

ASSUME Sentinels ==
    /\ Null \notin Nat /\ Free \notin Nat /\ Gone \notin Nat
    /\ Null \notin [head : Nat, at : Nat]
    /\ Free # Gone /\ Free # Null /\ Gone # Null
    /\ Timer \notin Client /\ Null \notin Client \cup {Timer}
ASSUME Bounds ==
    MaxWrites \in Nat /\ MaxFaults \in Nat

VARIABLES
    store,      \* the HEAD each repository has on disk
    mounted,    \* whether repos_path, identity file included, is in place
    lock,       \* the tenant write lock, held between a write and its announcement
    heads,      \* IndexInner.heads
    complete,   \* IndexInner.complete
    scanned,    \* IndexInner.scanned
    sequence,   \* IndexInner.sequence
    scanLock,   \* who holds scan_lock
    pc,         \* where each caller and the timer are
    scan,       \* the walk each of them carries
    intact,     \* what snapshot's own identity check answered
    served,     \* the listing last handed out
    issue,      \* the identity_file issue is open
    drift,      \* repositories changed behind the process's back, not yet seen
    misled,     \* the store left under the walk the index was last made from
    present,    \* the store was in place at some moment of the caller's call
    writes, faults

vars == <<store, mounted, lock, heads, complete, scanned, sequence, scanLock,
          pc, scan, intact, served, issue, drift, misled, present, writes, faults>>
storeVars == <<store, mounted, lock, writes, faults>>
indexVars == <<heads, complete, scanned, sequence>>
ghosts    == <<drift, misled, present>>

Proc  == Client \cup {Timer}
Head  == Nat
Entry == [head : Head, at : Nat]
Walk  == [start : Nat, intact : BOOLEAN, todo : SUBSET Repo,
          seen : [Repo -> Head \cup {Null}], complete : BOOLEAN,
          dirty : SUBSET Repo, left : BOOLEAN]
Listing == [heads : [Repo -> Head \cup {Null}], complete : BOOLEAN]

NoWalk == [start |-> 0, intact |-> FALSE, todo |-> {},
           seen |-> [r \in Repo |-> Null], complete |-> FALSE, dirty |-> {},
           left |-> FALSE]

(* What a walk finds at r: nothing at all under an unmounted repos_path. *)
Visible(r) == IF mounted THEN store[r] ELSE Null

(* A process starts on whatever is on its disk, and knows none of it.      *)
Init ==
    /\ store \in [Repo -> {Null, 0}]
    /\ mounted = TRUE
    /\ lock = [r \in Repo |-> Free]
    /\ heads = [r \in Repo |-> Null]
    /\ complete = FALSE
    /\ scanned = FALSE
    /\ sequence = 0
    /\ scanLock = Null
    /\ pc = [p \in Proc |-> "idle"]
    /\ scan = [p \in Proc |-> NoWalk]
    /\ intact = [c \in Client |-> FALSE]
    /\ served = [heads |-> [r \in Repo |-> Null], complete |-> FALSE]
    /\ issue = FALSE
    /\ drift = {}
    /\ misled = FALSE
    /\ present = [c \in Client |-> FALSE]
    /\ writes = 0
    /\ faults = 0

-----------------------------------------------------------------------------
(* The tenant's writers.  A handler changes the store and announces the    *)
(* change before it releases the tenant's lock.                            *)

Commit(r) ==
    /\ lock[r] = Free /\ mounted /\ writes < MaxWrites
    /\ writes' = writes + 1
    /\ store' = [store EXCEPT ![r] = writes']
    /\ lock' = [lock EXCEPT ![r] = writes']
    /\ UNCHANGED <<mounted, indexVars, scanLock, pc, scan, intact, served,
                   issue, ghosts, faults>>

DeleteTenant(r) ==
    /\ lock[r] = Free /\ mounted /\ store[r] # Null /\ writes < MaxWrites
    /\ writes' = writes + 1
    /\ store' = [store EXCEPT ![r] = Null]
    /\ lock' = [lock EXCEPT ![r] = Gone]
    /\ UNCHANGED <<mounted, indexVars, scanLock, pc, scan, intact, served,
                   issue, ghosts, faults>>

(* record_head *)
RecordHead(r) ==
    /\ lock[r] \in Nat
    /\ sequence' = sequence + 1
    /\ heads' = [heads EXCEPT ![r] = [head |-> lock[r], at |-> sequence']]
    /\ lock' = [lock EXCEPT ![r] = Free]
    /\ UNCHANGED <<store, mounted, complete, scanned, scanLock, pc, scan,
                   intact, served, issue, ghosts, writes, faults>>

(* Mutant: a deletion announced as an update. *)
RemoveEntryAsUpdate(r) ==
    /\ lock[r] = Gone
    /\ sequence' = sequence + 1
    /\ heads' = [heads EXCEPT ![r] = [head |-> lock[r], at |-> sequence']]
    /\ lock' = [lock EXCEPT ![r] = Free]
    /\ UNCHANGED <<store, mounted, complete, scanned, scanLock, pc, scan,
                   intact, served, issue, ghosts, writes, faults>>

(* remove: the sequence moves on, but no trace of the removal is kept *)
RemoveEntry(r) ==
    /\ lock[r] = Gone
    /\ sequence' = sequence + 1
    /\ heads' = [heads EXCEPT ![r] = Null]
    /\ lock' = [lock EXCEPT ![r] = Free]
    /\ UNCHANGED <<store, mounted, complete, scanned, scanLock, pc, scan,
                   intact, served, issue, ghosts, writes, faults>>

-----------------------------------------------------------------------------
(* What happens to the disk without the process: an operator removes a     *)
(* repository or puts one in place, and repos_path comes and goes.         *)

PassedBy(r) == [p \in Proc |-> IF pc[p] = "walk" /\ r \notin scan[p].todo
                               THEN [scan[p] EXCEPT !.dirty = @ \cup {r}]
                               ELSE scan[p]]

OutOfBand(r) ==
    /\ lock[r] = Free /\ mounted /\ writes < MaxWrites
    /\ writes' = writes + 1
    /\ \/ store[r] # Null /\ store' = [store EXCEPT ![r] = Null]
       \/ store' = [store EXCEPT ![r] = writes']
    /\ drift' = drift \cup {r}
    /\ scan' = PassedBy(r)
    /\ UNCHANGED <<mounted, lock, indexVars, scanLock, pc, intact, served,
                   issue, misled, present, faults>>

(* With repos_path goes every repository, from under any walk that has     *)
(* already found the identity file in its place.                           *)
Unmount ==
    /\ mounted /\ faults < MaxFaults
    /\ mounted' = FALSE
    /\ faults' = faults + 1
    /\ scan' = [p \in Proc |-> IF pc[p] = "walk" THEN [scan[p] EXCEPT !.left = TRUE]
                               ELSE scan[p]]
    /\ UNCHANGED <<store, lock, indexVars, scanLock, pc, intact, served, issue,
                   ghosts, writes>>

Remount ==
    /\ ~mounted
    /\ mounted' = TRUE
    /\ present' = [c \in Client |-> pc[c] # "idle"]
    /\ UNCHANGED <<store, lock, indexVars, scanLock, pc, scan, intact, served,
                   issue, drift, misled, writes, faults>>

-----------------------------------------------------------------------------
(* Readers and walkers. *)

(* needs_scan.  Whether an incomplete index is rescanned also depends on   *)
(* the five seconds since the last one, which either may have passed.      *)
MayNeedScan == ~scanned \/ ~complete
MaySkipScan == scanned

Goto(p, where) == pc' = [pc EXCEPT ![p] = where]

SnapshotCall(c) ==
    /\ pc[c] = "idle"
    /\ \/ MayNeedScan /\ Goto(c, "wait")
       \/ MaySkipScan /\ Goto(c, "verify")
    /\ present' = [present EXCEPT ![c] = mounted]
    /\ UNCHANGED <<storeVars, indexVars, scanLock, scan, intact, served, issue,
                   drift, misled>>

(* Mutant: the timer trusts an index that says it is complete. *)
RescanDueIfIncomplete ==
    /\ pc[Timer] = "idle" /\ MayNeedScan
    /\ Goto(Timer, "wait")
    /\ UNCHANGED <<storeVars, indexVars, scanLock, scan, intact, served, issue,
                   ghosts>>

RescanDue ==
    /\ pc[Timer] = "idle"
    /\ Goto(Timer, "wait")
    /\ UNCHANGED <<storeVars, indexVars, scanLock, scan, intact, served, issue,
                   ghosts>>

ScanLockFree == scanLock = Null

(* A snapshot caller that was queued behind another walk finds the index   *)
(* fresh and skips its own; the timer always walks.                        *)
SkipScan(c) ==
    /\ pc[c] = "wait" /\ ScanLockFree /\ MaySkipScan
    /\ Goto(c, "verify")
    /\ UNCHANGED <<storeVars, indexVars, scanLock, scan, intact, served, issue,
                   ghosts>>

(* rescan_locked, up to reading the sequence it starts at *)
StartScan(p) ==
    /\ pc[p] = "wait" /\ ScanLockFree
    /\ p = Timer \/ MayNeedScan
    /\ scanLock' = p
    /\ scan' = [scan EXCEPT ![p] =
                   [NoWalk EXCEPT !.start = sequence, !.todo = Repo,
                                  !.complete = TRUE]]
    /\ Goto(p, "canary")
    /\ UNCHANGED <<storeVars, indexVars, intact, served, issue, ghosts>>

(* Mutant: the walk starts without asking whether the store is there.      *)
CheckNothing(p) ==
    /\ pc[p] = "canary"
    /\ scan' = [scan EXCEPT ![p].intact = TRUE]
    /\ issue' = FALSE
    /\ Goto(p, "walk")
    /\ UNCHANGED <<storeVars, indexVars, scanLock, intact, served, ghosts>>

(* verify_identity_file, before the walk *)
CheckCanary(p) ==
    /\ pc[p] = "canary"
    /\ scan' = [scan EXCEPT ![p].intact = mounted]
    /\ issue' = ~mounted
    /\ Goto(p, "walk")
    /\ UNCHANGED <<storeVars, indexVars, scanLock, intact, served, ghosts>>

(* list_repositories, one tenant directory at a time *)
Probe(p, r) ==
    /\ pc[p] = "walk" /\ r \in scan[p].todo
    /\ scan' = [scan EXCEPT ![p].todo = scan[p].todo \ {r},
                            ![p].seen[r] = Visible(r)]
    /\ UNCHANGED <<storeVars, indexVars, scanLock, pc, intact, served, issue,
                   ghosts>>

(* Mutant: an unreadable directory passes for an absent one. *)
ProbeUnreadableUntold(p, r) ==
    /\ pc[p] = "walk" /\ r \in scan[p].todo
    /\ faults < MaxFaults
    /\ faults' = faults + 1
    /\ scan' = [scan EXCEPT ![p].todo = @ \ {r}]
    /\ UNCHANGED <<store, mounted, lock, writes, indexVars, scanLock, pc,
                   intact, served, issue, ghosts>>

ProbeUnreadable(p, r) ==
    /\ pc[p] = "walk" /\ r \in scan[p].todo
    /\ faults < MaxFaults
    /\ faults' = faults + 1
    /\ scan' = [scan EXCEPT ![p].todo = @ \ {r}, ![p].complete = FALSE]
    /\ UNCHANGED <<store, mounted, lock, writes, indexVars, scanLock, pc,
                   intact, served, issue, ghosts>>

(* Mutant: the walk's start is compared with the present sequence.        *)
AnnouncedAfterNow(p, r) == heads[r] # Null /\ heads[r].at > sequence

(* The second half of rescan_locked: fold what the walk saw into the index. *)
AnnouncedSince(p, r) == heads[r] # Null /\ heads[r].at > scan[p].start

Merged(p, whole) ==
    [r \in Repo |->
        CASE AnnouncedSince(p, r)                         -> heads[r]
          [] ~AnnouncedSince(p, r) /\ scan[p].seen[r] # Null
                                   -> [head |-> scan[p].seen[r], at |-> 0]
          [] ~AnnouncedSince(p, r) /\ scan[p].seen[r] = Null
                                   -> IF whole THEN Null ELSE heads[r]]

Merge(p) ==
    LET whole == scan[p].complete /\ scan[p].intact IN
    /\ pc[p] = "walk" /\ scan[p].todo = {}
    /\ heads' = Merged(p, whole)
    /\ complete' = whole
    /\ scanned' = TRUE
    /\ scanLock' = Null
    /\ drift' = IF whole
                 THEN {r \in drift : r \in scan[p].dirty \/ AnnouncedSince(p, r)}
                 ELSE drift
    /\ misled' = (whole /\ scan[p].left)
    /\ scan' = [scan EXCEPT ![p] = NoWalk]
    /\ Goto(p, IF p = Timer THEN "idle" ELSE "verify")
    /\ UNCHANGED <<storeVars, sequence, intact, served, issue, present>>

(* snapshot's own identity check, on every listing *)
VerifyIdentity(c) ==
    /\ pc[c] = "verify"
    /\ intact' = [intact EXCEPT ![c] = mounted]
    /\ issue' = ~mounted
    /\ Goto(c, "read")
    /\ UNCHANGED <<storeVars, indexVars, scanLock, scan, served, ghosts>>

(* What the caller held in its locals goes with the call. *)
ReturnFrom(c) ==
    /\ Goto(c, "idle")
    /\ intact' = [intact EXCEPT ![c] = FALSE]
    /\ present' = [present EXCEPT ![c] = FALSE]

(* Mutant: a listing is as complete as the index it was read from.         *)
ServeListingUnverified(c) ==
    /\ pc[c] = "read"
    /\ served' = [heads |-> [r \in Repo |-> IF heads[r] = Null THEN Null
                                            ELSE heads[r].head],
                  complete |-> complete]
    /\ ReturnFrom(c)
    /\ UNCHANGED <<storeVars, indexVars, scanLock, scan, issue, drift, misled>>

ServeListing(c) ==
    /\ pc[c] = "read"
    /\ served' = [heads |-> [r \in Repo |-> IF heads[r] = Null THEN Null
                                            ELSE heads[r].head],
                  complete |-> complete /\ intact[c]]
    /\ ReturnFrom(c)
    /\ UNCHANGED <<storeVars, indexVars, scanLock, scan, issue, drift, misled>>

-----------------------------------------------------------------------------
Announce(r) == RecordHead(r) \/ RemoveEntry(r)

Environment == (\E r \in Repo : OutOfBand(r)) \/ Unmount \/ Remount

Scan(p) ==
    \/ StartScan(p) \/ CheckCanary(p) \/ Merge(p)
    \/ \E r \in Repo : Probe(p, r) \/ ProbeUnreadable(p, r)

Snapshot(c) ==
    SnapshotCall(c) \/ SkipScan(c) \/ VerifyIdentity(c) \/ ServeListing(c)

Next ==
    \/ \E r \in Repo : Commit(r) \/ DeleteTenant(r) \/ Announce(r)
    \/ Environment
    \/ RescanDue
    \/ \E p \in Proc : Scan(p)
    \/ \E c \in Client : Snapshot(c)

Spec == Init /\ [][Next]_vars

(* A handler that wrote announces; the rescan task is a loop around a      *)
(* sleep; a walk that started ends.  The mutex need not be fair.           *)
Fairness ==
    /\ \A r \in Repo : WF_vars(Announce(r))
    /\ WF_vars(RescanDue)
    /\ \A p \in Proc : WF_vars(Scan(p))
    /\ \A c \in Client : WF_vars(Snapshot(c))

FairSpec == Spec /\ Fairness

-----------------------------------------------------------------------------
TypeOK ==
    /\ store \in [Repo -> Head \cup {Null}]
    /\ mounted \in BOOLEAN
    /\ lock \in [Repo -> Head \cup {Free, Gone}]
    /\ heads \in [Repo -> Entry \cup {Null}]
    /\ complete \in BOOLEAN /\ scanned \in BOOLEAN
    /\ sequence \in Nat
    /\ scanLock \in Proc \cup {Null}
    /\ pc \in [Proc -> {"idle", "wait", "canary", "walk", "verify", "read"}]
    /\ scan \in [Proc -> Walk]
    /\ intact \in [Client -> BOOLEAN]
    /\ served \in Listing
    /\ issue \in BOOLEAN
    /\ drift \subseteq Repo
    /\ misled \in BOOLEAN /\ present \in [Client -> BOOLEAN]
    /\ writes \in Nat /\ faults \in Nat

(* A repository nobody is writing and nobody touched behind the process's  *)
(* back: the index is expected to know it.                                 *)
Settled(r) == lock[r] = Free /\ r \notin drift

(* A complete index names every settled repository on disk, whether or not *)
(* repos_path is there, unless the walk it was made from lost repos_path   *)
(* after it had found the identity file: neither an unreadable directory   *)
(* nor a commit landing while a walk runs, nor a walk that set out with    *)
(* nothing mounted, may drop a live tenant.  (A repository missing from a  *)
(* complete listing is deleted on every replica.)                          *)
CompleteIndexOmitsNothing ==
    complete /\ ~misled => \A r \in Repo :
        Settled(r) /\ store[r] # Null => heads[r] # Null

(* A walk never rolls a settled repository back to the head it had when    *)
(* the walk passed its directory (the claim above RepositoryIndex).        *)
NeverRolledBack ==
    \A r \in Repo :
        Settled(r) /\ store[r] # Null /\ heads[r] # Null
            => heads[r].head = store[r]

(* A repository the listing does not name although it is settled on disk.   *)
Omits(listing, r) == Settled(r) /\ store[r] # Null /\ listing.heads[r] = Null

(* Why snapshot reads the identity file again for every listing: for a     *)
(* complete listing to omit a repository it takes a store that left under  *)
(* the walk the index was made from, and was then in place while the       *)
(* listing was asked for.  As long as it stays away, no listing is         *)
(* complete, whatever the index says of itself.                            *)
CompleteListingsAreVouchedFor ==
    [][\A c \in Client :
          ServeListing(c) /\ served'.complete
          => \A r \in Repo : Omits(served', r) => misled /\ present[c]]_vars

(* What the identity file is for: a walk of a repos_path that is not there  *)
(* forgets nothing.  The index forgets a repository that is on disk only   *)
(* if it was changed, or the whole store left, under that very walk.       *)
ForgetsOnlyWhatLeft ==
    [][\A r \in Repo :
          heads[r] # Null /\ heads'[r] = Null /\ lock[r] = Free /\ store[r] # Null
          => \E p \in Proc : r \in scan[p].dirty \/ scan[p].left]_vars

(* The index lists what the store holds and nothing else. *)
IndexExact == \A r \in Repo :
    IF store[r] = Null THEN heads[r] = Null
    ELSE heads[r] # Null /\ heads[r].head = store[r]

(* The rescan is the safety net for whatever reached the disk behind the   *)
(* process's back, and for a deletion a walk undid: once the store stays   *)
(* in place and is left alone, the index ends up exactly the store.        *)
RescanRepairs == (<>[]mounted) => <>[](complete /\ IndexExact)
=============================================================================
