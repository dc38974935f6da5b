------------------------ MODULE RepositoryIndexProofs ------------------------
(***************************************************************************)
(* Proofs about RepositoryIndex, for any number of repositories, clients   *)
(* and store changes.                                                      *)
(*                                                                         *)
(* Neither safety invariant is inductive: what a merge puts in the index   *)
(* depends on what the walk gathered on the way, so the invariant has to   *)
(* say what a walk under way knows about each directory it has passed.     *)
(***************************************************************************)
EXTENDS RepositoryIndex, TLAPS

(* Only the holder of scan_lock walks, it starts from nothing, and what it *)
(* remembers of the sequence and of the disk is not from the future.       *)
WalkShape ==
    /\ \A p \in Proc : pc[p] \in {"canary", "walk"} => scanLock = p
    /\ \A p \in Proc : pc[p] \in {"canary", "walk"} =>
          /\ scan[p].start <= sequence
          /\ scan[p].dirty \subseteq drift
          /\ \A r \in scan[p].todo : scan[p].seen[r] = Null
    /\ \A p \in Proc : pc[p] = "canary" => scan[p].todo = Repo

(* A writer holding a tenant's lock has put on disk what it will announce. *)
WriterShape ==
    \A r \in Repo : /\ lock[r] \in Nat => store[r] = lock[r]
                    /\ lock[r] = Gone => store[r] = Null

Whole(p) == scan[p].complete /\ scan[p].intact

(* Of every directory it has passed, a walk saw the head that is there     *)
(* now, or could not read it and knows its listing is incomplete, or the   *)
(* store left under the walk, or the head there now was announced after it *)
(* started.                                                                *)
WalkKnows ==
    \A p \in Proc : \A r \in Repo :
        /\ pc[p] = "walk" /\ r \notin scan[p].todo /\ r \notin scan[p].dirty
        /\ lock[r] = Free /\ store[r] # Null
        => \/ scan[p].seen[r] = store[r]
           \/ scan[p].seen[r] = Null /\ (~Whole(p) \/ scan[p].left)
           \/ AnnouncedSince(p, r)

(* A walk that goes on while repos_path is away knows it, or had it taken  *)
(* from under it.                                                          *)
AwayIsNoticed ==
    ~mounted => \A p \in Proc :
        pc[p] = "walk" => ~scan[p].intact \/ scan[p].left

IndexInv ==
    /\ TypeOK
    /\ AwayIsNoticed
    /\ WalkShape
    /\ WriterShape
    /\ WalkKnows
    /\ CompleteIndexOmitsNothing
    /\ NeverRolledBack

-----------------------------------------------------------------------------
(* The updates a walk's record goes through keep its shape. *)
LEMMA WalkUpdates ==
    ASSUME NEW w \in Walk
    PROVE  /\ \A D \in SUBSET Repo : [w EXCEPT !.dirty = D] \in Walk
           /\ \A b \in BOOLEAN : [w EXCEPT !.intact = b] \in Walk
           /\ [w EXCEPT !.left = TRUE] \in Walk
           /\ \A T \in SUBSET Repo : [w EXCEPT !.todo = T, !.complete = FALSE] \in Walk
<1>1. ASSUME NEW D \in SUBSET Repo PROVE [w EXCEPT !.dirty = D] \in Walk
  BY DEF Walk
<1>2. ASSUME NEW b \in BOOLEAN PROVE [w EXCEPT !.intact = b] \in Walk
  BY DEF Walk
<1>3. ASSUME NEW T \in SUBSET Repo PROVE [w EXCEPT !.todo = T, !.complete = FALSE] \in Walk
  BY DEF Walk
<1>4. [w EXCEPT !.left = TRUE] \in Walk
  BY DEF Walk
<1> QED
  BY <1>1, <1>2, <1>3, <1>4

(* The index and the walks stay well formed, whatever the store does.      *)
LEMMA TypeInductive == (Init => TypeOK) /\ (TypeOK /\ [Next]_vars => TypeOK')
<1>1. Init => TypeOK
  <2> SUFFICES ASSUME Init PROVE TypeOK
    OBVIOUS
  <2>1. scan \in [Proc -> Walk]
    BY DEF Init, NoWalk, Walk, Head
  <2>2. served \in Listing
    BY DEF Init, Listing
  <2>3. store \in [Repo -> Head \cup {Null}]
    <3>1. PICK heldAtStart \in [Repo -> {Null, 0}] : store = heldAtStart
      BY DEF Init
    <3>2. {Null, 0} \subseteq Head \cup {Null}
      BY DEF Head
    <3> QED
      BY <3>1, <3>2
  <2> QED
    BY <2>1, <2>2, <2>3 DEF Init, TypeOK, Head
<1>2. TypeOK /\ [Next]_vars => TypeOK'
  <2> SUFFICES ASSUME TypeOK, [Next]_vars PROVE TypeOK'
    OBVIOUS
  <2> USE DEF TypeOK, Head, storeVars, indexVars, ghosts
  <2>1. ASSUME NEW r \in Repo, Commit(r) PROVE TypeOK'
    BY <2>1 DEF Commit
  <2>2. ASSUME NEW r \in Repo, DeleteTenant(r) PROVE TypeOK'
    BY <2>2 DEF DeleteTenant
  <2>3. ASSUME NEW r \in Repo, RecordHead(r) PROVE TypeOK'
    <3>1. heads' \in [Repo -> Entry \cup {Null}]
      BY <2>3 DEF RecordHead, Entry
    <3> QED
      BY <2>3, <3>1 DEF RecordHead
  <2>4. ASSUME NEW r \in Repo, RemoveEntry(r) PROVE TypeOK'
    BY <2>4 DEF RemoveEntry
  <2>5. ASSUME NEW r \in Repo, OutOfBand(r) PROVE TypeOK'
    <3>1. scan' \in [Proc -> Walk]
      <4> SUFFICES ASSUME NEW p \in Proc PROVE PassedBy(r)[p] \in Walk
        BY <2>5 DEF OutOfBand, PassedBy
      <4>1. scan[p] \in Walk
        OBVIOUS
      <4>2. scan[p].dirty \cup {r} \in SUBSET Repo
        BY <4>1 DEF Walk
      <4>3. [scan[p] EXCEPT !.dirty = scan[p].dirty \cup {r}] \in Walk
        BY <4>1, <4>2, WalkUpdates
      <4> QED
        BY <4>1, <4>3 DEF PassedBy
    <3>2. store' \in [Repo -> Head \cup {Null}]
      <4>1. writes' \in Nat
        BY <2>5 DEF OutOfBand
      <4> QED
        BY <2>5, <4>1 DEF OutOfBand
    <3>3. drift' \subseteq Repo /\ writes' \in Nat
      BY <2>5 DEF OutOfBand
    <3>4. UNCHANGED <<mounted, lock, indexVars, scanLock, pc, intact, served, issue,
                      misled, present, faults>>
      BY <2>5 DEF OutOfBand
    <3> QED
      BY <3>1, <3>2, <3>3, <3>4
  <2>6. CASE Unmount
    <3>1. mounted' \in BOOLEAN /\ faults' \in Nat
      <4>1. mounted' = FALSE /\ faults' = faults + 1
        BY <2>6 DEF Unmount
      <4>2. mounted' \in BOOLEAN
        BY <4>1, Zenon
      <4>3. faults' \in Nat
        BY <4>1
      <4> QED
        BY <4>2, <4>3
    <3>2. scan' \in [Proc -> Walk]
      <4>1. ASSUME NEW p \in Proc PROVE [scan[p] EXCEPT !.left = TRUE] \in Walk
        <5>1. scan[p] \in Walk
          OBVIOUS
        <5> QED
          BY <5>1, WalkUpdates
      <4> QED
        BY <2>6, <4>1 DEF Unmount
    <3>3. UNCHANGED <<store, lock, indexVars, scanLock, pc, intact, served, issue,
                      ghosts, writes>>
      BY <2>6 DEF Unmount
    <3> QED
      BY <3>1, <3>2, <3>3
  <2>7. CASE Remount
    <3>1. mounted' \in BOOLEAN /\ present' \in [Client -> BOOLEAN]
      BY <2>7, Zenon DEF Remount
    <3> QED
      BY <2>7, <3>1 DEF Remount
  <2>8. CASE RescanDue
    BY <2>8 DEF RescanDue, Goto, Proc
  <2>9. ASSUME NEW p \in Proc, Scan(p) PROVE TypeOK'
    <3>1. CASE StartScan(p)
      <4>1. scan' \in [Proc -> Walk]
        BY <3>1 DEF StartScan, NoWalk, Walk
      <4> QED
        BY <3>1, <4>1 DEF StartScan, Goto
    <3>2. CASE CheckCanary(p)
      <4>1. scan' \in [Proc -> Walk]
        <5>1. [scan[p] EXCEPT !.intact = mounted] \in Walk
          <6>1. scan[p] \in Walk /\ mounted \in BOOLEAN
            OBVIOUS
          <6> QED
            BY <6>1, WalkUpdates, Zenon
        <5>2. scan' = [scan EXCEPT ![p] = [scan[p] EXCEPT !.intact = mounted]]
          BY <3>2 DEF CheckCanary
        <5>3. scan \in [Proc -> Walk]
          OBVIOUS
        <5> HIDE DEF TypeOK
        <5> QED
          BY <5>1, <5>2, <5>3
      <4> QED
        BY <3>2, <4>1 DEF CheckCanary, Goto
    <3>3. CASE Merge(p)
      <4>1. scan' \in [Proc -> Walk]
        BY <3>3 DEF Merge, NoWalk, Walk
      <4>2. scan[p] \in Walk
        OBVIOUS
      <4>3. heads' \in [Repo -> Entry \cup {Null}]
        <5> SUFFICES ASSUME NEW r \in Repo, NEW whole \in BOOLEAN
                     PROVE  Merged(p, whole)[r] \in Entry \cup {Null}
          BY <3>3, <4>2 DEF Merge, Merged, Walk
        <5>1. CASE AnnouncedSince(p, r)
          BY <5>1 DEF Merged
        <5>2. CASE ~AnnouncedSince(p, r) /\ scan[p].seen[r] # Null
          BY <5>2, <4>2 DEF Merged, Walk, Entry
        <5>3. CASE ~AnnouncedSince(p, r) /\ scan[p].seen[r] = Null
          BY <5>3 DEF Merged
        <5> QED
          BY <5>1, <5>2, <5>3
      <4>4. complete' \in BOOLEAN /\ drift' \subseteq Repo
        BY <3>3, <4>2 DEF Merge, Walk
      <4> QED
        BY <3>3, <4>1, <4>3, <4>4 DEF Merge, Goto
    <3>4. ASSUME NEW r \in Repo, Probe(p, r) PROVE TypeOK'
      <4> DEFINE seen == [scan[p].seen EXCEPT ![r] = Visible(r)]
      <4>2. seen \in [Repo -> Head \cup {Null}] /\ scan[p].todo \ {r} \subseteq Repo
        BY DEF Visible, Walk
      <4>3. [scan[p] EXCEPT !.todo = scan[p].todo \ {r}, !.seen = seen] \in Walk
        <5> scan[p] \in Walk
          OBVIOUS
        <5> HIDE DEF seen
        <5> QED
          BY <4>2 DEF Walk
      <4>4. scan' = [scan EXCEPT ![p] = [scan[p] EXCEPT !.todo = scan[p].todo \ {r},
                                                       !.seen = seen]]
        <5>1. scan' = [scan EXCEPT ![p].todo = scan[p].todo \ {r},
                                   ![p].seen[r] = Visible(r)]
          BY <3>4 DEF Probe
        <5>2. scan[p] \in Walk
          OBVIOUS
        <5>3. ASSUME NEW q \in Proc, q # p PROVE scan'[q] = scan[q]
          BY <5>1, <5>3
        <5>4. scan'[p] = [scan[p] EXCEPT !.todo = scan[p].todo \ {r}, !.seen = seen]
          BY <5>1, <5>2 DEF Walk
        <5> QED
          BY <5>1, <5>3, <5>4
      <4>1. scan' \in [Proc -> Walk]
        BY <4>4, <4>3
      <4> QED
        BY <3>4, <4>1 DEF Probe
    <3>5. ASSUME NEW r \in Repo, ProbeUnreadable(p, r) PROVE TypeOK'
      <4>2. [scan[p] EXCEPT !.todo = scan[p].todo \ {r}, !.complete = FALSE] \in Walk
        <5>1. scan[p] \in Walk
          OBVIOUS
        <5>2. scan[p].todo \ {r} \in SUBSET Repo
          BY <5>1 DEF Walk
        <5> QED
          BY <5>1, <5>2, WalkUpdates
      <4>1. scan' \in [Proc -> Walk]
        BY <3>5, <4>2 DEF ProbeUnreadable
      <4> QED
        BY <3>5, <4>1 DEF ProbeUnreadable
    <3> QED
      BY <2>9, <3>1, <3>2, <3>3, <3>4, <3>5 DEF Scan
  <2>10. ASSUME NEW c \in Client, Snapshot(c) PROVE TypeOK'
    <3>1. CASE SnapshotCall(c)
      BY <3>1 DEF SnapshotCall, Goto, Proc
    <3>2. CASE SkipScan(c)
      BY <3>2 DEF SkipScan, Goto, Proc
    <3>3. CASE VerifyIdentity(c)
      BY <3>3 DEF VerifyIdentity, Goto, Proc
    <3>4. CASE ServeListing(c)
      <4>1. served' \in Listing
        BY <3>4 DEF ServeListing, Listing, Entry
      <4> QED
        BY <3>4, <4>1 DEF ServeListing, ReturnFrom, Goto, Proc
    <3> QED
      BY <2>10, <3>1, <3>2, <3>3, <3>4 DEF Snapshot
  <2>11. CASE UNCHANGED vars
    BY <2>11 DEF vars
  <2> QED
    BY <2>1, <2>2, <2>3, <2>4, <2>5, <2>6, <2>7, <2>8, <2>9, <2>10, <2>11
       DEF Next, Announce, Environment
<1> QED
  BY <1>1, <1>2

(* The store, the index, the walks and the listings served keep their      *)
(* types in every reachable state.                                         *)
THEOREM TypeCorrect == Spec => []TypeOK
  BY TypeInductive, PTL DEF Spec

-----------------------------------------------------------------------------
(* A step that leaves the store, the index and the walks alone. *)
LEMMA QuietStep ==
    ASSUME IndexInv, TypeOK',
           UNCHANGED <<store, lock, heads, complete, sequence, scanLock, scan,
                       drift, misled>>,
           mounted => mounted',
           \A p \in Proc : pc'[p] \in {"canary", "walk"} => pc'[p] = pc[p]
    PROVE  IndexInv'
<1>1. WalkShape' /\ WriterShape'
  BY DEF IndexInv, WalkShape, WriterShape
<1>2. WalkKnows' /\ AwayIsNoticed'
  BY DEF IndexInv, WalkKnows, AnnouncedSince, Whole, AwayIsNoticed
<1>3. CompleteIndexOmitsNothing' /\ NeverRolledBack'
  BY DEF IndexInv, CompleteIndexOmitsNothing, NeverRolledBack, Settled
<1> QED
  BY <1>1, <1>2, <1>3 DEF IndexInv

(* A store change: r is no longer settled, and no walk under way is wrong  *)
(* about it.                                                               *)
LEMMA StoreStep ==
    ASSUME IndexInv, NEW r \in Repo,
           Commit(r) \/ DeleteTenant(r) \/ OutOfBand(r), TypeOK'
    PROVE  IndexInv'
<1> USE DEF indexVars, ghosts
<1>1. /\ UNCHANGED <<mounted, heads, complete, sequence, scanLock, pc, misled>>
      /\ \A s \in Repo \ {r} : store'[s] = store[s] /\ lock'[s] = lock[s]
  BY DEF Commit, DeleteTenant, OutOfBand, IndexInv, TypeOK
<1>2. /\ drift \subseteq drift'
      /\ lock'[r] # Free \/ r \in drift'
  <2>1. CASE Commit(r)
    BY <2>1, Sentinels DEF Commit, IndexInv, TypeOK, Head
  <2>2. CASE DeleteTenant(r)
    BY <2>2, Sentinels DEF DeleteTenant, IndexInv, TypeOK, Head
  <2>3. CASE OutOfBand(r)
    BY <2>3 DEF OutOfBand
  <2> QED
    BY <2>1, <2>2, <2>3
<1> DEFINE Undisturbed(p) ==
      /\ scan'[p].start = scan[p].start /\ scan'[p].todo = scan[p].todo
      /\ scan'[p].seen = scan[p].seen
      /\ scan'[p].complete = scan[p].complete /\ scan'[p].intact = scan[p].intact
      /\ scan'[p].left = scan[p].left
      /\ scan[p].dirty \subseteq scan'[p].dirty
      /\ scan'[p].dirty \subseteq scan[p].dirty \cup {r}
      /\ scan'[p].dirty # scan[p].dirty => r \in drift'
<1>3. \A p \in Proc : Undisturbed(p)
  <2>1. CASE Commit(r) \/ DeleteTenant(r)
    <3>1. scan' = scan
      BY <2>1 DEF Commit, DeleteTenant
    <3> QED
      BY <3>1
  <2>2. CASE OutOfBand(r)
    <3> SUFFICES ASSUME NEW p \in Proc PROVE Undisturbed(p)
      OBVIOUS
    <3>1. scan'[p] = PassedBy(r)[p] /\ r \in drift'
      BY <2>2 DEF OutOfBand
    <3>2. CASE pc[p] = "walk" /\ r \notin scan[p].todo
      <4>1. scan'[p] = [scan[p] EXCEPT !.dirty = scan[p].dirty \cup {r}]
        BY <3>1, <3>2 DEF PassedBy
      <4>2. scan[p] \in Walk
        BY DEF IndexInv, TypeOK
      <4> QED
        BY <3>1, <4>1, <4>2 DEF Walk
    <3>3. CASE ~(pc[p] = "walk" /\ r \notin scan[p].todo)
      <4>1. scan'[p] = scan[p]
        BY <3>1, <3>3 DEF PassedBy
      <4> QED
        BY <4>1
    <3> QED
      BY <3>2, <3>3
  <2> QED
    BY <2>1, <2>2
<1>4. WalkShape'
  BY <1>1, <1>2, <1>3 DEF IndexInv, WalkShape
<1>5. WriterShape'
  <2>1. (lock'[r] \in Nat => store'[r] = lock'[r]) /\ (lock'[r] = Gone => store'[r] = Null)
    <3>1. CASE Commit(r)
      BY <3>1, Sentinels DEF Commit, IndexInv, TypeOK, Head
    <3>2. CASE DeleteTenant(r)
      BY <3>2, Sentinels DEF DeleteTenant, IndexInv, TypeOK, Head
    <3>3. CASE OutOfBand(r)
      BY <3>3, Sentinels DEF OutOfBand
    <3> QED
      BY <3>1, <3>2, <3>3
  <2> QED
    BY <1>1, <2>1 DEF IndexInv, WriterShape
<1>6. WalkKnows'
  <2> SUFFICES ASSUME NEW p \in Proc, NEW s \in Repo,
                      pc[p] = "walk", s \notin scan[p].todo, s \notin scan'[p].dirty,
                      lock'[s] = Free, store'[s] # Null
               PROVE  \/ scan'[p].seen[s] = store'[s]
                      \/ scan'[p].seen[s] = Null /\ (~Whole(p)' \/ scan'[p].left)
                      \/ AnnouncedSince(p, s)'
    BY <1>1, <1>3 DEF WalkKnows
  <2>1. CASE s # r
    BY <2>1, <1>1, <1>3 DEF IndexInv, WalkKnows, AnnouncedSince, Whole
  <2>2. CASE s = r
    <3>1. CASE Commit(r)
      BY <2>2, <3>1, Sentinels DEF Commit, IndexInv, TypeOK, Head
    <3>2. CASE DeleteTenant(r)
      BY <2>2, <3>2, Sentinels DEF DeleteTenant, IndexInv, TypeOK, Head
    <3>3. CASE OutOfBand(r)
      BY <2>2, <3>3 DEF OutOfBand, PassedBy, IndexInv, TypeOK, Walk
    <3> QED
      BY <3>1, <3>2, <3>3
  <2> QED
    BY <2>1, <2>2
<1>7. CompleteIndexOmitsNothing' /\ NeverRolledBack'
  BY <1>1, <1>2
     DEF IndexInv, CompleteIndexOmitsNothing, NeverRolledBack, Settled
<1>8. AwayIsNoticed'
  BY <1>1, <1>3 DEF AwayIsNoticed, IndexInv
<1> QED
  BY <1>1, <1>4, <1>5, <1>6, <1>7, <1>8 DEF IndexInv

(* An announcement: what the index learns of r is what r has on disk. *)
LEMMA AnnounceStep ==
    ASSUME IndexInv, NEW r \in Repo, RecordHead(r) \/ RemoveEntry(r), TypeOK'
    PROVE  IndexInv'
<1>1. /\ UNCHANGED <<store, mounted, complete, scanLock, pc, scan, drift, misled>>
      /\ sequence' = sequence + 1
      /\ \A s \in Repo \ {r} : heads'[s] = heads[s] /\ lock'[s] = lock[s]
      /\ lock'[r] = Free
  BY DEF ghosts, RecordHead, RemoveEntry, IndexInv, TypeOK
<1>2. \/ store[r] = Null
      \/ heads'[r] # Null /\ heads'[r].head = store[r] /\ heads'[r].at = sequence + 1
  <2>1. CASE RecordHead(r)
    <3>1. heads'[r] = [head |-> lock[r], at |-> sequence + 1]
      BY <2>1 DEF RecordHead, IndexInv, TypeOK
    <3>2. store[r] = lock[r]
      BY <2>1 DEF RecordHead, IndexInv, WriterShape
    <3>3. heads'[r] # Null
      <4>1. heads'[r].head \in Nat
        BY <3>1, <2>1 DEF RecordHead
      <4>2. CASE store[r] = Null
        BY <4>2, <3>2, <2>1, Sentinels DEF RecordHead
      <4> QED
        BY <4>1, <3>1, Sentinels, <2>1 DEF RecordHead, IndexInv, TypeOK
    <3> QED
      BY <3>1, <3>2, <3>3
  <2>2. CASE RemoveEntry(r)
    BY <2>2 DEF RemoveEntry, IndexInv, WriterShape
  <2> QED
    BY <2>1, <2>2
<1>3. WalkShape'
  BY <1>1 DEF IndexInv, WalkShape, TypeOK, Walk
<1>4. WriterShape'
  BY <1>1, Sentinels DEF IndexInv, WriterShape
<1>5. WalkKnows'
  <2> SUFFICES ASSUME NEW p \in Proc, NEW s \in Repo,
                      pc[p] = "walk", s \notin scan[p].todo, s \notin scan[p].dirty,
                      lock'[s] = Free, store[s] # Null
               PROVE  \/ scan[p].seen[s] = store[s]
                      \/ scan[p].seen[s] = Null /\ (~Whole(p) \/ scan[p].left)
                      \/ AnnouncedSince(p, s)'
    BY <1>1 DEF WalkKnows, Whole
  <2>1. CASE s # r
    BY <2>1, <1>1 DEF IndexInv, WalkKnows, AnnouncedSince
  <2>2. CASE s = r
    <3>1. scan[p].start <= sequence /\ scan[p].start \in Nat /\ sequence \in Nat
      BY DEF IndexInv, WalkShape, TypeOK, Walk
    <3>2. sequence + 1 > scan[p].start
      BY <3>1
    <3> QED
      BY <2>2, <3>2, <1>1, <1>2 DEF AnnouncedSince
  <2> QED
    BY <2>1, <2>2
<1>6. CompleteIndexOmitsNothing' /\ NeverRolledBack'
  BY <1>1, <1>2
     DEF IndexInv, CompleteIndexOmitsNothing, NeverRolledBack, Settled
<1>7. AwayIsNoticed'
  BY <1>1 DEF IndexInv, AwayIsNoticed
<1> QED
  BY <1>1, <1>3, <1>4, <1>5, <1>6, <1>7 DEF IndexInv

(* A walk begins with everything to do. *)
LEMMA BeginStep ==
    ASSUME IndexInv, NEW p \in Proc, StartScan(p) \/ CheckCanary(p), TypeOK'
    PROVE  IndexInv'
<1> USE DEF indexVars, storeVars, ghosts
<1>1. /\ UNCHANGED <<store, mounted, lock, heads, complete, sequence, drift, misled>>
      /\ scanLock' = p /\ \A q \in Proc \ {p} : scan'[q] = scan[q] /\ pc'[q] = pc[q]
      /\ \A q \in Proc \ {p} : pc[q] \notin {"canary", "walk"}
  <2>1. CASE StartScan(p)
    BY <2>1, Sentinels
       DEF StartScan, Proc, ScanLockFree, Goto, IndexInv, TypeOK, WalkShape
  <2>2. CASE CheckCanary(p)
    BY <2>2 DEF CheckCanary, Goto, IndexInv, TypeOK, WalkShape
  <2> QED
    BY <2>1, <2>2
<1>2. /\ scan'[p].todo = Repo /\ scan'[p].start <= sequence
      /\ scan'[p].dirty \subseteq drift
      /\ \A r \in Repo : scan'[p].seen[r] = Null
  <2>1. CASE StartScan(p)
    BY <2>1 DEF StartScan, NoWalk, IndexInv, TypeOK, Walk
  <2>2. CASE CheckCanary(p)
    BY <2>2 DEF CheckCanary, IndexInv, TypeOK, Walk, WalkShape
  <2> QED
    BY <2>1, <2>2
<1>3. WalkShape'
  BY <1>1, <1>2 DEF WalkShape
<1>4. WalkKnows'
  BY <1>1, <1>2 DEF WalkKnows
<1>5. WriterShape' /\ CompleteIndexOmitsNothing' /\ NeverRolledBack'
  BY <1>1 DEF IndexInv, WriterShape, CompleteIndexOmitsNothing, NeverRolledBack,
              Settled
<1>6. AwayIsNoticed'
  <2>1. pc'[p] = "walk" => scan'[p].intact = mounted
    <3>1. CASE StartScan(p)
      BY <3>1 DEF StartScan, Goto, IndexInv, TypeOK
    <3>2. CASE CheckCanary(p)
      BY <3>2 DEF CheckCanary, IndexInv, TypeOK, Walk
    <3> QED
      BY <3>1, <3>2
  <2> QED
    BY <1>1, <2>1 DEF AwayIsNoticed
<1> QED
  BY <1>1, <1>3, <1>4, <1>5, <1>6 DEF IndexInv

(* A walk passes a directory: it sees the head that is there, or knows     *)
(* that it did not.                                                        *)
LEMMA PassStep ==
    ASSUME IndexInv, NEW p \in Proc, NEW r \in Repo,
           Probe(p, r) \/ ProbeUnreadable(p, r), TypeOK'
    PROVE  IndexInv'
<1> USE DEF indexVars, storeVars, ghosts
<1>1. /\ UNCHANGED <<store, mounted, lock, heads, complete, sequence, scanLock, pc,
                     drift, misled>>
      /\ \A q \in Proc \ {p} : scan'[q] = scan[q]
      /\ pc[p] = "walk" /\ r \in scan[p].todo
  BY DEF Probe, ProbeUnreadable, IndexInv, TypeOK
<1>2. /\ scan'[p].todo = scan[p].todo \ {r} /\ scan'[p].start = scan[p].start
      /\ scan'[p].dirty = scan[p].dirty /\ scan'[p].left = scan[p].left
      /\ \A s \in Repo \ {r} : scan'[p].seen[s] = scan[p].seen[s]
      /\ (scan'[p].complete => scan[p].complete) /\ scan'[p].intact = scan[p].intact
      /\ \/ scan'[p].seen[r] = store[r]
         \/ scan'[p].seen[r] = Null /\ (~Whole(p)' \/ scan'[p].left)
  <2>1. CASE Probe(p, r)
    <3>1. /\ scan'[p].todo = scan[p].todo \ {r} /\ scan'[p].start = scan[p].start
          /\ scan'[p].dirty = scan[p].dirty /\ scan'[p].left = scan[p].left
          /\ \A s \in Repo \ {r} : scan'[p].seen[s] = scan[p].seen[s]
          /\ scan'[p].complete = scan[p].complete /\ scan'[p].intact = scan[p].intact
          /\ scan'[p].seen[r] = Visible(r)
      BY <2>1 DEF Probe, IndexInv, TypeOK, Walk
    <3>2. ~mounted => ~scan[p].intact \/ scan[p].left
      BY <1>1 DEF IndexInv, AwayIsNoticed
    <3>3. CASE mounted
      BY <3>1, <3>3 DEF Visible
    <3>4. CASE ~mounted
      BY <3>1, <3>2, <3>4, <1>1 DEF Visible, Whole
    <3> QED
      BY <3>3, <3>4
  <2>2. CASE ProbeUnreadable(p, r)
    <3>1. /\ scan'[p].todo = scan[p].todo \ {r} /\ scan'[p].start = scan[p].start
          /\ scan'[p].dirty = scan[p].dirty /\ scan'[p].left = scan[p].left
          /\ scan'[p].seen = scan[p].seen
          /\ ~scan'[p].complete /\ scan'[p].intact = scan[p].intact
      BY <2>2 DEF ProbeUnreadable, IndexInv, TypeOK, Walk
    <3>2. scan[p].seen[r] = Null
      BY <1>1 DEF IndexInv, WalkShape
    <3> QED
      BY <3>1, <3>2 DEF Whole
  <2> QED
    BY <2>1, <2>2
<1>3. WalkShape'
  BY <1>1, <1>2 DEF IndexInv, WalkShape, TypeOK, Walk
<1>4. WalkKnows'
  <2> SUFFICES ASSUME NEW q \in Proc, NEW s \in Repo,
                      pc[q] = "walk", s \notin scan'[q].todo, s \notin scan'[q].dirty,
                      lock[s] = Free, store[s] # Null
               PROVE  \/ scan'[q].seen[s] = store[s]
                      \/ scan'[q].seen[s] = Null /\ (~Whole(q)' \/ scan'[q].left)
                      \/ AnnouncedSince(q, s)'
    BY <1>1 DEF WalkKnows
  <2>1. CASE q # p
    BY <2>1, <1>1 DEF IndexInv, WalkKnows, AnnouncedSince, Whole
  <2>2. CASE q = p /\ s # r
    BY <2>2, <1>1, <1>2 DEF IndexInv, WalkKnows, AnnouncedSince, Whole
  <2>3. CASE q = p /\ s = r
    BY <2>3, <1>1, <1>2
  <2> QED
    BY <2>1, <2>2, <2>3
<1>5. WriterShape' /\ CompleteIndexOmitsNothing' /\ NeverRolledBack'
  BY <1>1 DEF IndexInv, WriterShape, CompleteIndexOmitsNothing, NeverRolledBack,
              Settled
<1>6. AwayIsNoticed'
  BY <1>1, <1>2 DEF IndexInv, AwayIsNoticed
<1> QED
  BY <1>1, <1>3, <1>4, <1>5, <1>6 DEF IndexInv

(* The merge: where the walk has passed everything, what it knows and what *)
(* was announced since together are the store.                             *)
LEMMA MergeStep ==
    ASSUME IndexInv, NEW p \in Proc, Merge(p), TypeOK'
    PROVE  IndexInv'
<1> USE DEF indexVars, storeVars, ghosts
<1>1. /\ UNCHANGED <<store, mounted, lock, sequence>>
      /\ heads' = Merged(p, Whole(p)) /\ complete' = Whole(p)
      /\ misled' = (Whole(p) /\ scan[p].left)
      /\ scan[p].todo = {} /\ pc[p] = "walk"
      /\ \A q \in Proc : pc'[q] \notin {"canary", "walk"}
  BY DEF Merge, Goto, IndexInv, TypeOK, WalkShape, Whole
<1>2. \A r \in Repo : r \in drift' => r \in drift
  BY DEF Merge
<1>3. ASSUME NEW r \in Repo, Settled(r)', store[r] # Null
      PROVE  /\ Whole(p) /\ ~scan[p].left => heads'[r] # Null
             /\ heads'[r] # Null => heads'[r].head = store[r]
  <2>1. lock[r] = Free /\ r \notin drift'
    BY <1>1, <1>3 DEF Settled
  <2>2. CASE AnnouncedSince(p, r)
    <3>1. heads'[r] = heads[r] /\ heads[r] # Null
      BY <2>2, <1>1 DEF Merged, AnnouncedSince
    <3>2. r \notin drift
      BY <2>1, <2>2 DEF Merge
    <3> QED
      BY <1>3, <2>1, <3>1, <3>2 DEF IndexInv, NeverRolledBack, Settled
  <2>3. CASE ~AnnouncedSince(p, r)
    <3>1. r \notin scan[p].dirty
      BY <2>1, <1>1 DEF Merge, IndexInv, WalkShape, Whole
    <3>2. \/ scan[p].seen[r] = store[r]
          \/ scan[p].seen[r] = Null /\ (~Whole(p) \/ scan[p].left)
      BY <2>1, <2>3, <3>1, <1>1, <1>3 DEF IndexInv, WalkKnows
    <3>3. CASE scan[p].seen[r] = store[r]
      <4>1. heads'[r] = [head |-> store[r], at |-> 0]
        BY <2>3, <3>3, <1>1, <1>3 DEF Merged
      <4>2. store[r] \in Nat
        BY <1>3 DEF IndexInv, TypeOK, Head
      <4> QED
        BY <4>1, <4>2, Sentinels
    <3>4. CASE scan[p].seen[r] = Null /\ ~Whole(p)
      <4>1. heads'[r] = heads[r] /\ r \notin drift
        BY <2>1, <2>3, <3>4, <1>1 DEF Merged, Merge, Whole
      <4> QED
        BY <4>1, <3>4, <1>3, <2>1 DEF IndexInv, NeverRolledBack, Settled
    <3>5. CASE scan[p].seen[r] = Null /\ Whole(p) /\ scan[p].left
      BY <2>3, <3>5, <1>1 DEF Merged
    <3> QED
      BY <3>2, <3>3, <3>4, <3>5
  <2> QED
    BY <2>2, <2>3
<1>4. CompleteIndexOmitsNothing' /\ NeverRolledBack'
  BY <1>1, <1>3 DEF CompleteIndexOmitsNothing, NeverRolledBack
<1>5. WalkShape' /\ WalkKnows' /\ WriterShape' /\ AwayIsNoticed'
  BY <1>1 DEF IndexInv, WalkShape, WalkKnows, WriterShape, AwayIsNoticed
<1> QED
  BY <1>1, <1>4, <1>5 DEF IndexInv

(* repos_path goes: every walk under way has lost it, and what the index   *)
(* holds stays as true as it was.                                          *)
LEMMA UnmountStep ==
    ASSUME IndexInv, Unmount, TypeOK'
    PROVE  IndexInv'
<1> USE DEF indexVars, ghosts
<1>1. UNCHANGED <<store, lock, heads, complete, sequence, scanLock, pc, drift, misled>>
  BY DEF Unmount
<1>2. \A p \in Proc :
         /\ scan'[p].start = scan[p].start /\ scan'[p].todo = scan[p].todo
         /\ scan'[p].seen = scan[p].seen /\ scan'[p].dirty = scan[p].dirty
         /\ scan'[p].complete = scan[p].complete /\ scan'[p].intact = scan[p].intact
         /\ pc[p] = "walk" => scan'[p].left
         /\ scan[p].left => scan'[p].left
  <2> SUFFICES ASSUME NEW p \in Proc
               PROVE  scan'[p] = IF pc[p] = "walk" THEN [scan[p] EXCEPT !.left = TRUE]
                                 ELSE scan[p]
    BY DEF IndexInv, TypeOK, Walk
  <2> QED
    BY DEF Unmount
<1>3. WalkShape' /\ WriterShape'
  BY <1>1, <1>2 DEF IndexInv, WalkShape, WriterShape
<1>4. WalkKnows' /\ AwayIsNoticed'
  BY <1>1, <1>2 DEF IndexInv, WalkKnows, AwayIsNoticed, AnnouncedSince, Whole
<1>5. CompleteIndexOmitsNothing' /\ NeverRolledBack'
  BY <1>1 DEF IndexInv, CompleteIndexOmitsNothing, NeverRolledBack, Settled
<1> QED
  BY <1>3, <1>4, <1>5 DEF IndexInv

-----------------------------------------------------------------------------
LEMMA IndexInductive ==
    ASSUME IndexInv, [Next]_vars
    PROVE  IndexInv'
<1> USE DEF indexVars, storeVars, ghosts
<1>1. TypeOK'
  BY TypeInductive DEF IndexInv
<1>2. CASE \E r \in Repo : Commit(r) \/ DeleteTenant(r) \/ OutOfBand(r)
  BY <1>1, <1>2, StoreStep
<1>3. CASE \E r \in Repo : Announce(r)
  BY <1>1, <1>3, AnnounceStep DEF Announce
<1>4. CASE \E p \in Proc : Scan(p)
  BY <1>1, <1>4, BeginStep, PassStep, MergeStep DEF Scan
<1>5. CASE RescanDue
  <2>1. \A p \in Proc : pc'[p] \in {"canary", "walk"} => pc'[p] = pc[p]
    BY <1>5 DEF RescanDue, Goto, IndexInv, TypeOK
  <2> QED
    BY <1>1, <1>5, <2>1, QuietStep DEF RescanDue
<1>6. ASSUME NEW c \in Client, Snapshot(c) PROVE IndexInv'
  <2>1. UNCHANGED <<store, mounted, lock, heads, complete, sequence, scanLock, scan,
                    drift, misled>>
    BY <1>6 DEF Snapshot, SnapshotCall, SkipScan, VerifyIdentity, ServeListing
  <2>2. \A p \in Proc : pc'[p] \in {"canary", "walk"} => pc'[p] = pc[p]
    BY <1>6 DEF Snapshot, SnapshotCall, SkipScan, VerifyIdentity, ServeListing,
                ReturnFrom, Goto, IndexInv, TypeOK
  <2> QED
    BY <1>1, <2>1, <2>2, QuietStep
<1>7. CASE Unmount
  BY <1>1, <1>7, UnmountStep
<1>8. CASE Remount
  BY <1>1, <1>8, QuietStep DEF Remount
<1>9. CASE UNCHANGED vars
  BY <1>1, <1>9, QuietStep DEF vars
<1> QED
  BY <1>2, <1>3, <1>4, <1>5, <1>6, <1>7, <1>8, <1>9 DEF Next, Environment

LEMMA IndexInitial == Init => IndexInv
<1> SUFFICES ASSUME Init PROVE IndexInv
  OBVIOUS
<1>1. TypeOK
  BY TypeInductive
<1>2. WalkShape /\ WriterShape /\ WalkKnows
  BY Sentinels DEF Init, WalkShape, WriterShape, WalkKnows
<1>3. AwayIsNoticed
  BY DEF Init, AwayIsNoticed
<1> QED
  BY <1>1, <1>2, <1>3 DEF Init, IndexInv, CompleteIndexOmitsNothing, NeverRolledBack

(* A complete index omits no repository that is settled on disk, unless    *)
(* repos_path left under the walk it was made from.                        *)
THEOREM IndexIsFaithful ==
    Spec => []CompleteIndexOmitsNothing
<1>1. IndexInv /\ [Next]_vars => IndexInv'
  BY IndexInductive
<1>2. IndexInv => CompleteIndexOmitsNothing
  BY DEF IndexInv
<1> QED
  BY <1>1, <1>2, IndexInitial, PTL DEF Spec

(* No walk leaves a settled repository in the index at a head older than   *)
(* the one on disk, whatever was committed and announced while it passed.  *)
THEOREM NothingRolledBack ==
    Spec => []NeverRolledBack
<1>1. IndexInv /\ [Next]_vars => IndexInv'
  BY IndexInductive
<1>2. IndexInv => NeverRolledBack
  BY DEF IndexInv
<1> QED
  BY <1>1, <1>2, IndexInitial, PTL DEF Spec

(* A caller that is being answered while the store is in place, or whose   *)
(* identity check found it there, had it there during the call.            *)
PresenceSeen ==
    \A c \in Client :
        /\ pc[c] # "idle" /\ mounted => present[c]
        /\ pc[c] = "read" /\ intact[c] => present[c]

LEMMA PresenceInductive ==
    ASSUME TypeOK, PresenceSeen, [Next]_vars
    PROVE  PresenceSeen'
<1> USE DEF indexVars, storeVars, ghosts, PresenceSeen
<1>1. CASE \E r \in Repo : Commit(r) \/ DeleteTenant(r) \/ OutOfBand(r) \/ Announce(r)
  <2>1. UNCHANGED <<pc, mounted, intact, present>>
    BY <1>1 DEF Commit, DeleteTenant, OutOfBand, Announce, RecordHead, RemoveEntry
  <2> QED
    BY <2>1
<1>2. CASE Unmount
  BY <1>2 DEF Unmount
<1>3. CASE Remount
  BY <1>3 DEF Remount
<1>4. CASE RescanDue
  BY <1>4, Sentinels DEF RescanDue, Goto, TypeOK, Proc
<1>5. ASSUME NEW p \in Proc, Scan(p) PROVE PresenceSeen'
  <2>1. UNCHANGED <<mounted, intact, present>>
    BY <1>5 DEF Scan, StartScan, CheckCanary, Merge, Probe, ProbeUnreadable
  <2>2. \A q \in Proc : pc'[q] # pc[q] => pc[q] # "idle" /\ pc'[q] # "read"
    BY <1>5 DEF Scan, StartScan, CheckCanary, Merge, Probe, ProbeUnreadable, Goto, TypeOK
  <2> QED
    BY <2>1, <2>2 DEF Proc
<1>6. ASSUME NEW c \in Client, Snapshot(c) PROVE PresenceSeen'
  <2>1. CASE SnapshotCall(c)
    BY <2>1 DEF SnapshotCall, Goto, TypeOK, Proc
  <2>2. CASE SkipScan(c)
    BY <2>2 DEF SkipScan, Goto, TypeOK, Proc
  <2>3. CASE VerifyIdentity(c)
    BY <2>3 DEF VerifyIdentity, Goto, TypeOK, Proc
  <2>4. CASE ServeListing(c)
    BY <2>4 DEF ServeListing, ReturnFrom, Goto, TypeOK, Proc
  <2> QED
    BY <1>6, <2>1, <2>2, <2>3, <2>4 DEF Snapshot
<1>7. CASE UNCHANGED vars
  BY <1>7 DEF vars
<1> QED
  BY <1>1, <1>2, <1>3, <1>4, <1>5, <1>6, <1>7 DEF Next, Environment

(* A complete listing omits a settled repository only if the store left    *)
(* under the walk the index was made from and was back, or still there,    *)
(* while the listing was asked for: what a replica's deletions rest on.    *)
THEOREM ListingsAreVouchedFor ==
    Spec => CompleteListingsAreVouchedFor
<1> DEFINE Inv == IndexInv /\ PresenceSeen
           Vouched ==
      \A c \in Client :
          ServeListing(c) /\ served'.complete
          => \A r \in Repo : Omits(served', r) => misled /\ present[c]
<1>1. Init => Inv
  BY IndexInitial DEF Init, PresenceSeen, Proc
<1>2. Inv /\ [Next]_vars => Inv'
  BY IndexInductive, PresenceInductive DEF IndexInv
<1>3. Inv => Vouched
  <2> SUFFICES ASSUME Inv, NEW c \in Client, ServeListing(c), served'.complete,
                      NEW r \in Repo, Omits(served', r)
               PROVE  misled /\ present[c]
    OBVIOUS
  <2>1. /\ served'.complete = (complete /\ intact[c]) /\ pc[c] = "read"
        /\ served'.heads[r] = IF heads[r] = Null THEN Null ELSE heads[r].head
    BY DEF ServeListing
  <2>2. Settled(r) /\ store[r] # Null /\ served'.heads[r] = Null
    BY DEF Omits
  <2>3. heads[r] = Null
    BY <2>1, <2>2 DEF IndexInv, NeverRolledBack
  <2>4. misled
    BY <2>1, <2>2, <2>3 DEF IndexInv, CompleteIndexOmitsNothing
  <2>5. present[c]
    BY <2>1 DEF PresenceSeen
  <2> QED
    BY <2>4, <2>5
<1> QED
  BY <1>1, <1>2, <1>3, PTL DEF Spec, CompleteListingsAreVouchedFor

(* The index forgets a repository that is on disk only if it was changed,  *)
(* or the whole store left, under the walk that did not see it: a walk     *)
(* that found repos_path gone makes it forget nothing.                     *)
THEOREM NothingForgottenUnseen == Spec => ForgetsOnlyWhatLeft
<1> DEFINE Remembers ==
      \A r \in Repo :
          (heads[r] # Null /\ heads'[r] = Null /\ lock[r] = Free /\ store[r] # Null)
          => \E p \in Proc : r \in scan[p].dirty \/ scan[p].left
<1>1. IndexInv /\ [Next]_vars => IndexInv'
  BY IndexInductive
<1>2. IndexInv /\ [Next]_vars => Remembers
  <2> SUFFICES ASSUME IndexInv, [Next]_vars, NEW r \in Repo,
                      heads[r] # Null, heads'[r] = Null, lock[r] = Free, store[r] # Null
               PROVE  \E p \in Proc : r \in scan[p].dirty \/ scan[p].left
    OBVIOUS
  <2>1. PICK p \in Proc : Merge(p)
    <3>1. ASSUME NEW s \in Repo, RecordHead(s) PROVE FALSE
      <4>1. r = s
        BY <3>1 DEF RecordHead, IndexInv, TypeOK
      <4> QED
        BY <3>1, <4>1, Sentinels DEF RecordHead
    <3>2. ASSUME NEW s \in Repo, RemoveEntry(s) PROVE FALSE
      <4>1. r = s
        BY <3>2 DEF RemoveEntry, IndexInv, TypeOK
      <4> QED
        BY <3>2, <4>1, Sentinels DEF RemoveEntry
    <3>3. heads' = heads \/ (\E p \in Proc : Merge(p))
      <4> USE DEF indexVars, ghosts
      <4>1. CASE \E s \in Repo : Commit(s) \/ DeleteTenant(s)
        BY <4>1 DEF Commit, DeleteTenant
      <4>2. CASE Environment
        BY <4>2 DEF Environment, OutOfBand, Unmount, Remount
      <4>3. CASE RescanDue
        BY <4>3 DEF RescanDue
      <4>4. CASE \E p \in Proc : Scan(p)
        BY <4>4 DEF Scan, StartScan, CheckCanary, Probe, ProbeUnreadable
      <4>5. CASE \E c \in Client : Snapshot(c)
        BY <4>5 DEF Snapshot, SnapshotCall, SkipScan, VerifyIdentity, ServeListing
      <4>6. CASE UNCHANGED vars
        BY <4>6 DEF vars
      <4> QED
        BY <3>1, <3>2, <4>1, <4>2, <4>3, <4>4, <4>5, <4>6 DEF Next, Announce
    <3> QED
      BY <3>3
  <2>2. heads' = Merged(p, Whole(p)) /\ pc[p] = "walk" /\ scan[p].todo = {}
    BY <2>1 DEF Merge, Whole
  <2>3. ~AnnouncedSince(p, r) /\ scan[p].seen[r] = Null /\ Whole(p)
    <3>1. CASE AnnouncedSince(p, r)
      BY <2>2, <3>1 DEF Merged
    <3>2. CASE ~AnnouncedSince(p, r) /\ scan[p].seen[r] # Null
      <4>1. heads'[r] = [head |-> scan[p].seen[r], at |-> 0]
        BY <2>2, <3>2 DEF Merged
      <4>2. scan[p].seen[r] \in Nat
        BY <3>2 DEF IndexInv, TypeOK, Walk, Head
      <4> QED
        BY <4>1, <4>2, Sentinels
    <3>3. CASE ~AnnouncedSince(p, r) /\ scan[p].seen[r] = Null /\ ~Whole(p)
      BY <2>2, <3>3 DEF Merged
    <3> QED
      BY <3>1, <3>2, <3>3
  <2> QED
    BY <2>2, <2>3 DEF IndexInv, WalkKnows
<1> QED
  BY <1>1, <1>2, IndexInitial, PTL DEF Spec, ForgetsOnlyWhatLeft
=============================================================================
