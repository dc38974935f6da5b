---------------------------- MODULE FollowerProofs ----------------------------
(***************************************************************************)
(* Proofs about Follower, for any commit graph, any number of repositories *)
(* and any number of changes, faults and frames.                           *)
(*                                                                         *)
(* Five invariants, each on top of the types: TypeInv (what a task needs   *)
(* to be typed), WholeInv (what an import under way has and lacks),        *)
(* DeletionInv (where a deletion can be between its listing and its end),  *)
(* GateInv (where what the listing named can be until it has landed), and  *)
(* LockInv (what a store holds beyond its HEAD).                           *)
(***************************************************************************)
EXTENDS Follower, FiniteSetTheorems, TLAPS

Task == [step : {"none", "permit", "probe", "download", "import", "ref", "delete"},
         to : MaybeCommit, have : MaybeCommit, got : MaybeCommit,
         pack : SUBSET Commit]
Targets == [Repo -> Target]
Heads   == [Repo -> MaybeCommit]

(* A task that works for a head has one, and one that imports knows what.  *)
TaskShape ==
    \A r \in Repo :
        /\ task[r].step \in {"probe", "download", "import", "ref"} => task[r].to \in Commit
        /\ task[r].step \in {"import", "ref"} => task[r].got \in Commit

TypeInv == TypeOK /\ TaskShape

-----------------------------------------------------------------------------
(* Facts about the constants *)

(* What build_pack sends completes the history of its head, on top of the  *)
(* history of what the replica said it has.                                *)
LEMMA PackFacts ==
    ASSUME NEW c \in Commit, NEW h \in MaybeCommit, NEW pack \in Packs(c, h)
    PROVE  pack \subseteq Commit /\ Past[c] \subseteq pack \cup Reach(h)
<1>1. Past[c] \subseteq Commit
  BY History
<1>2. CASE h \in Reach(c)
  <2>1. h \in Commit /\ Reach(h) = Past[h] /\ Reach(c) = Past[c]
    BY <1>1, <1>2, History DEF Reach
  <2>2. pack = Past[c] \ Past[h]
    BY <1>2 DEF Packs
  <2> QED
    BY <2>1, <2>2, <1>1
<1>3. CASE h \notin Reach(c)
  <2>1. Reach(c) = Past[c]
    BY History DEF Reach
  <2>2. pack = Past[c] \ Reach(h) \/ pack = Past[c]
    BY <1>3, <2>1 DEF Packs
  <2> QED
    BY <2>2, <1>1
<1> QED
  BY <1>2, <1>3

LEMMA ReachFacts ==
    /\ \A h \in MaybeCommit : Reach(h) \subseteq Commit
    /\ \A h \in MaybeCommit : ChildrenOf(h) \subseteq Commit
    /\ Reach(None) = {}
    /\ \A c \in Commit : Reach(c) = Past[c]
  BY History DEF Reach, MaybeCommit, ChildrenOf

LEMMA SeqFacts ==
    ASSUME NEW S, NEW s \in Seq(S)
    PROVE  /\ <<>> \in Seq(S)
           /\ s # <<>> => Head(s) \in S /\ Tail(s) \in Seq(S)
           /\ \A x \in S : Append(s, x) \in Seq(S)
  OBVIOUS

LEMMA TargetFacts ==
    /\ Idle \in Target /\ Deleted \in Target /\ Idle # Deleted
    /\ \A c \in Commit : At(c) \in Target /\ At(c) # Deleted /\ At(c) # Idle
    /\ \A t \in Target : t.to \in MaybeCommit
    /\ \A t \in Target : t # Idle /\ t.to = None => t = Deleted
    /\ \A t \in Target : Queued(t) \in Task
    /\ NoTask \in Task
<1>1. Idle \in Target /\ Deleted \in Target /\ \A c \in Commit : At(c) \in Target
  BY DEF Target
<1>2. Idle # Deleted /\ \A c \in Commit : At(c) # Deleted /\ At(c) # Idle
  BY DEF Idle, Deleted, At
<1>3. \A c \in Commit : At(c).to = c /\ c # None
  BY History DEF At
<1>4. Idle.to = None /\ Deleted.to = None
  BY DEF Idle, Deleted
<1>5. \A t \in Target : t.to \in MaybeCommit
  BY <1>3, <1>4 DEF Target, MaybeCommit
<1>6. \A t \in Target : t # Idle /\ t.to = None => t = Deleted
  BY <1>3 DEF Target
<1>7. NoTask \in Task
  BY DEF NoTask, Task, MaybeCommit
<1>8. \A m \in MaybeCommit : [NoTask EXCEPT !.step = "permit", !.to = m] \in Task
  BY <1>7 DEF Task
<1>9. \A t \in Target : Queued(t) \in Task
  BY <1>5, <1>8 DEF Queued
<1> QED
  BY <1>1, <1>2, <1>5, <1>6, <1>7, <1>9

-----------------------------------------------------------------------------
LEMMA TypeInitial == Init => TypeInv
<1> SUFFICES ASSUME Init PROVE TypeInv
  OBVIOUS
<1>1. NoTargets \in Targets /\ NoTasks \in [Repo -> Task]
  BY TargetFacts DEF NoTargets, NoTasks, Targets
<1>2. up \in Heads /\ head \in Heads /\ NoLocks \in Heads
  BY DEF Init, Heads, NoLocks, MaybeCommit
<1>3. objects \in [Repo -> SUBSET Commit]
  BY <1>2, ReachFacts DEF Init, Heads
<1>4. NoListing \in [heads : Heads, whole : BOOLEAN, ours : BOOLEAN]
  BY DEF NoListing, MaybeCommit, Heads
<1>5. FreshPass \in [landed : BOOLEAN, failed : BOOLEAN]
  BY DEF FreshPass
<1>6. BootGate(head) \in [reconciled : BOOLEAN, stalled : 0..2, landed : BOOLEAN,
                          open : BOOLEAN]
  BY DEF BootGate
<1>7. <<>> \in Seq([repo : Repo, head : MaybeCommit])
  OBVIOUS
<1>8. TaskShape
  BY DEF Init, TaskShape, NoTasks, NoTask
<1> QED
  BY <1>1, <1>2, <1>3, <1>4, <1>5, <1>6, <1>7, <1>8
  DEF Init, TypeInv, TypeOK, Task, Targets, Heads

-----------------------------------------------------------------------------
(* How a sync ends: in each way its task, the pass, the lock and the       *)
(* target stay typed.                                                      *)
LEMMA SyncEnds ==
    ASSUME TypeInv, NEW r \in Repo,
           \/ Synced(r)
           \/ \E c \in MaybeCommit : Refuse(r, c)
           \/ Failed(r) /\ task[r].to \in Commit
    PROVE  /\ task' = [task EXCEPT ![r] = NoTask]
           /\ task' \in [Repo -> Task] /\ TaskShape'
           /\ pass' \in [landed : BOOLEAN, failed : BOOLEAN]
           /\ locked' \in Heads /\ pending' \in Targets
<1> USE DEF TypeInv, TypeOK, Task, Heads, Targets
<1>1. task' = [task EXCEPT ![r] = NoTask]
  BY DEF Synced, Refuse, Failed
<1>2. task' \in [Repo -> Task]
  BY <1>1, TargetFacts
<1>3. TaskShape'
  <2> SUFFICES ASSUME NEW q \in Repo
               PROVE  /\ task'[q].step \in {"probe", "download", "import", "ref"}
                            => task'[q].to \in Commit
                      /\ task'[q].step \in {"import", "ref"} => task'[q].got \in Commit
    BY DEF TaskShape
  <2>1. CASE q = r
    BY <1>1, <2>1 DEF NoTask
  <2>2. CASE q # r
    BY <1>1, <2>2 DEF TaskShape
  <2> QED
    BY <2>1, <2>2
<1>4. pass' \in [landed : BOOLEAN, failed : BOOLEAN]
  BY DEF Synced, Refuse, Failed
<1>5. locked' \in Heads
  BY DEF Synced, Refuse, Failed, MaybeCommit
<1>6. pending' \in Targets
  BY TargetFacts DEF Synced, Refuse, Failed
<1> QED
  BY <1>1, <1>2, <1>3, <1>4, <1>5, <1>6

(* A step of one task leaves the others alone. *)
LEMMA TaskSteps ==
    ASSUME TypeInv, NEW r \in Repo, NEW t \in Task, task' = [task EXCEPT ![r] = t],
           t.step \in {"probe", "download", "import", "ref"} => t.to \in Commit,
           t.step \in {"import", "ref"} => t.got \in Commit
    PROVE  task' \in [Repo -> Task] /\ TaskShape'
<1> USE DEF TypeInv, TypeOK, Task
<1>1. task' \in [Repo -> Task]
  OBVIOUS
<1>2. TaskShape'
  <2> SUFFICES ASSUME NEW q \in Repo
               PROVE  /\ task'[q].step \in {"probe", "download", "import", "ref"}
                            => task'[q].to \in Commit
                      /\ task'[q].step \in {"import", "ref"} => task'[q].got \in Commit
    BY DEF TaskShape
  <2>1. CASE q = r
    BY <2>1
  <2>2. CASE q # r
    BY <2>2 DEF TaskShape
  <2> QED
    BY <2>1, <2>2
<1> QED
  BY <1>1, <1>2

(* Every step of the upstream, the stream and the worker keeps the state   *)
(* well formed, and so does every step of a task.                          *)
LEMMA TypeSteps == TypeInv /\ [Next]_vars => TypeInv'
<1> SUFFICES ASSUME TypeInv, [Next]_vars PROVE TypeInv'
  OBVIOUS
<1> USE DEF TypeInv, TypeOK, upstreamVars, streamVars, diskVars, queueVars,
            workerVars, issueVars
<1>0. /\ pending \in Targets /\ batch \in Targets /\ locked \in Heads
      /\ head \in Heads /\ known \in Heads /\ up \in Heads /\ shown \in Heads
      /\ task \in [Repo -> Task]
  BY DEF Targets, Heads, Task
<1>a. ASSUME NEW kind, Fault(kind) PROVE faults' \in Nat
  BY <1>a DEF Fault
<1>b. ASSUME UNCHANGED task PROVE TaskShape'
  BY <1>b DEF TaskShape
<1>c. <<>> \in Seq([repo : Repo, head : MaybeCommit])
  BY SeqFacts
<1>d. ASSUME chan # <<>>
      PROVE  /\ Head(chan) \in [repo : Repo, head : MaybeCommit]
             /\ Tail(chan) \in Seq([repo : Repo, head : MaybeCommit])
  BY <1>d, SeqFacts
<1>e. ASSUME NEW r \in Repo
      PROVE  Append(chan, Frame(r, up[r])) \in Seq([repo : Repo, head : MaybeCommit])
  <2>1. Frame(r, up[r]) \in [repo : Repo, head : MaybeCommit]
    BY DEF Frame
  <2> QED
    BY <2>1, SeqFacts
<1>1. ASSUME NEW r \in Repo, CommitUpstream(r) PROVE TypeInv'
  BY <1>1, <1>b, ReachFacts DEF CommitUpstream, Change, MaybeCommit
<1>2. ASSUME NEW r \in Repo, DeleteUpstream(r) PROVE TypeInv'
  BY <1>2, <1>b DEF DeleteUpstream, Change, MaybeCommit
<1>3. ASSUME NEW r \in Repo, RestoreUpstream(r) PROVE TypeInv'
  BY <1>3, <1>b DEF RestoreUpstream, Change, MaybeCommit
<1>4. ASSUME NEW r \in Repo, Announce(r) PROVE TypeInv'
  <2>1. \/ chan' = Append(chan, Frame(r, up[r])) /\ connected' = connected
        \/ chan' = <<>> /\ connected' = FALSE
    BY <1>4 DEF Announce
  <2>2. chan' \in Seq([repo : Repo, head : MaybeCommit]) /\ connected' \in BOOLEAN
    BY <2>1, <1>c, <1>e
  <2>3. shown' \in Heads
    BY <1>4, <1>0 DEF Announce, Heads
  <2>4. UNCHANGED <<up, home, changes, diskVars, queueVars, workerVars,
                   issueVars, task, faults>>
    BY <1>4 DEF Announce
  <2> QED
    BY <2>2, <2>3, <2>4, <1>b DEF Heads
<1>5. ASSUME Swap PROVE TypeInv'
  <2>1. faults' \in Nat
    BY <1>5, <1>a DEF Swap
  <2>2. home' \in BOOLEAN /\ connected' \in BOOLEAN /\ chan' = <<>>
    BY <1>5 DEF Swap
  <2>3. UNCHANGED <<up, shown, changes, diskVars, queueVars, workerVars,
                    issueVars, task>>
    BY <1>5 DEF Swap
  <2> QED
    BY <2>1, <2>2, <2>3, <1>b, <1>c
<1>6. ASSUME Connect PROVE TypeInv'
  BY <1>6, <1>b DEF Connect, RequestFullReconcile
<1>7. ASSUME DropStream PROVE TypeInv'
  <2>1. faults' \in Nat
    BY <1>7, <1>a DEF DropStream
  <2>2. connected' \in BOOLEAN /\ chan' = <<>>
    BY <1>7 DEF DropStream
  <2>3. UNCHANGED <<upstreamVars, diskVars, queueVars, workerVars, issueVars, task>>
    BY <1>7 DEF DropStream
  <2> QED
    BY <2>1, <2>2, <2>3, <1>b, <1>c
<1>8. ASSUME HandleUpdated PROVE TypeInv'
  <2>1. Head(chan).head \in Commit
    BY <1>8, <1>d DEF HandleUpdated, MaybeCommit
  <2>2. pending' \in Targets
    BY <1>8, <1>d, <2>1, TargetFacts DEF HandleUpdated, Targets
  <2> QED
    BY <1>8, <1>d, <2>2, <1>b DEF HandleUpdated, Targets
<1>9. ASSUME HandleDeleted PROVE TypeInv'
  BY <1>9, <1>b, <1>d DEF HandleDeleted, RequestFullReconcile
<1>10. ASSUME BeginPass PROVE TypeInv'
  <2>1. pc' \in {"fetch", "drain"} /\ requested' \in BOOLEAN
    BY <1>10 DEF BeginPass
  <2>2. UNCHANGED <<upstreamVars, streamVars, diskVars, pending, wake, listing,
                    batch, pass, gate, issueVars, task, faults>>
    BY <1>10 DEF BeginPass
  <2> QED
    BY <2>1, <2>2, <1>b
<1>11. ASSUME FetchState PROVE TypeInv'
  <2>1. PICK omitted \in SUBSET Repo :
          /\ IF omitted = {} THEN UNCHANGED faults ELSE Fault("omit")
          /\ listing' = [heads |-> [r \in Repo |->
                                       IF r \in omitted THEN None
                                       ELSE IF home THEN shown[r] ELSE Foreign[r]],
                         whole |-> omitted = {},
                         ours  |-> home]
    BY <1>11 DEF FetchState
  <2>2. listing'.heads \in Heads
    BY <2>1, FollowerConstants DEF Heads, MaybeCommit
  <2>3. listing' \in [heads : Heads, whole : BOOLEAN, ours : BOOLEAN]
    <3> DEFINE H == [r \in Repo |-> IF r \in omitted THEN None
                                   ELSE IF home THEN shown[r] ELSE Foreign[r]]
    <3>1. listing' = [heads |-> H, whole |-> omitted = {}, ours |-> home]
      BY <2>1
    <3>2. H \in Heads
      BY <2>2, <3>1
    <3>3. home \in BOOLEAN
      OBVIOUS
    <3> HIDE DEF H
    <3> QED
      BY <3>1, <3>2, <3>3
  <2>4. faults' \in Nat
    BY <2>1, <1>a
  <2>5. pc' = "act"
    BY <1>11 DEF FetchState
  <2>6. UNCHANGED <<upstreamVars, streamVars, diskVars, queueVars, batch, pass,
                    gate, issueVars, task>>
    BY <1>11 DEF FetchState
  <2> QED
    BY <2>3, <2>4, <2>5, <2>6, <1>b DEF Heads
<1>12. ASSUME FetchStateFails PROVE TypeInv'
  BY <1>12, <1>a, <1>b DEF FetchStateFails
<1>13. ASSUME RefuseListing PROVE TypeInv'
  <2>1. /\ verified' = FALSE /\ requested' = TRUE /\ pc' = "drain"
        /\ UNCHANGED <<upstreamVars, streamVars, diskVars, pending, wake, listing,
                       batch, pass, gate, locked, refused, mayDelete, task, faults>>
    BY <1>13 DEF RefuseListing
  <2>2. TaskShape'
    BY <2>1, <1>b
  <2>3. verified' \in BOOLEAN /\ requested' \in BOOLEAN
    BY <2>1
  <2>4. pc' \in {"top", "fetch", "act", "drain", "sync", "idle"}
    BY <2>1
  <2> QED
    BY <2>1, <2>2, <2>3, <2>4
<1>14. ASSUME ActOnListing PROVE TypeInv'
  <2>1. listing.heads \in Heads
    BY DEF Heads
  <2>2. pending' \in Targets
    <3> SUFFICES ASSUME NEW r \in Repo
                 PROVE (IF Stale(r) THEN At(listing.heads[r])
                        ELSE IF listing.whole /\ ~MassDeletion /\ r \in Doomed
                        THEN Deleted ELSE pending[r]) \in Target
      BY <1>14 DEF ActOnListing, Targets
    <3>1. Stale(r) => At(listing.heads[r]) \in Target
      BY <2>1, TargetFacts DEF Stale, Differs, Heads, MaybeCommit
    <3> QED
      BY <3>1, <1>0, TargetFacts DEF Targets
  <2>3. locked' \in Heads /\ known' \in Heads
    BY <1>14, <1>0 DEF ActOnListing, Heads, MaybeCommit
  <2>4. mayDelete' \subseteq Repo
    BY <1>14 DEF ActOnListing, Justified
  <2>5. refused' \in BOOLEAN
    BY <1>14 DEF ActOnListing, MassDeletion
  <2>6. gate' \in [reconciled : BOOLEAN, stalled : 0..2, landed : BOOLEAN, open : BOOLEAN]
    BY <1>14 DEF ActOnListing
  <2> QED
    BY <1>14, <2>2, <2>3, <2>4, <2>5, <2>6, <1>b DEF ActOnListing, Targets, Heads
<1>15. ASSUME BeginDrain PROVE TypeInv'
  <2>1. batch' \in Targets
    BY <1>15, <1>0, TargetFacts DEF BeginDrain, NoTargets, Targets
  <2> QED
    BY <1>15, <2>1, <1>b DEF BeginDrain, FreshPass, Targets
<1>16. ASSUME NEW r \in Repo, StartSync(r) PROVE TypeInv'
  <2>1. pending' \in Targets /\ batch' \in Targets
    BY <1>16, <1>0, TargetFacts DEF StartSync, Targets
  <2>2. Queued(batch[r]) \in Task /\ Queued(batch[r]).step = "permit"
    BY TargetFacts DEF Queued, NoTask
  <2>3. task' = [task EXCEPT ![r] = Queued(batch[r])]
    BY <1>16 DEF StartSync
  <2>4. task' \in [Repo -> Task] /\ TaskShape'
    BY <2>2, <2>3, TaskSteps
  <2> QED
    BY <1>16, <2>1, <2>4 DEF StartSync, Targets, Task
<1>17. ASSUME EndPass PROVE TypeInv'
  <2>1. ASSUME NEW stalled \in 0..2, NEW landed \in BOOLEAN, NEW open \in BOOLEAN
        PROVE  [gate EXCEPT !.stalled = stalled, !.landed = landed, !.open = open]
               \in [reconciled : BOOLEAN, stalled : 0..2, landed : BOOLEAN, open : BOOLEAN]
    OBVIOUS
  <2>2. gate.stalled \in 0..2 /\ gate.landed \in BOOLEAN /\ gate.open \in BOOLEAN
        /\ pass.landed \in BOOLEAN
    OBVIOUS
  <2> DEFINE stuck   == pass.failed /\ ~pass.landed
             stalled == IF ~stuck THEN 0
                        ELSE IF gate.stalled = 2 THEN 2 ELSE gate.stalled + 1
             landed  == gate.landed \/ pass.landed
             empty   == \A r \in Repo : pending[r] = Idle
             open    == gate.open \/ (gate.reconciled
                                       /\ (empty \/ (stalled = 2 /\ landed)))
  <2>a. stalled \in 0..2 /\ landed \in BOOLEAN /\ open \in BOOLEAN
    BY <2>2
  <2>3. gate' = [gate EXCEPT !.stalled = stalled, !.landed = landed, !.open = open]
    BY <1>17 DEF EndPass
  <2> HIDE DEF stalled, landed, open
  <2>4. gate' \in [reconciled : BOOLEAN, stalled : 0..2, landed : BOOLEAN, open : BOOLEAN]
    BY <2>1, <2>a, <2>3
  <2>5. pc' \in {"top", "idle"}
        /\ UNCHANGED <<upstreamVars, streamVars, diskVars, queueVars, listing, batch,
                       pass, issueVars, task, faults>>
    BY <1>17 DEF EndPass
  <2> QED
    BY <2>4, <2>5, <1>b
<1>18. ASSUME Poll PROVE TypeInv'
  BY <1>18, <1>b DEF Poll
<1>19. ASSUME Woken PROVE TypeInv'
  <2>1. wake' \in BOOLEAN
    BY <1>19 DEF Woken
  <2>2. pc' = "top"
        /\ UNCHANGED <<upstreamVars, streamVars, diskVars, pending, requested,
                       listing, batch, pass, gate, issueVars, task, faults>>
    BY <1>19 DEF Woken
  <2> QED
    BY <2>1, <2>2, <1>b
<1>20. ASSUME Crash PROVE TypeInv'
  <2>1. NoTargets \in Targets /\ NoTasks \in [Repo -> Task] /\ NoLocks \in Heads
    BY TargetFacts DEF NoTargets, NoTasks, NoLocks, Targets, Heads, MaybeCommit
  <2>2. NoListing \in [heads : Heads, whole : BOOLEAN, ours : BOOLEAN]
    BY DEF NoListing, MaybeCommit, Heads
  <2>3. FreshPass \in [landed : BOOLEAN, failed : BOOLEAN]
    BY DEF FreshPass
  <2>4. BootGate(head) \in [reconciled : BOOLEAN, stalled : 0..2, landed : BOOLEAN,
                            open : BOOLEAN]
    BY DEF BootGate
  <2>5. TaskShape'
    BY <1>20 DEF Crash, TaskShape, NoTasks, NoTask
  <2> QED
    <3>1. faults' \in Nat
      BY <1>20, <1>a DEF Crash
    <3>2. /\ known' = head
          /\ pending' = NoTargets /\ batch' = NoTargets /\ task' = NoTasks
          /\ locked' = NoLocks /\ refused' = FALSE /\ verified' = FALSE
          /\ requested' = TRUE /\ wake' = FALSE
          /\ pc' = "top" /\ listing' = NoListing
          /\ pass' = FreshPass /\ gate' = BootGate(head)
          /\ mayDelete' = {}
          /\ connected' = FALSE /\ chan' = <<>>
          /\ UNCHANGED <<upstreamVars, objects, head>>
      BY <1>20 DEF Crash
    <3> QED
      BY <3>1, <3>2, <1>c, <2>1, <2>2, <2>3, <2>4, <2>5 DEF Targets, Heads, Task
<1>21. ASSUME Rescan PROVE TypeInv'
  BY <1>21, <1>b DEF Rescan
<1>22. ASSUME NEW r \in Repo, OperatorRemoves(r) PROVE TypeInv'
  BY <1>22, <1>a, <1>b DEF OperatorRemoves, MaybeCommit
<1>23. ASSUME NEW r \in Repo, Sync(r) PROVE TypeInv'
  <2> USE DEF taskFrame
  <2>t. task[r] \in Task
    BY <1>0
  <2>1. CASE Admit(r)
    <3> DEFINE t == [task[r] EXCEPT !.step = IF task[r].to = None THEN "delete" ELSE "probe"]
    <3>1. t \in Task /\ t.to = task[r].to /\ t.step \in {"delete", "probe"}
          /\ (t.step = "probe" => t.to # None)
      BY <2>t DEF Task
    <3>2. t.step = "probe" => t.to \in Commit
      BY <3>1 DEF Task, MaybeCommit
    <3>3. task' = [task EXCEPT ![r] = t]
      BY <2>1 DEF Admit
    <3>4. task' \in [Repo -> Task] /\ TaskShape'
      BY <3>1, <3>2, <3>3, TaskSteps
    <3> QED
      <4>1. UNCHANGED <<upstreamVars, streamVars, diskVars, queueVars, workerVars,
                        issueVars, faults>>
        BY <2>1 DEF Admit
      <4> QED
        BY <4>1, <3>4 DEF Task
  <2>2. CASE Probe(r)
    <3>0. task[r].to \in Commit
      BY <2>2 DEF Probe, TaskShape
    <3>1. CASE /\ task' = [task EXCEPT ![r].step = "download", ![r].have = head[r]]
               /\ UNCHANGED <<pass, locked, pending>>
      <4> DEFINE t == [task[r] EXCEPT !.step = "download", !.have = head[r]]
      <4>1. t \in Task /\ t.to = task[r].to /\ t.step = "download"
        BY <2>t DEF Task
      <4>2. task' = [task EXCEPT ![r] = t]
        BY <3>1, <1>0
      <4>3. task' \in [Repo -> Task] /\ TaskShape'
        BY <4>1, <4>2, <3>0, TaskSteps
      <4> QED
        BY <2>2, <3>1, <4>3 DEF Probe, Task
    <3>2. CASE Synced(r) \/ Refuse(r, task[r].to)
      <4>1. task[r].to \in MaybeCommit
        BY <3>0 DEF MaybeCommit
      <4> QED
        BY <2>2, <3>2, <4>1, SyncEnds DEF Probe, Task, Heads, Targets
    <3> QED
      BY <2>2, <3>1, <3>2 DEF Probe
  <2>3. CASE Download(r)
    <3>0. task[r].to \in Commit /\ task[r].have \in MaybeCommit
      BY <2>3, <2>t DEF Download, TaskShape, Task
    <3>1. Served(r) \in Commit
      <4>1. up[r] \in MaybeCommit /\ Foreign[r] \in MaybeCommit
        BY FollowerConstants DEF MaybeCommit
      <4>2. Served(r) \in MaybeCommit /\ Served(r) # None
        BY <2>3, <4>1 DEF Download, Served
      <4> QED
        BY <4>2 DEF MaybeCommit
    <3>2. PICK pack \in Packs(Served(r), task[r].have) :
             task' = [task EXCEPT ![r].step = "import", ![r].got = Served(r),
                                  ![r].pack = pack]
      BY <2>3 DEF Download
    <3> DEFINE t == [task[r] EXCEPT !.step = "import", !.got = Served(r), !.pack = pack]
    <3>3. t \in Task /\ t.to = task[r].to /\ t.got = Served(r)
      <4>1. pack \subseteq Commit /\ Served(r) \in MaybeCommit
        BY <3>0, <3>1, <3>2, PackFacts DEF MaybeCommit
      <4> QED
        BY <2>t, <4>1 DEF Task
    <3>4. task' = [task EXCEPT ![r] = t]
      BY <3>2, <1>0
    <3>5. task' \in [Repo -> Task] /\ TaskShape'
      BY <3>0, <3>1, <3>3, <3>4, TaskSteps
    <3> QED
      BY <2>3, <3>5 DEF Download, Task
  <2>4. CASE DownloadFails(r)
    <3>1. task[r].to \in Commit
      BY <2>4 DEF DownloadFails, TaskShape
    <3>2. faults' \in Nat
      BY <2>4, <1>a DEF DownloadFails
    <3> QED
      BY <2>4, <3>1, <3>2, SyncEnds DEF DownloadFails, Task, Heads, Targets
  <2>5. CASE ImportObjects(r)
    <3> DEFINE t == [task[r] EXCEPT !.step = "ref"]
    <3>1. t \in Task /\ t.to = task[r].to /\ t.got = task[r].got
      BY <2>t DEF Task
    <3>2. task[r].to \in Commit /\ task[r].got \in Commit
      BY <2>5 DEF ImportObjects, TaskShape
    <3>3. task' = [task EXCEPT ![r] = t]
      BY <2>5, <1>0 DEF ImportObjects
    <3>4. task' \in [Repo -> Task] /\ TaskShape'
      BY <3>1, <3>2, <3>3, TaskSteps
    <3>5. objects' \in [Repo -> SUBSET Commit]
      BY <2>5, <2>t DEF ImportObjects, Task
    <3> QED
      <4>1. UNCHANGED <<taskFrame, head, known, pass, locked, pending, faults>>
        BY <2>5 DEF ImportObjects
      <4> QED
        BY <3>4, <3>5, <4>1 DEF Task
  <2>6. CASE MoveRef(r)
    <3>1. task[r].got \in Commit
      BY <2>6 DEF MoveRef, TaskShape
    <3>2. head' \in Heads /\ known' \in Heads
      BY <2>6, <3>1, <1>0 DEF MoveRef, Heads, MaybeCommit
    <3>3. Synced(r) \/ Refuse(r, task[r].got)
      BY <2>6 DEF MoveRef
    <3> QED
      BY <2>6, <3>1, <3>2, <3>3, SyncEnds DEF MoveRef, MaybeCommit, Task, Heads, Targets
  <2>7. CASE MoveRefFails(r)
    <3>1. task[r].to \in Commit
      BY <2>7 DEF MoveRefFails, TaskShape
    <3>2. faults' \in Nat
      BY <2>7, <1>a DEF MoveRefFails
    <3> QED
      BY <2>7, <3>1, <3>2, SyncEnds DEF MoveRefFails, Task, Heads, Targets
  <2>8. CASE Clone(r)
    <3>1. task[r].got \in MaybeCommit /\ task[r].pack \subseteq Commit
      BY <2>t DEF Task
    <3>2. head' \in Heads /\ known' \in Heads /\ objects' \in [Repo -> SUBSET Commit]
      BY <2>8, <3>1, <1>0 DEF Clone, Heads
    <3> QED
      BY <2>8, <3>2, SyncEnds DEF Clone, Task, Heads, Targets
  <2>9. CASE CloneFails(r)
    <3>1. task[r].to \in Commit
      BY <2>9 DEF CloneFails, TaskShape
    <3>2. faults' \in Nat
      BY <2>9, <1>a DEF CloneFails
    <3> QED
      BY <2>9, <3>1, <3>2, SyncEnds DEF CloneFails, Task, Heads, Targets
  <2>10. CASE Delete(r)
    <3>1. task' \in [Repo -> Task] /\ TaskShape'
      BY <2>10, TaskSteps, TargetFacts DEF Delete, NoTask
    <3>2. head' \in Heads /\ known' \in Heads /\ objects' \in [Repo -> SUBSET Commit]
      BY <2>10, <1>0 DEF Delete, Heads, MaybeCommit
    <3>3. faults' \in Nat
      BY <2>10, <1>a DEF Delete
    <3>4. pass' \in [landed : BOOLEAN, failed : BOOLEAN]
      BY <2>10 DEF Delete
    <3> QED
      BY <2>10, <3>1, <3>2, <3>3, <3>4 DEF Delete, Task, Heads
  <2> QED
    BY <1>23, <2>1, <2>2, <2>3, <2>4, <2>5, <2>6, <2>7, <2>8, <2>9, <2>10 DEF Sync
<1>24. CASE UNCHANGED vars
  BY <1>24, <1>b DEF vars
<1> QED
  BY <1>1, <1>2, <1>3, <1>4, <1>5, <1>6, <1>7, <1>8, <1>9, <1>10, <1>11, <1>12,
     <1>13, <1>14, <1>15, <1>16, <1>17, <1>18, <1>19, <1>20, <1>21, <1>22, <1>23,
     <1>24
  DEF Next, Upstream, StreamTask, Worker, Reconcile

(* Every reachable state is typed, and a task that works for a head has    *)
(* one to work for.                                                        *)
THEOREM FollowerTypeCorrect == Spec => []TypeOK
<1>1. TypeInv => TypeOK
  BY DEF TypeInv
<1> QED
  BY <1>1, TypeInitial, TypeSteps, PTL DEF Spec

-----------------------------------------------------------------------------
(* A task under way started from the HEAD that is still there; what it     *)
(* downloaded, with what that HEAD reaches, is the whole history of the    *)
(* head it was served, and so is what is in the store once imported.       *)
WholeInv ==
    \A r \in Repo :
        /\ Reach(head[r]) \subseteq objects[r]
        /\ task[r].step \in {"download", "import", "ref"} => task[r].have = head[r]
        /\ task[r].step = "import"
              => Past[task[r].got] \subseteq task[r].pack \cup Reach(task[r].have)
        /\ task[r].step = "ref" => Past[task[r].got] \subseteq objects[r]

WholeAt(r) ==
    /\ Reach(head[r]) \subseteq objects[r]
    /\ task[r].step \in {"download", "import", "ref"} => task[r].have = head[r]
    /\ task[r].step = "import"
          => Past[task[r].got] \subseteq task[r].pack \cup Reach(task[r].have)
    /\ task[r].step = "ref" => Past[task[r].got] \subseteq objects[r]

LEMMA WholeSteps ==
    ASSUME TypeInv, WholeInv, [Next]_vars, "operator" \notin FaultKinds
    PROVE  WholeInv'
<1> USE DEF upstreamVars, streamVars, diskVars, queueVars, workerVars, issueVars
<1>0. /\ WholeInv <=> \A r \in Repo : WholeAt(r)
      /\ WholeInv' <=> \A r \in Repo : WholeAt(r)'
  BY DEF WholeInv, WholeAt
<1>t. task \in [Repo -> Task] /\ objects \in [Repo -> SUBSET Commit] /\ head \in Heads
  BY DEF TypeInv, TypeOK, Task, Heads
<1>1. CASE UNCHANGED <<objects, head, task>>
  BY <1>1 DEF WholeInv
<1>2. ASSUME NEW r \in Repo, StartSync(r) PROVE WholeInv'
  <2> SUFFICES ASSUME NEW q \in Repo PROVE WholeAt(q)'
    BY <1>0
  <2>1. task' = [task EXCEPT ![r] = Queued(batch[r])] /\ UNCHANGED <<objects, head>>
    BY <1>2 DEF StartSync
  <2>2. Queued(batch[r]).step = "permit"
    BY DEF Queued, NoTask
  <2> QED
    BY <1>0, <1>t, <2>1, <2>2 DEF WholeAt
<1>3. ASSUME Crash PROVE WholeInv'
  BY <1>3 DEF Crash, WholeInv, NoTasks, NoTask
<1>4. ASSUME NEW r \in Repo, Sync(r) PROVE WholeInv'
  <2> SUFFICES ASSUME NEW q \in Repo PROVE WholeAt(q)'
    BY <1>0
  <2>t. task[r] \in Task /\ WholeAt(q) /\ WholeAt(r)
    BY <1>t, <1>0
  <2>0. CASE UNCHANGED <<objects, head>> /\ task' = [task EXCEPT ![r] = NoTask]
    BY <2>0, <2>t, <1>t DEF WholeAt, NoTask
  <2>q. ASSUME head'[q] = head[q], objects'[q] = objects[q], task'[q] = task[q]
        PROVE  WholeAt(q)'
    BY <2>q, <2>t DEF WholeAt
  <2>r. ASSUME q = r, Reach(head'[r]) \subseteq objects'[r], task'[r] = NoTask
        PROVE  WholeAt(q)'
    BY <2>r DEF WholeAt, NoTask
  <2>1. CASE Admit(r)
    BY <2>1, <2>t, <1>t DEF Admit, WholeAt, Task
  <2>2. CASE Probe(r)
    <3>1. CASE task' = [task EXCEPT ![r].step = "download", ![r].have = head[r]]
      BY <2>2, <3>1, <2>t, <1>t DEF Probe, WholeAt, Task
    <3>2. CASE Synced(r) \/ Refuse(r, task[r].to)
      BY <2>0, <2>2, <3>2 DEF Probe, Synced, Refuse
    <3> QED
      BY <2>2, <3>1, <3>2 DEF Probe
  <2>3. CASE Download(r)
    <3>1. Served(r) \in Commit
      <4>1. up[r] \in MaybeCommit /\ Foreign[r] \in MaybeCommit
        BY FollowerConstants DEF MaybeCommit, TypeInv, TypeOK
      <4>2. Served(r) \in MaybeCommit /\ Served(r) # None
        BY <2>3, <4>1 DEF Download, Served
      <4> QED
        BY <4>2 DEF MaybeCommit
    <3>2. PICK pack \in Packs(Served(r), task[r].have) :
             task' = [task EXCEPT ![r].step = "import", ![r].got = Served(r),
                                  ![r].pack = pack]
      BY <2>3 DEF Download
    <3>3. Past[Served(r)] \subseteq pack \cup Reach(task[r].have)
      BY <2>t, <3>1, <3>2, PackFacts DEF Task
    <3>4. UNCHANGED <<objects, head>> /\ task[r].step = "download"
      BY <2>3 DEF Download
    <3> QED
      BY <2>t, <1>t, <3>2, <3>3, <3>4 DEF WholeAt, Task
  <2>4. CASE DownloadFails(r) \/ MoveRefFails(r) \/ CloneFails(r)
    BY <2>0, <2>4 DEF DownloadFails, MoveRefFails, CloneFails, Failed
  <2>5. CASE ImportObjects(r)
    <3>1. /\ objects' = [objects EXCEPT ![r] = @ \cup task[r].pack]
          /\ task' = [task EXCEPT ![r].step = "ref"]
          /\ head' = head /\ task[r].step = "import"
      BY <2>5 DEF ImportObjects
    <3>2. Past[task[r].got] \subseteq objects[r] \cup task[r].pack
      BY <3>1, <2>t DEF WholeAt
    <3> QED
      BY <2>t, <1>t, <3>1, <3>2 DEF WholeAt, Task
  <2>6. CASE MoveRef(r)
    <3>1. task' = [task EXCEPT ![r] = NoTask] /\ objects' = objects
          /\ task[r].step = "ref"
      BY <2>6 DEF MoveRef, Synced, Refuse
    <3>2. task[r].got \in Commit
      BY <3>1 DEF TypeInv, TaskShape
    <3>3. Reach(task[r].got) \subseteq objects[r]
      BY <3>1, <3>2, <2>t, ReachFacts DEF WholeAt
    <3>4. head' = head \/ head' = [head EXCEPT ![r] = task[r].got]
      BY <2>6 DEF MoveRef
    <3>5. task'[r] = NoTask /\ (q # r => task'[q] = task[q])
      BY <1>t, <3>1
    <3>6. Reach(head'[r]) \subseteq objects'[r] /\ (q # r => head'[q] = head[q])
      <4>1. CASE head' = head
        BY <4>1, <2>t, <3>1 DEF WholeAt
      <4>2. CASE head' = [head EXCEPT ![r] = task[r].got]
        <5>1. head'[r] = task[r].got /\ (q # r => head'[q] = head[q])
          BY <4>2, <1>t DEF Heads
        <5> QED
          BY <5>1, <3>1, <3>3
      <4> QED
        BY <3>4, <4>1, <4>2
    <3> QED
      BY <2>q, <2>r, <3>1, <3>5, <3>6
  <2>7. CASE Clone(r)
    <3>1. /\ objects' = [objects EXCEPT ![r] = task[r].pack]
          /\ head' = [head EXCEPT ![r] = task[r].got]
          /\ task' = [task EXCEPT ![r] = NoTask]
          /\ task[r].step = "import" /\ head[r] = None
      BY <2>7 DEF Clone, Synced
    <3>2. task[r].got \in Commit
      BY <3>1 DEF TypeInv, TaskShape
    <3>3. Reach(task[r].got) \subseteq task[r].pack
      BY <3>1, <3>2, <2>t, ReachFacts DEF WholeAt
    <3>4. head'[r] = task[r].got /\ objects'[r] = task[r].pack /\ task'[r] = NoTask
      BY <1>t, <3>1 DEF Heads
    <3>5. Reach(head'[r]) \subseteq objects'[r]
      BY <3>3, <3>4
    <3>6. q # r => head'[q] = head[q] /\ objects'[q] = objects[q] /\ task'[q] = task[q]
      BY <1>t, <3>1
    <3> QED
      BY <2>q, <2>r, <3>4, <3>5, <3>6
  <2>8. CASE Delete(r)
    <3>1. task' = [task EXCEPT ![r] = NoTask]
      BY <2>8 DEF Delete
    <3>2. \/ UNCHANGED <<objects, head>>
          \/ /\ head' = [head EXCEPT ![r] = None]
             /\ objects' = [objects EXCEPT ![r] = {}]
      BY <2>8 DEF Delete
    <3>3. task'[r] = NoTask
      BY <1>t, <3>1
    <3>4. Reach(head'[r]) \subseteq objects'[r]
      <4>1. CASE UNCHANGED <<objects, head>>
        BY <4>1, <2>t DEF WholeAt
      <4>2. CASE head' = [head EXCEPT ![r] = None]
        BY <4>2, <1>t, ReachFacts DEF Heads
      <4> QED
        BY <3>2, <4>1, <4>2
    <3>5. q # r => head'[q] = head[q] /\ objects'[q] = objects[q] /\ task'[q] = task[q]
      <4>1. q # r => task'[q] = task[q]
        BY <1>t, <3>1
      <4>2. q # r => head'[q] = head[q] /\ objects'[q] = objects[q]
        BY <1>t, <3>2 DEF Heads
      <4> QED
        BY <4>1, <4>2
    <3> QED
      BY <2>q, <2>r, <3>3, <3>4, <3>5
  <2> QED
    BY <1>4, <2>1, <2>2, <2>3, <2>4, <2>5, <2>6, <2>7, <2>8 DEF Sync
<1>5. ASSUME NEW r \in Repo, OperatorRemoves(r) PROVE FALSE
  BY <1>5 DEF OperatorRemoves, Fault
<1>6. ASSUME NEW r \in Repo, CommitUpstream(r) \/ DeleteUpstream(r)
                             \/ RestoreUpstream(r) \/ Announce(r)
      PROVE  WholeInv'
  BY <1>6, <1>1 DEF CommitUpstream, DeleteUpstream, RestoreUpstream, Announce
<1>7. CASE Swap \/ StreamTask \/ DropStream
  BY <1>7, <1>1 DEF Swap, StreamTask, Connect, DropStream, HandleUpdated, HandleDeleted
<1>8. CASE Reconcile \/ BeginDrain \/ EndPass \/ Poll \/ Woken \/ Rescan
  BY <1>8, <1>1 DEF Reconcile, BeginPass, FetchState, FetchStateFails, RefuseListing,
                    ActOnListing, BeginDrain, EndPass, Poll, Woken, Rescan
<1>9. CASE UNCHANGED vars
  BY <1>9, <1>1 DEF vars
<1> QED
  BY <1>2, <1>3, <1>4, <1>5, <1>6, <1>7, <1>8, <1>9
  DEF Next, Upstream, Worker

(* Whatever interrupts an import, what HEAD reaches is all there, as long  *)
(* as nobody removes a repository under a download.                        *)
THEOREM RepositoriesAreWhole ==
    ASSUME "operator" \notin FaultKinds
    PROVE  Spec => []HeadIsWhole
<1>1. Init => WholeInv
  <2> SUFFICES ASSUME Init PROVE WholeInv
    OBVIOUS
  <2>1. \A r \in Repo : objects[r] = Reach(head[r]) /\ task[r].step = "none"
    BY DEF Init, NoTasks, NoTask
  <2> QED
    BY <2>1 DEF WholeInv
<1>2. TypeInv /\ WholeInv /\ [Next]_vars => WholeInv'
  BY WholeSteps
<1>3. WholeInv => HeadIsWhole
  BY DEF WholeInv, HeadIsWhole
<1> QED
  BY <1>1, <1>2, <1>3, TypeInitial, TypeSteps, PTL DEF Spec

-----------------------------------------------------------------------------
(* With the replica's own master at the other end throughout, a deletion   *)
(* never outlives the pass whose listing queued it: it is taken up by the  *)
(* drain that follows, and that drain ends only when it is done.           *)
Resting == \A r \in Repo : batch[r] = Idle /\ task[r] = NoTask
TakenUp == \A r \in Repo :
    pending[r] = Deleted => \/ pc = "drain" /\ verified = TRUE
                            \/ pc = "sync" /\ batch[r] = Deleted
Deleting(r) == task[r].step = "delete" \/ (task[r].step = "permit" /\ task[r].to = None)
Warranted == \A r \in Repo :
    pending[r] = Deleted \/ batch[r] = Deleted \/ Deleting(r) => r \in mayDelete

DeletionInv ==
    /\ home = TRUE
    /\ pc = "act" => listing.ours = TRUE
    /\ pc # "sync" => Resting
    /\ TakenUp
    /\ Warranted

(* The code compares twice what is missing with what is held; Justified    *)
(* compares what is missing with the rest.                                 *)
LEMMA GuardFacts ==
    ASSUME listing.whole, ~MassDeletion PROVE Justified = Doomed
<1>1. IsFiniteSet(Held) /\ IsFiniteSet(Doomed)
  BY FollowerConstants, FS_Subset DEF Held, Doomed
<1>2. /\ Cardinality(Held) \in Nat /\ Cardinality(Doomed) \in Nat
      /\ Cardinality(Held \ Doomed) = Cardinality(Held) - Cardinality(Held \cap Doomed)
  BY <1>1, FS_CardinalityType, FS_Difference
<1>3. Held \cap Doomed = Doomed
  BY DEF Doomed
<1>4. Cardinality(Held \ Doomed) < Cardinality(Doomed)
      <=> Cardinality(Doomed) * 2 > Cardinality(Held)
  <2>1. \A h, d \in Nat : h - d < d <=> d * 2 > h
    OBVIOUS
  <2>2. Cardinality(Held \ Doomed) = Cardinality(Held) - Cardinality(Doomed)
    BY <1>2, <1>3
  <2> QED
    BY <1>2, <2>1, <2>2
<1>5. /\ {r \in Repo : known[r] # None} = Held
      /\ {r \in Repo : known[r] # None /\ listing.heads[r] = None} = Doomed
  BY DEF Held, Doomed
<1> QED
  BY <1>4, <1>5 DEF Justified, MassDeletion

LEMMA DeletionSteps ==
    ASSUME TypeInv, DeletionInv, [Next]_vars, "swap" \notin FaultKinds
    PROVE  DeletionInv'
<1> USE DEF upstreamVars, streamVars, diskVars, queueVars, workerVars, issueVars
<1>t. /\ task \in [Repo -> Task] /\ pending \in Targets /\ batch \in Targets
      /\ listing.heads \in Heads
  BY DEF TypeInv, TypeOK, Task, Heads, Targets
<1>0. NoTask.step = "none"
  BY DEF NoTask
<1>1. CASE UNCHANGED <<home, pc, listing, batch, task, pending, verified, mayDelete>>
  BY <1>1 DEF DeletionInv, Resting, TakenUp, Warranted, Deleting
<1>2. CASE Connect
  <2>1. verified' = TRUE /\ UNCHANGED <<home, pc, listing, batch, task, pending, mayDelete>>
    BY <1>2 DEF Connect, DeletionInv, RequestFullReconcile
  <2> QED
    BY <2>1 DEF DeletionInv, Resting, TakenUp, Warranted, Deleting
<1>3. CASE HandleUpdated
  <2>1. /\ Head(chan).head \in Commit
        /\ pending' = [pending EXCEPT ![Head(chan).repo] = At(Head(chan).head)]
    <3>1. Head(chan) \in [repo : Repo, head : MaybeCommit]
      BY <1>3, SeqFacts DEF HandleUpdated, TypeInv, TypeOK
    <3> QED
      BY <1>3, <3>1 DEF HandleUpdated, MaybeCommit
  <2>2. \A r \in Repo : pending'[r] = Deleted => pending[r] = Deleted
    BY <2>1, <1>t, TargetFacts DEF Targets
  <2>3. UNCHANGED <<home, pc, listing, batch, task, verified, mayDelete>>
    BY <1>3 DEF HandleUpdated
  <2> QED
    BY <2>2, <2>3 DEF DeletionInv, Resting, TakenUp, Warranted, Deleting
<1>4. CASE BeginPass \/ FetchState \/ FetchStateFails
  <2>1. /\ pc \in {"top", "fetch"} /\ pc' \in {"fetch", "act", "drain"}
        /\ UNCHANGED <<home, batch, task, pending, verified, mayDelete>>
    BY <1>4 DEF BeginPass, FetchState, FetchStateFails
  <2>2. pc' = "act" => listing'.ours = TRUE
    <3>1. CASE BeginPass \/ FetchStateFails
      BY <3>1 DEF BeginPass, FetchStateFails
    <3>2. CASE FetchState
      <4>1. listing'.ours = home
        BY <3>2 DEF FetchState
      <4> QED
        BY <4>1 DEF DeletionInv
    <3> QED
      BY <1>4, <3>1, <3>2
  <2> QED
    BY <2>1, <2>2 DEF DeletionInv, Resting, TakenUp, Warranted, Deleting
<1>5. CASE RefuseListing
  BY <1>5 DEF RefuseListing, DeletionInv
<1>6. CASE ActOnListing
  <2>1. /\ pc = "act" /\ pc' = "drain" /\ verified' = TRUE /\ mayDelete' = Justified
        /\ UNCHANGED <<home, listing, batch, task>>
    BY <1>6 DEF ActOnListing
  <2>2. Resting /\ \A r \in Repo : pending[r] # Deleted
    BY <2>1 DEF DeletionInv, TakenUp
  <2>3. ASSUME NEW r \in Repo, pending'[r] = Deleted PROVE r \in Justified
    <3>1. pending'[r] = IF Stale(r) THEN At(listing.heads[r])
                        ELSE IF listing.whole /\ ~MassDeletion /\ r \in Doomed
                        THEN Deleted ELSE pending[r]
      BY <1>6 DEF ActOnListing
    <3>2. Stale(r) => At(listing.heads[r]) # Deleted
      BY <1>t, TargetFacts DEF Stale, Differs, Heads, MaybeCommit
    <3>3. listing.whole /\ ~MassDeletion /\ r \in Doomed
      BY <2>2, <2>3, <3>1, <3>2
    <3> QED
      BY <3>3, GuardFacts
  <2>4. \A r \in Repo : batch[r] # Deleted /\ ~Deleting(r)
    BY <2>2, <1>0, TargetFacts DEF Resting, Deleting
  <2> QED
    BY <2>1, <2>2, <2>3, <2>4 DEF DeletionInv, Resting, TakenUp, Warranted, Deleting
<1>7. CASE BeginDrain
  <2>1. /\ pc = "drain" /\ pc' = "sync"
        /\ batch' = IF verified THEN pending ELSE NoTargets
        /\ UNCHANGED <<home, listing, task, pending, verified, mayDelete>>
    BY <1>7 DEF BeginDrain
  <2>2. \A r \in Repo : batch'[r] = Deleted <=> pending[r] = Deleted
    <3>1. CASE verified = TRUE
      BY <2>1, <3>1
    <3>2. CASE verified = FALSE
      BY <2>1, <3>2, TargetFacts DEF NoTargets, DeletionInv, TakenUp
    <3> QED
      BY <3>1, <3>2 DEF TypeInv, TypeOK
  <2> QED
    BY <2>1, <2>2 DEF DeletionInv, TakenUp, Warranted, Deleting
<1>8. ASSUME NEW r \in Repo, StartSync(r) PROVE DeletionInv'
  <2>1. /\ pc = "sync" /\ batch[r] # Idle
        /\ pending' = [pending EXCEPT ![r] = Idle]
        /\ batch' = [batch EXCEPT ![r] = Idle]
        /\ task' = [task EXCEPT ![r] = Queued(batch[r])]
        /\ UNCHANGED <<home, pc, listing, verified, mayDelete>>
    BY <1>8 DEF StartSync
  <2>2. ASSUME NEW q \in Repo, q # r
        PROVE  pending'[q] = pending[q] /\ batch'[q] = batch[q] /\ task'[q] = task[q]
    BY <2>1, <2>2, <1>t DEF Targets
  <2>3. pending'[r] = Idle /\ batch'[r] = Idle /\ task'[r] = Queued(batch[r])
    BY <2>1, <1>t DEF Targets
  <2>4. Queued(batch[r]).step = "permit" /\ Queued(batch[r]).to = batch[r].to
    BY DEF Queued, NoTask
  <2>5. Queued(batch[r]).to = None => batch[r] = Deleted
    BY <2>1, <2>4, <1>t, TargetFacts DEF Targets
  <2>6. TakenUp'
    BY <2>1, <2>2, <2>3, TargetFacts DEF TakenUp, DeletionInv
  <2>7. Warranted'
    <3> SUFFICES ASSUME NEW q \in Repo,
                        pending'[q] = Deleted \/ batch'[q] = Deleted \/ Deleting(q)'
                 PROVE  q \in mayDelete'
      BY DEF Warranted
    <3>1. CASE q = r
      BY <3>1, <2>1, <2>3, <2>4, <2>5, TargetFacts DEF Warranted, Deleting, DeletionInv
    <3>2. CASE q # r
      BY <3>2, <2>1, <2>2 DEF Warranted, Deleting, DeletionInv
    <3> QED
      BY <3>1, <3>2
  <2> QED
    BY <2>1, <2>6, <2>7 DEF DeletionInv
<1>9. ASSUME NEW r \in Repo, Sync(r) PROVE DeletionInv'
  <2> USE DEF taskFrame
  <2>1. UNCHANGED <<home, pc, listing, batch, verified, mayDelete>>
    BY <1>9 DEF Sync, Admit, Probe, Download, DownloadFails, ImportObjects, MoveRef,
                MoveRefFails, Clone, CloneFails, Delete
  <2>2. task[r].step # "none" /\ pc = "sync"
    <3>1. task[r].step # "none"
      BY <1>9 DEF Sync, Admit, Probe, Download, DownloadFails, ImportObjects, MoveRef,
                  MoveRefFails, Clone, CloneFails, Delete
    <3> QED
      BY <3>1, <1>0 DEF DeletionInv, Resting
  <2>3. \A q \in Repo : pending'[q] = Deleted => pending[q] = Deleted
    <3>1. CASE UNCHANGED pending
      BY <3>1
    <3>2. CASE Failed(r) /\ task[r].to \in Commit
      BY <3>2, <1>t, TargetFacts DEF Failed, Targets
    <3>3. UNCHANGED pending \/ Failed(r)
      BY <1>9 DEF Sync, Admit, Probe, Download, DownloadFails, ImportObjects, MoveRef,
                  MoveRefFails, Clone, CloneFails, Delete, Synced, Refuse
    <3>4. UNCHANGED pending \/ task[r].step \in {"probe", "download", "import", "ref"}
      BY <1>9 DEF Sync, Admit, Probe, Download, DownloadFails, ImportObjects, MoveRef,
                  MoveRefFails, Clone, CloneFails, Delete, Synced, Refuse
    <3> QED
      BY <3>1, <3>2, <3>3, <3>4 DEF TypeInv, TaskShape
  <2>4. \A q \in Repo : Deleting(q)' => Deleting(q)
    <3>1. CASE task' = [task EXCEPT ![r] = NoTask]
      BY <3>1, <1>0, <1>t DEF Deleting
    <3>2. CASE Admit(r)
      BY <3>2, <1>t DEF Admit, Deleting, Task
    <3>3. CASE Probe(r)
      BY <3>1, <3>3, <1>t DEF Probe, Synced, Refuse, Deleting, Task
    <3>4. CASE Download(r)
      BY <3>4, <1>t DEF Download, Deleting, Task
    <3>5. CASE ImportObjects(r)
      BY <3>5, <1>t DEF ImportObjects, Deleting, Task
    <3>6. CASE DownloadFails(r) \/ MoveRef(r) \/ MoveRefFails(r) \/ Clone(r)
               \/ CloneFails(r) \/ Delete(r)
      BY <3>1, <3>6 DEF DownloadFails, MoveRef, MoveRefFails, Clone, CloneFails, Delete,
                        Synced, Refuse, Failed
    <3> QED
      BY <1>9, <3>2, <3>3, <3>4, <3>5, <3>6 DEF Sync
  <2> QED
    BY <2>1, <2>2, <2>3, <2>4 DEF DeletionInv, TakenUp, Warranted
<1>10. CASE EndPass
  <2>1. /\ pc = "sync" /\ pc' \in {"top", "idle"} /\ Resting
        /\ UNCHANGED <<home, listing, batch, task, pending, verified, mayDelete>>
    BY <1>10 DEF EndPass, Resting
  <2>2. \A r \in Repo : pending[r] # Deleted
    BY <2>1, TargetFacts DEF DeletionInv, TakenUp, Resting
  <2> QED
    BY <2>1, <2>2 DEF DeletionInv, Resting, TakenUp, Warranted, Deleting
<1>11. CASE Poll \/ Woken
  <2>1. /\ pc = "idle" /\ pc' = "top"
        /\ UNCHANGED <<home, listing, batch, task, pending, verified, mayDelete>>
    BY <1>11 DEF Poll, Woken
  <2> QED
    BY <2>1 DEF DeletionInv, Resting, TakenUp, Warranted, Deleting
<1>12. CASE Crash
  <2>1. /\ pc' = "top" /\ home' = home /\ pending' = NoTargets /\ batch' = NoTargets
        /\ task' = NoTasks
    BY <1>12 DEF Crash
  <2>2. \A r \in Repo : pending'[r] = Idle /\ batch'[r] = Idle /\ task'[r] = NoTask
    BY <2>1 DEF NoTargets, NoTasks
  <2> QED
    BY <2>1, <2>2, <1>0, TargetFacts
    DEF DeletionInv, Resting, TakenUp, Warranted, Deleting
<1>13. Swap => FALSE
  BY DEF Swap, Fault, DeletionInv
<1>14. CASE DropStream \/ HandleDeleted \/ Rescan
  BY <1>14, <1>1 DEF DropStream, HandleDeleted, Rescan, RequestFullReconcile
<1>15. ASSUME NEW r \in Repo, CommitUpstream(r) \/ DeleteUpstream(r)
                              \/ RestoreUpstream(r) \/ Announce(r) \/ OperatorRemoves(r)
       PROVE  DeletionInv'
  BY <1>15, <1>1
  DEF CommitUpstream, DeleteUpstream, RestoreUpstream, Announce, OperatorRemoves
<1>16. CASE UNCHANGED vars
  BY <1>16, <1>1 DEF vars
<1> QED
  BY <1>2, <1>3, <1>4, <1>5, <1>6, <1>7, <1>8, <1>9, <1>10, <1>11, <1>12, <1>13,
     <1>14, <1>15, <1>16
  DEF Next, Upstream, StreamTask, Worker, Reconcile

LEMMA DeletionInitial == Init => DeletionInv
<1> SUFFICES ASSUME Init PROVE DeletionInv
  OBVIOUS
<1>1. \A r \in Repo : pending[r] = Idle /\ batch[r] = Idle /\ task[r] = NoTask
  BY DEF Init, NoTargets, NoTasks
<1>2. Resting
  BY <1>1 DEF Resting
<1>3. \A r \in Repo : pending[r] # Deleted /\ batch[r] # Deleted /\ ~Deleting(r)
  BY <1>1, TargetFacts DEF Deleting, NoTask
<1>4. TakenUp /\ Warranted
  BY <1>3 DEF TakenUp, Warranted
<1> QED
  BY <1>2, <1>4 DEF Init, DeletionInv

(* No hint, no incomplete and no earlier listing ever has a repository on  *)
(* its way to deletion, nor ever most of what is held.                     *)
THEOREM DeletionsFollowListings ==
    ASSUME "swap" \notin FaultKinds
    PROVE  Spec => []DeletionsAreJustified
<1>1. TypeInv /\ DeletionInv /\ [Next]_vars => DeletionInv'
  BY DeletionSteps
<1>2. DeletionInv => DeletionsAreJustified
  <2> SUFFICES ASSUME DeletionInv, NEW r \in OnTheirWayOut PROVE r \in mayDelete
    BY DEF DeletionsAreJustified
  <2>1. r \in Repo /\ (pending[r] = Deleted \/ batch[r] = Deleted \/ Deleting(r))
    BY DEF OnTheirWayOut, Deleting
  <2> QED
    BY <2>1 DEF DeletionInv, Warranted
<1> QED
  BY <1>1, <1>2, DeletionInitial, TypeInitial, TypeSteps, PTL DEF Spec

(* The no-wipe rule: a local HEAD only ever advances along its history, or *)
(* goes away in a deletion that a listing justified.                       *)
THEOREM NoWipe ==
    ASSUME "swap" \notin FaultKinds, "operator" \notin FaultKinds
    PROVE  Spec => HistoryOnlyGrows
<1> DEFINE Grows ==
      \A r \in Repo :
          head[r] # None /\ head'[r] # head[r]
          => \/ head'[r] # None /\ head[r] \in Past[head'[r]]
             \/ head'[r] = None /\ r \in mayDelete
<1>1. TypeInv /\ DeletionInv /\ [Next]_vars => DeletionInv'
  BY DeletionSteps
<1>2. TypeInv /\ DeletionInv /\ [Next]_vars => Grows
  <2> SUFFICES ASSUME TypeInv, DeletionInv, [Next]_vars PROVE Grows
    OBVIOUS
  <2> USE DEF upstreamVars, streamVars, diskVars, queueVars, workerVars, issueVars, taskFrame
  <2>t. head \in Heads
    BY DEF TypeInv, TypeOK, Heads
  <2>1. CASE UNCHANGED head
    BY <2>1
  <2>2. ASSUME NEW r \in Repo, MoveRef(r) PROVE Grows
    <3>1. task[r].got \in Commit /\ task[r].got # None
      BY <2>2, History DEF MoveRef, TypeInv, TaskShape
    <3>2. \/ head' = head
          \/ /\ head' = [head EXCEPT ![r] = task[r].got]
             /\ DescendsFrom(task[r].got, head[r])
      BY <2>2 DEF MoveRef
    <3> QED
      BY <3>1, <3>2, <2>t DEF DescendsFrom, Heads
  <2>3. ASSUME NEW r \in Repo, Clone(r) PROVE Grows
    BY <2>3, <2>t DEF Clone, Heads
  <2>4. ASSUME NEW r \in Repo, Delete(r) PROVE Grows
    <3>1. r \in mayDelete
      <4>1. Deleting(r)
        BY <2>4 DEF Delete, Deleting
      <4> QED
        BY <4>1 DEF DeletionInv, Warranted
    <3>2. head' = head \/ head' = [head EXCEPT ![r] = None]
      BY <2>4 DEF Delete
    <3> QED
      BY <3>1, <3>2, <2>t DEF Heads
  <2>5. ASSUME NEW r \in Repo, Sync(r) PROVE Grows
    BY <2>1, <2>2, <2>3, <2>4, <2>5
    DEF Sync, Admit, Probe, Download, DownloadFails, ImportObjects, MoveRefFails, CloneFails
  <2>6. ASSUME NEW r \in Repo, OperatorRemoves(r) PROVE FALSE
    BY <2>6 DEF OperatorRemoves, Fault
  <2>7. ASSUME NEW r \in Repo, CommitUpstream(r) \/ DeleteUpstream(r)
                               \/ RestoreUpstream(r) \/ Announce(r) \/ StartSync(r)
        PROVE  UNCHANGED head
    BY <2>7 DEF CommitUpstream, DeleteUpstream, RestoreUpstream, Announce, StartSync
  <2>8. CASE Swap \/ StreamTask \/ DropStream \/ Crash \/ Rescan
    BY <2>8, <2>1 DEF Swap, StreamTask, Connect, DropStream, HandleUpdated, HandleDeleted,
                      Crash, Rescan
  <2>9. CASE Reconcile \/ BeginDrain \/ EndPass \/ Poll \/ Woken
    BY <2>9, <2>1 DEF Reconcile, BeginPass, FetchState, FetchStateFails, RefuseListing,
                      ActOnListing, BeginDrain, EndPass, Poll, Woken
  <2>10. CASE UNCHANGED vars
    BY <2>10, <2>1 DEF vars
  <2> QED
    BY <2>1, <2>5, <2>6, <2>7, <2>8, <2>9, <2>10 DEF Next, Upstream, Worker
<1> QED
  BY <1>1, <1>2, DeletionInitial, TypeInitial, TypeSteps, PTL DEF Spec, HistoryOnlyGrows

-----------------------------------------------------------------------------
(* What a cold replica has heard of, it is still working on or has landed: *)
(* a target leaves the queue only into the batch, the batch only into a    *)
(* task, and a task ends with a HEAD, a place in the queue, or a deletion, *)
(* which the listing justified and so is of nothing it names.              *)
Landing(r) ==
    head[r] # None \/ pending[r] # Idle \/ batch[r] # Idle \/ task[r] # NoTask

GateInv ==
    /\ known = head
    /\ \A r \in Repo : task[r].step = "ref" => head[r] # None
    /\ pc # "act" => \A r \in Repo :
                        listing.heads[r] # None => Landing(r) /\ r \notin mayDelete

(* A sync that ends leaves its repository with a HEAD or in the queue,     *)
(* unless it was a deletion.                                               *)
LEMMA GateSyncs ==
    ASSUME TypeInv, GateInv, DeletionInv, NEW r \in Repo, Sync(r)
    PROVE  GateInv'
<1> USE DEF taskFrame, upstreamVars, streamVars, diskVars, queueVars, workerVars, issueVars
<1>t. /\ task \in [Repo -> Task] /\ pending \in Targets /\ batch \in Targets
      /\ head \in Heads /\ known \in Heads /\ task[r] \in Task
  BY DEF TypeInv, TypeOK, Task, Heads, Targets
<1>0. UNCHANGED <<pc, listing, batch, mayDelete>>
  BY DEF Sync, Admit, Probe, Download, DownloadFails, ImportObjects, MoveRef,
         MoveRefFails, Clone, CloneFails, Delete
<1>a. ASSUME head' = head, known' = known, task'[r] # NoTask, pending' = pending,
             task'[r].step = "ref" => head[r] # None,
             \A q \in Repo : q # r => task'[q] = task[q]
      PROVE  GateInv'
  BY <1>a, <1>0 DEF GateInv, Landing
<1>b. ASSUME known' = head', task' = [task EXCEPT ![r] = NoTask],
             \A q \in Repo : q # r => head'[q] = head[q] /\ pending'[q] = pending[q],
             listing.heads[r] # None /\ r \notin mayDelete
               => head'[r] # None \/ pending'[r] # Idle
      PROVE  GateInv'
  <2>1. task'[r] = NoTask /\ \A q \in Repo : q # r => task'[q] = task[q]
    BY <1>b, <1>t
  <2>2. NoTask.step = "none"
    BY DEF NoTask
  <2>3. ASSUME NEW q \in Repo, task'[q].step = "ref" PROVE head'[q] # None
    BY <1>b, <2>1, <2>2, <2>3 DEF GateInv
  <2>4. ASSUME NEW q \in Repo, pc' # "act", listing'.heads[q] # None
        PROVE  Landing(q)' /\ q \notin mayDelete'
    <3>1. Landing(q) /\ q \notin mayDelete /\ listing.heads[q] # None
      BY <1>0, <2>4 DEF GateInv
    <3>2. CASE q = r
      BY <1>b, <1>0, <3>1, <3>2 DEF Landing
    <3>3. CASE q # r
      BY <1>b, <1>0, <2>1, <3>1, <3>3 DEF Landing
    <3> QED
      BY <3>2, <3>3
  <2> QED
    BY <1>b, <2>3, <2>4 DEF GateInv
<1>f. ASSUME Failed(r), head' = head, known' = known PROVE GateInv'
  <2>1. pending'[r] # Idle
    <3>1. pending'[r] = At(task[r].to)
      BY <1>f, <1>t DEF Failed, Targets
    <3> QED
      BY <3>1 DEF At, Idle
  <2>2. task' = [task EXCEPT ![r] = NoTask]
        /\ \A q \in Repo : q # r => pending'[q] = pending[q]
    BY <1>f, <1>t DEF Failed, Targets
  <2> QED
    BY <1>b, <1>f, <2>1, <2>2 DEF GateInv
<1>k. ASSUME Synced(r) \/ (\E c \in MaybeCommit : Refuse(r, c)),
             head' = head, known' = known, head[r] # None
      PROVE  GateInv'
  <2>1. task' = [task EXCEPT ![r] = NoTask] /\ pending' = pending
    BY <1>k DEF Synced, Refuse
  <2> QED
    BY <1>b, <1>k, <2>1 DEF GateInv
<1>1. CASE Admit(r)
  <2>1. task' = [task EXCEPT ![r].step = IF task[r].to = None THEN "delete" ELSE "probe"]
        /\ UNCHANGED <<head, known, pending>>
    BY <1>1 DEF Admit
  <2>2. task'[r].step \in {"delete", "probe"} /\ \A q \in Repo : q # r => task'[q] = task[q]
    BY <2>1, <1>t DEF Task
  <2> QED
    BY <1>a, <2>1, <2>2 DEF NoTask
<1>2. CASE Probe(r)
  <2>1. CASE Related(r) = "unknown"
    <3>1. /\ task' = [task EXCEPT ![r].step = "download", ![r].have = head[r]]
          /\ UNCHANGED <<head, known, pending>>
      BY <1>2, <2>1 DEF Probe
    <3>2. task'[r].step = "download" /\ \A q \in Repo : q # r => task'[q] = task[q]
      BY <3>1, <1>t DEF Task
    <3>3. task'[r] # NoTask
      BY <3>2 DEF NoTask
    <3>4. UNCHANGED <<head, known, pending>>
      BY <3>1
    <3> QED
      BY <1>a, <3>2, <3>3, <3>4
  <2>2. CASE Related(r) # "unknown"
    <3>1. head[r] # None
      BY <2>2 DEF Related, Relation
    <3>2. Synced(r) \/ Refuse(r, task[r].to)
      BY <1>2, <2>2 DEF Probe
    <3>3. task[r].to \in MaybeCommit /\ UNCHANGED <<head, known>>
      BY <1>2, <1>t DEF Probe, Task
    <3> QED
      BY <1>k, <3>1, <3>2, <3>3
  <2> QED
    BY <2>1, <2>2
<1>3. CASE Download(r)
  <2>1. PICK pack \in Packs(Served(r), task[r].have) :
           task' = [task EXCEPT ![r].step = "import", ![r].got = Served(r),
                                ![r].pack = pack]
    BY <1>3 DEF Download
  <2>2. task'[r].step = "import" /\ \A q \in Repo : q # r => task'[q] = task[q]
    BY <2>1, <1>t DEF Task
  <2>3. UNCHANGED <<head, known, pending>>
    BY <1>3 DEF Download
  <2> QED
    BY <1>a, <2>2, <2>3 DEF NoTask
<1>4. CASE DownloadFails(r) \/ MoveRefFails(r) \/ CloneFails(r)
  BY <1>4, <1>f DEF DownloadFails, MoveRefFails, CloneFails
<1>5. CASE ImportObjects(r)
  <2>1. task' = [task EXCEPT ![r].step = "ref"] /\ head[r] # None
        /\ UNCHANGED <<head, known, pending>>
    BY <1>5 DEF ImportObjects
  <2>2. task'[r].step = "ref" /\ \A q \in Repo : q # r => task'[q] = task[q]
    BY <2>1, <1>t DEF Task
  <2> QED
    BY <1>a, <2>1, <2>2 DEF NoTask
<1>6. CASE MoveRef(r)
  <2>1. head[r] # None /\ task[r].got \in Commit /\ task[r].got \in MaybeCommit
    BY <1>6 DEF MoveRef, GateInv, TypeInv, TaskShape, MaybeCommit
  <2>2. CASE UNCHANGED <<head, known>>
    <3>1. Synced(r) \/ Refuse(r, task[r].got)
      BY <1>6 DEF MoveRef
    <3> QED
      BY <1>k, <2>1, <2>2, <3>1
  <2>3. CASE ~UNCHANGED <<head, known>>
    <3>1. /\ head' = [head EXCEPT ![r] = task[r].got]
          /\ known' = [known EXCEPT ![r] = task[r].got]
          /\ Synced(r)
      BY <1>6, <2>3 DEF MoveRef
    <3>2. task' = [task EXCEPT ![r] = NoTask] /\ pending' = pending
      BY <3>1 DEF Synced
    <3>3. head'[r] # None /\ \A q \in Repo : q # r => head'[q] = head[q]
      BY <2>1, <3>1, <1>t, History DEF Heads
    <3> QED
      BY <1>b, <3>1, <3>2, <3>3 DEF GateInv
  <2> QED
    BY <2>2, <2>3
<1>7. CASE Clone(r)
  <2>1. /\ head' = [head EXCEPT ![r] = task[r].got]
        /\ known' = [known EXCEPT ![r] = task[r].got]
        /\ Synced(r) /\ task[r].got \in Commit
    BY <1>7 DEF Clone, TypeInv, TaskShape
  <2>2. task' = [task EXCEPT ![r] = NoTask] /\ pending' = pending
    BY <2>1 DEF Synced
  <2>3. head'[r] # None /\ \A q \in Repo : q # r => head'[q] = head[q]
    BY <2>1, <1>t, History DEF Heads
  <2> QED
    BY <1>b, <2>1, <2>2, <2>3 DEF GateInv
<1>8. CASE Delete(r)
  <2>1. r \in mayDelete
    BY <1>8 DEF Delete, Deleting, DeletionInv, Warranted
  <2>2. task' = [task EXCEPT ![r] = NoTask] /\ pending' = pending
    BY <1>8 DEF Delete
  <2>3. \/ UNCHANGED <<head, known>>
        \/ head' = [head EXCEPT ![r] = None] /\ known' = [known EXCEPT ![r] = None]
    BY <1>8 DEF Delete
  <2>4. known' = head' /\ \A q \in Repo : q # r => head'[q] = head[q]
    BY <2>3, <1>t DEF GateInv, Heads
  <2> QED
    BY <1>b, <2>1, <2>2, <2>4
<1> QED
  BY <1>1, <1>2, <1>3, <1>4, <1>5, <1>6, <1>7, <1>8 DEF Sync

LEMMA GateSteps ==
    ASSUME TypeInv, GateInv, DeletionInv, [Next]_vars, "operator" \notin FaultKinds
    PROVE  GateInv'
<1> USE DEF upstreamVars, streamVars, diskVars, queueVars, workerVars, issueVars
<1>t. /\ task \in [Repo -> Task] /\ pending \in Targets /\ batch \in Targets
      /\ head \in Heads /\ known \in Heads /\ listing.heads \in Heads
  BY DEF TypeInv, TypeOK, Task, Heads, Targets
<1>1. CASE UNCHANGED <<head, known, pc, listing, pending, batch, task, mayDelete>>
  BY <1>1 DEF GateInv, Landing
<1>2. CASE HandleUpdated
  <2>1. /\ pending' = [pending EXCEPT ![Head(chan).repo] = At(Head(chan).head)]
        /\ UNCHANGED <<head, known, pc, listing, batch, task, mayDelete>>
    BY <1>2 DEF HandleUpdated
  <2>2. \A q \in Repo : pending[q] # Idle => pending'[q] # Idle
    BY <2>1, <1>t DEF Targets, At, Idle
  <2> QED
    BY <2>1, <2>2 DEF GateInv, Landing
<1>3. CASE BeginPass \/ FetchStateFails
  <2>1. /\ pc # "act" /\ UNCHANGED <<head, known, listing, pending, batch, task, mayDelete>>
    BY <1>3 DEF BeginPass, FetchStateFails
  <2> QED
    BY <2>1 DEF GateInv, Landing
<1>4. CASE FetchState
  <2>1. pc' = "act" /\ UNCHANGED <<head, known, task>>
    BY <1>4 DEF FetchState
  <2> QED
    BY <2>1 DEF GateInv
<1>5. CASE RefuseListing
  BY <1>5 DEF RefuseListing, DeletionInv
<1>6. CASE ActOnListing
  <2>1. UNCHANGED <<head, listing, task, batch>> /\ mayDelete' = Justified
    BY <1>6 DEF ActOnListing
  <2>2. known' = head'
    <3>1. known' = [r \in Repo |-> IF Removed(r) THEN None ELSE known[r]]
      BY <1>6 DEF ActOnListing
    <3>2. \A r \in Repo : Removed(r) => known[r] = None
      BY DEF Removed, GateInv
    <3> QED
      BY <2>1, <3>1, <3>2, <1>t DEF GateInv, Heads
  <2>3. ASSUME NEW r \in Repo, listing.heads[r] # None, head[r] = None
        PROVE  pending'[r] # Idle
    <3>1. Stale(r)
      BY <2>3 DEF Stale, Differs, GateInv
    <3>2. pending'[r] = At(listing.heads[r])
      BY <1>6, <3>1 DEF ActOnListing
    <3> QED
      BY <3>2 DEF At, Idle
  <2>4. \A r \in Repo : listing.heads[r] # None => r \notin Justified
    BY DEF Justified
  <2> QED
    BY <2>1, <2>2, <2>3, <2>4 DEF GateInv, Landing
<1>7. CASE BeginDrain
  <2>1. pc = "drain" /\ UNCHANGED <<head, known, listing, pending, task, mayDelete>>
    BY <1>7 DEF BeginDrain
  <2>2. \A r \in Repo : batch[r] = Idle
    BY <2>1 DEF DeletionInv, Resting
  <2> QED
    BY <2>1, <2>2 DEF GateInv, Landing
<1>8. ASSUME NEW r \in Repo, StartSync(r) PROVE GateInv'
  <2>1. /\ pending' = [pending EXCEPT ![r] = Idle]
        /\ batch' = [batch EXCEPT ![r] = Idle]
        /\ task' = [task EXCEPT ![r] = Queued(batch[r])]
        /\ UNCHANGED <<head, known, pc, listing, mayDelete>>
    BY <1>8 DEF StartSync
  <2>2. ASSUME NEW q \in Repo, q # r
        PROVE  pending'[q] = pending[q] /\ batch'[q] = batch[q] /\ task'[q] = task[q]
    BY <2>1, <2>2, <1>t DEF Targets
  <2>3. task'[r].step = "permit"
    BY <2>1, <1>t DEF Queued, NoTask
  <2>4. task'[r] # NoTask
    BY <2>3 DEF NoTask
  <2> QED
    BY <2>1, <2>2, <2>3, <2>4 DEF GateInv, Landing
<1>9. ASSUME NEW r \in Repo, Sync(r) PROVE GateInv'
  BY <1>9, GateSyncs
<1>10. CASE EndPass \/ Poll \/ Woken
  <2>1. /\ pc \in {"sync", "idle"}
        /\ UNCHANGED <<head, known, listing, pending, batch, task, mayDelete>>
    BY <1>10 DEF EndPass, Poll, Woken
  <2> QED
    BY <2>1 DEF GateInv, Landing
<1>11. CASE Crash
  <2>1. known' = head' /\ listing' = NoListing /\ task' = NoTasks
    BY <1>11 DEF Crash
  <2> QED
    BY <2>1 DEF GateInv, NoListing, NoTasks, NoTask
<1>12. CASE Rescan
  BY <1>12 DEF Rescan, GateInv
<1>13. CASE Swap \/ Connect \/ DropStream \/ HandleDeleted
  BY <1>13, <1>1 DEF Swap, Connect, DropStream, HandleDeleted, RequestFullReconcile
<1>14. ASSUME NEW r \in Repo, CommitUpstream(r) \/ DeleteUpstream(r)
                              \/ RestoreUpstream(r) \/ Announce(r)
       PROVE  GateInv'
  BY <1>14, <1>1 DEF CommitUpstream, DeleteUpstream, RestoreUpstream, Announce
<1>15. ASSUME NEW r \in Repo, OperatorRemoves(r) PROVE FALSE
  BY <1>15 DEF OperatorRemoves, Fault
<1>16. CASE UNCHANGED vars
  BY <1>16, <1>1 DEF vars
<1> QED
  BY <1>2, <1>3, <1>4, <1>5, <1>6, <1>7, <1>8, <1>9, <1>10, <1>11, <1>12, <1>13,
     <1>14, <1>15, <1>16
  DEF Next, Upstream, StreamTask, Worker, Reconcile

(* A cold replica that opens its gate because nothing is pending holds all *)
(* that the last listing named, as long as its own master answers and no   *)
(* operator removes a repository.                                          *)
THEOREM GateHolds ==
    ASSUME "swap" \notin FaultKinds, "operator" \notin FaultKinds
    PROVE  Spec => GateOpensCaughtUp
<1> DEFINE CaughtUp ==
      ~gate.open /\ gate'.open /\ gate'.stalled < 2 /\ ~Crash
      => \A r \in Repo : listing.heads[r] # None => head[r] # None
<1>1. Init => GateInv
  <2> SUFFICES ASSUME Init PROVE GateInv
    OBVIOUS
  <2>1. known = head /\ listing = NoListing /\ task = NoTasks
    BY DEF Init
  <2> QED
    BY <2>1 DEF GateInv, NoListing, NoTasks, NoTask
<1>2. TypeInv /\ GateInv /\ DeletionInv /\ [Next]_vars => GateInv'
  BY GateSteps
<1>3. TypeInv /\ DeletionInv /\ [Next]_vars => DeletionInv'
  BY DeletionSteps
<1>4. TypeInv /\ GateInv /\ [Next]_vars => CaughtUp
  <2> SUFFICES ASSUME TypeInv, GateInv, [Next]_vars, ~gate.open, gate'.open,
                      gate'.stalled < 2, ~Crash,
                      NEW r \in Repo, listing.heads[r] # None
               PROVE  head[r] # None
    OBVIOUS
  <2> USE DEF upstreamVars, streamVars, diskVars, queueVars, workerVars, issueVars, taskFrame
  <2>1. CASE EndPass
    <3>1. pc = "sync" /\ \A q \in Repo : batch[q] = Idle /\ task[q] = NoTask
      BY <2>1 DEF EndPass
    <3>2. \A q \in Repo : pending[q] = Idle
      <4> DEFINE stuck   == pass.failed /\ ~pass.landed
                 stalled == IF ~stuck THEN 0
                            ELSE IF gate.stalled = 2 THEN 2 ELSE gate.stalled + 1
                 landed  == gate.landed \/ pass.landed
                 empty   == \A q \in Repo : pending[q] = Idle
                 open    == gate.open \/ (gate.reconciled
                                           /\ (empty \/ (stalled = 2 /\ landed)))
      <4>1. gate' = [gate EXCEPT !.stalled = stalled, !.landed = landed, !.open = open]
        BY <2>1 DEF EndPass
      <4> HIDE DEF stalled, landed, open
      <4>2. gate'.stalled = stalled /\ gate'.open = open
        BY <4>1 DEF TypeInv, TypeOK
      <4>3. stalled # 2 /\ open
        BY <4>2
      <4> QED
        BY <4>3 DEF open
    <3> QED
      BY <3>1, <3>2 DEF GateInv, Landing
  <2>2. CASE ActOnListing
    BY <2>2 DEF ActOnListing, TypeInv, TypeOK
  <2>3. CASE UNCHANGED gate
    BY <2>3
  <2>4. ASSUME NEW q \in Repo, Sync(q) \/ StartSync(q) \/ CommitUpstream(q)
                               \/ DeleteUpstream(q) \/ RestoreUpstream(q)
                               \/ Announce(q) \/ OperatorRemoves(q)
        PROVE  UNCHANGED gate
    BY <2>4 DEF Sync, Admit, Probe, Download, DownloadFails, ImportObjects, MoveRef,
                MoveRefFails, Clone, CloneFails, Delete, StartSync, CommitUpstream,
                DeleteUpstream, RestoreUpstream, Announce, OperatorRemoves
  <2>5. CASE Swap \/ StreamTask \/ DropStream \/ Rescan
    BY <2>5, <2>3 DEF Swap, StreamTask, Connect, DropStream, HandleUpdated,
                      HandleDeleted, Rescan
  <2>6. CASE BeginPass \/ FetchState \/ FetchStateFails \/ RefuseListing
             \/ BeginDrain \/ Poll \/ Woken
    BY <2>6, <2>3 DEF BeginPass, FetchState, FetchStateFails, RefuseListing,
                      BeginDrain, Poll, Woken
  <2>7. CASE UNCHANGED vars
    BY <2>7, <2>3 DEF vars
  <2> QED
    BY <2>1, <2>2, <2>3, <2>4, <2>5, <2>6, <2>7 DEF Next, Upstream, Worker, Reconcile
<1> QED
  BY <1>1, <1>2, <1>3, <1>4, DeletionInitial, TypeInitial, TypeSteps, PTL
  DEF Spec, GateOpensCaughtUp

-----------------------------------------------------------------------------
(* Without a crash or a ref that cannot be written between the import of a *)
(* pack and the ref, nothing in a store is ahead of its HEAD but the pack  *)
(* an import under way has just put there, so a head the store already has *)
(* never fast-forwards it.                                                 *)
LockAt(r) ==
    /\ locked[r] # None /\ head[r] # None => head[r] \notin Past[locked[r]]
    /\ head[r] = None => objects[r] = {}
    /\ task[r].step \in {"import", "ref"} =>
          /\ task[r].pack \subseteq Past[task[r].got]
          /\ task[r].pack = {} \/ task[r].got \in task[r].pack
    /\ task[r].step = "ref" => head[r] # None /\ task[r].pack \subseteq objects[r]
    /\ head[r] # None =>
          \A c \in objects[r] : head[r] \in Past[c] =>
             c = head[r] \/ (task[r].step = "ref" /\ c \in task[r].pack)

LockInv == \A r \in Repo : LockAt(r)

(* A pass starts with no task left of the one before, and what it has      *)
(* started is no more in its batch.                                        *)
RestInv ==
    /\ pc # "sync" => Resting
    /\ \A r \in Repo : task[r] # NoTask => batch[r] = Idle

LEMMA RestSteps ==
    ASSUME TypeInv, RestInv, [Next]_vars
    PROVE  RestInv'
<1> USE DEF upstreamVars, streamVars, diskVars, queueVars, workerVars, issueVars
<1>t. task \in [Repo -> Task] /\ batch \in Targets
  BY DEF TypeInv, TypeOK, Task, Targets
<1>1. CASE UNCHANGED <<batch, task>> /\ (pc' # "sync" => pc # "sync" \/ Resting)
  BY <1>1 DEF RestInv, Resting
<1>2. ASSUME NEW r \in Repo, StartSync(r) PROVE RestInv'
  <2>1. /\ pc' = "sync" /\ batch' = [batch EXCEPT ![r] = Idle]
        /\ task' = [task EXCEPT ![r] = Queued(batch[r])]
    BY <1>2 DEF StartSync
  <2>2. \A q \in Repo : task'[q] # NoTask => batch'[q] = Idle
    BY <1>t, <2>1 DEF RestInv, Targets
  <2> QED
    BY <2>1, <2>2 DEF RestInv
<1>3. ASSUME NEW r \in Repo, Sync(r) PROVE RestInv'
  <2>1. task[r].step # "none" /\ UNCHANGED <<pc, batch>>
    BY <1>3 DEF Sync, Admit, Probe, Download, DownloadFails, ImportObjects, MoveRef,
                MoveRefFails, Clone, CloneFails, Delete, taskFrame
  <2>2. task[r] # NoTask
    BY <2>1 DEF NoTask
  <2>3. pc = "sync" /\ batch[r] = Idle
    BY <2>2 DEF RestInv, Resting
  <2>4. \E t : task' = [task EXCEPT ![r] = t]
    <3>1. CASE Admit(r) \/ Probe(r) \/ Download(r)
      BY <3>1, Zenon DEF Admit, Probe, Download, Synced, Refuse
    <3>2. CASE DownloadFails(r) \/ ImportObjects(r) \/ MoveRef(r) \/ MoveRefFails(r)
      BY <3>2, Zenon DEF DownloadFails, ImportObjects, MoveRef, MoveRefFails, Synced,
                         Refuse, Failed
    <3>3. CASE Clone(r) \/ CloneFails(r) \/ Delete(r)
      BY <3>3, Zenon DEF Clone, CloneFails, Delete, Synced, Failed
    <3> QED
      BY <1>3, <3>1, <3>2, <3>3 DEF Sync
  <2>5. \A q \in Repo : q # r => task'[q] = task[q]
    BY <1>t, <2>4
  <2> QED
    BY <2>1, <2>3, <2>5 DEF RestInv
<1>4. CASE Crash
  BY <1>4 DEF Crash, RestInv, Resting, NoTasks, NoTargets
<1>5. CASE Upstream \/ StreamTask \/ DropStream \/ Rescan \/ \E r \in Repo : OperatorRemoves(r)
  BY <1>5, <1>1 DEF Upstream, CommitUpstream, DeleteUpstream, RestoreUpstream, Announce,
                    Swap, StreamTask, Connect, HandleUpdated, HandleDeleted, DropStream,
                    Rescan, OperatorRemoves
<1>6. CASE Reconcile \/ EndPass \/ Poll \/ Woken
  BY <1>6, <1>1 DEF Reconcile, BeginPass, FetchState, FetchStateFails, RefuseListing,
                    ActOnListing, EndPass, Poll, Woken, Resting
<1>7. CASE BeginDrain
  BY <1>7 DEF BeginDrain, RestInv, Resting
<1>8. CASE UNCHANGED vars
  BY <1>8, <1>1 DEF vars
<1> QED
  BY <1>2, <1>3, <1>4, <1>5, <1>6, <1>7, <1>8 DEF Next, Worker

LEMMA PackEnds ==
    ASSUME NEW c \in Commit, NEW h \in MaybeCommit, NEW pack \in Packs(c, h)
    PROVE  pack \subseteq Past[c] /\ (pack = {} \/ c \in pack)
<1>1. c \in Past[c] /\ Past[c] \subseteq Commit
  BY History
<1>2. CASE h \in Reach(c)
  <2>1. h \in Past[c] /\ pack = Past[c] \ Past[h]
    BY <1>2, ReachFacts DEF Packs
  <2>2. CASE c \in Past[h]
    <3>1. Past[c] \subseteq Past[h]
      BY <1>1, <2>1, <2>2, History
    <3> QED
      BY <2>1, <3>1
  <2>3. CASE c \notin Past[h]
    BY <1>1, <2>1, <2>3
  <2> QED
    BY <2>2, <2>3
<1>3. CASE h \notin Reach(c)
  <2>1. pack = Past[c] \ Reach(h) \/ pack = Past[c]
    BY <1>3 DEF Packs
  <2>2. CASE c \in Reach(h)
    <3>1. h \in Commit /\ c \in Past[h]
      BY <2>2 DEF Reach, MaybeCommit
    <3>2. Past[c] \subseteq Past[h] /\ Reach(h) = Past[h]
      BY <3>1, History, ReachFacts
    <3> QED
      BY <1>1, <2>1, <3>2
  <2>3. CASE c \notin Reach(h)
    BY <1>1, <2>1, <2>3
  <2> QED
    BY <2>2, <2>3
<1> QED
  BY <1>2, <1>3

LEMMA LockSyncs ==
    ASSUME TypeInv, LockInv, NEW r \in Repo, Sync(r),
           "ref" \notin FaultKinds
    PROVE  LockInv'
<1>t. /\ task \in [Repo -> Task] /\ objects \in [Repo -> SUBSET Commit]
      /\ head \in Heads /\ locked \in Heads
  BY DEF TypeInv, TypeOK, Task, Heads
<1>r. task[r] \in Task /\ LockAt(r) /\ head[r] \in MaybeCommit /\ objects[r] \subseteq Commit
  BY <1>t DEF LockInv, Heads
<1>a. \A q \in Repo \ {r} :
         head'[q] = head[q] /\ objects'[q] = objects[q] /\ locked'[q] = locked[q]
         /\ task'[q] = task[q]
      => LockAt(q)'
  BY DEF LockInv, LockAt
<1>q. /\ \E t : task' = [task EXCEPT ![r] = t]
      /\ objects' = objects \/ \E S : objects' = [objects EXCEPT ![r] = S]
      /\ head' = head \/ \E h : head' = [head EXCEPT ![r] = h]
      /\ locked' = locked \/ \E h : locked' = [locked EXCEPT ![r] = h]
  <2>1. CASE Admit(r)
    BY <2>1, Zenon DEF Admit, diskVars, issueVars
  <2>2. CASE Probe(r)
    BY <2>2, Zenon DEF Probe, Synced, Refuse, diskVars
  <2>3. CASE Download(r) \/ DownloadFails(r)
    BY <2>3, Zenon DEF Download, DownloadFails, Failed, diskVars
  <2>4. CASE ImportObjects(r) \/ MoveRefFails(r) \/ CloneFails(r)
    BY <2>4, Zenon DEF ImportObjects, MoveRefFails, CloneFails, Failed, diskVars
  <2>5. CASE MoveRef(r)
    BY <2>5, Zenon DEF MoveRef, Synced, Refuse
  <2>6. CASE Clone(r) \/ Delete(r)
    BY <2>6, Zenon DEF Clone, Delete, Synced, diskVars
  <2> QED
    BY <2>1, <2>2, <2>3, <2>4, <2>5, <2>6 DEF Sync
<1>o. \A q \in Repo \ {r} : LockAt(q)'
  <2> SUFFICES ASSUME NEW q \in Repo, q # r PROVE LockAt(q)'
    OBVIOUS
  <2>1. /\ task'[q] = task[q] /\ objects'[q] = objects[q]
        /\ head'[q] = head[q] /\ locked'[q] = locked[q]
    BY <1>t, <1>q DEF Heads
  <2> QED
    BY <1>a, <2>1
<1>s. SUFFICES LockAt(r)'
  BY <1>o DEF LockInv
<1>n. ASSUME task'[r] = NoTask, UNCHANGED <<objects, head>>,
             \/ locked' = locked
             \/ locked' = [locked EXCEPT ![r] = None]
             \/ head[r] # None /\ \E c \in Commit :
                   head[r] \notin Past[c] /\ locked' = [locked EXCEPT ![r] = c],
             head[r] # None => \A c \in objects[r] : head[r] \in Past[c] => c = head[r]
      PROVE  LockAt(r)'
  <2>1. NoTask.step = "none"
    BY DEF NoTask
  <2>2. locked'[r] # None /\ head[r] # None => head[r] \notin Past[locked'[r]]
    BY <1>n, <1>r, <1>t DEF LockAt, Heads
  <2> QED
    BY <1>n, <1>r, <2>1, <2>2 DEF LockAt
<1>1. CASE Admit(r)
  <2>1. /\ UNCHANGED <<objects, head, locked>> /\ task[r].step = "permit"
        /\ task' = [task EXCEPT ![r].step = IF task[r].to = None THEN "delete" ELSE "probe"]
    BY <1>1 DEF Admit, diskVars, issueVars
  <2>2. task'[r].step \in {"delete", "probe"}
    BY <1>t, <1>r, <2>1 DEF Task
  <2> QED
    BY <1>r, <2>1, <2>2 DEF LockAt
<1>2. CASE Probe(r)
  <2>1. UNCHANGED <<objects, head>> /\ task[r].step = "probe" /\ task[r].to \in Commit
    BY <1>2 DEF Probe, diskVars, TypeInv, TaskShape
  <2>2. CASE Related(r) = "unknown"
    <3>1. /\ task' = [task EXCEPT ![r].step = "download", ![r].have = head[r]]
          /\ locked' = locked
      BY <1>2, <2>2 DEF Probe
    <3>2. task'[r].step = "download"
      BY <1>t, <1>r, <3>1 DEF Task
    <3> QED
      BY <1>r, <2>1, <3>1, <3>2 DEF LockAt
  <2>3. CASE Related(r) = "same"
    <3>1. Synced(r)
      BY <1>2, <2>3 DEF Probe
    <3> QED
      BY <1>n, <1>t, <1>r, <2>1, <3>1 DEF Synced, LockAt
  <2>4. CASE Related(r) \in {"ahead", "diverged"}
    <3>1. Refuse(r, task[r].to)
      BY <1>2, <2>4 DEF Probe
    <3>2. head[r] # None /\ task[r].to \in objects[r] /\ task[r].to # head[r]
      BY <2>4 DEF Related, Relation
    <3>3. head[r] \notin Past[task[r].to]
      BY <1>r, <2>1, <3>2 DEF LockAt
    <3>4. locked' = [locked EXCEPT ![r] = task[r].to] /\ task'[r] = NoTask
      BY <1>t, <3>1 DEF Refuse
    <3>5. \A c \in objects[r] : head[r] \in Past[c] => c = head[r]
      BY <1>r, <2>1, <3>2 DEF LockAt
    <3> QED
      BY <1>n, <2>1, <3>2, <3>3, <3>4, <3>5
  <2> QED
    BY <1>2, <2>2, <2>3, <2>4 DEF Probe
<1>3. CASE Download(r)
  <2>1. Served(r) \in Commit
    <3>1. up[r] \in MaybeCommit /\ Foreign[r] \in MaybeCommit
      BY FollowerConstants DEF MaybeCommit, TypeInv, TypeOK
    <3>2. Served(r) \in MaybeCommit /\ Served(r) # None
      BY <1>3, <3>1 DEF Download, Served
    <3> QED
      BY <3>2 DEF MaybeCommit
  <2>2. PICK pack \in Packs(Served(r), task[r].have) :
           task' = [task EXCEPT ![r].step = "import", ![r].got = Served(r),
                                ![r].pack = pack]
    BY <1>3 DEF Download
  <2>3. pack \subseteq Past[Served(r)] /\ (pack = {} \/ Served(r) \in pack)
    BY <1>r, <2>1, <2>2, PackEnds DEF Task
  <2>4. UNCHANGED <<objects, head, locked>> /\ task[r].step = "download"
    BY <1>3 DEF Download, diskVars
  <2>5. task'[r].step = "import" /\ task'[r].got = Served(r) /\ task'[r].pack = pack
    BY <1>t, <1>r, <2>2 DEF Task
  <2> QED
    BY <1>r, <2>3, <2>4, <2>5 DEF LockAt
<1>4. CASE DownloadFails(r) \/ CloneFails(r)
  <2>1. /\ task'[r] = NoTask /\ UNCHANGED <<objects, head, locked>>
        /\ task[r].step # "ref"
    BY <1>4, <1>t DEF DownloadFails, CloneFails, Failed, diskVars
  <2> QED
    BY <1>n, <1>r, <2>1 DEF LockAt
<1>5. CASE ImportObjects(r)
  <2>1. /\ objects' = [objects EXCEPT ![r] = @ \cup task[r].pack]
        /\ task' = [task EXCEPT ![r].step = "ref"]
        /\ UNCHANGED <<head, locked>> /\ task[r].step = "import" /\ head[r] # None
    BY <1>5 DEF ImportObjects
  <2>2. /\ objects'[r] = objects[r] \cup task[r].pack
        /\ task'[r].step = "ref" /\ task'[r].pack = task[r].pack
        /\ task'[r].got = task[r].got
    BY <1>t, <1>r, <2>1 DEF Task
  <2> QED
    BY <1>r, <2>1, <2>2 DEF LockAt
<1>6. CASE MoveRef(r)
  <2>1. /\ task[r].step = "ref" /\ task[r].got \in Commit /\ objects' = objects
        /\ task'[r] = NoTask
    BY <1>6, <1>t DEF MoveRef, Synced, Refuse, TypeInv, TaskShape
  <2>2. head[r] \in Commit /\ task[r].pack \subseteq Past[task[r].got]
    BY <1>r, <2>1 DEF LockAt, MaybeCommit
  <2>3. ASSUME NEW c \in objects[r], head[r] \in Past[c]
        PROVE  c = head[r] \/ (c \in Past[task[r].got] /\ head[r] \in Past[task[r].got])
    <3>1. CASE c \in task[r].pack
      <4>1. c \in Past[task[r].got]
        BY <2>2, <3>1
      <4> QED
        BY <2>1, <2>3, <4>1, History
    <3>2. CASE c \notin task[r].pack
      BY <1>r, <2>1, <2>2, <2>3, <3>2, History DEF LockAt
    <3> QED
      BY <3>1, <3>2
  <2>4. CASE head[r] = task[r].got
    <3>1. Synced(r) /\ UNCHANGED head
      BY <1>6, <2>4 DEF MoveRef
    <3>2. \A c \in objects[r] : head[r] \in Past[c] => c = head[r]
      BY <1>r, <2>2, <2>3, <2>4, History
    <3> QED
      BY <1>n, <2>1, <3>1, <3>2 DEF Synced
  <2>5. CASE head[r] # task[r].got /\ head[r] \notin Past[task[r].got]
    <3>1. Refuse(r, task[r].got) /\ UNCHANGED head
      BY <1>6, <2>5 DEF MoveRef, DescendsFrom
    <3>2. \A c \in objects[r] : head[r] \in Past[c] => c = head[r]
      BY <2>3, <2>5
    <3>3. head[r] # None /\ locked' = [locked EXCEPT ![r] = task[r].got]
      BY <1>r, <2>1, <3>1 DEF LockAt, Refuse
    <3> QED
      BY <1>n, <2>1, <2>5, <3>1, <3>2, <3>3
  <2>6. CASE head[r] # task[r].got /\ head[r] \in Past[task[r].got]
    <3>1. head' = [head EXCEPT ![r] = task[r].got] /\ Synced(r)
      BY <1>6, <2>6 DEF MoveRef, DescendsFrom
    <3>2. head'[r] = task[r].got /\ locked'[r] = None
      BY <1>t, <3>1 DEF Synced, Heads
    <3>3. ASSUME NEW c \in objects[r], task[r].got \in Past[c] PROVE c = task[r].got
      <4>1. c \in Commit /\ Past[task[r].got] \subseteq Past[c]
        BY <1>r, <3>3, History
      <4>2. c = head[r] \/ c \in Past[task[r].got]
        BY <2>3, <2>6, <4>1
      <4>3. c \in Past[task[r].got]
        BY <2>6, <4>2
      <4> QED
        BY <2>1, <3>3, <4>1, <4>3, History
    <3>4. NoTask.step = "none" /\ task[r].got # None
      BY <2>1, History DEF NoTask
    <3> QED
      BY <2>1, <3>2, <3>3, <3>4 DEF LockAt
  <2> QED
    BY <2>4, <2>5, <2>6
<1>7. CASE MoveRefFails(r)
  <2>1. /\ task'[r] = NoTask /\ UNCHANGED <<objects, head, locked>>
        /\ task[r].step = "ref" /\ task[r].got \notin objects[r]
    BY <1>7, <1>t DEF MoveRefFails, Failed, diskVars, Fault
  <2>2. task[r].pack = {}
    BY <1>r, <2>1 DEF LockAt
  <2> QED
    BY <1>n, <1>r, <2>1, <2>2 DEF LockAt
<1>8. CASE Clone(r)
  <2>1. /\ objects' = [objects EXCEPT ![r] = task[r].pack]
        /\ head' = [head EXCEPT ![r] = task[r].got]
        /\ Synced(r) /\ task[r].step = "import"
    BY <1>8 DEF Clone
  <2>2. /\ objects'[r] = task[r].pack /\ head'[r] = task[r].got
        /\ locked'[r] = None /\ task'[r] = NoTask
    BY <1>t, <2>1 DEF Synced, Heads
  <2>3. /\ task[r].got \in Commit /\ task[r].pack \subseteq Past[task[r].got]
        /\ task[r].pack \subseteq Commit
    BY <1>r, <2>1 DEF TypeInv, TaskShape, LockAt, Task
  <2>4. \A c \in task[r].pack : task[r].got \in Past[c] => c = task[r].got
    BY <2>3, History
  <2>5. NoTask.step = "none" /\ task[r].got # None
    BY <2>3, History DEF NoTask
  <2> QED
    BY <2>2, <2>4, <2>5 DEF LockAt
<1>9. CASE Delete(r)
  <2>1. task'[r] = NoTask /\ locked' = locked /\ task[r].step = "delete"
    BY <1>9, <1>t DEF Delete
  <2>2. CASE UNCHANGED <<objects, head>>
    BY <1>n, <1>r, <2>1, <2>2 DEF LockAt
  <2>3. CASE head' = [head EXCEPT ![r] = None] /\ objects' = [objects EXCEPT ![r] = {}]
    <3>1. head'[r] = None /\ objects'[r] = {} /\ NoTask.step = "none"
      BY <1>t, <2>3 DEF Heads, NoTask
    <3> QED
      BY <2>1, <3>1 DEF LockAt
  <2> QED
    BY <1>9, <2>2, <2>3 DEF Delete, diskVars
<1> QED
  BY <1>1, <1>2, <1>3, <1>4, <1>5, <1>6, <1>7, <1>8, <1>9 DEF Sync

LEMMA LockSteps ==
    ASSUME TypeInv, RestInv, LockInv, [Next]_vars,
           "crash" \notin FaultKinds, "ref" \notin FaultKinds
    PROVE  LockInv'
<1> USE DEF upstreamVars, streamVars, diskVars, queueVars, workerVars, issueVars
<1>t. /\ task \in [Repo -> Task] /\ objects \in [Repo -> SUBSET Commit]
      /\ head \in Heads /\ locked \in Heads
  BY DEF TypeInv, TypeOK, Task, Heads
<1>1. CASE UNCHANGED <<objects, head, locked, task>>
  BY <1>1 DEF LockInv, LockAt
<1>2. ASSUME NEW r \in Repo, StartSync(r) PROVE LockInv'
  <2> SUFFICES ASSUME NEW q \in Repo PROVE LockAt(q)'
    BY DEF LockInv
  <2>1. task' = [task EXCEPT ![r] = Queued(batch[r])] /\ UNCHANGED <<objects, head, locked>>
    BY <1>2 DEF StartSync
  <2>2. Queued(batch[r]).step = "permit" /\ task[r].step # "ref"
    <3>1. task[r] = NoTask
      BY <1>2 DEF StartSync, RestInv
    <3> QED
      BY <3>1 DEF Queued, NoTask
  <2>3. task'[q] = task[q] \/ (q = r /\ task'[q].step = "permit")
    BY <1>t, <2>1, <2>2
  <2> QED
    BY <2>1, <2>2, <2>3 DEF LockInv, LockAt
<1>3. ASSUME NEW r \in Repo, OperatorRemoves(r) PROVE LockInv'
  <2> SUFFICES ASSUME NEW q \in Repo PROVE LockAt(q)'
    BY DEF LockInv
  <2>1. /\ head' = [head EXCEPT ![r] = None] /\ objects' = [objects EXCEPT ![r] = {}]
        /\ UNCHANGED <<locked, task>> /\ task[r].step # "ref"
    BY <1>3 DEF OperatorRemoves
  <2>2. \/ q = r /\ head'[q] = None /\ objects'[q] = {}
        \/ q # r /\ head'[q] = head[q] /\ objects'[q] = objects[q]
    BY <1>t, <2>1 DEF Heads
  <2> QED
    BY <2>1, <2>2 DEF LockInv, LockAt
<1>4. ASSUME NEW r \in Repo, Sync(r) PROVE LockInv'
  BY <1>4, LockSyncs
<1>5. ASSUME Crash PROVE FALSE
  BY <1>5 DEF Crash, Fault
<1>6. ASSUME NEW r \in Repo, CommitUpstream(r) \/ DeleteUpstream(r)
                             \/ RestoreUpstream(r) \/ Announce(r)
      PROVE  LockInv'
  BY <1>6, <1>1 DEF CommitUpstream, DeleteUpstream, RestoreUpstream, Announce
<1>7. CASE Swap \/ StreamTask \/ DropStream
  BY <1>7, <1>1 DEF Swap, StreamTask, Connect, DropStream, HandleUpdated, HandleDeleted
<1>8. CASE Reconcile
  <2>1. CASE ActOnListing
    <3>1. /\ UNCHANGED <<objects, head, task>>
          /\ locked' = [r \in Repo |-> IF Removed(r) THEN None ELSE locked[r]]
      BY <2>1 DEF ActOnListing
    <3>2. \A r \in Repo : locked'[r] = locked[r] \/ locked'[r] = None
      BY <3>1
    <3> QED
      BY <3>1, <3>2 DEF LockInv, LockAt
  <2>2. CASE BeginPass \/ FetchState \/ FetchStateFails \/ RefuseListing
    BY <2>2, <1>1 DEF BeginPass, FetchState, FetchStateFails, RefuseListing
  <2> QED
    BY <1>8, <2>1, <2>2 DEF Reconcile
<1>9. CASE BeginDrain \/ EndPass \/ Poll \/ Woken \/ Rescan
  BY <1>9, <1>1 DEF BeginDrain, EndPass, Poll, Woken, Rescan
<1>10. CASE UNCHANGED vars
  BY <1>10, <1>1 DEF vars
<1> QED
  BY <1>2, <1>3, <1>4, <1>5, <1>6, <1>7, <1>8, <1>9, <1>10 DEF Next, Upstream, Worker

(* A repository is locked out only against a head that does not            *)
(* fast-forward what the replica holds, whatever the upstream, another     *)
(* master at its address and the operator do, as long as no import stops   *)
(* between its objects and its ref: the two faults left out are the ones   *)
(* that refute it.                                                         *)
THEOREM LocksAreEarned ==
    ASSUME "crash" \notin FaultKinds, "ref" \notin FaultKinds
    PROVE  Spec => []LocksAreNotFastForwards
<1>1. Init => LockInv
  <2> SUFFICES ASSUME Init, NEW r \in Repo PROVE LockAt(r)
    BY DEF LockInv
  <2>1. /\ objects[r] = Reach(head[r]) /\ task[r].step = "none" /\ locked[r] = None
        /\ head[r] \in MaybeCommit
    <3>1. head \in Heads
      BY DEF Init, Heads
    <3> QED
      BY <3>1 DEF Init, NoTasks, NoTask, NoLocks, Heads
  <2>2. CASE head[r] = None
    BY <2>1, <2>2, ReachFacts DEF LockAt
  <2>3. CASE head[r] \in Commit
    <3>1. objects[r] = Past[head[r]]
      BY <2>1, <2>3, ReachFacts
    <3>2. \A c \in objects[r] : head[r] \in Past[c] => c = head[r]
      BY <2>3, <3>1, History
    <3> QED
      BY <2>1, <2>3, <3>2, History DEF LockAt
  <2> QED
    BY <2>1, <2>2, <2>3 DEF MaybeCommit
<1>2. TypeInv /\ RestInv /\ LockInv /\ [Next]_vars => LockInv'
  BY LockSteps
<1>3. LockInv => LocksAreNotFastForwards
  BY DEF LockInv, LockAt, LocksAreNotFastForwards
<1>4. Init => RestInv
  BY DEF Init, NoTasks, NoTargets, RestInv, Resting
<1>5. TypeInv /\ RestInv /\ [Next]_vars => RestInv'
  BY RestSteps
<1> QED
  BY <1>1, <1>2, <1>3, <1>4, <1>5, TypeInitial, TypeSteps, PTL DEF Spec
=============================================================================
