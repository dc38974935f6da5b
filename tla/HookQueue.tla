------------------------------ MODULE HookQueue ------------------------------
(***************************************************************************)
(* The webhook queue of one tenant: what the write routes and the replay   *)
(* route put in it under the tenant's lock, and the one task that posts it *)
(* to the receiver, an event at a time, each retried until it is answered  *)
(* or given up.  The queue is in memory and a crash empties it.            *)
(***************************************************************************)
EXTENDS ContentTree

CONSTANTS
    Paths,      \* the paths requests name
    Orders,     \* the orders requests put at the root
    Attempts,   \* hooks.retry_attempts
    Chunk,      \* REPLAY_READ_CHUNK
    MaxCommits, MaxReplays, MaxLosses  \* bounds on commits, replays, losses

ASSUME QueueConstants ==
    /\ Paths \subseteq Seq(Name) \ {Root}
    /\ Orders \subseteq Seq(Name) \ {<<>>}
    /\ Attempts \in Nat \ {0} /\ Chunk \in Nat \ {0}
    /\ MaxCommits \in Nat /\ MaxReplays \in Nat /\ MaxLosses \in Nat

VARIABLES
    tree,       \* the tree of HEAD
    queue,      \* the jobs that wait
    work,       \* the job being delivered, or NoJob
    attempt,    \* failed attempts at its first event
    table,      \* what the receiver holds
    drift,      \* in which ways the receiver may be off (ghost)
    commits, replays, losses

vars == <<tree, queue, work, attempt, table, drift, commits, replays, losses>>

Files(t) == {p \in DOMAIN t : ~IsIndex(p)}
Visible(p) == \A i \in DOMAIN p : p[i] \notin HiddenName
Ordered(t) == {Parent(p) : p \in DOMAIN t \ Files(t)}

(* A job: the events that are resolved, and what a replay has still to     *)
(* read.  One that covers a whole side of the receiver mends it, if no     *)
(* event was lost since (ghosts).                                          *)
CommitJob(changes) ==
    [kind |-> "commit", events |-> Job(changes), paths |-> <<>>, dirs |-> <<>>,
     mends |-> {}, since |-> 0]
NoJob == [kind |-> "none"]

Init ==
    /\ tree = EmptyTree /\ table = NothingTold
    /\ queue = <<>> /\ work = NoJob /\ attempt = 0
    /\ drift = {}
    /\ commits = 0 /\ replays = 0 /\ losses = 0

-----------------------------------------------------------------------------
(* The routes.  A write commits and enqueues under the tenant's lock.      *)
Accept(edit) ==
    /\ commits < MaxCommits /\ Applies(edit, tree)
    /\ tree' = After(edit, tree)
    /\ queue' = Append(queue, CommitJob(edit.changes))
    /\ commits' = commits + 1
    /\ UNCHANGED <<work, attempt, table, drift, replays, losses>>

PutFile(p, c) ==
    CanWriteFile(tree, p) /\ ~WriteChangesNothing(tree, p, c) /\ Accept(WriteFile(tree, p, c))
RemoveFile(p) == CanDeleteFile(tree, p) /\ Accept(DeleteFile(tree, p))
Rename(p, q) == CanMoveFile(tree, p, q) /\ Accept(MoveFile(tree, p, q))
PutOrder(ns) ==
    /\ CanWriteOrder(tree, Root, ns, TRUE)
    /\ Canonical(tree, Root, ns) # StoredOrder(tree, Root)
    /\ Accept(WriteOrder(tree, Root, ns))

(* Mutant of Affected: what a listing hides counts as absent. *)
AffectedIfListed(direction, given, hidden) ==
    LET present == {p \in Files(tree) : hidden \/ Visible(p)}
        candidates == IF given THEN DOMAIN table.files ELSE present
    IN {p \in candidates : p \in present <=> direction = "create"}

(* replay_hook: git's side or the other of the list the caller gives, here *)
(* what the receiver holds, or of all git holds.                           *)
Affected(direction, given, hidden) ==
    LET present == {p \in Files(tree) : given \/ hidden \/ Visible(p)}
        candidates == IF given THEN DOMAIN table.files ELSE present
    IN {p \in candidates : p \in present <=> direction = "create"}

Replay(direction, given, hidden) ==
    LET paths == Affected(direction, given, hidden)
        dirs == {d \in Ordered(tree) : given \/ hidden \/ Visible(d)}
    IN /\ replays < MaxReplays
       /\ paths \cup dirs # {}
       /\ queue' = Append(queue,
             [kind |-> direction, events |-> <<>>,
              paths |-> SetToSeq(paths), dirs |-> SetToSeq(dirs),
              mends |-> IF direction = "create" /\ hidden /\ ~given THEN {"missing"}
                        ELSE IF direction = "delete" /\ given THEN {"extra"} ELSE {},
              since |-> losses])
       /\ replays' = replays + 1
       /\ UNCHANGED <<tree, work, attempt, table, drift, commits, losses>>

-----------------------------------------------------------------------------
(* The consumer *)

Take ==
    /\ work = NoJob /\ queue # <<>>
    /\ work' = Head(queue) /\ queue' = Tail(queue)
    /\ UNCHANGED <<tree, attempt, table, drift, commits, replays, losses>>

FirstOf(s) == SubSeq(s, 1, IF Len(s) < Chunk THEN Len(s) ELSE Chunk)
RestOf(s) == SubSeq(s, Len(FirstOf(s)) + 1, Len(s))

(* A chunk of a replay is read when its turn comes, from the HEAD of that  *)
(* moment; a path that is gone is skipped.                                 *)
ReadFiles ==
    LET chunk == FirstOf(work.paths)
        Told(p) == IF work.kind = "delete" THEN <<Deleted(p)>>
                   ELSE IF p \in Files(tree) THEN <<Created(p, tree[p])>> ELSE <<>>
    IN /\ work # NoJob /\ work.events = <<>> /\ work.paths # <<>>
       /\ work' = [work EXCEPT
             !.paths = RestOf(@),
             !.events = FlattenSeq([i \in DOMAIN chunk |-> Told(chunk[i])])]
       /\ UNCHANGED <<tree, queue, attempt, table, drift, commits, replays, losses>>

(* The orders come after all files.  Those that are gone are skipped.      *)
ReadOrders ==
    LET chunk == FirstOf(work.dirs)
        Told(d) == IF HasIndex(tree, d)
                   THEN OrderEvents(Updated(IndexPath(d), StoredOrder(tree, d))) ELSE <<>>
    IN /\ work # NoJob /\ work.events = <<>> /\ work.paths = <<>> /\ work.dirs # <<>>
       /\ work' = [work EXCEPT
             !.dirs = RestOf(@),
             !.events = FlattenSeq([i \in DOMAIN chunk |-> Told(chunk[i])])]
       /\ UNCHANGED <<tree, queue, attempt, table, drift, commits, replays, losses>>

Lose ==
    /\ losses < MaxLosses /\ losses' = losses + 1
    /\ drift' = {"missing", "extra"}

(* The repository cannot be read: the rest of the replay is given up.      *)
Abort ==
    /\ work # NoJob /\ work.events = <<>>
    /\ (work.paths # <<>> /\ work.kind = "create") \/ (work.paths = <<>> /\ work.dirs # <<>>)
    /\ Lose
    /\ work' = NoJob
    /\ UNCHANGED <<tree, queue, attempt, table, commits, replays>>

Sending == work # NoJob /\ work.events # <<>>
Applied == table' = Receive(table, Head(work.events))
Done == work' = [work EXCEPT !.events = Tail(@)]

(* Mutant of Delivered: the attempts of an event count for the next. *)
DeliveredKeepingCount ==
    /\ Sending /\ Applied /\ Done
    /\ UNCHANGED <<tree, queue, attempt, drift, commits, replays, losses>>

(* The receiver applies the event and answers. *)
Delivered ==
    /\ Sending /\ Applied /\ Done
    /\ attempt' = 0
    /\ UNCHANGED <<tree, queue, drift, commits, replays, losses>>

(* Mutant of Failed: no attempt is the last. *)
FailedNeverLast ==
    /\ Sending
    /\ Applied \/ UNCHANGED table
    /\ attempt' = (attempt + 1) % Attempts
    /\ UNCHANGED <<tree, queue, work, drift, commits, replays, losses>>

(* It refuses it, or its answer is lost: it is tried again, the last time  *)
(* given up.                                                               *)
Failed ==
    /\ Sending
    /\ Applied \/ UNCHANGED table
    /\ IF attempt + 1 < Attempts
       THEN attempt' = attempt + 1 /\ UNCHANGED <<work, drift, losses>>
       ELSE attempt' = 0 /\ Done /\ Lose
    /\ UNCHANGED <<tree, queue, commits, replays>>

EndJob ==
    /\ work # NoJob /\ work.events = <<>> /\ work.paths = <<>> /\ work.dirs = <<>>
    /\ work' = NoJob
    /\ drift' = IF work.since = losses THEN drift \ work.mends ELSE drift
    /\ UNCHANGED <<tree, queue, attempt, table, commits, replays, losses>>

(* The process stops: what it had not posted is lost, HEAD is not. *)
Crash ==
    /\ Lose
    /\ queue' = <<>> /\ work' = NoJob /\ attempt' = 0
    /\ UNCHANGED <<tree, table, commits, replays>>

-----------------------------------------------------------------------------
Consume == Take \/ ReadFiles \/ ReadOrders \/ Delivered \/ EndJob

Next ==
    \/ \E p \in Paths, c \in Content : PutFile(p, c)
    \/ \E p \in Paths : RemoveFile(p)
    \/ \E p, q \in Paths : Rename(p, q)
    \/ \E ns \in Orders : PutOrder(ns)
    \/ \E direction \in {"create", "delete"}, given, hidden \in BOOLEAN :
          Replay(direction, given, hidden)
    \/ Consume \/ Failed \/ Abort \/ Crash

(* The task runs while there is work: every post is answered or fails.     *)
Fairness == WF_vars(Consume \/ Failed)

Spec == Init /\ [][Next]_vars
FairSpec == Spec /\ Fairness

-----------------------------------------------------------------------------
TypeOK ==
    /\ WellFormed(tree)
    /\ work # NoJob => work.kind \in {"commit", "create", "delete"}
    /\ \A i \in DOMAIN queue : queue[i].kind = "commit" <=> queue[i].events # <<>>
    /\ attempt \in 0..(Attempts - 1)
    /\ attempt > 0 => Sending
    /\ drift \subseteq {"missing", "extra"}
    /\ commits \in 0..MaxCommits /\ replays \in 0..MaxReplays /\ losses \in 0..MaxLosses

Drained == work = NoJob /\ queue = <<>>

(* Once the queue is drained, the receiver holds every file and order of   *)
(* HEAD unless events were lost, and no file that HEAD does not have; a    *)
(* replay of all that git holds, none of it lost, mends the first, and one *)
(* of the deletions of what the receiver holds the second, whatever was    *)
(* written meanwhile.                                                      *)
ReceiverHoldsHead ==
    Drained =>
        /\ "missing" \notin drift =>
              /\ \A p \in Files(tree) : p \in DOMAIN table.files /\ table.files[p] = tree[p]
              /\ \A d \in Ordered(tree) :
                    d \in DOMAIN table.orders /\ table.orders[d] = StoredOrder(tree, d)
        /\ "extra" \notin drift => DOMAIN table.files \subseteq Files(tree)

(* A receiver that refuses what it is sent cannot hold up the queue.       *)
QueueDrains == []<>Drained
=============================================================================
