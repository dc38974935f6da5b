----------------------------- MODULE ContentTree -----------------------------
(***************************************************************************)
(* What the write operations of git.rs do to a commit's tree.              *)
(*                                                                         *)
(* A tree maps the path of each blob to the blob; a directory is a prefix  *)
(* of a path, as in git.  The order index of a directory is the blob named *)
(* Index in it, a sequence of entries.  Every operation is an edit: what   *)
(* it asks of TreeUpdateBuilder, of the files on disk, and the changes it  *)
(* hands to the hooks.                                                     *)
(*                                                                         *)
(* Names are numbers, so that they have an alphabetical order.             *)
(***************************************************************************)
EXTENDS Naturals, Sequences, FiniteSets, SequencesExt

CONSTANTS
    Name,       \* leaf names
    HiddenName, \* those that start with a dot
    Content,    \* contents of a file
    NoBlob      \* what a deletion carries

Index == 0      \* ".order.json"

ASSUME TreeConstants ==
    /\ Name \subseteq Nat \ {Index}
    /\ HiddenName \subseteq Name

Root == <<>>
EmptyTree == <<>>

(* f with what g says in the place of what f says. *)
Overlay(g, f) == [x \in DOMAIN g \cup DOMAIN f |-> IF x \in DOMAIN g THEN g[x] ELSE f[x]]
Only(x, v) == [y \in {x} |-> v]
With(f, x, v) == Overlay(Only(x, v), f)

(* An entry of an index: a leaf name, and the slash that marks a folder.   *)
Entry == [name : Name, folder : BOOLEAN]
Names(es) == {es[i].name : i \in DOMAIN es}

Parent(p) == Front(p)
Leaf(p) == Last(p)
Child(d, n) == Append(d, n)
IndexPath(d) == Child(d, Index)
IsIndex(p) == p # Root /\ Leaf(p) = Index

IsFile(t, p) == p \in DOMAIN t
IsFolder(t, p) == \E q \in DOMAIN t : IsStrictPrefix(p, q)
Exists(t, p) == IsFile(t, p) \/ IsFolder(t, p)
Subtree(t, d) == {q \in DOMAIN t : IsStrictPrefix(d, q)}

(* No blob stands where a directory does. *)
WellFormed(t) == \A p \in DOMAIN t : ~IsFolder(t, p)

HasIndex(t, d) == IsFile(t, IndexPath(d))
StoredOrder(t, d) == IF HasIndex(t, d) THEN t[IndexPath(d)] ELSE <<>>

-----------------------------------------------------------------------------
(* Edits *)

Created(p, b) == [kind |-> "created", path |-> p, from |-> p, blob |-> b]
Updated(p, b) == [kind |-> "updated", path |-> p, from |-> p, blob |-> b]
Deleted(p)    == [kind |-> "deleted", path |-> p, from |-> p, blob |-> NoBlob]
Moved(p, q, b) == [kind |-> "moved", path |-> q, from |-> p, blob |-> b]

(* WorkingTree::write, remove_file, remove_directory; a forced one does    *)
(* not ask whether the node keeps files on disk.                           *)
Mirror(do, p, b) == [do |-> do, path |-> p, blob |-> b, forced |-> FALSE]
DiskWrite(p, b) == Mirror("write", p, b)
DiskRemove(p) == Mirror("unlink", p, NoBlob)
DiskRemoveAll(p) == Mirror("rmdir", p, NoBlob)
Forced(command) == [command EXCEPT !.forced = TRUE]

NoEdit == [removed |-> {}, upserts |-> <<>>, disk |-> <<>>, changes |-> <<>>]

Then(e, f) == [removed |-> e.removed \cup f.removed,
               upserts |-> Overlay(f.upserts, e.upserts),
               disk    |-> e.disk \o f.disk,
               changes |-> e.changes \o f.changes]

Together(edits) ==
    LET first[n \in 0..Len(edits)] == IF n = 0 THEN NoEdit ELSE Then(first[n - 1], edits[n])
    IN first[Len(edits)]

PutAs(change) == [NoEdit EXCEPT !.upserts = Only(change.path, change.blob),
                                !.disk = <<DiskWrite(change.path, change.blob)>>,
                                !.changes = <<change>>]
Remove1(p) == [NoEdit EXCEPT !.removed = {p}, !.disk = <<DiskRemove(p)>>,
                             !.changes = <<Deleted(p)>>]

(* TreeUpdateBuilder::create_updated: what an edit asks of a tree is       *)
(* refused when it removes what is not there, puts a blob where a          *)
(* directory is, or under a blob: libgit2 looks every part of a path up in *)
(* the tree it starts from, whatever the same edit removes from it.        *)
Applies(e, t) ==
    /\ \A p \in e.removed : Exists(t, p)
    /\ \A p \in DOMAIN e.upserts :
          ~IsFolder(t, p) /\ \A q \in DOMAIN t : ~IsStrictPrefix(q, p)

After(e, t) ==
    Overlay(e.upserts, Restrict(t, {p \in DOMAIN t : \A r \in e.removed : ~IsPrefix(r, p)}))

-----------------------------------------------------------------------------
(* Order indexes *)

(* The elements of es to keep, in their order. *)
Keeping(es, Keep(_)) ==
    FlattenSeq([i \in DOMAIN es |-> IF Keep(es[i]) THEN <<es[i]>> ELSE <<>>])
Others(es, n) == Keeping(es, LAMBDA e : e.name # n)

EntryFor(t, d, n) == [name |-> n, folder |-> IsFolder(t, Child(d, n))]

(* Mutant of StageIndex: an index left with no entry is written empty. *)
StageEmptyIndex(t, d, es) ==
    PutAs(IF HasIndex(t, d) THEN Updated(IndexPath(d), es) ELSE Created(IndexPath(d), es))

(* stage_index: an index left with no entry is removed. *)
StageIndex(t, d, es) ==
    IF es = <<>> THEN Remove1(IndexPath(d))
    ELSE PutAs(IF HasIndex(t, d) THEN Updated(IndexPath(d), es)
                                 ELSE Created(IndexPath(d), es))

EntryRemoved(t, d, n) ==
    IF n \notin Names(StoredOrder(t, d)) THEN NoEdit
    ELSE StageIndex(t, d, Others(StoredOrder(t, d), n))

EntryAppended(t, d, e) ==
    IF ~HasIndex(t, d) \/ e.name \in Names(StoredOrder(t, d)) THEN NoEdit
    ELSE StageIndex(t, d, Append(StoredOrder(t, d), e))

(* Mutant of EntryRenamed: what is renamed goes to the tail. *)
EntryReappended(t, d, n, e) ==
    LET es == StoredOrder(t, d)
    IN IF n \notin Names(es) THEN NoEdit
       ELSE StageIndex(t, d, Append(Others(es, n), e))

(* In place, at the first entry that names it. *)
EntryRenamed(t, d, n, e) ==
    LET es == StoredOrder(t, d)
        at == SelectInSeq(es, LAMBDA x : x.name = n)
    IN IF n \notin Names(es) THEN NoEdit
       ELSE StageIndex(t, d, ReplaceAt(es, at, e))

(* order_rank: entries the index names come at their index, the others at  *)
(* implicit_order_default_index (0 for any below it), before a listed entry of the same index.  *)
RankBefore(es, implicit, e, f) ==
    LET Listed(x) == x.name \in Names(es)
        At(x) == IF Listed(x) THEN SelectInSeq(es, LAMBDA y : y.name = x.name) - 1
                              ELSE implicit
        Alphabetical == IF e.folder # f.folder THEN e.folder ELSE e.name < f.name
    IN \/ At(e) < At(f)
       \/ At(e) = At(f) /\ ~Listed(e) /\ Listed(f)
       \/ At(e) = At(f) /\ (Listed(e) <=> Listed(f)) /\ Alphabetical

(* The elements of S, each once, every one Before those that follow. *)
Sorted(S, Before(_, _)) ==
    CHOOSE es \in SetToSeqs(S) : \A i \in 2..Len(es) : Before(es[i - 1], es[i])

(* directory_entries, ranked: how a listing shows d, and what a reorder    *)
(* counts positions against.                                               *)
EntriesOf(t, d) == {EntryFor(t, d, n) : n \in {m \in Name : Exists(t, Child(d, m))}}

Materialized(t, d, implicit, hidden) ==
    LET es == StoredOrder(t, d)
        shown == {e \in EntriesOf(t, d) : \/ hidden \/ e.name \notin HiddenName
                                          \/ e.name \in Names(es)}
    IN Sorted(shown, LAMBDA e, f : RankBefore(es, implicit, e, f))

-----------------------------------------------------------------------------
(* Files and folders *)

CanWriteFile(t, p) == ~IsIndex(p) /\ ~IsFolder(t, p)
WriteChangesNothing(t, p, c) == IsFile(t, p) /\ t[p] = c
WriteFile(t, p, c) == PutAs(IF IsFile(t, p) THEN Updated(p, c) ELSE Created(p, c))

CanDeleteFile(t, p) == ~IsIndex(p) /\ IsFile(t, p)
DeleteFile(t, p) == Then(Remove1(p), EntryRemoved(t, Parent(p), Leaf(p)))

CanDeleteDirectory(t, d) == d # Root /\ IsFolder(t, d)
DeleteDirectory(t, d) ==
    Then([NoEdit EXCEPT !.removed = {d}, !.disk = <<DiskRemoveAll(d)>>,
                        !.changes = SetToSeq({Deleted(p) : p \in Subtree(t, d)})],
         EntryRemoved(t, Parent(d), Leaf(d)))

(* The indexes of the two parents, once what is called n in d is e in d2.  *)
EntryMoved(t, d, n, d2, e) ==
    IF d = d2 THEN EntryRenamed(t, d, n, e)
    ELSE Then(EntryRemoved(t, d, n), EntryAppended(t, d2, e))

CanMoveFile(t, p, q) ==
    /\ ~IsIndex(p) /\ ~IsIndex(q) /\ p # q
    /\ IsFile(t, p) /\ ~Exists(t, q)
MoveFile(t, p, q) ==
    Then([removed |-> {p}, upserts |-> Only(q, t[p]),
          disk |-> <<DiskRemove(p), DiskWrite(q, t[p])>>,
          changes |-> <<Moved(p, q, t[p])>>],
         EntryMoved(t, Parent(p), Leaf(p), Parent(q), [name |-> Leaf(q), folder |-> FALSE]))

CanMoveDirectory(t, d, q) ==
    /\ d # Root /\ ~IsPrefix(d, q)
    /\ IsFolder(t, d) /\ ~Exists(t, q)
MoveDirectory(t, d, q) ==
    LET To(p) == q \o SubSeq(p, Len(d) + 1, Len(p))
        files == SetToSeq(Subtree(t, d))
        at == {To(p) : p \in Subtree(t, d)}
        From(p) == d \o SubSeq(p, Len(q) + 1, Len(p))
    IN Then([removed |-> {d},
             upserts |-> [p \in at |-> t[From(p)]],
             disk    |-> Append([i \in DOMAIN files |-> DiskWrite(To(files[i]), t[files[i]])],
                                DiskRemoveAll(d)),
             changes |-> [i \in DOMAIN files |->
                             Moved(files[i], To(files[i]), t[files[i]])]],
            EntryMoved(t, Parent(d), Leaf(d), Parent(q), [name |-> Leaf(q), folder |-> TRUE]))

-----------------------------------------------------------------------------
(* Orders *)

(* write_order: names of what is there, each once, hidden ones on request. *)
CanWriteOrder(t, d, ns, hidden) ==
    /\ ns # <<>> /\ IsInjective(ns)
    /\ d = Root \/ IsFolder(t, d)
    /\ \A n \in Range(ns) : Exists(t, Child(d, n)) /\ (n \in HiddenName => hidden)
Canonical(t, d, ns) == [i \in DOMAIN ns |-> EntryFor(t, d, ns[i])]
WriteOrder(t, d, ns) == StageIndex(t, d, Canonical(t, d, ns))

(* reorder_entry: to a position, counted against the directory as shown    *)
(* and clamped to its tail, or out of the index.                           *)
CanReorder(t, p, folders) ==
    /\ ~IsIndex(p)
    /\ IsFile(t, p) \/ (folders /\ p # Root /\ IsFolder(t, p))
(* Mutant of Positioned: positions are counted against the index alone. *)
PositionedInIndex(t, p, position, implicit, hidden) ==
    LET rest == Others(StoredOrder(t, Parent(p)), Leaf(p))
        at == IF position < Len(rest) THEN position ELSE Len(rest)
    IN InsertAt(rest, at + 1, EntryFor(t, Parent(p), Leaf(p)))

Positioned(t, p, position, implicit, hidden) ==
    LET rest == Others(Materialized(t, Parent(p), implicit, hidden), Leaf(p))
        at == IF position < Len(rest) THEN position ELSE Len(rest)
    IN InsertAt(rest, at + 1, EntryFor(t, Parent(p), Leaf(p)))
Unlisted(t, p) == Others(StoredOrder(t, Parent(p)), Leaf(p))

CanDeleteOrder(t, d) == HasIndex(t, d)

-----------------------------------------------------------------------------
(* Commits *)

(* diff_tree_to_tree and find_similar: deletions and additions of equal    *)
(* blobs are paired as renames, similar ones may be.  An index is not      *)
(* taken for a file.                                                       *)
Gone(t, u) == DOMAIN t \ DOMAIN u
Pairable(p, q) == IsIndex(p) <=> IsIndex(q)
Renames(t, u) ==
    LET pairings == UNION {Injection(S, Gone(u, t)) : S \in SUBSET Gone(t, u)}
    IN {R \in pairings :
          /\ \A p \in DOMAIN R : Pairable(p, R[p])
          /\ \A p \in Gone(t, u), q \in Gone(u, t) :
                Pairable(p, q) /\ t[p] = u[q] => p \in DOMAIN R \/ q \in Range(R)}

Delta(status, old, new) == [status |-> status, old |-> old, new |-> new]
Deltas(t, u, R) ==
    LET renamed == DOMAIN R \cup Range(R)
    IN {Delta("added", p, p) : p \in Gone(u, t) \ renamed}
       \cup {Delta("deleted", p, p) : p \in Gone(t, u) \ renamed}
       \cup {Delta("modified", p, p) : p \in {q \in DOMAIN t \cap DOMAIN u : t[q] # u[q]}}
       \cup {Delta("renamed", p, R[p]) : p \in DOMAIN R}

(* Mutant of Undo: undoing a rename leaves the new path on the disk. *)
UndoKeepingCopy(t, d) ==
    CASE d.status = "added"    -> Remove1(d.new)
      [] d.status = "deleted"  -> PutAs(Created(d.old, t[d.old]))
      [] d.status = "modified" -> PutAs(Updated(d.old, t[d.old]))
      [] d.status = "renamed"  ->
            [removed |-> {d.new}, upserts |-> Only(d.old, t[d.old]),
             disk |-> <<DiskWrite(d.old, t[d.old])>>,
             changes |-> <<Moved(d.new, d.old, t[d.old])>>]

(* revert_commit: the inverse of each delta, from the parent's tree. *)
Undo(t, d) ==
    CASE d.status = "added"    -> Remove1(d.new)
      [] d.status = "deleted"  -> PutAs(Created(d.old, t[d.old]))
      [] d.status = "modified" -> PutAs(Updated(d.old, t[d.old]))
      [] d.status = "renamed"  ->
            [removed |-> {d.new}, upserts |-> Only(d.old, t[d.old]),
             disk |-> <<DiskRemove(d.new), DiskWrite(d.old, t[d.old])>>,
             changes |-> <<Moved(d.new, d.old, t[d.old])>>]

Revert(t, u, R) ==
    LET ds == SetToSeq(Deltas(t, u, R)) IN Together([i \in DOMAIN ds |-> Undo(t, ds[i])])

(* Mutant of RestorePath: a file changed since is left as it is. *)
RestorePathIfAbsent(head, u, p) ==
    IF ~IsFile(head, p) THEN PutAs(Created(p, u[p])) ELSE NoEdit

(* rollback_commit: each path the commit touched as the commit left it,    *)
(* where the head is not so already.                                       *)
RestorePath(head, u, p) ==
    IF ~IsFile(head, p) THEN PutAs(Created(p, u[p]))
    ELSE IF head[p] # u[p] THEN PutAs(Updated(p, u[p]))
    ELSE NoEdit

(* Mutant of RemovePath: a path is removed without asking whether HEAD has it. *)
RemovePathUnasked(head, p) == Remove1(p)

RemovePath(head, p) == IF IsFile(head, p) THEN Remove1(p) ELSE NoEdit

Redo(head, u, d) ==
    CASE d.status \in {"added", "modified"} -> RestorePath(head, u, d.new)
      [] d.status = "deleted" -> RemovePath(head, d.old)
      [] d.status = "renamed" ->
            IF IsFile(head, d.old) /\ ~IsFile(head, d.new)
            THEN [removed |-> {d.old}, upserts |-> Only(d.new, u[d.new]),
                  disk |-> <<Forced(DiskRemove(d.old)),
                             Forced(DiskWrite(d.new, u[d.new]))>>,
                  changes |-> <<Moved(d.old, d.new, u[d.new])>>]
            ELSE Then(RestorePath(head, u, d.new), RemovePath(head, d.old))

Rollback(head, t, u, R) ==
    LET ds == SetToSeq(Deltas(t, u, R)) IN Together([i \in DOMAIN ds |-> Redo(head, u, ds[i])])

-----------------------------------------------------------------------------
(* What a commit's changes become for the hooks: HookJob::new splits the   *)
(* changes of an index, told as the order of its directory, from those of  *)
(* files, and tells them last.                                             *)
FileEvents(changes) ==
    FlattenSeq([i \in DOMAIN changes |->
        IF IsIndex(changes[i].path) THEN <<>> ELSE <<changes[i]>>])

OrderEvents(c) ==
    LET updated == [kind |-> "order.updated", path |-> Parent(c.path),
                    from |-> Parent(c.path), blob |-> c.blob]
        dropped == [kind |-> "order.deleted", path |-> Parent(c.from),
                    from |-> Parent(c.from), blob |-> NoBlob]
    IN CASE c.kind = "deleted" -> <<dropped>>
         [] c.kind = "moved"   -> (IF IsIndex(c.from) THEN <<dropped>> ELSE <<>>) \o <<updated>>
         [] OTHER              -> <<updated>>

(* Mutant of Job: every change in the order it was made. *)
JobAsItComes(changes) ==
    FlattenSeq([i \in DOMAIN changes |->
        IF IsIndex(changes[i].path) THEN OrderEvents(changes[i]) ELSE <<changes[i]>>])

IndexEvents(changes) ==
    FlattenSeq([i \in DOMAIN changes |->
        IF IsIndex(changes[i].path) THEN OrderEvents(changes[i]) ELSE <<>>])

Job(changes) == FileEvents(changes) \o IndexEvents(changes)

(* The receiver the API describes: it keeps the files and the orders it is *)
(* told of, insert-or-replace.                                             *)
FileKinds == {"created", "updated", "deleted", "moved"}
NothingTold == [files |-> EmptyTree, orders |-> <<>>]
Without(f, x) == Restrict(f, DOMAIN f \ {x})

Receive(table, e) ==
    CASE e.kind \in {"created", "updated"} ->
            [table EXCEPT !.files = With(@, e.path, e.blob)]
      [] e.kind = "deleted" -> [table EXCEPT !.files = Without(@, e.path)]
      [] e.kind = "moved"   ->
            [table EXCEPT !.files = With(Without(@, e.from), e.path, e.blob)]
      [] e.kind = "order.updated" ->
            [table EXCEPT !.orders = With(@, e.path, e.blob)]
      [] e.kind = "order.deleted" -> [table EXCEPT !.orders = Without(@, e.path)]

Received(table, job) ==
    LET upTo[n \in 0..Len(job)] == IF n = 0 THEN table ELSE Receive(upTo[n - 1], job[n])
    IN upTo[Len(job)]

(* What a receiver that was told everything holds. *)
TableOf(t) ==
    LET files == {p \in DOMAIN t : ~IsIndex(p)}
        ordered == {Parent(p) : p \in DOMAIN t \ files}
    IN [files |-> Restrict(t, files), orders |-> [d \in ordered |-> t[IndexPath(d)]]]
=============================================================================
