---------------------------- MODULE TenantContent ----------------------------
(***************************************************************************)
(* The history of one tenant under the write routes, one write at a time   *)
(* as the tenant's lock has it: the commits, the files the node keeps on   *)
(* disk beside them, and what a receiver of the hooks ends up holding when *)
(* every event reaches it (HookQueue has how they do).                     *)
(***************************************************************************)
EXTENDS ContentTree

CONSTANTS
    Paths,      \* the paths requests name
    Orders,     \* the orders requests put
    Implicit,   \* values of implicit_order_default_index
    MaxCommits  \* bound on commits

ASSUME ContentConstants ==
    /\ Paths \subseteq Seq(Name) \ {Root}
    /\ Orders \subseteq Seq(Name) \ {<<>>}
    /\ Implicit \subseteq Nat
    /\ MaxCommits \in Nat \ {0}

VARIABLES
    history,    \* the trees of HEAD and its ancestors, the root commit first
    checkout,   \* server.checkout_files
    disk,       \* the files and the directories of the working tree
    torn,       \* an operation failed after it had begun on the disk (ghost)
    swept,      \* a revert took a whole folder for the file it removes (ghost)
    job,        \* the events of the last commit
    table,      \* what the receiver holds
    op          \* the last operation (ghost): on what, which entry, commit

vars == <<history, checkout, disk, torn, swept, job, table, op>>

Tip == Last(history)
Folders == {Root} \cup {Parent(p) : p \in Paths}

NoOp == [does |-> "nothing", path |-> Root, entry |-> Index, commit |-> 0,
         implicit |-> 0]
Op(does, p) == [NoOp EXCEPT !.does = does, !.path = p]

Init ==
    /\ history = <<EmptyTree>>
    /\ checkout \in BOOLEAN
    /\ disk = [files |-> EmptyTree, dirs |-> {}] /\ torn = FALSE /\ swept = FALSE
    /\ job = <<>> /\ table = NothingTold
    /\ op = NoOp

-----------------------------------------------------------------------------
(* The working tree *)

Ancestors(p) == Prefixes(p) \ {Root, p}
UnderFile(k, p) == \E q \in Ancestors(p) : q \in DOMAIN k.files

(* A file that is already gone is no error; a directory in its place is.   *)
Works(k, c) ==
    /\ ~UnderFile(k, c.path)
    /\ CASE c.do \in {"write", "unlink"} -> c.path \notin k.dirs
         [] c.do = "rmdir"               -> c.path \notin DOMAIN k.files

Outside(S, p) == {q \in S : ~IsPrefix(p, q)}

Mirrored(k, c) ==
    CASE c.do = "write" ->
            [files |-> With(k.files, c.path, c.blob), dirs |-> k.dirs \cup Ancestors(c.path)]
      [] c.do = "unlink" -> [k EXCEPT !.files = Without(@, c.path)]
      [] c.do = "rmdir" ->
            [files |-> Restrict(k.files, Outside(DOMAIN k.files, c.path)),
             dirs  |-> Outside(k.dirs, c.path)]

(* The commands run in turn until one fails. *)
RunOne(run, c) ==
    IF run.failed \/ ~(checkout \/ c.forced) THEN run
    ELSE IF Works(run.disk, c) THEN [run EXCEPT !.disk = Mirrored(@, c)]
    ELSE [run EXCEPT !.failed = TRUE]
Run(commands) ==
    LET after[n \in 0..Len(commands)] ==
            IF n = 0 THEN [disk |-> disk, failed |-> FALSE]
            ELSE RunOne(after[n - 1], commands[n])
    IN after[Len(commands)]

-----------------------------------------------------------------------------
(* The shape all writes share: the files on disk first, then the commit,   *)
(* then the hooks; what fails on the way leaves the history alone.         *)
Commit(edit, o) ==
    LET run == Run(edit.disk)
    IN /\ disk' = run.disk
       /\ op' = o
       /\ IF ~run.failed /\ Applies(edit, Tip)
          THEN /\ history' = Append(history, After(edit, Tip))
               /\ job' = Job(edit.changes)
               /\ table' = Received(table, job')
               /\ swept' = (swept \/ (o.does = "revert" /\ \E p \in edit.removed : IsFolder(Tip, p)))
               /\ UNCHANGED torn
          ELSE /\ torn' = (torn \/ run.disk # disk)
               /\ UNCHANGED <<history, swept, job, table>>
       /\ UNCHANGED checkout

MayCommit == Len(history) < MaxCommits

PutFile(p, c) ==
    /\ MayCommit
    /\ CanWriteFile(Tip, p) /\ ~WriteChangesNothing(Tip, p, c)
    /\ Commit(WriteFile(Tip, p, c), Op("write", p))

RemoveFile(p) ==
    /\ MayCommit
    /\ CanDeleteFile(Tip, p)
    /\ Commit(DeleteFile(Tip, p), Op("delete", p))

RemoveDirectory(d) ==
    /\ MayCommit
    /\ CanDeleteDirectory(Tip, d)
    /\ Commit(DeleteDirectory(Tip, d), Op("delete", d))

MoveOp(p, q) ==
    [Op("move", p) EXCEPT !.entry = IF Parent(p) = Parent(q) THEN Leaf(q) ELSE Index]

Rename(p, q) ==
    /\ MayCommit
    /\ CanMoveFile(Tip, p, q)
    /\ Commit(MoveFile(Tip, p, q), MoveOp(p, q))

RenameDirectory(d, q) ==
    /\ MayCommit
    /\ CanMoveDirectory(Tip, d, q)
    /\ Commit(MoveDirectory(Tip, d, q), MoveOp(d, q))

PutOrder(d, ns, hidden) ==
    /\ MayCommit
    /\ CanWriteOrder(Tip, d, ns, hidden)
    /\ Canonical(Tip, d, ns) # StoredOrder(Tip, d)
    /\ Commit(WriteOrder(Tip, d, ns), Op("order", d))

(* A hidden entry is pinned only with the flag that shows hidden ones.     *)
Reorder(p, position, implicit, hidden) ==
    LET es == Positioned(Tip, p, position, implicit, hidden)
    IN /\ MayCommit
       /\ CanReorder(Tip, p, TRUE) /\ (Leaf(p) \in HiddenName => hidden)
       /\ es # StoredOrder(Tip, Parent(p))
       /\ Commit(StageIndex(Tip, Parent(p), es),
                 [Op("reorder", Parent(p)) EXCEPT !.entry = Leaf(p), !.implicit = implicit])

Unpin(p) ==
    /\ MayCommit
    /\ CanReorder(Tip, p, TRUE)
    /\ Unlisted(Tip, p) # StoredOrder(Tip, Parent(p))
    /\ Commit(StageIndex(Tip, Parent(p), Unlisted(Tip, p)),
              [Op("unpin", Parent(p)) EXCEPT !.entry = Leaf(p)])

RemoveOrder(d) ==
    /\ MayCommit
    /\ CanDeleteOrder(Tip, d)
    /\ Commit(StageIndex(Tip, d, <<>>), Op("order", d))

RevertCommit(k) ==
    /\ MayCommit
    /\ k > 1
    /\ \E R \in Renames(history[k - 1], history[k]) :
          Commit(Revert(history[k - 1], history[k], R), [Op("revert", Root) EXCEPT !.commit = k])

RollbackCommit(k) ==
    LET before == IF k = 1 THEN EmptyTree ELSE history[k - 1]
    IN MayCommit /\ \E R \in Renames(before, history[k]) :
          LET edit == Rollback(Tip, before, history[k], R)
          IN /\ edit.changes # <<>>
             /\ Commit(edit, [Op("rollback", Root) EXCEPT !.commit = k])

-----------------------------------------------------------------------------
(* A node that kept no files, or was left half way, restarts with          *)
(* checkout_files and checkout_files_autoheal set: mirror_working_tree     *)
(* makes the files on disk those of HEAD.  Whether the checkout takes      *)
(* away the directories left empty is git's affair.                        *)
LeftEmpty(k, t) ==
    {d \in k.dirs : ~IsFolder(t, d) /\ \A p \in DOMAIN t : ~IsPrefix(p, d)}

Healed(k, t, kept) ==
    [files |-> t, dirs |-> kept \cup UNION {Ancestors(p) : p \in DOMAIN t}]

Heal ==
    /\ ~checkout \/ torn
    /\ checkout' = TRUE /\ torn' = FALSE
    /\ \E kept \in {{}, LeftEmpty(disk, Tip)} : disk' = Healed(disk, Tip, kept)
    /\ UNCHANGED <<history, swept, job, table, op>>

-----------------------------------------------------------------------------
Next ==
    \/ Heal
    \/ \E p \in Paths, c \in Content : PutFile(p, c)
    \/ \E p \in Paths : RemoveFile(p) \/ RemoveDirectory(p) \/ Unpin(p)
    \/ \E p, q \in Paths : Rename(p, q) \/ RenameDirectory(p, q)
    \/ \E d \in Folders, ns \in Orders, hidden \in BOOLEAN : PutOrder(d, ns, hidden)
    \/ \E p \in Paths, position \in 0..Cardinality(Name), implicit \in Implicit,
          hidden \in BOOLEAN : Reorder(p, position, implicit, hidden)
    \/ \E d \in Folders : RemoveOrder(d)
    \/ \E k \in DOMAIN history : RevertCommit(k) \/ RollbackCommit(k)

Spec == Init /\ [][Next]_vars

-----------------------------------------------------------------------------
TypeOK ==
    /\ \A i \in DOMAIN history :
          /\ WellFormed(history[i])
          /\ \A p \in DOMAIN history[i] :
                /\ p \in Seq(Name \cup {Index})
                /\ history[i][p] \in IF IsIndex(p) THEN Seq(Entry) \ {<<>>} ELSE Content
    /\ checkout \in BOOLEAN /\ torn \in BOOLEAN /\ swept \in BOOLEAN

(* A receiver that is told every event in turn holds the files and the     *)
(* orders of HEAD, whatever the operations and however a diff pairs        *)
(* renames.                                                                *)
EventsTellTheCommit == ~swept => table = TableOf(Tip)

(* "An order snapshot must never name a file the receiver has not been    *)
(* told about yet": when an order is told, the receiver already has a file *)
(* of each name in it that HEAD has one of.                                *)
HasFile(paths, p) == \E q \in paths : ~IsIndex(q) /\ IsPrefix(p, q)
OrdersNameToldFiles ==
    [][history' # history =>
        \A i \in DOMAIN job' : job'[i].kind = "order.updated" =>
            LET known == DOMAIN Received(table, SubSeq(job', 1, i - 1)).files
            IN \A n \in Names(job'[i].blob) :
                  LET p == Child(job'[i].path, n)
                  IN HasFile(DOMAIN Tip', p) => HasFile(known, p)]_vars

(* A receiver that is told every event holds what HEAD holds, whatever a   *)
(* revert took.                                                            *)
RevertsAreToldWhole == table = TableOf(Tip)

(* The files on disk are those of HEAD, or none at all, until an operation *)
(* fails half way.                                                         *)
DiskMirrorsHead ==
    checkout /\ ~torn => disk.files = Tip

(* An index loses and gains entries with the files, and no such upkeep     *)
(* changes the order of those that stay; what moves within its folder      *)
(* keeps its place.  Where a stale entry makes an index name one twice,    *)
(* as it can, nothing is claimed.                                          *)
NamesOf(es) == [i \in DOMAIN es |-> es[i].name]
NamesOnce(t, d) == IsInjective(NamesOf(StoredOrder(t, d)))
Kept(ns, ms) == Keeping(ns, LAMBDA n : n \in Range(ms))
UpkeepKeepsOrder ==
    [][history' # history /\ op'.does \in {"write", "delete", "move"} =>
        \A d \in Folders :
            (\A t \in {Tip, Tip'} : HasIndex(t, d) /\ NamesOnce(t, d)) =>
                LET moved == op'.does = "move" /\ Parent(op'.path) = d /\ op'.entry # Index
                    Now(n) == IF moved /\ n = Leaf(op'.path) THEN op'.entry ELSE n
                    before == [i \in DOMAIN StoredOrder(Tip, d) |-> Now(StoredOrder(Tip, d)[i].name)]
                    after == NamesOf(StoredOrder(Tip', d))
                IN Kept(before, after) = Kept(after, before)]_vars

(* Giving an entry a position moves no other entry a listing shows.        *)
ShownBut(n, t, d, implicit) ==
    Keeping(Materialized(t, d, implicit, TRUE), LAMBDA e : e.name \notin HiddenName \cup {n})
ReorderMovesOneEntry ==
    [][history' # history /\ op'.does = "reorder" =>
        ShownBut(op'.entry, Tip', op'.path, op'.implicit)
        = ShownBut(op'.entry, Tip, op'.path, op'.implicit)]_vars

(* Reverting the last commit restores the tree before it, and a rollback   *)
(* every path its commit touched, as the commit left it.                   *)
Touched(k) ==
    LET before == IF k = 1 THEN EmptyTree ELSE history[k - 1]
    IN {p \in DOMAIN before \cup DOMAIN history[k] :
          ~(p \in DOMAIN before \cap DOMAIN history[k] /\ before[p] = history[k][p])}
HistoryRestores ==
    [][history' # history =>
        /\ (op'.does = "revert" /\ op'.commit = Len(history)
              => Tip' = history[Len(history) - 1])
        /\ (op'.does = "rollback" =>
              \A p \in Touched(op'.commit) :
                 /\ IsFile(Tip', p) <=> IsFile(history[op'.commit], p)
                 /\ IsFile(Tip', p) => Tip'[p] = history[op'.commit][p])]_vars

=============================================================================
