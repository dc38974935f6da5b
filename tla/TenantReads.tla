----------------------------- MODULE TenantReads -----------------------------
(***************************************************************************)
(* What the read routes answer about a tenant: the listing of its files in *)
(* its four modes (plain, by name, by path, by date), their count, the log *)
(* of a file and the window of lines a read may ask for.  Reads change     *)
(* nothing; each is an operator over the history TenantContent builds.     *)
(*                                                                         *)
(* A path is relative to the root of the listing, a date is the number of  *)
(* its commit.                                                             *)
(***************************************************************************)
EXTENDS TenantContent

CONSTANTS
    Depths,     \* values of maximum_depth; one past every path is none
    Needles,    \* what file_name_starts_with may match: sets of names
    PerPage,    \* values of per_page
    Lines,      \* the lines of a file, as sequences of characters
    MaxLines    \* bound on the lines of a file

ASSUME ReadConstants ==
    /\ Depths \subseteq Nat \ {0} /\ IsFiniteSet(Depths)
    /\ PerPage \subseteq Nat \ {0}
    /\ Needles \subseteq SUBSET Name
    /\ Lines \subseteq Seq(Nat \ {0}) \ {<<>>}
    /\ MaxLines \in Nat

-----------------------------------------------------------------------------
(* The scope of a listing *)

Scope == [prefix : Folders, depth : Depths, hidden : BOOLEAN,
          ordered : BOOLEAN, implicit : Implicit]

(* The tree a listing walks; a prefix that is no folder has none. *)
WalkTree(t, d) ==
    LET below == {SubSeq(p, Len(d) + 1, Len(p)) : p \in Subtree(t, d)}
    IN [p \in below |-> t[d \o p]]

(* The walks drop a hidden entry, and a hidden directory with all below.   *)
InSight(p, s) == s.hidden \/ \A i \in DOMAIN p : p[i] \notin HiddenName

FilesOf(w, s) == {p \in DOMAIN w : ~IsIndex(p) /\ InSight(p, s)}
DirsOf(w, s) == {d \in UNION {Ancestors(p) : p \in DOMAIN w} : InSight(d, s)}

Tree(files, dirs) == [files |-> files, dirs |-> dirs]
NoTree == Tree({}, {})
Rooted(d, tree) == Tree({d \o p : p \in tree.files}, {d \o p : p \in tree.dirs})

(* build_tree: the files within the depth, and the directories that lead   *)
(* to a file or to a stub.                                                 *)
BuildTree(flat, stubs, depth) ==
    Tree({p \in flat : Len(p) <= depth},
         {d \in UNION {Ancestors(p) : p \in flat} : Len(d) <= depth}
            \cup UNION {Ancestors(d) \cup {d} : d \in stubs})
AnyDepth == Max(Depths)

(* Mutant of CollectFlat: the walk forgets the directories it stops at. *)
CollectFlatOnly(w, s) == [flat |-> {p \in FilesOf(w, s) : Len(p) <= s.depth}, stubs |-> {}]

(* collect_flat_with_stubs *)
CollectFlat(w, s) == [flat  |-> {p \in FilesOf(w, s) : Len(p) <= s.depth},
                      stubs |-> {d \in DirsOf(w, s) : Len(d) = s.depth}]

-----------------------------------------------------------------------------
(* Pages: the entries at the root of the listing, directories first, or as *)
(* the order of the root ranks them.                                       *)

Page(entries, page, per) ==
    SubSeq(entries, (page - 1) * per + 1, Min({page * per, Len(entries)}))
HasMore(entries, page, per) == Len(entries) > page * per

Ranked(w, entries, s) ==
    LET es == IF s.ordered THEN StoredOrder(w, Root) ELSE <<>>
    IN Sorted(entries, LAMBDA e, f : RankBefore(es, s.implicit, e, f))

Answer(roots, more, tree, partial) ==
    [roots |-> roots, more |-> more, tree |-> tree, partial |-> partial]

(* list_files without a filter: the page is decided first, and only the    *)
(* directories on it are walked.                                           *)
PlainListing(s, page, per) ==
    LET w == WalkTree(Tip, s.prefix)
        entries == Ranked(w, {e \in EntriesOf(w, Root) : InSight(<<e.name>>, s)}, s)
        shown == Page(entries, page, per)
        Inside(d) ==
            LET below == [s EXCEPT !.depth = @ - 1]
                found == CollectFlat(WalkTree(w, d), below)
            IN IF s.depth = 1 THEN NoTree
               ELSE Rooted(d, BuildTree(found.flat, found.stubs, below.depth))
        dirs == {<<e.name>> : e \in {x \in Range(shown) : x.folder}}
        files == {<<e.name>> : e \in {x \in Range(shown) : ~x.folder}}
    IN Answer(shown, HasMore(entries, page, per),
              Tree(files \cup UNION {Inside(d).files : d \in dirs},
                   dirs \cup UNION {Inside(d).dirs : d \in dirs}), FALSE)

(* How every other mode ends: the tree is ordered whole, then cut.         *)
FilteredListing(s, tree, partial, page, per) ==
    LET roots == {[name |-> p[1], folder |-> FALSE] : p \in {q \in tree.files : Len(q) = 1}}
                 \cup {[name |-> d[1], folder |-> TRUE] : d \in {c \in tree.dirs : Len(c) = 1}}
        entries == Ranked(WalkTree(Tip, s.prefix), roots, s)
        shown == Page(entries, page, per)
        OnPage(paths) == {p \in paths : p[1] \in Names(shown)}
    IN Answer(shown, HasMore(entries, page, per),
              Tree(OnPage(tree.files), OnPage(tree.dirs)), partial)

-----------------------------------------------------------------------------
(* The two selections: files, directories that show even when childless,   *)
(* and directories the depth cut short.                                    *)

Found(flat, dirStubs, depthStubs) ==
    [flat |-> flat, dirStubs |-> dirStubs, depthStubs |-> depthStubs]

(* search_by_file_name: what is below a directory that matches is found    *)
(* with it.                                                                *)
Search(s, needle) ==
    LET w == WalkTree(Tip, s.prefix)
        Matches(p) == \E i \in DOMAIN p : p[i] \in needle
        Freshly(d) == Leaf(d) \in needle /\ ~Matches(Front(d))
    IN Found({p \in FilesOf(w, s) : Len(p) <= s.depth /\ Matches(p)},
             {d \in DirsOf(w, s) : Len(d) < s.depth /\ Freshly(d)},
             {d \in DirsOf(w, s) : Len(d) = s.depth /\ Matches(d)})

(* select_by_file_paths *)
Selection(s, wanted) ==
    LET w == WalkTree(Tip, s.prefix)
        named == {p \in wanted : Len(p) <= s.depth /\ InSight(p, s)}
        dirs == {d \in named : IsFolder(w, d)}
        opened == {d \in dirs : Len(d) < s.depth}
        Inside(d) == CollectFlat(WalkTree(w, d), [s EXCEPT !.depth = @ - Len(d)])
    IN Found({p \in named : IsFile(w, p) /\ ~IsIndex(p)}
                \cup UNION {{d \o p : p \in Inside(d).flat} : d \in opened},
             opened \cup UNION {{d \o c : c \in Inside(d).stubs} : d \in opened},
             dirs \ opened)

-----------------------------------------------------------------------------
(* Dates *)

Kinds == {"updated", "created"}
(* The window is half-open; the budget is the commits the walk reads       *)
(* before its deadline.                                                    *)
Filter(from, to, kind, budget) == [from |-> from, to |-> to, kind |-> kind, budget |-> budget]

Introduced(k) == {p \in DOMAIN history[k] : k = 1 \/ ~IsFile(history[k - 1], p)}

(* Mutant of DateStep: both kinds stop once every path has a date. *)
DateStepEager(paths, f, walk, k) ==
    IF walk.over \/ DOMAIN walk.dates = paths THEN [walk EXCEPT !.over = TRUE]
    ELSE IF walk.read = f.budget THEN [walk EXCEPT !.over = TRUE, !.exhausted = TRUE]
    ELSE LET touched == [p \in paths \cap Touched(k) |-> k]
             added == [p \in paths \cap Introduced(k) |-> k]
         IN [walk EXCEPT !.read = @ + 1,
                         !.dates = IF f.kind = "updated" THEN Overlay(@, touched) ELSE Overlay(added, @)]

(* One commit of file_dates: the first touch seen is the last there was,   *)
(* each older addition takes the place of the one before.                  *)
DateStep(paths, f, walk, k) ==
    IF walk.over \/ (f.kind = "updated" /\ DOMAIN walk.dates = paths)
    THEN [walk EXCEPT !.over = TRUE]
    ELSE IF walk.read = f.budget THEN [walk EXCEPT !.over = TRUE, !.exhausted = TRUE]
    ELSE LET touched == [p \in paths \cap Touched(k) |-> k]
             added == [p \in paths \cap Introduced(k) |-> k]
         IN [walk EXCEPT !.read = @ + 1,
                         !.dates = IF f.kind = "updated" THEN Overlay(@, touched) ELSE Overlay(added, @)]

FileDates(paths, f) ==
    FoldRight(LAMBDA k, walk : DateStep(paths, f, walk, k), [i \in DOMAIN history |-> i],
              [dates |-> EmptyTree, read |-> 0, over |-> paths = {}, exhausted |-> FALSE])

(* surviving_by_date *)
Surviving(s, flat, f) ==
    LET walk == FileDates({s.prefix \o p : p \in flat}, f)
        Dated(p) == /\ p \in DOMAIN walk.dates
                    /\ f.from <= walk.dates[p] /\ walk.dates[p] < f.to
    IN [files |-> {p \in flat : Dated(s.prefix \o p)}, partial |-> walk.exhausted]

(* Mutant of DateListing: the walk is bounded instead of the result. *)
DateListingBounded(s, f) ==
    LET w == WalkTree(Tip, s.prefix)
        kept == Surviving(s, {p \in FilesOf(w, s) : Len(p) <= s.depth}, f)
    IN [tree |-> BuildTree(kept.files, {}, s.depth), partial |-> kept.partial]

(* list_with_date_filter *)
DateListing(s, f) ==
    LET kept == Surviving(s, FilesOf(WalkTree(Tip, s.prefix), s), f)
    IN [tree |-> BuildTree(kept.files, {}, s.depth), partial |-> kept.partial]

(* finish_filtered_listing, without dates and with: what a directory at    *)
(* the limit holds is dated only to say whether it stays.                  *)
Finish(found) == BuildTree(found.flat, found.dirStubs \cup found.depthStubs, AnyDepth)

FinishDated(s, found, f) ==
    LET w == WalkTree(Tip, s.prefix)
        Below(d) == {p \in FilesOf(w, s) : IsStrictPrefix(d, p)}
        kept == Surviving(s, found.flat \cup UNION {Below(d) : d \in found.depthStubs}, f)
        stubs == {d \in found.depthStubs : Below(d) \cap kept.files # {}}
    IN [tree |-> BuildTree(found.flat \cap kept.files, stubs, AnyDepth), partial |-> kept.partial]

-----------------------------------------------------------------------------
(* count_files, every extension: a directory counts whatever it holds.     *)
CountFiles(s) ==
    LET w == WalkTree(Tip, s.prefix)
    IN [files |-> Cardinality({p \in FilesOf(w, s) : Len(p) <= s.depth}),
        directories |-> Cardinality({d \in DirsOf(w, s) : Len(d) <= s.depth})]

-----------------------------------------------------------------------------
(* The log of a path *)

(* get_path: the object a tree has at a path, a file or a folder. *)
ObjectAt(t, p) ==
    IF IsFile(t, p) THEN <<"file", t[p]>>
    ELSE IF IsFolder(t, p) THEN <<"folder", WalkTree(t, p)>>
    ELSE <<"none", NoBlob>>
ObjectIn(k, p) == ObjectAt(IF k = 0 THEN EmptyTree ELSE history[k], p)
Absent == <<"none", NoBlob>>

(* rename_source: the pairs git finds between two trees, the same at each  *)
(* call; the path itself when it is in none.                               *)
Paired(k) == CHOOSE R \in Renames(history[k - 1], history[k]) : TRUE
Source(k, p) ==
    IF k = 1 \/ p \notin Range(Paired(k)) THEN p
    ELSE CHOOSE q \in DOMAIN Paired(k) : Paired(k)[q] = p

(* list_commits_by_file, from the n-th commit down, until it has enough.   *)
LogStep(need, walk, k) ==
    LET now == ObjectIn(k, walk.path)
        before == ObjectIn(k - 1, walk.path)
    IN IF Len(walk.commits) >= need \/ now = before THEN walk
       ELSE [commits |-> Append(walk.commits, k),
             path |-> IF before = Absent THEN Source(k, walk.path) ELSE walk.path]
Log(n, p, need) ==
    FoldRight(LAMBDA k, walk : LogStep(need, walk, k), [i \in 1..n |-> i],
              [commits |-> <<>>, path |-> p]).commits

(* Mutant of LogPage: only what the page holds is looked for. *)
LogPageExact(p, page, per) ==
    LET found == Log(Len(history), p, page * per)
    IN [commits |-> Page(found, page, per), more |-> HasMore(found, page, per)]

LogPage(p, page, per) ==
    LET found == Log(Len(history), p, page * per + 1)
    IN [commits |-> Page(found, page, per), more |-> HasMore(found, page, per)]

-----------------------------------------------------------------------------
(* The window of a read: from the first line with a prefix asked for (the  *)
(* first line when none is) to the next with an end marker, in which the   *)
(* character Meta stands for the prefix that opened the window.            *)

Meta == 0
Anywhere == <<<<>>>>    \* no prefix asked for: every line has the empty one

FirstPrefix(line, prefixes) ==
    SelectInSeq(prefixes, LAMBDA x : IsPrefix(x, line))
Resolved(marker, prefix) ==
    FlattenSeq([i \in DOMAIN marker |-> IF marker[i] = Meta THEN prefix ELSE <<marker[i]>>])

(* Mutant of SeekStep: the line that opens the window may close it. *)
SeekStepEager(seek, scan, line) ==
    LET opens == FirstPrefix(line, seek.from)
        matched == IF scan.open THEN scan.matched
                   ELSE IF opens = 0 THEN <<>> ELSE seek.from[opens]
        closes == \E m \in seek.to : IsPrefix(Resolved(m, matched), line)
    IN IF scan.closed \/ (~scan.open /\ opens = 0) THEN scan
       ELSE [open |-> TRUE, matched |-> matched, window |-> Append(scan.window, line),
             closed |-> closes \/ Len(scan.window) + 1 = seek.maximum]

(* One line of apply_reader. *)
SeekStep(seek, scan, line) ==
    LET opens == FirstPrefix(line, seek.from)
        matched == IF scan.open THEN scan.matched
                   ELSE IF opens = 0 THEN <<>> ELSE seek.from[opens]
        closes == scan.open /\ \E m \in seek.to : IsPrefix(Resolved(m, matched), line)
    IN IF scan.closed \/ (~scan.open /\ opens = 0) THEN scan
       ELSE [open |-> TRUE, matched |-> matched, window |-> Append(scan.window, line),
             closed |-> closes \/ Len(scan.window) + 1 = seek.maximum]

ApplyReader(seek, lines) ==
    FoldLeft(LAMBDA scan, line : SeekStep(seek, scan, line),
             [open |-> FALSE, matched |-> <<>>, window |-> <<>>, closed |-> FALSE],
             lines).window

-----------------------------------------------------------------------------
(* A search everything matches, a selection of every entry of the root and *)
(* the plain listing answer alike, page by page; and the count is of what  *)
(* the listing shows, but for directories in which nothing can be seen.    *)
ListingsAgree ==
    \A s \in Scope, per \in PerPage : \A page \in 1..3 :
        LET w == WalkTree(Tip, s.prefix)
            roots == {<<e.name>> : e \in EntriesOf(w, Root)}
            plain == PlainListing(s, page, per)
            whole == PlainListing(s, 1, Cardinality(roots)).tree
            barren == {d \in DirsOf(w, s) : \A p \in FilesOf(w, s) : ~IsPrefix(d, p)}
        IN /\ FilteredListing(s, Finish(Search(s, Name)), FALSE, page, per) = plain
           /\ FilteredListing(s, Finish(Selection(s, roots)), FALSE, page, per) = plain
           /\ CountFiles(s).files = Cardinality(whole.files)
           /\ barren = {} => CountFiles(s).directories = Cardinality(whole.dirs)

(* "A directory sitting at the limit comes back as the same childless stub *)
(* the plain listing returns, but only when the subtree below it holds an  *)
(* in-window file" (API.md): under a date filter a listing shows, down to  *)
(* its depth, what leads to the files chosen whose own date is inside.     *)
Since(p) == {k \in DOMAIN history : p \in Touched(k)}
DateOf(p, kind) ==
    IF kind = "updated" THEN Max(Since(p)) ELSE Min({k \in Since(p) : p \in Introduced(k)})
Windows == {w \in (1..Len(history)) \X (2..Len(history) + 1) : w[1] < w[2]}
Chosen(s, window, kind, files) ==
    LET Inside(p) == DateOf(s.prefix \o p, kind) \in window[1]..window[2] - 1
    IN BuildTree({p \in files : Inside(p)}, {}, s.depth)

DatedListingsShowTheWindow ==
    \A s \in {x \in Scope : ~x.ordered}, window \in Windows, kind \in Kinds :
        LET f == Filter(window[1], window[2], kind, Len(history))
            files == FilesOf(WalkTree(Tip, s.prefix), s)
            Named(needle) == {p \in files : \E i \in DOMAIN p : i <= s.depth /\ p[i] \in needle}
        IN /\ DateListing(s, f).tree = Chosen(s, window, kind, files)
           /\ \A needle \in Needles :
                 FinishDated(s, Search(s, needle), f).tree = Chosen(s, window, kind, Named(needle))

(* A walk that had the time dates every file as its history does; one that *)
(* had not leaves files out of an updated listing, and dates none wrongly. *)
DatesAreTrue ==
    \A kind \in Kinds, budget \in 0..Len(history) :
    \A paths \in SUBSET {p \in DOMAIN Tip : ~IsIndex(p)} :
        LET walk == FileDates(paths, Filter(1, 1, kind, budget))
        IN /\ ~walk.exhausted => DOMAIN walk.dates = paths
           /\ walk.exhausted /\ kind = "updated" => DOMAIN walk.dates # paths
           /\ ~walk.exhausted \/ kind = "updated" =>
                 \A p \in DOMAIN walk.dates : walk.dates[p] = DateOf(p, kind)

(* The log of a path holds, newest first, every commit that touched it     *)
(* back to the one that moved a file there, then the log that file had     *)
(* before; and its pages are cut from the whole, the last one saying so.   *)
ChangesOf(p, first, last) == {k \in first..last : ObjectIn(k, p) # ObjectIn(k - 1, p)}
MovesTo(p) ==
    {k \in 2..Len(history) : /\ ObjectIn(k - 1, p) = Absent /\ ObjectIn(k, p) # Absent
                             /\ p \in Range(Paired(k))}
TellsOf(commits, changes) ==
    /\ Range(commits) = changes
    /\ \A i, j \in DOMAIN commits : i < j => commits[i] > commits[j]
LogIsWhole ==
    \A p \in Paths :
        LET n == Len(history)
            whole == Log(n, p, n + 1)
            k == Max(MovesTo(p))
        IN /\ \E i \in 0..Len(whole) :
                 LET own == SubSeq(whole, 1, i)
                     older == SubSeq(whole, i + 1, Len(whole))
                 IN IF MovesTo(p) = {} THEN TellsOf(own, ChangesOf(p, 1, n)) /\ older = <<>>
                    ELSE /\ TellsOf(own, ChangesOf(p, k, n))
                         /\ older = Log(k - 1, Source(k, p), n + 1)
           /\ \A per \in PerPage, page \in 1..n :
                 LogPage(p, page, per) = [commits |-> Page(whole, page, per),
                                          more |-> HasMore(whole, page, per)]

(* The window is the lines from the first that opens it to the first after *)
(* that closes it, or the most asked for.                                  *)
Markers == {<<Meta>>} \cup Lines
WindowAsked(lines, from, to, maximum) ==
    LET opening == {i \in DOMAIN lines : \E x \in Range(from) : IsPrefix(x, lines[i])}
        first == Min(opening)
        matched == from[Min({j \in DOMAIN from : IsPrefix(from[j], lines[first])})]
        closing == {i \in first + 1..Len(lines) :
                      \E m \in to : IsPrefix(Resolved(m, matched), lines[i])}
    IN IF opening = {} THEN <<>>
       ELSE SubSeq(lines, first, Min(closing \cup {Len(lines), first + maximum - 1}))
SeekIsWindow ==
    Len(history) = 1 =>
    \A lines \in SeqOf(Lines, MaxLines), from \in (SeqOf(Lines, 2) \ {<<>>}) \cup {Anywhere} :
    \A to \in {{}} \cup {{m} : m \in Markers}, maximum \in 1..MaxLines + 1 :
        (from = Anywhere => <<Meta>> \notin to) =>
            ApplyReader([from |-> from, to |-> to, maximum |-> maximum], lines)
            = WindowAsked(lines, from, to, maximum)
=============================================================================
