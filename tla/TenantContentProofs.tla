------------------------- MODULE TenantContentProofs -------------------------
(***************************************************************************)
(* The history of a tenant, the files on disk and the receiver, for every  *)
(* tree, path, content and history.  Each operation is a tidy edit of      *)
(* HEAD's tree, but for a revert of a file that is a directory by now,     *)
(* which is one of the tree without what it buries.  What the commands     *)
(* make of the disk and the job of the receiver follows from that.         *)
(***************************************************************************)
EXTENDS TenantContent, ContentTreeProofs

-----------------------------------------------------------------------------
(* The inductive invariant *)

TreesOK ==
    /\ Listed(history) /\ history # <<>>
    /\ \A i \in 1..Len(history) : TreeOK(history[i])

(* The directories on disk are those the files are in, and maybe others.   *)
IsDisk(k) ==
    /\ k = [files |-> k.files, dirs |-> k.dirs]
    /\ IsMap(k.files) /\ DOMAIN k.files \subseteq Path
    /\ \A p \in DOMAIN k.files : Ancestors(p) \subseteq k.dirs

(* What HEAD has the receiver holds; and nothing else, unless a revert     *)
(* took a whole folder.                                                    *)
Told ==
    /\ IsTable(table)
    /\ \A k \in Key : Carried(Tip, k) # <<>> \/ ~swept => Held(table, k) = Carried(Tip, k)

OnDisk(k, t) == \A p \in Path : BlobAt(k.files, p) = BlobAt(t, p)

ContentInv ==
    /\ TreesOK /\ Told /\ IsDisk(disk)
    /\ checkout \in BOOLEAN /\ torn \in BOOLEAN /\ swept \in BOOLEAN
    /\ checkout /\ ~torn => OnDisk(disk, Tip)

-----------------------------------------------------------------------------
(* The working tree *)

LEMMA AncestorsFacts ==
    ASSUME NEW p \in Path
    PROVE  \A q : q \in Ancestors(p) <=> q \in Path /\ q # Root /\ IsStrictPrefix(q, p)
<1>1. Len(p) \in Nat
  BY DEF Path
<1>2. \A l \in 0..Len(p) : /\ SubSeq(p, 1, l) \in Path /\ Len(SubSeq(p, 1, l)) = l
                           /\ \A i \in 1..l : SubSeq(p, 1, l)[i] = p[i]
  <2> TAKE l \in 0..Len(p)
  <2>1. l \in Int /\ 1 \in 1..(Len(p) + 1) /\ 1 <= l + 1 /\ l <= Len(p) /\ l - 1 + 1 = l
    BY <1>1
  <2> QED
    BY <1>1, <2>1, SubSeqProperties DEF Path
<1>3. ASSUME NEW q \in Prefixes(p) PROVE q \in Path /\ IsPrefix(q, p)
  <2>1. PICK l \in 0..Len(p) : q = SubSeq(p, 1, l)
    BY DEF Prefixes
  <2>2. q \in Path /\ Len(q) <= Len(p) /\ \A i \in 1..Len(q) : q[i] = p[i]
    BY <1>1, <1>2, <2>1
  <2> QED
    BY <2>2, PrefixAt
<1>4. ASSUME NEW q \in Path, IsPrefix(q, p) PROVE q \in Prefixes(p)
  <2>1. /\ Len(q) \in Nat /\ Len(q) <= Len(p) /\ \A i \in 1..Len(q) : q[i] = p[i]
    BY <1>4, PrefixAt DEF Path
  <2> DEFINE l == Len(q)
             r == SubSeq(p, 1, l)
  <2>2. l \in 0..Len(p)
    BY <1>1, <2>1
  <2>3. r \in Path /\ Len(r) = Len(q) /\ \A i \in 1..Len(q) : r[i] = p[i]
    BY <1>2, <2>2
  <2>4. r = q
    <3> HIDE DEF r
    <3>1. \A i \in 1..Len(q) : r[i] = q[i]
      BY <2>1, <2>3
    <3> QED
      BY <2>3, <3>1, SeqEqual DEF Path
  <2> QED
    BY <2>2, <2>4 DEF Prefixes
<1> QED
  BY <1>3, <1>4 DEF Ancestors, IsStrictPrefix

LEMMA RunSteps ==
    ASSUME NEW commands, Len(commands) \in Nat
    PROVE  \E f : /\ Run(commands) = f[Len(commands)] /\ f[0] = [disk |-> disk, failed |-> FALSE]
                  /\ \A n \in 1..Len(commands) : f[n] = RunOne(f[n - 1], commands[n])
<1> DEFINE N == Len(commands)
           none == [disk |-> disk, failed |-> FALSE]
<1> DEFINE Made(g, m) ==
      g = [n \in 0..m |-> IF n = 0 THEN none ELSE RunOne(g[n - 1], commands[n])]
<1> DEFINE S == {m \in Nat : \E g : Made(g, m)}
<1> HIDE DEF none
<1>1. 0 \in S
  <2> DEFINE g == [n \in 0..0 |-> none]
  <2>1. Made(g, 0)
    OBVIOUS
  <2> QED
    BY <2>1
<1>2. ASSUME NEW m \in Nat, m \in S PROVE m + 1 \in S
  <2>1. PICK g : Made(g, m)
    BY <1>2
  <2> DEFINE h == [n \in 0..(m + 1) |-> IF n = 0 THEN none ELSE RunOne(g[n - 1], commands[n])]
  <2>2. /\ \A n \in 0..(m + 1) : n # 0 => n - 1 \in 0..m
        /\ \A n \in 0..m : n \in 0..(m + 1)
    OBVIOUS
  <2>3. \A n \in 0..m : g[n] = IF n = 0 THEN none ELSE RunOne(g[n - 1], commands[n])
    BY <2>1
  <2>4. \A n \in 0..m : h[n] = g[n]
    BY <2>2, <2>3
  <2>5. \A n \in 0..(m + 1) : h[n] = IF n = 0 THEN none ELSE RunOne(h[n - 1], commands[n])
    BY <2>2, <2>4
  <2>6. Made(h, m + 1)
    BY <2>5
  <2> HIDE DEF h, Made
  <2> QED
    BY <2>6
<1> HIDE DEF Made
<1>3. N \in S
  BY <1>1, <1>2, Induct
<1>4. \E g : Made(g, N)
  BY <1>3
<1> DEFINE f == CHOOSE g : Made(g, N)
<1>5. Made(f, N)
  BY <1>4
<1>6. Run(commands) = f[N]
  BY DEF Run, Made, none
<1> HIDE DEF f
<1>7. \A n \in 0..N : f[n] = IF n = 0 THEN none ELSE RunOne(f[n - 1], commands[n])
  BY <1>5 DEF Made
<1>8. 0 \in 0..N /\ \A n \in 1..N : n \in 0..N /\ n # 0
  OBVIOUS
<1>9. f[0] = none /\ \A n \in 1..N : f[n] = RunOne(f[n - 1], commands[n])
  BY <1>7, <1>8
<1> QED
  BY <1>6, <1>9 DEF none

(* One command: the disk stays one, and holds of each path what the        *)
(* command says.                                                           *)
LEMMA MirroredFacts ==
    ASSUME NEW k, IsDisk(k), NEW c, IsCommand(c)
    PROVE  /\ IsDisk(Mirrored(k, c))
           /\ \A p \in Path : BlobAt(Mirrored(k, c).files, p)
                 = IF Touches(c, <<"disk", p>>) THEN Says(c, <<"disk", p>>) ELSE BlobAt(k.files, p)
           /\ c.do # "rmdir" => k.dirs \subseteq Mirrored(k, c).dirs
<1> DEFINE m == Mirrored(k, c)
<1>1. /\ k = [files |-> k.files, dirs |-> k.dirs]
      /\ IsMap(k.files) /\ DOMAIN k.files \subseteq Path
      /\ \A p \in DOMAIN k.files : Ancestors(p) \subseteq k.dirs
      /\ c.do \in {"write", "unlink", "rmdir"} /\ c.path \in Path
  BY DEF IsDisk, IsCommand
<1>2. CASE c.do = "write"
  <2> DEFINE F == With(k.files, c.path, c.blob)
             D == k.dirs \cup Ancestors(c.path)
  <2>1. m = [files |-> F, dirs |-> D]
    BY <1>2 DEF Mirrored
  <2>2. /\ DOMAIN F = DOMAIN k.files \cup {c.path} /\ IsMap(F) /\ BlobAt(F, c.path) = <<c.blob>>
        /\ \A y : y # c.path => BlobAt(F, y) = BlobAt(k.files, y)
    <3>1. DOMAIN F = DOMAIN k.files \cup {c.path}
      BY WithDomain
    <3>2. /\ IsMap(F) /\ BlobAt(F, c.path) = <<c.blob>>
          /\ \A y : y # c.path => BlobAt(F, y) = BlobAt(k.files, y)
      BY WithFacts
    <3> QED
      BY <3>1, <3>2
  <2> HIDE DEF F
  <2>3. \A p : /\ Touches(c, <<"disk", p>>) <=> c.path = p
               /\ Says(c, <<"disk", p>>) = <<c.blob>>
    BY <1>2 DEF Touches, Says
  <2>4. IsDisk([files |-> F, dirs |-> D])
    BY <1>1, <2>2 DEF IsDisk
  <2>5. \A p \in Path : BlobAt(F, p)
           = IF Touches(c, <<"disk", p>>) THEN Says(c, <<"disk", p>>) ELSE BlobAt(k.files, p)
    BY <2>2, <2>3
  <2> QED
    BY <2>1, <2>4, <2>5
<1>3. CASE c.do = "unlink"
  <2> DEFINE F == Without(k.files, c.path)
  <2>1. m = [files |-> F, dirs |-> k.dirs]
    BY <1>1, <1>3 DEF Mirrored
  <2>2. /\ IsMap(F) /\ DOMAIN F = DOMAIN k.files \ {c.path}
        /\ \A y : BlobAt(F, y) = IF y = c.path THEN <<>> ELSE BlobAt(k.files, y)
    BY WithoutFacts
  <2> HIDE DEF F
  <2>3. \A p : /\ Touches(c, <<"disk", p>>) <=> c.path = p
               /\ Says(c, <<"disk", p>>) = <<>>
    BY <1>3 DEF Touches, Says
  <2>4. IsDisk([files |-> F, dirs |-> k.dirs])
    BY <1>1, <2>2 DEF IsDisk
  <2>5. \A p \in Path : BlobAt(F, p)
           = IF Touches(c, <<"disk", p>>) THEN Says(c, <<"disk", p>>) ELSE BlobAt(k.files, p)
    BY <2>2, <2>3
  <2> QED
    BY <2>1, <2>4, <2>5
<1>4. CASE c.do = "rmdir"
  <2> DEFINE G == Outside(DOMAIN k.files, c.path)
             F == Restrict(k.files, G)
             D == Outside(k.dirs, c.path)
  <2>1. m = [files |-> F, dirs |-> D]
    BY <1>4 DEF Mirrored
  <2>2. /\ IsMap(F) /\ DOMAIN F = {q \in DOMAIN k.files : ~IsPrefix(c.path, q)}
        /\ \A y \in DOMAIN F : F[y] = k.files[y]
    BY DEF IsMap, Outside, Restrict
  <2> HIDE DEF F
  <2>3. \A p : /\ Touches(c, <<"disk", p>>) <=> IsPrefix(c.path, p)
               /\ Says(c, <<"disk", p>>) = <<>>
    BY <1>4 DEF Touches, Says
  <2>4. \A p \in DOMAIN F : Ancestors(p) \subseteq D
    <3> SUFFICES ASSUME NEW p \in DOMAIN F, NEW a \in Ancestors(p) PROVE a \in D
      OBVIOUS
    <3>1. p \in Path /\ a \in k.dirs /\ ~IsPrefix(c.path, p)
      BY <1>1, <2>2
    <3>2. a \in Path /\ IsPrefix(a, p)
      BY <3>1, AncestorsFacts DEF IsStrictPrefix
    <3>3. ~IsPrefix(c.path, a)
      BY <1>1, <3>1, <3>2, PrefixFacts
    <3> QED
      BY <3>1, <3>3 DEF Outside
  <2>5. IsDisk([files |-> F, dirs |-> D])
    BY <1>1, <2>2, <2>4 DEF IsDisk
  <2>6. \A p \in Path : BlobAt(F, p)
           = IF Touches(c, <<"disk", p>>) THEN Says(c, <<"disk", p>>) ELSE BlobAt(k.files, p)
    BY <2>2, <2>3 DEF BlobAt
  <2> HIDE DEF D
  <2> QED
    BY <1>4, <2>1, <2>5, <2>6
<1> QED
  BY <1>1, <1>2, <1>3, <1>4

(* Commands that do not fail leave on disk of each path what the last of   *)
(* them says of it, and of what they do not speak of what was there.  None *)
(* of them that writes or unlinks does so where a directory is.            *)
LEMMA RunFacts ==
    ASSUME NEW commands, Listed(commands), \A c \in Range(commands) : IsCommand(c), IsDisk(disk)
    PROVE  /\ IsDisk(Run(commands).disk)
           /\ checkout /\ ~Run(commands).failed => \A p \in Path :
                 /\ ~Mentions(commands, <<"disk", p>>)
                       => BlobAt(Run(commands).disk.files, p) = BlobAt(disk.files, p)
                 /\ \A v : Mentions(commands, <<"disk", p>>) /\ LastSays(commands, <<"disk", p>>, v)
                       => BlobAt(Run(commands).disk.files, p) = v
           /\ checkout /\ ~Run(commands).failed /\ (\A c \in Range(commands) : c.do # "rmdir")
                 => \A c \in Range(commands) : c.path \notin disk.dirs
<1> DEFINE N == Len(commands)
           Key1(p) == <<"disk", p>>
           Whole == \A c \in Range(commands) : c.do # "rmdir"
<1>1. N \in Nat /\ DOMAIN commands = 1..N /\ Range(commands) = {commands[i] : i \in 1..N}
  BY ListedFacts
<1>2. PICK f : /\ Run(commands) = f[N] /\ f[0] = [disk |-> disk, failed |-> FALSE]
               /\ \A n \in 1..N : f[n] = RunOne(f[n - 1], commands[n])
  BY <1>1, RunSteps
<1> DEFINE Says1(n) == \A p \in Path :
              /\ (\A j \in 1..n : ~Touches(commands[j], Key1(p)))
                    => BlobAt(f[n].disk.files, p) = BlobAt(disk.files, p)
              /\ \A j \in 1..n :
                    Touches(commands[j], Key1(p)) /\ (\A l \in 1..n : l > j => ~Touches(commands[l], Key1(p)))
                    => BlobAt(f[n].disk.files, p) = Says(commands[j], Key1(p))
           Dirs1(n) == /\ disk.dirs \subseteq f[n].disk.dirs
                       /\ \A j \in 1..n : commands[j].path \notin disk.dirs
           Good(n) ==
              /\ f[n] = [disk |-> f[n].disk, failed |-> f[n].failed] /\ IsDisk(f[n].disk)
              /\ checkout /\ ~f[n].failed => Says1(n)
              /\ checkout /\ ~f[n].failed /\ Whole => Dirs1(n)
           S == {n \in Nat : n <= N => Good(n)}
<1>3. 0 \in S
  BY <1>2
<1>4. ASSUME NEW n \in Nat, n \in S PROVE n + 1 \in S
  <2> SUFFICES ASSUME n + 1 <= N PROVE Good(n + 1)
    OBVIOUS
  <2>1. Good(n)
    BY <1>1, <1>4
  <2> PICK m \in Nat : m = n + 1
    OBVIOUS
  <2>2. m \in 1..N /\ m - 1 = n
    BY <1>1
  <2>3. f[m] = RunOne(f[n], commands[m])
    BY <1>2, <2>2
  <2> DEFINE c == commands[m]
             r == f[n]
             d == Mirrored(r.disk, c)
  <2>4. IsCommand(c) /\ c \in Range(commands)
    BY <1>1, <2>2
  <2>5. 1..m = (1..n) \cup {m} /\ \A j \in 1..n : m > j /\ ~(j > m) /\ ~(m > m)
    OBVIOUS
  <2> HIDE DEF c
  <2>6. CASE f[m] = r /\ (r.failed \/ ~checkout)
    BY <2>1, <2>6
  <2>7. CASE f[m] = [r EXCEPT !.failed = TRUE]
    BY <2>1, <2>7
  <2>8. CASE ~r.failed /\ Works(r.disk, c) /\ f[m] = [r EXCEPT !.disk = Mirrored(@, c)]
    <3>1. /\ f[m] = [disk |-> d, failed |-> r.failed]
          /\ f[m].disk = d /\ f[m].failed = r.failed
      BY <2>1, <2>8
    <3>2. /\ IsDisk(d)
          /\ \A p \in Path : BlobAt(d.files, p)
                = IF Touches(c, Key1(p)) THEN Says(c, Key1(p)) ELSE BlobAt(r.disk.files, p)
          /\ c.do # "rmdir" => r.disk.dirs \subseteq d.dirs
      BY <2>1, <2>4, MirroredFacts
    <3> HIDE DEF d, Key1
    <3>3. ASSUME checkout PROVE Says1(m)
      <4>1. Says1(n)
        BY <2>1, <2>8, <3>3
      <4> SUFFICES ASSUME NEW p \in Path
                   PROVE  /\ (\A j \in 1..m : ~Touches(commands[j], Key1(p)))
                                => BlobAt(d.files, p) = BlobAt(disk.files, p)
                          /\ \A j \in 1..m :
                                /\ Touches(commands[j], Key1(p))
                                /\ \A l \in 1..m : l > j => ~Touches(commands[l], Key1(p))
                                => BlobAt(d.files, p) = Says(commands[j], Key1(p))
        BY <3>1
      <4>2. CASE Touches(c, Key1(p))
        <5>1. BlobAt(d.files, p) = Says(c, Key1(p))
          BY <3>2, <4>2
        <5>2. ASSUME NEW j \in 1..m, \A l \in 1..m : l > j => ~Touches(commands[l], Key1(p))
              PROVE  j = m
          BY <2>5, <4>2, <5>2 DEF c
        <5>3. m \in 1..m
          BY <2>5
        <5> QED
          BY <4>2, <5>1, <5>2, <5>3 DEF c
      <4>3. CASE ~Touches(c, Key1(p))
        <5>1. BlobAt(d.files, p) = BlobAt(r.disk.files, p)
          BY <3>2, <4>3
        <5>2. (\A j \in 1..m : ~Touches(commands[j], Key1(p)))
                 => BlobAt(d.files, p) = BlobAt(disk.files, p)
          BY <2>5, <4>1, <5>1
        <5>3. ASSUME NEW j \in 1..m, Touches(commands[j], Key1(p)),
                     \A l \in 1..m : l > j => ~Touches(commands[l], Key1(p))
              PROVE  BlobAt(d.files, p) = Says(commands[j], Key1(p))
          <6>1. j \in 1..n
            BY <2>5, <4>3, <5>3 DEF c
          <6>2. \A l \in 1..n : l > j => ~Touches(commands[l], Key1(p))
            BY <2>5, <5>3
          <6> QED
            BY <4>1, <5>1, <5>3, <6>1, <6>2
        <5> QED
          BY <5>2, <5>3
      <4> QED
        BY <4>2, <4>3
    <3>4. ASSUME checkout, Whole PROVE Dirs1(m)
      <4>1. Dirs1(n)
        BY <2>1, <2>8, <3>4
      <4>2. c.do \in {"write", "unlink"}
        BY <2>4, <3>4 DEF IsCommand
      <4>3. c.path \notin r.disk.dirs
        BY <2>8, <4>2 DEF Works
      <4>4. disk.dirs \subseteq d.dirs
        BY <3>2, <4>1, <4>2
      <4>5. \A j \in 1..m : commands[j].path \notin disk.dirs
        BY <2>5, <4>1, <4>3 DEF c
      <4> QED
        BY <3>1, <4>4, <4>5
    <3> HIDE DEF Says1, Dirs1, Whole
    <3> QED
      BY <3>1, <3>2, <3>3, <3>4
  <2> QED
    BY <2>3, <2>6, <2>7, <2>8 DEF RunOne, c
<1> HIDE DEF Good
<1>5. N \in S
  BY <1>1, <1>3, <1>4, Induct
<1>6. Good(N)
  BY <1>1, <1>5
<1>7. IsDisk(f[N].disk)
  BY <1>6 DEF Good
<1>8. ASSUME checkout, ~f[N].failed, NEW p \in Path
      PROVE  /\ ~Mentions(commands, Key1(p)) => BlobAt(f[N].disk.files, p) = BlobAt(disk.files, p)
             /\ \A v : Mentions(commands, Key1(p)) /\ LastSays(commands, Key1(p), v)
                       => BlobAt(f[N].disk.files, p) = v
  <2>1. Says1(N)
    BY <1>6, <1>8 DEF Good
  <2> HIDE DEF Key1
  <2>2. ~Mentions(commands, Key1(p)) => \A j \in 1..N : ~Touches(commands[j], Key1(p))
    BY DEF Mentions
  <2>3. ASSUME NEW v, Mentions(commands, Key1(p)), LastSays(commands, Key1(p), v)
        PROVE  BlobAt(f[N].disk.files, p) = v
    <3>1. PICK i \in 1..N : /\ Touches(commands[i], Key1(p))
                            /\ \A j \in 1..N : j > i => ~Touches(commands[j], Key1(p))
      BY <2>3, LastWord
    <3>2. Says(commands[i], Key1(p)) = v
      BY <2>3, <3>1 DEF LastSays
    <3> QED
      BY <2>1, <3>1, <3>2
  <2> QED
    BY <2>1, <2>2, <2>3
<1>9. ASSUME checkout, ~f[N].failed, Whole, NEW c \in Range(commands) PROVE c.path \notin disk.dirs
  <2>1. Dirs1(N)
    BY <1>6, <1>9 DEF Good
  <2> QED
    BY <1>1, <2>1
<1> QED
  BY <1>2, <1>7, <1>8, <1>9

-----------------------------------------------------------------------------
(* What a commit does *)

(* The tree without what a removal of e buries. *)
Bared(e, t) == Restrict(t, {q \in DOMAIN t : \A r \in e.removed : ~IsStrictPrefix(r, q)})

LEMMA BaredFacts ==
    ASSUME NEW t, TreeOK(t), NEW e
    PROVE  /\ TreeOK(Bared(e, t)) /\ \A p \in e.removed : ~IsFolder(Bared(e, t), p)
           /\ \A p : BlobAt(Bared(e, t), p) # <<>> => BlobAt(Bared(e, t), p) = BlobAt(t, p)
           /\ \A p : BlobAt(After(e, Bared(e, t)), p) = BlobAt(After(e, t), p)
<1> DEFINE b == Bared(e, t)
<1>1. /\ IsMap(b) /\ DOMAIN b = {q \in DOMAIN t : \A r \in e.removed : ~IsStrictPrefix(r, q)}
      /\ \A q \in DOMAIN b : b[q] = t[q]
  BY DEF Bared, Restrict, IsMap
<1> HIDE DEF b
<1>2. DOMAIN b \subseteq DOMAIN t
  BY <1>1
<1>3. IsFiniteSet(DOMAIN b)
  BY <1>2, FS_Subset DEF TreeOK
<1>4. TreeOK(b)
  BY <1>1, <1>2, <1>3 DEF TreeOK, WellFormed, IsFolder
<1>5. \A p \in e.removed : ~IsFolder(b, p)
  BY <1>1 DEF IsFolder
<1>6. \A p : BlobAt(b, p) # <<>> => BlobAt(b, p) = BlobAt(t, p)
  BY <1>1, <1>2 DEF BlobAt
<1>7. ASSUME NEW p PROVE BlobAt(After(e, b), p) = BlobAt(After(e, t), p)
  <2>1. /\ BlobAt(After(e, b), p) = IF p \in DOMAIN e.upserts THEN BlobAt(e.upserts, p)
                                    ELSE IF Covered(e, p) THEN <<>> ELSE BlobAt(b, p)
        /\ BlobAt(After(e, t), p) = IF p \in DOMAIN e.upserts THEN BlobAt(e.upserts, p)
                                    ELSE IF Covered(e, p) THEN <<>> ELSE BlobAt(t, p)
    BY AfterAt
  <2>2. ~Covered(e, p) => BlobAt(b, p) = BlobAt(t, p)
    BY <1>1 DEF Covered, IsStrictPrefix, BlobAt
  <2> QED
    BY <2>1, <2>2
<1> QED
  BY <1>4, <1>5, <1>6, <1>7 DEF b

(* The edits the operations make. *)
Fits(e, o) ==
    /\ IsEdit(e) /\ Separate(e)
    /\ \/ \E P : Tidy(e, Tip, P)
       \/ /\ o.does = "revert" /\ \E p \in e.removed : IsFolder(Tip, p)
          /\ Root \notin e.removed
          /\ \E P : Tidy(e, Bared(e, Tip), P)
          /\ \A c \in Range(e.disk) : c.do # "rmdir"
          /\ \A p \in e.removed : \E c \in Range(e.disk) : c.path = p

LEMMA TipFacts ==
    ASSUME TreesOK
    PROVE  /\ Len(history) \in Nat /\ Len(history) > 0 /\ DOMAIN history = 1..Len(history)
           /\ Tip = history[Len(history)] /\ TreeOK(Tip)
           /\ DOMAIN Tip \subseteq Legal /\ DOMAIN Tip \subseteq Path
<1>1. /\ Len(history) \in Nat /\ Len(history) > 0 /\ DOMAIN history = 1..Len(history)
  BY ListedFacts DEF TreesOK
<1>2. Tip = history[Len(history)]
  BY DEF Tip, Last
<1>3. TreeOK(Tip)
  BY <1>1, <1>2 DEF TreesOK
<1> QED
  BY <1>1, <1>2, <1>3, LegalFacts DEF TreeOK

LEMMA KeyPath ==
    ASSUME NEW k \in Key
    PROVE  \E p \in Path : PathKey(k) = <<"file", p>> /\ \A t : Carried(t, k) = BlobAt(t, p)
<1>1. CASE k \in {"file"} \X FilePath
  BY <1>1 DEF PathKey, FilePath, Carried
<1>2. CASE k \in {"order"} \X Path
  <2>1. IndexPath(k[2]) \in Path
    BY <1>2, LegalFacts
  <2> QED
    BY <1>2, <2>1 DEF PathKey, Carried
<1> QED
  BY <1>1, <1>2 DEF Key

LEMMA FitTells ==
    ASSUME TreesOK, NEW e, NEW o, Fits(e, o)
    PROVE  /\ Listed(Job(e.changes)) /\ \A x \in Range(Job(e.changes)) : IsEvent(x)
           /\ \A k \in Key :
                 /\ LastSays(Job(e.changes), k, Carried(After(e, Tip), k))
                 /\ ~Mentions(Job(e.changes), k)
                    /\ (Carried(After(e, Tip), k) # <<>> \/ \E P : Tidy(e, Tip, P))
                    => Carried(After(e, Tip), k) = Carried(Tip, k)
<1> DEFINE j == Job(e.changes)
           u == After(e, Tip)
<1>1. CASE \E P : Tidy(e, Tip, P)
  <2>1. IsEdit(e) /\ Faithful(e.changes, "file", e, Tip)
    BY <1>1 DEF Tidy, Honest
  <2> QED
    BY <2>1, FaithfulTells
<1>2. CASE (\E P : Tidy(e, Bared(e, Tip), P)) /\ ~\E P : Tidy(e, Tip, P)
  <2> DEFINE b == Bared(e, Tip)
             w == After(e, b)
  <2>1. IsEdit(e) /\ Faithful(e.changes, "file", e, b)
    BY <1>2 DEF Tidy, Honest
  <2>2. /\ Listed(j) /\ \A x \in Range(j) : IsEvent(x)
        /\ \A k \in Key : /\ ~Mentions(j, k) => Carried(w, k) = Carried(b, k)
                          /\ LastSays(j, k, Carried(w, k))
    BY <2>1, FaithfulTells
  <2>3. /\ \A p : BlobAt(b, p) # <<>> => BlobAt(b, p) = BlobAt(Tip, p)
        /\ \A p : BlobAt(w, p) = BlobAt(u, p)
    BY TipFacts, BaredFacts
  <2> HIDE DEF j, u, b, w
  <2>4. ASSUME NEW k \in Key
        PROVE  /\ LastSays(j, k, Carried(u, k))
               /\ ~Mentions(j, k) /\ Carried(u, k) # <<>> => Carried(u, k) = Carried(Tip, k)
    <3>1. PICK p \in Path : \A t : Carried(t, k) = BlobAt(t, p)
      BY KeyPath
    <3>2. Carried(w, k) = Carried(u, k)
      BY <2>3, <3>1
    <3>3. Carried(b, k) # <<>> => Carried(b, k) = Carried(Tip, k)
      BY <2>3, <3>1
    <3> QED
      BY <2>2, <3>2, <3>3
  <2> QED
    BY <1>2, <2>2, <2>4 DEF j, u
<1> QED
  BY <1>1, <1>2 DEF Fits

LEMMA AppendedHistory ==
    ASSUME TreesOK, NEW u, TreeOK(u), history' = Append(history, u)
    PROVE  TreesOK' /\ Tip' = u /\ Len(history') = Len(history) + 1
<1> DEFINE h == Append(history, u)
           n == Len(history)
<1>1. n \in Nat /\ n > 0 /\ Listed(history) /\ \A i \in 1..n : TreeOK(history[i])
  BY TipFacts DEF TreesOK
<1>2. history \in Seq(Range(history) \cup {u})
  <2>1. history \in Seq(Range(history))
    BY <1>1 DEF Listed
  <2> QED
    BY <2>1, SeqMonotonic
<1>3. /\ h \in Seq(Range(history) \cup {u}) /\ Len(h) = n + 1 /\ h[n + 1] = u
      /\ \A i \in 1..n : h[i] = history[i]
  BY <1>2, AppendProperties
<1>4. Listed(h)
  BY <1>3, ListedIn
<1> HIDE DEF h
<1>5. \A i \in 1..(n + 1) : TreeOK(h[i])
  <2>1. \A i \in 1..(n + 1) : i \in 1..n \/ i = n + 1
    BY <1>1
  <2> QED
    BY <1>1, <1>3, <2>1
<1>6. h # <<>>
  <2>1. Len(h) > 0
    BY <1>1, <1>3
  <2> QED
    BY <1>4, <2>1, ListedFacts
<1>7. Last(h) = u
  BY <1>3 DEF Last
<1>8. history' = h
  BY DEF h
<1> QED
  BY <1>3, <1>4, <1>5, <1>6, <1>7, <1>8 DEF TreesOK, Tip

LEMMA EventsOf ==
    ASSUME NEW s, Listed(s), \A x \in Range(s) : IsEvent(x)
    PROVE  Len(s) \in Nat /\ \A i \in 1..Len(s) : IsEvent(s[i])
<1>1. Len(s) \in Nat /\ Range(s) = {s[i] : i \in 1..Len(s)}
  BY ListedFacts
<1> QED
  BY <1>1

(* What the operation had done on disk when it could not go on, or all of  *)
(* it: the disk stays one.  The job tells the receiver.                    *)
LEMMA CommitKeeps ==
    ASSUME ContentInv, NEW e, NEW o, Fits(e, o), Commit(e, o)
    PROVE  /\ ContentInv'
           /\ history' # history => Applies(e, Tip) /\ Tip' = After(e, Tip) /\ job' = Job(e.changes)
<1> DEFINE run == Run(e.disk)
           u == After(e, Tip)
           done == ~run.failed /\ Applies(e, Tip)
<1>1. /\ TreesOK /\ Told /\ IsDisk(disk)
      /\ checkout \in BOOLEAN /\ torn \in BOOLEAN /\ swept \in BOOLEAN
      /\ checkout /\ ~torn => OnDisk(disk, Tip)
  BY DEF ContentInv
<1>2. TreeOK(Tip) /\ DOMAIN Tip \subseteq Legal /\ DOMAIN Tip \subseteq Path
  BY <1>1, TipFacts
<1>3. IsEdit(e) /\ Separate(e)
  BY DEF Fits
<1>4. Listed(e.disk) /\ \A c \in Range(e.disk) : IsCommand(c)
  BY <1>3 DEF IsEdit
<1>5. /\ disk' = run.disk /\ checkout' = checkout
      /\ done => /\ history' = Append(history, u) /\ job' = Job(e.changes)
                 /\ table' = Received(table, job') /\ torn' = torn
                 /\ swept' = (swept \/ (o.does = "revert" /\ \E p \in e.removed : IsFolder(Tip, p)))
      /\ ~done => /\ torn' = (torn \/ run.disk # disk)
                  /\ history' = history /\ swept' = swept /\ table' = table
  BY DEF Commit
<1> HIDE DEF run, u
<1>6. IsDisk(disk')
  BY <1>1, <1>4, <1>5, RunFacts DEF run
<1>7. CASE ~done
  <2>1. Tip' = Tip /\ TreesOK' /\ Told'
    BY <1>1, <1>5, <1>7 DEF Tip, TreesOK, Told
  <2>2. torn' \in BOOLEAN /\ checkout' \in BOOLEAN /\ swept' \in BOOLEAN
    BY <1>1, <1>5, <1>7
  <2>3. ASSUME checkout', ~torn' PROVE OnDisk(disk', Tip')
    <3>1. disk' = disk /\ checkout /\ ~torn
      BY <1>5, <1>7, <2>3
    <3> QED
      BY <1>1, <2>1, <3>1
  <2>4. IsDisk(disk)'
    BY <1>6 DEF IsDisk, IsMap
  <2>5. (checkout /\ ~torn => OnDisk(disk, Tip))'
    BY <2>3 DEF OnDisk
  <2>6. ContentInv'
    BY <2>1, <2>2, <2>4, <2>5 DEF ContentInv
  <2> QED
    BY <1>5, <1>7, <2>6
<1>8. CASE done
  <2>1. TreeOK(u)
    BY <1>2, <1>3, <1>8, AfterOK DEF u
  <2>2. TreesOK' /\ Tip' = u /\ Len(history') = Len(history) + 1
    BY <1>1, <1>5, <1>8, <2>1, AppendedHistory
  <2>3. /\ Listed(job') /\ \A x \in Range(job') : IsEvent(x)
        /\ \A k \in Key :
              /\ LastSays(job', k, Carried(u, k))
              /\ ~Mentions(job', k) /\ (Carried(u, k) # <<>> \/ \E P : Tidy(e, Tip, P))
                    => Carried(u, k) = Carried(Tip, k)
    BY <1>1, <1>5, <1>8, FitTells DEF u
  <2>4. Len(job') \in Nat /\ \A i \in 1..Len(job') : IsEvent(job'[i])
    BY <2>3, EventsOf
  <2>5. IsTable(table)
    BY <1>1 DEF Told
  <2>6. /\ IsTable(Received(table, job'))
        /\ \A k \in Key :
              /\ ~Mentions(job', k) => Held(Received(table, job'), k) = Held(table, k)
              /\ \A i \in 1..Len(job') :
                    Touches(job'[i], k) /\ (\A j \in 1..Len(job') : j > i => ~Touches(job'[j], k))
                    => Held(Received(table, job'), k) = Says(job'[i], k)
    BY <2>4, <2>5, ReceivedTells
  <2>7. swept' \in BOOLEAN /\ torn' \in BOOLEAN /\ checkout' \in BOOLEAN
    BY <1>1, <1>5, <1>8
  <2>8. ~swept' => ~swept /\ \E P : Tidy(e, Tip, P)
    BY <1>5, <1>8 DEF Fits
  <2>9. ASSUME NEW k \in Key, Carried(u, k) # <<>> \/ ~swept'
        PROVE  Held(table', k) = Carried(u, k)
    <3>1. table' = Received(table, job')
      BY <1>5, <1>8
    <3>2. CASE Mentions(job', k)
      <4>1. PICK i \in 1..Len(job') : /\ Touches(job'[i], k)
                                      /\ \A j \in 1..Len(job') : j > i => ~Touches(job'[j], k)
        BY <2>3, <3>2, LastWord
      <4>2. LastSays(job', k, Carried(u, k))
        BY <2>3
      <4>3. Says(job'[i], k) = Carried(u, k)
        BY <4>1, <4>2 DEF LastSays
      <4> QED
        BY <2>6, <3>1, <4>1, <4>3
    <3>3. CASE ~Mentions(job', k)
      <4>1. Held(table', k) = Held(table, k)
        BY <2>6, <3>1, <3>3
      <4>2. Carried(u, k) = Carried(Tip, k)
        BY <2>3, <2>8, <2>9, <3>3
      <4>3. Held(table, k) = Carried(Tip, k)
        BY <1>1, <2>8, <2>9, <4>2 DEF Told
      <4> QED
        BY <4>1, <4>2, <4>3
    <3> QED
      BY <3>2, <3>3
  <2>10. Told'
    <3>1. IsTable(table)'
      BY <1>5, <1>8, <2>6 DEF IsTable, IsMap
    <3>2. (\A k \in Key : Carried(Tip, k) # <<>> \/ ~swept => Held(table, k) = Carried(Tip, k))'
      BY <2>2, <2>9 DEF Held, Carried, BlobAt
    <3> QED
      BY <3>1, <3>2 DEF Told
  <2>11. ASSUME checkout', ~torn' PROVE OnDisk(disk', u)
    <3>1. checkout /\ ~torn /\ ~run.failed /\ OnDisk(disk, Tip)
      BY <1>1, <1>5, <1>8, <2>11
    <3>2. /\ \A p \in Path :
                /\ ~Mentions(e.disk, <<"disk", p>>) => BlobAt(run.disk.files, p) = BlobAt(disk.files, p)
                /\ \A v : Mentions(e.disk, <<"disk", p>>) /\ LastSays(e.disk, <<"disk", p>>, v)
                      => BlobAt(run.disk.files, p) = v
          /\ (\A c \in Range(e.disk) : c.do # "rmdir") => \A c \in Range(e.disk) : c.path \notin disk.dirs
      BY <1>1, <1>4, <3>1, RunFacts DEF run
    <3>3. \E P : Tidy(e, Tip, P)
      <4> SUFFICES ASSUME NEW p \in e.removed, IsFolder(Tip, p), p # Root,
                          \A c \in Range(e.disk) : c.do # "rmdir",
                          NEW c \in Range(e.disk), c.path = p,
                          NEW P, Tidy(e, Bared(e, Tip), P)
                   PROVE  FALSE
        BY DEF Fits
      <4>1. PICK q \in DOMAIN Tip : IsStrictPrefix(p, q)
        BY DEF IsFolder
      <4>2. q \in Path /\ BlobAt(disk.files, q) = <<Tip[q]>>
        BY <1>2, <3>1 DEF OnDisk, BlobAt
      <4>3. q \in DOMAIN disk.files
        BY <4>2 DEF BlobAt
      <4>4. p \in Path
        BY <1>3 DEF IsEdit
      <4>6. p \in disk.dirs
        BY <1>1, <4>1, <4>2, <4>3, <4>4, AncestorsFacts DEF IsDisk
      <4> QED
        BY <3>2, <4>6
    <3>4. Faithful(e.disk, "disk", e, Tip)
      BY <3>3 DEF Tidy, Honest
    <3>5. \A p \in Path :
             /\ ~Mentions(e.disk, <<"disk", p>>) => BlobAt(u, p) = BlobAt(Tip, p)
             /\ LastSays(e.disk, <<"disk", p>>, BlobAt(u, p))
      BY <3>4, EditTells DEF u
    <3> SUFFICES ASSUME NEW p \in Path PROVE BlobAt(run.disk.files, p) = BlobAt(u, p)
      BY <1>5 DEF OnDisk
    <3>6. CASE Mentions(e.disk, <<"disk", p>>)
      BY <3>2, <3>5, <3>6
    <3>7. CASE ~Mentions(e.disk, <<"disk", p>>)
      <4>1. BlobAt(disk.files, p) = BlobAt(Tip, p)
        BY <3>1 DEF OnDisk
      <4> QED
        BY <3>2, <3>5, <3>7, <4>1
    <3> QED
      BY <3>6, <3>7
  <2>12. IsDisk(disk)'
    BY <1>6 DEF IsDisk, IsMap
  <2>13. (checkout /\ ~torn => OnDisk(disk, Tip))'
    BY <2>2, <2>11 DEF OnDisk
  <2>14. ContentInv'
    BY <2>2, <2>7, <2>10, <2>12, <2>13 DEF ContentInv
  <2> QED
    BY <1>5, <1>8, <2>2, <2>14 DEF u
<1> QED
  BY <1>7, <1>8

-----------------------------------------------------------------------------
(* The operations *)

LEMMA TidyFits == ASSUME NEW e, NEW o, NEW P, Tidy(e, Tip, P) PROVE Fits(e, o)
  BY DEF Fits, Tidy, Honest

LEMMA OpFacts ==
    \A does, p : /\ Op(does, p).does = does /\ Op(does, p).commit = 0
                 /\ [Op(does, p) EXCEPT !.entry = 1].does = does
  BY DEF Op, NoOp

(* An operation that is no revert and no rollback. *)
Edits ==
    \E e, o : /\ Fits(e, o) /\ Commit(e, o) /\ o.does \notin {"revert", "rollback"}
              /\ WellTyped(Tip) => WellTyped(e.upserts)

LEMMA FilesEdit ==
    ASSUME ContentInv, NEW p \in Paths
    PROVE  /\ \A c \in Content : PutFile(p, c) => Edits
           /\ RemoveFile(p) \/ RemoveDirectory(p) \/ Unpin(p) => Edits
           /\ \A q \in Paths : Rename(p, q) \/ RenameDirectory(p, q) => Edits
<1>1. TreeOK(Tip) /\ DOMAIN Tip \subseteq Legal
  BY TipFacts DEF ContentInv
<1>2. \A q \in Paths : q \in Seq(Name) /\ q # Root /\ Parent(q) \in Seq(Name)
  BY ContentConstants, PathFacts
<1>3. ASSUME NEW c \in Content, PutFile(p, c) PROVE Edits
  <2>1. Tidy(WriteFile(Tip, p, c), Tip, {p})
    BY <1>1, <1>2, FileEdits
  <2>2. Commit(WriteFile(Tip, p, c), Op("write", p))
    BY <1>3 DEF PutFile
  <2>3. Op("write", p).does = "write"
    BY OpFacts
  <2>4. WellTyped(Tip) => WellTyped(WriteFile(Tip, p, c).upserts)
    BY <1>2, FileTyped
  <2> QED
    BY <2>1, <2>2, <2>3, <2>4, TidyFits DEF Edits
<1>4. ASSUME RemoveFile(p) PROVE Edits
  <2>1. Tidy(DeleteFile(Tip, p), Tip, {p, IndexPath(Parent(p))})
    BY <1>1, <1>2, <1>4, FileEdits DEF RemoveFile, CanDeleteFile
  <2>2. Commit(DeleteFile(Tip, p), Op("delete", p))
    BY <1>4 DEF RemoveFile
  <2>3. Op("delete", p).does = "delete"
    BY OpFacts
  <2>4. WellTyped(Tip) => WellTyped(DeleteFile(Tip, p).upserts)
    BY <1>2, FileTyped
  <2> QED
    BY <2>1, <2>2, <2>3, <2>4, TidyFits DEF Edits
<1>5. ASSUME RemoveDirectory(p) PROVE Edits
  <2>1. Tidy(DeleteDirectory(Tip, p), Tip, Under(p) \cup {IndexPath(Parent(p))})
    BY <1>1, <1>2, <1>5, DeleteDirectoryFacts DEF RemoveDirectory
  <2>2. Commit(DeleteDirectory(Tip, p), Op("delete", p))
    BY <1>5 DEF RemoveDirectory
  <2>3. Op("delete", p).does = "delete"
    BY OpFacts
  <2>4. WellTyped(Tip) => WellTyped(DeleteDirectory(Tip, p).upserts)
    BY <1>2, FileTyped
  <2> QED
    BY <2>1, <2>2, <2>3, <2>4, TidyFits DEF Edits
<1>6. ASSUME Unpin(p) PROVE Edits
  <2> DEFINE o == [Op("unpin", Parent(p)) EXCEPT !.entry = Leaf(p)]
             e == StageIndex(Tip, Parent(p), Unlisted(Tip, p))
  <2>1. Tidy(e, Tip, {IndexPath(Parent(p))})
    BY <1>1, <1>2, StageIndexFacts
  <2>2. Commit(e, o)
    BY <1>6 DEF Unpin
  <2>3. o.does = "unpin"
    BY DEF Op, NoOp
  <2>4. WellTyped(Tip) => WellTyped(e.upserts)
    BY <1>1, <1>2, OrdersTyped
  <2> HIDE DEF e, o
  <2> QED
    BY <2>1, <2>2, <2>3, <2>4, TidyFits DEF Edits
<1>7. ASSUME NEW q \in Paths, Rename(p, q) PROVE Edits
  <2>1. Tidy(MoveFile(Tip, p, q), Tip, {p, q, IndexPath(Parent(p)), IndexPath(Parent(q))})
    BY <1>1, <1>2, <1>7, MoveFileFacts DEF Rename
  <2>2. Commit(MoveFile(Tip, p, q), MoveOp(p, q))
    BY <1>7 DEF Rename
  <2>3. MoveOp(p, q).does = "move"
    BY DEF MoveOp, Op, NoOp
  <2>4. WellTyped(Tip) => WellTyped(MoveFile(Tip, p, q).upserts)
    BY <1>2, <1>7, MoveFileTyped DEF Rename, CanMoveFile
  <2> QED
    BY <2>1, <2>2, <2>3, <2>4, TidyFits DEF Edits
<1>8. ASSUME NEW q \in Paths, RenameDirectory(p, q) PROVE Edits
  <2>1. Tidy(MoveDirectory(Tip, p, q), Tip,
             (Under(p) \cup Under(q)) \cup {IndexPath(Parent(p)), IndexPath(Parent(q))})
    BY <1>1, <1>2, <1>8, MoveDirectoryFacts DEF RenameDirectory
  <2>2. Commit(MoveDirectory(Tip, p, q), MoveOp(p, q))
    BY <1>8 DEF RenameDirectory
  <2>3. MoveOp(p, q).does = "move"
    BY DEF MoveOp, Op, NoOp
  <2>4. WellTyped(Tip) => WellTyped(MoveDirectory(Tip, p, q).upserts)
    BY <1>1, <1>2, MoveDirectoryTyped
  <2> QED
    BY <2>1, <2>2, <2>3, <2>4, TidyFits DEF Edits
<1> QED
  BY <1>3, <1>4, <1>5, <1>6, <1>7, <1>8

LEMMA OrdersEdit ==
    ASSUME ContentInv
    PROVE  /\ \A d \in Folders, ns \in Orders : \A hidden : PutOrder(d, ns, hidden) => Edits
           /\ \A p \in Paths, position \in Nat, implicit \in Implicit : \A hidden :
                 Reorder(p, position, implicit, hidden) => Edits
           /\ \A d \in Folders : RemoveOrder(d) => Edits
<1>1. TreeOK(Tip) /\ DOMAIN Tip \subseteq Legal
  BY TipFacts DEF ContentInv
<1>2. /\ \A q \in Paths : Parent(q) \in Seq(Name)
      /\ \A q \in Paths : q \in Seq(Name) /\ q # Root
      /\ \A d \in Folders : d \in Seq(Name)
  <2>1. \A q \in Paths : Parent(q) \in Seq(Name) /\ q \in Seq(Name) /\ q # Root
    BY ContentConstants, PathFacts
  <2>2. Root \in Seq(Name)
    BY DEF Root
  <2> QED
    BY <2>1, <2>2 DEF Folders
<1>s. Orders \subseteq Seq(Name) /\ Implicit \subseteq Nat
  BY ContentConstants
<1>3. ASSUME NEW d \in Folders, NEW ns \in Orders, NEW hidden, PutOrder(d, ns, hidden) PROVE Edits
  <2>1. Tidy(WriteOrder(Tip, d, ns), Tip, {IndexPath(d)})
    BY <1>1, <1>2, StageIndexFacts DEF WriteOrder
  <2>2. Commit(WriteOrder(Tip, d, ns), Op("order", d))
    BY <1>3 DEF PutOrder
  <2>3. Op("order", d).does = "order"
    BY OpFacts
  <2>4. WellTyped(Tip) => WellTyped(WriteOrder(Tip, d, ns).upserts)
    BY <1>1, <1>2, <1>s, OrdersTyped
  <2> QED
    BY <2>1, <2>2, <2>3, <2>4, TidyFits DEF Edits
<1>4. ASSUME NEW p \in Paths, NEW position \in Nat, NEW implicit \in Implicit, NEW hidden,
             Reorder(p, position, implicit, hidden)
      PROVE  Edits
  <2> DEFINE o == [Op("reorder", Parent(p)) EXCEPT !.entry = Leaf(p), !.implicit = implicit]
             e == StageIndex(Tip, Parent(p), Positioned(Tip, p, position, implicit, hidden))
  <2>1. Tidy(e, Tip, {IndexPath(Parent(p))})
    BY <1>1, <1>2, StageIndexFacts
  <2>2. Commit(e, o)
    BY <1>4 DEF Reorder
  <2>3. o.does = "reorder"
    BY DEF Op, NoOp
  <2>4. WellTyped(Tip) => WellTyped(e.upserts)
    BY <1>1, <1>2, <1>s, OrdersTyped
  <2> HIDE DEF e, o
  <2> QED
    BY <2>1, <2>2, <2>3, <2>4, TidyFits DEF Edits
<1>5. ASSUME NEW d \in Folders, RemoveOrder(d) PROVE Edits
  <2>1. Tidy(StageIndex(Tip, d, <<>>), Tip, {IndexPath(d)})
    BY <1>1, <1>2, StageIndexFacts
  <2>2. Commit(StageIndex(Tip, d, <<>>), Op("order", d))
    BY <1>5 DEF RemoveOrder
  <2>3. Op("order", d).does = "order"
    BY OpFacts
  <2>4. WellTyped(Tip) => WellTyped(StageIndex(Tip, d, <<>>).upserts)
    BY <1>1, <1>2, OrdersTyped
  <2> QED
    BY <2>1, <2>2, <2>3, <2>4, TidyFits DEF Edits
<1> QED
  BY <1>3, <1>4, <1>5

LEMMA RevertEdits ==
    ASSUME ContentInv, NEW k \in DOMAIN history, RevertCommit(k)
    PROVE  /\ k \in 2..Len(history) /\ TreeOK(history[k - 1]) /\ TreeOK(history[k])
           /\ \E o : \E R \in Renames(history[k - 1], history[k]) :
                 /\ Fits(Revert(history[k - 1], history[k], R), o)
                 /\ Commit(Revert(history[k - 1], history[k], R), o)
                 /\ o.does = "revert" /\ o.commit = k
<1> DEFINE t == history[k - 1]
           u == history[k]
           o == [Op("revert", Root) EXCEPT !.commit = k]
<1>1. /\ Len(history) \in Nat /\ DOMAIN history = 1..Len(history) /\ TreeOK(Tip)
      /\ \A i \in 1..Len(history) : TreeOK(history[i])
  BY TipFacts DEF ContentInv, TreesOK
<1>2. k > 1 /\ k \in 1..Len(history)
  BY <1>1 DEF RevertCommit
<1>3. k \in 2..Len(history) /\ k - 1 \in 1..Len(history)
  BY <1>1, <1>2
<1>4. TreeOK(t) /\ TreeOK(u)
  BY <1>1, <1>2, <1>3
<1>5. PICK R \in Renames(t, u) : Commit(Revert(t, u, R), o)
  BY DEF RevertCommit
<1>6. o.does = "revert" /\ o.commit = k
  BY DEF Op, NoOp
<1> DEFINE e == Revert(t, u, R)
<1> HIDE DEF t, u, o
<1>7. /\ IsEdit(e) /\ Separate(e)
      /\ \A p : p \in e.removed <=> p \in Gone(u, t)
      /\ \A head : TreeOK(head) /\ (\A p \in Gone(u, t) : ~IsFolder(head, p))
                   => \E P : Tidy(e, head, P)
      /\ \A c \in Range(e.disk) : c.do # "rmdir"
      /\ \A p \in e.removed : \E c \in Range(e.disk) : c.path = p
  BY <1>4, RevertFacts
<1> HIDE DEF e
<1>8. Fits(e, o)
  <2>1. CASE \A p \in e.removed : ~IsFolder(Tip, p)
    <3>1. \E P : Tidy(e, Tip, P)
      BY <1>1, <1>7, <2>1
    <3> QED
      BY <3>1, TidyFits
  <2>2. CASE \E p \in e.removed : IsFolder(Tip, p)
    <3>1. TreeOK(Bared(e, Tip)) /\ \A p \in e.removed : ~IsFolder(Bared(e, Tip), p)
      BY <1>1, BaredFacts
    <3>2. \E P : Tidy(e, Bared(e, Tip), P)
      BY <1>7, <3>1
    <3>3. Root \notin e.removed
      BY <1>4, <1>7, LegalFacts DEF Gone, TreeOK
    <3> QED
      BY <1>6, <1>7, <2>2, <3>2, <3>3 DEF Fits
  <2> QED
    BY <2>1, <2>2
<1> QED
  BY <1>3, <1>4, <1>5, <1>6, <1>8 DEF t, u, e

LEMMA RollbackEdits ==
    ASSUME ContentInv, NEW k \in DOMAIN history, RollbackCommit(k)
    PROVE  \E t, o : \E R \in Renames(t, history[k]) :
              /\ t = (IF k = 1 THEN EmptyTree ELSE history[k - 1])
              /\ TreeOK(t) /\ TreeOK(history[k])
              /\ Fits(Rollback(Tip, t, history[k], R), o)
              /\ Commit(Rollback(Tip, t, history[k], R), o)
              /\ o.does = "rollback" /\ o.commit = k
<1> DEFINE t == IF k = 1 THEN EmptyTree ELSE history[k - 1]
           u == history[k]
           o == [Op("rollback", Root) EXCEPT !.commit = k]
<1>1. /\ Len(history) \in Nat /\ DOMAIN history = 1..Len(history) /\ TreeOK(Tip)
      /\ \A i \in 1..Len(history) : TreeOK(history[i])
  BY TipFacts DEF ContentInv, TreesOK
<1>2. TreeOK(EmptyTree)
  <2>1. DOMAIN EmptyTree = {} /\ IsMap(EmptyTree)
    BY DEF EmptyTree, IsMap
  <2> QED
    BY <2>1, FS_EmptySet DEF TreeOK, WellFormed, IsFolder
<1>3. TreeOK(t) /\ TreeOK(u)
  <2>1. k # 1 => k - 1 \in 1..Len(history)
    BY <1>1
  <2> QED
    BY <1>1, <1>2, <2>1
<1>4. PICK R \in Renames(t, u) : Commit(Rollback(Tip, t, u, R), o)
  BY DEF RollbackCommit
<1>5. o.does = "rollback" /\ o.commit = k
  BY DEF Op, NoOp
<1> HIDE DEF t, o
<1>6. \E P : Tidy(Rollback(Tip, t, u, R), Tip, P)
  BY <1>1, <1>3, RollbackFacts
<1>7. Fits(Rollback(Tip, t, u, R), o)
  BY <1>6, TidyFits
<1>8. t = (IF k = 1 THEN EmptyTree ELSE history[k - 1])
  BY DEF t
<1> QED
  BY <1>3, <1>4, <1>5, <1>7, <1>8

(* What a step is, of which only the operation matters to the invariant.   *)
LEMMA NextIs ==
    ASSUME ContentInv, Next
    PROVE  \/ Heal \/ Edits
           \/ \E k \in DOMAIN history : RevertCommit(k) \/ RollbackCommit(k)
<1>1. CASE \E p \in Paths, c \in Content : PutFile(p, c)
  BY <1>1, FilesEdit
<1>2. CASE \E p \in Paths : RemoveFile(p) \/ RemoveDirectory(p) \/ Unpin(p)
  BY <1>2, FilesEdit
<1>3. CASE \E p, q \in Paths : Rename(p, q) \/ RenameDirectory(p, q)
  BY <1>3, FilesEdit
<1>4. CASE \E d \in Folders, ns \in Orders, hidden \in BOOLEAN : PutOrder(d, ns, hidden)
  BY <1>4, OrdersEdit
<1>5. CASE \E p \in Paths, position \in 0..Cardinality(Name), implicit \in Implicit,
              hidden \in BOOLEAN : Reorder(p, position, implicit, hidden)
  <2>1. 0..Cardinality(Name) \subseteq Nat
    OBVIOUS
  <2> QED
    BY <1>5, <2>1, OrdersEdit
<1>6. CASE \E d \in Folders : RemoveOrder(d)
  BY <1>6, OrdersEdit
<1> QED
  BY <1>1, <1>2, <1>3, <1>4, <1>5, <1>6 DEF Next

(* Whatever the step, it is a commit, and one the invariant survives.      *)
LEMMA StepCommits ==
    ASSUME ContentInv, Next
    PROVE  Heal \/ \E e, o : Fits(e, o) /\ Commit(e, o)
<1>1. ASSUME NEW k \in DOMAIN history, RevertCommit(k)
      PROVE  \E e, o : Fits(e, o) /\ Commit(e, o)
  BY <1>1, RevertEdits
<1>2. ASSUME NEW k \in DOMAIN history, RollbackCommit(k)
      PROVE  \E e, o : Fits(e, o) /\ Commit(e, o)
  BY <1>2, RollbackEdits
<1> QED
  BY <1>1, <1>2, NextIs DEF Edits

LEMMA HealKeeps == ASSUME ContentInv, Heal PROVE ContentInv'
<1>1. /\ TreesOK /\ Told /\ IsDisk(disk) /\ swept \in BOOLEAN
      /\ TreeOK(Tip) /\ DOMAIN Tip \subseteq Path
  BY TipFacts DEF ContentInv
<1>2. PICK kept : disk' = Healed(disk, Tip, kept)
  BY DEF Heal
<1>3. /\ history' = history /\ table' = table /\ swept' = swept
      /\ checkout' = TRUE /\ torn' = FALSE
  BY DEF Heal
<1>4. Tip' = Tip /\ TreesOK' /\ Told'
  BY <1>1, <1>3 DEF Tip, TreesOK, Told
<1>5. disk' = [files |-> Tip, dirs |-> kept \cup UNION {Ancestors(p) : p \in DOMAIN Tip}]
  BY <1>2 DEF Healed
<1>6. IsDisk(disk')
  BY <1>1, <1>5 DEF IsDisk, TreeOK
<1>7. OnDisk(disk', Tip)
  BY <1>5 DEF OnDisk
<1>8. IsDisk(disk)'
  BY <1>6 DEF IsDisk, IsMap
<1>9. OnDisk(disk, Tip)'
  BY <1>4, <1>7 DEF OnDisk
<1> QED
  BY <1>1, <1>3, <1>4, <1>8, <1>9 DEF ContentInv

LEMMA InitOK == ASSUME Init PROVE ContentInv
<1>1. DOMAIN EmptyTree = {} /\ IsMap(EmptyTree)
  BY DEF EmptyTree, IsMap
<1>2. TreeOK(EmptyTree)
  BY <1>1, FS_EmptySet DEF TreeOK, WellFormed, IsFolder
<1>3. /\ Listed(history) /\ history # <<>> /\ Len(history) = 1 /\ history[1] = EmptyTree
  BY OutcomeOne DEF Init
<1>4. TreesOK /\ Tip = EmptyTree
  BY <1>2, <1>3 DEF TreesOK, Tip, Last
<1>5. Told
  <2>1. IsTable(table)
    <3>1. /\ table = [files |-> EmptyTree, orders |-> <<>>] /\ <<>> = EmptyTree
      BY DEF Init, NothingTold, EmptyTree
    <3> QED
      BY <1>1, <3>1, FS_EmptySet, TableFacts
  <2>2. \A k : Held(table, k) = <<>> /\ Carried(EmptyTree, k) = <<>>
    BY DEF Init, NothingTold, EmptyTree, Held, Carried, BlobAt
  <2> QED
    BY <1>4, <2>1, <2>2 DEF Told
<1>6. /\ disk = [files |-> EmptyTree, dirs |-> {}]
      /\ checkout \in BOOLEAN /\ torn \in BOOLEAN /\ swept \in BOOLEAN
  BY DEF Init
<1>7. IsDisk(disk) /\ OnDisk(disk, Tip)
  BY <1>1, <1>4, <1>6 DEF IsDisk, OnDisk
<1> QED
  BY <1>4, <1>5, <1>6, <1>7 DEF ContentInv

LEMMA NextKeeps == ASSUME ContentInv, [Next]_vars PROVE ContentInv'
<1>1. CASE Next
  <2>1. CASE Heal
    BY <2>1, HealKeeps
  <2>2. CASE \E e, o : Fits(e, o) /\ Commit(e, o)
    BY <2>2, CommitKeeps
  <2> QED
    BY <1>1, <2>1, <2>2, StepCommits
<1>2. CASE UNCHANGED vars
  <2>1. /\ history' = history /\ table' = table /\ swept' = swept
        /\ checkout' = checkout /\ torn' = torn /\ disk' = disk
    BY <1>2 DEF vars
  <2>2. Tip' = Tip /\ TreesOK' /\ Told'
    BY <2>1 DEF ContentInv, Tip, TreesOK, Told
  <2>3. IsDisk(disk)' /\ (OnDisk(disk, Tip) => OnDisk(disk, Tip)')
    BY <2>1, <2>2 DEF ContentInv, IsDisk, IsMap, OnDisk
  <2> QED
    BY <2>1, <2>2, <2>3 DEF ContentInv
<1> QED
  BY <1>1, <1>2

(* At every moment the trees of the history are trees, the disk is one,    *)
(* the receiver has been told what HEAD has, and a node that keeps files   *)
(* and was not left half way has those of HEAD.                            *)
THEOREM ContentIsRight == Spec => []ContentInv
<1>1. Init => ContentInv
  BY InitOK
<1>2. ContentInv /\ [Next]_vars => ContentInv'
  BY NextKeeps
<1> QED
  BY <1>1, <1>2, PTL DEF Spec

-----------------------------------------------------------------------------
(* What a client can rely on *)

LEMMA MapsAlike ==
    ASSUME NEW f, IsMap(f), NEW g, IsMap(g), \A p \in DOMAIN f \cup DOMAIN g : BlobAt(f, p) = BlobAt(g, p)
    PROVE  f = g
<1>1. \A p \in DOMAIN f \cup DOMAIN g :
         /\ p \in DOMAIN f /\ p \in DOMAIN g
         /\ f[p] = g[p]
  BY DEF BlobAt
<1>2. DOMAIN f = DOMAIN g /\ \A p \in DOMAIN f : f[p] = g[p]
  BY <1>1
<1> QED
  BY <1>2 DEF IsMap

(* A receiver that holds for every key what the tree carries holds its     *)
(* table.                                                                  *)
LEMMA TableIs ==
    ASSUME NEW h, IsTable(h), NEW t, TreeOK(t), \A k \in Key : Held(h, k) = Carried(t, k)
    PROVE  h = TableOf(t)
<1> DEFINE F == {p \in DOMAIN t : ~IsIndex(p)}
           D == {Parent(p) : p \in DOMAIN t \ F}
           fs == Restrict(t, F)
           os == [d \in D |-> t[IndexPath(d)]]
<1>1. TableOf(t) = [files |-> fs, orders |-> os]
  BY DEF TableOf
<1>2. /\ IsMap(h.files) /\ IsMap(h.orders) /\ h = [files |-> h.files, orders |-> h.orders]
      /\ DOMAIN h.files \subseteq FilePath /\ DOMAIN h.orders \subseteq Path
  BY DEF IsTable
<1>3. DOMAIN t \subseteq Legal /\ Legal \subseteq Path
  BY LegalFacts DEF TreeOK
<1>4. h.files = fs
  <2>1. IsMap(fs) /\ DOMAIN fs = F /\ \A p \in F : fs[p] = t[p]
    BY DEF Restrict, IsMap
  <2>2. \A p \in FilePath : BlobAt(fs, p) = BlobAt(t, p)
    BY <2>1 DEF BlobAt, FilePath
  <2>3. ASSUME NEW p \in FilePath PROVE BlobAt(h.files, p) = BlobAt(t, p)
    <3> DEFINE k == <<"file", p>>
    <3>1. k \in Key /\ Held(h, k) = BlobAt(h.files, p) /\ Carried(t, k) = BlobAt(t, p)
      BY DEF Key, Held, Carried, PathKey
    <3> QED
      BY <3>1
  <2>4. DOMAIN fs \subseteq FilePath
    BY <1>3, <2>1 DEF FilePath
  <2> HIDE DEF fs
  <2> QED
    BY <1>2, <2>1, <2>2, <2>3, <2>4, MapsAlike
<1>5. h.orders = os
  <2>1. IsMap(os) /\ DOMAIN os = D /\ \A d \in D : os[d] = t[IndexPath(d)]
    BY DEF IsMap
  <2>2. ASSUME NEW d \in Path PROVE d \in D <=> IndexPath(d) \in DOMAIN t
    <3>1. IsIndex(IndexPath(d)) /\ Parent(IndexPath(d)) = d
      BY LegalFacts
    <3>2. ASSUME d \in D PROVE IndexPath(d) \in DOMAIN t
      <4>1. PICK p \in DOMAIN t \ F : d = Parent(p)
        BY <3>2
      <4>2. p = IndexPath(Parent(p))
        BY <1>3, <4>1, LegalFacts
      <4> QED
        BY <4>1, <4>2
    <3> QED
      BY <3>1, <3>2
  <2>3. D \subseteq Path
    <3>1. \A p \in DOMAIN t \ F : Parent(p) \in Path
      BY <1>3, LegalFacts
    <3> QED
      BY <3>1
  <2> HIDE DEF D, os
  <2>4. \A d \in Path : BlobAt(os, d) = BlobAt(t, IndexPath(d))
    BY <2>1, <2>2 DEF BlobAt
  <2>5. ASSUME NEW d \in Path PROVE BlobAt(h.orders, d) = BlobAt(t, IndexPath(d))
    <3> DEFINE k == <<"order", d>>
    <3>1. k \in Key /\ Held(h, k) = BlobAt(h.orders, d) /\ Carried(t, k) = BlobAt(t, IndexPath(d))
      BY DEF Key, Held, Carried, PathKey
    <3> QED
      BY <3>1
  <2> QED
    BY <1>2, <2>1, <2>3, <2>4, <2>5, MapsAlike
<1> QED
  BY <1>1, <1>2, <1>4, <1>5

(* Whatever the operations and however a diff pairs renames, a receiver    *)
(* told of every commit holds the files and the orders of HEAD, until a    *)
(* revert has taken a whole folder for the file it removes: FileChange and *)
(* HookJob::new lose nothing.                                              *)
THEOREM ReceiversAreTold == Spec => []EventsTellTheCommit
<1>1. ContentInv => EventsTellTheCommit
  <2> SUFFICES ASSUME ContentInv, ~swept PROVE table = TableOf(Tip)
    BY DEF EventsTellTheCommit
  <2>1. IsTable(table) /\ \A k \in Key : Held(table, k) = Carried(Tip, k)
    BY DEF ContentInv, Told
  <2>2. TreeOK(Tip)
    BY TipFacts DEF ContentInv
  <2> QED
    BY <2>1, <2>2, TableIs
<1> QED
  BY <1>1, ContentIsRight, PTL

(* The files on disk of a node that keeps them are those of HEAD, unless   *)
(* an operation failed half way: what each write mirrors is what it        *)
(* commits.                                                                *)
THEOREM DiskFollowsHead == Spec => []DiskMirrorsHead
<1>1. ContentInv => DiskMirrorsHead
  <2> SUFFICES ASSUME ContentInv, checkout, ~torn PROVE disk.files = Tip
    BY DEF DiskMirrorsHead
  <2>1. TreeOK(Tip) /\ DOMAIN Tip \subseteq Path
    BY TipFacts DEF ContentInv
  <2>2. /\ IsMap(disk.files) /\ DOMAIN disk.files \subseteq Path
        /\ \A p \in Path : BlobAt(disk.files, p) = BlobAt(Tip, p)
    BY DEF ContentInv, IsDisk, OnDisk
  <2> QED
    BY <2>1, <2>2, MapsAlike DEF TreeOK
<1> QED
  BY <1>1, ContentIsRight, PTL

(* Undoing what a commit did to a tree leaves the tree before it.          *)
LEMMA RevertRestores ==
    ASSUME NEW t, TreeOK(t), NEW u, TreeOK(u), NEW R \in Renames(t, u)
    PROVE  After(Revert(t, u, R), u) = t
<1> DEFINE e == Revert(t, u, R)
           w == After(e, u)
<1>1. /\ \A p : p \in e.removed <=> p \in Gone(u, t)
      /\ \A p : p \in DOMAIN e.upserts
                <=> p \in Gone(t, u) \/ (p \in DOMAIN t \cap DOMAIN u /\ t[p] # u[p])
      /\ \A p \in DOMAIN e.upserts : e.upserts[p] = t[p]
  BY RevertFacts
<1>2. /\ IsMap(w)
      /\ \A p : BlobAt(w, p) = IF p \in DOMAIN e.upserts THEN BlobAt(e.upserts, p)
                               ELSE IF Covered(e, p) THEN <<>> ELSE BlobAt(u, p)
  BY AfterAt
<1> HIDE DEF e, w
<1>3. /\ DOMAIN t \subseteq Path /\ DOMAIN u \subseteq Path
      /\ \A p, q \in DOMAIN u : ~IsStrictPrefix(p, q)
  BY LegalFacts DEF TreeOK, WellFormed, IsFolder
<1>4. ASSUME NEW p PROVE BlobAt(w, p) = BlobAt(t, p)
  <2>1. CASE p \in DOMAIN e.upserts
    <3>1. p \in DOMAIN t /\ e.upserts[p] = t[p]
      BY <1>1, <2>1 DEF Gone
    <3> QED
      BY <1>2, <2>1, <3>1 DEF BlobAt
  <2>2. CASE p \notin DOMAIN e.upserts /\ p \in DOMAIN t
    <3>1. p \in DOMAIN u /\ t[p] = u[p]
      BY <1>1, <2>2 DEF Gone
    <3>2. ~Covered(e, p)
      <4> SUFFICES ASSUME NEW r \in e.removed, IsPrefix(r, p) PROVE FALSE
        BY DEF Covered
      <4>1. r \in DOMAIN u /\ r \notin DOMAIN t
        BY <1>1 DEF Gone
      <4> QED
        BY <1>3, <2>2, <3>1, <4>1 DEF IsStrictPrefix
    <3> QED
      BY <1>2, <2>2, <3>1, <3>2 DEF BlobAt
  <2>3. CASE p \notin DOMAIN e.upserts /\ p \notin DOMAIN t
    <3>1. BlobAt(t, p) = <<>>
      BY <2>3 DEF BlobAt
    <3>2. CASE p \in DOMAIN u
      <4>1. p \in e.removed /\ p \in Path
        BY <1>1, <1>3, <2>3, <3>2 DEF Gone
      <4>2. Covered(e, p)
        BY <4>1, PrefixFacts DEF Covered
      <4> QED
        BY <1>2, <2>3, <3>1, <4>2
    <3>3. CASE p \notin DOMAIN u
      BY <1>2, <2>3, <3>1, <3>3 DEF BlobAt
    <3> QED
      BY <3>2, <3>3
  <2> QED
    BY <2>1, <2>2, <2>3
<1>5. w = t
  BY <1>2, <1>4, MapsAlike DEF TreeOK
<1> QED
  BY <1>5 DEF w, e

(* A rollback leaves each path a commit changed as the commit left it.     *)
LEMMA RollbackRestores ==
    ASSUME NEW head, TreeOK(head), NEW t, TreeOK(t), NEW u, TreeOK(u), NEW R \in Renames(t, u),
           NEW p \in DOMAIN t \cup DOMAIN u, ~(p \in DOMAIN t \cap DOMAIN u /\ t[p] = u[p])
    PROVE  BlobAt(After(Rollback(head, t, u, R), head), p) = BlobAt(u, p)
<1> DEFINE e == Rollback(head, t, u, R)
           w == After(e, head)
<1>1. /\ \A q : q \in e.removed <=> q \in Gone(t, u) /\ q \in DOMAIN head
      /\ \A q : q \in DOMAIN e.upserts
                <=> /\ q \in Gone(u, t) \/ (q \in DOMAIN t \cap DOMAIN u /\ t[q] # u[q])
                    /\ ~(q \in DOMAIN head /\ head[q] = u[q])
      /\ \A q \in DOMAIN e.upserts : e.upserts[q] = u[q]
  BY RollbackFacts
<1>2. BlobAt(w, p) = IF p \in DOMAIN e.upserts THEN BlobAt(e.upserts, p)
                     ELSE IF Covered(e, p) THEN <<>> ELSE BlobAt(head, p)
  BY AfterAt
<1> HIDE DEF e, w
<1>3. /\ DOMAIN t \subseteq Path /\ DOMAIN u \subseteq Path
      /\ \A q, r \in DOMAIN head : ~IsStrictPrefix(q, r)
  BY LegalFacts DEF TreeOK, WellFormed, IsFolder
<1>4. ASSUME p \in DOMAIN e.upserts PROVE BlobAt(w, p) = BlobAt(u, p)
  <2>1. p \in DOMAIN u /\ e.upserts[p] = u[p]
    BY <1>1, <1>4 DEF Gone
  <2> QED
    BY <1>2, <1>4, <2>1 DEF BlobAt
<1>5. ASSUME p \notin DOMAIN e.upserts, p \in DOMAIN u PROVE BlobAt(w, p) = BlobAt(u, p)
  <2>1. p \in DOMAIN head /\ head[p] = u[p]
    BY <1>1, <1>5 DEF Gone
  <2>2. ~Covered(e, p)
    <3> SUFFICES ASSUME NEW r \in e.removed, IsPrefix(r, p) PROVE FALSE
      BY DEF Covered
    <3>1. r \in DOMAIN head /\ r \notin DOMAIN u
      BY <1>1 DEF Gone
    <3> QED
      BY <1>3, <1>5, <2>1, <3>1 DEF IsStrictPrefix
  <2> QED
    BY <1>2, <1>5, <2>1, <2>2 DEF BlobAt
<1>6. ASSUME p \notin DOMAIN u PROVE BlobAt(w, p) = BlobAt(u, p)
  <2>1. p \in Gone(t, u) /\ p \in Path /\ p \notin DOMAIN e.upserts /\ BlobAt(u, p) = <<>>
    BY <1>1, <1>3, <1>6 DEF Gone, BlobAt
  <2>2. CASE p \in DOMAIN head
    <3>1. Covered(e, p)
      BY <1>1, <2>1, <2>2, PrefixFacts DEF Covered
    <3> QED
      BY <1>2, <2>1, <3>1
  <2>3. CASE p \notin DOMAIN head
    BY <1>2, <2>1, <2>3 DEF BlobAt
  <2> QED
    BY <2>2, <2>3
<1>7. BlobAt(w, p) = BlobAt(u, p)
  BY <1>4, <1>5, <1>6
<1> QED
  BY <1>7 DEF w, e

LEMMA StepRestores ==
    ASSUME ContentInv, [Next]_vars, history' # history
    PROVE  /\ op'.does = "revert" /\ op'.commit = Len(history) => Tip' = history[Len(history) - 1]
           /\ op'.does = "rollback" =>
                 \A p \in Touched(op'.commit) :
                    /\ IsFile(Tip', p) <=> IsFile(history[op'.commit], p)
                    /\ IsFile(Tip', p) => Tip'[p] = history[op'.commit][p]
<1>1. Next /\ ~Heal
  BY DEF vars, Heal
<1>2. /\ Len(history) \in Nat /\ Tip = history[Len(history)] /\ TreeOK(Tip)
  BY TipFacts DEF ContentInv
<1>3. CASE Edits
  <2>1. op'.does \notin {"revert", "rollback"}
    BY <1>3 DEF Edits, Commit
  <2> QED
    BY <2>1
<1>4. ASSUME NEW k \in DOMAIN history, RevertCommit(k)
      PROVE  /\ op'.does = "revert"
             /\ op'.commit = Len(history) => Tip' = history[Len(history) - 1]
  <2>1. /\ k \in 2..Len(history) /\ TreeOK(history[k - 1]) /\ TreeOK(history[k])
        /\ \E o : \E R \in Renames(history[k - 1], history[k]) :
              /\ Fits(Revert(history[k - 1], history[k], R), o)
              /\ Commit(Revert(history[k - 1], history[k], R), o)
              /\ o.does = "revert" /\ o.commit = k
    BY <1>4, RevertEdits
  <2> DEFINE t == history[k - 1]
             u == history[k]
  <2> HIDE DEF t, u
  <2>2. PICK o : \E R \in Renames(t, u) :
              Fits(Revert(t, u, R), o) /\ Commit(Revert(t, u, R), o) /\ o.does = "revert" /\ o.commit = k
    BY <2>1 DEF t, u
  <2>3. PICK R \in Renames(t, u) :
              Fits(Revert(t, u, R), o) /\ Commit(Revert(t, u, R), o) /\ o.does = "revert" /\ o.commit = k
    BY <2>2
  <2>4. op' = o
    BY <2>3 DEF Commit
  <2>5. Tip' = After(Revert(t, u, R), Tip)
    BY <2>3, CommitKeeps
  <2>6. After(Revert(t, u, R), u) = t
    BY <2>1, RevertRestores DEF t, u
  <2>7. ASSUME k = Len(history) PROVE Tip' = history[Len(history) - 1]
    BY <1>2, <2>5, <2>6, <2>7 DEF t, u
  <2> QED
    BY <2>3, <2>4, <2>7
<1>5. ASSUME NEW k \in DOMAIN history, RollbackCommit(k)
      PROVE  /\ op'.does = "rollback"
             /\ \A p \in Touched(op'.commit) :
                   /\ IsFile(Tip', p) <=> IsFile(history[op'.commit], p)
                   /\ IsFile(Tip', p) => Tip'[p] = history[op'.commit][p]
  <2> DEFINE u == history[k]
  <2> HIDE DEF u
  <2>1. PICK t, o : \E R \in Renames(t, u) :
              /\ t = (IF k = 1 THEN EmptyTree ELSE history[k - 1])
              /\ TreeOK(t) /\ TreeOK(u)
              /\ Fits(Rollback(Tip, t, u, R), o) /\ Commit(Rollback(Tip, t, u, R), o)
              /\ o.does = "rollback" /\ o.commit = k
    BY <1>5, RollbackEdits DEF u
  <2>2. PICK R \in Renames(t, u) :
              /\ t = (IF k = 1 THEN EmptyTree ELSE history[k - 1])
              /\ TreeOK(t) /\ TreeOK(u)
              /\ Fits(Rollback(Tip, t, u, R), o) /\ Commit(Rollback(Tip, t, u, R), o)
              /\ o.does = "rollback" /\ o.commit = k
    BY <2>1
  <2>3. op' = o
    BY <2>2 DEF Commit
  <2>4. Tip' = After(Rollback(Tip, t, u, R), Tip)
    BY <2>2, CommitKeeps
  <2>5. Touched(k) = {p \in DOMAIN t \cup DOMAIN u : ~(p \in DOMAIN t \cap DOMAIN u /\ t[p] = u[p])}
    BY <2>2 DEF Touched, u
  <2>6. ASSUME NEW p \in Touched(k) PROVE BlobAt(Tip', p) = BlobAt(u, p)
    BY <1>2, <2>2, <2>4, <2>5, <2>6, RollbackRestores
  <2>7. \A p \in Touched(k) : /\ IsFile(Tip', p) <=> IsFile(u, p)
                              /\ IsFile(Tip', p) => Tip'[p] = u[p]
    BY <2>6 DEF BlobAt, IsFile
  <2> QED
    BY <2>2, <2>3, <2>7 DEF u
<1> QED
  BY <1>1, <1>3, <1>4, <1>5, NextIs

(* Reverting the last commit brings back the tree before it, blob for      *)
(* blob, and a rollback to a commit leaves each path that commit touched   *)
(* as it did, whatever HEAD had become and however the diff pairs renames. *)
THEOREM RevertsAndRollbacksRestore == Spec => HistoryRestores
<1>1. ContentInv /\ [Next]_vars =>
        [history' # history =>
          /\ (op'.does = "revert" /\ op'.commit = Len(history)
                => Tip' = history[Len(history) - 1])
          /\ (op'.does = "rollback" =>
                \A p \in Touched(op'.commit) :
                   /\ IsFile(Tip', p) <=> IsFile(history[op'.commit], p)
                   /\ IsFile(Tip', p) => Tip'[p] = history[op'.commit][p])]_vars
  BY StepRestores
<1> QED
  BY <1>1, ContentIsRight, PTL DEF Spec, HistoryRestores

(* When a receiver is told an order, it has every file HEAD has: what told *)
(* it the last word on the file came before, or nothing did and it had it. *)
LEMMA FilesBeforeOrders ==
    ASSUME ContentInv, NEW e, NEW o, Fits(e, o), Commit(e, o), history' # history,
           NEW i \in DOMAIN job', job'[i].kind \in OrderKinds,
           NEW q \in DOMAIN Tip', ~IsIndex(q)
    PROVE  q \in DOMAIN Received(table, SubSeq(job', 1, i - 1)).files
<1> DEFINE J == job'
           s == SubSeq(J, 1, i - 1)
           u == Tip'
           k == <<"file", q>>
<1>1. J = Job(e.changes) /\ u = After(e, Tip)
  BY CommitKeeps
<1>2. /\ Listed(e.changes) /\ \A c \in Range(e.changes) : IsChange(c)
  BY DEF Fits, IsEdit
<1>3. /\ TreesOK /\ IsTable(table)
      /\ \A l \in Key : Carried(Tip, l) # <<>> => Held(table, l) = Carried(Tip, l)
  BY DEF ContentInv, Told
<1>4. DOMAIN u \subseteq Path
  <2>1. TreeOK(Tip) /\ IsEdit(e) /\ Separate(e) /\ Applies(e, Tip)
    BY <1>3, CommitKeeps, TipFacts DEF Fits
  <2> QED
    BY <1>1, <2>1, AfterOK, LegalFacts DEF TreeOK
<1>5. q \in FilePath /\ k \in Key
  BY <1>4 DEF FilePath, Key
<1>6. Carried(u, k) = <<u[q]>> /\ Carried(u, k) # <<>>
  BY DEF Carried, PathKey, BlobAt
<1> HIDE DEF J, u, k
<1>7. /\ Listed(J) /\ \A x \in Range(J) : IsEvent(x)
      /\ LastSays(J, k, Carried(u, k))
      /\ ~Mentions(J, k) => Carried(u, k) = Carried(Tip, k)
  BY <1>1, <1>3, <1>5, <1>6, FitTells
<1>8. Len(J) \in Nat /\ i \in 1..Len(J) /\ J \in Seq(Range(J)) /\ \A l \in 1..Len(J) : IsEvent(J[l])
  BY <1>7, ListedFacts, EventsOf DEF J, Listed
<1>9. \A l \in 1..Len(J) : l > i => J[l].kind \in OrderKinds
  BY <1>1, <1>2, <1>8, OrdersLast DEF J
<1>10. \A l \in 1..Len(J) : Touches(J[l], k) => l \in 1..(i - 1)
  <2> SUFFICES ASSUME NEW l \in 1..Len(J), l \notin 1..(i - 1) PROVE ~Touches(J[l], k)
    OBVIOUS
  <2>1. l = i \/ l > i
    BY <1>8
  <2>2. J[l].kind \in OrderKinds
    BY <1>9, <2>1 DEF J
  <2> QED
    BY <2>2 DEF Touches, k, OrderKinds, FileKinds
<1>11. /\ Len(s) = i - 1 /\ i - 1 \in Nat
       /\ \A l \in 1..(i - 1) : s[l] = J[l] /\ l \in 1..Len(J)
  <2>1. i \in Int /\ i - 1 \in Int /\ i - 1 + 1 = i /\ 1 \in 1..(Len(J) + 1) /\ i - 1 >= 0 /\ i - 1 <= Len(J)
    BY <1>8
  <2>2. \A l \in 1..(i - 1) : l \in 1..Len(J)
    BY <1>8
  <2> QED
    BY <1>8, <2>1, <2>2, SubSeqProperties
<1> HIDE DEF s
<1>12. \A l \in 1..Len(s) : IsEvent(s[l])
  BY <1>8, <1>11
<1>13. /\ ~Mentions(s, k) => Held(Received(table, s), k) = Held(table, k)
       /\ \A l \in 1..Len(s) :
             Touches(s[l], k) /\ (\A j \in 1..Len(s) : j > l => ~Touches(s[j], k))
             => Held(Received(table, s), k) = Says(s[l], k)
  BY <1>3, <1>5, <1>11, <1>12, ReceivedTells
<1>14. Held(Received(table, s), k) = Carried(u, k)
  <2>1. CASE Mentions(J, k)
    <3>1. PICK l \in 1..Len(J) : /\ Touches(J[l], k)
                                 /\ \A j \in 1..Len(J) : j > l => ~Touches(J[j], k)
      BY <1>7, <2>1, LastWord
    <3>2. Says(J[l], k) = Carried(u, k)
      BY <1>7, <3>1 DEF LastSays
    <3>3. l \in 1..Len(s) /\ s[l] = J[l]
      BY <1>10, <1>11, <3>1
    <3>4. \A j \in 1..Len(s) : j > l => ~Touches(s[j], k)
      BY <1>11, <3>1
    <3> QED
      BY <1>13, <3>1, <3>2, <3>3, <3>4
  <2>2. CASE ~Mentions(J, k)
    <3>1. ~Mentions(s, k)
      BY <1>11, <2>2 DEF Mentions
    <3>2. Carried(Tip, k) = Carried(u, k) /\ Held(table, k) = Carried(Tip, k)
      BY <1>3, <1>5, <1>6, <1>7, <2>2
    <3> QED
      BY <1>13, <3>1, <3>2
  <2> QED
    BY <2>1, <2>2
<1>15. BlobAt(Received(table, s).files, q) # <<>>
  BY <1>6, <1>14 DEF Held, k
<1> QED
  BY <1>15 DEF BlobAt, s, J

(* An order that is told never names a file of HEAD the receiver has not   *)
(* been told of: HookJob::new tells files first.                           *)
THEOREM OrdersFollowTheirFiles == Spec => OrdersNameToldFiles
<1>1. ASSUME ContentInv, [Next]_vars, history' # history,
             NEW i \in DOMAIN job', job'[i].kind = "order.updated",
             NEW n, HasFile(DOMAIN Tip', Child(job'[i].path, n))
      PROVE  HasFile(DOMAIN Received(table, SubSeq(job', 1, i - 1)).files, Child(job'[i].path, n))
  <2>1. Next /\ ~Heal
    BY <1>1 DEF vars, Heal
  <2>2. PICK e, o : Fits(e, o) /\ Commit(e, o)
    BY <1>1, <2>1, StepCommits
  <2>3. job'[i].kind \in OrderKinds
    BY <1>1 DEF OrderKinds
  <2>4. \A q \in DOMAIN Tip' : ~IsIndex(q) => q \in DOMAIN Received(table, SubSeq(job', 1, i - 1)).files
    BY <1>1, <2>2, <2>3, FilesBeforeOrders
  <2> QED
    BY <1>1, <2>4 DEF HasFile
<1>2. ContentInv /\ [Next]_vars =>
        [history' # history =>
          \A i \in DOMAIN job' : job'[i].kind = "order.updated" =>
            LET known == DOMAIN Received(table, SubSeq(job', 1, i - 1)).files
            IN \A n \in Names(job'[i].blob) :
                  LET p == Child(job'[i].path, n)
                  IN HasFile(DOMAIN Tip', p) => HasFile(known, p)]_vars
  BY <1>1
<1> QED
  BY <1>2, ContentIsRight, PTL DEF Spec, OrdersNameToldFiles

-----------------------------------------------------------------------------
(* What the trees hold *)

TreesTyped == \A i \in DOMAIN history : WellTyped(history[i])

LEMMA TypedTip ==
    ASSUME TreesOK, TreesTyped
    PROVE  WellTyped(Tip)
  BY TipFacts DEF TreesTyped

(* A commit of an edit that puts an index where an index goes. *)
LEMMA CommitTyped ==
    ASSUME ContentInv, TreesTyped, NEW e, NEW o, Fits(e, o), Commit(e, o), WellTyped(e.upserts)
    PROVE  TreesTyped'
<1>1. CASE history' = history
  BY <1>1 DEF TreesTyped
<1>2. CASE history' # history
  <2> DEFINE u == After(e, Tip)
             n == Len(history)
  <2>1. history' = Append(history, u) /\ TreesOK /\ Listed(history)
    BY <1>2 DEF Commit, ContentInv, TreesOK
  <2>2. WellTyped(u)
    BY <2>1, TypedTip, TypedAfter
  <2> HIDE DEF u
  <2>3. /\ Listed(history') /\ Len(history') = n + 1 /\ n \in Nat
        /\ history'[n + 1] = u /\ \A i \in 1..n : history'[i] = history[i]
    <3> DEFINE h == Append(history, u)
    <3>1. /\ Listed(h) /\ Len(h) = n + 1 /\ n \in Nat
          /\ h[n + 1] = u /\ \A i \in 1..n : h[i] = history[i]
      <4>1. Listed(h) /\ Len(h) = n + 1 /\ n \in Nat
        BY <2>1, AppendListed
      <4>2. h[n + 1] = u
        BY <2>1, AppendListed
      <4>3. \A i \in 1..n : h[i] = history[i]
        BY <2>1, AppendListed
      <4> QED
        BY <4>1, <4>2, <4>3
    <3>2. history' = h
      BY <2>1
    <3> HIDE DEF h, n
    <3> QED
      BY <3>1, <3>2
  <2>4. DOMAIN history = 1..n /\ DOMAIN history' = 1..(n + 1)
    BY <2>1, <2>3, ListedFacts
  <2>5. \A i \in 1..(n + 1) : i \in 1..n \/ i = n + 1
    BY <2>3
  <2> HIDE DEF n
  <2> QED
    BY <2>2, <2>3, <2>4, <2>5 DEF TreesTyped
<1> QED
  BY <1>1, <1>2

LEMMA NextTyped == ASSUME ContentInv, TreesTyped, [Next]_vars PROVE TreesTyped'
<1>1. TreesOK /\ TreeOK(Tip)
  BY TipFacts DEF ContentInv
<1>2. CASE history' = history
  BY <1>2 DEF TreesTyped
<1>3. CASE Edits
  BY <1>1, <1>3, TypedTip, CommitTyped DEF Edits
<1>4. ASSUME NEW k \in DOMAIN history, RevertCommit(k) PROVE TreesTyped'
  <2>1. k \in 2..Len(history) /\ TreeOK(history[k - 1]) /\ TreeOK(history[k])
    BY <1>4, RevertEdits
  <2>2. PICK o : \E R \in Renames(history[k - 1], history[k]) :
            /\ Fits(Revert(history[k - 1], history[k], R), o)
            /\ Commit(Revert(history[k - 1], history[k], R), o)
    BY <1>4, RevertEdits
  <2>r. PICK R \in Renames(history[k - 1], history[k]) :
            /\ Fits(Revert(history[k - 1], history[k], R), o)
            /\ Commit(Revert(history[k - 1], history[k], R), o)
    BY <2>2
  <2>3. k - 1 \in DOMAIN history
    BY <1>1, <2>1, TipFacts
  <2>4. WellTyped(history[k - 1]) /\ WellTyped(history[k])
    BY <2>3 DEF TreesTyped
  <2>5. WellTyped(Revert(history[k - 1], history[k], R).upserts)
    BY <1>1, <2>1, <2>4, HistoryTyped
  <2> QED
    BY <2>r, <2>5, CommitTyped
<1>5. ASSUME NEW k \in DOMAIN history, RollbackCommit(k) PROVE TreesTyped'
  <2>r. PICK t, o : \E R \in Renames(t, history[k]) :
              /\ t = (IF k = 1 THEN EmptyTree ELSE history[k - 1])
              /\ TreeOK(t) /\ TreeOK(history[k])
              /\ Fits(Rollback(Tip, t, history[k], R), o)
              /\ Commit(Rollback(Tip, t, history[k], R), o)
    BY <1>5, RollbackEdits
  <2>1. PICK R \in Renames(t, history[k]) :
              /\ t = (IF k = 1 THEN EmptyTree ELSE history[k - 1])
              /\ TreeOK(t) /\ TreeOK(history[k])
              /\ Fits(Rollback(Tip, t, history[k], R), o)
              /\ Commit(Rollback(Tip, t, history[k], R), o)
    BY <2>r
  <2>2. k # 1 => k - 1 \in DOMAIN history
    BY <1>1, TipFacts
  <2>3. WellTyped(EmptyTree)
    BY DEF EmptyTree, WellTyped
  <2>4. WellTyped(t) /\ WellTyped(history[k])
    BY <2>1, <2>2, <2>3 DEF TreesTyped
  <2>5. WellTyped(Rollback(Tip, t, history[k], R).upserts)
    BY <1>1, <2>1, <2>4, HistoryTyped
  <2> QED
    BY <2>1, <2>5, CommitTyped
<1>6. CASE Next
  <2>1. Heal => history' = history
    BY DEF Heal
  <2> QED
    BY <1>2, <1>3, <1>4, <1>5, <1>6, <2>1, NextIs
<1>7. CASE UNCHANGED vars
  BY <1>2, <1>7 DEF vars
<1> QED
  BY <1>6, <1>7

LEMMA TypedInit == ASSUME Init PROVE TreesTyped
<1>1. \A i \in DOMAIN history : history[i] = EmptyTree
  BY DEF Init
<1>2. WellTyped(EmptyTree)
  BY DEF EmptyTree, WellTyped
<1> QED
  BY <1>1, <1>2 DEF TreesTyped

(* Whatever operations, reverts and rollbacks made of it, a tree has names *)
(* for paths, no blob where a directory is, an index of one entry or more  *)
(* in the place of an index, and contents elsewhere.                       *)
THEOREM TreesAreTyped == Spec => []TypeOK
<1>1. Init => ContentInv /\ TreesTyped
  BY InitOK, TypedInit
<1>2. ContentInv /\ TreesTyped /\ [Next]_vars => (ContentInv /\ TreesTyped)'
  BY NextKeeps, NextTyped
<1>3. ContentInv /\ TreesTyped => TypeOK
  <2> SUFFICES ASSUME ContentInv, TreesTyped PROVE TypeOK
    OBVIOUS
  <2>1. \A i \in DOMAIN history : TreeOK(history[i])
    BY TipFacts DEF ContentInv, TreesOK
  <2>2. ASSUME NEW i \in DOMAIN history
        PROVE  /\ WellFormed(history[i])
               /\ \A p \in DOMAIN history[i] :
                     /\ p \in Seq(Name \cup {Index})
                     /\ history[i][p] \in IF IsIndex(p) THEN Seq(Entry) \ {<<>>} ELSE Content
    <3>1. WellFormed(history[i]) /\ DOMAIN history[i] \subseteq Legal
      BY <2>1 DEF TreeOK
    <3>2. \A p \in DOMAIN history[i] : TypedAt(p, history[i][p])
      BY DEF TreesTyped, WellTyped
    <3> QED
      BY <3>1, <3>2 DEF Legal, TypedAt
  <2> QED
    BY <2>2 DEF TypeOK, ContentInv
<1> QED
  BY <1>1, <1>2, <1>3, PTL DEF Spec

-----------------------------------------------------------------------------
(* What upkeep and a reorder leave of the orders *)

(* A step that commits, and what it was. *)
LEMMA StepIs ==
    ASSUME Next, history' # history
    PROVE  \/ \E p \in Paths, c \in Content : PutFile(p, c) /\ op' = Op("write", p)
           \/ \E p \in Paths : RemoveFile(p) /\ op' = Op("delete", p)
           \/ \E p \in Paths : RemoveDirectory(p) /\ op' = Op("delete", p)
           \/ \E p, q \in Paths : Rename(p, q) /\ op' = MoveOp(p, q)
           \/ \E p, q \in Paths : RenameDirectory(p, q) /\ op' = MoveOp(p, q)
           \/ \E p \in Paths, position \in Nat, implicit \in Implicit, hidden \in BOOLEAN :
                 /\ Reorder(p, position, implicit, hidden)
                 /\ op' = [Op("reorder", Parent(p)) EXCEPT !.entry = Leaf(p), !.implicit = implicit]
           \/ op'.does \notin {"write", "delete", "move", "reorder"}
<1>1. ASSUME NEW p \in Paths, NEW c \in Content, PutFile(p, c) PROVE op' = Op("write", p)
  BY <1>1 DEF PutFile, Commit
<1>2. ASSUME NEW p \in Paths, RemoveFile(p) \/ RemoveDirectory(p) PROVE op' = Op("delete", p)
  BY <1>2 DEF RemoveFile, RemoveDirectory, Commit
<1>3. ASSUME NEW p \in Paths, Unpin(p) PROVE op'.does = "unpin"
  BY <1>3 DEF Unpin, Commit, Op, NoOp
<1>4. ASSUME NEW p \in Paths, NEW q \in Paths, Rename(p, q) \/ RenameDirectory(p, q)
      PROVE  op' = MoveOp(p, q)
  BY <1>4 DEF Rename, RenameDirectory, Commit
<1>5. ASSUME NEW d, NEW ns, NEW hidden, PutOrder(d, ns, hidden) PROVE op'.does = "order"
  BY <1>5 DEF PutOrder, Commit, Op, NoOp
<1>6. ASSUME NEW p, NEW position, NEW implicit, NEW hidden, Reorder(p, position, implicit, hidden)
      PROVE  op' = [Op("reorder", Parent(p)) EXCEPT !.entry = Leaf(p), !.implicit = implicit]
  BY <1>6 DEF Reorder, Commit
<1>7. ASSUME NEW d, RemoveOrder(d) PROVE op'.does = "order"
  BY <1>7 DEF RemoveOrder, Commit, Op, NoOp
<1>8. ASSUME NEW k, RevertCommit(k) PROVE op'.does = "revert"
  BY <1>8 DEF RevertCommit, Commit, Op, NoOp
<1>9. ASSUME NEW k, RollbackCommit(k) PROVE op'.does = "rollback"
  BY <1>9 DEF RollbackCommit, Commit, Op, NoOp
<1>10. ~Heal /\ 0..Cardinality(Name) \subseteq Nat
  BY DEF Heal
<1> QED
  <2>1. CASE \E p \in Paths, c \in Content : PutFile(p, c)
    BY <1>1, <2>1
  <2>2. CASE \E p \in Paths : RemoveFile(p) \/ RemoveDirectory(p) \/ Unpin(p)
    BY <1>2, <1>3, <2>2
  <2>3. CASE \E p, q \in Paths : Rename(p, q) \/ RenameDirectory(p, q)
    BY <1>4, <2>3
  <2>4. CASE \E d \in Folders, ns \in Orders, hidden \in BOOLEAN : PutOrder(d, ns, hidden)
    BY <1>5, <2>4
  <2>5. CASE \E p \in Paths, position \in 0..Cardinality(Name), implicit \in Implicit,
                hidden \in BOOLEAN : Reorder(p, position, implicit, hidden)
    <3>1. PICK p \in Paths, position \in 0..Cardinality(Name), implicit \in Implicit,
               hidden \in BOOLEAN : Reorder(p, position, implicit, hidden)
      BY <2>5
    <3>2. position \in Nat
      BY <1>10
    <3>3. op' = [Op("reorder", Parent(p)) EXCEPT !.entry = Leaf(p), !.implicit = implicit]
      BY <1>6, <3>1
    <3> QED
      BY <3>1, <3>2, <3>3
  <2>6. CASE \E d \in Folders : RemoveOrder(d)
    BY <1>7, <2>6
  <2>7. CASE \E k \in DOMAIN history : RevertCommit(k) \/ RollbackCommit(k)
    BY <1>8, <1>9, <2>7
  <2> QED
    BY <1>10, <2>1, <2>2, <2>3, <2>4, <2>5, <2>6, <2>7 DEF Next

LEMMA ShownIs ==
    ASSUME NEW t, TreeOK(t), WellTyped(t), NEW d \in Seq(Name), NEW implicit \in Nat, NEW n
    PROVE  ShownBut(n, t, d, implicit) = Sift(Materialized(t, d, implicit, TRUE), InView(t, d, n))
<1> DEFINE m == Materialized(t, d, implicit, TRUE)
           T == InView(t, d, n)
<1>1. Listed(StoredOrder(t, d))
  BY StoredTyped
<1>2. Range(m) = InList(t, d, TRUE)
  BY <1>1, MaterializedFacts
<1>3. Range(m) = EntriesOf(t, d)
  BY <1>2 DEF InList
<1>4. ShownBut(n, t, d, implicit) = Keeping(m, LAMBDA e : e.name \notin HiddenName \cup {n})
  BY DEF ShownBut
<1> HIDE DEF m
<1>5. \A i \in DOMAIN m : m[i] \in EntriesOf(t, d)
  BY <1>3 DEF Range
<1>6. \A i \in DOMAIN m : m[i].name \notin HiddenName \cup {n} <=> m[i] \in T
  BY <1>5 DEF InView
<1> HIDE DEF T
<1>7. ShownBut(n, t, d, implicit) = Sift(m, T)
  BY <1>4, <1>6 DEF Keeping, Sift
<1> QED
  BY <1>7 DEF m, T

LEMMA StepReorders ==
    ASSUME ContentInv, TreesTyped, [Next]_vars, history' # history, op'.does = "reorder"
    PROVE  ShownBut(op'.entry, Tip', op'.path, op'.implicit)
           = ShownBut(op'.entry, Tip, op'.path, op'.implicit)
<1>1. TreesOK /\ TreeOK(Tip) /\ DOMAIN Tip \subseteq Legal /\ WellTyped(Tip)
  BY TipFacts, TypedTip DEF ContentInv
<1>2. Next
  BY DEF vars
<1>3. /\ \A p : Op("write", p).does = "write" /\ Op("delete", p).does = "delete"
      /\ \A p, q : MoveOp(p, q).does = "move"
  BY DEF MoveOp, Op, NoOp
<1>4. PICK p \in Paths, position \in Nat, implicit \in Implicit, hidden \in BOOLEAN :
          /\ Reorder(p, position, implicit, hidden)
          /\ op' = [Op("reorder", Parent(p)) EXCEPT !.entry = Leaf(p), !.implicit = implicit]
  BY <1>2, <1>3, StepIs
<1>5. op'.entry = Leaf(p) /\ op'.path = Parent(p) /\ op'.implicit = implicit
  BY <1>4 DEF Op, NoOp
<1>6. p \in Seq(Name) /\ p # Root /\ Parent(p) \in Seq(Name) /\ implicit \in Nat
  BY ContentConstants, PathFacts
<1> DEFINE d == Parent(p)
           e == Reordered(Tip, p, position, implicit, hidden)
           T == InView(Tip, d, Leaf(p))
<1>7. Commit(e, op') /\ Tidy(e, Tip, {IndexPath(d)})
  BY <1>1, <1>4, <1>6, StageIndexFacts DEF Reorder, Reordered
<1>9. Positioned(Tip, p, position, implicit, hidden) # <<>>
  <2> DEFINE rest == ShownOthers(Tip, p, implicit, hidden)
             k == PlaceIn(rest, position) + 1
             x == EntryFor(Tip, d, Leaf(p))
  <2>1. /\ rest \in Seq(Entry) /\ k \in 1..(Len(rest) + 1) /\ x \in Entry
        /\ Positioned(Tip, p, position, implicit, hidden) = InsertAt(rest, k, x)
    BY <1>1, <1>6, PositionedFacts
  <2> HIDE DEF rest, k, x
  <2>2. Len(InsertAt(rest, k, x)) = Len(rest) + 1 /\ Len(rest) \in Nat
    BY <2>1, InsertFacts
  <2> QED
    BY <2>1, <2>2
<1>10. EntriesOf(After(e, Tip), d) = EntriesOf(Tip, d)
  BY <1>1, <1>6, <1>9, StagedIndex DEF Reordered
<1> HIDE DEF e
<1>11. Fits(e, op')
  BY <1>7, TidyFits
<1>12. Applies(e, Tip) /\ Tip' = After(e, Tip) /\ ContentInv' /\ TreesTyped'
  BY <1>7, <1>11, CommitKeeps, NextTyped
<1>13. TreeOK(Tip') /\ WellTyped(Tip')
  <2>1. TreeOK(After(e, Tip))
    BY <1>1, <1>7, <1>12, AfterOK DEF Tidy, Honest
  <2>2. WellTyped(e.upserts)
    BY <1>1, <1>6, OrdersTyped DEF e, Reordered
  <2> QED
    BY <1>1, <1>12, <2>1, <2>2, TypedAfter
<1>14. Sift(Materialized(After(e, Tip), d, implicit, TRUE), T)
       = Sift(Materialized(Tip, d, implicit, TRUE), T)
  <2>2. Applies(e, Tip) /\ TreeOK(Tip) /\ WellTyped(Tip)
    BY <1>1, <1>12
  <2>3. Sift(Materialized(After(e, Tip), Parent(p), implicit, TRUE), T)
        = Sift(Materialized(Tip, Parent(p), implicit, TRUE), T)
    BY <1>6, <2>2, ReorderKeeps DEF e
  <2> QED
    BY <2>3
<1>15. /\ ShownBut(Leaf(p), Tip, d, implicit) = Sift(Materialized(Tip, d, implicit, TRUE), T)
       /\ ShownBut(Leaf(p), Tip', d, implicit) = Sift(Materialized(Tip', d, implicit, TRUE), T)
  <2>1. EntriesOf(Tip', d) = EntriesOf(Tip, d)
    BY <1>10, <1>12 DEF e
  <2>2. ShownBut(Leaf(p), Tip, d, implicit) = Sift(Materialized(Tip, d, implicit, TRUE), T)
    BY <1>1, <1>6, ShownIs
  <2>3. ShownBut(Leaf(p), Tip', d, implicit) =
          Sift(Materialized(Tip', d, implicit, TRUE), InView(Tip', d, Leaf(p)))
    BY <1>6, <1>13, ShownIs
  <2> QED
    BY <2>1, <2>2, <2>3 DEF InView
<1> QED
  BY <1>5, <1>12, <1>14, <1>15 DEF e

(* A reorder moves the entry it names and no other, of those a listing     *)
(* shows.                                                                  *)
THEOREM ReordersMoveOneEntry == Spec => ReorderMovesOneEntry
<1>1. Init => ContentInv /\ TreesTyped
  BY InitOK, TypedInit
<1>2. ContentInv /\ TreesTyped /\ [Next]_vars => (ContentInv /\ TreesTyped)'
  BY NextKeeps, NextTyped
<1>3. ContentInv /\ TreesTyped /\ [Next]_vars
        => [history' # history /\ op'.does = "reorder" =>
              ShownBut(op'.entry, Tip', op'.path, op'.implicit)
              = ShownBut(op'.entry, Tip, op'.path, op'.implicit)]_vars
  BY StepReorders
<1> QED
  BY <1>1, <1>2, <1>3, PTL DEF Spec, ReorderMovesOneEntry

-----------------------------------------------------------------------------
(* The upkeep of the indexes *)

LEMMA NamesListed ==
    ASSUME NEW es, Listed(es)
    PROVE  /\ Listed(NamesOf(es)) /\ Len(NamesOf(es)) = Len(es) /\ Len(es) \in Nat
           /\ \A i \in 1..Len(es) : NamesOf(es)[i] = es[i].name
<1>1. Len(es) \in Nat /\ DOMAIN es = 1..Len(es)
  BY ListedFacts
<1> DEFINE ns == [i \in 1..Len(es) |-> es[i].name]
<1>2. DOMAIN ns = 1..Len(es) /\ ns = [i \in 1..Len(es) |-> ns[i]]
  OBVIOUS
<1>3. NamesOf(es) = ns
  BY <1>1 DEF NamesOf
<1> HIDE DEF ns
<1>4. Listed(ns) /\ Len(ns) = Len(es)
  BY <1>1, <1>2, ListedBy
<1> QED
  BY <1>1, <1>3, <1>4 DEF ns

LEMMA KeptSift == \A ns, ms : Kept(ns, ms) = Sift(ns, Range(ms))
  BY DEF Kept, Keeping, Sift

LEMMA KinKeeps ==
    ASSUME NEW es \in Seq(Entry), NEW fs \in Seq(Entry), Kin(es, fs),
           IsInjective(NamesOf(es)), IsInjective(NamesOf(fs))
    PROVE  Kept(NamesOf(es), NamesOf(fs)) = Kept(NamesOf(fs), NamesOf(es))
<1> DEFINE ns == NamesOf(es)
           ms == NamesOf(fs)
<1>1. Listed(es) /\ Listed(fs)
  BY ListedIn
<1>2. /\ Listed(ns) /\ Len(ns) = Len(es) /\ Len(es) \in Nat
      /\ \A i \in 1..Len(es) : ns[i] = es[i].name
      /\ Listed(ms) /\ Len(ms) = Len(fs) /\ Len(fs) \in Nat
      /\ \A i \in 1..Len(fs) : ms[i] = fs[i].name
  BY <1>1, NamesListed
<1>3. IsInjective(ns) /\ IsInjective(ms)
  OBVIOUS
<1> HIDE DEF ns, ms
<1>4. /\ Increasing(ns, OrderOf(ns)) /\ Strict(OrderOf(ns))
      /\ Increasing(ms, OrderOf(ms)) /\ Strict(OrderOf(ms))
  BY <1>2, <1>3, OrderOfFacts
<1>5. CASE fs = es
  BY <1>5 DEF ns, ms
<1>6. CASE \E n : fs = Others(es, n)
  <2>1. PICK n : fs = Others(es, n)
    BY <1>6
  <2>2. Increasing(es, OrderOf(es))
    BY <1>1, OrderOfFacts
  <2> DEFINE S == {e \in Range(es) : e.name # n}
  <2>3. fs = Sift(es, S)
    BY <2>1, OthersSift
  <2> HIDE DEF S
  <2>4. Increasing(fs, OrderOf(es))
    BY <1>1, <2>2, <2>3, SiftFacts
  <2>5. ASSUME NEW i \in 1..Len(fs), NEW j \in 1..Len(fs), i < j
        PROVE  <<ms[i], ms[j]>> \in OrderOf(ns)
    <3>1. <<fs[i], fs[j]>> \in OrderOf(es)
      BY <2>4, <2>5 DEF Increasing
    <3>2. PICK k, l \in 1..Len(es) : k < l /\ fs[i] = es[k] /\ fs[j] = es[l]
      BY <1>1, <3>1, OrderOfFacts
    <3>3. ms[i] = ns[k] /\ ms[j] = ns[l]
      BY <1>2, <3>2
    <3> QED
      BY <1>2, <1>4, <3>2, <3>3 DEF Increasing
  <2>6. Increasing(ms, OrderOf(ns))
    BY <1>2, <2>5 DEF Increasing
  <2> QED
    BY <1>2, <1>4, <2>6, SameOrder, KeptSift DEF ns, ms
<1>7. CASE \E e \in Entry : fs = Append(es, e)
  <2>1. PICK e \in Entry : fs = Append(es, e)
    BY <1>7
  <2>2. Len(fs) = Len(es) + 1 /\ \A i \in 1..Len(es) : fs[i] = es[i]
    BY <2>1
  <2>3. \A i \in 1..Len(es) : i \in 1..Len(fs) /\ ns[i] = ms[i]
    BY <1>2, <2>2
  <2>4. Increasing(ns, OrderOf(ms))
    BY <1>2, <1>4, <2>3 DEF Increasing
  <2> QED
    BY <1>2, <1>4, <2>4, SameOrder, KeptSift DEF ns, ms
<1> QED
  BY <1>5, <1>6, <1>7 DEF Kin

(* The operation moves an entry within d.                                  *)
Moves(o, d) == o.does = "move" /\ Parent(o.path) = d /\ o.entry # Index

(* What an edit makes of the indexes that name each entry once.            *)
Upkeeps(e, o) ==
    \A d \in Seq(Name) : HasIndex(Tip, d) /\ NamesOnce(Tip, d) =>
        IF Moves(o, d)
        THEN Renamed(OrderAfter(e, Tip, d), StoredOrder(Tip, d), Leaf(o.path), o.entry)
        ELSE Kin(StoredOrder(Tip, d), OrderAfter(e, Tip, d))

LEMMA OnceFacts ==
    ASSUME NEW t, WellTyped(t), NEW d \in Seq(Name), NamesOnce(t, d)
    PROVE  \A i, j \in 1..Len(StoredOrder(t, d)) :
              StoredOrder(t, d)[i].name = StoredOrder(t, d)[j].name => i = j
<1> DEFINE es == StoredOrder(t, d)
<1>1. Listed(es)
  BY StoredTyped
<1>2. IsInjective(NamesOf(es))
  BY DEF NamesOnce
<1> HIDE DEF es
<1>3. /\ Listed(NamesOf(es)) /\ Len(NamesOf(es)) = Len(es)
      /\ \A i \in 1..Len(es) : NamesOf(es)[i] = es[i].name
  BY <1>1, NamesListed
<1>4. DOMAIN NamesOf(es) = 1..Len(es)
  BY <1>3, ListedFacts
<1>5. \A i, j \in 1..Len(es) : es[i].name = es[j].name => i = j
  BY <1>2, <1>3, <1>4 DEF IsInjective
<1> QED
  BY <1>5 DEF es

LEMMA MoveUpkeeps ==
    ASSUME WellTyped(Tip), NEW p \in Seq(Name), p # Root, NEW q \in Seq(Name), q # Root,
           NEW b \in BOOLEAN, NEW e, MoveParts(e, Tip, p, q, b)
    PROVE  Upkeeps(e, MoveOp(p, q))
<1>1. /\ MoveOp(p, q).does = "move" /\ MoveOp(p, q).path = p
      /\ MoveOp(p, q).entry = IF Parent(p) = Parent(q) THEN Leaf(q) ELSE Index
  BY DEF MoveOp, Op, NoOp
<1>2. Leaf(q) # Index
  BY LeafName, NameFacts
<1> SUFFICES ASSUME NEW d \in Seq(Name), HasIndex(Tip, d), NamesOnce(Tip, d)
             PROVE  IF Moves(MoveOp(p, q), d)
                    THEN Renamed(OrderAfter(e, Tip, d), StoredOrder(Tip, d),
                                 Leaf(MoveOp(p, q).path), MoveOp(p, q).entry)
                    ELSE Kin(StoredOrder(Tip, d), OrderAfter(e, Tip, d))
  BY DEF Upkeeps
<1>3. CASE d = Parent(p) /\ Parent(p) = Parent(q)
  <2>1. Moves(MoveOp(p, q), d)
    BY <1>1, <1>2, <1>3 DEF Moves
  <2>2. \A i, j \in 1..Len(StoredOrder(Tip, Parent(p))) :
           StoredOrder(Tip, Parent(p))[i].name = StoredOrder(Tip, Parent(p))[j].name => i = j
    BY <1>3, OnceFacts
  <2>3. Renamed(OrderAfter(e, Tip, Parent(p)), StoredOrder(Tip, Parent(p)), Leaf(p), Leaf(q))
    BY <1>3, <2>2, MoveRenames
  <2> QED
    BY <1>1, <1>3, <2>1, <2>3
<1>4. CASE ~(d = Parent(p) /\ Parent(p) = Parent(q))
  <2>1. ~Moves(MoveOp(p, q), d)
    BY <1>1, <1>4 DEF Moves
  <2>2. KinAt(e, Tip, d)
    BY <1>4, MoveKin
  <2> QED
    BY <2>1, <2>2, KinAfter
<1> QED
  BY <1>3, <1>4

LEMMA UpkeepEdits ==
    ASSUME ContentInv, WellTyped(Tip), Next, history' # history,
           op'.does \in {"write", "delete", "move"}
    PROVE  \E e : Commit(e, op') /\ Fits(e, op') /\ Upkeeps(e, op')
<1>1. TreeOK(Tip) /\ DOMAIN Tip \subseteq Legal
  BY TipFacts DEF ContentInv
<1>2. \A q \in Paths : q \in Seq(Name) /\ q # Root /\ Parent(q) \in Seq(Name)
  BY ContentConstants, PathFacts
<1>3. ASSUME NEW e, NEW o, o.does # "move", \A d \in Seq(Name) : KinAt(e, Tip, d)
      PROVE  Upkeeps(e, o)
  BY <1>3, KinAfter DEF Upkeeps, Moves
<1>4. ASSUME NEW p \in Paths, NEW c \in Content, PutFile(p, c), op' = Op("write", p)
      PROVE  \E e : Commit(e, op') /\ Fits(e, op') /\ Upkeeps(e, op')
  <2> DEFINE e == WriteFile(Tip, p, c)
  <2>1. Tidy(e, Tip, {p}) /\ Commit(e, op')
    BY <1>1, <1>2, <1>4, FileEdits DEF PutFile
  <2>2. Upkeeps(e, op')
    <3>1. \A d \in Seq(Name) : KinAt(e, Tip, d)
      BY <1>2, KinFiles
    <3>2. op'.does # "move"
      BY <1>4, OpFacts
    <3> HIDE DEF e
    <3> QED
      BY <1>3, <3>1, <3>2
  <2> HIDE DEF e
  <2> QED
    BY <2>1, <2>2, TidyFits
<1>5. ASSUME NEW p \in Paths, RemoveFile(p), op' = Op("delete", p)
      PROVE  \E e : Commit(e, op') /\ Fits(e, op') /\ Upkeeps(e, op')
  <2> DEFINE e == DeleteFile(Tip, p)
  <2>1. Tidy(e, Tip, {p, IndexPath(Parent(p))})
    BY <1>1, <1>2, <1>5, FileEdits DEF RemoveFile, CanDeleteFile
  <2>2. Commit(e, op')
    BY <1>5 DEF RemoveFile
  <2>3. Upkeeps(e, op')
    <3>1. \A d \in Seq(Name) : KinAt(e, Tip, d)
      BY <1>2, KinFiles
    <3>2. op'.does # "move"
      BY <1>5, OpFacts
    <3> HIDE DEF e
    <3> QED
      BY <1>3, <3>1, <3>2
  <2> HIDE DEF e
  <2> QED
    BY <2>1, <2>2, <2>3, TidyFits
<1>6. ASSUME NEW p \in Paths, RemoveDirectory(p), op' = Op("delete", p)
      PROVE  \E e : Commit(e, op') /\ Fits(e, op') /\ Upkeeps(e, op')
  <2> DEFINE e == DeleteDirectory(Tip, p)
  <2>1. Tidy(e, Tip, Under(p) \cup {IndexPath(Parent(p))})
    BY <1>1, <1>2, <1>6, DeleteDirectoryFacts DEF RemoveDirectory
  <2>2. Commit(e, op')
    BY <1>6 DEF RemoveDirectory
  <2>3. Upkeeps(e, op')
    <3>1. \A d \in Seq(Name) : KinAt(e, Tip, d)
      BY <1>2, KinFiles
    <3>2. op'.does # "move"
      BY <1>6, OpFacts
    <3> HIDE DEF e
    <3> QED
      BY <1>3, <3>1, <3>2
  <2> HIDE DEF e
  <2> QED
    BY <2>1, <2>2, <2>3, TidyFits
<1>7. ASSUME NEW p \in Paths, NEW q \in Paths, Rename(p, q), op' = MoveOp(p, q)
      PROVE  \E e : Commit(e, op') /\ Fits(e, op') /\ Upkeeps(e, op')
  <2> DEFINE e == MoveFile(Tip, p, q)
  <2>1. Tidy(e, Tip, {p, q, IndexPath(Parent(p)), IndexPath(Parent(q))})
    BY <1>1, <1>2, <1>7, MoveFileFacts DEF Rename
  <2>2. Commit(e, op')
    BY <1>7 DEF Rename
  <2>3. MoveParts(e, Tip, p, q, FALSE)
    BY <1>2, MoveFileParts
  <2> HIDE DEF e
  <2>4. Upkeeps(e, op')
    BY <1>2, <1>7, <2>3, MoveUpkeeps
  <2> QED
    BY <2>1, <2>2, <2>4, TidyFits
<1>8. ASSUME NEW p \in Paths, NEW q \in Paths, RenameDirectory(p, q), op' = MoveOp(p, q)
      PROVE  \E e : Commit(e, op') /\ Fits(e, op') /\ Upkeeps(e, op')
  <2> DEFINE e == MoveDirectory(Tip, p, q)
  <2>1. Tidy(e, Tip, (Under(p) \cup Under(q)) \cup {IndexPath(Parent(p)), IndexPath(Parent(q))})
    BY <1>1, <1>2, <1>8, MoveDirectoryFacts DEF RenameDirectory
  <2>2. Commit(e, op')
    BY <1>8 DEF RenameDirectory
  <2>3. MoveParts(e, Tip, p, q, TRUE)
    BY <1>1, <1>2, <1>8, MoveDirectoryParts DEF RenameDirectory, CanMoveDirectory
  <2> HIDE DEF e
  <2>4. Upkeeps(e, op')
    BY <1>2, <1>8, <2>3, MoveUpkeeps
  <2> QED
    BY <2>1, <2>2, <2>4, TidyFits
<1>9. ASSUME NEW p, NEW implicit
      PROVE  [Op("reorder", Parent(p)) EXCEPT !.entry = Leaf(p), !.implicit = implicit].does = "reorder"
  BY DEF Op, NoOp
<1> QED
  BY <1>4, <1>5, <1>6, <1>7, <1>8, <1>9, StepIs

(* What an index lists, under the names it has once the operation is done. *)
Renaming(es, d, o) ==
    LET moved == o.does = "move" /\ Parent(o.path) = d /\ o.entry # Index
        Now(n) == IF moved /\ n = Leaf(o.path) THEN o.entry ELSE n
    IN [i \in DOMAIN es |-> Now(es[i].name)]

LEMMA StepUpkeep ==
    ASSUME ContentInv, TreesTyped, [Next]_vars, history' # history,
           op'.does \in {"write", "delete", "move"},
           NEW d \in Folders, \A t \in {Tip, Tip'} : HasIndex(t, d) /\ NamesOnce(t, d)
    PROVE  Kept(Renaming(StoredOrder(Tip, d), d, op'), NamesOf(StoredOrder(Tip', d)))
           = Kept(NamesOf(StoredOrder(Tip', d)), Renaming(StoredOrder(Tip, d), d, op'))
<1> DEFINE es == StoredOrder(Tip, d)
           fs == StoredOrder(Tip', d)
<1>1. WellTyped(Tip) /\ Next
  BY TypedTip DEF ContentInv, vars
<1>2. d \in Seq(Name)
  <2>1. \A p \in Paths : Parent(p) \in Seq(Name)
    BY ContentConstants, PathFacts
  <2>2. Root \in Seq(Name)
    BY DEF Root
  <2> QED
    BY <2>1, <2>2 DEF Folders
<1>3. HasIndex(Tip, d) /\ NamesOnce(Tip, d) /\ HasIndex(Tip', d) /\ NamesOnce(Tip', d)
  OBVIOUS
<1>4. PICK e : Commit(e, op') /\ Fits(e, op') /\ Upkeeps(e, op')
  BY <1>1, UpkeepEdits
<1>5. Tip' = After(e, Tip) /\ ContentInv' /\ TreesTyped'
  BY <1>4, CommitKeeps, NextTyped
<1>6. WellTyped(Tip')
  <2>1. Listed(history') /\ Len(history') > 0
    BY <1>5 DEF ContentInv, TreesOK
  <2>2. Tip' = history'[Len(history')] /\ Len(history') \in DOMAIN history'
    BY <2>1, ListedFacts DEF Tip, Last
  <2> QED
    BY <1>5, <2>2 DEF TreesTyped
<1>7. fs = OrderAfter(e, Tip, d)
  BY <1>3, <1>5, StoredAfter
<1>8. es \in Seq(Entry) /\ fs \in Seq(Entry)
  BY <1>1, <1>2, <1>6, StoredTyped
<1>9. IF Moves(op', d) THEN Renamed(fs, es, Leaf(op'.path), op'.entry) ELSE Kin(es, fs)
  BY <1>2, <1>3, <1>4, <1>7 DEF Upkeeps
<1>10. IsInjective(NamesOf(es)) /\ IsInjective(NamesOf(fs))
  BY <1>3 DEF NamesOnce
<1> HIDE DEF es, fs
<1>11. CASE Moves(op', d)
  <2>1. DOMAIN fs = DOMAIN es /\ \A i \in DOMAIN es :
            fs[i].name = IF es[i].name = Leaf(op'.path) THEN op'.entry ELSE es[i].name
    BY <1>9, <1>11 DEF Renamed
  <2>2. Renaming(es, d, op') = NamesOf(fs)
    BY <1>11, <2>1 DEF Renaming, NamesOf, Moves
  <2> QED
    BY <2>2 DEF es, fs
<1>12. CASE ~Moves(op', d)
  <2>1. Renaming(es, d, op') = NamesOf(es)
    BY <1>12 DEF Renaming, NamesOf, Moves
  <2>2. Kin(es, fs)
    BY <1>9, <1>12
  <2> QED
    BY <1>8, <1>10, <2>1, <2>2, KinKeeps DEF es, fs
<1> QED
  BY <1>11, <1>12

(* Writes, deletions and moves leave what stays of an index in the order   *)
(* it was in, and what moves within its directory at its place.            *)
THEOREM UpkeepsKeepOrder == Spec => UpkeepKeepsOrder
<1>1. ContentInv /\ TreesTyped /\ [Next]_vars
        => [history' # history /\ op'.does \in {"write", "delete", "move"} =>
        \A d \in Folders :
            (\A t \in {Tip, Tip'} : HasIndex(t, d) /\ NamesOnce(t, d)) =>
                LET moved == op'.does = "move" /\ Parent(op'.path) = d /\ op'.entry # Index
                    Now(n) == IF moved /\ n = Leaf(op'.path) THEN op'.entry ELSE n
                    before == [i \in DOMAIN StoredOrder(Tip, d) |-> Now(StoredOrder(Tip, d)[i].name)]
                    after == NamesOf(StoredOrder(Tip', d))
                IN Kept(before, after) = Kept(after, before)]_vars
  BY StepUpkeep DEF Renaming
<1>2. Init => ContentInv /\ TreesTyped
  BY InitOK, TypedInit
<1>3. ContentInv /\ TreesTyped /\ [Next]_vars => (ContentInv /\ TreesTyped)'
  BY NextKeeps, NextTyped
<1> QED
  BY <1>1, <1>2, <1>3, PTL DEF Spec, UpkeepKeepsOrder
=============================================================================
