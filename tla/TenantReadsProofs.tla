-------------------------- MODULE TenantReadsProofs --------------------------
(***************************************************************************)
(* What the reads of TenantReads answer, for every history the writes of   *)
(* TenantContent can leave and every scope, date window, page and file.    *)
(***************************************************************************)
EXTENDS TenantReads, TenantContentProofs

-----------------------------------------------------------------------------
(* Least and greatest of a set *)

LEMMA MaxFacts ==
    ASSUME NEW n \in Nat, NEW S, S \subseteq 0..n, S # {}
    PROVE  Max(S) \in S /\ \A i \in S : i <= Max(S)
<1>1. PICK m \in S : \A i \in S : i <= m
  BY Greatest
<1> QED
  BY <1>1 DEF Max

LEMMA MinIs ==
    ASSUME NEW S, S \subseteq Nat, NEW m \in S, \A i \in S : m <= i
    PROVE  Min(S) = m
<1>1. Min(S) \in S /\ Min(S) <= m
  BY MinFacts
<1>2. m \in Nat /\ Min(S) \in Nat /\ m <= Min(S)
  BY <1>1
<1> QED
  BY <1>1, <1>2

LEMMA MaxIs ==
    ASSUME NEW n \in Nat, NEW S, S \subseteq 0..n, NEW m \in S, \A i \in S : i <= m
    PROVE  Max(S) = m
<1>1. Max(S) \in S /\ m <= Max(S)
  BY MaxFacts
<1>2. \A i \in S : i \in Nat
  OBVIOUS
<1>3. m \in Nat /\ Max(S) \in Nat /\ Max(S) <= m
  BY <1>1, <1>2
<1> QED
  BY <1>1, <1>3

LEMMA RestFacts ==
    ASSUME NEW m \in Nat, NEW n \in Nat, NEW s, s \in SUBSET (m..n), s # {}
    PROVE  Min(s) \in s /\ s \ {Min(s)} \in SUBSET ((m + 1)..n)
<1>1. \A i \in s : i \in Nat /\ m <= i /\ i <= n
  OBVIOUS
<1>2. Min(s) \in s /\ \A i \in s : Min(s) <= i
  BY <1>1, MinFacts
<1>3. ASSUME NEW i \in s, i # Min(s) PROVE i \in (m + 1)..n
  <2>1. i \in Nat /\ Min(s) \in Nat /\ i <= n /\ m <= Min(s)
    BY <1>1, <1>2, <1>3
  <2>2. Min(s) <= i
    BY <1>2, <1>3
  <2> QED
    BY <1>3, <2>1, <2>2
<1> QED
  BY <1>2, <1>3

-----------------------------------------------------------------------------
(* The walk over the commits, from the last one down *)

NoDates(paths) == [dates |-> EmptyTree, read |-> 0, over |-> paths = {}, exhausted |-> FALSE]

(* walks[k] is what is known once the commits from the k-th on are read.   *)
AreWalks(paths, f, walks) ==
    /\ FileDates(paths, f) = walks[1] /\ walks[Len(history) + 1] = NoDates(paths)
    /\ \A k \in 1..Len(history) : walks[k] = DateStep(paths, f, walks[k + 1], k)

LEMMA FileDatesSteps ==
    ASSUME TreesOK, NEW paths, NEW f PROVE \E walks : AreWalks(paths, f, walks)
<1> DEFINE N == Len(history)
           ids == [i \in DOMAIN history |-> i]
           none == NoDates(paths)
           Made(g, m) == g = [s \in SUBSET (m..N) |->
                                 IF s = {} THEN none
                                 ELSE DateStep(paths, f, g[s \ {Min(s)}], ids[Min(s)])]
           S == {m \in Nat : m <= N => \E g : Made(g, N + 1 - m)}
<1>n. N \in Nat /\ N > 0 /\ DOMAIN history = 1..N
  BY TipFacts
<1>i. \A i \in 1..N : ids[i] = i
  BY <1>n
<1> HIDE DEF none, ids, N
<1>1. 0 \in S
  <2>0. (N + 1)..N = {} /\ N + 1 - 0 = N + 1
    BY <1>n
  <2> DEFINE g == [s \in SUBSET ((N + 1)..N) |-> none]
  <2>1. \A s \in SUBSET ((N + 1)..N) : s = {}
    BY <2>0
  <2>2. Made(g, N + 1)
    BY <2>1
  <2> HIDE DEF g, Made
  <2> QED
    BY <2>0, <2>2
<1>2. ASSUME NEW m \in Nat, m \in S PROVE m + 1 \in S
  <2> HIDE DEF Made
  <2> SUFFICES ASSUME m + 1 <= N PROVE \E g : Made(g, N + 1 - (m + 1))
    OBVIOUS
  <2> USE DEF Made
  <2> DEFINE l == N - m
  <2>0. l \in 1..N /\ N + 1 - (m + 1) = l /\ N + 1 - m = l + 1 /\ m <= N
    BY <1>n
  <2> HIDE DEF l
  <2>1. PICK g : Made(g, l + 1)
    BY <1>2, <2>0
  <2> DEFINE h == [s \in SUBSET (l..N) |->
                      IF s = {} THEN none
                      ELSE DateStep(paths, f, g[s \ {Min(s)}], ids[Min(s)])]
  <2>2. \A s \in SUBSET ((l + 1)..N) :
           g[s] = IF s = {} THEN none ELSE DateStep(paths, f, g[s \ {Min(s)}], ids[Min(s)])
    BY <2>1
  <2>3. \A s \in SUBSET ((l + 1)..N) : s \in SUBSET (l..N)
    BY <2>0, <1>n
  <2>4. \A s \in SUBSET ((l + 1)..N) : h[s] = g[s]
    BY <2>2, <2>3
  <2>5. \A s \in SUBSET (l..N) :
           h[s] = IF s = {} THEN none ELSE DateStep(paths, f, h[s \ {Min(s)}], ids[Min(s)])
    <3>0. l \in Nat
      BY <2>0
    <3>1. \A s \in SUBSET (l..N) : s # {} => s \ {Min(s)} \in SUBSET ((l + 1)..N)
      BY ONLY <3>0, <1>n, RestFacts
    <3> QED
      BY <2>4, <3>1
  <2>6. Made(h, l)
    BY <2>5
  <2> HIDE DEF h, Made
  <2> QED
    BY <2>0, <2>6
<1> HIDE DEF Made
<1>3. N \in S
  BY <1>1, <1>2, <1>n, Induct
<1>4. \E h : Made(h, 1)
  BY <1>3, <1>n
<1> DEFINE h == CHOOSE h : Made(h, 1)
<1>5. Made(h, 1)
  BY <1>4
<1>6. DOMAIN ids = 1..N
  BY <1>n DEF ids
<1>7. FileDates(paths, f) = h[1..N]
  <2> DEFINE D == DOMAIN ids
             e == CHOOSE e : e = [s \in SUBSET D |->
                                    IF s = {} THEN none
                                    ELSE DateStep(paths, f, e[s \ {Min(s)}], ids[Min(s)])]
  <2>1. FileDates(paths, f) = e[D]
    BY DEF FileDates, FoldRight, MapThenFoldSet, none, NoDates, ids
  <2>2. D = 1..N
    BY <1>6
  <2> QED
    BY <2>1, <2>2 DEF Made
<1> HIDE DEF h
<1>8. \A s \in SUBSET (1..N) :
         h[s] = IF s = {} THEN none ELSE DateStep(paths, f, h[s \ {Min(s)}], ids[Min(s)])
  BY <1>5 DEF Made
<1> DEFINE g == [k \in 1..(N + 1) |-> h[k..N]]
<1>9. ASSUME NEW k \in 1..N PROVE g[k] = DateStep(paths, f, g[k + 1], k)
  <2>1. /\ k..N \in SUBSET (1..N) /\ k \in k..N /\ k..N # {} /\ k..N \subseteq Nat
        /\ (k..N) \ {k} = (k + 1)..N /\ k + 1 \in 1..(N + 1) /\ k \in 1..(N + 1)
    BY <1>n
  <2>2. Min(k..N) = k
    <3>1. \A i \in k..N : k <= i
      BY <1>n
    <3> QED
      BY <2>1, <3>1, MinIs
  <2> QED
    BY <1>8, <1>i, <2>1, <2>2
<1>10. g[N + 1] = none /\ g[1] = h[1..N]
  <2>1. (N + 1)..N = {} /\ N + 1 \in 1..(N + 1) /\ 1 \in 1..(N + 1)
    BY <1>n
  <2> QED
    BY <1>8, <2>1
<1> HIDE DEF g
<1>11. AreWalks(paths, f, g)
  BY <1>7, <1>9, <1>10 DEF N, none, AreWalks
<1> QED
  BY <1>11

(* The commits from the k-th on that touched p, and that introduced it.    *)
Seen(p, k) == {j \in k..Len(history) : p \in Touched(j)}
Born(p, k) == {j \in k..Len(history) : p \in Introduced(j)}
Met(f, p, k) == IF f.kind = "updated" THEN Seen(p, k) ELSE Born(p, k)

LEMMA MetFacts ==
    ASSUME TreesOK, NEW p
    PROVE  /\ Since(p) = Seen(p, 1)
           /\ {k \in Since(p) : p \in Introduced(k)} = Born(p, 1)
           /\ p \in DOMAIN Tip => Born(p, 1) # {} /\ Seen(p, 1) # {}
<1>1. /\ Len(history) \in Nat /\ Len(history) > 0 /\ DOMAIN history = 1..Len(history)
      /\ Tip = history[Len(history)]
  BY TipFacts
<1>2. \A k \in DOMAIN history : Introduced(k) \subseteq Touched(k)
  BY <1>1 DEF Introduced, Touched, IsFile, EmptyTree
<1>3. ASSUME p \in DOMAIN Tip PROVE Born(p, 1) # {}
  <2> DEFINE S == {k \in 1..Len(history) : p \in DOMAIN history[k]}
  <2>1. Len(history) \in S /\ S \subseteq Nat
    BY <1>1, <1>3
  <2>2. PICK k \in S : \A j \in S : k <= j
    BY <2>1, Least
  <2>3. k = 1 \/ p \notin DOMAIN history[k - 1]
    BY <1>1, <2>2
  <2>4. k \in Born(p, 1)
    BY <2>2, <2>3 DEF Born, Introduced, IsFile
  <2> QED
    BY <2>4
<1>4. Since(p) = Seen(p, 1)
  BY <1>1 DEF Since, Seen
<1>5. {k \in Since(p) : p \in Introduced(k)} = Born(p, 1)
  BY <1>1, <1>2 DEF Since, Born
<1>6. Born(p, 1) \subseteq Seen(p, 1)
  BY <1>1, <1>2 DEF Born, Seen
<1> QED
  BY <1>3, <1>4, <1>5, <1>6

(* What the walk knows once it has read the commits from the k-th on: it   *)
(* goes on, it has every date, or it stopped before it had.                *)
Knows(paths, f, w) ==
    /\ DOMAIN w.dates \subseteq paths
    /\ f.kind = "updated" => \A p \in DOMAIN w.dates : w.dates[p] = Max(Since(p))
Going(paths, f, w, k) ==
    /\ w = [dates |-> w.dates, read |-> Len(history) + 1 - k, over |-> FALSE, exhausted |-> FALSE]
    /\ DOMAIN w.dates = {p \in paths : Met(f, p, k) # {}}
    /\ f.kind # "updated" => \A p \in DOMAIN w.dates : w.dates[p] = Min(Born(p, k))
Ready(paths, f, w) ==
    /\ w = [dates |-> w.dates, read |-> w.read, over |-> TRUE, exhausted |-> FALSE]
    /\ DOMAIN w.dates = paths
    /\ f.kind # "updated" => paths = {}
Stopped(paths, f, w) ==
    /\ w = [dates |-> w.dates, read |-> w.read, over |-> TRUE, exhausted |-> TRUE]
    /\ f.budget < Len(history)
    /\ f.kind = "updated" => DOMAIN w.dates # paths
WalkOK(paths, f, w, k) ==
    Knows(paths, f, w) /\ (Going(paths, f, w, k) \/ Ready(paths, f, w) \/ Stopped(paths, f, w))

LEMMA WalkStarts ==
    ASSUME TreesOK, NEW paths, NEW f
    PROVE  WalkOK(paths, f, NoDates(paths), Len(history) + 1)
<1> DEFINE N == Len(history)
           w == NoDates(paths)
<1>1. N \in Nat /\ N + 1 - (N + 1) = 0
  BY TipFacts
<1>2. \A p : Met(f, p, N + 1) = {}
  BY <1>1 DEF Met, Seen, Born
<1>3. DOMAIN w.dates = {}
  BY DEF EmptyTree, NoDates
<1>4. Knows(paths, f, w)
  BY <1>3 DEF Knows
<1>5. CASE paths = {}
  BY <1>3, <1>4, <1>5 DEF WalkOK, Ready, NoDates
<1>6. CASE paths # {}
  BY <1>1, <1>2, <1>3, <1>4, <1>6 DEF WalkOK, Going, NoDates
<1> QED
  BY <1>5, <1>6

LEMMA WalkReads ==
    ASSUME TreesOK, NEW paths, NEW f, NEW k \in 1..Len(history),
           NEW w, WalkOK(paths, f, w, k + 1)
    PROVE  WalkOK(paths, f, DateStep(paths, f, w, k), k)
<1> DEFINE N == Len(history)
           x == DateStep(paths, f, w, k)
           touched == [p \in paths \cap Touched(k) |-> k]
           added == [p \in paths \cap Introduced(k) |-> k]
<1>n. N \in Nat /\ k \in Nat /\ 1 <= k /\ k <= N /\ DOMAIN history = 1..N
  BY TipFacts
<1> HIDE DEF N
<1>k. Knows(paths, f, w)
  BY DEF WalkOK
<1>1. ASSUME Ready(paths, f, w) \/ Stopped(paths, f, w) PROVE WalkOK(paths, f, x, k)
  <2>1. x = w
    BY <1>1 DEF DateStep, Ready, Stopped
  <2> HIDE DEF x
  <2> QED
    BY <1>1, <1>k, <2>1 DEF WalkOK
<1>2. ASSUME Going(paths, f, w, k + 1) PROVE WalkOK(paths, f, x, k)
  <2> DEFINE d == w.dates
             upToDate == f.kind = "updated" /\ DOMAIN d = paths
  <2>0. N + 1 - (k + 1) = N - k /\ N + 1 - k = N - k + 1 /\ N - k < N
    BY <1>n
  <2>1. /\ w = [dates |-> d, read |-> N - k, over |-> FALSE, exhausted |-> FALSE]
        /\ DOMAIN d = {p \in paths : Met(f, p, k + 1) # {}}
        /\ f.kind # "updated" => \A p \in DOMAIN d : d[p] = Min(Born(p, k + 1))
        /\ DOMAIN d \subseteq paths
        /\ f.kind = "updated" => \A p \in DOMAIN d : d[p] = Max(Since(p))
    BY <1>2, <1>k, <2>0 DEF Going, Knows, N
  <2> HIDE DEF d, upToDate
  <2>2. ASSUME NEW p
        PROVE  /\ Seen(p, k) = Seen(p, k + 1) \cup {j \in {k} : p \in Touched(k)}
               /\ Born(p, k) = Born(p, k + 1) \cup {j \in {k} : p \in Introduced(k)}
    BY <1>n DEF Seen, Born, N
  <2>3. ASSUME upToDate PROVE WalkOK(paths, f, x, k)
    <3>1. x = [dates |-> d, read |-> N - k, over |-> TRUE, exhausted |-> FALSE]
      BY ONLY <2>1, <2>3 DEF DateStep, upToDate, x
    <3> HIDE DEF x
    <3> QED
      BY <2>1, <2>3, <3>1 DEF WalkOK, Ready, Knows, upToDate
  <2>4. ASSUME ~upToDate, N - k = f.budget PROVE WalkOK(paths, f, x, k)
    <3>1. x = [dates |-> d, read |-> N - k, over |-> TRUE, exhausted |-> TRUE]
      BY ONLY <2>1, <2>4 DEF DateStep, upToDate, x
    <3> HIDE DEF x
    <3> QED
      BY <2>0, <2>1, <2>4, <3>1 DEF WalkOK, Stopped, Knows, upToDate, N
  <2>5. ASSUME ~upToDate, N - k # f.budget PROVE WalkOK(paths, f, x, k)
    <3>1. x = [dates |-> x.dates, read |-> N + 1 - k, over |-> FALSE, exhausted |-> FALSE]
      BY ONLY <2>0, <2>1, <2>5 DEF DateStep, upToDate, x
    <3>2. ASSUME f.kind = "updated" PROVE WalkOK(paths, f, x, k)
      <4>1. x.dates = Overlay(d, touched)
        BY <2>1, <2>5, <3>2 DEF DateStep, upToDate
      <4> HIDE DEF x
      <4>2. /\ DOMAIN x.dates = DOMAIN d \cup (paths \cap Touched(k))
            /\ \A p \in DOMAIN d : x.dates[p] = d[p]
            /\ \A p \in paths \cap Touched(k) : p \notin DOMAIN d => x.dates[p] = k
        BY <4>1 DEF Overlay
      <4>3. DOMAIN x.dates = {p \in paths : Met(f, p, k) # {}}
        BY <2>1, <2>2, <3>2, <4>2 DEF Met
      <4>4. ASSUME NEW p \in paths \cap Touched(k), p \notin DOMAIN d
            PROVE  Max(Since(p)) = k
        <5>1. Seen(p, k + 1) = {}
          BY <2>1, <3>2, <4>4 DEF Met
        <5>2. Since(p) = {j \in 1..N : p \in Touched(j)}
          BY <1>n DEF Since
        <5>3. k \in Since(p) /\ Since(p) \subseteq 0..N
          BY <1>n, <5>2
        <5>4. \A j \in Since(p) : j <= k
          BY <1>n, <5>1, <5>2 DEF Seen
        <5> QED
          BY <1>n, <5>3, <5>4, MaxIs
      <4>5. \A p \in DOMAIN x.dates : x.dates[p] = Max(Since(p))
        BY <2>1, <3>2, <4>2, <4>4
      <4> QED
        BY <3>1, <3>2, <4>3, <4>5 DEF WalkOK, Knows, Going, N
    <3>3. ASSUME f.kind # "updated" PROVE WalkOK(paths, f, x, k)
      <4>1. x.dates = Overlay(added, d)
        BY <2>1, <2>5, <3>3 DEF DateStep, upToDate
      <4> HIDE DEF x
      <4>2. /\ DOMAIN x.dates = DOMAIN d \cup (paths \cap Introduced(k))
            /\ \A p \in paths \cap Introduced(k) : x.dates[p] = k
            /\ \A p \in DOMAIN d : p \notin paths \cap Introduced(k) => x.dates[p] = d[p]
        BY <4>1 DEF Overlay
      <4>3. DOMAIN x.dates = {p \in paths : Met(f, p, k) # {}}
        BY <2>1, <2>2, <3>3, <4>2 DEF Met
      <4>4. ASSUME NEW p \in paths \cap Introduced(k) PROVE Min(Born(p, k)) = k
        <5>1. k \in Born(p, k) /\ Born(p, k) \subseteq Nat /\ \A j \in Born(p, k) : k <= j
          BY <1>n DEF Born
        <5> QED
          BY <5>1, MinIs
      <4>5. ASSUME NEW p \in DOMAIN d, p \notin paths \cap Introduced(k)
            PROVE  d[p] = Min(Born(p, k))
        <5>1. Born(p, k) = Born(p, k + 1)
          BY <2>1, <2>2, <4>5
        <5> QED
          BY <2>1, <3>3, <5>1
      <4>6. \A p \in DOMAIN x.dates : x.dates[p] = Min(Born(p, k))
        BY <4>2, <4>4, <4>5
      <4> QED
        BY <3>1, <3>3, <4>3, <4>6 DEF WalkOK, Knows, Going, N
    <3> QED
      BY <3>2, <3>3
  <2> QED
    BY <2>3, <2>4, <2>5
<1> QED
  BY <1>1, <1>2 DEF WalkOK

LEMMA WalkEnds ==
    ASSUME TreesOK, NEW paths, NEW f
    PROVE  WalkOK(paths, f, FileDates(paths, f), 1)
<1> DEFINE N == Len(history)
<1>1. N \in Nat /\ N > 0
  BY TipFacts
<1> HIDE DEF N
<1>2. PICK g : /\ FileDates(paths, f) = g[1] /\ g[N + 1] = NoDates(paths)
               /\ \A k \in 1..N : g[k] = DateStep(paths, f, g[k + 1], k)
  <2>1. PICK walks : AreWalks(paths, f, walks)
    BY FileDatesSteps
  <2> QED
    BY <2>1 DEF AreWalks, N
<1> DEFINE S == {m \in Nat : m <= N => WalkOK(paths, f, g[N + 1 - m], N + 1 - m)}
<1>3. 0 \in S
  <2>1. N + 1 - 0 = N + 1
    BY <1>1
  <2> QED
    BY <1>2, <2>1, WalkStarts DEF N
<1>4. ASSUME NEW m \in Nat, m \in S PROVE m + 1 \in S
  <2> SUFFICES ASSUME m + 1 <= N PROVE WalkOK(paths, f, g[N + 1 - (m + 1)], N + 1 - (m + 1))
    OBVIOUS
  <2>1. PICK k : k = N - m
    OBVIOUS
  <2>2. k \in 1..N /\ N + 1 - m = k + 1 /\ N + 1 - (m + 1) = k /\ m <= N
    BY <1>1, <2>1
  <2>3. WalkOK(paths, f, g[k + 1], k + 1)
    BY <1>4, <2>2
  <2>4. g[k] = DateStep(paths, f, g[k + 1], k)
    BY <1>2, <2>2
  <2> QED
    BY <2>2, <2>3, <2>4, WalkReads DEF N
<1>5. N \in S
  <2> HIDE DEF S
  <2> QED
    BY <1>1, <1>3, <1>4, Induct
<1>6. N + 1 - N = 1
  BY <1>1
<1> QED
  BY <1>1, <1>2, <1>5, <1>6

LEMMA DatesFacts ==
    ASSUME TreesOK, NEW paths, paths \subseteq DOMAIN Tip, NEW f
    PROVE  LET walk == FileDates(paths, f)
           IN /\ walk.exhausted \in BOOLEAN
              /\ ~walk.exhausted => DOMAIN walk.dates = paths
              /\ walk.exhausted =>
                    /\ f.budget < Len(history)
                    /\ f.kind = "updated" => DOMAIN walk.dates # paths
              /\ ~walk.exhausted \/ f.kind = "updated" =>
                    \A p \in DOMAIN walk.dates : walk.dates[p] = DateOf(p, f.kind)
<1> DEFINE w == FileDates(paths, f)
<1>1. WalkOK(paths, f, w, 1)
  BY WalkEnds
<1>2. \A p : /\ DateOf(p, "updated") = Max(Since(p))
             /\ f.kind # "updated" => DateOf(p, f.kind) = Min(Born(p, 1))
  BY MetFacts DEF DateOf
<1>3. \A p \in paths : Met(f, p, 1) # {}
  BY MetFacts DEF Met
<1> HIDE DEF w
<1>4. /\ w.exhausted \in BOOLEAN
      /\ ~w.exhausted => DOMAIN w.dates = paths
      /\ w.exhausted => f.budget < Len(history)
      /\ w.exhausted => (f.kind = "updated" => DOMAIN w.dates # paths)
      /\ ~w.exhausted \/ f.kind = "updated" =>
                    \A p \in DOMAIN w.dates : w.dates[p] = DateOf(p, f.kind)
  <2>1. CASE Going(paths, f, w, 1)
    <3>1. w.exhausted = FALSE /\ DOMAIN w.dates = paths
      BY <1>3, <2>1 DEF Going
    <3> QED
      BY <1>1, <1>2, <2>1, <3>1 DEF Going, WalkOK, Knows
  <2>2. CASE Ready(paths, f, w)
    <3>1. w.exhausted = FALSE
      BY <2>2 DEF Ready
    <3> QED
      BY <1>1, <1>2, <2>2, <3>1 DEF Ready, WalkOK, Knows
  <2>3. CASE Stopped(paths, f, w)
    <3>1. w.exhausted = TRUE
      BY <2>3 DEF Stopped
    <3> QED
      BY <1>1, <1>2, <2>3, <3>1 DEF Stopped, WalkOK, Knows
  <2> QED
    BY <1>1, <2>1, <2>2, <2>3 DEF WalkOK
<1> QED
  BY <1>4 DEF w

(* A walk over the commits that had the time dates every file as its       *)
(* history does, and one that had not says so.                             *)
THEOREM DatesFollowHistory == Spec => []DatesAreTrue
<1>1. ContentInv => DatesAreTrue
  <2> SUFFICES ASSUME ContentInv, NEW kind \in Kinds, NEW budget \in 0..Len(history),
                      NEW paths \in SUBSET {p \in DOMAIN Tip : ~IsIndex(p)}
               PROVE  LET walk == FileDates(paths, Filter(1, 1, kind, budget))
                      IN /\ ~walk.exhausted => DOMAIN walk.dates = paths
                         /\ walk.exhausted /\ kind = "updated" => DOMAIN walk.dates # paths
                         /\ ~walk.exhausted \/ kind = "updated" =>
                               \A p \in DOMAIN walk.dates : walk.dates[p] = DateOf(p, kind)
    BY DEF DatesAreTrue
  <2> DEFINE f == Filter(1, 1, kind, budget)
  <2>1. f.kind = kind /\ paths \subseteq DOMAIN Tip /\ TreesOK
    BY DEF Filter, ContentInv
  <2> HIDE DEF f
  <2> QED
    BY <2>1, DatesFacts DEF f
<1> QED
  BY <1>1, ContentIsRight, PTL

-----------------------------------------------------------------------------
(* Listings by date *)

LEMMA FoldersFacts == ASSUME NEW d \in Folders PROVE d \in Path
<1>1. Root \in Path
  BY DEF Root, Path
<1>2. \A p \in Paths : p \in Path /\ p # Root
  BY ContentConstants, NameFacts, SeqMonotonic DEF Path
<1> QED
  BY <1>1, <1>2, LeafFacts DEF Folders

(* The paths of a walk are those below its root, relative to it.           *)
LEMMA WalkTreeFacts ==
    ASSUME TreesOK, NEW d \in Path, NEW x \in DOMAIN WalkTree(Tip, d)
    PROVE  x \in Path /\ x # Root /\ d \o x \in DOMAIN Tip
<1>1. PICK p \in Subtree(Tip, d) : x = SubSeq(p, Len(d) + 1, Len(p))
  BY DEF WalkTree
<1>2. p \in DOMAIN Tip /\ p \in Path /\ IsStrictPrefix(d, p)
  BY TipFacts DEF Subtree
<1>3. /\ Len(d) \in Nat /\ Len(p) \in Nat /\ Len(d) < Len(p)
      /\ Rebased(d, d, p) = d \o x /\ Rebased(d, d, p) \in Path
      /\ Len(Rebased(d, d, p)) = Len(d) + (Len(p) - Len(d))
      /\ \A i \in 1..Len(d) : Rebased(d, d, p)[i] = d[i]
      /\ \A i \in 1..(Len(p) - Len(d)) : Rebased(d, d, p)[Len(d) + i] = p[Len(d) + i]
  BY <1>1, <1>2, RebasedAt DEF Rebased
<1>4. x \in Path /\ x # Root
  <2>1. SubSeq(p, Len(d) + 1, Len(p)) \in Path /\ Len(SubSeq(p, Len(d) + 1, Len(p))) # 0
    BY <1>2, <1>3, SubSeqProperties DEF Path
  <2>2. Len(Root) = 0
    BY DEF Root
  <2> QED
    BY <1>1, <2>1, <2>2
<1>5. d \o x = p
  <2> DEFINE r == Rebased(d, d, p)
  <2>1. Len(r) = Len(p) /\ r \in Seq(Nat) /\ p \in Seq(Nat)
    BY <1>2, <1>3 DEF Path
  <2>2. \A i \in 1..Len(d) : r[i] = p[i]
    BY <1>2, <1>3, PrefixAt DEF IsStrictPrefix
  <2>3. ASSUME NEW i \in 1..Len(p), ~(i <= Len(d)) PROVE r[i] = p[i]
    <3>1. i - Len(d) \in 1..(Len(p) - Len(d)) /\ Len(d) + (i - Len(d)) = i
      BY <1>3, <2>3
    <3> QED
      BY <1>3, <3>1
  <2>4. \A i \in 1..Len(p) : r[i] = p[i]
    BY <1>3, <2>2, <2>3
  <2> HIDE DEF r
  <2>5. r = p
    BY <2>1, <2>4, SeqEqual
  <2> QED
    BY <1>3, <2>5 DEF r
<1> QED
  BY <1>2, <1>4, <1>5

(* The files of a listing that lie in a window. *)
Inside(s, f, p) ==
    f.from <= DateOf(s.prefix \o p, f.kind) /\ DateOf(s.prefix \o p, f.kind) < f.to

LEMMA SurvivingFacts ==
    ASSUME TreesOK, NEW s \in Scope, NEW flat, flat \subseteq DOMAIN WalkTree(Tip, s.prefix),
           NEW f, f.budget = Len(history)
    PROVE  Surviving(s, flat, f).files = {p \in flat : Inside(s, f, p)}
<1> DEFINE paths == {s.prefix \o p : p \in flat}
           w == FileDates(paths, f)
<1>1. s.prefix \in Path
  BY FoldersFacts DEF Scope
<1>2. paths \subseteq DOMAIN Tip
  BY <1>1, WalkTreeFacts
<1>3. Len(history) \in Nat
  BY TipFacts
<1> HIDE DEF paths
<1>4. /\ w.exhausted \in BOOLEAN
      /\ ~w.exhausted => DOMAIN w.dates = paths
      /\ w.exhausted => f.budget < Len(history)
      /\ ~w.exhausted => \A p \in DOMAIN w.dates : w.dates[p] = DateOf(p, f.kind)
  BY <1>2, DatesFacts
<1>5. ~w.exhausted
  BY <1>3, <1>4
<1>6. DOMAIN w.dates = paths /\ \A p \in paths : w.dates[p] = DateOf(p, f.kind)
  BY <1>4, <1>5
<1> HIDE DEF w
<1>7. Surviving(s, flat, f).files =
        {p \in flat : /\ s.prefix \o p \in DOMAIN w.dates
                      /\ f.from <= w.dates[s.prefix \o p] /\ w.dates[s.prefix \o p] < f.to}
  BY DEF Surviving, w, paths
<1> QED
  BY <1>6, <1>7 DEF Inside, paths

LEMMA FiniteIsBounded ==
    ASSUME NEW S, S \subseteq Nat, IsFiniteSet(S)
    PROVE  \E n \in Nat : S \subseteq 0..n
<1>1. PICK m \in Nat : \E g : g \in Surjection(1..m, S)
  BY FS_NatSurjection DEF ExistsSurjection
<1>2. PICK g : g \in Surjection(1..m, S)
  BY <1>1
<1>3. g \in [1..m -> S] /\ \A x \in S : \E i \in 1..m : g[i] = x
  BY <1>2 DEF Surjection
<1> DEFINE K == {k \in Nat : k <= m => \E n \in Nat : \A i \in 1..k : g[i] <= n}
<1>4. 0 \in K
  <2>1. 1..0 = {}
    OBVIOUS
  <2> QED
    BY <2>1
<1>5. ASSUME NEW k \in Nat, k \in K PROVE k + 1 \in K
  <2> SUFFICES ASSUME k + 1 <= m PROVE \E n \in Nat : \A i \in 1..(k + 1) : g[i] <= n
    OBVIOUS
  <2>1. PICK n \in Nat : \A i \in 1..k : g[i] <= n
    BY <1>5
  <2>2. \A i \in 1..(k + 1) : g[i] \in Nat
    <3>1. \A i \in 1..(k + 1) : i \in 1..m
      OBVIOUS
    <3> QED
      BY <1>3, <3>1
  <2>3. PICK l \in Nat : l >= n /\ l >= g[k + 1]
    <3>1. g[k + 1] \in Nat
      BY <2>2
    <3>2. CASE n >= g[k + 1]
      BY <3>1, <3>2
    <3>3. CASE g[k + 1] >= n
      BY <3>1, <3>3
    <3> QED
      BY <3>1, <3>2, <3>3
  <2>4. \A i \in 1..(k + 1) : i \in 1..k \/ i = k + 1
    OBVIOUS
  <2>5. \A i \in 1..(k + 1) : g[i] <= l
    BY <2>1, <2>2, <2>3, <2>4
  <2> QED
    BY <2>5
<1>6. m \in K
  <2> HIDE DEF K
  <2> QED
    BY <1>4, <1>5, Induct
<1>7. PICK n \in Nat : \A i \in 1..m : g[i] <= n
  BY <1>6
<1>8. \A x \in S : x \in 0..n
  BY <1>3, <1>7
<1> QED
  BY <1>8

LEMMA AnyDepthFacts ==
    ASSUME NEW d \in Depths
    PROVE  AnyDepth \in Nat /\ d \in Nat /\ d >= 1 /\ d <= AnyDepth
<1>1. Depths \subseteq Nat \ {0} /\ IsFiniteSet(Depths)
  BY ReadConstants
<1>2. PICK n \in Nat : Depths \subseteq 0..n
  BY <1>1, FiniteIsBounded
<1>3. Max(Depths) \in Depths /\ d <= Max(Depths)
  BY <1>2, MaxFacts
<1>4. \A x \in Depths : x \in Nat /\ x >= 1
  BY <1>1
<1> QED
  BY <1>3, <1>4 DEF AnyDepth

(* What the answers of the two kinds of listing by date have in common.    *)
LEMMA ChosenIs ==
    ASSUME TreesOK, NEW s, NEW window \in Windows, NEW kind, NEW files,
           \A p \in files : DateOf(s.prefix \o p, kind) \in Nat
    PROVE  Chosen(s, window, kind, files)
           = BuildTree({p \in files : Inside(s, Filter(window[1], window[2], kind, Len(history)), p)},
                       {}, s.depth)
<1> DEFINE f == Filter(window[1], window[2], kind, Len(history))
<1>1. window[1] \in Nat /\ window[2] \in Nat
  BY TipFacts DEF Windows
<1>2. f.from = window[1] /\ f.to = window[2] /\ f.kind = kind
  BY DEF Filter
<1>3. ASSUME NEW p \in files
      PROVE  DateOf(s.prefix \o p, kind) \in window[1]..(window[2] - 1) <=> Inside(s, f, p)
  <2>1. DateOf(s.prefix \o p, kind) \in Nat
    OBVIOUS
  <2> QED
    BY <1>1, <1>2, <2>1 DEF Inside
<1>4. {p \in files : DateOf(s.prefix \o p, kind) \in window[1]..(window[2] - 1)}
      = {p \in files : Inside(s, f, p)}
  BY <1>3
<1> QED
  BY <1>4 DEF Chosen

(* A path below the depth of a listing leads to the directory at it.       *)
LEMMA CutFacts ==
    ASSUME NEW p \in Path, NEW n \in Nat, n >= 1, n < Len(p)
    PROVE  LET e == SubSeq(p, 1, n)
           IN /\ e \in Ancestors(p) /\ e \in Path /\ Len(e) = n
              /\ \A i \in 1..n : e[i] = p[i]
              /\ \A d \in Ancestors(p) : Len(d) <= n => d \in Ancestors(e) \cup {e}
<1> DEFINE e == SubSeq(p, 1, n)
<1>1. /\ e \in Path /\ Len(e) = n /\ Len(p) \in Nat /\ \A i \in 1..n : e[i] = p[i]
  BY SubSeqProperties DEF Path
<1> HIDE DEF e
<1>2. e # Root /\ IsStrictPrefix(e, p)
  <2>1. IsPrefix(e, p)
    BY <1>1, PrefixAt
  <2>2. Len(Root) = 0
    BY DEF Root
  <2> QED
    BY <1>1, <2>1, <2>2 DEF IsStrictPrefix
<1>3. e \in Ancestors(p)
  BY <1>1, <1>2, AncestorsFacts
<1>4. ASSUME NEW d \in Ancestors(p), Len(d) <= n PROVE d \in Ancestors(e) \cup {e}
  <2>1. d \in Path /\ d # Root /\ IsPrefix(d, p) /\ IsPrefix(e, p)
    BY <1>2, AncestorsFacts DEF IsStrictPrefix
  <2>2. IsPrefix(d, e) \/ IsPrefix(e, d)
    BY <1>1, <2>1, PrefixFacts
  <2>3. IsPrefix(e, d) => d = e
    <3>1. ASSUME IsPrefix(e, d) PROVE d = e
      <4>1. Len(e) <= Len(d) /\ Len(d) \in Nat
        BY <1>1, <2>1, <3>1, PrefixFacts DEF Path
      <4>2. Len(e) = Len(d)
        BY <1>1, <1>4, <4>1
      <4> QED
        BY <1>1, <2>1, <3>1, <4>2, PrefixFacts
    <3> QED
      BY <3>1
  <2>4. IsPrefix(d, e)
    BY <2>2, <2>3
  <2>5. d # e => IsStrictPrefix(d, e)
    BY <2>4 DEF IsStrictPrefix
  <2> QED
    BY <1>1, <2>1, <2>5, AncestorsFacts
<1>5. \A d \in Ancestors(p) : Len(d) <= n => d \in Ancestors(e) \cup {e}
  BY <1>4
<1> QED
  BY <1>1, <1>3, <1>5 DEF e

(* A search cut at a depth keeps the directories there that hold a file in *)
(* the window, and so shows what leads to the files it is for.             *)
Caught(s, needle) ==
    {p \in FilesOf(WalkTree(Tip, s.prefix), s) : \E i \in DOMAIN p : i <= s.depth /\ p[i] \in needle}

LEMMA DatedSearch ==
    ASSUME TreesOK, NEW s \in Scope, NEW f, f.budget = Len(history), NEW needle
    PROVE  FinishDated(s, Search(s, needle), f).tree
           = BuildTree({p \in Caught(s, needle) : Inside(s, f, p)}, {}, s.depth)
<1> DEFINE w == WalkTree(Tip, s.prefix)
           files == FilesOf(w, s)
           D == s.depth
           Matches(p) == \E i \in DOMAIN p : p[i] \in needle
           Early(p) == \E i \in DOMAIN p : i <= D /\ p[i] \in needle
           flat == {p \in files : Len(p) <= D /\ Matches(p)}
           cut == {d \in DirsOf(w, s) : Len(d) = D /\ Matches(d)}
           Below(d) == {p \in files : IsStrictPrefix(d, p)}
           dated == {p \in flat \cup UNION {Below(d) : d \in cut} : Inside(s, f, p)}
           stubs == {d \in cut : Below(d) \cap dated # {}}
           shown == {p \in files : Early(p) /\ Inside(s, f, p)}
<1>1. D \in Nat /\ D >= 1 /\ AnyDepth \in Nat /\ D <= AnyDepth
  BY AnyDepthFacts DEF Scope
<1>2. files \subseteq DOMAIN w /\ \A p \in DOMAIN w : p \in Path /\ p # Root
  BY FoldersFacts, WalkTreeFacts DEF FilesOf, Scope
<1>3. FinishDated(s, Search(s, needle), f).tree = BuildTree(flat \cap dated, stubs, AnyDepth)
  <2> DEFINE found == Search(s, needle)
             all == flat \cup UNION {Below(d) : d \in cut}
  <2>1. found.flat = flat /\ found.depthStubs = cut
    BY DEF Search, Found
  <2>2. all \subseteq DOMAIN w
    BY <1>2
  <2> HIDE DEF found, flat, cut, all, files
  <2>3. Surviving(s, all, f).files = {p \in all : Inside(s, f, p)}
    BY <2>2, SurvivingFacts
  <2> DEFINE kept == Surviving(s, all, f)
  <2>4. all = found.flat \cup
              UNION {{p \in FilesOf(w, s) : IsStrictPrefix(d, p)} : d \in found.depthStubs}
    BY <2>1 DEF all, files
  <2>5. FinishDated(s, found, f).tree
        = BuildTree(found.flat \cap kept.files,
                    {d \in found.depthStubs :
                        {p \in FilesOf(w, s) : IsStrictPrefix(d, p)} \cap kept.files # {}},
                    AnyDepth)
    BY <2>4 DEF FinishDated
  <2>6. kept.files = dated
    BY <2>3 DEF all
  <2> HIDE DEF kept, dated
  <2>7. FinishDated(s, found, f).tree = BuildTree(flat \cap dated, stubs, AnyDepth)
    BY <2>1, <2>5, <2>6 DEF files
  <2> QED
    BY <2>7 DEF found
<1>4. {p \in flat \cap dated : Len(p) <= AnyDepth} = {p \in shown : Len(p) <= D}
  <2>1. ASSUME NEW p \in files
        PROVE  Len(p) <= D => Len(p) <= AnyDepth /\ (Matches(p) <=> Early(p))
    <3>1. p \in Path /\ Len(p) \in Nat /\ DOMAIN p = 1..Len(p)
      BY <1>2 DEF Path
    <3> QED
      BY <1>1, <3>1
  <2> HIDE DEF files, Matches, Early
  <2> QED
    BY <2>1
<1>5. {d \in UNION {Ancestors(p) : p \in flat \cap dated} : Len(d) <= AnyDepth}
         \cup UNION {Ancestors(d) \cup {d} : d \in stubs}
      = {d \in UNION {Ancestors(p) : p \in shown} : Len(d) <= D}
  <2>1. ASSUME NEW p \in flat \cap dated, NEW d \in Ancestors(p)
        PROVE  p \in shown /\ Len(d) <= D
    <3>1. p \in Path /\ Len(p) \in Nat /\ DOMAIN p = 1..Len(p) /\ Len(p) <= D /\ Matches(p)
      BY <1>2 DEF Path
    <3>2. Early(p)
      BY <1>1, <3>1
    <3>3. d \in Path /\ Len(d) <= Len(p) /\ Len(d) \in Nat
      BY <3>1, AncestorsFacts, PrefixFacts DEF IsStrictPrefix, Path
    <3> HIDE DEF Early, Matches
    <3> QED
      BY <1>1, <3>1, <3>2, <3>3
  <2>2. ASSUME NEW e \in stubs, NEW d \in Ancestors(e) \cup {e}
        PROVE  (\E p \in shown : d \in Ancestors(p)) /\ Len(d) <= D
    <3>1. PICK p \in files : IsStrictPrefix(e, p) /\ Inside(s, f, p)
      OBVIOUS
    <3>2. p \in Path /\ e \in DirsOf(w, s) /\ Len(e) = D /\ Matches(e)
      BY <1>2
    <3>3. PICK q \in DOMAIN w : e \in Ancestors(q)
      BY <3>2 DEF DirsOf
    <3>4. e \in Path /\ e # Root
      BY <1>2, <3>3, AncestorsFacts
    <3>5. e \in Ancestors(p)
      BY <3>1, <3>2, <3>4, AncestorsFacts
    <3>6. Early(p)
      <4>1. /\ DOMAIN e = 1..D /\ Len(p) \in Nat /\ DOMAIN p = 1..Len(p) /\ D <= Len(p)
            /\ \A i \in 1..D : e[i] = p[i]
        BY <3>1, <3>2, <3>4, PrefixAt DEF IsStrictPrefix, Path
      <4>2. PICK i \in 1..D : e[i] \in needle
        BY <3>2, <4>1
      <4> QED
        BY <1>1, <4>1, <4>2
    <3>7. p \in shown
      BY <3>1, <3>6
    <3>8. d \in Ancestors(p) /\ Len(d) <= D
      <4>1. CASE d = e
        BY <1>1, <3>2, <3>5, <4>1
      <4>2. CASE d \in Ancestors(e)
        <5>1. d \in Path /\ d # Root /\ IsStrictPrefix(d, e)
          BY <3>4, <4>2, AncestorsFacts
        <5>2. IsPrefix(d, p) /\ Len(d) <= D
          BY <3>1, <3>2, <3>4, <5>1, PrefixFacts DEF IsStrictPrefix
        <5>3. d # p
          BY <3>1, <3>2, <3>4, <5>1, PrefixFacts DEF IsStrictPrefix
        <5> QED
          BY <3>2, <5>1, <5>2, <5>3, AncestorsFacts DEF IsStrictPrefix
      <4> QED
        BY <4>1, <4>2
    <3> HIDE DEF shown
    <3> QED
      BY <3>7, <3>8
  <2>3. ASSUME NEW p \in shown, NEW d \in Ancestors(p), Len(d) <= D
        PROVE  \/ p \in flat \cap dated /\ Len(d) <= AnyDepth
               \/ \E e \in stubs : d \in Ancestors(e) \cup {e}
    <3>1. /\ p \in files /\ Early(p) /\ Inside(s, f, p)
          /\ p \in DOMAIN w /\ p \in Path /\ Len(p) \in Nat /\ DOMAIN p = 1..Len(p)
      BY <1>2 DEF Path
    <3>2. CASE Len(p) <= D
      <4>1. p \in flat
        BY <3>1, <3>2
      <4>2. Len(d) \in Nat
        BY <3>1, AncestorsFacts DEF Path
      <4>3. Len(d) <= AnyDepth
        BY <1>1, <2>3, <4>2
      <4> HIDE DEF flat
      <4> QED
        BY <3>1, <4>1, <4>3
    <3>3. CASE ~(Len(p) <= D)
      <4> DEFINE e == SubSeq(p, 1, D)
      <4>1. /\ e \in Ancestors(p) /\ e \in Path /\ Len(e) = D
            /\ \A i \in 1..D : e[i] = p[i]
            /\ d \in Ancestors(e) \cup {e}
        BY <1>1, <2>3, <3>1, <3>3, CutFacts
      <4> HIDE DEF e
      <4>2. DOMAIN e = 1..D
        BY <4>1 DEF Path
      <4>3. InSight(e, s)
        <5>1. InSight(p, s)
          BY <3>1 DEF FilesOf
        <5>2. \A i \in 1..D : i \in 1..Len(p)
          BY <1>1, <3>1, <3>3
        <5> QED
          BY <3>1, <4>1, <4>2, <5>1, <5>2 DEF InSight
      <4>4. e \in DirsOf(w, s)
        BY <3>1, <4>1, <4>3 DEF DirsOf
      <4>5. Matches(e)
        BY <1>1, <3>1, <4>1, <4>2
      <4>6. IsStrictPrefix(e, p)
        BY <3>1, <4>1, AncestorsFacts
      <4> HIDE DEF Matches, files
      <4>7. e \in cut
        BY <4>1, <4>4, <4>5
      <4>8. p \in Below(e) /\ p \in dated
        BY <3>1, <4>6, <4>7
      <4>9. e \in stubs
        BY <4>7, <4>8
      <4> QED
        BY <4>1, <4>9
    <3> QED
      BY <3>2, <3>3
  <2> HIDE DEF flat, dated, stubs, shown
  <2> QED
    BY <2>1, <2>2, <2>3
<1>6. BuildTree(flat \cap dated, stubs, AnyDepth) = BuildTree(shown, {}, D)
  <2> HIDE DEF flat, dated, stubs, shown
  <2>1. UNION {Ancestors(d) \cup {d} : d \in {}} = {}
    OBVIOUS
  <2> QED
    BY <1>4, <1>5, <2>1 DEF BuildTree
<1>7. shown = {p \in Caught(s, needle) : Inside(s, f, p)}
  BY DEF Caught
<1> QED
  BY <1>3, <1>6, <1>7

LEMMA DatesAreNumbers ==
    ASSUME TreesOK, NEW p \in DOMAIN Tip, NEW kind PROVE DateOf(p, kind) \in Nat
<1>1. /\ Since(p) = Seen(p, 1) /\ {k \in Since(p) : p \in Introduced(k)} = Born(p, 1)
      /\ Born(p, 1) # {} /\ Seen(p, 1) # {}
  BY MetFacts
<1>2. /\ Len(history) \in Nat /\ Born(p, 1) \subseteq Nat
      /\ Seen(p, 1) \subseteq 0..Len(history)
  BY TipFacts DEF Seen, Born
<1>3. Max(Seen(p, 1)) \in Nat /\ Min(Born(p, 1)) \in Nat
  BY <1>1, <1>2, MaxFacts, MinFacts
<1> QED
  BY <1>1, <1>3 DEF DateOf

(* Under a date filter a listing shows, down to its depth, what leads to   *)
(* the files whose own date is in the window, whether it lists everything  *)
(* or what a search by name finds.                                         *)
THEOREM WindowsShowTheirFiles == Spec => []DatedListingsShowTheWindow
<1>1. ContentInv => DatedListingsShowTheWindow
  <2> SUFFICES ASSUME ContentInv, NEW s \in Scope, NEW window \in Windows, NEW kind \in Kinds
               PROVE  LET f == Filter(window[1], window[2], kind, Len(history))
                          files == FilesOf(WalkTree(Tip, s.prefix), s)
                          Named(needle) == {p \in files : \E i \in DOMAIN p : i <= s.depth /\ p[i] \in needle}
                      IN /\ DateListing(s, f).tree = Chosen(s, window, kind, files)
                         /\ \A needle \in Needles :
                               FinishDated(s, Search(s, needle), f).tree
                               = Chosen(s, window, kind, Named(needle))
    BY DEF DatedListingsShowTheWindow
  <2> DEFINE f == Filter(window[1], window[2], kind, Len(history))
             files == FilesOf(WalkTree(Tip, s.prefix), s)
             Named(needle) == {p \in files : \E i \in DOMAIN p : i <= s.depth /\ p[i] \in needle}
  <2>1. TreesOK /\ f.budget = Len(history) /\ f = Filter(window[1], window[2], kind, Len(history))
    BY DEF Filter, ContentInv
  <2>2. files \subseteq DOMAIN WalkTree(Tip, s.prefix)
    BY DEF FilesOf
  <2>3. \A p \in files : DateOf(s.prefix \o p, kind) \in Nat
    BY <2>1, <2>2, FoldersFacts, WalkTreeFacts, DatesAreNumbers DEF Scope
  <2> HIDE DEF f, files
  <2>4. DateListing(s, f).tree = Chosen(s, window, kind, files)
    <3>1. Surviving(s, files, f).files = {p \in files : Inside(s, f, p)}
      BY <2>1, <2>2, SurvivingFacts
    <3>2. Chosen(s, window, kind, files)
          = BuildTree({p \in files : Inside(s, f, p)}, {}, s.depth)
      BY <2>1, <2>3, ChosenIs DEF f
    <3> QED
      BY <3>1, <3>2 DEF DateListing, files
  <2>5. ASSUME NEW needle \in Needles
        PROVE  FinishDated(s, Search(s, needle), f).tree = Chosen(s, window, kind, Named(needle))
    <3>0. Caught(s, needle) = Named(needle)
      BY Zenon DEF Caught, files
    <3> HIDE DEF Named
    <3>1. FinishDated(s, Search(s, needle), f).tree
          = BuildTree({p \in Named(needle) : Inside(s, f, p)}, {}, s.depth)
      <4>1. FinishDated(s, Search(s, needle), f).tree
            = BuildTree({p \in Caught(s, needle) : Inside(s, f, p)}, {}, s.depth)
        BY <2>1, DatedSearch
      <4> QED
        BY <3>0, <4>1
    <3>2. Chosen(s, window, kind, Named(needle))
          = BuildTree({p \in Named(needle) : Inside(s, f, p)}, {}, s.depth)
      <4>1. \A p \in Named(needle) : DateOf(s.prefix \o p, kind) \in Nat
        BY <2>3 DEF Named
      <4> QED
        BY <2>1, <4>1, ChosenIs DEF f
    <3> QED
      BY <3>1, <3>2
  <2> QED
    BY <2>4, <2>5 DEF f, files
<1> QED
  BY <1>1, ContentIsRight, PTL

-----------------------------------------------------------------------------
(* The walk of a log: what it has once it has read the commits from the    *)
(* n-th down to the k-th, for every k.                                     *)
NothingLogged(p) == [commits |-> <<>>, path |-> p]
AreLogs(n, p, need, walks) ==
    /\ walks[n + 1] = NothingLogged(p)
    /\ \A k \in 1..n : walks[k] = LogStep(need, walks[k + 1], k)
    /\ Log(n, p, need) = walks[1].commits

LEMMA LogSteps ==
    ASSUME NEW n \in Nat, NEW p, NEW need PROVE \E walks : AreLogs(n, p, need, walks)
<1> DEFINE ids == [i \in 1..n |-> i]
           none == NothingLogged(p)
           Made(g, m) == g = [s \in SUBSET (m..n) |->
                                 IF s = {} THEN none
                                 ELSE LogStep(need, g[s \ {Min(s)}], ids[Min(s)])]
           S == {m \in Nat : m <= n => \E g : Made(g, n + 1 - m)}
<1>i. \A i \in 1..n : ids[i] = i
  OBVIOUS
<1> HIDE DEF none, ids
<1>1. 0 \in S
  <2>0. (n + 1)..n = {} /\ n + 1 - 0 = n + 1
    OBVIOUS
  <2> DEFINE g == [s \in SUBSET ((n + 1)..n) |-> none]
  <2>1. \A s \in SUBSET ((n + 1)..n) : s = {}
    BY <2>0
  <2>2. Made(g, n + 1)
    BY <2>1
  <2> HIDE DEF g, Made
  <2> QED
    BY <2>0, <2>2
<1>2. ASSUME NEW m \in Nat, m \in S PROVE m + 1 \in S
  <2> HIDE DEF Made
  <2> SUFFICES ASSUME m + 1 <= n PROVE \E g : Made(g, n + 1 - (m + 1))
    OBVIOUS
  <2> USE DEF Made
  <2> DEFINE l == n - m
  <2>0. l \in 1..n /\ n + 1 - (m + 1) = l /\ n + 1 - m = l + 1 /\ m <= n
    OBVIOUS
  <2> HIDE DEF l
  <2>1. PICK g : Made(g, l + 1)
    BY <1>2, <2>0
  <2> DEFINE h == [s \in SUBSET (l..n) |->
                      IF s = {} THEN none
                      ELSE LogStep(need, g[s \ {Min(s)}], ids[Min(s)])]
  <2>2. \A s \in SUBSET ((l + 1)..n) :
           g[s] = IF s = {} THEN none ELSE LogStep(need, g[s \ {Min(s)}], ids[Min(s)])
    BY <2>1
  <2>3. \A s \in SUBSET ((l + 1)..n) : s \in SUBSET (l..n)
    BY <2>0
  <2>4. \A s \in SUBSET ((l + 1)..n) : h[s] = g[s]
    BY <2>2, <2>3
  <2>5. \A s \in SUBSET (l..n) :
           h[s] = IF s = {} THEN none ELSE LogStep(need, h[s \ {Min(s)}], ids[Min(s)])
    <3>0. l \in Nat
      BY <2>0
    <3>1. \A s \in SUBSET (l..n) : s # {} => s \ {Min(s)} \in SUBSET ((l + 1)..n)
      BY ONLY <3>0, RestFacts
    <3> QED
      BY <2>4, <3>1
  <2>6. Made(h, l)
    BY <2>5
  <2> HIDE DEF h, Made
  <2> QED
    BY <2>0, <2>6
<1> HIDE DEF Made
<1>3. n \in S
  BY <1>1, <1>2, Induct
<1>4. \E h : Made(h, 1)
  BY <1>3
<1> DEFINE h == CHOOSE h : Made(h, 1)
<1>5. Made(h, 1)
  BY <1>4
<1>6. DOMAIN ids = 1..n
  BY DEF ids
<1>7. Log(n, p, need) = h[1..n].commits
  <2> DEFINE D == DOMAIN ids
             e == CHOOSE e : e = [s \in SUBSET D |->
                                    IF s = {} THEN none
                                    ELSE LogStep(need, e[s \ {Min(s)}], ids[Min(s)])]
  <2>1. Log(n, p, need) = e[D].commits
    BY DEF Log, FoldRight, MapThenFoldSet, none, NothingLogged, ids
  <2>2. D = 1..n
    BY <1>6
  <2> QED
    BY <2>1, <2>2 DEF Made
<1> HIDE DEF h
<1>8. \A s \in SUBSET (1..n) :
         h[s] = IF s = {} THEN none ELSE LogStep(need, h[s \ {Min(s)}], ids[Min(s)])
  BY <1>5 DEF Made
<1> DEFINE g == [k \in 1..(n + 1) |-> h[k..n]]
<1>9. ASSUME NEW k \in 1..n PROVE g[k] = LogStep(need, g[k + 1], k)
  <2>1. /\ k..n \in SUBSET (1..n) /\ k \in k..n /\ k..n # {} /\ k..n \subseteq Nat
        /\ (k..n) \ {k} = (k + 1)..n /\ k + 1 \in 1..(n + 1) /\ k \in 1..(n + 1)
    OBVIOUS
  <2>2. Min(k..n) = k
    <3>1. \A i \in k..n : k <= i
      OBVIOUS
    <3> QED
      BY <2>1, <3>1, MinIs
  <2> QED
    BY <1>8, <1>i, <2>1, <2>2
<1>10. g[n + 1] = none /\ g[1] = h[1..n]
  <2>1. (n + 1)..n = {} /\ n + 1 \in 1..(n + 1) /\ 1 \in 1..(n + 1)
    OBVIOUS
  <2> QED
    BY <1>8, <2>1
<1> HIDE DEF g
<1>11. AreLogs(n, p, need, g)
  BY <1>7, <1>9, <1>10 DEF none, AreLogs
<1> QED
  BY <1>11

LEMMA Downward ==
    ASSUME NEW m \in Nat, NEW n \in Nat, m <= n + 1, NEW S, n + 1 \in S,
           \A k \in m..n : k + 1 \in S => k \in S
    PROVE  \A k \in m..(n + 1) : k \in S
<1> DEFINE T == {i \in Nat : i <= n + 1 - m => n + 1 - i \in S}
<1>1. 0 \in T
  OBVIOUS
<1>2. ASSUME NEW i \in Nat, i \in T PROVE i + 1 \in T
  <2>1. SUFFICES ASSUME i + 1 <= n + 1 - m PROVE n + 1 - (i + 1) \in S
    OBVIOUS
  <2>2. n + 1 - i \in S /\ n - i \in m..n /\ (n - i) + 1 = n + 1 - i /\ n + 1 - (i + 1) = n - i
    BY <1>2, <2>1
  <2> QED
    BY <2>2
<1>3. Nat \subseteq T
  BY <1>1, <1>2, Induct
<1>4. ASSUME NEW k \in m..(n + 1) PROVE k \in S
  <2>1. n + 1 - k \in Nat /\ n + 1 - k <= n + 1 - m /\ n + 1 - (n + 1 - k) = k
    OBVIOUS
  <2>2. n + 1 - k \in T
    BY <1>3, <2>1
  <2> QED
    BY <2>1, <2>2
<1> QED
  BY <1>4

Logged(n, w, k) ==
    /\ w = [commits |-> w.commits, path |-> w.path]
    /\ w.commits \in Seq(k..n) /\ Len(w.commits) \in Nat /\ Len(w.commits) <= n + 1 - k

LEMMA WiderSeq ==
    ASSUME NEW A, NEW B, A \subseteq B, NEW s \in Seq(A) PROVE s \in Seq(B)
  OBVIOUS

LEMMA LogShape ==
    ASSUME NEW n \in Nat, NEW p, NEW need, NEW g, AreLogs(n, p, need, g)
    PROVE  \A k \in 1..(n + 1) : Logged(n, g[k], k)
<1> DEFINE S == {k \in 1..(n + 1) : Logged(n, g[k], k)}
<1>1. n + 1 \in S
  <2>1. <<>> \in Seq((n + 1)..n) /\ Len(<<>>) = 0 /\ n + 1 \in 1..(n + 1)
        /\ n + 1 - (n + 1) = 0
    OBVIOUS
  <2>2. g[n + 1] = [commits |-> <<>>, path |-> p]
    BY DEF AreLogs, NothingLogged
  <2>3. Logged(n, g[n + 1], n + 1)
    BY <2>1, <2>2 DEF Logged
  <2> QED
    BY <2>1, <2>3
<1>2. ASSUME NEW k \in 1..n, k + 1 \in S PROVE k \in S
  <2> DEFINE w == g[k + 1]
             q == IF ObjectIn(k - 1, w.path) = Absent THEN Source(k, w.path) ELSE w.path
  <2>1. /\ w = [commits |-> w.commits, path |-> w.path]
        /\ w.commits \in Seq((k + 1)..n) /\ Len(w.commits) \in Nat
        /\ Len(w.commits) <= n - k
    BY <1>2 DEF Logged
  <2>2. g[k] = w \/ g[k] = [commits |-> Append(w.commits, k), path |-> q]
    BY DEF AreLogs, LogStep
  <2>3. (k + 1)..n \subseteq k..n /\ k \in k..n
    OBVIOUS
  <2> HIDE DEF w, q
  <2>4. w.commits \in Seq(k..n)
    BY <2>1, <2>3, WiderSeq
  <2>5. Append(w.commits, k) \in Seq(k..n) /\ Len(Append(w.commits, k)) = Len(w.commits) + 1
    BY <2>3, <2>4
  <2>6. n + 1 - k = (n - k) + 1 /\ n - k \in Nat /\ k \in 1..(n + 1)
    OBVIOUS
  <2>7. ASSUME g[k] = w PROVE Logged(n, g[k], k)
    <3>1. Len(w.commits) <= n + 1 - k
      BY <2>1, <2>6
    <3> QED
      BY <2>1, <2>4, <2>7, <3>1 DEF Logged
  <2>8. ASSUME g[k] = [commits |-> Append(w.commits, k), path |-> q] PROVE Logged(n, g[k], k)
    <3>1. Len(Append(w.commits, k)) \in Nat /\ Len(Append(w.commits, k)) <= n + 1 - k
      BY <2>1, <2>5, <2>6
    <3> QED
      BY <2>5, <2>8, <3>1 DEF Logged
  <2> QED
    BY <2>2, <2>6, <2>7, <2>8
<1> HIDE DEF S
<1>3. \A k \in 1..(n + 1) : k \in S
  <2>1. 1 \in Nat /\ 1 <= n + 1
    OBVIOUS
  <2> QED
    BY ONLY <1>1, <1>2, <2>1, n \in Nat, Downward
<1> QED
  BY <1>3 DEF S

LEMMA TellsAppend ==
    ASSUME NEW n \in Nat, NEW k \in 1..n, NEW s \in Seq((k + 1)..n), NEW C, TellsOf(s, C)
    PROVE  TellsOf(Append(s, k), C \cup {k})
<1> DEFINE r == Append(s, k)
<1>0. Len(s) \in Nat /\ DOMAIN s = 1..Len(s) /\ \A i \in 1..Len(s) : s[i] \in (k + 1)..n
  OBVIOUS
<1>1. /\ DOMAIN r = 1..(Len(s) + 1) /\ r[Len(s) + 1] = k
      /\ \A i \in 1..Len(s) : r[i] = s[i]
  BY <1>0
<1> HIDE DEF r
<1>2. Range(r) = C \cup {k}
  <2>1. \A i \in DOMAIN r : i \in 1..Len(s) \/ i = Len(s) + 1
    BY <1>0, <1>1
  <2>2. 1..Len(s) \subseteq DOMAIN r /\ Len(s) + 1 \in DOMAIN r
    BY <1>0, <1>1
  <2> QED
    BY <1>0, <1>1, <2>1, <2>2 DEF TellsOf, Range
<1>3. ASSUME NEW i \in DOMAIN r, NEW j \in DOMAIN r, i < j PROVE r[i] > r[j]
  <2>1. i \in 1..Len(s) /\ (j \in 1..Len(s) \/ j = Len(s) + 1)
    BY <1>0, <1>1, <1>3
  <2>2. CASE j \in 1..Len(s)
    BY <1>0, <1>1, <1>3, <2>1, <2>2 DEF TellsOf
  <2>3. CASE j = Len(s) + 1
    BY <1>0, <1>1, <2>1, <2>3
  <2> QED
    BY <2>1, <2>2, <2>3
<1> QED
  BY <1>2, <1>3 DEF TellsOf, r

(* Until it meets a commit that moved a file to the path, a log follows    *)
(* the path itself.                                                        *)
LEMMA LogStays ==
    ASSUME NEW p, NEW n \in Nat, n = Len(history), NEW g, AreLogs(n, p, n + 1, g),
           NEW m \in 1..(n + 1), \A k \in m..n : k \notin MovesTo(p)
    PROVE  \A k \in m..(n + 1) : g[k].path = p /\ TellsOf(g[k].commits, ChangesOf(p, k, n))
<1> DEFINE S == {k \in m..(n + 1) : g[k].path = p /\ TellsOf(g[k].commits, ChangesOf(p, k, n))}
<1>1. n + 1 \in S
  <2>1. ChangesOf(p, n + 1, n) = {}
    BY DEF ChangesOf
  <2>2. TellsOf(<<>>, {})
    BY DEF TellsOf, Range
  <2>3. g[n + 1] = [commits |-> <<>>, path |-> p]
    BY DEF AreLogs, NothingLogged
  <2>4. g[n + 1].path = p /\ g[n + 1].commits = <<>> /\ n + 1 \in m..(n + 1)
    BY <2>3
  <2>5. TellsOf(g[n + 1].commits, ChangesOf(p, n + 1, n))
    BY <2>1, <2>2, <2>4
  <2> QED
    BY <2>4, <2>5
<1>2. ASSUME NEW k \in m..n, k + 1 \in S PROVE k \in S
  <2> DEFINE w == g[k + 1]
             now == ObjectIn(k, p)
             before == ObjectIn(k - 1, p)
  <2>0. k \in 1..n /\ k + 1 \in 1..(n + 1)
    OBVIOUS
  <2>1. /\ w = [commits |-> w.commits, path |-> p]
        /\ w.commits \in Seq((k + 1)..n) /\ Len(w.commits) \in Nat
        /\ Len(w.commits) <= n + 1 - (k + 1) /\ TellsOf(w.commits, ChangesOf(p, k + 1, n))
    <3>1. Logged(n, w, k + 1)
      BY <2>0, LogShape
    <3>2. w.path = p /\ TellsOf(w.commits, ChangesOf(p, k + 1, n))
      BY <1>2
    <3> HIDE DEF w
    <3> QED
      BY <3>1, <3>2 DEF Logged
  <2>2. ~(Len(w.commits) >= n + 1)
    BY <2>0, <2>1
  <2>3. g[k] = LogStep(n + 1, w, k)
    BY <2>0 DEF AreLogs
  <2>4. CASE now = before
    <3>1. ChangesOf(p, k, n) = ChangesOf(p, k + 1, n)
      <4>1. k..n = {k} \cup ((k + 1)..n) 
        BY <2>0
      <4> QED
        BY <2>4, <4>1 DEF ChangesOf
    <3>2. g[k] = w
      BY <2>1, <2>3, <2>4 DEF LogStep
    <3> QED
      BY <1>2, <3>1, <3>2
  <2>5. CASE now # before
    <3>1. ChangesOf(p, k, n) = ChangesOf(p, k + 1, n) \cup {k}
      <4>1. k..n = {k} \cup ((k + 1)..n) 
        BY <2>0
      <4> QED
        BY <2>5, <4>1 DEF ChangesOf
    <3>2. before = Absent => Source(k, p) = p
      <4>1. k \notin MovesTo(p)
        OBVIOUS
      <4>2. CASE k = 1
        BY <4>2 DEF Source
      <4>3. CASE k # 1
        <5>1. k \in 2..n
          BY <2>0, <4>3
        <5> QED
          BY <2>5, <4>1, <5>1 DEF MovesTo, Source
      <4> QED
        BY <4>2, <4>3
    <3>3. g[k] = [commits |-> Append(w.commits, k), path |-> p]
      <4>1. w.path = p
        BY <2>1
      <4> HIDE DEF w
      <4> QED
        BY <2>2, <2>3, <2>5, <3>2, <4>1 DEF LogStep
    <3>4. TellsOf(Append(w.commits, k), ChangesOf(p, k, n))
      <4> HIDE DEF w
      <4> QED
        BY <2>0, <2>1, <3>1, TellsAppend
    <3>5. g[k].path = p /\ g[k].commits = Append(w.commits, k) /\ k \in m..(n + 1)
      BY <3>3
    <3> HIDE DEF w
    <3>6. TellsOf(g[k].commits, ChangesOf(p, k, n))
      BY <3>4, <3>5
    <3> QED
      BY <3>5, <3>6
  <2> QED
    BY <2>4, <2>5
<1> HIDE DEF S
<1>3. \A k \in m..(n + 1) : k \in S
  <2>1. m \in Nat /\ m <= n + 1
    OBVIOUS
  <2> QED
    BY ONLY <1>1, <1>2, <2>1, n \in Nat, Downward
<1> QED
  BY <1>3 DEF S

LEMMA AppendRight ==
    ASSUME NEW s \in Seq(Nat), NEW t \in Seq(Nat), NEW x \in Nat
    PROVE  Append(s \o t, x) = s \o Append(t, x)
<1>1. s \o t \in Seq(Nat) /\ <<x>> \in Seq(Nat)
  BY ConcatProperties
<1>2. Append(s \o t, x) = (s \o t) \o <<x>> /\ Append(t, x) = t \o <<x>>
  BY <1>1, AppendIsConcat
<1>3. (s \o t) \o <<x>> = s \o (t \o <<x>>)
  BY <1>1, ConcatAssociative
<1> QED
  BY <1>2, <1>3

(* From where it meets such a commit on, a log is the log of the older     *)
(* path from there.                                                        *)
Joins(g, h, m) ==
    \A k \in 1..(m + 1) : /\ g[k].path = h[k].path
                          /\ g[k].commits = g[m + 1].commits \o h[k].commits

LEMMA LogSplits ==
    ASSUME NEW n \in Nat, NEW p, NEW g, AreLogs(n, p, n + 1, g),
           NEW m \in 0..n, NEW q, g[m + 1].path = q, NEW h, AreLogs(m, q, n + 1, h)
    PROVE  Joins(g, h, m)
<1> DEFINE own == g[m + 1].commits
           S == {k \in 1..(m + 1) : /\ g[k].path = h[k].path
                                    /\ g[k].commits = own \o h[k].commits}
<1>0. m \in Nat /\ m + 1 \in 1..(n + 1) /\ 1 <= m + 1 /\ 1 \in Nat
  OBVIOUS
<1>1. m + 1 \in S
  <2>1. Logged(n, g[m + 1], m + 1)
    BY <1>0, LogShape
  <2>2. own \in Seq((m + 1)..n)
    BY <2>1 DEF Logged
  <2>3. h[m + 1].path = g[m + 1].path /\ h[m + 1].commits = <<>>
    BY DEF AreLogs, NothingLogged
  <2>4. own \o <<>> = own
    BY <2>2
  <2>5. g[m + 1].commits = own \o h[m + 1].commits /\ m + 1 \in 1..(m + 1)
    BY <1>0, <2>3, <2>4
  <2> HIDE DEF own
  <2> QED
    BY <2>3, <2>5
<1>2. ASSUME NEW k \in 1..m, k + 1 \in S PROVE k \in S
  <2> DEFINE w == g[k + 1]
             v == h[k + 1]
             now == ObjectIn(k, v.path)
             before == ObjectIn(k - 1, v.path)
             source == IF before = Absent THEN Source(k, v.path) ELSE v.path
  <2>0. /\ k \in 1..n /\ k + 1 \in 1..(n + 1) /\ k + 1 \in 1..(m + 1) /\ k \in 1..(m + 1)
        /\ n + 1 - (k + 1) = n - k /\ m + 1 - (k + 1) = m - k
    BY <1>0
  <2>1. Logged(n, w, k + 1) /\ Logged(m, v, k + 1) /\ Logged(n, g[m + 1], m + 1)
    BY <1>0, <2>0, LogShape
  <2>2. own \in Seq((m + 1)..n)
    BY <2>1 DEF Logged
  <2>3. w.path = v.path /\ w.commits = own \o v.commits
    BY <1>2
  <2>4. g[k] = LogStep(n + 1, w, k) /\ h[k] = LogStep(n + 1, v, k)
    BY <2>0 DEF AreLogs
  <2> HIDE DEF w, v, own
  <2>5. /\ w = [commits |-> w.commits, path |-> w.path] /\ Len(w.commits) \in Nat
        /\ Len(w.commits) <= n - k
        /\ v = [commits |-> v.commits, path |-> v.path] /\ Len(v.commits) \in Nat
        /\ Len(v.commits) <= m - k /\ v.commits \in Seq((k + 1)..m)
    BY <2>0, <2>1 DEF Logged
  <2>6. ~(Len(w.commits) >= n + 1) /\ ~(Len(v.commits) >= n + 1)
    BY <2>0, <2>5
  <2>7. CASE now = before
    <3>1. g[k] = w /\ h[k] = v
      BY <2>3, <2>4, <2>7 DEF LogStep
    <3> QED
      BY <2>0, <2>3, <3>1
  <2>8. CASE now # before
    <3>1. /\ g[k] = [commits |-> Append(w.commits, k), path |-> source]
          /\ h[k] = [commits |-> Append(v.commits, k), path |-> source]
      BY <2>3, <2>4, <2>6, <2>8 DEF LogStep
    <3> HIDE DEF source
    <3>2. Append(own \o v.commits, k) = own \o Append(v.commits, k)
      <4>1. own \in Seq(Nat) /\ v.commits \in Seq(Nat) /\ k \in Nat
        <5>1. (m + 1)..n \subseteq Nat /\ (k + 1)..m \subseteq Nat
          BY <1>0, <2>0
        <5> QED
          BY <2>2, <2>5, <5>1, WiderSeq, <2>0
      <4> QED
        BY <4>1, AppendRight
    <3>3. /\ g[k].path = source /\ h[k].path = source
          /\ g[k].commits = Append(w.commits, k) /\ h[k].commits = Append(v.commits, k)
      BY <3>1
    <3>4. g[k].commits = own \o h[k].commits
      BY <2>3, <3>2, <3>3
    <3> QED
      BY <2>0, <3>3, <3>4
  <2> QED
    BY <2>7, <2>8
<1> HIDE DEF S
<1>3. \A k \in 1..(m + 1) : k \in S
  BY ONLY <1>0, <1>1, <1>2, Downward
<1> QED
  BY <1>3 DEF S, Joins

(* A walk that needs less has the head of the log.                         *)
Cut(whole, found, need) ==
    \/ found = whole /\ Len(whole.commits) <= need
    \/ /\ Len(whole.commits) > need /\ Len(found.commits) = need
       /\ found.commits = SubSeq(whole.commits, 1, need)

LEMMA LogCuts ==
    ASSUME NEW n \in Nat, NEW p, NEW g, AreLogs(n, p, n + 1, g),
           NEW need \in Nat, NEW h, AreLogs(n, p, need, h)
    PROVE  Cut(g[1], h[1], need)
<1> DEFINE S == {k \in 1..(n + 1) : Cut(g[k], h[k], need)}
<1>0. 1 \in Nat /\ 1 <= n + 1
  OBVIOUS
<1>1. n + 1 \in S
  <2>1. g[n + 1] = h[n + 1] /\ g[n + 1].commits = <<>>
    BY DEF AreLogs, NothingLogged
  <2>2. Len(<<>>) <= need /\ n + 1 \in 1..(n + 1)
    OBVIOUS
  <2>3. Cut(g[n + 1], h[n + 1], need)
    BY <2>1, <2>2 DEF Cut
  <2> QED
    BY <2>2, <2>3
<1>2. ASSUME NEW k \in 1..n, k + 1 \in S PROVE k \in S
  <2> DEFINE w == g[k + 1]
             v == h[k + 1]
  <2>0. k + 1 \in 1..(n + 1) /\ k \in 1..(n + 1) /\ n + 1 - (k + 1) = n - k /\ k \in Nat
    OBVIOUS
  <2>1. Logged(n, w, k + 1) /\ Cut(w, v, need)
    BY <1>2, <2>0, LogShape
  <2>2. g[k] = LogStep(n + 1, w, k) /\ h[k] = LogStep(need, v, k)
    BY <2>0 DEF AreLogs
  <2> HIDE DEF w, v
  <2>3. /\ w = [commits |-> w.commits, path |-> w.path] /\ Len(w.commits) \in Nat
        /\ Len(w.commits) <= n - k /\ w.commits \in Seq((k + 1)..n)
    BY <2>0, <2>1 DEF Logged
  <2>4. ~(Len(w.commits) >= n + 1)
    BY <2>0, <2>3
  <2>5. w.commits \in Seq(Nat)
    <3>1. (k + 1)..n \subseteq Nat
      BY <2>0
    <3> QED
      BY <2>3, <3>1, WiderSeq
  <2>6. g[k] = w \/ g[k].commits = Append(w.commits, k)
    BY <2>2 DEF LogStep
  <2>7. /\ Len(Append(w.commits, k)) = Len(w.commits) + 1
        /\ \A i \in 0..Len(w.commits) : SubSeq(Append(w.commits, k), 1, i) = SubSeq(w.commits, 1, i)
        /\ SubSeq(w.commits, 1, Len(w.commits)) = w.commits
    BY ONLY <2>0, <2>3, <2>5
  <2>8. ASSUME v = w, Len(w.commits) < need PROVE Cut(g[k], h[k], need)
    <3>1. h[k] = g[k]
      <4>1. ~(Len(w.commits) >= need)
        BY <2>3, <2>8
      <4> QED
        BY <2>2, <2>4, <2>8, <4>1 DEF LogStep
    <3>2. Len(g[k].commits) <= need
      BY <2>3, <2>6, <2>7, <2>8
    <3> QED
      BY <3>1, <3>2 DEF Cut
  <2>9. ASSUME v = w, Len(w.commits) = need PROVE Cut(g[k], h[k], need)
    <3>1. h[k] = w
      BY <2>2, <2>9 DEF LogStep
    <3>2. CASE g[k] = w
      BY <2>9, <3>1, <3>2 DEF Cut
    <3>3. CASE g[k].commits = Append(w.commits, k)
      <4>1. Len(g[k].commits) > need
        BY <2>7, <2>9, <3>3
      <4>2. need \in 0..Len(w.commits)
        BY <2>9
      <4>3. h[k].commits = SubSeq(g[k].commits, 1, need)
        BY <2>7, <2>9, <3>1, <3>3, <4>2
      <4> QED
        BY <2>9, <3>1, <4>1, <4>3 DEF Cut
    <3> QED
      BY <2>6, <3>2, <3>3
  <2>10. ASSUME Len(w.commits) > need, Len(v.commits) = need, v.commits = SubSeq(w.commits, 1, need)
         PROVE  Cut(g[k], h[k], need)
    <3>1. h[k] = v
      BY <2>2, <2>10 DEF LogStep
    <3>2. CASE g[k] = w
      BY <2>10, <3>1, <3>2 DEF Cut
    <3>3. CASE g[k].commits = Append(w.commits, k)
      <4>1. Len(g[k].commits) > need
        BY <2>3, <2>7, <2>10, <3>3
      <4>2. need \in 0..Len(w.commits)
        BY <2>3, <2>10
      <4>3. h[k].commits = SubSeq(g[k].commits, 1, need)
        BY <2>7, <2>10, <3>1, <3>3, <4>2
      <4> QED
        BY <2>10, <3>1, <4>1, <4>3 DEF Cut
    <3> QED
      BY <2>6, <3>2, <3>3
  <2>11. Cut(g[k], h[k], need)
    <3>1. Len(w.commits) <= need => Len(w.commits) < need \/ Len(w.commits) = need
      BY <2>3
    <3> QED
      BY <2>1, <2>8, <2>9, <2>10, <3>1 DEF Cut
  <2> QED
    BY <2>0, <2>11
<1> HIDE DEF S
<1>3. \A k \in 1..(n + 1) : k \in S
  BY ONLY <1>0, <1>1, <1>2, n \in Nat, Downward
<1>4. 1 \in 1..(n + 1)
  OBVIOUS
<1> QED
  BY <1>3, <1>4 DEF S

LEMMA PagesOfCut ==
    ASSUME NEW n \in Nat, NEW whole \in Seq(Nat), NEW page \in Nat \ {0}, NEW per \in Nat \ {0},
           NEW found, \/ found = whole /\ Len(whole) <= page * per + 1
                      \/ /\ Len(whole) > page * per + 1 /\ Len(found) = page * per + 1
                         /\ found = SubSeq(whole, 1, page * per + 1)
    PROVE  Page(found, page, per) = Page(whole, page, per) /\ HasMore(found, page, per) = HasMore(whole, page, per)
<1> DEFINE q == page * per
           r == (page - 1) * per
<1>1. q \in Nat /\ r \in Nat /\ r = q - per
  OBVIOUS
<1>2. page * per = q /\ (page - 1) * per = r
  OBVIOUS
<1> HIDE DEF q, r
<1>3. SUFFICES ASSUME Len(whole) > q + 1, Len(found) = q + 1, found = SubSeq(whole, 1, q + 1)
               PROVE  Page(found, page, per) = Page(whole, page, per)
                      /\ HasMore(found, page, per) = HasMore(whole, page, per)
  BY <1>2
<1>4. Len(whole) \in Nat
  OBVIOUS
<1>5. Min({q, Len(whole)}) = q /\ Min({q, Len(found)}) = q
  <2>1. ASSUME NEW l \in Nat, q <= l PROVE Min({q, l}) = q
    <3> DEFINE both == {q, l}
    <3>1. both \subseteq Nat /\ q \in both /\ \A x \in both : q <= x
      BY <1>1, <2>1
    <3> HIDE DEF both
    <3>2. Min(both) = q
      BY <3>1, MinIs
    <3> QED
      BY <3>2 DEF both
  <2>2. Len(whole) \in Nat /\ q <= Len(whole) /\ Len(found) \in Nat /\ q <= Len(found)
    BY <1>1, <1>3, <1>4
  <2> QED
    BY <2>1, <2>2
<1>6. SubSeq(found, r + 1, q) = SubSeq(whole, r + 1, q)
  BY ONLY <1>1, <1>3, <1>4, whole \in Seq(Nat), per \in Nat \ {0}
<1>7. Len(found) > q /\ Len(whole) > q
  BY <1>1, <1>3, <1>4
<1>8. /\ Page(found, page, per) = SubSeq(found, r + 1, Min({q, Len(found)}))
      /\ Page(whole, page, per) = SubSeq(whole, r + 1, Min({q, Len(whole)}))
  BY <1>2, Zenon DEF Page
<1>9. HasMore(found, page, per) = (Len(found) > q) /\ HasMore(whole, page, per) = (Len(whole) > q)
  BY <1>2, Zenon DEF HasMore
<1> QED
  BY <1>5, <1>6, <1>7, <1>8, <1>9

LEMMA LogTold ==
    ASSUME NEW p, Len(history) \in Nat
    PROVE  LET n == Len(history)
               whole == Log(n, p, n + 1)
               k == Max(MovesTo(p))
           IN /\ whole \in Seq(Nat)
              /\ \E i \in 0..Len(whole) :
                    LET own == SubSeq(whole, 1, i)
                        older == SubSeq(whole, i + 1, Len(whole))
                    IN IF MovesTo(p) = {} THEN TellsOf(own, ChangesOf(p, 1, n)) /\ older = <<>>
                       ELSE /\ TellsOf(own, ChangesOf(p, k, n))
                            /\ older = Log(k - 1, Source(k, p), n + 1)
<1> DEFINE n == Len(history)
           whole == Log(n, p, n + 1)
           k == Max(MovesTo(p))
<1>0. n \in Nat /\ 1 \in 1..(n + 1) /\ MovesTo(p) \subseteq 0..n /\ MovesTo(p) \subseteq 2..n
  BY DEF MovesTo
<1>1. PICK g : AreLogs(n, p, n + 1, g)
  BY <1>0, LogSteps
<1>2. whole = g[1].commits
  BY <1>1 DEF AreLogs
<1>3. \A j \in 1..(n + 1) : Logged(n, g[j], j)
  BY <1>0, <1>1, LogShape
<1>4. \A j \in 1..(n + 1) : g[j].commits \in Seq(Nat)
  <2>1. ASSUME NEW j \in 1..(n + 1) PROVE g[j].commits \in Seq(Nat)
    <3> HIDE DEF n
    <3>1. Logged(n, g[j], j) /\ j..n \subseteq Nat
      BY <1>0, <1>3
    <3>2. g[j].commits \in Seq(j..n)
      BY <3>1 DEF Logged
    <3> QED
      BY <3>1, <3>2, WiderSeq
  <2> QED
    BY <2>1
<1>5. whole \in Seq(Nat)
  BY <1>0, <1>2, <1>4
<1> HIDE DEF whole
<1>6. CASE MovesTo(p) = {}
  <2>1. \A j \in 1..n : j \notin MovesTo(p)
    BY <1>6
  <2> HIDE DEF n
  <2>2. TellsOf(whole, ChangesOf(p, 1, n))
    BY <1>0, <1>1, <1>2, <2>1, LogStays DEF n
  <2>3. /\ Len(whole) \in 0..Len(whole) /\ SubSeq(whole, 1, Len(whole)) = whole
        /\ SubSeq(whole, Len(whole) + 1, Len(whole)) = <<>>
    BY ONLY <1>5
  <2> QED
    BY <1>5, <1>6, <2>2, <2>3 DEF n, whole
<1>7. CASE MovesTo(p) # {}
  <2>1. k \in MovesTo(p) /\ k \in 2..n /\ \A j \in MovesTo(p) : j <= k
    BY <1>0, <1>7, MaxFacts
  <2> HIDE DEF k, n
  <2>2. /\ k \in Nat /\ k - 1 \in 0..n /\ k + 1 \in 1..(n + 1) /\ k \in 1..n /\ k \in 1..(n + 1)
        /\ (k - 1) + 1 = k /\ k + 1 \in (k + 1)..(n + 1)
    BY <1>0, <2>1
  <2>3. \A j \in (k + 1)..n : j \notin MovesTo(p)
    BY <2>1, <2>2, <1>0
  <2>4. g[k + 1].path = p /\ TellsOf(g[k + 1].commits, ChangesOf(p, k + 1, n))
    BY <1>0, <1>1, <2>2, <2>3, LogStays DEF n
  <2>5. ObjectIn(k - 1, p) = Absent /\ ObjectIn(k, p) # ObjectIn(k - 1, p)
    BY <2>1 DEF MovesTo
  <2>6. g[k + 1].commits \in Seq((k + 1)..n) /\ ~(Len(g[k + 1].commits) >= n + 1)
    <3>1. Logged(n, g[k + 1], k + 1)
      BY <1>3, <2>2
    <3>2. n + 1 - (k + 1) = n - k
      BY <1>0, <2>2
    <3> QED
      BY <1>0, <2>2, <3>1, <3>2 DEF Logged
  <2>7. g[k] = [commits |-> Append(g[k + 1].commits, k), path |-> Source(k, p)]
    <3>1. g[k] = LogStep(n + 1, g[k + 1], k)
      BY <1>1, <2>2 DEF AreLogs
    <3> QED
      BY <2>4, <2>5, <2>6, <3>1 DEF LogStep
  <2>8. ChangesOf(p, k, n) = ChangesOf(p, k + 1, n) \cup {k}
    <3>1. k..n = {k} \cup ((k + 1)..n)
      BY <1>0, <2>2
    <3> QED
      BY <2>5, <3>1 DEF ChangesOf
  <2>9. TellsOf(g[k].commits, ChangesOf(p, k, n))
    <3>1. TellsOf(Append(g[k + 1].commits, k), ChangesOf(p, k, n))
      BY <1>0, <2>2, <2>4, <2>6, <2>8, TellsAppend
    <3> QED
      BY <2>7, <3>1
  <2>10. PICK h : AreLogs(k - 1, Source(k, p), n + 1, h)
    <3>1. k - 1 \in Nat
      BY <2>2
    <3> QED
      BY <3>1, LogSteps
  <2>11. g[1].commits = g[k].commits \o h[1].commits
    <3> DEFINE m == k - 1
    <3>1. m \in 0..n /\ m + 1 = k /\ 1 \in 1..(m + 1)
      BY <2>2
    <3>2. AreLogs(m, Source(k, p), n + 1, h)
      BY <2>10
    <3> HIDE DEF m
    <3>3. g[m + 1].path = Source(k, p)
      BY <2>7, <3>1
    <3>4. Joins(g, h, m)
      BY <1>0, <1>1, <3>1, <3>2, <3>3, LogSplits
    <3> QED
      BY <3>1, <3>4 DEF Joins
  <2> DEFINE own == g[k].commits
             older == h[1].commits
  <2>12. older = Log(k - 1, Source(k, p), n + 1)
    BY <2>10 DEF AreLogs
  <2>13. own \in Seq(Nat) /\ older \in Seq(Nat)
    <3>1. Logged(k - 1, h[1], 1)
      <4>1. k - 1 \in Nat /\ 1 \in 1..((k - 1) + 1)
        BY <2>2
      <4> QED
        BY <2>10, <4>1, LogShape
    <3>2. older \in Seq(1..(k - 1)) /\ 1..(k - 1) \subseteq Nat
      BY <2>2, <3>1 DEF Logged
    <3> QED
      BY <1>4, <2>2, <3>2, WiderSeq
  <2> HIDE DEF own, older
  <2>14. whole = own \o older
    BY <1>2, <2>11 DEF own, older
  <2>15. /\ Len(own) \in 0..Len(whole)
         /\ SubSeq(whole, 1, Len(own)) = own
         /\ SubSeq(whole, Len(own) + 1, Len(whole)) = older
    BY ONLY <2>13, <2>14
  <2>16. TellsOf(own, ChangesOf(p, k, n))
    BY <2>9 DEF own
  <2> QED
    BY <1>5, <1>7, <2>12, <2>15, <2>16 DEF n, whole, k
<1> QED
  BY <1>6, <1>7

LEMMA PagesAreCut ==
    ASSUME NEW p, Len(history) \in Nat, NEW per \in Nat \ {0}, NEW page \in Nat \ {0}
    PROVE  LET whole == Log(Len(history), p, Len(history) + 1)
           IN LogPage(p, page, per) = [commits |-> Page(whole, page, per),
                                       more |-> HasMore(whole, page, per)]
<1> DEFINE n == Len(history)
           need == page * per + 1
           whole == Log(n, p, n + 1)
           found == Log(n, p, need)
<1>0. n \in Nat /\ need \in Nat
  OBVIOUS
<1>1. PICK g : AreLogs(n, p, n + 1, g)
  BY <1>0, LogSteps
<1> HIDE DEF need
<1>2. PICK h : AreLogs(n, p, need, h)
  BY <1>0, LogSteps
<1>3. Cut(g[1], h[1], need)
  BY <1>0, <1>1, <1>2, LogCuts
<1>4. whole = g[1].commits /\ found = h[1].commits
  BY <1>1, <1>2 DEF AreLogs
<1>5. whole \in Seq(Nat)
  BY LogTold
<1> HIDE DEF whole, found
<1>6. \/ found = whole /\ Len(whole) <= page * per + 1
      \/ /\ Len(whole) > page * per + 1 /\ Len(found) = page * per + 1
         /\ found = SubSeq(whole, 1, page * per + 1)
  BY <1>3, <1>4 DEF Cut, need
<1>7. Page(found, page, per) = Page(whole, page, per) /\ HasMore(found, page, per) = HasMore(whole, page, per)
  BY ONLY <1>5, <1>6, per \in Nat \ {0}, page \in Nat \ {0}, PagesOfCut
<1>8. LogPage(p, page, per) = [commits |-> Page(found, page, per), more |-> HasMore(found, page, per)]
  BY DEF LogPage, found, need
<1> QED
  BY <1>7, <1>8 DEF whole

(* The log of a path (list_commits_by_file) is whole, in every state.      *)
THEOREM LogsAreWhole == Spec => []LogIsWhole
<1>1. ContentInv => LogIsWhole
  <2> SUFFICES ASSUME ContentInv PROVE LogIsWhole
    OBVIOUS
  <2>1. Len(history) \in Nat
    BY TipFacts DEF ContentInv
  <2>2. \A per \in PerPage : per \in Nat \ {0}
    BY ReadConstants
  <2>3. \A page \in 1..Len(history) : page \in Nat \ {0}
    BY <2>1
  <2> QED
    BY <2>1, <2>2, <2>3, LogTold, PagesAreCut DEF LogIsWhole
<1> QED
  BY <1>1, ContentIsRight, PTL

-----------------------------------------------------------------------------
(* The scan of a file's lines, from the first one down *)

NothingFound == [open |-> FALSE, matched |-> <<>>, window |-> <<>>, closed |-> FALSE]

(* scans[k] is what is known once the first k lines are read.              *)
AreScans(seek, lines, scans) ==
    /\ scans[0] = NothingFound
    /\ \A k \in 1..Len(lines) : scans[k] = SeekStep(seek, scans[k - 1], lines[k])
    /\ ApplyReader(seek, lines) = scans[Len(lines)].window

LEMMA RestOfTop ==
    ASSUME NEW n \in Nat, NEW s, s \in SUBSET (1..(n + 1)), s # {}
    PROVE  Max(s) \in s /\ s \ {Max(s)} \in SUBSET (1..n)
<1>1. s \subseteq 0..(n + 1) /\ n + 1 \in Nat
  OBVIOUS
<1>2. Max(s) \in s /\ \A i \in s : i <= Max(s)
  BY <1>1, MaxFacts
<1>3. ASSUME NEW i \in s, i # Max(s) PROVE i \in 1..n
  <2>1. i \in 1..(n + 1) /\ Max(s) \in 1..(n + 1)
    BY <1>2
  <2>2. i <= Max(s)
    BY <1>2
  <2> QED
    BY <1>3, <2>1, <2>2
<1> QED
  BY <1>2, <1>3

LEMMA ScanSteps ==
    ASSUME NEW seek, NEW lines, Len(lines) \in Nat, DOMAIN lines = 1..Len(lines)
    PROVE  \E scans : AreScans(seek, lines, scans)
<1> DEFINE n == Len(lines)
           Made(g, m) == g = [s \in SUBSET (1..m) |->
                                 IF s = {} THEN NothingFound
                                 ELSE SeekStep(seek, g[s \ {Max(s)}], lines[Max(s)])]
           S == {m \in Nat : \E g : Made(g, m)}
<1>1. 0 \in S
  <2> DEFINE g == [s \in SUBSET (1..0) |-> NothingFound]
  <2>1. \A s \in SUBSET (1..0) : s = {}
    OBVIOUS
  <2>2. Made(g, 0)
    BY <2>1
  <2> HIDE DEF g, Made
  <2> QED
    BY <2>2
<1>2. ASSUME NEW m \in Nat, m \in S PROVE m + 1 \in S
  <2>1. PICK g : Made(g, m)
    BY <1>2
  <2> DEFINE h == [s \in SUBSET (1..(m + 1)) |->
                      IF s = {} THEN NothingFound
                      ELSE SeekStep(seek, g[s \ {Max(s)}], lines[Max(s)])]
  <2>2. \A s \in SUBSET (1..m) :
           g[s] = IF s = {} THEN NothingFound ELSE SeekStep(seek, g[s \ {Max(s)}], lines[Max(s)])
    BY <2>1
  <2>3. \A s \in SUBSET (1..m) : s \in SUBSET (1..(m + 1))
    OBVIOUS
  <2>4. \A s \in SUBSET (1..m) : h[s] = g[s]
    BY <2>2, <2>3
  <2>5. \A s \in SUBSET (1..(m + 1)) :
           h[s] = IF s = {} THEN NothingFound ELSE SeekStep(seek, h[s \ {Max(s)}], lines[Max(s)])
    <3>1. \A s \in SUBSET (1..(m + 1)) : s # {} => s \ {Max(s)} \in SUBSET (1..m)
      BY ONLY m \in Nat, RestOfTop
    <3> QED
      BY <2>4, <3>1
  <2>6. Made(h, m + 1)
    BY <2>5
  <2> HIDE DEF h, Made
  <2> QED
    BY <2>6
<1> HIDE DEF Made
<1>3. n \in S
  BY <1>1, <1>2, Induct
<1>4. \E h : Made(h, n)
  BY <1>3
<1> DEFINE h == CHOOSE h : Made(h, n)
<1>5. Made(h, n)
  BY <1>4
<1>6. ApplyReader(seek, lines) = h[1..n].window
  <2> DEFINE D == DOMAIN lines
             e == CHOOSE e : e = [s \in SUBSET D |->
                                    IF s = {} THEN NothingFound
                                    ELSE SeekStep(seek, e[s \ {Max(s)}], lines[Max(s)])]
  <2>1. ApplyReader(seek, lines) = e[D].window
    BY DEF ApplyReader, FoldLeft, MapThenFoldSet, NothingFound
  <2>2. D = 1..n
    OBVIOUS
  <2> QED
    BY <2>1, <2>2 DEF Made
<1> HIDE DEF h
<1>7. \A s \in SUBSET (1..n) :
         h[s] = IF s = {} THEN NothingFound ELSE SeekStep(seek, h[s \ {Max(s)}], lines[Max(s)])
  BY <1>5 DEF Made
<1> HIDE DEF n
<1>n. n \in Nat
  BY DEF n
<1> DEFINE g == [k \in 0..n |-> h[1..k]]
<1>8. ASSUME NEW k \in 1..n PROVE g[k] = SeekStep(seek, g[k - 1], lines[k])
  <2>1. /\ 1..k \in SUBSET (1..n) /\ k \in 1..k /\ 1..k # {} /\ 1..k \subseteq 0..n
        /\ (1..k) \ {k} = 1..(k - 1) /\ k - 1 \in 0..n /\ k \in 0..n
    BY <1>n
  <2>2. Max(1..k) = k
    <3>1. \A i \in 1..k : i <= k
      BY <1>n
    <3> QED
      BY <1>n, <2>1, <3>1, MaxIs
  <2> QED
    BY <1>7, <2>1, <2>2
<1>9. g[0] = NothingFound /\ g[n] = h[1..n]
  <2>1. 1..0 = {} /\ 0 \in 0..n /\ n \in 0..n
    BY <1>n
  <2> QED
    BY <1>7, <2>1
<1> HIDE DEF g
<1>10. AreScans(seek, lines, g)
  BY <1>6, <1>8, <1>9 DEF AreScans, n
<1> QED
  BY <1>10

(* The prefixes a line starts with, the lines that open a window and those *)
(* that close the one the line first opened.                               *)
Openers(from, line) == {j \in DOMAIN from : IsPrefix(from[j], line)}
Opening(seek, lines) == {i \in DOMAIN lines : Openers(seek.from, lines[i]) # {}}
Matched(seek, line) == seek.from[Min(Openers(seek.from, line))]
Ends(seek, matched, line) == \E m \in seek.to : IsPrefix(Resolved(m, matched), line)
Shuts(seek, matched, window, line) ==
    Ends(seek, matched, line) \/ Len(window) + 1 = seek.maximum
Closing(seek, lines, first) ==
    {i \in first + 1..Len(lines) : Ends(seek, Matched(seek, lines[first]), lines[i])}

IsSeek(seek) ==
    /\ seek.maximum \in Nat \ {0}
    /\ Len(seek.from) \in Nat /\ DOMAIN seek.from = 1..Len(seek.from)

Scan(open, matched, window, closed) ==
    [open |-> open, matched |-> matched, window |-> window, closed |-> closed]

LEMMA FirstPrefixIs ==
    ASSUME NEW seek, IsSeek(seek), NEW line
    PROVE  LET opens == FirstPrefix(line, seek.from)
               O == Openers(seek.from, line)
           IN opens = (IF O # {} THEN Min(O) ELSE 0) /\ (O # {} => opens # 0)
<1> DEFINE opens == FirstPrefix(line, seek.from)
           O == Openers(seek.from, line)
<1>1. O = {i \in 1..Len(seek.from) : IsPrefix(seek.from[i], line)}
  BY DEF IsSeek, Openers
<1>2. opens = IF O # {} THEN Min(O) ELSE 0
  BY <1>1 DEF FirstPrefix, SelectInSeq
<1>3. O # {} => opens # 0
  <2>1. O \subseteq Nat /\ 0 \notin O
    BY <1>1 DEF IsSeek
  <2> QED
    BY <1>2, <2>1, MinFacts
<1> QED
  BY <1>2, <1>3

LEMMA StepShut ==
    ASSUME NEW seek, NEW matched, NEW window, NEW line
    PROVE  SeekStep(seek, Scan(TRUE, matched, window, TRUE), line) = Scan(TRUE, matched, window, TRUE)
  BY Zenon DEF SeekStep, Scan

LEMMA StepLooks ==
    ASSUME NEW seek, IsSeek(seek), NEW line, Openers(seek.from, line) = {},
           NEW matched, NEW window
    PROVE  SeekStep(seek, Scan(FALSE, matched, window, FALSE), line) = Scan(FALSE, matched, window, FALSE)
<1> DEFINE opens == FirstPrefix(line, seek.from)
<1>1. opens = 0
  BY FirstPrefixIs
<1>2. Scan(FALSE, matched, window, FALSE).open = FALSE
  BY DEF Scan
<1> HIDE DEF opens
<1> QED
  BY <1>1, <1>2, Zenon DEF SeekStep, opens

LEMMA StepOpens ==
    ASSUME NEW seek, IsSeek(seek), NEW line, Openers(seek.from, line) # {},
           NEW matched, NEW window
    PROVE  SeekStep(seek, Scan(FALSE, matched, window, FALSE), line)
           = Scan(TRUE, Matched(seek, line), Append(window, line), Len(window) + 1 = seek.maximum)
<1> DEFINE opens == FirstPrefix(line, seek.from)
           scan == Scan(FALSE, matched, window, FALSE)
           closes == scan.open /\ \E m \in seek.to : IsPrefix(Resolved(m, Matched(seek, line)), line)
<1>1. opens # 0 /\ seek.from[opens] = Matched(seek, line)
  BY FirstPrefixIs DEF Matched
<1>2. scan.open = FALSE /\ scan.closed = FALSE /\ scan.window = window
  BY DEF Scan
<1>3. (closes \/ Len(window) + 1 = seek.maximum) = (Len(window) + 1 = seek.maximum)
  BY <1>2, Zenon
<1>4. SeekStep(seek, scan, line)
      = [open |-> TRUE, matched |-> Matched(seek, line), window |-> Append(window, line),
         closed |-> closes \/ Len(window) + 1 = seek.maximum]
  <2> HIDE DEF scan
  <2> QED
    BY <1>1, <1>2, Zenon DEF SeekStep, opens
<1> HIDE DEF closes
<1> QED
  BY <1>3, <1>4, Zenon DEF Scan

LEMMA StepReads ==
    ASSUME NEW seek, NEW matched, NEW window, NEW line
    PROVE  SeekStep(seek, Scan(TRUE, matched, window, FALSE), line)
           = Scan(TRUE, matched, Append(window, line), Shuts(seek, matched, window, line))
<1> DEFINE scan == Scan(TRUE, matched, window, FALSE)
           closes == scan.open /\ \E m \in seek.to : IsPrefix(Resolved(m, matched), line)
<1>2. scan.open = TRUE /\ scan.closed = FALSE /\ scan.window = window /\ scan.matched = matched
  BY DEF Scan
<1>3. (closes \/ Len(window) + 1 = seek.maximum)
      = Shuts(seek, matched, window, line)
  BY <1>2, Zenon DEF Shuts, Ends
<1>4. SeekStep(seek, scan, line)
      = [open |-> TRUE, matched |-> matched, window |-> Append(window, line),
         closed |-> closes \/ Len(window) + 1 = seek.maximum]
  <2> HIDE DEF scan
  <2> QED
    BY <1>2, Zenon DEF SeekStep
<1> HIDE DEF closes
<1> QED
  BY <1>3, <1>4, Zenon DEF Scan

(* Nothing opened the window yet, it is open, or it is closed.             *)
IsFirst(seek, lines, first) ==
    first \in Opening(seek, lines) /\ \A i \in Opening(seek, lines) : first <= i
Bounds(seek, lines, first) == Closing(seek, lines, first) \cup {first + seek.maximum - 1}
Looking(seek, lines, scan, k) ==
    scan = Scan(FALSE, <<>>, <<>>, FALSE) /\ \A i \in Opening(seek, lines) : i > k
Reading(seek, lines, scan, k, first) ==
    /\ scan = Scan(TRUE, Matched(seek, lines[first]), SubSeq(lines, first, k), FALSE)
    /\ first <= k /\ \A i \in Bounds(seek, lines, first) : i > k
Done(seek, lines, scan, k, first) ==
    \E e \in first..k :
        /\ scan = Scan(TRUE, Matched(seek, lines[first]), SubSeq(lines, first, e), TRUE)
        /\ e \in Bounds(seek, lines, first) /\ \A i \in Bounds(seek, lines, first) : e <= i
ScanOK(seek, lines, scan, k) ==
    \/ Looking(seek, lines, scan, k)
    \/ \E first \in 1..k : /\ IsFirst(seek, lines, first)
                           /\ \/ Reading(seek, lines, scan, k, first)
                              \/ Done(seek, lines, scan, k, first)

LEMMA BoundsFacts ==
    ASSUME NEW seek, IsSeek(seek), NEW lines, Len(lines) \in Nat, NEW first \in 1..Len(lines)
    PROVE  /\ Bounds(seek, lines, first) \subseteq Nat
           /\ \A i \in Closing(seek, lines, first) : first < i
           /\ \A i \in Bounds(seek, lines, first) : first <= i
<1>1. first \in Nat /\ seek.maximum \in Nat \ {0} /\ first + seek.maximum - 1 \in Nat
      /\ first <= first + seek.maximum - 1
  BY DEF IsSeek
<1>2. \A i \in Closing(seek, lines, first) : i \in Nat /\ first < i
  BY <1>1 DEF Closing
<1> QED
  BY <1>1, <1>2 DEF Bounds

(* The line that is read while the window is open, or opens it.            *)
LEMMA ScanGrows ==
    ASSUME NEW seek, IsSeek(seek), NEW n \in Nat, NEW lines \in [1..n -> Lines],
           NEW k \in 1..n, NEW first \in 1..k, IsFirst(seek, lines, first),
           NEW closed \in BOOLEAN, NEW scan,
           scan = Scan(TRUE, Matched(seek, lines[first]), SubSeq(lines, first, k), closed),
           closed <=> k \in Bounds(seek, lines, first),
           \A i \in Bounds(seek, lines, first) : i >= k
    PROVE  ScanOK(seek, lines, scan, k)
<1>1. Len(lines) = n /\ first \in Nat /\ k \in Nat /\ first <= k /\ first \in 1..Len(lines)
  OBVIOUS
<1>2. Bounds(seek, lines, first) \subseteq Nat
  BY <1>1, BoundsFacts
<1>3. CASE closed
  <2>1. closed = TRUE /\ k \in Bounds(seek, lines, first)
    BY <1>3
  <2>2. k \in first..k /\ \A i \in Bounds(seek, lines, first) : k <= i
    BY <1>1, <1>2
  <2>3. Done(seek, lines, scan, k, first)
    BY <2>1, <2>2 DEF Done
  <2> QED
    BY <2>3 DEF ScanOK
<1>4. CASE ~closed
  <2>1. closed = FALSE /\ k \notin Bounds(seek, lines, first)
    BY <1>4
  <2>2. \A i \in Bounds(seek, lines, first) : i > k
    BY <1>1, <1>2, <2>1
  <2>3. Reading(seek, lines, scan, k, first)
    BY <1>1, <2>1, <2>2 DEF Reading
  <2> QED
    BY <2>3 DEF ScanOK
<1> QED
  BY <1>3, <1>4

LEMMA ScanReads ==
    ASSUME NEW seek, IsSeek(seek), NEW n \in Nat, NEW lines \in [1..n -> Lines],
           NEW k \in 1..n, NEW scan, ScanOK(seek, lines, scan, k - 1)
    PROVE  ScanOK(seek, lines, SeekStep(seek, scan, lines[k]), k)
<1> DEFINE line == lines[k]
           next == SeekStep(seek, scan, line)
<1>0. /\ Len(lines) = n /\ DOMAIN lines = 1..n /\ k \in Nat /\ k - 1 \in Nat
      /\ lines \in Seq(Lines)
  OBVIOUS
<1>o. Opening(seek, lines) \subseteq 1..n
  BY <1>0 DEF Opening
<1>1. ASSUME Looking(seek, lines, scan, k - 1), Openers(seek.from, line) = {}
      PROVE  ScanOK(seek, lines, next, k)
  <2>1. next = Scan(FALSE, <<>>, <<>>, FALSE)
    <3>1. scan = Scan(FALSE, <<>>, <<>>, FALSE)
      BY <1>1 DEF Looking
    <3> HIDE DEF line
    <3>2. SeekStep(seek, Scan(FALSE, <<>>, <<>>, FALSE), line) = Scan(FALSE, <<>>, <<>>, FALSE)
      BY <1>1, StepLooks
    <3> QED
      BY <3>1, <3>2
  <2>2. k \notin Opening(seek, lines)
    BY <1>1 DEF Opening
  <2>3. ASSUME NEW i \in Opening(seek, lines) PROVE i > k
    <3>1. i > k - 1 /\ i \in Nat /\ i # k
      BY <1>1, <1>o, <2>2, <2>3 DEF Looking
    <3> QED
      BY <1>0, <3>1
  <2> HIDE DEF next
  <2> QED
    BY <2>1, <2>3 DEF ScanOK, Looking
<1>2. ASSUME Looking(seek, lines, scan, k - 1), Openers(seek.from, line) # {}
      PROVE  ScanOK(seek, lines, next, k)
  <2> DEFINE closed == Len(<<>>) + 1 = seek.maximum
  <2>1. next = Scan(TRUE, Matched(seek, line), Append(<<>>, line), closed)
    <3>1. scan = Scan(FALSE, <<>>, <<>>, FALSE)
      BY <1>2 DEF Looking
    <3> HIDE DEF line
    <3>2. SeekStep(seek, Scan(FALSE, <<>>, <<>>, FALSE), line)
          = Scan(TRUE, Matched(seek, line), Append(<<>>, line), Len(<<>>) + 1 = seek.maximum)
      BY <1>2, StepOpens
    <3> QED
      BY <3>1, <3>2, Zenon
  <2>2. IsFirst(seek, lines, k)
    <3>1. k \in Opening(seek, lines)
      BY <1>0, <1>2 DEF Opening
    <3>2. ASSUME NEW i \in Opening(seek, lines) PROVE k <= i
      <4>1. i > k - 1 /\ i \in Nat
        BY <1>2, <1>o, <3>2 DEF Looking
      <4> QED
        BY <1>0, <4>1
    <3> QED
      BY <3>1, <3>2 DEF IsFirst
  <2>3. Append(<<>>, line) = SubSeq(lines, k, k)
    BY <1>0
  <2>4. closed \in BOOLEAN /\ (closed <=> k \in Bounds(seek, lines, k))
    <3>1. k \notin Closing(seek, lines, k)
      BY <1>0, BoundsFacts
    <3>2. closed <=> k = k + seek.maximum - 1
      BY <1>0 DEF IsSeek
    <3> QED
      BY <3>1, <3>2 DEF Bounds
  <2>5. \A i \in Bounds(seek, lines, k) : i >= k
    <3>1. k \in 1..Len(lines) /\ Len(lines) \in Nat
      BY <1>0
    <3>2. \A i \in Bounds(seek, lines, k) : k <= i /\ i \in Nat
      BY <3>1, BoundsFacts
    <3> QED
      BY <1>0, <3>2
  <2>6. k \in 1..k
    BY <1>0
  <2> HIDE DEF closed, next
  <2>7. next = Scan(TRUE, Matched(seek, lines[k]), SubSeq(lines, k, k), closed)
    BY <2>1, <2>3
  <2> QED
    BY <2>2, <2>4, <2>5, <2>6, <2>7, ScanGrows
<1>3. ASSUME NEW first \in 1..(k - 1), IsFirst(seek, lines, first),
             Reading(seek, lines, scan, k - 1, first)
      PROVE  ScanOK(seek, lines, next, k)
  <2> DEFINE window == SubSeq(lines, first, k - 1)
             matched == Matched(seek, lines[first])
             closed == Shuts(seek, matched, window, line)
  <2>0. /\ first \in Nat /\ first <= k - 1 /\ first \in 1..k /\ k \in first + 1..n
        /\ first \in 1..Len(lines) /\ Len(lines) \in Nat
    BY <1>0
  <2>1. next = Scan(TRUE, matched, Append(window, line), closed)
    <3>1. scan = Scan(TRUE, matched, window, FALSE)
      BY <1>3 DEF Reading
    <3> HIDE DEF window, matched, line
    <3>2. SeekStep(seek, Scan(TRUE, matched, window, FALSE), line)
          = Scan(TRUE, matched, Append(window, line), Shuts(seek, matched, window, line))
      BY StepReads
    <3> QED
      BY <3>1, <3>2, Zenon
  <2>2. Append(window, line) = SubSeq(lines, first, k) /\ Len(window) = k - first
    BY ONLY <1>0, <2>0, k \in 1..n, n \in Nat
  <2>3. closed \in BOOLEAN /\ (closed <=> k \in Bounds(seek, lines, first))
    <3>1. Ends(seek, matched, line) <=> k \in Closing(seek, lines, first)
      BY <1>0, <2>0 DEF Closing
    <3>2. Len(window) + 1 = seek.maximum <=> k = first + seek.maximum - 1
      <4>1. seek.maximum \in Nat
        BY DEF IsSeek
      <4>2. k - first + 1 = seek.maximum <=> k = first + seek.maximum - 1
        BY ONLY <1>0, <2>0, <4>1
      <4>3. Len(window) = k - first
        BY <2>2
      <4> HIDE DEF window
      <4> QED
        BY <4>2, <4>3
    <3> HIDE DEF window, matched
    <3>3. closed <=> k \in Bounds(seek, lines, first)
      BY <3>1, <3>2 DEF Bounds, Shuts
    <3>4. closed \in BOOLEAN
      BY Zenon DEF Shuts, Ends
    <3> QED
      BY <3>3, <3>4
  <2>4. \A i \in Bounds(seek, lines, first) : i >= k
    <3>1. Bounds(seek, lines, first) \subseteq Nat
      BY <2>0, BoundsFacts
    <3>2. \A i \in Bounds(seek, lines, first) : i > k - 1
      BY <1>3 DEF Reading
    <3> QED
      BY <1>0, <3>1, <3>2
  <2> HIDE DEF closed, next, window
  <2>5. next = Scan(TRUE, Matched(seek, lines[first]), SubSeq(lines, first, k), closed)
    BY <2>1, <2>2
  <2> QED
    BY <1>3, <2>0, <2>3, <2>4, <2>5, ScanGrows
<1>4. ASSUME NEW first \in 1..(k - 1), IsFirst(seek, lines, first),
             Done(seek, lines, scan, k - 1, first)
      PROVE  ScanOK(seek, lines, next, k)
  <2>1. next = scan
    <3>1. PICK e \in first..(k - 1) :
             scan = Scan(TRUE, Matched(seek, lines[first]), SubSeq(lines, first, e), TRUE)
      BY <1>4 DEF Done
    <3> DEFINE matched == Matched(seek, lines[first])
               window == SubSeq(lines, first, e)
    <3>2. scan = Scan(TRUE, matched, window, TRUE)
      BY <3>1
    <3> HIDE DEF matched, window, line
    <3>3. SeekStep(seek, Scan(TRUE, matched, window, TRUE), line) = Scan(TRUE, matched, window, TRUE)
      BY StepShut
    <3> QED
      BY <3>2, <3>3
  <2>2. first..(k - 1) \subseteq first..k /\ first \in 1..k
    BY <1>0
  <2>3. Done(seek, lines, next, k, first)
    BY <1>4, <2>1, <2>2 DEF Done
  <2> HIDE DEF next
  <2> QED
    BY <1>4, <2>2, <2>3 DEF ScanOK
<1> QED
  BY <1>1, <1>2, <1>3, <1>4 DEF ScanOK

LEMMA ScanIs ==
    ASSUME NEW seek, IsSeek(seek), NEW n \in Nat, NEW lines \in [1..n -> Lines],
           NEW scans, AreScans(seek, lines, scans)
    PROVE  ScanOK(seek, lines, scans[n], n)
<1> DEFINE S == {k \in Nat : k <= n => ScanOK(seek, lines, scans[k], k)}
<1>0. Len(lines) = n /\ DOMAIN lines = 1..n
  OBVIOUS
<1>1. 0 \in S
  <2>1. \A i \in Opening(seek, lines) : i > 0
    BY <1>0 DEF Opening
  <2>2. scans[0] = Scan(FALSE, <<>>, <<>>, FALSE)
    BY DEF AreScans, NothingFound, Scan
  <2> QED
    BY <2>1, <2>2 DEF ScanOK, Looking
<1>2. ASSUME NEW k \in Nat, k \in S PROVE k + 1 \in S
  <2> SUFFICES ASSUME k + 1 <= n PROVE ScanOK(seek, lines, scans[k + 1], k + 1)
    OBVIOUS
  <2>1. k + 1 \in 1..n /\ (k + 1) - 1 = k
    OBVIOUS
  <2>2. ScanOK(seek, lines, scans[k], (k + 1) - 1)
    BY <1>2, <2>1
  <2>3. scans[k + 1] = SeekStep(seek, scans[k], lines[k + 1])
    BY <1>0, <2>1 DEF AreScans
  <2> QED
    BY <2>1, <2>2, <2>3, ScanReads
<1> HIDE DEF S
<1>3. n \in S
  BY <1>1, <1>2, Induct
<1> QED
  BY <1>3 DEF S

LEMMA WindowIs ==
    ASSUME NEW seek, IsSeek(seek), NEW n \in Nat, NEW lines \in [1..n -> Lines]
    PROVE  LET first == Min(Opening(seek, lines))
               last == Min(Closing(seek, lines, first) \cup {n, first + seek.maximum - 1})
           IN ApplyReader(seek, lines)
              = IF Opening(seek, lines) = {} THEN <<>> ELSE SubSeq(lines, first, last)
<1> DEFINE first == Min(Opening(seek, lines))
           last == Min(Closing(seek, lines, first) \cup {n, first + seek.maximum - 1})
<1>0. Len(lines) = n /\ DOMAIN lines = 1..n /\ Opening(seek, lines) \subseteq 1..n
  BY DEF Opening
<1>1. PICK scans : AreScans(seek, lines, scans)
  BY <1>0, ScanSteps
<1>2. ApplyReader(seek, lines) = scans[n].window
  BY <1>0, <1>1 DEF AreScans
<1>3. ScanOK(seek, lines, scans[n], n)
  BY <1>1, ScanIs
<1>4. ASSUME Looking(seek, lines, scans[n], n)
      PROVE  ApplyReader(seek, lines) = <<>> /\ Opening(seek, lines) = {}
  <2>1. Opening(seek, lines) = {}
    <3>1. \A i \in Opening(seek, lines) : i \in 1..n /\ i > n
      BY <1>0, <1>4 DEF Looking
    <3> QED
      BY <3>1
  <2>2. scans[n].window = <<>>
    BY <1>4 DEF Looking, Scan
  <2> QED
    BY <1>2, <2>1, <2>2
<1>5. ASSUME NEW f \in 1..n, IsFirst(seek, lines, f) PROVE first = f /\ Opening(seek, lines) # {}
  <2>1. Opening(seek, lines) \subseteq Nat
    BY <1>0
  <2> QED
    BY <1>5, <2>1, MinIs DEF IsFirst
<1>6. ASSUME NEW f \in 1..n, NEW e \in Nat, e \in Bounds(seek, lines, f) \cup {n},
             \A i \in Bounds(seek, lines, f) \cup {n} : e <= i, IsFirst(seek, lines, f)
      PROVE  last = e
  <2>1. first = f
    BY <1>5, <1>6
  <2>2. Closing(seek, lines, first) \cup {n, first + seek.maximum - 1}
        = Bounds(seek, lines, f) \cup {n}
    BY <2>1 DEF Bounds
  <2>3. Bounds(seek, lines, f) \cup {n} \subseteq Nat
    BY <1>0, BoundsFacts
  <2> QED
    BY <1>6, <2>2, <2>3, MinIs
<1> HIDE DEF first, last
<1>7. ASSUME NEW f \in 1..n, IsFirst(seek, lines, f), Reading(seek, lines, scans[n], n, f)
      PROVE  ApplyReader(seek, lines) = SubSeq(lines, first, last) /\ Opening(seek, lines) # {}
  <2>1. \A i \in Bounds(seek, lines, f) \cup {n} : n <= i
    <3>1. Bounds(seek, lines, f) \subseteq Nat /\ \A i \in Bounds(seek, lines, f) : i > n
      BY <1>0, <1>7, BoundsFacts DEF Reading
    <3> QED
      BY <3>1
  <2>2. last = n
    BY <1>6, <1>7, <2>1
  <2>3. scans[n].window = SubSeq(lines, f, n)
    BY <1>7 DEF Reading, Scan
  <2> QED
    BY <1>2, <1>5, <1>7, <2>2, <2>3
<1>8. ASSUME NEW f \in 1..n, IsFirst(seek, lines, f), Done(seek, lines, scans[n], n, f)
      PROVE  ApplyReader(seek, lines) = SubSeq(lines, first, last) /\ Opening(seek, lines) # {}
  <2>1. PICK e \in f..n :
           /\ scans[n] = Scan(TRUE, Matched(seek, lines[f]), SubSeq(lines, f, e), TRUE)
           /\ e \in Bounds(seek, lines, f) /\ \A i \in Bounds(seek, lines, f) : e <= i
    BY <1>8 DEF Done
  <2>2. e \in Nat /\ e <= n
    OBVIOUS
  <2>3. last = e
    BY <1>6, <1>8, <2>1, <2>2
  <2>4. scans[n].window = SubSeq(lines, f, e)
    BY <2>1 DEF Scan
  <2> QED
    BY <1>2, <1>5, <1>8, <2>3, <2>4
<1>9. ApplyReader(seek, lines) = IF Opening(seek, lines) = {} THEN <<>> ELSE SubSeq(lines, first, last)
  <2>1. CASE \E f \in 1..n : /\ IsFirst(seek, lines, f)
                            /\ \/ Reading(seek, lines, scans[n], n, f)
                               \/ Done(seek, lines, scans[n], n, f)
    BY <2>1, <1>7, <1>8
  <2>2. \/ Looking(seek, lines, scans[n], n)
        \/ \E f \in 1..n : /\ IsFirst(seek, lines, f)
                           /\ \/ Reading(seek, lines, scans[n], n, f)
                              \/ Done(seek, lines, scans[n], n, f)
    BY <1>3 DEF ScanOK
  <2> QED
    BY <1>4, <2>1, <2>2
<1> QED
  BY <1>9 DEF first, last

(* The window a read answers (apply_reader) is the lines from the first    *)
(* that opens it to the first after that closes it or the most asked for,  *)
(* for every file, prefixes, markers and maximum.                          *)
THEOREM ReadsSeekTheirWindow == Spec => []SeekIsWindow
<1>1. SeekIsWindow
  <2> SUFFICES ASSUME NEW lines \in SeqOf(Lines, MaxLines),
                      NEW from \in SeqOf(Lines, 2) \cup {Anywhere},
                      NEW to \in {{}} \cup {{m} : m \in Markers}, NEW maximum \in 1..MaxLines + 1
               PROVE  ApplyReader([from |-> from, to |-> to, maximum |-> maximum], lines)
                      = WindowAsked(lines, from, to, maximum)
    BY Zenon DEF SeekIsWindow
  <2> DEFINE opening == {i \in DOMAIN lines : \E x \in Range(from) : IsPrefix(x, lines[i])}
             first == Min(opening)
             matched == from[Min({j \in DOMAIN from : IsPrefix(from[j], lines[first])})]
             closing == {i \in first + 1..Len(lines) :
                           \E m \in to : IsPrefix(Resolved(m, matched), lines[i])}
             last == Min(closing \cup {Len(lines), first + maximum - 1})
             seek == [from |-> from, to |-> to, maximum |-> maximum]
  <2>1. PICK n \in Nat : lines \in [1..n -> Lines]
    BY DEF SeqOf
  <2>2. Len(lines) = n /\ DOMAIN lines = 1..n
    BY <2>1
  <2>3. Len(from) \in Nat /\ DOMAIN from = 1..Len(from)
    <3>1. CASE from = Anywhere
      BY <3>1 DEF Anywhere
    <3>2. CASE from \in SeqOf(Lines, 2)
      <4>1. PICK m \in 0..2 : from \in [1..m -> Lines]
        BY <3>2 DEF SeqOf
      <4> QED
        BY <4>1
    <3> QED
      BY <3>1, <3>2
  <2>4. seek.from = from /\ seek.to = to /\ seek.maximum = maximum
    OBVIOUS
  <2>5. maximum \in Nat \ {0}
    BY ReadConstants
  <2> HIDE DEF seek
  <2>6. IsSeek(seek)
    BY <2>3, <2>4, <2>5 DEF IsSeek
  <2>7. opening = Opening(seek, lines)
    BY <2>4 DEF Opening, Openers, Range
  <2>8. closing = Closing(seek, lines, first)
    BY <2>4 DEF Closing, Ends, Matched, Openers
  <2> HIDE DEF closing
  <2>9. last = Min(Closing(seek, lines, first) \cup {n, first + seek.maximum - 1})
    BY <2>2, <2>4, <2>8
  <2> HIDE DEF opening
  <2>10. ApplyReader(seek, lines) = IF opening = {} THEN <<>> ELSE SubSeq(lines, first, last)
    BY <2>1, <2>6, <2>7, <2>9, WindowIs
  <2> QED
    BY <2>10, Zenon DEF opening, closing, seek, WindowAsked
<1> QED
  BY <1>1, PTL


-----------------------------------------------------------------------------
(* Trees below a directory *)

LEMMA Joined ==
    ASSUME NEW d \in Path, NEW x \in Path
    PROVE  /\ d \o x \in Path /\ Len(d \o x) = Len(d) + Len(x) /\ Len(d) \in Nat /\ Len(x) \in Nat
           /\ \A i \in 1..Len(d) : (d \o x)[i] = d[i]
           /\ \A i \in 1..Len(x) : (d \o x)[Len(d) + i] = x[i]
           /\ IsPrefix(d, d \o x)
           /\ x # Root => d \o x # Root /\ IsStrictPrefix(d, d \o x)
           /\ SubSeq(d \o x, Len(d) + 1, Len(d \o x)) = x
<1> DEFINE p == d \o x
           n == Len(d)
           m == Len(x)
<1>1. p \in Path /\ Len(p) = n + m /\ n \in Nat /\ m \in Nat
  BY DEF Path
<1>2. \A i \in 1..n : p[i] = d[i]
  BY <1>1 DEF Path
<1>3. \A i \in 1..m : p[n + i] = x[i]
  <2> TAKE i \in 1..m
  <2>1. n + i \in 1..(n + m) /\ ~(n + i <= n) /\ n + i - n = i
    BY <1>1
  <2> QED
    BY <1>1, <2>1 DEF Path
<1> HIDE DEF p, n, m
<1>4. IsPrefix(d, p)
  BY <1>1, <1>2, PrefixAt DEF n
<1>5. ASSUME x # Root PROVE p # Root /\ IsStrictPrefix(d, p)
  <2>1. m # 0
    BY <1>5, <1>1 DEF m, Root, Path
  <2>2. Len(Root) = 0
    BY DEF Root
  <2> QED
    BY <1>1, <1>4, <2>1, <2>2 DEF IsStrictPrefix, n
<1>6. SubSeq(p, n + 1, n + m) = x
  <2> DEFINE y == SubSeq(p, n + 1, n + m)
  <2>1. /\ y \in Seq(Nat) /\ Len(y) = m /\ \A i \in 1..m : y[i] = p[n + i]
    <3>1. n + 1 \in 1..(n + m + 1) /\ n + m \in n..Len(p) /\ n + m - (n + 1) + 1 = m
      BY <1>1
    <3>2. \A i \in 1..m : n + 1 + i - 1 = n + i
      BY <1>1
    <3>3. p \in Seq(Nat)
      BY <1>1 DEF Path
    <3> QED
      BY <1>1, <3>1, <3>2, <3>3, SubSeqProperties
  <2>2. x \in Seq(Nat) /\ Len(x) = m /\ \A i \in 1..m : y[i] = x[i]
    BY <1>3, <2>1 DEF Path, m
  <2> HIDE DEF y
  <2>3. y = x
    BY <2>1, <2>2, SeqEqual
  <2> QED
    BY <2>3 DEF y
<1> QED
  BY <1>1, <1>2, <1>3, <1>4, <1>5, <1>6 DEF p, n, m

LEMMA Split ==
    ASSUME NEW d \in Path, NEW p \in Path, IsPrefix(d, p)
    PROVE  LET x == SubSeq(p, Len(d) + 1, Len(p))
           IN x \in Path /\ d \o x = p /\ (d # p => x # Root)
<1> DEFINE n == Len(d)
           x == SubSeq(p, n + 1, Len(p))
<1>1. n \in Nat /\ Len(p) \in Nat /\ n <= Len(p) /\ \A i \in 1..n : p[i] = d[i]
  BY PrefixAt DEF Path
<1>2. x \in Path /\ Len(x) = Len(p) - n /\ \A i \in 1..(Len(p) - n) : x[i] = p[n + i]
  <2>1. p \in Seq(Nat)
    BY DEF Path
  <2>2. Len(p) - (n + 1) + 1 = Len(p) - n /\ \A i \in 1..(Len(p) - n) : n + 1 + i - 1 = n + i
    BY <1>1
  <2>3. n + 1 \in 1..(Len(p) + 1) /\ Len(p) \in n..Len(p)
    BY <1>1
  <2> QED
    BY <1>1, <2>1, <2>2, <2>3, SubSeqProperties DEF Path
<1> HIDE DEF n, x
<1>3. d \o x = p
  <2>1. /\ d \o x \in Path /\ Len(d \o x) = n + Len(x)
        /\ \A i \in 1..n : (d \o x)[i] = d[i]
        /\ \A i \in 1..Len(x) : (d \o x)[n + i] = x[i]
    BY <1>2, Joined DEF n
  <2>2. Len(d \o x) = Len(p)
    BY <1>1, <1>2, <2>1
  <2>3. ASSUME NEW i \in 1..Len(p) PROVE (d \o x)[i] = p[i]
    <3>1. CASE i <= n
      <4>1. i \in 1..n
        BY <3>1
      <4> QED
        BY <1>1, <2>1, <4>1
    <3>2. CASE ~(i <= n)
      <4> DEFINE j == i - n
      <4>1. j \in 1..(Len(p) - n) /\ n + j = i
        BY <1>1, <3>2
      <4> HIDE DEF j
      <4> QED
        BY <1>2, <2>1, <4>1
    <3> QED
      BY <3>1, <3>2
  <2> QED
    BY <2>1, <2>2, <2>3, SeqEqual DEF Path
<1>4. ASSUME d # p PROVE x # Root
  <2>1. n # Len(p)
    BY <1>4, PrefixFacts DEF n
  <2>2. Len(Root) = 0
    BY DEF Root
  <2> QED
    BY <1>1, <1>2, <2>1, <2>2
<1> QED
  BY <1>2, <1>3, <1>4 DEF x, n

LEMMA JoinedPrefix ==
    ASSUME NEW d \in Path, NEW x \in Path, NEW y \in Path
    PROVE  /\ IsPrefix(d \o x, d \o y) <=> IsPrefix(x, y)
           /\ IsStrictPrefix(d \o x, d \o y) <=> IsStrictPrefix(x, y)
           /\ d \o x = d \o y <=> x = y
<1> DEFINE n == Len(d)
           p == d \o x
           q == d \o y
<1>1. /\ p \in Path /\ q \in Path /\ n \in Nat /\ Len(x) \in Nat /\ Len(y) \in Nat
      /\ Len(p) = n + Len(x) /\ Len(q) = n + Len(y)
      /\ \A i \in 1..n : p[i] = d[i] /\ q[i] = d[i]
      /\ \A i \in 1..Len(x) : p[n + i] = x[i]
      /\ \A i \in 1..Len(y) : q[n + i] = y[i]
  BY Joined
<1>e. p = q <=> x = y
  <2>1. /\ SubSeq(p, n + 1, Len(p)) = x /\ SubSeq(q, n + 1, Len(q)) = y
    BY Joined
  <2> QED
    BY <2>1
<1> HIDE DEF n, p, q
<1>2. ASSUME IsPrefix(p, q) PROVE IsPrefix(x, y)
  <2>1. Len(p) <= Len(q) /\ \A i \in 1..Len(p) : p[i] = q[i]
    BY <1>1, <1>2, PrefixAt
  <2>2. Len(x) <= Len(y)
    BY <1>1, <2>1
  <2>3. ASSUME NEW i \in 1..Len(x) PROVE x[i] = y[i]
    <3>1. n + i \in 1..Len(p) /\ i \in 1..Len(y)
      BY <1>1, <2>2
    <3> QED
      BY <1>1, <2>1, <3>1
  <2> QED
    BY <2>2, <2>3, PrefixAt
<1>3. ASSUME IsPrefix(x, y) PROVE IsPrefix(p, q)
  <2>1. Len(x) <= Len(y) /\ \A i \in 1..Len(x) : x[i] = y[i]
    BY <1>3, PrefixAt
  <2>2. Len(p) <= Len(q)
    BY <1>1, <2>1
  <2>3. ASSUME NEW i \in 1..Len(p) PROVE p[i] = q[i]
    <3>1. CASE i <= n
      <4>1. i \in 1..n
        BY <3>1
      <4> QED
        BY <1>1, <4>1
    <3>2. CASE ~(i <= n)
      <4> DEFINE j == i - n
      <4>1. j \in 1..Len(x) /\ j \in 1..Len(y) /\ n + j = i
        BY <1>1, <2>1, <3>2
      <4> HIDE DEF j
      <4> QED
        BY <1>1, <2>1, <4>1
    <3> QED
      BY <3>1, <3>2
  <2> QED
    BY <1>1, <2>2, <2>3, PrefixAt
<1> QED
  BY <1>2, <1>3, <1>e DEF IsStrictPrefix, p, q

LEMMA WalkAt ==
    ASSUME NEW t, DOMAIN t \subseteq Path, NEW d \in Path
    PROVE  /\ IsMap(WalkTree(t, d))
           /\ \A x : x \in DOMAIN WalkTree(t, d) <=> x \in Path /\ x # Root /\ d \o x \in DOMAIN t
           /\ \A x \in DOMAIN WalkTree(t, d) : WalkTree(t, d)[x] = t[d \o x]
<1> DEFINE below == {SubSeq(p, Len(d) + 1, Len(p)) : p \in Subtree(t, d)}
           w == [x \in below |-> t[d \o x]]
<1>1. WalkTree(t, d) = w
  BY DEF WalkTree
<1>2. ASSUME NEW x \in below PROVE x \in Path /\ x # Root /\ d \o x \in DOMAIN t
  <2>1. PICK p \in Subtree(t, d) : x = SubSeq(p, Len(d) + 1, Len(p))
    BY <1>2
  <2>2. p \in DOMAIN t /\ p \in Path /\ IsPrefix(d, p) /\ d # p
    BY DEF Subtree, IsStrictPrefix
  <2> QED
    BY <2>1, <2>2, Split
<1>3. ASSUME NEW x, x \in Path, x # Root, d \o x \in DOMAIN t PROVE x \in below
  <2>1. IsStrictPrefix(d, d \o x) /\ SubSeq(d \o x, Len(d) + 1, Len(d \o x)) = x
    BY <1>3, Joined
  <2>2. d \o x \in Subtree(t, d)
    BY <1>3, <2>1 DEF Subtree
  <2> QED
    BY <2>1, <2>2
<1> HIDE DEF below
<1> QED
  BY <1>1, <1>2, <1>3 DEF IsMap

LEMMA WalkLegal ==
    ASSUME NEW t, DOMAIN t \subseteq Legal, NEW d \in Path
    PROVE  DOMAIN WalkTree(t, d) \subseteq Legal
<1> SUFFICES ASSUME NEW x \in DOMAIN WalkTree(t, d) PROVE x \in Legal
  OBVIOUS
<1> DEFINE p == d \o x
           n == Len(d)
<1>1. x \in Path /\ x # Root /\ p \in Legal
  BY LegalFacts, WalkAt
<1>2. /\ n \in Nat /\ Len(x) \in Nat /\ Len(p) = n + Len(x)
      /\ \A i \in 1..Len(x) : p[n + i] = x[i]
  BY <1>1, Joined
<1> HIDE DEF p, n
<1>3. /\ \A i \in 1..Len(p) : p[i] \in Name \cup {Index}
      /\ \A i \in 1..(Len(p) - 1) : p[i] # Index
  BY <1>1 DEF Legal
<1>4. \A i \in 1..Len(x) : x[i] \in Name \cup {Index}
  <2>1. \A i \in 1..Len(x) : n + i \in 1..Len(p)
    BY <1>2
  <2> QED
    BY <1>2, <1>3, <2>1
<1>5. \A i \in 1..(Len(x) - 1) : x[i] # Index
  <2>1. \A i \in 1..(Len(x) - 1) : n + i \in 1..(Len(p) - 1) /\ i \in 1..Len(x)
    BY <1>2
  <2> QED
    BY <1>2, <1>3, <2>1
<1>6. x \in Seq(Name \cup {Index})
  <2>1. x \in [1..Len(x) -> Name \cup {Index}]
    BY <1>1, <1>4 DEF Path
  <2> QED
    BY <1>2, <2>1, SeqDef
<1> QED
  BY <1>1, <1>5, <1>6 DEF Legal

LEMMA LeafJoined ==
    ASSUME NEW d \in Path, NEW x \in Path, x # Root
    PROVE  /\ Leaf(d \o x) = Leaf(x) /\ (IsIndex(d \o x) <=> IsIndex(x))
<1>1. /\ Len(d \o x) = Len(d) + Len(x) /\ Len(d) \in Nat /\ Len(x) \in Nat /\ d \o x # Root
      /\ \A i \in 1..Len(x) : (d \o x)[Len(d) + i] = x[i]
  BY Joined
<1>2. Len(x) \in 1..Len(x)
  BY <1>1 DEF Path, Root
<1>3. (d \o x)[Len(d \o x)] = x[Len(x)]
  BY <1>1, <1>2
<1> QED
  BY <1>1, <1>3 DEF Leaf, Last, IsIndex

LEMMA SightJoined ==
    ASSUME NEW d \in Path, NEW x \in Path, NEW s
    PROVE  InSight(d \o x, s) <=> InSight(d, s) /\ InSight(x, s)
<1> DEFINE n == Len(d)
           p == d \o x
<1>1. /\ n \in Nat /\ Len(x) \in Nat /\ Len(p) = n + Len(x)
      /\ DOMAIN p = 1..Len(p) /\ DOMAIN d = 1..n /\ DOMAIN x = 1..Len(x)
      /\ \A i \in 1..n : p[i] = d[i]
      /\ \A i \in 1..Len(x) : p[n + i] = x[i]
  BY Joined DEF Path
<1> HIDE DEF n, p
<1>2. ASSUME \A i \in 1..Len(p) : p[i] \notin HiddenName
      PROVE  /\ \A i \in 1..n : d[i] \notin HiddenName
             /\ \A i \in 1..Len(x) : x[i] \notin HiddenName
  <2>1. (\A i \in 1..n : i \in 1..Len(p)) /\ \A i \in 1..Len(x) : n + i \in 1..Len(p)
    BY <1>1
  <2> QED
    BY <1>1, <1>2, <2>1
<1>3. ASSUME \A i \in 1..n : d[i] \notin HiddenName, \A i \in 1..Len(x) : x[i] \notin HiddenName,
             NEW i \in 1..Len(p)
      PROVE  p[i] \notin HiddenName
  <2>1. CASE i <= n
    <3>1. i \in 1..n
      BY <2>1
    <3> QED
      BY <1>1, <1>3, <3>1
  <2>2. CASE ~(i <= n)
    <3> DEFINE j == i - n
    <3>1. j \in 1..Len(x) /\ n + j = i
      BY <1>1, <2>2
    <3> HIDE DEF j
    <3> QED
      BY <1>1, <1>3, <3>1
  <2> QED
    BY <2>1, <2>2
<1> QED
  BY <1>1, <1>2, <1>3 DEF InSight, p

(* A path that leads to one of a tree is one of names. *)
LEMMA LeadsNamed ==
    ASSUME NEW d \in Path, NEW p \in Legal, IsStrictPrefix(d, p)
    PROVE  d \in Seq(Name)
<1>1. p \in Path /\ Len(p) \in Nat /\ Len(d) \in Nat
  BY LegalFacts DEF Path
<1>2. IsPrefix(d, p) /\ d # p
  BY DEF IsStrictPrefix
<1>3. Len(d) < Len(p) /\ \A i \in 1..Len(d) : d[i] = p[i]
  <2>1. Len(d) <= Len(p) /\ Len(d) # Len(p)
    BY <1>1, <1>2, PrefixFacts
  <2>2. \A i \in 1..Len(d) : d[i] = p[i]
    BY <1>1, <1>2, PrefixAt
  <2> QED
    BY <1>1, <2>1, <2>2
<1>4. \A i \in 1..Len(p) : p[i] \in Name \cup {Index}
  BY DEF Legal
<1>5. \A i \in 1..(Len(p) - 1) : p[i] # Index
  BY DEF Legal
<1>6. ASSUME NEW i \in 1..Len(d) PROVE d[i] \in Name
  <2>1. i \in 1..Len(p) /\ i \in 1..(Len(p) - 1)
    BY <1>1, <1>3
  <2> QED
    BY <1>3, <1>4, <1>5, <2>1
<1>7. d = [i \in 1..Len(d) |-> d[i]] /\ d \in [1..Len(d) -> Name]
  BY <1>6 DEF Path
<1> QED
  BY <1>1, <1>7, SeqDef

LEMMA FilesAre ==
    ASSUME NEW w, DOMAIN w \subseteq Legal, NEW s, NEW p \in FilesOf(w, s)
    PROVE  p \in DOMAIN w /\ p \in Seq(Name) /\ p \in Path /\ p # Root /\ InSight(p, s)
  BY LegalFacts DEF FilesOf

LEMMA DirsAre ==
    ASSUME NEW w, DOMAIN w \subseteq Legal, NEW s, NEW d
    PROVE  /\ d \in DirsOf(w, s) <=> d \in Path /\ d # Root /\ IsFolder(w, d) /\ InSight(d, s)
           /\ d \in DirsOf(w, s) => d \in Seq(Name)
<1>1. DOMAIN w \subseteq Path
  BY LegalFacts
<1>2. d \in UNION {Ancestors(p) : p \in DOMAIN w} <=> \E p \in DOMAIN w : d \in Ancestors(p)
  OBVIOUS
<1>3. \A p \in DOMAIN w : d \in Ancestors(p) <=> d \in Path /\ d # Root /\ IsStrictPrefix(d, p)
  BY <1>1, AncestorsFacts
<1>4. d \in DirsOf(w, s) <=> d \in Path /\ d # Root /\ IsFolder(w, d) /\ InSight(d, s)
  BY <1>2, <1>3 DEF DirsOf, IsFolder
<1>5. ASSUME d \in Path, IsFolder(w, d) PROVE d \in Seq(Name)
  BY <1>5, LeadsNamed DEF IsFolder
<1> QED
  BY <1>4, <1>5

LEMMA SightUp ==
    ASSUME NEW d \in Path, NEW p \in Path, IsPrefix(d, p), NEW s, InSight(p, s)
    PROVE  InSight(d, s)
<1> DEFINE x == SubSeq(p, Len(d) + 1, Len(p))
<1>1. x \in Path /\ d \o x = p
  BY Split
<1> HIDE DEF x
<1> QED
  BY <1>1, SightJoined

LEMMA DirsUp ==
    ASSUME NEW w, DOMAIN w \subseteq Legal, NEW s, NEW p \in FilesOf(w, s) \cup DirsOf(w, s),
           NEW d \in Ancestors(p)
    PROVE  d \in DirsOf(w, s)
<1>1. p \in Path /\ InSight(p, s)
  BY FilesAre, DirsAre
<1>2. d \in Path /\ d # Root /\ IsStrictPrefix(d, p)
  BY <1>1, AncestorsFacts
<1>3. InSight(d, s)
  BY <1>1, <1>2, SightUp DEF IsStrictPrefix
<1>4. CASE p \in FilesOf(w, s)
  BY <1>2, <1>3, <1>4, FilesAre, DirsAre DEF IsFolder
<1>5. CASE p \in DirsOf(w, s)
  <2>1. PICK q \in DOMAIN w : IsStrictPrefix(p, q)
    BY <1>5, DirsAre DEF IsFolder
  <2>2. q \in Path
    BY LegalFacts
  <2>3. IsStrictPrefix(d, q)
    BY <1>1, <1>2, <2>1, <2>2, PrefixFacts DEF IsStrictPrefix
  <2> QED
    BY <1>2, <1>3, <2>3, DirsAre DEF IsFolder
<1> QED
  BY <1>4, <1>5

(* What a walk below d sees is what a walk from above sees there.          *)
LEMMA BelowFacts ==
    ASSUME NEW t, DOMAIN t \subseteq Legal, NEW d \in Path, NEW s, InSight(d, s),
           NEW r, r.hidden = s.hidden
    PROVE  /\ \A x : x \in FilesOf(WalkTree(t, d), r)
                     <=> x \in Path /\ x # Root /\ d \o x \in FilesOf(t, s)
           /\ \A x : x \in DirsOf(WalkTree(t, d), r)
                     <=> x \in Path /\ x # Root /\ d \o x \in DirsOf(t, s)
           /\ \A x \in Path : x # Root => (IsFolder(WalkTree(t, d), x) <=> IsFolder(t, d \o x))
<1> DEFINE v == WalkTree(t, d)
<1>1. DOMAIN t \subseteq Path
  BY LegalFacts
<1>2. \A x : x \in DOMAIN v <=> x \in Path /\ x # Root /\ d \o x \in DOMAIN t
  BY <1>1, WalkAt
<1> HIDE DEF v
<1>3. \A x \in Path : InSight(x, r) <=> InSight(d \o x, s)
  BY SightJoined DEF InSight
<1>4. \A x : x \in FilesOf(v, r) <=> x \in Path /\ x # Root /\ d \o x \in FilesOf(t, s)
  BY <1>2, <1>3, LeafJoined DEF FilesOf
<1>5. ASSUME NEW x \in Path, x # Root PROVE IsFolder(v, x) <=> IsFolder(t, d \o x)
  <2>1. ASSUME NEW y \in DOMAIN v, IsStrictPrefix(x, y) PROVE IsFolder(t, d \o x)
    <3>1. y \in Path /\ d \o y \in DOMAIN t
      BY <1>2
    <3>2. IsStrictPrefix(d \o x, d \o y)
      BY <2>1, <3>1, JoinedPrefix
    <3> QED
      BY <3>1, <3>2 DEF IsFolder
  <2>2. ASSUME NEW q \in DOMAIN t, IsStrictPrefix(d \o x, q) PROVE IsFolder(v, x)
    <3> DEFINE y == SubSeq(q, Len(d) + 1, Len(q))
    <3>1. q \in Path /\ d \o x \in Path /\ IsStrictPrefix(d, d \o x)
      BY <1>1, <1>5, Joined
    <3>2. IsPrefix(d, q) /\ d # q
      BY <2>2, <3>1, PrefixFacts DEF IsStrictPrefix
    <3>3. y \in Path /\ d \o y = q /\ y # Root
      BY <3>1, <3>2, Split
    <3> HIDE DEF y
    <3>4. y \in DOMAIN v /\ IsStrictPrefix(x, y)
      BY <1>2, <2>2, <3>3, JoinedPrefix
    <3> QED
      BY <3>4 DEF IsFolder
  <2> QED
    BY <2>1, <2>2 DEF IsFolder
<1>6. DOMAIN v \subseteq Legal
  BY WalkLegal DEF v
<1>7. ASSUME NEW x PROVE x \in DirsOf(v, r) <=> x \in Path /\ x # Root /\ d \o x \in DirsOf(t, s)
  <2>1. x \in DirsOf(v, r) <=> x \in Path /\ x # Root /\ IsFolder(v, x) /\ InSight(x, r)
    BY <1>6, DirsAre
  <2>2. x \in Path /\ x # Root => d \o x \in Path /\ d \o x # Root
    BY Joined
  <2>3. x \in Path /\ x # Root =>
           (d \o x \in DirsOf(t, s) <=> IsFolder(t, d \o x) /\ InSight(d \o x, s))
    BY <2>2, DirsAre
  <2> QED
    BY <1>3, <1>5, <2>1, <2>3
<1> QED
  BY <1>4, <1>5, <1>7 DEF v

LEMMA SubtreeOK ==
    ASSUME NEW t, TreeOK(t), NEW d \in Path
    PROVE  TreeOK(WalkTree(t, d)) /\ (WellTyped(t) => WellTyped(WalkTree(t, d)))
<1> DEFINE v == WalkTree(t, d)
<1>1. DOMAIN t \subseteq Path /\ DOMAIN t \subseteq Legal /\ IsFiniteSet(DOMAIN t) /\ WellFormed(t)
  BY LegalFacts DEF TreeOK
<1>2. /\ IsMap(v) /\ DOMAIN v \subseteq Legal
      /\ \A x : x \in DOMAIN v <=> x \in Path /\ x # Root /\ d \o x \in DOMAIN t
      /\ \A x \in DOMAIN v : v[x] = t[d \o x]
  BY <1>1, WalkAt, WalkLegal
<1>3. IsFiniteSet(DOMAIN v)
  <2> DEFINE S == Subtree(t, d)
             f == [p \in S |-> SubSeq(p, Len(d) + 1, Len(p))]
  <2>1. IsFiniteSet(S)
    BY <1>1, FS_Subset DEF Subtree
  <2>2. DOMAIN v = {f[p] : p \in S}
    BY DEF WalkTree
  <2>3. f \in [S -> {f[p] : p \in S}]
    OBVIOUS
  <2> HIDE DEF f, S
  <2> QED
    BY <2>1, <2>2, <2>3, FiniteRange
<1> HIDE DEF v
<1>4. WellFormed(v)
  <2> SUFFICES ASSUME NEW x \in DOMAIN v, NEW y \in DOMAIN v, IsStrictPrefix(x, y) PROVE FALSE
    BY DEF WellFormed, IsFolder
  <2>1. d \o x \in DOMAIN t /\ d \o y \in DOMAIN t /\ IsStrictPrefix(d \o x, d \o y)
    BY <1>2, JoinedPrefix
  <2> QED
    BY <1>1, <2>1 DEF WellFormed, IsFolder
<1>5. ASSUME WellTyped(t) PROVE WellTyped(v)
  <2> SUFFICES ASSUME NEW x \in DOMAIN v PROVE TypedAt(x, v[x])
    BY DEF WellTyped
  <2>1. x \in Path /\ x # Root /\ d \o x \in DOMAIN t /\ v[x] = t[d \o x]
    BY <1>2
  <2>2. IsIndex(d \o x) <=> IsIndex(x)
    BY <2>1, LeafJoined
  <2>3. TypedAt(d \o x, t[d \o x])
    BY <1>5, <2>1 DEF WellTyped
  <2> QED
    BY <2>1, <2>2, <2>3 DEF TypedAt
<1> QED
  BY <1>2, <1>3, <1>4, <1>5 DEF TreeOK, v

-----------------------------------------------------------------------------
(* What every listing shows *)

InDepth(w, s) == {p \in FilesOf(w, s) : Len(p) <= s.depth}
AtDepth(w, s) == {d \in DirsOf(w, s) : Len(d) = s.depth}
RootDirs(w, s) == {d \in DirsOf(w, s) : Len(d) = 1}

(* The directories that lead to what is as deep as the listing goes.       *)
Leading(w, s) ==
    (UNION {Ancestors(p) : p \in InDepth(w, s)}) \cup UNION {Ancestors(d) \cup {d} : d \in AtDepth(w, s)}

LEMMA RootDirFacts ==
    ASSUME NEW d \in Path, d # Root, Len(d) = 1 PROVE Ancestors(d) = {} /\ d = <<d[1]>>
<1>1. ASSUME NEW c \in Ancestors(d) PROVE FALSE
  <2>1. c \in Path /\ c # Root /\ IsStrictPrefix(c, d)
    BY <1>1, AncestorsFacts
  <2>2. IsPrefix(c, d) /\ c # d /\ Len(c) \in Nat
    BY <2>1 DEF IsStrictPrefix, Path
  <2>3. Len(c) <= 1 /\ Len(c) # 1
    BY <2>1, <2>2, PrefixFacts
  <2>4. Len(c) = 0
    <3> PICK m \in Nat : m = Len(c)
      BY <2>2
    <3>1. m <= 1 /\ m # 1
      BY <2>3
    <3>2. m = 0
      BY <3>1
    <3> QED
      BY <3>2
  <2>5. c = <<>>
    BY <2>1, <2>4 DEF Path
  <2> QED
    BY <2>1, <2>5 DEF Root
<1>2. d = <<d[1]>>
  BY DEF Path
<1> QED
  BY <1>1, <1>2

(* A selection that finds all that is in depth, whichever directories it   *)
(* calls stubs, shows all that leads there.                                *)
LEMMA FinishIs ==
    ASSUME NEW w, DOMAIN w \subseteq Legal, NEW s, s.depth \in Depths, NEW found,
           found.flat = InDepth(w, s),
           found.dirStubs \cup found.depthStubs = RootDirs(w, s) \cup AtDepth(w, s)
    PROVE  Finish(found) = Tree(InDepth(w, s), RootDirs(w, s) \cup Leading(w, s))
<1> DEFINE F == InDepth(w, s)
           S == RootDirs(w, s) \cup AtDepth(w, s)
           D == s.depth
<1>1. AnyDepth \in Nat /\ D \in Nat /\ D >= 1 /\ D <= AnyDepth
  BY AnyDepthFacts
<1>2. \A p \in F : p \in Path /\ Len(p) <= D /\ Len(p) \in Nat
  BY FilesAre DEF InDepth, Path
<1>3. \A p \in F : \A d \in Ancestors(p) : Len(d) <= AnyDepth
  <2> TAKE p \in F
  <2> TAKE d \in Ancestors(p)
  <2>1. d \in Path /\ IsPrefix(d, p) /\ p \in Path
    BY <1>2, AncestorsFacts DEF IsStrictPrefix
  <2>2. Len(d) <= Len(p) /\ Len(d) \in Nat
    BY <2>1, PrefixFacts DEF Path
  <2> QED
    BY <1>1, <1>2, <2>2
<1>4. Finish(found) = BuildTree(F, S, AnyDepth)
  BY DEF Finish
<1>5. UNION {Ancestors(d) \cup {d} : d \in S}
      = RootDirs(w, s) \cup UNION {Ancestors(d) \cup {d} : d \in AtDepth(w, s)}
  <2>1. \A d \in RootDirs(w, s) : Ancestors(d) = {}
    BY DirsAre, RootDirFacts DEF RootDirs
  <2> QED
    BY <2>1
<1>l. Leading(w, s) = (UNION {Ancestors(p) : p \in F})
                      \cup UNION {Ancestors(d) \cup {d} : d \in AtDepth(w, s)}
  BY Zenon DEF Leading
<1> HIDE DEF F, S
<1>6. {p \in F : Len(p) <= AnyDepth} = F
  <2>1. \A p \in F : Len(p) <= AnyDepth
    BY <1>1, <1>2
  <2> QED
    BY <2>1
<1>7. {d \in UNION {Ancestors(p) : p \in F} : Len(d) <= AnyDepth} = UNION {Ancestors(p) : p \in F}
  BY <1>3
<1> DEFINE A == UNION {Ancestors(p) : p \in F}
           B == UNION {Ancestors(d) \cup {d} : d \in S}
           C == UNION {Ancestors(d) \cup {d} : d \in AtDepth(w, s)}
<1>8. BuildTree(F, S, AnyDepth) = Tree({p \in F : Len(p) <= AnyDepth}, {d \in A : Len(d) <= AnyDepth} \cup B)
  BY DEF BuildTree
<1>9. B = RootDirs(w, s) \cup C
  BY <1>5
<1>10. Leading(w, s) = A \cup C
  BY <1>l, Zenon
<1>11. {d \in A : Len(d) <= AnyDepth} = A
  BY <1>7
<1> HIDE DEF A, B, C
<1>12. BuildTree(F, S, AnyDepth) = Tree(F, A \cup B)
  BY <1>6, <1>8, <1>11
<1>13. A \cup B = RootDirs(w, s) \cup Leading(w, s)
  BY <1>9, <1>10
<1> QED
  BY <1>4, <1>12, <1>13 DEF F

Whole(w, s) == Tree(InDepth(w, s), RootDirs(w, s) \cup Leading(w, s))

(* A search that everything matches finds all that is in depth. *)
LEMMA SearchFinds ==
    ASSUME TreesOK, NEW s, s.prefix \in Path, s.depth \in Depths
    PROVE  Finish(Search(s, Name)) = Whole(WalkTree(Tip, s.prefix), s)
<1> DEFINE w == WalkTree(Tip, s.prefix)
           Matches(p) == \E i \in DOMAIN p : p[i] \in Name
           Freshly(d) == Leaf(d) \in Name /\ ~Matches(Front(d))
           files == {p \in FilesOf(w, s) : Len(p) <= s.depth /\ Matches(p)}
           fresh == {d \in DirsOf(w, s) : Len(d) < s.depth /\ Freshly(d)}
           atDepth == {d \in DirsOf(w, s) : Len(d) = s.depth /\ Matches(d)}
           found == Search(s, Name)
<1>1. found.flat = files /\ found.dirStubs = fresh /\ found.depthStubs = atDepth
  BY DEF Search, Found
<1>2. DOMAIN w \subseteq Legal
  BY TipFacts, WalkLegal
<1>3. s.depth \in Nat /\ s.depth >= 1
  BY AnyDepthFacts
<1>4. \A p \in FilesOf(w, s) \cup DirsOf(w, s) : p \in Seq(Name) /\ p \in Path /\ p # Root
  BY <1>2, FilesAre, DirsAre
<1> HIDE DEF w, found
<1>5. ASSUME NEW p \in Seq(Name), p \in Path, p # Root
      PROVE  Matches(p) /\ (Freshly(p) <=> Len(p) = 1)
  <2>1. /\ Len(p) \in Nat /\ Len(p) >= 1 /\ Len(Parent(p)) = Len(p) - 1 /\ Parent(p) \in Path
        /\ \A i \in 1..(Len(p) - 1) : Parent(p)[i] = p[i]
    BY <1>5, LeafFacts
  <2>2. \A i \in 1..Len(p) : p[i] \in Name
    OBVIOUS
  <2>3. DOMAIN p = 1..Len(p) /\ DOMAIN Parent(p) = 1..(Len(p) - 1)
    BY <2>1 DEF Path
  <2>4. Matches(p)
    <3>1. 1 \in 1..Len(p)
      BY <2>1
    <3> QED
      BY <2>2, <2>3, <3>1
  <2>5. Leaf(p) \in Name
    <3>1. Len(p) \in 1..Len(p)
      BY <2>1
    <3>2. p[Len(p)] \in Name
      BY <2>2, <3>1
    <3> QED
      BY <3>2 DEF Leaf, Last
  <2>6. ASSUME Len(p) = 1 PROVE ~Matches(Parent(p))
    <3>1. 1..(Len(p) - 1) = {}
      BY <2>6
    <3> QED
      BY <2>3, <3>1
  <2>7. ASSUME Len(p) # 1 PROVE Matches(Parent(p))
    <3>1. 1 \in 1..(Len(p) - 1) /\ 1 \in 1..Len(p)
      BY <2>1, <2>7
    <3>2. Parent(p)[1] = p[1] /\ p[1] \in Name
      BY <2>1, <2>2, <3>1
    <3> QED
      BY <2>3, <3>1, <3>2
  <2>8. Front(p) = Parent(p)
    BY DEF Parent
  <2> HIDE DEF Matches
  <2> QED
    BY <2>4, <2>5, <2>6, <2>7, <2>8
<1> HIDE DEF Matches, Freshly
<1>6. \A p \in FilesOf(w, s) \cup DirsOf(w, s) : Matches(p) /\ (Freshly(p) <=> Len(p) = 1)
  BY <1>4, <1>5
<1>7. files = InDepth(w, s)
  BY <1>6 DEF InDepth
<1>8. fresh \cup atDepth = RootDirs(w, s) \cup AtDepth(w, s)
  <2>1. ASSUME NEW d PROVE d \in fresh \cup atDepth <=> d \in RootDirs(w, s) \cup AtDepth(w, s)
    <3>1. CASE d \in DirsOf(w, s)
      <4>1. Len(d) \in Nat
        BY <1>4, <3>1 DEF Path
      <4>2. d \in fresh <=> Len(d) < s.depth /\ Len(d) = 1
        BY <1>6, <3>1
      <4>3. d \in atDepth <=> Len(d) = s.depth
        BY <1>6, <3>1
      <4>4. d \in RootDirs(w, s) <=> Len(d) = 1
        BY <3>1 DEF RootDirs
      <4>5. d \in AtDepth(w, s) <=> Len(d) = s.depth
        BY <3>1 DEF AtDepth
      <4>6. ((Len(d) < s.depth /\ Len(d) = 1) \/ Len(d) = s.depth)
            <=> (Len(d) = 1 \/ Len(d) = s.depth)
        <5>1. ASSUME NEW m \in Nat, NEW n \in Nat, n >= 1
              PROVE  ((m < n /\ m = 1) \/ m = n) <=> (m = 1 \/ m = n)
          BY <5>1
        <5> QED
          BY <1>3, <4>1, <5>1
      <4> HIDE DEF fresh, atDepth
      <4> QED
        BY <4>2, <4>3, <4>4, <4>5, <4>6
    <3>2. CASE d \notin DirsOf(w, s)
      BY <3>2 DEF RootDirs, AtDepth
    <3> QED
      BY <3>1, <3>2
  <2> QED
    BY <2>1
<1>9. Finish(found) = Tree(InDepth(w, s), RootDirs(w, s) \cup Leading(w, s))
  BY <1>1, <1>2, <1>7, <1>8, FinishIs
<1> QED
  BY <1>9 DEF Whole, w, found

LEMMA HeadRest ==
    ASSUME NEW p \in Path, Len(p) > 1
    PROVE  LET d == <<p[1]>>
               x == SubSeq(p, 2, Len(p))
           IN /\ d \in Path /\ d # Root /\ Len(d) = 1 /\ x \in Path /\ x # Root
              /\ d \o x = p /\ Len(x) = Len(p) - 1 /\ IsStrictPrefix(d, p)
<1> DEFINE d == <<p[1]>>
           x == SubSeq(p, 2, Len(p))
<1>1. Len(p) \in Nat /\ 1 \in 1..Len(p) /\ p[1] \in Nat
  BY DEF Path
<1>2. d \in Path /\ Len(d) = 1 /\ d[1] = p[1] /\ d # Root
  BY <1>1 DEF Path, Root
<1> HIDE DEF d
<1>3. IsPrefix(d, p) /\ d # p
  <2>1. \A i \in 1..Len(d) : d[i] = p[i]
    BY <1>2
  <2> QED
    BY <1>1, <1>2, <2>1, PrefixAt
<1>4. Len(d) + 1 = 2
  BY <1>2
<1>5. x \in Path /\ d \o x = p /\ x # Root
  BY <1>2, <1>3, <1>4, Split
<1>6. Len(x) = Len(p) - 1
  <2>1. Len(d \o x) = Len(d) + Len(x) /\ Len(x) \in Nat
    BY <1>2, <1>5, Joined
  <2> QED
    BY <1>1, <1>2, <1>5, <2>1
<1> QED
  BY <1>2, <1>3, <1>5, <1>6 DEF d, IsStrictPrefix

(* One level down: what a listing of one depth less finds in a directory of *)
(* the root is what the listing finds below that directory.                *)
Below(s, r) == r.hidden = s.hidden /\ r.depth = s.depth - 1

LEMMA DownFacts ==
    ASSUME NEW w, DOMAIN w \subseteq Legal, NEW s, s.depth \in Nat, NEW r, Below(s, r),
           NEW d \in RootDirs(w, s)
    PROVE  /\ d \in Path /\ d # Root /\ Len(d) = 1
           /\ \A x : x \in InDepth(WalkTree(w, d), r)
                     <=> x \in Path /\ x # Root /\ d \o x \in InDepth(w, s)
           /\ \A x : x \in AtDepth(WalkTree(w, d), r)
                     <=> x \in Path /\ x # Root /\ d \o x \in AtDepth(w, s)
<1> DEFINE v == WalkTree(w, d)
<1>1. d \in Path /\ d # Root /\ Len(d) = 1 /\ InSight(d, s)
  BY DirsAre DEF RootDirs
<1>2. r.hidden = s.hidden /\ r.depth = s.depth - 1
  BY DEF Below
<1>3. /\ \A x : x \in FilesOf(v, r) <=> x \in Path /\ x # Root /\ d \o x \in FilesOf(w, s)
      /\ \A x : x \in DirsOf(v, r) <=> x \in Path /\ x # Root /\ d \o x \in DirsOf(w, s)
  BY <1>1, <1>2, BelowFacts
<1>4. \A x \in Path : Len(d \o x) = 1 + Len(x) /\ Len(x) \in Nat
  <2> TAKE x \in Path
  <2>1. Len(d \o x) = Len(d) + Len(x) /\ Len(x) \in Nat
    BY <1>1, Joined
  <2> QED
    BY <1>1, <2>1
<1> HIDE DEF v
<1>5. \A x \in Path : /\ Len(x) <= r.depth <=> Len(d \o x) <= s.depth
                      /\ Len(x) = r.depth <=> Len(d \o x) = s.depth
  BY <1>2, <1>4
<1>6. \A x : x \in InDepth(v, r) <=> x \in Path /\ x # Root /\ d \o x \in InDepth(w, s)
  BY <1>3, <1>5 DEF InDepth
<1>7. \A x : x \in AtDepth(v, r) <=> x \in Path /\ x # Root /\ d \o x \in AtDepth(w, s)
  BY <1>3, <1>5 DEF AtDepth
<1> QED
  BY <1>1, <1>6, <1>7 DEF v

LEMMA HeadsLead ==
    ASSUME NEW w, DOMAIN w \subseteq Legal, NEW s, NEW p \in FilesOf(w, s) \cup DirsOf(w, s)
    PROVE  /\ p \in Path /\ Len(p) \in Nat /\ Len(p) >= 1
           /\ Len(p) > 1 => /\ <<p[1]>> \in RootDirs(w, s)
                            /\ SubSeq(p, 2, Len(p)) \in Path \ {Root}
                            /\ <<p[1]>> \o SubSeq(p, 2, Len(p)) = p
<1>1. p \in Path /\ p # Root
  BY FilesAre, DirsAre
<1>2. Len(p) \in Nat /\ Len(p) >= 1
  BY <1>1, LeafFacts
<1>3. ASSUME Len(p) > 1
      PROVE  /\ <<p[1]>> \in RootDirs(w, s)
             /\ SubSeq(p, 2, Len(p)) \in Path \ {Root}
             /\ <<p[1]>> \o SubSeq(p, 2, Len(p)) = p
  <2>1. /\ <<p[1]>> \in Path /\ <<p[1]>> # Root /\ Len(<<p[1]>>) = 1 /\ IsStrictPrefix(<<p[1]>>, p)
        /\ SubSeq(p, 2, Len(p)) \in Path \ {Root} /\ <<p[1]>> \o SubSeq(p, 2, Len(p)) = p
    BY <1>1, <1>3, HeadRest
  <2>2. <<p[1]>> \in Ancestors(p)
    BY <1>1, <2>1, AncestorsFacts
  <2>3. <<p[1]>> \in DirsOf(w, s)
    BY <2>2, DirsUp
  <2> QED
    BY <2>1, <2>3 DEF RootDirs
<1> QED
  BY <1>1, <1>2, <1>3

FilesIn(w, r, d) == {d \o p : p \in InDepth(WalkTree(w, d), r)}
StubsIn(w, r, d) == {d \o c : c \in AtDepth(WalkTree(w, d), r)}

LEMMA LevelDown ==
    ASSUME NEW w, DOMAIN w \subseteq Legal, NEW s, s.depth \in Nat, s.depth > 1, NEW r, Below(s, r)
    PROVE  /\ UNION {FilesIn(w, r, d) : d \in RootDirs(w, s)} = {p \in InDepth(w, s) : Len(p) > 1}
           /\ UNION {StubsIn(w, r, d) : d \in RootDirs(w, s)} = AtDepth(w, s)
<1> DEFINE I(d) == InDepth(WalkTree(w, d), r)
           A(d) == AtDepth(WalkTree(w, d), r)
           D == RootDirs(w, s)
<1>1. \A d \in D :
         /\ d \in Path /\ Len(d) = 1
         /\ \A x : x \in I(d) <=> x \in Path /\ x # Root /\ d \o x \in InDepth(w, s)
         /\ \A x : x \in A(d) <=> x \in Path /\ x # Root /\ d \o x \in AtDepth(w, s)
  BY DownFacts
<1>2. \A d \in D : \A x \in Path : x # Root => Len(d \o x) > 1
  <2> TAKE d \in D
  <2> TAKE x \in Path
  <2>1. Len(d \o x) = Len(d) + Len(x) /\ Len(x) \in Nat
    BY <1>1, Joined
  <2>2. x # Root => Len(x) >= 1
    BY LeafFacts
  <2> QED
    BY <1>1, <2>1, <2>2
<1>3. \A p \in InDepth(w, s) \cup AtDepth(w, s) : Len(p) > 1 =>
         /\ <<p[1]>> \in D
         /\ SubSeq(p, 2, Len(p)) \in Path \ {Root}
         /\ <<p[1]>> \o SubSeq(p, 2, Len(p)) = p
  BY HeadsLead DEF InDepth, AtDepth
<1>4. \A c \in AtDepth(w, s) : Len(c) > 1
  BY DEF AtDepth
<1> HIDE DEF I, A, D
<1>5. ASSUME NEW p PROVE p \in UNION {{d \o x : x \in I(d)} : d \in D} <=> p \in {q \in InDepth(w, s) : Len(q) > 1}
  <2>1. ASSUME p \in InDepth(w, s), Len(p) > 1 PROVE p \in UNION {{d \o x : x \in I(d)} : d \in D}
    <3> DEFINE d == <<p[1]>>
               x == SubSeq(p, 2, Len(p))
    <3>1. d \in D /\ x \in Path \ {Root} /\ d \o x = p
      BY <1>3, <2>1
    <3> HIDE DEF d, x
    <3>2. x \in I(d)
      BY <1>1, <2>1, <3>1
    <3> QED
      BY <3>1, <3>2
  <2>2. ASSUME NEW d \in D, NEW x \in I(d), p = d \o x PROVE p \in InDepth(w, s) /\ Len(p) > 1
    BY <1>1, <1>2, <2>2
  <2> QED
    BY <2>1, <2>2
<1>6. ASSUME NEW p PROVE p \in UNION {{d \o x : x \in A(d)} : d \in D} <=> p \in AtDepth(w, s)
  <2>1. ASSUME p \in AtDepth(w, s) PROVE p \in UNION {{d \o x : x \in A(d)} : d \in D}
    <3> DEFINE d == <<p[1]>>
               x == SubSeq(p, 2, Len(p))
    <3>1. d \in D /\ x \in Path \ {Root} /\ d \o x = p
      BY <1>3, <1>4, <2>1
    <3> HIDE DEF d, x
    <3>2. x \in A(d)
      BY <1>1, <2>1, <3>1
    <3> QED
      BY <3>1, <3>2
  <2>2. ASSUME NEW d \in D, NEW x \in A(d), p = d \o x PROVE p \in AtDepth(w, s)
    BY <1>1, <2>2
  <2> QED
    BY <2>1, <2>2
<1>7. \A d : FilesIn(w, r, d) = {d \o x : x \in I(d)} /\ StubsIn(w, r, d) = {d \o x : x \in A(d)}
  BY DEF FilesIn, StubsIn, I, A
<1>8. UNION {FilesIn(w, r, d) : d \in D} = {q \in InDepth(w, s) : Len(q) > 1}
  BY <1>5, <1>7
<1>9. UNION {StubsIn(w, r, d) : d \in D} = AtDepth(w, s)
  BY <1>6, <1>7
<1> QED
  BY <1>8, <1>9 DEF D

LEMMA LeadingAre ==
    ASSUME NEW w, DOMAIN w \subseteq Legal, NEW s, NEW c
    PROVE  c \in Leading(w, s) <=>
              /\ c \in Path /\ c # Root
              /\ \/ \E p \in InDepth(w, s) : IsStrictPrefix(c, p)
                 \/ \E a \in AtDepth(w, s) : IsPrefix(c, a)
<1>1. c \in Leading(w, s) <=> \/ \E p \in InDepth(w, s) : c \in Ancestors(p)
                              \/ \E a \in AtDepth(w, s) : c \in Ancestors(a) \/ c = a
  BY DEF Leading
<1>2. \A p \in InDepth(w, s) : p \in Path
  BY FilesAre DEF InDepth
<1>3. \A a \in AtDepth(w, s) : a \in Path /\ a # Root
  BY DirsAre DEF AtDepth
<1>4. \A p \in InDepth(w, s) : c \in Ancestors(p) <=> c \in Path /\ c # Root /\ IsStrictPrefix(c, p)
  BY <1>2, AncestorsFacts
<1>5. \A a \in AtDepth(w, s) : c \in Ancestors(a) \/ c = a <=> c \in Path /\ c # Root /\ IsPrefix(c, a)
  <2> TAKE a \in AtDepth(w, s)
  <2>1. c \in Ancestors(a) <=> c \in Path /\ c # Root /\ IsPrefix(c, a) /\ c # a
    BY <1>3, AncestorsFacts DEF IsStrictPrefix
  <2>2. IsPrefix(a, a)
    BY <1>3, PrefixFacts
  <2> QED
    BY <1>3, <2>1, <2>2
<1> QED
  BY <1>1, <1>4, <1>5

LEMMA LeadDown ==
    ASSUME NEW w, DOMAIN w \subseteq Legal, NEW s, s.depth \in Nat, NEW r, Below(s, r),
           NEW d \in RootDirs(w, s), NEW x
    PROVE  x \in Leading(WalkTree(w, d), r) <=> x \in Path /\ x # Root /\ d \o x \in Leading(w, s)
<1> DEFINE v == WalkTree(w, d)
<1>1. /\ d \in Path /\ d # Root /\ Len(d) = 1
      /\ \A y : y \in InDepth(v, r) <=> y \in Path /\ y # Root /\ d \o y \in InDepth(w, s)
      /\ \A y : y \in AtDepth(v, r) <=> y \in Path /\ y # Root /\ d \o y \in AtDepth(w, s)
  BY DownFacts
<1>2. DOMAIN v \subseteq Legal
  BY <1>1, WalkLegal
<1>3. \A p \in InDepth(w, s) \cup AtDepth(w, s) : p \in Path
  BY FilesAre, DirsAre DEF InDepth, AtDepth
<1> HIDE DEF v
<1>4. ASSUME x \in Leading(v, r) PROVE x \in Path /\ x # Root /\ d \o x \in Leading(w, s)
  <2>1. x \in Path /\ x # Root
    BY <1>2, <1>4, LeadingAre
  <2>2. d \o x \in Path /\ d \o x # Root
    BY <1>1, <2>1, Joined
  <2>3. ASSUME NEW p \in InDepth(v, r), IsStrictPrefix(x, p) PROVE d \o x \in Leading(w, s)
    <3>1. p \in Path /\ d \o p \in InDepth(w, s)
      BY <1>1
    <3>2. IsStrictPrefix(d \o x, d \o p)
      BY <1>1, <2>1, <2>3, <3>1, JoinedPrefix
    <3> QED
      BY <2>2, <3>1, <3>2, LeadingAre
  <2>4. ASSUME NEW a \in AtDepth(v, r), IsPrefix(x, a) PROVE d \o x \in Leading(w, s)
    <3>1. a \in Path /\ d \o a \in AtDepth(w, s)
      BY <1>1
    <3>2. IsPrefix(d \o x, d \o a)
      BY <1>1, <2>1, <2>4, <3>1, JoinedPrefix
    <3> QED
      BY <2>2, <3>1, <3>2, LeadingAre
  <2> QED
    BY <1>2, <1>4, <2>1, <2>3, <2>4, LeadingAre
<1>5. ASSUME x \in Path, x # Root, NEW p \in Path, IsPrefix(d \o x, p)
      PROVE  LET y == SubSeq(p, Len(d) + 1, Len(p))
             IN y \in Path /\ y # Root /\ d \o y = p /\ IsPrefix(x, y) /\ (d \o x # p => x # y)
  <2> DEFINE y == SubSeq(p, Len(d) + 1, Len(p))
  <2>1. d \o x \in Path /\ IsPrefix(d, d \o x) /\ d # d \o x
    BY <1>1, <1>5, Joined DEF IsStrictPrefix
  <2>2. IsPrefix(d, p)
    BY <1>1, <1>5, <2>1, PrefixFacts
  <2>3. d # p
    BY <1>1, <1>5, <2>1, PrefixFacts
  <2>4. y \in Path /\ y # Root /\ d \o y = p
    BY <1>1, <2>2, <2>3, Split
  <2> HIDE DEF y
  <2>5. IsPrefix(x, y) /\ (d \o x # p => x # y)
    BY <1>1, <1>5, <2>4, JoinedPrefix
  <2> QED
    BY <2>4, <2>5 DEF y
<1>6. ASSUME x \in Path, x # Root, d \o x \in Leading(w, s) PROVE x \in Leading(v, r)
  <2>1. ASSUME NEW p \in InDepth(w, s), IsStrictPrefix(d \o x, p) PROVE x \in Leading(v, r)
    <3> DEFINE y == SubSeq(p, Len(d) + 1, Len(p))
    <3>1. y \in Path /\ y # Root /\ d \o y = p /\ IsPrefix(x, y) /\ x # y
      BY <1>3, <1>5, <1>6, <2>1 DEF IsStrictPrefix
    <3> HIDE DEF y
    <3>2. y \in InDepth(v, r) /\ IsStrictPrefix(x, y)
      BY <1>1, <3>1 DEF IsStrictPrefix
    <3> QED
      BY <1>2, <1>6, <3>2, LeadingAre
  <2>2. ASSUME NEW a \in AtDepth(w, s), IsPrefix(d \o x, a) PROVE x \in Leading(v, r)
    <3> DEFINE y == SubSeq(a, Len(d) + 1, Len(a))
    <3>1. y \in Path /\ y # Root /\ d \o y = a /\ IsPrefix(x, y)
      BY <1>3, <1>5, <1>6, <2>2
    <3> HIDE DEF y
    <3>2. y \in AtDepth(v, r)
      BY <1>1, <3>1
    <3> QED
      BY <1>2, <1>6, <3>1, <3>2, LeadingAre
  <2> QED
    BY <1>6, <2>1, <2>2, LeadingAre
<1> QED
  BY <1>4, <1>6 DEF v

(* The entries at the root of a tree, and the paths that name them. *)
RootEntries(w) == EntriesOf(w, Root)
RootPaths(w) == {<<e.name>> : e \in RootEntries(w)}

LEMMA RootEntriesAre ==
    ASSUME NEW w, TreeOK(w)
    PROVE  /\ RootEntries(w) \subseteq Entry /\ IsFiniteSet(RootEntries(w))
           /\ \A e, f \in RootEntries(w) : e.name = f.name => e = f
           /\ \A e : e \in RootEntries(w) <=>
                 \E n \in Name : Exists(w, <<n>>) /\ e = [name |-> n, folder |-> IsFolder(w, <<n>>)]
           /\ \A p : p \in RootPaths(w) <=> \E n \in Name : p = <<n>> /\ Exists(w, <<n>>)
<1>1. Root \in Seq(Name)
  BY DEF Root
<1>2. \A n : Child(Root, n) = <<n>>
  BY DEF Child, Root
<1>3. \A n : EntryFor(w, Root, n) = [name |-> n, folder |-> IsFolder(w, <<n>>)]
  BY <1>2 DEF EntryFor
<1>4. /\ RootEntries(w) \subseteq Entry /\ IsFiniteSet(RootEntries(w))
      /\ \A e, f \in RootEntries(w) : e.name = f.name => e = f
  BY <1>1, EntriesFacts DEF RootEntries
<1>5. \A e : e \in RootEntries(w) <=>
         \E n \in Name : Exists(w, Child(Root, n)) /\ e = EntryFor(w, Root, n)
  BY <1>1, EntriesFacts DEF RootEntries
<1>6. \A e : e \in RootEntries(w) <=>
         \E n \in Name : Exists(w, <<n>>) /\ e = [name |-> n, folder |-> IsFolder(w, <<n>>)]
  BY <1>2, <1>3, <1>5
<1>8. \A p : p \in RootPaths(w) <=> \E n \in Name : p = <<n>> /\ Exists(w, <<n>>)
  <2> TAKE p
  <2>1. ASSUME NEW e \in RootEntries(w), p = <<e.name>>
        PROVE  \E n \in Name : p = <<n>> /\ Exists(w, <<n>>)
    <3>1. PICK n \in Name : Exists(w, <<n>>) /\ e = [name |-> n, folder |-> IsFolder(w, <<n>>)]
      BY <1>6
    <3>2. e.name = n
      BY <3>1
    <3> QED
      BY <2>1, <3>1, <3>2
  <2>2. ASSUME NEW n \in Name, p = <<n>>, Exists(w, <<n>>) PROVE p \in RootPaths(w)
    <3> DEFINE e == [name |-> n, folder |-> IsFolder(w, <<n>>)]
    <3>1. e \in RootEntries(w) /\ e.name = n
      BY <1>6, <2>2
    <3> HIDE DEF e
    <3> QED
      BY <2>2, <3>1 DEF RootPaths
  <2> QED
    BY <2>1, <2>2 DEF RootPaths
<1> QED
  BY <1>4, <1>6, <1>8

LEMMA NameAlone ==
    ASSUME NEW n \in Name
    PROVE  /\ <<n>> \in Seq(Name) /\ <<n>> \in Path /\ <<n>> # Root
           /\ Len(<<n>>) = 1 /\ ~IsIndex(<<n>>)
<1>1. <<n>> \in Seq(Name) /\ Len(<<n>>) = 1 /\ <<n>> # Root /\ n \in Nat
  BY NameFacts DEF Root
<1>2. <<n>> \in Path /\ ~IsIndex(<<n>>)
  BY <1>1, LegalFacts
<1> QED
  BY <1>1, <1>2

LEMMA RootPathsAre ==
    ASSUME NEW w, TreeOK(w), NEW p \in RootPaths(w)
    PROVE  /\ p \in Seq(Name) /\ p \in Path /\ p # Root /\ Len(p) = 1 /\ ~IsIndex(p)
           /\ Exists(w, p)
<1>1. \A q : q \in RootPaths(w) <=> \E n \in Name : q = <<n>> /\ Exists(w, <<n>>)
  BY RootEntriesAre
<1>2. PICK n \in Name : p = <<n>> /\ Exists(w, <<n>>)
  BY <1>1
<1> QED
  BY <1>2, NameAlone

(* What a listing shows at its root. *)
LEMMA AtRoot ==
    ASSUME NEW w, TreeOK(w), NEW s
    PROVE  /\ \A p : p \in RootDirs(w, s) <=> p \in RootPaths(w) /\ InSight(p, s) /\ IsFolder(w, p)
           /\ \A p : p \in FilesOf(w, s) /\ Len(p) = 1
                     <=> p \in RootPaths(w) /\ InSight(p, s) /\ IsFile(w, p)
<1>1. DOMAIN w \subseteq Legal
  BY DEF TreeOK
<1>2. \A p \in Seq(Name) : p # Root /\ Len(p) = 1 => p[1] \in Name /\ p = <<p[1]>>
  <2> SUFFICES ASSUME NEW p \in Seq(Name), p # Root, Len(p) = 1
               PROVE  p[1] \in Name /\ p = <<p[1]>>
    OBVIOUS
  <2>1. p \in Path
    BY LegalFacts
  <2> QED
    BY <2>1, RootDirFacts
<1>3. \A p \in Seq(Name) : p # Root /\ Len(p) = 1 /\ Exists(w, p) => p \in RootPaths(w)
  <2>1. \A q : q \in RootPaths(w) <=> \E n \in Name : q = <<n>> /\ Exists(w, <<n>>)
    BY RootEntriesAre
  <2> QED
    BY <1>2, <2>1
<1>4. \A p \in RootPaths(w) : p \in Path /\ p # Root /\ Len(p) = 1 /\ ~IsIndex(p)
  BY RootPathsAre
<1>5. ASSUME NEW p
      PROVE  p \in RootDirs(w, s) <=> p \in RootPaths(w) /\ InSight(p, s) /\ IsFolder(w, p)
  <2>1. ASSUME p \in RootDirs(w, s) PROVE p \in RootPaths(w) /\ InSight(p, s) /\ IsFolder(w, p)
    <3>1. p \in DirsOf(w, s) /\ Len(p) = 1
      BY <2>1 DEF RootDirs
    <3>2. p \in Seq(Name) /\ p # Root /\ IsFolder(w, p) /\ InSight(p, s)
      BY <1>1, <3>1, DirsAre
    <3> QED
      BY <1>3, <3>1, <3>2 DEF Exists
  <2>2. ASSUME p \in RootPaths(w), InSight(p, s), IsFolder(w, p) PROVE p \in RootDirs(w, s)
    BY <1>1, <1>4, <2>2, DirsAre DEF RootDirs
  <2> QED
    BY <2>1, <2>2
<1>6. ASSUME NEW p
      PROVE  p \in FilesOf(w, s) /\ Len(p) = 1
             <=> p \in RootPaths(w) /\ InSight(p, s) /\ IsFile(w, p)
  <2>1. ASSUME p \in FilesOf(w, s), Len(p) = 1
        PROVE  p \in RootPaths(w) /\ InSight(p, s) /\ IsFile(w, p)
    <3>1. p \in Seq(Name) /\ p # Root /\ p \in DOMAIN w /\ InSight(p, s)
      BY <1>1, <2>1, FilesAre
    <3> QED
      BY <1>3, <2>1, <3>1 DEF Exists, IsFile
  <2>2. ASSUME p \in RootPaths(w), InSight(p, s), IsFile(w, p) PROVE p \in FilesOf(w, s) /\ Len(p) = 1
    BY <1>4, <2>2 DEF FilesOf, IsFile
  <2> QED
    BY <2>1, <2>2
<1> QED
  BY <1>5, <1>6

(* A selection of every entry at the root finds the same. *)
LEMMA SelectionFinds ==
    ASSUME TreesOK, NEW s \in Scope
    PROVE  Finish(Selection(s, RootPaths(WalkTree(Tip, s.prefix)))) = Whole(WalkTree(Tip, s.prefix), s)
<1> DEFINE w == WalkTree(Tip, s.prefix)
           wanted == RootPaths(w)
           r == [s EXCEPT !.depth = @ - 1]
           named == {p \in wanted : Len(p) <= s.depth /\ InSight(p, s)}
           dirs == {d \in named : IsFolder(w, d)}
           opened == {d \in dirs : Len(d) < s.depth}
           below(d) == CollectFlat(WalkTree(w, d), [s EXCEPT !.depth = @ - Len(d)])
           rootFiles == {p \in named : IsFile(w, p) /\ ~IsIndex(p)}
           flat == rootFiles \cup UNION {{d \o p : p \in below(d).flat} : d \in opened}
           stubs == opened \cup UNION {{d \o c : c \in below(d).stubs} : d \in opened}
           found == Selection(s, wanted)
<1>1. found.flat = flat /\ found.dirStubs = stubs /\ found.depthStubs = dirs \ opened
  BY DEF Selection, Found
<1>2. TreeOK(w) /\ DOMAIN w \subseteq Legal
  <2>1. s.prefix \in Path
    BY FoldersFacts DEF Scope
  <2>2. TreeOK(w)
    BY <2>1, TipFacts, SubtreeOK
  <2> QED
    BY <2>2 DEF TreeOK
<1>3. s.depth \in Depths /\ s.depth \in Nat /\ s.depth >= 1
  BY AnyDepthFacts DEF Scope
<1>4. r.hidden = s.hidden /\ r.depth = s.depth - 1
  BY DEF Scope
<1> HIDE DEF w, found, r
<1>5. \A p \in wanted : Len(p) = 1 /\ ~IsIndex(p)
  BY <1>2, RootPathsAre
<1>6. \A p : p \in named <=> p \in wanted /\ InSight(p, s)
  BY <1>3, <1>5
<1> HIDE DEF wanted
<1>7. dirs = RootDirs(w, s)
  BY <1>2, <1>6, AtRoot DEF wanted
<1>8. rootFiles = {p \in FilesOf(w, s) : Len(p) = 1}
  <2>1. \A p : p \in rootFiles <=> p \in wanted /\ InSight(p, s) /\ IsFile(w, p)
    BY <1>5, <1>6
  <2>2. \A p : p \in FilesOf(w, s) /\ Len(p) = 1 <=> p \in wanted /\ InSight(p, s) /\ IsFile(w, p)
    BY <1>2, AtRoot DEF wanted
  <2> HIDE DEF rootFiles
  <2> QED
    BY <2>1, <2>2
<1> HIDE DEF named, rootFiles
<1>9. \A d \in dirs : Len(d) = 1
  BY <1>7 DEF RootDirs
<1>10. \A d \in opened : below(d).flat = InDepth(WalkTree(w, d), r) /\ below(d).stubs = AtDepth(WalkTree(w, d), r)
  <2> TAKE d \in opened
  <2>1. Len(d) = 1
    BY <1>9
  <2>2. below(d) = CollectFlat(WalkTree(w, d), r)
    BY <2>1 DEF r
  <2> QED
    BY <2>2 DEF CollectFlat, InDepth, AtDepth
<1>11. \A p \in InDepth(w, s) : Len(p) \in Nat /\ Len(p) >= 1 /\ p \in FilesOf(w, s) /\ Len(p) <= s.depth
  BY <1>2, HeadsLead DEF InDepth
<1> HIDE DEF below, dirs
<1>12. CASE s.depth = 1
  <2>1. opened = {}
    BY <1>9, <1>12
  <2>2. flat = rootFiles /\ stubs = {}
    BY <2>1
  <2>3. rootFiles = InDepth(w, s)
    <3>1. \A p \in InDepth(w, s) : Len(p) = 1
      <4> TAKE p \in InDepth(w, s)
      <4>1. Len(p) \in Nat /\ Len(p) >= 1 /\ Len(p) <= 1
        BY <1>11, <1>12
      <4>2. \A n \in Nat : n >= 1 /\ n <= 1 => n = 1
        OBVIOUS
      <4> QED
        BY <4>1, <4>2
    <3>2. \A p : p \in FilesOf(w, s) /\ Len(p) = 1 => Len(p) <= s.depth
      BY <1>12
    <3> QED
      BY <1>8, <3>1, <3>2 DEF InDepth
  <2>4. AtDepth(w, s) = RootDirs(w, s)
    BY <1>12 DEF AtDepth, RootDirs
  <2> HIDE DEF opened, flat, stubs
  <2>5. found.flat = InDepth(w, s) /\ found.dirStubs \cup found.depthStubs = RootDirs(w, s) \cup AtDepth(w, s)
    BY <1>1, <1>7, <2>1, <2>2, <2>3, <2>4
  <2> QED
    BY <1>2, <1>3, <2>5, FinishIs DEF Whole, w, found, wanted
<1>13. CASE s.depth > 1
  <2>1. opened = RootDirs(w, s)
    BY <1>7, <1>9, <1>13
  <2>2. /\ UNION {FilesIn(w, r, d) : d \in RootDirs(w, s)} = {p \in InDepth(w, s) : Len(p) > 1}
        /\ UNION {StubsIn(w, r, d) : d \in RootDirs(w, s)} = AtDepth(w, s)
    <3>1. Below(s, r)
      BY <1>4 DEF Below
    <3> QED
      BY <1>2, <1>3, <1>13, <3>1, LevelDown
  <2> HIDE DEF opened
  <2>3. flat = rootFiles \cup {p \in InDepth(w, s) : Len(p) > 1}
    <3> DEFINE X(d) == {d \o p : p \in below(d).flat}
    <3>1. \A d \in opened : X(d) = FilesIn(w, r, d)
      BY <1>10 DEF FilesIn
    <3> HIDE DEF X
    <3>2. {X(d) : d \in opened} = {FilesIn(w, r, d) : d \in opened}
      BY <3>1
    <3> USE DEF X
    <3> QED
      BY <2>1, <2>2, <3>2
  <2>4. stubs = RootDirs(w, s) \cup AtDepth(w, s)
    <3> DEFINE X(d) == {d \o p : p \in below(d).stubs}
    <3>1. \A d \in opened : X(d) = StubsIn(w, r, d)
      BY <1>10 DEF StubsIn
    <3> HIDE DEF X
    <3>2. {X(d) : d \in opened} = {StubsIn(w, r, d) : d \in opened}
      BY <3>1
    <3> USE DEF X
    <3> QED
      BY <2>1, <2>2, <3>2
  <2> HIDE DEF flat, stubs
  <2>5. rootFiles \cup {p \in InDepth(w, s) : Len(p) > 1} = InDepth(w, s)
    <3>1. \A p \in FilesOf(w, s) : Len(p) = 1 => Len(p) <= s.depth
      BY <1>3
    <3>2. \A p \in rootFiles : p \in InDepth(w, s)
      BY <1>8, <3>1 DEF InDepth
    <3>3. \A p \in InDepth(w, s) : Len(p) > 1 \/ p \in rootFiles
      <4> TAKE p \in InDepth(w, s)
      <4>1. Len(p) \in Nat /\ Len(p) >= 1 /\ p \in FilesOf(w, s)
        BY <1>11
      <4>2. \A n \in Nat : n >= 1 => n > 1 \/ n = 1
        OBVIOUS
      <4>3. Len(p) > 1 \/ Len(p) = 1
        BY <4>1, <4>2
      <4> QED
        BY <1>8, <4>1, <4>3
    <3> QED
      BY <3>2, <3>3
  <2>6. found.flat = InDepth(w, s) /\ found.dirStubs \cup found.depthStubs = RootDirs(w, s) \cup AtDepth(w, s)
    BY <1>1, <1>7, <2>1, <2>3, <2>4, <2>5
  <2> QED
    BY <1>2, <1>3, <2>6, FinishIs DEF Whole, w, found, wanted
<1> QED
  BY <1>3, <1>12, <1>13

LEMMA LeadingUp ==
    ASSUME NEW w, DOMAIN w \subseteq Legal, NEW s, s.depth \in Nat, NEW c \in Leading(w, s)
    PROVE  c \in DirsOf(w, s) /\ c \in Path /\ c # Root /\ Len(c) \in Nat /\ Len(c) <= s.depth
<1>1. c \in Path /\ c # Root /\ Len(c) \in Nat
  BY LeadingAre DEF Path
<1>2. ASSUME NEW p \in InDepth(w, s), IsStrictPrefix(c, p)
      PROVE  c \in DirsOf(w, s) /\ Len(c) <= s.depth
  <2>1. p \in FilesOf(w, s) /\ p \in Path /\ Len(p) <= s.depth /\ Len(p) \in Nat
    BY FilesAre DEF InDepth, Path
  <2>2. c \in Ancestors(p)
    BY <1>1, <1>2, <2>1, AncestorsFacts
  <2>3. c \in DirsOf(w, s)
    BY <2>1, <2>2, DirsUp
  <2>4. Len(c) <= Len(p)
    BY <1>1, <1>2, <2>1, PrefixFacts DEF IsStrictPrefix
  <2> QED
    BY <1>1, <2>1, <2>3, <2>4
<1>3. ASSUME NEW a \in AtDepth(w, s), IsPrefix(c, a)
      PROVE  c \in DirsOf(w, s) /\ Len(c) <= s.depth
  <2>1. a \in DirsOf(w, s) /\ a \in Path /\ Len(a) = s.depth
    BY DirsAre DEF AtDepth
  <2>2. c = a \/ c \in Ancestors(a)
    BY <1>1, <1>3, <2>1, AncestorsFacts DEF IsStrictPrefix
  <2>3. c \in DirsOf(w, s)
    BY <2>1, <2>2, DirsUp
  <2>4. Len(c) <= Len(a)
    BY <1>1, <1>3, <2>1, PrefixFacts
  <2> QED
    BY <2>1, <2>3, <2>4
<1> QED
  BY <1>1, <1>2, <1>3, LeadingAre

LEMMA BuildIs ==
    ASSUME NEW w, DOMAIN w \subseteq Legal, NEW s, s.depth \in Nat
    PROVE  BuildTree(InDepth(w, s), AtDepth(w, s), s.depth) = Tree(InDepth(w, s), Leading(w, s))
<1> DEFINE F == InDepth(w, s)
           A == UNION {Ancestors(p) : p \in InDepth(w, s)}
           C == UNION {Ancestors(d) \cup {d} : d \in AtDepth(w, s)}
<1>1. Leading(w, s) = A \cup C
  BY Zenon DEF Leading
<1>2. \A c \in A : Len(c) <= s.depth
  BY <1>1, LeadingUp
<1>3. \A p \in F : Len(p) <= s.depth
  BY DEF InDepth
<1>4. BuildTree(F, AtDepth(w, s), s.depth)
      = Tree({p \in F : Len(p) <= s.depth}, {c \in A : Len(c) <= s.depth} \cup C)
  BY DEF BuildTree
<1> HIDE DEF F, A, C
<1>5. {p \in F : Len(p) <= s.depth} = F /\ {c \in A : Len(c) <= s.depth} = A
  BY <1>2, <1>3
<1> QED
  BY <1>1, <1>4, <1>5 DEF F

(* What the plain listing shows inside a directory of its page. *)
InsideOf(w, s, d) ==
    LET below == [s EXCEPT !.depth = @ - 1]
        found == CollectFlat(WalkTree(w, d), below)
    IN IF s.depth = 1 THEN NoTree
       ELSE Rooted(d, BuildTree(found.flat, found.stubs, below.depth))

LEMMA InsideIs ==
    ASSUME NEW w, TreeOK(w), NEW s \in Scope, NEW d \in RootDirs(w, s)
    PROVE  /\ \A p : p \in InsideOf(w, s, d).files
                     <=> p \in InDepth(w, s) /\ Len(p) > 1 /\ p[1] = d[1]
           /\ \A c : c \in InsideOf(w, s, d).dirs
                     <=> c \in Leading(w, s) /\ Len(c) > 1 /\ c[1] = d[1]
<1> DEFINE r == [s EXCEPT !.depth = @ - 1]
           v == WalkTree(w, d)
           t == InsideOf(w, s, d)
<1>1. DOMAIN w \subseteq Legal /\ s.depth \in Nat /\ s.depth >= 1
  BY AnyDepthFacts DEF TreeOK, Scope
<1>2. r.hidden = s.hidden /\ r.depth = s.depth - 1
  BY DEF Scope
<1>3. /\ d \in Path /\ d # Root /\ Len(d) = 1 /\ d = <<d[1]>>
      /\ \A x : x \in InDepth(v, r) <=> x \in Path /\ x # Root /\ d \o x \in InDepth(w, s)
      /\ \A x : x \in Leading(v, r) <=> x \in Path /\ x # Root /\ d \o x \in Leading(w, s)
  <2>1. Below(s, r)
    BY <1>2 DEF Below
  <2>2. /\ d \in Path /\ d # Root /\ Len(d) = 1
        /\ \A x : x \in InDepth(v, r) <=> x \in Path /\ x # Root /\ d \o x \in InDepth(w, s)
    BY <1>1, <2>1, DownFacts
  <2>3. \A x : x \in Leading(v, r) <=> x \in Path /\ x # Root /\ d \o x \in Leading(w, s)
    BY <1>1, <2>1, LeadDown
  <2>4. d = <<d[1]>>
    BY <2>2, RootDirFacts
  <2> QED
    BY <2>2, <2>3, <2>4
<1>4. \A p \in InDepth(w, s) : p \in Path /\ Len(p) \in Nat /\ Len(p) <= s.depth
  BY <1>1, FilesAre DEF InDepth, Path
<1>5. \A c \in Leading(w, s) : c \in Path /\ Len(c) \in Nat /\ Len(c) <= s.depth
  BY <1>1, LeadingUp
<1>6. ASSUME NEW x \in Path, x # Root PROVE Len(d \o x) > 1 /\ (d \o x)[1] = d[1]
  <2>1. Len(d \o x) = 1 + Len(x) /\ Len(x) \in Nat /\ \A i \in 1..Len(d) : (d \o x)[i] = d[i]
    BY <1>3, Joined
  <2>2. Len(x) >= 1
    BY <1>6, LeafFacts
  <2>3. 1 \in 1..Len(d)
    BY <1>3
  <2> QED
    BY <2>1, <2>2, <2>3
<1>7. ASSUME NEW p \in Path, Len(p) > 1, p[1] = d[1]
      PROVE  LET x == SubSeq(p, 2, Len(p)) IN x \in Path /\ x # Root /\ d \o x = p
  BY <1>3, <1>7, HeadRest
<1>8. CASE s.depth = 1
  <2>1. t.files = {} /\ t.dirs = {}
    BY <1>8 DEF InsideOf, NoTree, Tree
  <2>2. \A p \in InDepth(w, s) \cup Leading(w, s) : ~(Len(p) > 1)
    BY <1>4, <1>5, <1>8
  <2> HIDE DEF t
  <2> QED
    BY <2>1, <2>2 DEF t
<1>9. CASE s.depth > 1
  <2>1. DOMAIN v \subseteq Legal
    BY <1>1, <1>3, WalkLegal
  <2>2. r.depth \in Nat
    BY <1>1, <1>2, <1>9
  <2>3. t = Rooted(d, BuildTree(InDepth(v, r), AtDepth(v, r), r.depth))
    BY <1>9 DEF InsideOf, CollectFlat, InDepth, AtDepth
  <2> HIDE DEF t, r, v
  <2>4. t = Rooted(d, Tree(InDepth(v, r), Leading(v, r)))
    BY <2>1, <2>2, <2>3, BuildIs
  <2>5. t.files = {d \o x : x \in InDepth(v, r)} /\ t.dirs = {d \o x : x \in Leading(v, r)}
    BY <2>4 DEF Rooted, Tree
  <2>6. ASSUME NEW p PROVE p \in t.files <=> p \in InDepth(w, s) /\ Len(p) > 1 /\ p[1] = d[1]
    <3>1. ASSUME NEW x \in InDepth(v, r), p = d \o x
          PROVE  p \in InDepth(w, s) /\ Len(p) > 1 /\ p[1] = d[1]
      BY <1>3, <1>6, <3>1
    <3>2. ASSUME p \in InDepth(w, s), Len(p) > 1, p[1] = d[1]
          PROVE  \E x \in InDepth(v, r) : p = d \o x
      <4> DEFINE x == SubSeq(p, 2, Len(p))
      <4>1. x \in Path /\ x # Root /\ d \o x = p
        BY <1>4, <1>7, <3>2
      <4> HIDE DEF x
      <4>2. x \in InDepth(v, r)
        BY <1>3, <3>2, <4>1
      <4> QED
        BY <4>1, <4>2
    <3> QED
      BY <2>5, <3>1, <3>2
  <2>7. ASSUME NEW p PROVE p \in t.dirs <=> p \in Leading(w, s) /\ Len(p) > 1 /\ p[1] = d[1]
    <3>1. ASSUME NEW x \in Leading(v, r), p = d \o x
          PROVE  p \in Leading(w, s) /\ Len(p) > 1 /\ p[1] = d[1]
      BY <1>3, <1>6, <3>1
    <3>2. ASSUME p \in Leading(w, s), Len(p) > 1, p[1] = d[1]
          PROVE  \E x \in Leading(v, r) : p = d \o x
      <4> DEFINE x == SubSeq(p, 2, Len(p))
      <4>1. x \in Path /\ x # Root /\ d \o x = p
        BY <1>5, <1>7, <3>2
      <4> HIDE DEF x
      <4>2. x \in Leading(v, r)
        BY <1>3, <3>2, <4>1
      <4> QED
        BY <4>1, <4>2
    <3> QED
      BY <2>5, <3>1, <3>2
  <2> QED
    BY <2>6, <2>7 DEF t
<1> QED
  BY <1>1, <1>8, <1>9

LEMMA PageFacts ==
    ASSUME NEW es, Listed(es), NEW page \in Nat \ {0}, NEW per \in Nat
    PROVE  Listed(Page(es, page, per)) /\ Range(Page(es, page, per)) \subseteq Range(es)
<1> DEFINE q == page * per
           a == (page - 1) * per + 1
           b == Min({q, Len(es)})
           S == Range(es)
<1>1. Len(es) \in Nat /\ DOMAIN es = 1..Len(es) /\ \A i \in 1..Len(es) : es[i] \in S
  BY ListedFacts DEF Range
<1>2. q \in Nat /\ (page - 1) * per \in Nat
  OBVIOUS
<1> HIDE DEF q
<1>3. b \in Nat /\ b <= Len(es)
  BY <1>1, <1>2, MinFacts
<1>4. a \in Nat /\ a >= 1
  BY <1>2
<1>5. Page(es, page, per) = SubSeq(es, a, b)
  BY DEF Page, q
<1> HIDE DEF a, b, S
<1>6. \A i \in a..b : es[i] \in S
  BY <1>1, <1>3, <1>4
<1>7. SubSeq(es, a, b) \in Seq(S)
  BY <1>3, <1>4, <1>6, SubSeqProperties
<1>8. Listed(SubSeq(es, a, b)) /\ Range(SubSeq(es, a, b)) \subseteq S
  <2> DEFINE y == SubSeq(es, a, b)
  <2> HIDE DEF y
  <2>1. y \in Seq(S)
    BY <1>7 DEF y
  <2>2. Listed(y)
    BY <2>1, ListedIn
  <2>3. Range(y) \subseteq S
    BY <2>1 DEF Range
  <2> QED
    BY <2>2, <2>3 DEF y
<1> QED
  BY <1>5, <1>8 DEF S

LEMMA WidePage ==
    ASSUME NEW es, Listed(es), NEW per \in Nat, Len(es) <= per
    PROVE  Page(es, 1, per) = es
<1>1. Len(es) \in Nat /\ es \in Seq(Range(es))
  BY ListedFacts DEF Listed
<1>2. Min({per, Len(es)}) = Len(es)
  <2> DEFINE both == {per, Len(es)}
  <2>1. both \subseteq Nat /\ Len(es) \in both /\ \A x \in both : Len(es) <= x
    BY <1>1
  <2> HIDE DEF both
  <2>2. Min(both) = Len(es)
    BY <2>1, MinIs
  <2> QED
    BY <2>2 DEF both
<1>3. (1 - 1) * per + 1 = 1 /\ 1 * per = per
  OBVIOUS
<1>4. Page(es, 1, per) = SubSeq(es, 1, Len(es))
  BY <1>2, <1>3 DEF Page
<1>5. SubSeq(es, 1, Len(es)) = es
  BY <1>1
<1> QED
  BY <1>4, <1>5

(* The entries at the root of a listing. *)
RootSeen(w, s) == {e \in RootEntries(w) : InSight(<<e.name>>, s)}
RootShown(w, s) == Ranked(w, RootSeen(w, s), s)

LEMMA RankedFacts ==
    ASSUME NEW w, TreeOK(w), WellTyped(w), NEW s \in Scope
    PROVE  /\ Listed(RootShown(w, s)) /\ Range(RootShown(w, s)) = RootSeen(w, s)
           /\ Len(RootShown(w, s)) = Cardinality(RootSeen(w, s))
<1> DEFINE es == IF s.ordered THEN StoredOrder(w, Root) ELSE <<>>
           E == RootSeen(w, s)
<1>1. Root \in Seq(Name)
  BY DEF Root
<1>2. Listed(StoredOrder(w, Root))
  BY <1>1, StoredTyped
<1>3. Listed(<<>>)
  BY DEF Listed
<1>4. Listed(es)
  BY <1>2, <1>3
<1>5. s.implicit \in Nat
  BY ContentConstants DEF Scope
<1>6. E \subseteq RootEntries(w)
  BY DEF RootSeen
<1>7. /\ RootEntries(w) \subseteq Entry /\ IsFiniteSet(RootEntries(w))
      /\ \A e, f \in RootEntries(w) : e.name = f.name => e = f
  BY RootEntriesAre
<1>8. RootShown(w, s) = Sorting(E, es, s.implicit)
  BY DEF RootShown, Ranked, Sorted, Sorting
<1> HIDE DEF es, E
<1>9. E \subseteq Entry /\ IsFiniteSet(E) /\ \A e, f \in E : e.name = f.name => e = f
  BY <1>6, <1>7, FS_Subset
<1>10. /\ Listed(Sorting(E, es, s.implicit)) /\ Range(Sorting(E, es, s.implicit)) = E
       /\ Len(Sorting(E, es, s.implicit)) = Cardinality(E)
  BY <1>4, <1>5, <1>9, SortFacts
<1> QED
  BY <1>8, <1>10 DEF E

(* An entry at the root is a file in depth or a directory. *)
LEMMA RootSeenAre ==
    ASSUME NEW w, TreeOK(w), NEW s, s.depth \in Nat, s.depth >= 1
    PROVE  /\ \A p : p \in InDepth(w, s) /\ Len(p) = 1
                     <=> \E e \in RootSeen(w, s) : p = <<e.name>> /\ ~e.folder
           /\ \A d : d \in RootDirs(w, s)
                     <=> \E e \in RootSeen(w, s) : d = <<e.name>> /\ e.folder
<1>1. \A e : e \in RootEntries(w) <=>
         \E n \in Name : Exists(w, <<n>>) /\ e = [name |-> n, folder |-> IsFolder(w, <<n>>)]
  BY RootEntriesAre
<1>2. \A p : p \in RootPaths(w) <=> \E n \in Name : p = <<n>> /\ Exists(w, <<n>>)
  BY RootEntriesAre
<1>3. \A p : ~(IsFile(w, p) /\ IsFolder(w, p))
  BY DEF TreeOK, WellFormed, IsFile
<1>4. \A p : p \in InDepth(w, s) /\ Len(p) = 1
             <=> p \in RootPaths(w) /\ InSight(p, s) /\ IsFile(w, p)
  <2>1. \A p : p \in FilesOf(w, s) /\ Len(p) = 1
               <=> p \in RootPaths(w) /\ InSight(p, s) /\ IsFile(w, p)
    BY AtRoot
  <2>2. \A p : Len(p) = 1 => Len(p) <= s.depth
    OBVIOUS
  <2> QED
    BY <2>1, <2>2 DEF InDepth
<1>5. \A d : d \in RootDirs(w, s) <=> d \in RootPaths(w) /\ InSight(d, s) /\ IsFolder(w, d)
  BY AtRoot
<1>6. ASSUME NEW e \in RootSeen(w, s)
      PROVE  /\ <<e.name>> \in RootPaths(w) /\ InSight(<<e.name>>, s)
             /\ e.folder = IsFolder(w, <<e.name>>)
             /\ ~e.folder => IsFile(w, <<e.name>>)
  <2>1. e \in RootEntries(w) /\ InSight(<<e.name>>, s)
    BY DEF RootSeen
  <2>2. PICK n \in Name : Exists(w, <<n>>) /\ e = [name |-> n, folder |-> IsFolder(w, <<n>>)]
    BY <1>1, <2>1
  <2>3. e.name = n /\ e.folder = IsFolder(w, <<n>>)
    BY <2>2
  <2> QED
    BY <1>2, <2>1, <2>2, <2>3 DEF Exists
<1>7. ASSUME NEW p \in RootPaths(w), InSight(p, s)
      PROVE  \E e \in RootSeen(w, s) : p = <<e.name>> /\ e.folder = IsFolder(w, p)
  <2>1. PICK n \in Name : p = <<n>> /\ Exists(w, <<n>>)
    BY <1>2
  <2> DEFINE e == [name |-> n, folder |-> IsFolder(w, <<n>>)]
  <2>2. e.name = n /\ e.folder = IsFolder(w, p) /\ e \in RootEntries(w)
    BY <1>1, <2>1
  <2> HIDE DEF e
  <2>3. e \in RootSeen(w, s)
    BY <1>7, <2>1, <2>2 DEF RootSeen
  <2> QED
    BY <2>1, <2>2, <2>3
<1>8. ASSUME NEW p
      PROVE  p \in InDepth(w, s) /\ Len(p) = 1
             <=> \E e \in RootSeen(w, s) : p = <<e.name>> /\ ~e.folder
  <2>1. ASSUME NEW e \in RootSeen(w, s), p = <<e.name>>, ~e.folder
        PROVE  p \in InDepth(w, s) /\ Len(p) = 1
    <3>1. p \in RootPaths(w) /\ InSight(p, s) /\ IsFile(w, p)
      BY <1>6, <2>1
    <3> QED
      BY <1>4, <3>1
  <2>2. ASSUME p \in InDepth(w, s), Len(p) = 1
        PROVE  \E e \in RootSeen(w, s) : p = <<e.name>> /\ ~e.folder
    BY <1>3, <1>4, <1>7, <2>2
  <2> QED
    BY <2>1, <2>2
<1>9. ASSUME NEW d
      PROVE  d \in RootDirs(w, s) <=> \E e \in RootSeen(w, s) : d = <<e.name>> /\ e.folder
  <2>1. ASSUME NEW e \in RootSeen(w, s), d = <<e.name>>, e.folder PROVE d \in RootDirs(w, s)
    BY <1>5, <1>6, <2>1
  <2>2. ASSUME d \in RootDirs(w, s) PROVE \E e \in RootSeen(w, s) : d = <<e.name>> /\ e.folder
    BY <1>5, <1>7, <2>2
  <2> QED
    BY <2>1, <2>2
<1> QED
  BY <1>8, <1>9

(* What a page shows of the whole: what is in an entry of its names. *)
ShownTree(w, s, N) ==
    Tree({p \in InDepth(w, s) : p[1] \in N},
         {d \in RootDirs(w, s) \cup Leading(w, s) : d[1] \in N})

LEMMA LeadingTop ==
    ASSUME NEW w, DOMAIN w \subseteq Legal, NEW s, s.depth \in Nat
    PROVE  \A c \in Leading(w, s) :
              /\ Len(c) = 1 => c \in RootDirs(w, s)
              /\ Len(c) # 1 => Len(c) > 1 /\ <<c[1]>> \in RootDirs(w, s)
<1> TAKE c \in Leading(w, s)
<1>1. c \in DirsOf(w, s)
  BY LeadingUp
<1>2. /\ Len(c) \in Nat /\ Len(c) >= 1
      /\ Len(c) > 1 => <<c[1]>> \in RootDirs(w, s)
  BY <1>1, HeadsLead
<1>3. \A n \in Nat : n >= 1 /\ n # 1 => n > 1
  OBVIOUS
<1>4. Len(c) # 1 => Len(c) > 1
  BY <1>2, <1>3
<1>5. Len(c) = 1 => c \in RootDirs(w, s)
  BY <1>1 DEF RootDirs
<1> QED
  BY <1>2, <1>4, <1>5

LEMMA FilteredIs ==
    ASSUME TreesOK, NEW s \in Scope, NEW page, NEW per
    PROVE  LET w == WalkTree(Tip, s.prefix)
               entries == RootShown(w, s)
               shown == Page(entries, page, per)
           IN FilteredListing(s, Whole(w, s), FALSE, page, per)
              = Answer(shown, HasMore(entries, page, per), ShownTree(w, s, Names(shown)), FALSE)
<1> DEFINE w == WalkTree(Tip, s.prefix)
           entries == RootShown(w, s)
           shown == Page(entries, page, per)
           tree == Whole(w, s)
           fileRoots == {[name |-> p[1], folder |-> FALSE] : p \in {q \in tree.files : Len(q) = 1}}
           dirRoots == {[name |-> d[1], folder |-> TRUE] : d \in {c \in tree.dirs : Len(c) = 1}}
           roots == fileRoots \cup dirRoots
<1>1. TreeOK(w) /\ DOMAIN w \subseteq Legal
  <2>1. s.prefix \in Path
    BY FoldersFacts DEF Scope
  <2>2. TreeOK(w)
    BY <2>1, TipFacts, SubtreeOK
  <2> QED
    BY <2>2 DEF TreeOK
<1>2. s.depth \in Nat /\ s.depth >= 1
  BY AnyDepthFacts DEF Scope
<1>3. tree.files = InDepth(w, s) /\ tree.dirs = RootDirs(w, s) \cup Leading(w, s)
  BY DEF Whole, Tree
<1>4. FilteredListing(s, tree, FALSE, page, per)
      = Answer(Page(Ranked(w, roots, s), page, per), HasMore(Ranked(w, roots, s), page, per),
               Tree({p \in tree.files : p[1] \in Names(Page(Ranked(w, roots, s), page, per))},
                    {p \in tree.dirs : p[1] \in Names(Page(Ranked(w, roots, s), page, per))}), FALSE)
  BY DEF FilteredListing
<1> HIDE DEF tree, w
<1>5. /\ \A p : p \in InDepth(w, s) /\ Len(p) = 1
                <=> \E e \in RootSeen(w, s) : p = <<e.name>> /\ ~e.folder
      /\ \A d : d \in RootDirs(w, s) <=> \E e \in RootSeen(w, s) : d = <<e.name>> /\ e.folder
  BY <1>1, <1>2, RootSeenAre
<1>6. \A e \in RootSeen(w, s) : e \in Entry
  BY <1>1, RootEntriesAre DEF RootSeen
<1>7. \A e \in Entry : /\ ~e.folder => e = [name |-> e.name, folder |-> FALSE]
                       /\ e.folder => e = [name |-> e.name, folder |-> TRUE]
                       /\ <<e.name>>[1] = e.name
  BY DEF Entry
<1>8. fileRoots = {e \in RootSeen(w, s) : ~e.folder}
  <2>1. ASSUME NEW p \in tree.files, Len(p) = 1
        PROVE  \E e \in RootSeen(w, s) : ~e.folder /\ e = [name |-> p[1], folder |-> FALSE]
    <3>1. PICK e \in RootSeen(w, s) : p = <<e.name>> /\ ~e.folder
      BY <1>3, <1>5, <2>1
    <3> QED
      BY <1>6, <1>7, <3>1
  <2>2. ASSUME NEW e \in RootSeen(w, s), ~e.folder
        PROVE  \E p \in tree.files : Len(p) = 1 /\ e = [name |-> p[1], folder |-> FALSE]
    <3> DEFINE p == <<e.name>>
    <3>1. p \in tree.files /\ Len(p) = 1
      BY <1>3, <1>5, <2>2
    <3>2. p[1] = e.name /\ e = [name |-> e.name, folder |-> FALSE]
      BY <1>6, <1>7, <2>2
    <3> HIDE DEF p
    <3> QED
      BY <3>1, <3>2
  <2> QED
    BY <2>1, <2>2
<1>9. \A c \in tree.dirs : Len(c) = 1 => c \in RootDirs(w, s)
  BY <1>1, <1>2, <1>3, LeadingTop DEF RootDirs
<1>10. dirRoots = {e \in RootSeen(w, s) : e.folder}
  <2>1. ASSUME NEW p \in tree.dirs, Len(p) = 1
        PROVE  \E e \in RootSeen(w, s) : e.folder /\ e = [name |-> p[1], folder |-> TRUE]
    <3>1. PICK e \in RootSeen(w, s) : p = <<e.name>> /\ e.folder
      BY <1>5, <1>9, <2>1
    <3> QED
      BY <1>6, <1>7, <3>1
  <2>2. ASSUME NEW e \in RootSeen(w, s), e.folder
        PROVE  \E p \in tree.dirs : Len(p) = 1 /\ e = [name |-> p[1], folder |-> TRUE]
    <3> DEFINE p == <<e.name>>
    <3>1. p \in tree.dirs /\ Len(p) = 1
      BY <1>3, <1>5, <2>2
    <3>2. p[1] = e.name /\ e = [name |-> e.name, folder |-> TRUE]
      BY <1>6, <1>7, <2>2
    <3> HIDE DEF p
    <3> QED
      BY <3>1, <3>2
  <2> QED
    BY <2>1, <2>2
<1> HIDE DEF fileRoots, dirRoots
<1>11. roots = RootSeen(w, s)
  BY <1>6, <1>8, <1>10
<1>12. Ranked(w, roots, s) = entries
  BY <1>11 DEF RootShown
<1> HIDE DEF roots, entries
<1>13. FilteredListing(s, tree, FALSE, page, per)
       = Answer(shown, HasMore(entries, page, per),
                Tree({p \in InDepth(w, s) : p[1] \in Names(shown)},
                     {p \in RootDirs(w, s) \cup Leading(w, s) : p[1] \in Names(shown)}), FALSE)
  BY <1>3, <1>4, <1>12
<1> QED
  BY <1>13 DEF ShownTree, tree, entries, w

LEMMA PlainIs ==
    ASSUME TreesOK, WellTyped(Tip), NEW s \in Scope, NEW page \in Nat \ {0}, NEW per \in Nat
    PROVE  LET w == WalkTree(Tip, s.prefix)
               entries == RootShown(w, s)
               shown == Page(entries, page, per)
           IN PlainListing(s, page, per)
              = Answer(shown, HasMore(entries, page, per), ShownTree(w, s, Names(shown)), FALSE)
<1> DEFINE w == WalkTree(Tip, s.prefix)
           entries == RootShown(w, s)
           shown == Page(entries, page, per)
           N == Names(shown)
           R == Range(shown)
           dirs == {<<e.name>> : e \in {x \in R : x.folder}}
           files == {<<e.name>> : e \in {x \in R : ~x.folder}}
           allFiles == files \cup UNION {InsideOf(w, s, d).files : d \in dirs}
           allDirs == dirs \cup UNION {InsideOf(w, s, d).dirs : d \in dirs}
<1>1. PlainListing(s, page, per)
      = Answer(shown, HasMore(entries, page, per), Tree(allFiles, allDirs), FALSE)
  BY DEF PlainListing, InsideOf, RootShown, RootSeen, RootEntries
<1>2. TreeOK(w) /\ WellTyped(w) /\ DOMAIN w \subseteq Legal
  <2>1. s.prefix \in Path
    BY FoldersFacts DEF Scope
  <2>2. TreeOK(w) /\ WellTyped(w)
    BY <2>1, TipFacts, SubtreeOK
  <2> QED
    BY <2>2 DEF TreeOK
<1>3. s.depth \in Nat /\ s.depth >= 1
  BY AnyDepthFacts DEF Scope
<1> HIDE DEF w
<1>4. Listed(shown) /\ R \subseteq RootSeen(w, s)
  <2>1. Listed(entries) /\ Range(entries) = RootSeen(w, s)
    BY <1>2, RankedFacts
  <2> HIDE DEF entries
  <2> QED
    BY <2>1, PageFacts
<1> HIDE DEF entries, shown
<1>5. N = {e.name : e \in R}
  BY DEF Names, Range
<1> HIDE DEF N, R
<1>6. /\ \A p : p \in InDepth(w, s) /\ Len(p) = 1
                <=> \E e \in RootSeen(w, s) : p = <<e.name>> /\ ~e.folder
      /\ \A d : d \in RootDirs(w, s) <=> \E e \in RootSeen(w, s) : d = <<e.name>> /\ e.folder
  BY <1>2, <1>3, RootSeenAre
<1>7. \A e, f \in RootSeen(w, s) : e.name = f.name => e = f
  BY <1>2, RootEntriesAre DEF RootSeen
<1>8. \A x, y : <<x>>[1] = x /\ (<<x>> = <<y>> => x = y)
  OBVIOUS
<1>9. /\ \A p : p \in files <=> \E e \in R : p = <<e.name>> /\ ~e.folder
      /\ \A d : d \in dirs <=> \E e \in R : d = <<e.name>> /\ e.folder
  OBVIOUS
<1>10. /\ \A p \in files : p \in InDepth(w, s) /\ Len(p) = 1 /\ p[1] \in N
       /\ \A d \in dirs : d \in RootDirs(w, s) /\ d[1] \in N
  <2>1. ASSUME NEW p \in files PROVE p \in InDepth(w, s) /\ Len(p) = 1 /\ p[1] \in N
    <3>1. PICK e \in R : p = <<e.name>> /\ ~e.folder
      BY <1>9
    <3>2. e \in RootSeen(w, s) /\ e.name \in N
      BY <1>4, <1>5
    <3> QED
      BY <1>6, <1>8, <3>1, <3>2
  <2>2. ASSUME NEW d \in dirs PROVE d \in RootDirs(w, s) /\ d[1] \in N
    <3>1. PICK e \in R : d = <<e.name>> /\ e.folder
      BY <1>9
    <3>2. e \in RootSeen(w, s) /\ e.name \in N
      BY <1>4, <1>5
    <3> QED
      BY <1>6, <1>8, <3>1, <3>2
  <2> QED
    BY <2>1, <2>2
<1>11. \A p \in InDepth(w, s) : Len(p) = 1 /\ p[1] \in N => p \in files
  <2> SUFFICES ASSUME NEW p \in InDepth(w, s), Len(p) = 1, p[1] \in N PROVE p \in files
    OBVIOUS
  <2>1. PICK e \in R : e.name = p[1]
    BY <1>5
  <2>2. PICK f \in RootSeen(w, s) : p = <<f.name>> /\ ~f.folder
    BY <1>6
  <2>3. e = f
    BY <1>4, <1>7, <1>8, <2>1, <2>2
  <2> QED
    BY <1>9, <2>2, <2>3
<1>12. \A d \in RootDirs(w, s) : d[1] \in N => d \in dirs
  <2> SUFFICES ASSUME NEW d \in RootDirs(w, s), d[1] \in N PROVE d \in dirs
    OBVIOUS
  <2>1. PICK e \in R : e.name = d[1]
    BY <1>5
  <2>2. PICK f \in RootSeen(w, s) : d = <<f.name>> /\ f.folder
    BY <1>6
  <2>3. e = f
    BY <1>4, <1>7, <1>8, <2>1, <2>2
  <2> QED
    BY <1>9, <2>2, <2>3
<1> HIDE DEF files, dirs
<1>13. \A d \in dirs :
          /\ \A p : p \in InsideOf(w, s, d).files
                    <=> p \in InDepth(w, s) /\ Len(p) > 1 /\ p[1] = d[1]
          /\ \A c : c \in InsideOf(w, s, d).dirs
                    <=> c \in Leading(w, s) /\ Len(c) > 1 /\ c[1] = d[1]
  BY <1>2, <1>10, InsideIs
<1>14. \A p \in InDepth(w, s) : Len(p) # 1 => Len(p) > 1 /\ <<p[1]>> \in RootDirs(w, s)
  <2> TAKE p \in InDepth(w, s)
  <2>1. /\ Len(p) \in Nat /\ Len(p) >= 1
        /\ Len(p) > 1 => <<p[1]>> \in RootDirs(w, s)
    BY <1>2, HeadsLead DEF InDepth
  <2>2. \A n \in Nat : n >= 1 /\ n # 1 => n > 1
    OBVIOUS
  <2> QED
    BY <2>1, <2>2
<1>15. \A c \in Leading(w, s) : /\ Len(c) = 1 => c \in RootDirs(w, s)
                                /\ Len(c) # 1 => Len(c) > 1 /\ <<c[1]>> \in RootDirs(w, s)
  BY <1>2, <1>3, LeadingTop
<1>16. allFiles = {p \in InDepth(w, s) : p[1] \in N}
  <2>1. ASSUME NEW d \in dirs, NEW p \in InsideOf(w, s, d).files
        PROVE  p \in InDepth(w, s) /\ p[1] \in N
    BY <1>10, <1>13
  <2>2. ASSUME NEW p \in InDepth(w, s), p[1] \in N
        PROVE  p \in files \/ \E d \in dirs : p \in InsideOf(w, s, d).files
    <3>1. CASE Len(p) = 1
      BY <1>11, <2>2, <3>1
    <3>2. CASE Len(p) # 1
      <4>1. Len(p) > 1 /\ <<p[1]>> \in RootDirs(w, s) /\ <<p[1]>>[1] = p[1]
        BY <1>8, <1>14, <3>2
      <4>2. <<p[1]>> \in dirs
        BY <1>12, <2>2, <4>1
      <4>3. p \in InsideOf(w, s, <<p[1]>>).files
        BY <1>13, <4>1, <4>2
      <4> QED
        BY <4>2, <4>3
    <3> QED
      BY <3>1, <3>2
  <2> QED
    BY <1>10, <2>1, <2>2
<1>17. allDirs = {d \in RootDirs(w, s) \cup Leading(w, s) : d[1] \in N}
  <2>1. ASSUME NEW d \in dirs, NEW c \in InsideOf(w, s, d).dirs
        PROVE  c \in Leading(w, s) /\ c[1] \in N
    BY <1>10, <1>13
  <2>2. ASSUME NEW c \in RootDirs(w, s) \cup Leading(w, s), c[1] \in N
        PROVE  c \in dirs \/ \E d \in dirs : c \in InsideOf(w, s, d).dirs
    <3>1. CASE c \in RootDirs(w, s)
      BY <1>12, <2>2, <3>1
    <3>2. CASE c \in Leading(w, s) /\ Len(c) # 1
      <4>1. Len(c) > 1 /\ <<c[1]>> \in RootDirs(w, s) /\ <<c[1]>>[1] = c[1]
        BY <1>8, <1>15, <3>2
      <4>2. <<c[1]>> \in dirs
        BY <1>12, <2>2, <4>1
      <4>3. c \in InsideOf(w, s, <<c[1]>>).dirs
        BY <1>13, <3>2, <4>1, <4>2
      <4> QED
        BY <4>2, <4>3
    <3> QED
      BY <1>15, <3>1, <3>2
  <2> QED
    BY <1>10, <2>1, <2>2
<1> HIDE DEF allFiles, allDirs
<1> QED
  BY <1>1, <1>16, <1>17 DEF ShownTree, N, shown, entries, w

(* A page as wide as the root has entries shows the whole. *)
LEMMA RootIsFinite ==
    ASSUME NEW w, TreeOK(w), NEW s
    PROVE  /\ Cardinality(RootPaths(w)) \in Nat /\ Cardinality(RootSeen(w, s)) \in Nat
           /\ Cardinality(RootSeen(w, s)) <= Cardinality(RootPaths(w))
<1> DEFINE E == RootEntries(w)
           F == RootSeen(w, s)
           P == RootPaths(w)
           g == [e \in E |-> <<e.name>>]
           f == [e \in F |-> <<e.name>>]
<1>1. IsFiniteSet(E) /\ (\A e, x \in E : e.name = x.name => e = x) /\ F \subseteq E
  BY RootEntriesAre DEF RootSeen
<1>2. P = {<<e.name>> : e \in E}
  BY DEF RootPaths
<1>3. IsFiniteSet(P)
  <2>1. P = {g[e] : e \in E}
    BY <1>2
  <2>2. g \in [E -> P]
    BY <1>2
  <2> HIDE DEF g, E, P
  <2> QED
    BY <1>1, <2>1, <2>2, FiniteRange
<1>4. f \in Injection(F, P)
  <2>1. f \in [F -> P]
    BY <1>1, <1>2
  <2>2. ASSUME NEW e \in F, NEW x \in F, f[e] = f[x] PROVE e = x
    <3>1. <<e.name>> = <<x.name>>
      BY <2>2
    <3>2. e.name = x.name
      BY <3>1
    <3> QED
      BY <1>1, <3>2
  <2> HIDE DEF f, F, P
  <2> QED
    BY <2>1, <2>2 DEF Injection, IsInjective
<1>5. IsFiniteSet(F)
  BY <1>1, FS_Subset
<1> HIDE DEF f, F, P
<1>6. Cardinality(F) <= Cardinality(P)
  BY <1>3, <1>4, FS_Injection
<1>7. Cardinality(F) \in Nat /\ Cardinality(P) \in Nat
  BY <1>3, <1>5, FS_CardinalityType
<1> QED
  BY <1>6, <1>7 DEF F, P

LEMMA WideListing ==
    ASSUME TreesOK, WellTyped(Tip), NEW s \in Scope
    PROVE  LET w == WalkTree(Tip, s.prefix)
           IN PlainListing(s, 1, Cardinality(RootPaths(w))).tree = Whole(w, s)
<1> DEFINE w == WalkTree(Tip, s.prefix)
           per == Cardinality(RootPaths(w))
           entries == RootShown(w, s)
           N == Names(entries)
<1>1. TreeOK(w) /\ WellTyped(w) /\ DOMAIN w \subseteq Legal
  <2>1. s.prefix \in Path
    BY FoldersFacts DEF Scope
  <2>2. TreeOK(w) /\ WellTyped(w)
    BY <2>1, TipFacts, SubtreeOK
  <2> QED
    BY <2>2 DEF TreeOK
<1>2. s.depth \in Nat /\ s.depth >= 1
  BY AnyDepthFacts DEF Scope
<1>3. per \in Nat
  BY <1>1, RootIsFinite
<1>4. PlainListing(s, 1, per)
      = Answer(Page(entries, 1, per), HasMore(entries, 1, per),
               ShownTree(w, s, Names(Page(entries, 1, per))), FALSE)
  <2>1. 1 \in Nat \ {0}
    OBVIOUS
  <2> HIDE DEF per
  <2>2. LET v == WalkTree(Tip, s.prefix)
            es == RootShown(v, s)
            shown == Page(es, 1, per)
        IN PlainListing(s, 1, per)
           = Answer(shown, HasMore(es, 1, per), ShownTree(v, s, Names(shown)), FALSE)
    BY <1>3, <2>1, PlainIs, Zenon
  <2> QED
    BY <2>2
<1> HIDE DEF w
<1>5. Listed(entries) /\ Range(entries) = RootSeen(w, s) /\ Len(entries) <= per
  BY <1>1, RankedFacts, RootIsFinite
<1> HIDE DEF per, entries
<1>6. Page(entries, 1, per) = entries
  BY <1>3, <1>5, WidePage
<1>7. PlainListing(s, 1, per).tree = ShownTree(w, s, N)
  BY <1>4, <1>6 DEF Answer
<1>8. N = {e.name : e \in RootSeen(w, s)}
  BY <1>5 DEF Names, Range
<1> HIDE DEF N
<1>9. /\ \A p : p \in InDepth(w, s) /\ Len(p) = 1
                <=> \E e \in RootSeen(w, s) : p = <<e.name>> /\ ~e.folder
      /\ \A d : d \in RootDirs(w, s) <=> \E e \in RootSeen(w, s) : d = <<e.name>> /\ e.folder
  BY <1>1, <1>2, RootSeenAre
<1>10. \A x : <<x>>[1] = x
  OBVIOUS
<1>11. \A d \in RootDirs(w, s) : d[1] \in N
  BY <1>8, <1>9, <1>10
<1>12. \A p \in InDepth(w, s) : p[1] \in N
  <2> TAKE p \in InDepth(w, s)
  <2>1. /\ Len(p) \in Nat /\ Len(p) >= 1
        /\ Len(p) > 1 => <<p[1]>> \in RootDirs(w, s)
    BY <1>1, HeadsLead DEF InDepth
  <2>2. \A n \in Nat : n >= 1 => n = 1 \/ n > 1
    OBVIOUS
  <2>3. CASE Len(p) = 1
    BY <1>8, <1>9, <1>10, <2>3
  <2>4. CASE Len(p) > 1
    BY <1>10, <1>11, <2>1, <2>4
  <2> QED
    BY <2>1, <2>2, <2>3, <2>4
<1>13. \A c \in Leading(w, s) : c[1] \in N
  <2> TAKE c \in Leading(w, s)
  <2>1. /\ Len(c) = 1 => c \in RootDirs(w, s)
        /\ Len(c) # 1 => <<c[1]>> \in RootDirs(w, s)
    BY <1>1, <1>2, LeadingTop
  <2> QED
    BY <1>10, <1>11, <2>1
<1>14. /\ {p \in InDepth(w, s) : p[1] \in N} = InDepth(w, s)
       /\ {d \in RootDirs(w, s) \cup Leading(w, s) : d[1] \in N} = RootDirs(w, s) \cup Leading(w, s)
  BY <1>11, <1>12, <1>13
<1>15. ShownTree(w, s, N) = Whole(w, s)
  BY <1>14 DEF ShownTree, Whole
<1> QED
  BY <1>7, <1>15 DEF per, w

(* Where every directory holds a file that can be seen, what is shown of   *)
(* them is what there is down to the depth.                                *)
LEMMA NoneBarren ==
    ASSUME NEW w, TreeOK(w), NEW s, s.depth \in Nat, s.depth >= 1,
           \A d \in DirsOf(w, s) : \E p \in FilesOf(w, s) : IsPrefix(d, p)
    PROVE  {d \in DirsOf(w, s) : Len(d) <= s.depth} = RootDirs(w, s) \cup Leading(w, s)
<1>1. DOMAIN w \subseteq Legal
  BY DEF TreeOK
<1>2. ASSUME NEW d \in RootDirs(w, s) \cup Leading(w, s)
      PROVE  d \in DirsOf(w, s) /\ Len(d) <= s.depth
  <2>1. CASE d \in RootDirs(w, s)
    BY <2>1 DEF RootDirs
  <2>2. CASE d \in Leading(w, s)
    BY <1>1, <2>2, LeadingUp
  <2> QED
    BY <2>1, <2>2
<1>3. ASSUME NEW d \in DirsOf(w, s), Len(d) <= s.depth PROVE d \in Leading(w, s)
  <2>1. d \in Path /\ d # Root /\ IsFolder(w, d)
    BY <1>1, DirsAre
  <2>2. PICK p \in FilesOf(w, s) : IsPrefix(d, p)
    OBVIOUS
  <2>3. p \in DOMAIN w /\ p \in Path /\ Len(p) \in Nat
    BY <1>1, FilesAre DEF Path
  <2>4. IsStrictPrefix(d, p)
    <3>1. d # p
      BY <2>1, <2>3 DEF TreeOK, WellFormed
    <3> QED
      BY <2>2, <3>1 DEF IsStrictPrefix
  <2>5. CASE Len(p) <= s.depth
    <3>1. p \in InDepth(w, s)
      BY <2>5 DEF InDepth
    <3> QED
      BY <1>1, <2>1, <2>4, <3>1, LeadingAre
  <2>6. CASE s.depth < Len(p)
    <3> DEFINE n == s.depth
               e == SubSeq(p, 1, n)
    <3>1. /\ e \in Ancestors(p) /\ e \in Path /\ Len(e) = n
          /\ \A a \in Ancestors(p) : Len(a) <= n => a \in Ancestors(e) \cup {e}
      BY <2>3, <2>6, CutFacts
    <3> HIDE DEF e
    <3>2. e \in AtDepth(w, s)
      BY <1>1, <3>1, DirsUp DEF AtDepth
    <3>3. d \in Ancestors(p)
      BY <2>1, <2>3, <2>4, AncestorsFacts
    <3>4. d \in Ancestors(e) \cup {e}
      BY <1>3, <3>1, <3>3
    <3> QED
      BY <3>2, <3>4 DEF Leading
  <2> QED
    BY <2>3, <2>5, <2>6
<1> QED
  BY <1>2, <1>3

(* A search everything matches, a selection of every entry of the root and *)
(* the plain listing answer alike on every page, in every scope and for    *)
(* any history; the count is that of the files shown, and of the           *)
(* directories where none is barren.                                       *)
THEOREM ListingsAnswerAlike == Spec => []ListingsAgree
<1>1. ContentInv /\ TreesTyped => ListingsAgree
  <2> SUFFICES ASSUME ContentInv, TreesTyped,
                      NEW s \in Scope, NEW per \in PerPage, NEW page \in 1..3
               PROVE  LET w == WalkTree(Tip, s.prefix)
                          roots == {<<e.name>> : e \in EntriesOf(w, Root)}
                          plain == PlainListing(s, page, per)
                          whole == PlainListing(s, 1, Cardinality(roots)).tree
                          barren == {d \in DirsOf(w, s) : \A p \in FilesOf(w, s) : ~IsPrefix(d, p)}
                      IN /\ FilteredListing(s, Finish(Search(s, Name)), FALSE, page, per) = plain
                         /\ FilteredListing(s, Finish(Selection(s, roots)), FALSE, page, per) = plain
                         /\ CountFiles(s).files = Cardinality(whole.files)
                         /\ barren = {} => CountFiles(s).directories = Cardinality(whole.dirs)
    BY Zenon DEF ListingsAgree
  <2> DEFINE w == WalkTree(Tip, s.prefix)
             roots == {<<e.name>> : e \in EntriesOf(w, Root)}
             plain == PlainListing(s, page, per)
             whole == PlainListing(s, 1, Cardinality(roots)).tree
             barren == {d \in DirsOf(w, s) : \A p \in FilesOf(w, s) : ~IsPrefix(d, p)}
  <2>1. TreesOK /\ WellTyped(Tip)
    BY TypedTip DEF ContentInv
  <2>2. /\ s.prefix \in Path /\ s.depth \in Depths /\ s.depth \in Nat /\ s.depth >= 1
        /\ page \in Nat \ {0} /\ per \in Nat
    <3>1. s.prefix \in Folders /\ s.depth \in Depths
      BY DEF Scope
    <3>2. page \in Nat \ {0} /\ per \in Nat
      BY ReadConstants
    <3> QED
      BY <3>1, <3>2, FoldersFacts, AnyDepthFacts
  <2>3. TreeOK(w) /\ DOMAIN w \subseteq Legal
    <3>1. TreeOK(w)
      BY <2>1, <2>2, TipFacts, SubtreeOK
    <3> QED
      BY <3>1 DEF TreeOK
  <2>4. roots = RootPaths(w)
    BY DEF RootPaths, RootEntries
  <2>5. FilteredListing(s, Whole(w, s), FALSE, page, per) = plain
    <3> DEFINE entries == RootShown(w, s)
               shown == Page(entries, page, per)
               answer == Answer(shown, HasMore(entries, page, per),
                                ShownTree(w, s, Names(shown)), FALSE)
    <3>1. plain = answer
      BY <2>1, <2>2, PlainIs, Zenon
    <3>2. FilteredListing(s, Whole(w, s), FALSE, page, per) = answer
      BY <2>1, FilteredIs, Zenon
    <3> QED
      BY <3>1, <3>2
  <2>6. Finish(Search(s, Name)) = Whole(w, s)
    BY <2>1, <2>2, SearchFinds
  <2>7. Finish(Selection(s, roots)) = Whole(w, s)
    BY <2>1, <2>4, SelectionFinds
  <2>8. whole = Whole(w, s)
    BY <2>1, <2>4, WideListing
  <2>9. whole.files = InDepth(w, s) /\ whole.dirs = RootDirs(w, s) \cup Leading(w, s)
    <3> HIDE DEF w, whole
    <3> QED
      BY <2>8 DEF Whole, Tree
  <2>10. /\ CountFiles(s).files = Cardinality(InDepth(w, s))
         /\ CountFiles(s).directories = Cardinality({d \in DirsOf(w, s) : Len(d) <= s.depth})
    BY DEF CountFiles, InDepth
  <2> HIDE DEF w, roots, plain, whole
  <2>11. barren = {} => CountFiles(s).directories = Cardinality(whole.dirs)
    <3> SUFFICES ASSUME barren = {} PROVE CountFiles(s).directories = Cardinality(whole.dirs)
      OBVIOUS
    <3>1. \A d \in DirsOf(w, s) : \E p \in FilesOf(w, s) : IsPrefix(d, p)
      OBVIOUS
    <3>2. {d \in DirsOf(w, s) : Len(d) <= s.depth} = RootDirs(w, s) \cup Leading(w, s)
      BY <2>2, <2>3, <3>1, NoneBarren
    <3> QED
      BY <2>9, <2>10, <3>2
  <2>12. CountFiles(s).files = Cardinality(whole.files)
    BY <2>9, <2>10
  <2> HIDE DEF barren
  <2>13. /\ FilteredListing(s, Finish(Search(s, Name)), FALSE, page, per) = plain
         /\ FilteredListing(s, Finish(Selection(s, roots)), FALSE, page, per) = plain
    BY <2>5, <2>6, <2>7
  <2> QED
    BY <2>11, <2>12, <2>13 DEF w, roots, plain, whole, barren
<1>2. Init => ContentInv /\ TreesTyped
  BY InitOK, TypedInit
<1>3. ContentInv /\ TreesTyped /\ [Next]_vars => (ContentInv /\ TreesTyped)'
  BY NextKeeps, NextTyped
<1> QED
  BY <1>1, <1>2, <1>3, PTL DEF Spec
=============================================================================
