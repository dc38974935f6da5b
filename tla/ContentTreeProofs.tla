-------------------------- MODULE ContentTreeProofs --------------------------
(***************************************************************************)
(* What the edits of ContentTree do, for every tree.  A tidy edit is       *)
(* honest: of each path it changes its changes have the last word to say   *)
(* what the tree has there afterwards, its commands what the disk has, and *)
(* of the others neither speaks.  From this follows what a receiver that   *)
(* is told the job of the commit holds.                                    *)
(*                                                                         *)
(* A sequence's meaning is what its last element on a key says (LastSays), *)
(* so that concatenating, flattening and dropping the head have laws.      *)
(***************************************************************************)
EXTENDS ContentTree, FiniteSetTheorems, SequenceTheorems, TLAPS

-----------------------------------------------------------------------------
(* Naturals: what induction the provers need, over a set of naturals. *)

LEMMA Least ==
    ASSUME NEW S, S \subseteq Nat, S # {}
    PROVE  \E n \in S : \A m \in S : n <= m
<1>1. IsWellFoundedOn(OpToRel(<, Nat), Nat)
  BY NatLessThanWellFounded
<1>2. \E x \in S : \A y \in S : ~(<<y, x>> \in OpToRel(<, Nat))
  BY <1>1, WFMin
<1>3. PICK n \in S : \A m \in S : ~(<<m, n>> \in OpToRel(<, Nat))
  BY <1>2
<1>4. \A m \in S : ~(m < n)
  BY <1>3 DEF OpToRel
<1> QED
  BY <1>4

LEMMA Induct ==
    ASSUME NEW S, 0 \in S, \A n \in Nat : n \in S => n + 1 \in S
    PROVE  Nat \subseteq S
<1> SUFFICES ASSUME Nat \ S # {} PROVE FALSE
  OBVIOUS
<1>1. PICK n \in Nat \ S : \A m \in Nat \ S : n <= m
  BY Least
<1>2. n - 1 \in Nat
  BY <1>1
<1>3. n - 1 \in S
  BY <1>1, <1>2
<1> QED
  BY <1>1, <1>2, <1>3

LEMMA Greatest ==
    ASSUME NEW n \in Nat, NEW S, S \subseteq 0..n, S # {}
    PROVE  \E i \in S : \A j \in S : j <= i
<1> DEFINE T == {n - i : i \in S}
<1>1. T \subseteq Nat /\ T # {}
  <2>1. \A i \in S : n - i \in Nat
    OBVIOUS
  <2> QED
    BY <2>1
<1>2. PICK m \in T : \A k \in T : m <= k
  BY <1>1, Least
<1>3. PICK i \in S : m = n - i
  BY <1>2
<1>4. \A j \in S : n - i <= n - j
  BY <1>2, <1>3
<1> QED
  BY <1>4

-----------------------------------------------------------------------------
(* Paths *)

Path == Seq(Nat)

LEMMA PrefixAt ==
    ASSUME NEW p \in Path, NEW q \in Path
    PROVE  IsPrefix(p, q) <=> Len(p) <= Len(q) /\ \A i \in 1..Len(p) : p[i] = q[i]
<1>1. CASE Len(p) <= Len(q)
  <2>1. /\ SubSeq(p, 1, Len(p)) = p
        /\ Len(SubSeq(q, 1, Len(p))) = Len(p)
        /\ SubSeq(q, 1, Len(p)) \in Path
        /\ \A i \in 1..Len(p) : SubSeq(q, 1, Len(p))[i] = q[i]
    BY <1>1, SubSeqProperties DEF Path
  <2>2. SubSeq(q, 1, Len(p)) = p <=> \A i \in 1..Len(p) : p[i] = q[i]
    BY <2>1, SeqEqual DEF Path
  <2> QED
    BY <1>1, <2>1, <2>2 DEF IsPrefix
<1>2. CASE ~(Len(p) <= Len(q))
  BY <1>2 DEF IsPrefix
<1> QED
  BY <1>1, <1>2

LEMMA PrefixFacts ==
    ASSUME NEW p \in Path, NEW q \in Path, NEW r \in Path
    PROVE  /\ IsPrefix(p, p)
           /\ IsPrefix(p, q) /\ IsPrefix(q, r) => IsPrefix(p, r)
           /\ IsPrefix(p, q) /\ IsPrefix(q, p) => p = q
           /\ IsPrefix(p, r) /\ IsPrefix(q, r) => IsPrefix(p, q) \/ IsPrefix(q, p)
           /\ IsPrefix(p, q) => Len(p) <= Len(q)
           /\ IsPrefix(p, q) /\ Len(p) = Len(q) => p = q
<1> USE DEF Path
<1>1. IsPrefix(p, q) /\ Len(p) = Len(q) => p = q
  BY PrefixAt, SeqEqual
<1>2. IsPrefix(p, q) /\ IsPrefix(q, p) => p = q
  <2>1. Len(p) \in Nat /\ Len(q) \in Nat
    OBVIOUS
  <2> QED
    BY <1>1, <2>1, PrefixAt
<1>3. IsPrefix(p, q) /\ IsPrefix(q, r) => IsPrefix(p, r)
  BY PrefixAt
<1>4. ASSUME IsPrefix(p, r), IsPrefix(q, r) PROVE IsPrefix(p, q) \/ IsPrefix(q, p)
  <2>1. /\ \A i \in 1..Len(p) : p[i] = r[i]
        /\ \A i \in 1..Len(q) : q[i] = r[i]
        /\ Len(p) \in Nat /\ Len(q) \in Nat
    BY <1>4, PrefixAt
  <2>2. CASE Len(p) <= Len(q)
    BY <2>1, <2>2, PrefixAt
  <2>3. CASE Len(q) <= Len(p)
    BY <2>1, <2>3, PrefixAt
  <2> QED
    BY <2>1, <2>2, <2>3
<1> QED
  BY <1>1, <1>2, <1>3, <1>4, PrefixAt

LEMMA LeafFacts ==
    ASSUME NEW p \in Path, p # Root
    PROVE  /\ Parent(p) \in Path /\ Leaf(p) \in Nat
           /\ p = Child(Parent(p), Leaf(p))
           /\ Len(p) \in Nat /\ Len(p) >= 1 /\ Len(Parent(p)) = Len(p) - 1
           /\ \A i \in 1..(Len(p) - 1) : Parent(p)[i] = p[i]
<1> USE DEF Path, Root, Parent, Leaf, Child, Front, Last
<1> DEFINE n == Len(p) - 1
<1>1. Len(p) \in Nat /\ Len(p) >= 1
  OBVIOUS
<1>2. n \in Nat /\ 1 \in Int /\ n \in Int /\ Len(p) = n + 1
  BY <1>1
<1>3. \A i \in 1..n : p[i] \in Nat
  BY <1>1
<1>4. Parent(p) = SubSeq(p, 1, n)
  OBVIOUS
<1> HIDE DEF n, Parent
<1>5. /\ Parent(p) \in Seq(Nat)
      /\ Len(Parent(p)) = IF 1 <= n THEN n - 1 + 1 ELSE 0
      /\ \A i \in 1..(n - 1 + 1) : Parent(p)[i] = p[1 + i - 1]
  BY <1>2, <1>3, <1>4, SubSeqProperties
<1>6. Len(Parent(p)) = n /\ \A i \in 1..n : Parent(p)[i] = p[i]
  BY <1>2, <1>5
<1>7. Leaf(p) \in Nat
  BY <1>1
<1>8. p = Child(Parent(p), Leaf(p))
  <2>1. /\ Child(Parent(p), Leaf(p)) \in Path
        /\ Len(Child(Parent(p), Leaf(p))) = Len(p)
        /\ \A i \in 1..Len(p) : Child(Parent(p), Leaf(p))[i] = p[i]
    BY <1>2, <1>5, <1>6, <1>7
  <2> QED
    BY <2>1, SeqEqual
<1> QED
  BY <1>1, <1>5, <1>6, <1>7, <1>8 DEF n

LEMMA ChildFacts ==
    ASSUME NEW d \in Path, NEW n \in Nat
    PROVE  /\ Child(d, n) \in Path /\ Child(d, n) # Root
           /\ Len(Child(d, n)) = Len(d) + 1
           /\ Parent(Child(d, n)) = d /\ Leaf(Child(d, n)) = n
           /\ IsPrefix(d, Child(d, n))
           /\ \A p \in Path : IsPrefix(p, Child(d, n)) <=> IsPrefix(p, d) \/ p = Child(d, n)
<1>1. /\ Child(d, n) \in Path /\ Child(d, n) # Root
      /\ Len(Child(d, n)) = Len(d) + 1
      /\ \A i \in 1..Len(d) : Child(d, n)[i] = d[i]
      /\ Child(d, n)[Len(d) + 1] = n
  BY DEF Path, Root, Child
<1>2. Parent(Child(d, n)) = d
  <2> DEFINE c == Child(d, n)
  <2>1. /\ Parent(c) \in Path /\ Len(Parent(c)) = Len(c) - 1
        /\ \A i \in 1..(Len(c) - 1) : Parent(c)[i] = c[i]
    BY <1>1, LeafFacts
  <2>2. Len(c) - 1 = Len(d) /\ Len(d) \in Nat
    BY <1>1 DEF Path
  <2>3. \A i \in 1..Len(d) : Parent(c)[i] = d[i]
    BY <1>1, <2>1, <2>2
  <2> QED
    BY <2>1, <2>2, <2>3, SeqEqual DEF Path
<1>3. Leaf(Child(d, n)) = n
  BY <1>1 DEF Leaf, Last
<1>4. IsPrefix(d, Child(d, n))
  BY <1>1, PrefixAt DEF Path
<1>5. ASSUME NEW p \in Path, IsPrefix(p, Child(d, n)), ~IsPrefix(p, d)
      PROVE  p = Child(d, n)
  <2>1. /\ Len(p) <= Len(d) + 1 /\ Len(p) \in Nat /\ Len(d) \in Nat
        /\ \A i \in 1..Len(p) : p[i] = Child(d, n)[i]
    BY <1>1, <1>5, PrefixAt DEF Path
  <2>2. CASE Len(p) <= Len(d)
    <3>1. \A i \in 1..Len(p) : p[i] = d[i]
      BY <1>1, <2>1, <2>2
    <3> QED
      BY <1>5, <2>2, <3>1, PrefixAt
  <2>3. CASE Len(p) = Len(d) + 1
    BY <1>1, <1>5, <2>3, PrefixFacts
  <2> QED
    BY <2>1, <2>2, <2>3
<1> QED
  BY <1>1, <1>2, <1>3, <1>4, <1>5, PrefixFacts

(* Where a tree has blobs: an index is only ever a leaf. *)
Legal ==
    {p \in Seq(Name \cup {Index}) :
        p # Root /\ \A i \in 1..(Len(p) - 1) : p[i] # Index}

LEMMA NameFacts == Name \subseteq Nat /\ Index \in Nat /\ Index \notin Name
  BY TreeConstants DEF Index

LEMMA LegalFacts ==
    /\ Legal \subseteq Path /\ Seq(Name) \subseteq Path /\ Root \notin Legal
    /\ \A d \in Path : IndexPath(d) \in Path /\ IsIndex(IndexPath(d)) /\ Parent(IndexPath(d)) = d
    /\ \A d \in Seq(Name) : IndexPath(d) \in Legal
    /\ \A p \in Legal : Parent(p) \in Seq(Name) /\ (IsIndex(p) => p = IndexPath(Parent(p)))
    /\ \A p \in Legal : ~IsIndex(p) => p \in Seq(Name)
    /\ \A p \in Seq(Name) : p # Root => p \in Legal /\ ~IsIndex(p) /\ Parent(p) \in Seq(Name)
    /\ \A p \in Legal, q \in Path : IsIndex(q) => ~IsStrictPrefix(q, p)
<1>1. Legal \subseteq Path /\ Seq(Name) \subseteq Path /\ Root \notin Legal
  <2>1. Name \cup {Index} \subseteq Nat /\ Name \subseteq Nat
    BY NameFacts
  <2>2. Seq(Name \cup {Index}) \subseteq Path /\ Seq(Name) \subseteq Path
    BY <2>1, SeqMonotonic DEF Path
  <2> QED
    BY <2>2 DEF Legal
<1>2. ASSUME NEW d \in Path
      PROVE  IndexPath(d) \in Path /\ IsIndex(IndexPath(d)) /\ Parent(IndexPath(d)) = d
  BY ChildFacts, NameFacts DEF IndexPath, IsIndex
<1>3. ASSUME NEW d \in Seq(Name) PROVE IndexPath(d) \in Legal
  <2>1. d \in Path
    BY <1>1
  <2>2. Len(IndexPath(d)) = Len(d) + 1 /\ IndexPath(d) # Root /\ Len(d) \in Nat
    BY <2>1, NameFacts, ChildFacts DEF IndexPath
  <2>3. IndexPath(d) \in Seq(Name \cup {Index})
    BY DEF IndexPath, Child
  <2>4. \A i \in 1..Len(d) : IndexPath(d)[i] = d[i] /\ d[i] \in Name
    BY DEF IndexPath, Child
  <2> QED
    BY <2>2, <2>3, <2>4, NameFacts DEF Legal
<1>4. ASSUME NEW p \in Path, IsIndex(p) PROVE p = IndexPath(Parent(p))
  BY <1>4, LeafFacts DEF IsIndex, IndexPath
<1>5. ASSUME NEW p \in Legal PROVE Parent(p) \in Seq(Name)
  <2>1. /\ Parent(p) \in Path /\ Len(p) \in Nat /\ Len(p) >= 1
        /\ Len(Parent(p)) = Len(p) - 1
        /\ \A i \in 1..(Len(p) - 1) : Parent(p)[i] = p[i]
    BY <1>1, LeafFacts DEF Legal
  <2>2. \A i \in 1..(Len(p) - 1) : p[i] \in Name
    BY <2>1 DEF Legal
  <2>3. \A i \in 1..Len(Parent(p)) : Parent(p)[i] \in Name
    BY <2>1, <2>2
  <2>4. Len(Parent(p)) \in Nat /\ Parent(p) \in [1..Len(Parent(p)) -> Nat]
    BY <2>1, LenProperties DEF Path
  <2>5. Parent(p) \in [1..Len(Parent(p)) -> Name]
    BY <2>3, <2>4
  <2> QED
    BY <2>4, <2>5, SeqDef
<1>6. ASSUME NEW p \in Legal, ~IsIndex(p) PROVE p \in Seq(Name)
  <2>1. p \in Path /\ p # Root
    BY <1>1 DEF Legal
  <2>2. p = Child(Parent(p), Leaf(p)) /\ Leaf(p) # Index
    BY <1>6, <2>1, LeafFacts DEF IsIndex
  <2>3. Leaf(p) \in Name \cup {Index}
    BY <2>1 DEF Legal, Leaf, Last, Root
  <2> QED
    BY <1>5, <2>2, <2>3 DEF Child
<1>7. ASSUME NEW p \in Seq(Name), p # Root
      PROVE  p \in Legal /\ ~IsIndex(p)
  <2>1. p \in Seq(Name \cup {Index}) /\ Len(p) \in Nat /\ \A i \in 1..Len(p) : p[i] \in Name
    BY SeqMonotonic
  <2>2. \A i \in 1..(Len(p) - 1) : p[i] # Index
    BY <2>1, NameFacts
  <2>3. Leaf(p) \in Name
    BY <1>7 DEF Leaf, Last, Root
  <2> QED
    BY <1>7, <2>1, <2>2, <2>3, NameFacts DEF Legal, IsIndex
<1>8. ASSUME NEW p \in Legal, NEW q \in Path, IsIndex(q), IsStrictPrefix(q, p) PROVE FALSE
  <2>1. p \in Path /\ IsPrefix(q, p) /\ q # p /\ q # Root
    BY <1>1, <1>8 DEF IsStrictPrefix, IsIndex
  <2>2. Len(q) <= Len(p) /\ Len(q) # Len(p) /\ Len(q) \in Nat /\ Len(p) \in Nat /\ Len(q) >= 1
    BY <2>1, PrefixFacts, LeafFacts DEF Path
  <2>3. q[Len(q)] = p[Len(q)]
    BY <2>1, <2>2, PrefixAt
  <2> QED
    BY <1>8, <2>2, <2>3 DEF Legal, IsIndex, Leaf, Last
<1> QED
  BY <1>1, <1>2, <1>3, <1>4, <1>5, <1>6, <1>7, <1>8

-----------------------------------------------------------------------------
(* What a sequence of events says. *)

Listed(s) == s \in Seq(Range(s))

LEMMA ListedFacts ==
    ASSUME NEW s, Listed(s)
    PROVE  /\ Len(s) \in Nat /\ DOMAIN s = 1..Len(s)
           /\ s # <<>> <=> Len(s) > 0
           /\ Range(s) = {s[i] : i \in 1..Len(s)}
<1>1. Len(s) \in Nat /\ DOMAIN s = 1..Len(s)
  BY DEF Listed
<1>2. s # <<>> <=> Len(s) > 0
  BY DEF Listed
<1> QED
  BY <1>1, <1>2 DEF Range

LEMMA ListedIn == ASSUME NEW S, NEW s \in Seq(S) PROVE Listed(s)
  BY SeqOfRange DEF Listed

LEMMA ListedBy ==
    ASSUME NEW s, NEW n \in Nat, DOMAIN s = 1..n, s = [i \in 1..n |-> s[i]]
    PROVE  Listed(s) /\ Len(s) = n
<1>1. s \in [1..n -> Range(s)]
  BY DEF Range
<1>2. s \in Seq(Range(s))
  BY <1>1, SeqDef
<1> QED
  BY <1>1, <1>2 DEF Listed

LEMMA ListedConcat ==
    ASSUME NEW s, Listed(s), NEW t, Listed(t)
    PROVE  /\ Listed(s \o t) /\ Len(s \o t) = Len(s) + Len(t)
           /\ \A i \in 1..Len(s) : (s \o t)[i] = s[i]
           /\ \A i \in 1..Len(t) : (s \o t)[Len(s) + i] = t[i]
           /\ Range(s \o t) = Range(s) \cup Range(t)
<1> DEFINE S == Range(s) \cup Range(t)
<1>1. s \in Seq(S) /\ t \in Seq(S)
  BY SeqMonotonic DEF Listed
<1>2. Len(s) \in Nat /\ Len(t) \in Nat
  BY <1>1
<1> HIDE DEF S
<1>3. /\ s \o t \in Seq(S) /\ Len(s \o t) = Len(s) + Len(t)
      /\ \A i \in 1..(Len(s) + Len(t)) :
            (s \o t)[i] = IF i <= Len(s) THEN s[i] ELSE t[i - Len(s)]
      /\ Range(s \o t) = Range(s) \cup Range(t)
  BY <1>1, ConcatProperties, RangeConcatenation
<1>4. \A i \in 1..Len(s) : (s \o t)[i] = s[i]
  BY <1>2, <1>3
<1>5. ASSUME NEW i \in 1..Len(t) PROVE (s \o t)[Len(s) + i] = t[i]
  <2>1. Len(s) + i \in 1..(Len(s) + Len(t)) /\ ~(Len(s) + i <= Len(s)) /\ Len(s) + i - Len(s) = i
    BY <1>2
  <2> QED
    BY <1>3, <2>1
<1> QED
  BY <1>3, <1>4, <1>5, ListedIn

(* What an event, a change or a command is about: a file or an order of    *)
(* the receiver's table, or a file on disk; and what it makes of it, <<>>  *)
(* for nothing.                                                            *)
OrderKinds == {"order.updated", "order.deleted"}

Touches(e, k) ==
    \/ /\ k[1] = "file" /\ e.kind \in FileKinds
       /\ e.path = k[2] \/ (e.kind = "moved" /\ e.from = k[2])
    \/ k[1] = "order" /\ e.kind \in OrderKinds /\ e.path = k[2]
    \/ k[1] = "disk" /\ IF e.do = "rmdir" THEN IsPrefix(e.path, k[2]) ELSE e.path = k[2]

Says(e, k) ==
    IF k[1] = "disk" THEN IF e.do = "write" THEN <<e.blob>> ELSE <<>>
    ELSE IF e.path = k[2] /\ e.kind \notin {"deleted", "order.deleted"} THEN <<e.blob>> ELSE <<>>

(* The last word of s on k is v, if it has any. *)
Mentions(s, k) == \E i \in 1..Len(s) : Touches(s[i], k)
LastSays(s, k, v) ==
    \A i \in 1..Len(s) :
        Touches(s[i], k) /\ (\A j \in 1..Len(s) : j > i => ~Touches(s[j], k))
        => Says(s[i], k) = v

LEMMA OutcomeEmpty ==
    ASSUME NEW k, NEW v PROVE ~Mentions(<<>>, k) /\ LastSays(<<>>, k, v) /\ Listed(<<>>)
<1>1. Len(<<>>) = 0 /\ 1..0 = {} /\ <<>> \in Seq({})
  OBVIOUS
<1> QED
  BY <1>1, ListedIn DEF Mentions, LastSays

LEMMA OutcomeOne ==
    ASSUME NEW e, NEW k
    PROVE  /\ Mentions(<<e>>, k) <=> Touches(e, k)
           /\ \A v : LastSays(<<e>>, k, v) <=> (Touches(e, k) => Says(e, k) = v)
           /\ Listed(<<e>>) /\ Len(<<e>>) = 1 /\ <<e>>[1] = e
<1>1. /\ Len(<<e>>) = 1 /\ <<e>>[1] = e /\ <<e>> \in Seq({e})
      /\ \A i, j \in 1..1 : i = 1 /\ ~(j > i)
  OBVIOUS
<1>2. Listed(<<e>>)
  BY <1>1, ListedIn
<1> QED
  BY <1>1, <1>2 DEF Mentions, LastSays

LEMMA OutcomeConcat ==
    ASSUME NEW s, Listed(s), NEW t, Listed(t), NEW k
    PROVE  /\ Mentions(s \o t, k) <=> Mentions(s, k) \/ Mentions(t, k)
           /\ \A v : LastSays(s \o t, k, v)
                     <=> LastSays(t, k, v) /\ (Mentions(t, k) \/ LastSays(s, k, v))
<1> DEFINE st == s \o t
<1> DEFINE m == Len(s)
<1> DEFINE n == Len(t)
<1>1. m \in Nat /\ n \in Nat
  BY ListedFacts
<1>2. /\ Len(st) = m + n
      /\ \A i \in 1..m : st[i] = s[i]
      /\ \A i \in 1..n : st[m + i] = t[i]
  BY ListedConcat
<1> HIDE DEF st, m, n
<1>3. \A i \in 1..(m + n) : i \in 1..m \/ \E j \in 1..n : i = m + j
  <2> SUFFICES ASSUME NEW i \in 1..(m + n), i \notin 1..m PROVE \E j \in 1..n : i = m + j
    OBVIOUS
  <2>1. i - m \in 1..n /\ i = m + (i - m)
    BY <1>1
  <2> QED
    BY <2>1
<1>4. /\ \A i \in 1..m : i \in 1..(m + n)
      /\ \A i \in 1..n : m + i \in 1..(m + n)
      /\ \A i \in 1..m, j \in 1..n : m + j > i /\ ~(i > m + j)
      /\ \A i, j \in 1..n : (m + j > m + i) <=> (j > i)
  BY <1>1
<1>5. Mentions(st, k) <=> Mentions(s, k) \/ Mentions(t, k)
  <2>1. ASSUME Mentions(st, k) PROVE Mentions(s, k) \/ Mentions(t, k)
    <3>1. PICK i \in 1..(m + n) : Touches(st[i], k)
      BY <1>2, <2>1 DEF Mentions
    <3>2. CASE i \in 1..m
      BY <1>2, <3>1, <3>2 DEF Mentions, m
    <3>3. CASE \E j \in 1..n : i = m + j
      BY <1>2, <3>1, <3>3 DEF Mentions, n
    <3> QED
      BY <1>3, <3>2, <3>3
  <2>2. ASSUME Mentions(s, k) PROVE Mentions(st, k)
    BY <1>2, <1>4, <2>2 DEF Mentions, m
  <2>3. ASSUME Mentions(t, k) PROVE Mentions(st, k)
    <3>1. PICK j \in 1..n : Touches(t[j], k)
      BY <2>3 DEF Mentions, n
    <3>2. m + j \in 1..(m + n) /\ Touches(st[m + j], k)
      BY <1>2, <1>4, <3>1
    <3> QED
      BY <1>2, <3>2 DEF Mentions
  <2> QED
    BY <2>1, <2>2, <2>3
<1>6. ASSUME NEW v, LastSays(t, k, v), Mentions(t, k) \/ LastSays(s, k, v)
      PROVE  LastSays(st, k, v)
  <2> SUFFICES ASSUME NEW i \in 1..(m + n), Touches(st[i], k),
                      \A j \in 1..(m + n) : j > i => ~Touches(st[j], k)
               PROVE  Says(st[i], k) = v
    BY <1>2 DEF LastSays
  <2>1. CASE i \in 1..m
    <3>1. \A j \in 1..n : ~Touches(t[j], k)
      BY <1>2, <1>4, <2>1
    <3>2. LastSays(s, k, v)
      BY <1>6, <3>1 DEF Mentions, n
    <3>3. \A j \in 1..m : j > i => ~Touches(s[j], k)
      BY <1>2, <1>4
    <3> QED
      BY <1>2, <2>1, <3>2, <3>3 DEF LastSays, m
  <2>2. CASE \E j \in 1..n : i = m + j
    <3>1. PICK j \in 1..n : i = m + j
      BY <2>2
    <3>2. ASSUME NEW l \in 1..n, l > j PROVE ~Touches(t[l], k)
      <4>1. m + l \in 1..(m + n) /\ m + l > i
        BY <1>4, <3>1, <3>2
      <4> QED
        BY <1>2, <4>1
    <3> QED
      BY <1>2, <1>6, <3>1, <3>2 DEF LastSays, n
  <2> QED
    BY <1>3, <2>1, <2>2
<1>7. ASSUME NEW v, LastSays(st, k, v)
      PROVE  LastSays(t, k, v) /\ (Mentions(t, k) \/ LastSays(s, k, v))
  <2>1. ASSUME NEW i \in 1..n, Touches(t[i], k),
               \A j \in 1..n : j > i => ~Touches(t[j], k)
        PROVE  Says(t[i], k) = v
    <3>1. ASSUME NEW j \in 1..(m + n), j > m + i PROVE ~Touches(st[j], k)
      <4>1. PICK l \in 1..n : j = m + l
        BY <1>3, <1>4, <3>1
      <4>2. l > i
        BY <1>4, <3>1, <4>1
      <4> QED
        BY <1>2, <2>1, <4>1, <4>2
    <3> QED
      BY <1>2, <1>4, <1>7, <2>1, <3>1 DEF LastSays
  <2>2. ASSUME ~Mentions(t, k), NEW i \in 1..m, Touches(s[i], k),
               \A j \in 1..m : j > i => ~Touches(s[j], k)
        PROVE  Says(s[i], k) = v
    <3>1. ASSUME NEW j \in 1..(m + n), j > i PROVE ~Touches(st[j], k)
      <4>1. CASE j \in 1..m
        BY <1>2, <2>2, <3>1, <4>1
      <4>2. CASE \E l \in 1..n : j = m + l
        BY <1>2, <2>2, <4>2 DEF Mentions, n
      <4> QED
        BY <1>3, <4>1, <4>2
    <3> QED
      BY <1>2, <1>4, <1>7, <2>2, <3>1 DEF LastSays
  <2> QED
    BY <2>1, <2>2 DEF LastSays, m, n
<1> QED
  BY <1>5, <1>6, <1>7 DEF st

(* A whole sequence that speaks of k has a last word on it. *)
LEMMA LastWord ==
    ASSUME NEW s, Listed(s), NEW k, Mentions(s, k)
    PROVE  \E i \in 1..Len(s) :
              Touches(s[i], k) /\ \A j \in 1..Len(s) : j > i => ~Touches(s[j], k)
<1> DEFINE S == {i \in 1..Len(s) : Touches(s[i], k)}
<1>1. Len(s) \in Nat
  BY ListedFacts
<1>2. S \subseteq 0..Len(s) /\ S # {}
  BY <1>1 DEF Mentions
<1>3. PICK i \in S : \A j \in S : j <= i
  BY <1>1, <1>2, Greatest
<1>4. \A j \in 1..Len(s) : j > i => j \notin S
  BY <1>1, <1>3
<1> QED
  BY <1>3, <1>4

LEMMA FlattenSteps ==
    ASSUME NEW ss, Len(ss) \in Nat, Len(ss) > 0
    PROVE  \E f : /\ FlattenSeq(ss) = f[Len(ss)] /\ f[1] = ss[1]
                  /\ \A i \in 2..Len(ss) : f[i] = f[i - 1] \o ss[i]
<1> DEFINE N == Len(ss)
<1> DEFINE Made(g, n) == g = [i \in 1..n |-> IF i = 1 THEN ss[i] ELSE g[i - 1] \o ss[i]]
<1> DEFINE S == {n \in Nat : \E g : Made(g, n)}
<1>1. 0 \in S
  <2> DEFINE g == [i \in 1..0 |-> 0]
  <2>1. Made(g, 0)
    OBVIOUS
  <2> QED
    BY <2>1
<1>2. ASSUME NEW n \in Nat, n \in S PROVE n + 1 \in S
  <2>1. PICK g : Made(g, n)
    BY <1>2
  <2> DEFINE h == [i \in 1..(n + 1) |-> IF i = 1 THEN ss[i] ELSE g[i - 1] \o ss[i]]
  <2>3. /\ \A i \in 1..(n + 1) : i # 1 => i - 1 \in 1..n
        /\ \A i \in 1..n : i \in 1..(n + 1)
    OBVIOUS
  <2>6. \A i \in 1..n : g[i] = IF i = 1 THEN ss[i] ELSE g[i - 1] \o ss[i]
    BY <2>1
  <2>2. \A i \in 1..n : h[i] = g[i]
    BY <2>3, <2>6
  <2>4. \A i \in 1..(n + 1) : h[i] = IF i = 1 THEN ss[i] ELSE h[i - 1] \o ss[i]
    BY <2>2, <2>3
  <2>5. Made(h, n + 1)
    BY <2>4
  <2> HIDE DEF h, Made
  <2> QED
    BY <2>5
<1> HIDE DEF Made
<1>3. N \in S
  BY <1>1, <1>2, Induct
<1>4. \E g : Made(g, N)
  BY <1>3
<1> DEFINE f == CHOOSE g : Made(g, N)
<1>5. Made(f, N)
  BY <1>4
<1>6. FlattenSeq(ss) = f[N]
  BY DEF FlattenSeq, Made
<1> HIDE DEF f
<1>7. \A i \in 1..N : f[i] = IF i = 1 THEN ss[i] ELSE f[i - 1] \o ss[i]
  BY <1>5 DEF Made
<1>8. /\ 1 \in 1..N /\ \A i \in 2..N : i \in 1..N /\ i # 1
  OBVIOUS
<1>9. f[1] = ss[1] /\ \A i \in 2..N : f[i] = f[i - 1] \o ss[i]
  BY <1>7, <1>8
<1> QED
  BY <1>6, <1>9

(* Sequences put one after the other: what they are about and what they    *)
(* say last.                                                               *)
LEMMA FlattenOutcome ==
    ASSUME NEW ss, Len(ss) \in Nat, \A i \in 1..Len(ss) : Listed(ss[i])
    PROVE  /\ Len(ss) > 0 => Listed(FlattenSeq(ss))
           /\ Len(ss) > 0 => \A k :
                 /\ Mentions(FlattenSeq(ss), k) <=> \E i \in 1..Len(ss) : Mentions(ss[i], k)
                 /\ \A v : (\A i \in 1..Len(ss) :
                              (\A j \in 1..Len(ss) : j > i => ~Mentions(ss[j], k))
                              => LastSays(ss[i], k, v))
                           => LastSays(FlattenSeq(ss), k, v)
           /\ Len(ss) > 0 => Range(FlattenSeq(ss)) = UNION {Range(ss[i]) : i \in 1..Len(ss)}
<1> SUFFICES ASSUME Len(ss) > 0
             PROVE  /\ Listed(FlattenSeq(ss))
                    /\ \A k :
                          /\ Mentions(FlattenSeq(ss), k) <=> \E i \in 1..Len(ss) : Mentions(ss[i], k)
                          /\ \A v : (\A i \in 1..Len(ss) :
                                       (\A j \in 1..Len(ss) : j > i => ~Mentions(ss[j], k))
                                       => LastSays(ss[i], k, v))
                                    => LastSays(FlattenSeq(ss), k, v)
                    /\ Range(FlattenSeq(ss)) = UNION {Range(ss[i]) : i \in 1..Len(ss)}
  OBVIOUS
<1> DEFINE N == Len(ss)
<1>1. PICK f : /\ FlattenSeq(ss) = f[N] /\ f[1] = ss[1]
               /\ \A i \in 2..N : f[i] = f[i - 1] \o ss[i]
  BY FlattenSteps
<1> DEFINE Good(n) ==
      /\ Listed(f[n])
      /\ \A k :
            /\ Mentions(f[n], k) <=> \E i \in 1..n : Mentions(ss[i], k)
            /\ \A v : (\A i \in 1..n :
                         (\A j \in 1..n : j > i => ~Mentions(ss[j], k)) => LastSays(ss[i], k, v))
                      => LastSays(f[n], k, v)
      /\ Range(f[n]) = UNION {Range(ss[i]) : i \in 1..n}
<1> DEFINE S == {n \in Nat : n = 0 \/ n > N \/ Good(n)}
<1>2. Good(1)
  <2>1. 1..1 = {1} /\ 1 \in 1..N /\ ~(1 > 1)
    OBVIOUS
  <2>2. Listed(f[1]) /\ Range(f[1]) = UNION {Range(ss[i]) : i \in 1..1}
    BY <1>1, <2>1
  <2> QED
    BY <1>1, <2>1, <2>2
<1>3. ASSUME NEW n \in Nat, Good(n), n # 0, n + 1 <= N PROVE Good(n + 1)
  <2>1. Good(n)
    BY <1>3
  <2>2. n + 1 \in 2..N /\ n + 1 - 1 = n /\ n + 1 \in 1..N
    BY <1>3
  <2>3. f[n + 1] = f[n] \o ss[n + 1]
    <3>1. \A i \in 2..N : f[i] = f[i - 1] \o ss[i]
      BY <1>1
    <3> HIDE DEF N
    <3>2. PICK i \in 2..N : i = n + 1
      BY <2>2
    <3>3. f[i] = f[i - 1] \o ss[i]
      BY <3>1
    <3>4. i - 1 = n
      BY <3>2
    <3> QED
      BY <3>2, <3>3, <3>4
  <2>4. /\ 1..(n + 1) = (1..n) \cup {n + 1} /\ n + 1 \notin 1..n
        /\ \A i \in 1..n : n + 1 > i /\ ~(i > n + 1)
        /\ ~(n + 1 > n + 1)
    OBVIOUS
  <2>5. Listed(f[n]) /\ Listed(ss[n + 1])
    BY <2>1, <2>2
  <2>6. Listed(f[n + 1]) /\ Range(f[n + 1]) = Range(f[n]) \cup Range(ss[n + 1])
    BY <2>3, <2>5, ListedConcat
  <2>7. Range(f[n + 1]) = UNION {Range(ss[i]) : i \in 1..(n + 1)}
    BY <2>1, <2>4, <2>6
  <2>8. ASSUME NEW k
        PROVE  /\ Mentions(f[n + 1], k) <=> \E i \in 1..(n + 1) : Mentions(ss[i], k)
               /\ \A v : (\A i \in 1..(n + 1) :
                            (\A j \in 1..(n + 1) : j > i => ~Mentions(ss[j], k))
                            => LastSays(ss[i], k, v))
                         => LastSays(f[n + 1], k, v)
    <3>1. /\ Mentions(f[n + 1], k) <=> Mentions(f[n], k) \/ Mentions(ss[n + 1], k)
          /\ \A v : LastSays(f[n + 1], k, v)
                    <=> LastSays(ss[n + 1], k, v)
                        /\ (Mentions(ss[n + 1], k) \/ LastSays(f[n], k, v))
      BY <2>3, <2>5, OutcomeConcat
    <3>2. /\ Mentions(f[n], k) <=> \E i \in 1..n : Mentions(ss[i], k)
          /\ \A v : (\A i \in 1..n :
                       (\A j \in 1..n : j > i => ~Mentions(ss[j], k)) => LastSays(ss[i], k, v))
                    => LastSays(f[n], k, v)
      BY <2>1
    <3>3. Mentions(f[n + 1], k) <=> \E i \in 1..(n + 1) : Mentions(ss[i], k)
      BY <2>4, <3>1, <3>2
    <3>4. ASSUME NEW v,
                 \A i \in 1..(n + 1) :
                    (\A j \in 1..(n + 1) : j > i => ~Mentions(ss[j], k)) => LastSays(ss[i], k, v)
          PROVE  LastSays(f[n + 1], k, v)
      <4>1. LastSays(ss[n + 1], k, v)
        BY <2>4, <3>4
      <4>2. ASSUME ~Mentions(ss[n + 1], k) PROVE LastSays(f[n], k, v)
        <5>1. ASSUME NEW i \in 1..n, \A j \in 1..n : j > i => ~Mentions(ss[j], k)
              PROVE  LastSays(ss[i], k, v)
          <6>1. \A j \in 1..(n + 1) : j > i => ~Mentions(ss[j], k)
            BY <2>4, <4>2, <5>1
          <6> QED
            BY <2>4, <3>4, <6>1
        <5> QED
          BY <3>2, <5>1
      <4> QED
        BY <3>1, <4>1, <4>2
    <3> QED
      BY <3>3, <3>4
  <2> HIDE DEF N
  <2> QED
    BY <2>6, <2>7, <2>8
<1> HIDE DEF Good
<1>4. 0 \in S /\ \A n \in Nat : n \in S => n + 1 \in S
  BY <1>2, <1>3
<1>5. Good(N)
  <2>1. N \in S
    BY <1>4, Induct
  <2> QED
    BY <2>1
<1> QED
  BY <1>1, <1>5 DEF Good

(* A finite set put in a sequence. *)
LEMMA SetToSeqFacts ==
    ASSUME NEW S, IsFiniteSet(S)
    PROVE  /\ Listed(SetToSeq(S)) /\ Range(SetToSeq(S)) = S
           /\ \A i, j \in 1..Len(SetToSeq(S)) : SetToSeq(S)[i] = SetToSeq(S)[j] => i = j
<1> DEFINE n == Cardinality(S)
<1>1. n \in Nat /\ ExistsBijection(1..n, S)
  BY FS_CardinalityType
<1>2. \E f \in [1..n -> S] : IsInjective(f)
  BY <1>1 DEF ExistsBijection, Bijection, Injection
<1>3. SetToSeq(S) \in [1..n -> S] /\ IsInjective(SetToSeq(S))
  BY <1>2 DEF SetToSeq
<1> DEFINE f == SetToSeq(S)
<1>4. f \in Injection(1..n, S)
  BY <1>3 DEF Injection
<1>5. f \in Surjection(1..n, S)
  <2>1. Cardinality(1..n) = n
    BY <1>1, FS_Interval
  <2> QED
    BY <1>4, <2>1, FS_Injection
<1>6. Range(f) = S
  BY <1>3, <1>5 DEF Surjection, Range
<1>7. Listed(f) /\ Len(f) = n
  BY <1>1, <1>3, <1>6, SeqDef DEF Listed
<1> QED
  BY <1>3, <1>6, <1>7 DEF IsInjective

-----------------------------------------------------------------------------
(* What a receiver makes of a job. *)

(* What a tree has at a path, what a receiver has for a key, what a tree   *)
(* has for it; the keys, the events of a job and the changes of an edit.   *)
IsMap(f) == f = [x \in DOMAIN f |-> f[x]]
BlobAt(t, p) == IF p \in DOMAIN t THEN <<t[p]>> ELSE <<>>

FilePath == {p \in Path : ~IsIndex(p)}
Key == ({"file"} \X FilePath) \cup ({"order"} \X Path)
PathKey(k) == IF k[1] = "file" THEN k ELSE <<"file", IndexPath(k[2])>>
Held(table, k) ==
    IF k[1] = "file" THEN BlobAt(table.files, k[2]) ELSE BlobAt(table.orders, k[2])
Carried(t, k) == BlobAt(t, PathKey(k)[2])

IsTable(table) ==
    /\ table = [files |-> table.files, orders |-> table.orders]
    /\ IsMap(table.files) /\ IsMap(table.orders) /\ IsFiniteSet(DOMAIN table.files)
    /\ DOMAIN table.files \subseteq FilePath /\ DOMAIN table.orders \subseteq Path

IsEvent(e) ==
    \/ e.kind \in FileKinds /\ e.path \in FilePath /\ e.from \in FilePath
    \/ e.kind \in OrderKinds /\ e.path \in Path
IsChange(c) ==
    /\ c.kind \in FileKinds /\ c.path \in Legal /\ c.from \in Legal
    /\ IsIndex(c.path) <=> IsIndex(c.from)
    /\ c.kind # "moved" => c.from = c.path

LEMMA ReceivedSteps ==
    ASSUME NEW table, NEW job, Len(job) \in Nat
    PROVE  \E f : /\ Received(table, job) = f[Len(job)] /\ f[0] = table
                  /\ \A n \in 1..Len(job) : f[n] = Receive(f[n - 1], job[n])
<1> DEFINE N == Len(job)
<1> DEFINE Made(g, m) ==
      g = [n \in 0..m |-> IF n = 0 THEN table ELSE Receive(g[n - 1], job[n])]
<1> DEFINE S == {m \in Nat : \E g : Made(g, m)}
<1>1. 0 \in S
  <2> DEFINE g == [n \in 0..0 |-> table]
  <2>1. Made(g, 0)
    OBVIOUS
  <2> QED
    BY <2>1
<1>2. ASSUME NEW m \in Nat, m \in S PROVE m + 1 \in S
  <2>1. PICK g : Made(g, m)
    BY <1>2
  <2> DEFINE h == [n \in 0..(m + 1) |-> IF n = 0 THEN table ELSE Receive(g[n - 1], job[n])]
  <2>2. /\ \A n \in 0..(m + 1) : n # 0 => n - 1 \in 0..m
        /\ \A n \in 0..m : n \in 0..(m + 1)
    OBVIOUS
  <2>3. \A n \in 0..m : g[n] = IF n = 0 THEN table ELSE Receive(g[n - 1], job[n])
    BY <2>1
  <2>4. \A n \in 0..m : h[n] = g[n]
    BY <2>2, <2>3
  <2>5. \A n \in 0..(m + 1) : h[n] = IF n = 0 THEN table ELSE Receive(h[n - 1], job[n])
    BY <2>2, <2>4
  <2>6. Made(h, m + 1)
    BY <2>5
  <2> HIDE DEF h, Made
  <2> QED
    BY <2>6
<1> HIDE DEF Made
<1>3. N \in S
  BY <1>1, <1>2, Induct
<1>4. \E g : Made(g, N)
  BY <1>3
<1> DEFINE f == CHOOSE g : Made(g, N)
<1>5. Made(f, N)
  BY <1>4
<1>6. Received(table, job) = f[N]
  BY DEF Received, Made
<1> HIDE DEF f
<1>7. \A n \in 0..N : f[n] = IF n = 0 THEN table ELSE Receive(f[n - 1], job[n])
  BY <1>5 DEF Made
<1>8. 0 \in 0..N /\ \A n \in 1..N : n \in 0..N /\ n # 0
  OBVIOUS
<1>9. f[0] = table /\ \A n \in 1..N : f[n] = Receive(f[n - 1], job[n])
  BY <1>7, <1>8
<1> QED
  BY <1>6, <1>9

LEMMA WithDomain ==
    ASSUME NEW f, NEW x, NEW v PROVE DOMAIN With(f, x, v) = DOMAIN f \cup {x}
  BY DEF With, Overlay, Only

LEMMA WithFacts ==
    ASSUME NEW f, NEW x, NEW v
    PROVE  /\ IsMap(With(f, x, v)) /\ BlobAt(With(f, x, v), x) = <<v>>
           /\ \A y : y # x => BlobAt(With(f, x, v), y) = BlobAt(f, y)
<1> DEFINE g == With(f, x, v)
<1>1. /\ DOMAIN g = DOMAIN f \cup {x} /\ g[x] = v
      /\ \A y \in DOMAIN f : y # x => g[y] = f[y]
      /\ IsMap(g)
  BY DEF With, Overlay, Only, IsMap
<1> HIDE DEF g
<1> QED
  BY <1>1 DEF BlobAt, g

LEMMA WithoutFacts ==
    ASSUME NEW f, NEW x
    PROVE  /\ IsMap(Without(f, x)) /\ DOMAIN Without(f, x) = DOMAIN f \ {x}
           /\ \A y : BlobAt(Without(f, x), y) = IF y = x THEN <<>> ELSE BlobAt(f, y)
<1> DEFINE g == Without(f, x)
<1>1. /\ DOMAIN g = DOMAIN f \ {x}
      /\ \A y \in DOMAIN f \ {x} : g[y] = f[y]
      /\ IsMap(g)
  BY DEF Without, Restrict, IsMap
<1> HIDE DEF g
<1> QED
  BY <1>1 DEF BlobAt, g

LEMMA TableFacts ==
    ASSUME NEW F, NEW O, IsMap(F), IsMap(O), IsFiniteSet(DOMAIN F),
           DOMAIN F \subseteq FilePath, DOMAIN O \subseteq Path
    PROVE  IsTable([files |-> F, orders |-> O])
  BY DEF IsTable

LEMMA ReceiveTells ==
    ASSUME NEW table, IsTable(table), NEW e, IsEvent(e)
    PROVE  /\ IsTable(Receive(table, e))
           /\ \A k \in Key : Held(Receive(table, e), k)
                               = IF Touches(e, k) THEN Says(e, k) ELSE Held(table, k)
<1> DEFINE u == Receive(table, e)
<1> USE DEF FileKinds, OrderKinds, IsEvent
<1>0. IsMap(table.files) /\ IsMap(table.orders) /\ IsFiniteSet(DOMAIN table.files)
      /\ DOMAIN table.files \subseteq FilePath /\ DOMAIN table.orders \subseteq Path
  BY DEF IsTable
<1>1. CASE e.kind \in {"created", "updated"}
  <2> DEFINE F == With(table.files, e.path, e.blob)
             O == table.orders
  <2>5. e.path \in FilePath /\ e.from \in FilePath
    BY <1>1
  <2>1. /\ IsMap(F) /\ IsFiniteSet(DOMAIN F) /\ IsMap(O)
        /\ DOMAIN F \subseteq FilePath /\ DOMAIN O \subseteq Path
        /\ \A y : BlobAt(F, y) = IF y = e.path THEN <<e.blob>> ELSE BlobAt(table.files, y)
    <3>1. IsFiniteSet(DOMAIN table.files \cup {e.path})
      BY <1>0, FS_AddElement
    <3>4. DOMAIN F = DOMAIN table.files \cup {e.path}
      BY WithDomain
    <3>2. /\ IsMap(F) /\ BlobAt(F, e.path) = <<e.blob>>
          /\ \A y : y # e.path => BlobAt(F, y) = BlobAt(table.files, y)
      BY WithFacts
    <3> HIDE DEF F
    <3> QED
      BY <1>0, <2>5, <3>1, <3>2, <3>4
  <2>2. u = [files |-> F, orders |-> O]
    BY <1>1 DEF Receive, IsTable
  <2> HIDE DEF F, u
  <2>3. IsTable(u) /\ u.files = F /\ u.orders = O
    BY <2>1, <2>2, TableFacts
  <2>4. \A k \in Key : Held(u, k) = IF k[1] = "file" /\ k[2] = e.path THEN <<e.blob>>
                                    ELSE Held(table, k)
    BY <2>1, <2>3 DEF Held, Key
  <2> QED
    BY <1>1, <2>3, <2>4 DEF Touches, Says, Key, u
<1>2. CASE e.kind = "deleted"
  <2> DEFINE F == Without(table.files, e.path)
             O == table.orders
  <2>5. e.path \in FilePath /\ e.from \in FilePath
    BY <1>2
  <2>1. /\ IsMap(F) /\ IsFiniteSet(DOMAIN F) /\ IsMap(O)
        /\ DOMAIN F \subseteq FilePath /\ DOMAIN O \subseteq Path
        /\ \A y : BlobAt(F, y) = IF y = e.path THEN <<>> ELSE BlobAt(table.files, y)
    <3>1. IsFiniteSet(DOMAIN table.files \ {e.path})
      BY <1>0, FS_RemoveElement
    <3> QED
      BY <1>0, <3>1, WithoutFacts
  <2>2. u = [files |-> F, orders |-> O]
    BY <1>2 DEF Receive, IsTable
  <2> HIDE DEF F, u
  <2>3. IsTable(u) /\ u.files = F /\ u.orders = O
    BY <2>1, <2>2, TableFacts
  <2>4. \A k \in Key : Held(u, k) = IF k[1] = "file" /\ k[2] = e.path THEN <<>>
                                    ELSE Held(table, k)
    BY <2>1, <2>3 DEF Held, Key
  <2> QED
    BY <1>2, <2>3, <2>4 DEF Touches, Says, Key, u
<1>3. CASE e.kind = "moved"
  <2> DEFINE G == Without(table.files, e.from)
             F == With(G, e.path, e.blob)
             O == table.orders
  <2>5. e.path \in FilePath /\ e.from \in FilePath
    BY <1>3
  <2>1. /\ IsMap(F) /\ IsFiniteSet(DOMAIN F) /\ IsMap(O)
        /\ DOMAIN F \subseteq FilePath /\ DOMAIN O \subseteq Path
        /\ \A y : BlobAt(F, y) = IF y = e.path THEN <<e.blob>>
                                 ELSE IF y = e.from THEN <<>> ELSE BlobAt(table.files, y)
    <3>1. /\ DOMAIN G = DOMAIN table.files \ {e.from}
          /\ \A y : BlobAt(G, y) = IF y = e.from THEN <<>> ELSE BlobAt(table.files, y)
      BY WithoutFacts
    <3>2. IsFiniteSet(DOMAIN G \cup {e.path})
      BY <1>0, <3>1, FS_RemoveElement, FS_AddElement
    <3> HIDE DEF G
    <3>4. DOMAIN F = DOMAIN G \cup {e.path}
      BY WithDomain
    <3>3. /\ IsMap(F) /\ BlobAt(F, e.path) = <<e.blob>>
          /\ \A y : y # e.path => BlobAt(F, y) = BlobAt(G, y)
      BY WithFacts
    <3> HIDE DEF F
    <3> QED
      BY <1>0, <2>5, <3>1, <3>2, <3>3, <3>4
  <2>2. u = [files |-> F, orders |-> O]
    BY <1>3 DEF Receive, IsTable
  <2> HIDE DEF F, u
  <2>3. IsTable(u) /\ u.files = F /\ u.orders = O
    BY <2>1, <2>2, TableFacts
  <2>4. \A k \in Key : Held(u, k) = IF k[1] = "file" /\ k[2] = e.path THEN <<e.blob>>
                                    ELSE IF k[1] = "file" /\ k[2] = e.from THEN <<>>
                                    ELSE Held(table, k)
    BY <2>1, <2>3 DEF Held, Key
  <2> QED
    BY <1>3, <2>3, <2>4 DEF Touches, Says, Key, u
<1>4. CASE e.kind = "order.updated"
  <2> DEFINE F == table.files
             O == With(table.orders, e.path, e.blob)
  <2>5. e.path \in Path
    BY <1>4
  <2>1. /\ IsMap(F) /\ IsFiniteSet(DOMAIN F) /\ IsMap(O)
        /\ DOMAIN F \subseteq FilePath /\ DOMAIN O \subseteq Path
        /\ \A y : BlobAt(O, y) = IF y = e.path THEN <<e.blob>> ELSE BlobAt(table.orders, y)
    <3>1. /\ IsMap(O)
          /\ BlobAt(O, e.path) = <<e.blob>>
          /\ \A y : y # e.path => BlobAt(O, y) = BlobAt(table.orders, y)
      BY WithFacts
    <3>2. DOMAIN O = DOMAIN table.orders \cup {e.path}
      BY WithDomain
    <3> HIDE DEF O
    <3> QED
      BY <1>0, <2>5, <3>1, <3>2
  <2>2. u = [files |-> F, orders |-> O]
    BY <1>4 DEF Receive, IsTable
  <2> HIDE DEF O, u
  <2>3. IsTable(u) /\ u.files = F /\ u.orders = O
    BY <2>1, <2>2, TableFacts
  <2>4. \A k \in Key : Held(u, k) = IF k[1] = "order" /\ k[2] = e.path THEN <<e.blob>>
                                    ELSE Held(table, k)
    BY <2>1, <2>3 DEF Held, Key
  <2> QED
    BY <1>4, <2>3, <2>4 DEF Touches, Says, Key, u
<1>5. CASE e.kind = "order.deleted"
  <2> DEFINE F == table.files
             O == Without(table.orders, e.path)
  <2>5. e.path \in Path
    BY <1>5
  <2>1. /\ IsMap(F) /\ IsFiniteSet(DOMAIN F) /\ IsMap(O)
        /\ DOMAIN F \subseteq FilePath /\ DOMAIN O \subseteq Path
        /\ \A y : BlobAt(O, y) = IF y = e.path THEN <<>> ELSE BlobAt(table.orders, y)
    BY <1>0, <2>5, WithoutFacts
  <2>2. u = [files |-> F, orders |-> O]
    BY <1>5 DEF Receive, IsTable
  <2> HIDE DEF O, u
  <2>3. IsTable(u) /\ u.files = F /\ u.orders = O
    BY <2>1, <2>2, TableFacts
  <2>4. \A k \in Key : Held(u, k) = IF k[1] = "order" /\ k[2] = e.path THEN <<>>
                                    ELSE Held(table, k)
    BY <2>1, <2>3 DEF Held, Key
  <2> QED
    BY <1>5, <2>3, <2>4 DEF Touches, Says, Key, u
<1> QED
  BY <1>1, <1>2, <1>3, <1>4, <1>5

(* A receiver holds for a key what the last event about it says.           *)
LEMMA ReceivedTells ==
    ASSUME NEW table, IsTable(table), NEW job, Len(job) \in Nat,
           \A i \in 1..Len(job) : IsEvent(job[i])
    PROVE  /\ IsTable(Received(table, job))
           /\ \A k \in Key :
                 /\ ~Mentions(job, k) => Held(Received(table, job), k) = Held(table, k)
                 /\ \A i \in 1..Len(job) :
                       Touches(job[i], k) /\ (\A j \in 1..Len(job) : j > i => ~Touches(job[j], k))
                       => Held(Received(table, job), k) = Says(job[i], k)
<1> DEFINE N == Len(job)
<1>1. PICK f : /\ Received(table, job) = f[N] /\ f[0] = table
               /\ \A n \in 1..N : f[n] = Receive(f[n - 1], job[n])
  BY ReceivedSteps
<1> DEFINE Good(n) ==
      /\ IsTable(f[n])
      /\ \A k \in Key :
            /\ (\A i \in 1..n : ~Touches(job[i], k)) => Held(f[n], k) = Held(table, k)
            /\ \A i \in 1..n :
                  Touches(job[i], k) /\ (\A j \in 1..n : j > i => ~Touches(job[j], k))
                  => Held(f[n], k) = Says(job[i], k)
<1> DEFINE S == {n \in Nat : n > N \/ Good(n)}
<1>2. Good(0)
  BY <1>1
<1>3. ASSUME NEW n \in Nat, Good(n), n + 1 <= N PROVE Good(n + 1)
  <2>1. PICK m \in 1..N : m = n + 1
    BY <1>3
  <2>2. f[m] = Receive(f[n], job[m])
    <3>1. m - 1 = n
      BY <2>1
    <3> QED
      BY <1>1, <3>1
  <2>3. /\ IsTable(f[m])
        /\ \A k \in Key : Held(f[m], k) = IF Touches(job[m], k) THEN Says(job[m], k)
                                          ELSE Held(f[n], k)
    BY <1>3, <2>2, ReceiveTells
  <2>4. /\ 1..m = (1..n) \cup {m} /\ m \notin 1..n
        /\ \A i \in 1..n : m > i /\ ~(i > m)
        /\ ~(m > m)
    BY <2>1
  <2>5. ASSUME NEW k \in Key
        PROVE  /\ (\A i \in 1..m : ~Touches(job[i], k)) => Held(f[m], k) = Held(table, k)
               /\ \A i \in 1..m :
                     Touches(job[i], k) /\ (\A j \in 1..m : j > i => ~Touches(job[j], k))
                     => Held(f[m], k) = Says(job[i], k)
    BY <1>3, <2>3, <2>4
  <2> HIDE DEF N
  <2> QED
    BY <2>1, <2>3, <2>5
<1> HIDE DEF Good
<1>4. 0 \in S /\ \A n \in Nat : n \in S => n + 1 \in S
  BY <1>2, <1>3
<1>5. Good(N)
  <2>1. N \in S
    BY <1>4, Induct
  <2> QED
    BY <2>1
<1> QED
  BY <1>1, <1>5 DEF Good, Mentions

(* Each element of s becomes a short sequence that says of k what the      *)
(* element said of l: so does the whole.                                   *)
LEMMA SpreadOutcome ==
    ASSUME NEW s, Listed(s), NEW ss, DOMAIN ss = 1..Len(s), Len(ss) = Len(s),
           ss = [i \in 1..Len(s) |-> ss[i]], NEW k, NEW l,
           \A i \in 1..Len(s) :
              /\ Listed(ss[i])
              /\ Mentions(ss[i], k) <=> Touches(s[i], l)
              /\ Touches(s[i], l) => LastSays(ss[i], k, Says(s[i], l))
    PROVE  /\ Mentions(FlattenSeq(ss), k) <=> Mentions(s, l)
           /\ \A v : LastSays(s, l, v) => LastSays(FlattenSeq(ss), k, v)
<1> DEFINE N == Len(s)
<1>1. N \in Nat
  BY ListedFacts
<1>2. CASE N = 0
  <2>1. FlattenSeq(ss) = ss /\ Len(ss) = 0
    BY <1>2 DEF FlattenSeq
  <2>2. \A i \in 1..N : FALSE
    BY <1>2
  <2> QED
    BY <2>1, <2>2 DEF Mentions, LastSays
<1>3. CASE N > 0
  <2>1. \A i \in 1..N : ~Touches(s[i], l) => \A v : LastSays(ss[i], k, v)
    <3> SUFFICES ASSUME NEW i \in 1..N, ~Touches(s[i], l), NEW v
                 PROVE  LastSays(ss[i], k, v)
      OBVIOUS
    <3>1. ~Mentions(ss[i], k)
      OBVIOUS
    <3> QED
      BY <3>1 DEF Mentions, LastSays
  <2>2. \A i \in 1..N : \A v : (Touches(s[i], l) => Says(s[i], l) = v) => LastSays(ss[i], k, v)
    BY <2>1
  <2>3. /\ Mentions(FlattenSeq(ss), k) <=> \E i \in 1..N : Mentions(ss[i], k)
        /\ \A v : (\A i \in 1..N :
                     (\A j \in 1..N : j > i => ~Mentions(ss[j], k)) => LastSays(ss[i], k, v))
                  => LastSays(FlattenSeq(ss), k, v)
    BY <1>1, <1>3, FlattenOutcome
  <2>4. Mentions(FlattenSeq(ss), k) <=> Mentions(s, l)
    BY <2>3 DEF Mentions
  <2>5. ASSUME NEW v, LastSays(s, l, v) PROVE LastSays(FlattenSeq(ss), k, v)
    <3>1. ASSUME NEW i \in 1..N, \A j \in 1..N : j > i => ~Mentions(ss[j], k)
          PROVE  LastSays(ss[i], k, v)
      <4>1. \A j \in 1..N : j > i => ~Touches(s[j], l)
        BY <3>1
      <4>2. Touches(s[i], l) => Says(s[i], l) = v
        BY <2>5, <4>1 DEF LastSays
      <4> QED
        BY <2>2, <4>2
    <3> QED
      BY <2>3, <3>1
  <2> QED
    BY <2>4, <2>5
<1> QED
  BY <1>1, <1>2, <1>3

LEMMA FlattenListed ==
    ASSUME NEW ss, NEW n \in Nat, ss = [i \in 1..n |-> ss[i]], \A i \in 1..n : Listed(ss[i])
    PROVE  /\ Listed(FlattenSeq(ss)) /\ Len(ss) = n
           /\ Range(FlattenSeq(ss)) = UNION {Range(ss[i]) : i \in 1..n}
<1>1. Listed(ss) /\ Len(ss) = n
  BY ListedBy
<1>2. CASE n = 0
  <2>1. FlattenSeq(ss) = ss
    BY <1>1, <1>2 DEF FlattenSeq
  <2>2. Range(ss) = {} /\ \A i \in 1..n : FALSE
    BY <1>2 DEF Range
  <2> QED
    BY <1>1, <2>1, <2>2
<1>3. CASE n > 0
  BY <1>1, <1>3, FlattenOutcome
<1> QED
  BY <1>2, <1>3

(* What the hooks are told of the changes of an edit: for each file and    *)
(* each order what the changes say of its blob.                            *)
LEMMA OrderEventsTell ==
    ASSUME NEW c, IsChange(c), IsIndex(c.path)
    PROVE  /\ Listed(OrderEvents(c)) /\ Len(OrderEvents(c)) > 0
           /\ \A e \in Range(OrderEvents(c)) : IsEvent(e)
           /\ \A p \in FilePath : ~Mentions(OrderEvents(c), <<"file", p>>)
           /\ \A d \in Path :
                 LET k == <<"order", d>>
                     l == <<"file", IndexPath(d)>>
                 IN /\ Mentions(OrderEvents(c), k) <=> Touches(c, l)
                    /\ Touches(c, l) => LastSays(OrderEvents(c), k, Says(c, l))
<1> DEFINE updated == [kind |-> "order.updated", path |-> Parent(c.path),
                       from |-> Parent(c.path), blob |-> c.blob]
           dropped == [kind |-> "order.deleted", path |-> Parent(c.from),
                       from |-> Parent(c.from), blob |-> NoBlob]
<1>1. /\ c.path \in Path /\ c.from \in Path /\ Parent(c.path) \in Path /\ Parent(c.from) \in Path
      /\ c.path = IndexPath(Parent(c.path)) /\ c.from = IndexPath(Parent(c.from))
      /\ c.kind \in FileKinds /\ (c.kind # "moved" => c.from = c.path)
  <2>1. c.path \in Legal /\ c.from \in Legal /\ IsIndex(c.from)
    BY DEF IsChange
  <2>2. Parent(c.path) \in Seq(Name) /\ Parent(c.from) \in Seq(Name)
    BY <2>1, LegalFacts
  <2>3. c.path = IndexPath(Parent(c.path)) /\ c.from = IndexPath(Parent(c.from))
    BY <2>1, LegalFacts
  <2> QED
    BY <2>1, <2>2, <2>3, LegalFacts DEF IsChange
<1>2. /\ IsEvent(updated) /\ IsEvent(dropped)
      /\ \A p \in FilePath : ~Touches(updated, <<"file", p>>) /\ ~Touches(dropped, <<"file", p>>)
  BY <1>1 DEF IsEvent, OrderKinds, FileKinds, Touches
<1>3. ASSUME NEW d \in Path
      PROVE  /\ Touches(updated, <<"order", d>>) <=> c.path = IndexPath(d)
             /\ Touches(dropped, <<"order", d>>) <=> c.from = IndexPath(d)
             /\ Touches(updated, <<"order", d>>) => Says(updated, <<"order", d>>) = <<c.blob>>
             /\ Says(dropped, <<"order", d>>) = <<>>
  <2>1. Parent(c.path) = d <=> c.path = IndexPath(d)
    BY <1>1, LegalFacts
  <2>2. Parent(c.from) = d <=> c.from = IndexPath(d)
    BY <1>1, LegalFacts
  <2> QED
    BY <2>1, <2>2 DEF Touches, Says, OrderKinds
<1>4. ASSUME NEW d \in Path
      PROVE  LET l == <<"file", IndexPath(d)>>
             IN /\ Touches(c, l) <=> c.path = IndexPath(d) \/ (c.kind = "moved" /\ c.from = IndexPath(d))
                /\ Says(c, l) = IF c.path = IndexPath(d) /\ c.kind # "deleted" THEN <<c.blob>> ELSE <<>>
  BY <1>1 DEF Touches, Says, FileKinds
<1> HIDE DEF updated, dropped
<1>5. CASE c.kind = "deleted"
  <2>1. OrderEvents(c) = <<dropped>>
    BY <1>5 DEF OrderEvents, dropped
  <2>2. Range(<<dropped>>) = {dropped}
    BY DEF Range
  <2>3. \A k : /\ Mentions(OrderEvents(c), k) <=> Touches(dropped, k)
               /\ \A v : LastSays(OrderEvents(c), k, v) <=> (Touches(dropped, k) => Says(dropped, k) = v)
    BY <2>1, OutcomeOne
  <2>4. Listed(OrderEvents(c)) /\ Len(OrderEvents(c)) = 1
    BY <2>1, OutcomeOne
  <2> QED
    BY <1>1, <1>2, <1>3, <1>4, <1>5, <2>1, <2>2, <2>3, <2>4
<1>6. CASE c.kind = "moved"
  <2>1. OrderEvents(c) = <<dropped>> \o <<updated>>
    BY <1>6 DEF OrderEvents, dropped, updated, IsChange
  <2>2. Range(<<dropped>>) = {dropped} /\ Range(<<updated>>) = {updated}
    BY DEF Range
  <2>3. /\ Listed(<<dropped>>) /\ Listed(<<updated>>) /\ Len(<<dropped>>) = 1 /\ Len(<<updated>>) = 1
        /\ \A k : /\ Mentions(<<dropped>>, k) <=> Touches(dropped, k)
                  /\ Mentions(<<updated>>, k) <=> Touches(updated, k)
                  /\ \A v : LastSays(<<dropped>>, k, v) <=> (Touches(dropped, k) => Says(dropped, k) = v)
                  /\ \A v : LastSays(<<updated>>, k, v) <=> (Touches(updated, k) => Says(updated, k) = v)
    BY OutcomeOne
  <2>8. /\ Listed(OrderEvents(c)) /\ Len(OrderEvents(c)) = 1 + 1
        /\ Range(OrderEvents(c)) = Range(<<dropped>>) \cup Range(<<updated>>)
    BY <2>1, <2>3, ListedConcat
  <2>4. /\ Listed(OrderEvents(c)) /\ Len(OrderEvents(c)) = 2
        /\ Range(OrderEvents(c)) = {dropped, updated}
    BY <2>2, <2>8
  <2>5. \A k : /\ Mentions(OrderEvents(c), k) <=> Touches(dropped, k) \/ Touches(updated, k)
               /\ \A v : LastSays(OrderEvents(c), k, v)
                         <=> /\ Touches(updated, k) => Says(updated, k) = v
                             /\ Touches(updated, k) \/ (Touches(dropped, k) => Says(dropped, k) = v)
    BY <2>1, <2>3, OutcomeConcat
  <2>6. \A p \in FilePath : ~Mentions(OrderEvents(c), <<"file", p>>)
    BY <1>2, <2>5
  <2>7. ASSUME NEW d \in Path
        PROVE  LET k == <<"order", d>>
                   l == <<"file", IndexPath(d)>>
               IN /\ Mentions(OrderEvents(c), k) <=> Touches(c, l)
                  /\ Touches(c, l) => LastSays(OrderEvents(c), k, Says(c, l))
    BY <1>3, <1>4, <1>6, <2>5
  <2> QED
    BY <1>2, <2>4, <2>6, <2>7
<1>7. CASE c.kind \in {"created", "updated"}
  <2>1. OrderEvents(c) = <<updated>>
    BY <1>7 DEF OrderEvents, updated
  <2>2. Range(<<updated>>) = {updated}
    BY DEF Range
  <2>3. \A k : /\ Mentions(OrderEvents(c), k) <=> Touches(updated, k)
               /\ \A v : LastSays(OrderEvents(c), k, v) <=> (Touches(updated, k) => Says(updated, k) = v)
    BY <2>1, OutcomeOne
  <2>4. Listed(OrderEvents(c)) /\ Len(OrderEvents(c)) = 1
    BY <2>1, OutcomeOne
  <2> QED
    BY <1>1, <1>2, <1>3, <1>4, <1>7, <2>1, <2>2, <2>3, <2>4
<1> QED
  BY <1>1, <1>5, <1>6, <1>7 DEF FileKinds

LEMMA JobTells ==
    ASSUME NEW changes, Listed(changes), \A c \in Range(changes) : IsChange(c)
    PROVE  /\ Listed(Job(changes)) /\ \A e \in Range(Job(changes)) : IsEvent(e)
           /\ changes # <<>> => Job(changes) # <<>>
           /\ \A k \in Key :
                 /\ Mentions(Job(changes), k) <=> Mentions(changes, PathKey(k))
                 /\ \A v : LastSays(changes, PathKey(k), v) => LastSays(Job(changes), k, v)
<1> DEFINE N == Len(changes)
           fs == [i \in DOMAIN changes |->
                     IF IsIndex(changes[i].path) THEN <<>> ELSE <<changes[i]>>]
           os == [i \in DOMAIN changes |->
                     IF IsIndex(changes[i].path) THEN OrderEvents(changes[i]) ELSE <<>>]
<1>1. N \in Nat /\ DOMAIN changes = 1..N /\ (changes # <<>> <=> N > 0)
  BY ListedFacts
<1>2. \A i \in 1..N : IsChange(changes[i])
  BY <1>1 DEF Range
<1>3. /\ FileEvents(changes) = FlattenSeq(fs) /\ IndexEvents(changes) = FlattenSeq(os)
  BY DEF FileEvents, IndexEvents
<1>4. /\ fs = [i \in 1..N |-> fs[i]] /\ os = [i \in 1..N |-> os[i]]
      /\ DOMAIN fs = 1..N /\ DOMAIN os = 1..N
      /\ \A i \in 1..N : /\ fs[i] = IF IsIndex(changes[i].path) THEN <<>> ELSE <<changes[i]>>
                         /\ os[i] = IF IsIndex(changes[i].path) THEN OrderEvents(changes[i]) ELSE <<>>
  BY <1>1
<1> HIDE DEF fs, os, N
<1>5. \A i \in 1..N : /\ Listed(fs[i]) /\ Listed(os[i])
                      /\ \A e \in Range(fs[i]) \cup Range(os[i]) : IsEvent(e)
                      /\ Len(fs[i]) > 0 \/ Len(os[i]) > 0
  <2> SUFFICES ASSUME NEW i \in 1..N
               PROVE  /\ Listed(fs[i]) /\ Listed(os[i])
                      /\ \A e \in Range(fs[i]) \cup Range(os[i]) : IsEvent(e)
                      /\ Len(fs[i]) > 0 \/ Len(os[i]) > 0
    OBVIOUS
  <2> DEFINE c == changes[i]
  <2>1. Listed(<<>>) /\ Range(<<>>) = {} /\ Listed(<<c>>) /\ Range(<<c>>) = {c} /\ Len(<<c>>) = 1
    BY OutcomeOne, OutcomeEmpty DEF Range
  <2>2. IsChange(c)
    BY <1>2
  <2>3. CASE IsIndex(c.path)
    <3>1. /\ Listed(OrderEvents(c)) /\ Len(OrderEvents(c)) > 0
          /\ \A e \in Range(OrderEvents(c)) : IsEvent(e)
      BY <2>2, <2>3, OrderEventsTell
    <3>2. fs[i] = <<>> /\ os[i] = OrderEvents(c)
      BY <1>4, <2>3
    <3> HIDE DEF c
    <3> QED
      BY <2>1, <3>1, <3>2
  <2>4. CASE ~IsIndex(c.path)
    <3>1. fs[i] = <<c>> /\ os[i] = <<>>
      BY <1>4, <2>4
    <3>2. IsEvent(c)
      BY <2>2, <2>4, LegalFacts DEF IsEvent, IsChange, FilePath
    <3> HIDE DEF c
    <3> QED
      BY <2>1, <3>1, <3>2
  <2> QED
    BY <2>3, <2>4
<1>6. /\ Listed(FlattenSeq(fs)) /\ Len(fs) = N /\ Range(FlattenSeq(fs)) = UNION {Range(fs[i]) : i \in 1..N}
      /\ Listed(FlattenSeq(os)) /\ Len(os) = N /\ Range(FlattenSeq(os)) = UNION {Range(os[i]) : i \in 1..N}
  BY <1>1, <1>4, <1>5, FlattenListed DEF N
<1>7. /\ Listed(Job(changes))
      /\ Range(Job(changes)) = Range(FlattenSeq(fs)) \cup Range(FlattenSeq(os))
  BY <1>3, <1>6, ListedConcat DEF Job
<1>8. \A e \in Range(Job(changes)) : IsEvent(e)
  BY <1>5, <1>6, <1>7
<1>9. changes # <<>> => Job(changes) # <<>>
  <2> SUFFICES ASSUME changes # <<>> PROVE Job(changes) # <<>>
    OBVIOUS
  <2>1. 1 \in 1..N
    BY <1>1
  <2>2. \E e : e \in Range(fs[1]) \cup Range(os[1])
    <3>1. \A s : Listed(s) /\ Len(s) > 0 => s[1] \in Range(s)
      <4> SUFFICES ASSUME NEW s, Listed(s), Len(s) > 0 PROVE s[1] \in Range(s)
        OBVIOUS
      <4>1. 1 \in DOMAIN s
        BY ListedFacts
      <4> QED
        BY <4>1 DEF Range
    <3> QED
      BY <1>5, <2>1, <3>1
  <2>3. \E e : e \in Range(Job(changes))
    BY <1>6, <1>7, <2>1, <2>2
  <2> QED
    BY <2>3 DEF Range
<1>10. ASSUME NEW p \in FilePath
       PROVE  LET k == <<"file", p>>
              IN /\ Mentions(Job(changes), k) <=> Mentions(changes, k)
                 /\ \A v : LastSays(changes, k, v) => LastSays(Job(changes), k, v)
  <2> DEFINE k == <<"file", p>>
  <2>1. ASSUME NEW i \in 1..N
        PROVE  /\ Mentions(fs[i], k) <=> Touches(changes[i], k)
               /\ Touches(changes[i], k) => LastSays(fs[i], k, Says(changes[i], k))
               /\ ~Mentions(os[i], k)
    <3>1. CASE IsIndex(changes[i].path)
      <4>1. ~Touches(changes[i], k)
        BY <1>2, <3>1 DEF IsChange, Touches, FilePath
      <4>2. ~Mentions(OrderEvents(changes[i]), k)
        BY <1>2, <3>1, OrderEventsTell
      <4> QED
        BY <1>4, <3>1, <4>1, <4>2, OutcomeEmpty
    <3>2. CASE ~IsIndex(changes[i].path)
      BY <1>4, <3>2, OutcomeOne, OutcomeEmpty
    <3> QED
      BY <3>1, <3>2
  <2>2. /\ Mentions(FlattenSeq(fs), k) <=> Mentions(changes, k)
        /\ \A v : LastSays(changes, k, v) => LastSays(FlattenSeq(fs), k, v)
    BY <1>1, <1>4, <1>5, <1>6, <2>1, SpreadOutcome DEF N
  <2>3. ~Mentions(FlattenSeq(os), k)
    <3>1. CASE N = 0
      <4>1. FlattenSeq(os) = os
        BY <1>6, <3>1 DEF FlattenSeq
      <4>2. \A i \in 1..0 : FALSE
        OBVIOUS
      <4> QED
        BY <1>6, <3>1, <4>1, <4>2 DEF Mentions
    <3>2. CASE N > 0
      BY <1>1, <1>5, <1>6, <2>1, <3>2, FlattenOutcome
    <3> QED
      BY <1>1, <3>1, <3>2 DEF N
  <2>4. /\ Mentions(Job(changes), k) <=> Mentions(FlattenSeq(fs), k) \/ Mentions(FlattenSeq(os), k)
        /\ \A v : LastSays(Job(changes), k, v)
                  <=> /\ LastSays(FlattenSeq(os), k, v)
                      /\ Mentions(FlattenSeq(os), k) \/ LastSays(FlattenSeq(fs), k, v)
    BY <1>3, <1>6, OutcomeConcat DEF Job
  <2>5. \A v : LastSays(FlattenSeq(os), k, v)
    BY <2>3 DEF Mentions, LastSays
  <2> QED
    BY <2>2, <2>3, <2>4, <2>5
<1>11. ASSUME NEW d \in Path
       PROVE  LET k == <<"order", d>>
                  l == <<"file", IndexPath(d)>>
              IN /\ Mentions(Job(changes), k) <=> Mentions(changes, l)
                 /\ \A v : LastSays(changes, l, v) => LastSays(Job(changes), k, v)
  <2> DEFINE k == <<"order", d>>
             l == <<"file", IndexPath(d)>>
  <2>1. ASSUME NEW i \in 1..N
        PROVE  /\ Mentions(os[i], k) <=> Touches(changes[i], l)
               /\ Touches(changes[i], l) => LastSays(os[i], k, Says(changes[i], l))
    <3>1. CASE IsIndex(changes[i].path)
      <4>1. /\ Mentions(OrderEvents(changes[i]), k) <=> Touches(changes[i], l)
            /\ Touches(changes[i], l) => LastSays(OrderEvents(changes[i]), k, Says(changes[i], l))
        BY <1>2, <3>1, OrderEventsTell
      <4> QED
        BY <1>4, <3>1, <4>1
    <3>2. CASE ~IsIndex(changes[i].path)
      <4>1. IsIndex(IndexPath(d))
        BY LegalFacts
      <4>2. ~Touches(changes[i], l)
        BY <1>2, <3>2, <4>1 DEF IsChange, Touches
      <4> QED
        BY <1>4, <3>2, <4>2, OutcomeEmpty
    <3> QED
      BY <3>1, <3>2
  <2>2. /\ Mentions(FlattenSeq(os), k) <=> Mentions(changes, l)
        /\ \A v : LastSays(changes, l, v) => LastSays(FlattenSeq(os), k, v)
    BY <1>1, <1>4, <1>5, <1>6, <2>1, SpreadOutcome DEF N
  <2>3. ~Mentions(FlattenSeq(fs), k)
    <3>1. \A i \in 1..N : \A e \in Range(fs[i]) : ~Touches(e, k)
      <4> SUFFICES ASSUME NEW i \in 1..N, NEW e \in Range(fs[i]) PROVE ~Touches(e, k)
        OBVIOUS
      <4>1. Range(<<>>) = {} /\ Range(<<changes[i]>>) = {changes[i]}
        BY DEF Range
      <4>2. e = changes[i]
        BY <1>4, <4>1
      <4> QED
        BY <1>2, <4>2 DEF IsChange, Touches, FileKinds, OrderKinds
    <3>2. \A e \in Range(FlattenSeq(fs)) : ~Touches(e, k)
      BY <1>6, <3>1
    <3> QED
      BY <1>6, <3>2, ListedFacts DEF Mentions, Range
  <2>4. /\ Mentions(Job(changes), k) <=> Mentions(FlattenSeq(fs), k) \/ Mentions(FlattenSeq(os), k)
        /\ \A v : LastSays(Job(changes), k, v)
                  <=> /\ LastSays(FlattenSeq(os), k, v)
                      /\ Mentions(FlattenSeq(os), k) \/ LastSays(FlattenSeq(fs), k, v)
    BY <1>3, <1>6, OutcomeConcat DEF Job
  <2>5. \A v : LastSays(FlattenSeq(fs), k, v)
    BY <2>3 DEF Mentions, LastSays
  <2> QED
    BY <2>2, <2>3, <2>4, <2>5
<1>12. ASSUME NEW k \in Key
       PROVE  /\ Mentions(Job(changes), k) <=> Mentions(changes, PathKey(k))
              /\ \A v : LastSays(changes, PathKey(k), v) => LastSays(Job(changes), k, v)
  <2>1. CASE \E p \in FilePath : k = <<"file", p>>
    <3>1. PICK p \in FilePath : k = <<"file", p>>
      BY <2>1
    <3>2. PathKey(k) = <<"file", p>>
      BY <3>1 DEF PathKey
    <3> QED
      BY <1>10, <3>1, <3>2
  <2>2. CASE \E d \in Path : k = <<"order", d>>
    <3>1. PICK d \in Path : k = <<"order", d>>
      BY <2>2
    <3>2. PathKey(k) = <<"file", IndexPath(d)>>
      BY <3>1 DEF PathKey
    <3> QED
      BY <1>11, <3>1, <3>2
  <2> QED
    BY <2>1, <2>2 DEF Key
<1> QED
  BY <1>7, <1>8, <1>9, <1>12

(* A job tells files first and orders last.                                *)
LEMMA OrderEventKinds ==
    ASSUME NEW c, IsChange(c)
    PROVE  \A e \in Range(OrderEvents(c)) : e.kind \in OrderKinds
<1> DEFINE updated == [kind |-> "order.updated", path |-> Parent(c.path),
                       from |-> Parent(c.path), blob |-> c.blob]
           dropped == [kind |-> "order.deleted", path |-> Parent(c.from),
                       from |-> Parent(c.from), blob |-> NoBlob]
<1>1. updated.kind \in OrderKinds /\ dropped.kind \in OrderKinds
  BY DEF OrderKinds
<1>2. \/ OrderEvents(c) = <<dropped>>
      \/ OrderEvents(c) = <<dropped>> \o <<updated>>
      \/ OrderEvents(c) = <<>> \o <<updated>>
      \/ OrderEvents(c) = <<updated>>
  BY DEF OrderEvents
<1> HIDE DEF updated, dropped
<1>3. /\ Range(<<dropped>>) = {dropped} /\ Range(<<updated>>) = {updated} /\ Range(<<>>) = {}
  BY DEF Range
<1>4. /\ Listed(<<dropped>>) /\ Listed(<<updated>>) /\ Listed(<<>>)
  BY OutcomeOne, OutcomeEmpty
<1>5. /\ Range(<<dropped>> \o <<updated>>) = Range(<<dropped>>) \cup Range(<<updated>>)
      /\ Range(<<>> \o <<updated>>) = Range(<<>>) \cup Range(<<updated>>)
  BY <1>4, ListedConcat
<1>6. Range(OrderEvents(c)) \subseteq {dropped, updated}
  BY <1>2, <1>3, <1>5
<1> QED
  BY <1>1, <1>6

LEMMA OrdersLast ==
    ASSUME NEW changes, Listed(changes), \A c \in Range(changes) : IsChange(c)
    PROVE  \A i, j \in 1..Len(Job(changes)) :
              Job(changes)[i].kind \in OrderKinds /\ j > i => Job(changes)[j].kind \in OrderKinds
<1> DEFINE N == Len(changes)
           fs == [i \in DOMAIN changes |->
                     IF IsIndex(changes[i].path) THEN <<>> ELSE <<changes[i]>>]
           os == [i \in DOMAIN changes |->
                     IF IsIndex(changes[i].path) THEN OrderEvents(changes[i]) ELSE <<>>]
<1>1. N \in Nat /\ DOMAIN changes = 1..N
  BY ListedFacts
<1>2. \A i \in 1..N : IsChange(changes[i])
  BY <1>1 DEF Range
<1>3. /\ FileEvents(changes) = FlattenSeq(fs) /\ IndexEvents(changes) = FlattenSeq(os)
  BY DEF FileEvents, IndexEvents
<1>4. /\ fs = [i \in 1..N |-> fs[i]] /\ os = [i \in 1..N |-> os[i]]
      /\ \A i \in 1..N : /\ fs[i] = IF IsIndex(changes[i].path) THEN <<>> ELSE <<changes[i]>>
                         /\ os[i] = IF IsIndex(changes[i].path) THEN OrderEvents(changes[i]) ELSE <<>>
  BY <1>1
<1> HIDE DEF fs, os, N
<1>5. ASSUME NEW i \in 1..N
      PROVE  /\ Listed(fs[i]) /\ Listed(os[i])
             /\ \A e \in Range(fs[i]) : e.kind \notin OrderKinds
             /\ \A e \in Range(os[i]) : e.kind \in OrderKinds
  <2> DEFINE c == changes[i]
  <2>1. Listed(<<>>) /\ Range(<<>>) = {} /\ Listed(<<c>>) /\ Range(<<c>>) = {c}
    BY OutcomeOne, OutcomeEmpty DEF Range
  <2>2. IsChange(c) /\ c.kind \notin OrderKinds
    BY <1>2 DEF IsChange, FileKinds, OrderKinds
  <2>3. IsIndex(c.path) => Listed(OrderEvents(c))
    BY <2>2, OrderEventsTell
  <2>4. \A e \in Range(OrderEvents(c)) : e.kind \in OrderKinds
    BY <2>2, OrderEventKinds
  <2>5. /\ fs[i] = IF IsIndex(c.path) THEN <<>> ELSE <<c>>
        /\ os[i] = IF IsIndex(c.path) THEN OrderEvents(c) ELSE <<>>
    BY <1>4
  <2> HIDE DEF c
  <2> QED
    BY <2>1, <2>2, <2>3, <2>4, <2>5
<1>6. /\ Listed(FlattenSeq(fs)) /\ Range(FlattenSeq(fs)) = UNION {Range(fs[i]) : i \in 1..N}
      /\ Listed(FlattenSeq(os)) /\ Range(FlattenSeq(os)) = UNION {Range(os[i]) : i \in 1..N}
  BY <1>1, <1>4, <1>5, FlattenListed DEF N
<1> DEFINE F == FlattenSeq(fs)
           O == FlattenSeq(os)
           J == Job(changes)
<1>7. J = F \o O
  BY <1>3 DEF Job
<1>8. /\ \A e \in Range(F) : e.kind \notin OrderKinds
      /\ \A e \in Range(O) : e.kind \in OrderKinds
  BY <1>5, <1>6
<1>9. Listed(F) /\ Listed(O)
  BY <1>6
<1> HIDE DEF F, O, J
<1>10. /\ Len(F) \in Nat /\ Range(F) = {F[i] : i \in 1..Len(F)}
       /\ Len(O) \in Nat /\ Range(O) = {O[i] : i \in 1..Len(O)}
  BY <1>9, ListedFacts
<1>11. /\ Len(J) = Len(F) + Len(O)
       /\ \A i \in 1..Len(F) : J[i] = F[i]
       /\ \A i \in 1..Len(O) : J[Len(F) + i] = O[i]
  BY <1>7, <1>9, ListedConcat
<1> SUFFICES ASSUME NEW i \in 1..Len(J), NEW j \in 1..Len(J), J[i].kind \in OrderKinds, j > i
             PROVE  J[j].kind \in OrderKinds
  BY DEF J
<1>12. i \notin 1..Len(F)
  BY <1>8, <1>10, <1>11
<1>13. PICK l \in 1..Len(O) : j = Len(F) + l
  <2>1. j - Len(F) \in 1..Len(O) /\ j = Len(F) + (j - Len(F))
    BY <1>10, <1>11, <1>12
  <2> QED
    BY <2>1
<1> QED
  BY <1>8, <1>10, <1>11, <1>13

-----------------------------------------------------------------------------
(* Edits that are honest: their changes and their commands on disk say of  *)
(* each path what the edit makes of it in the tree, and of no other.       *)

TreeOK(t) ==
    /\ IsMap(t) /\ DOMAIN t \subseteq Legal /\ IsFiniteSet(DOMAIN t)
    /\ WellFormed(t)

Covered(e, p) == \E r \in e.removed : IsPrefix(r, p)

Faithful(s, side, e, t) ==
    \A p \in Path :
        /\ ~Mentions(s, <<side, p>>) =>
              p \notin DOMAIN e.upserts /\ (p \in DOMAIN t => ~Covered(e, p))
        /\ Mentions(s, <<side, p>>) =>
              p \in DOMAIN e.upserts \/ p \notin DOMAIN t \/ Covered(e, p)
        /\ LastSays(s, <<side, p>>, BlobAt(e.upserts, p))

IsCommand(c) == c.do \in {"write", "unlink", "rmdir"} /\ c.path \in Path

IsEdit(e) ==
    /\ e.removed \subseteq Path
    /\ DOMAIN e.upserts \subseteq Legal /\ IsFiniteSet(DOMAIN e.upserts)
    /\ Listed(e.changes) /\ \A c \in Range(e.changes) : IsChange(c)
    /\ Listed(e.disk) /\ \A c \in Range(e.disk) : IsCommand(c)

Honest(e, t) ==
    /\ IsEdit(e)
    /\ Faithful(e.changes, "file", e, t)
    /\ Faithful(e.disk, "disk", e, t)

(* An edit that is about paths of P only. *)
Within(e, P) ==
    /\ DOMAIN e.upserts \subseteq P
    /\ \A p \in Path : Mentions(e.changes, <<"file", p>>) \/ Mentions(e.disk, <<"disk", p>>)
                       => p \in P

Separate(e) == \A p, q \in DOMAIN e.upserts : ~IsStrictPrefix(p, q)

Tidy(e, t, P) ==
    /\ Honest(e, t) /\ Within(e, P) /\ Separate(e)
    /\ e.removed \subseteq P

LEMMA AfterAt ==
    ASSUME NEW e, NEW t
    PROVE  /\ IsMap(After(e, t))
           /\ \A p : p \in DOMAIN After(e, t)
                     <=> p \in DOMAIN e.upserts \/ (p \in DOMAIN t /\ ~Covered(e, p))
           /\ \A p : BlobAt(After(e, t), p) =
                     IF p \in DOMAIN e.upserts THEN BlobAt(e.upserts, p)
                     ELSE IF Covered(e, p) THEN <<>> ELSE BlobAt(t, p)
<1> DEFINE u == After(e, t)
           rest == Restrict(t, {p \in DOMAIN t : \A r \in e.removed : ~IsPrefix(r, p)})
<1>1. /\ \A p : p \in DOMAIN rest <=> p \in DOMAIN t /\ ~Covered(e, p)
      /\ \A p \in DOMAIN rest : rest[p] = t[p]
  BY DEF Restrict, Covered
<1>2. u = Overlay(e.upserts, rest)
  BY DEF After
<1> HIDE DEF u, rest
<1>3. /\ DOMAIN u = DOMAIN e.upserts \cup DOMAIN rest /\ IsMap(u)
      /\ \A p \in DOMAIN u : u[p] = IF p \in DOMAIN e.upserts THEN e.upserts[p] ELSE rest[p]
  BY <1>2 DEF Overlay, IsMap
<1>4. \A p : p \in DOMAIN u <=> p \in DOMAIN e.upserts \/ p \in DOMAIN rest
  BY <1>3
<1>5. ASSUME NEW p
      PROVE  BlobAt(u, p) = IF p \in DOMAIN e.upserts THEN BlobAt(e.upserts, p)
                            ELSE IF Covered(e, p) THEN <<>> ELSE BlobAt(t, p)
  <2>1. p \in DOMAIN u => u[p] = IF p \in DOMAIN e.upserts THEN e.upserts[p] ELSE rest[p]
    BY <1>3
  <2>2. p \in DOMAIN u <=> p \in DOMAIN e.upserts \/ p \in DOMAIN rest
    BY <1>4
  <2>3. p \in DOMAIN rest => rest[p] = t[p]
    BY <1>1
  <2> QED
    BY <1>1, <2>1, <2>2, <2>3 DEF BlobAt
<1> QED
  BY <1>1, <1>3, <1>4, <1>5 DEF u

(* What an honest edit says of a path is what the tree has there after it. *)
LEMMA EditTells ==
    ASSUME NEW e, NEW t, NEW s, NEW side, Faithful(s, side, e, t), NEW p \in Path
    PROVE  /\ ~Mentions(s, <<side, p>>) => BlobAt(After(e, t), p) = BlobAt(t, p)
           /\ LastSays(s, <<side, p>>, BlobAt(After(e, t), p))
<1> DEFINE k == <<side, p>>
<1>1. /\ ~Mentions(s, k) => p \notin DOMAIN e.upserts /\ (p \in DOMAIN t => ~Covered(e, p))
      /\ Mentions(s, k) => p \in DOMAIN e.upserts \/ p \notin DOMAIN t \/ Covered(e, p)
      /\ LastSays(s, k, BlobAt(e.upserts, p))
  BY DEF Faithful
<1>2. BlobAt(After(e, t), p) = IF p \in DOMAIN e.upserts THEN BlobAt(e.upserts, p)
                               ELSE IF Covered(e, p) THEN <<>> ELSE BlobAt(t, p)
  BY AfterAt
<1>3. /\ p \notin DOMAIN t => BlobAt(t, p) = <<>>
      /\ p \notin DOMAIN e.upserts => BlobAt(e.upserts, p) = <<>>
  BY DEF BlobAt
<1>4. ~Mentions(s, k) => \A v : LastSays(s, k, v)
  BY DEF Mentions, LastSays
<1> HIDE DEF k
<1> QED
  BY <1>1, <1>2, <1>3, <1>4 DEF k

(* A tree stays one under an edit that applies. *)
LEMMA AfterOK ==
    ASSUME NEW e, NEW t, TreeOK(t), IsEdit(e), Separate(e), Applies(e, t)
    PROVE  TreeOK(After(e, t))
<1> DEFINE u == After(e, t)
<1>1. /\ IsMap(u)
      /\ \A p : p \in DOMAIN u
                <=> p \in DOMAIN e.upserts \/ (p \in DOMAIN t /\ ~Covered(e, p))
  BY AfterAt
<1> HIDE DEF u
<1>2. DOMAIN u \subseteq Legal
  BY <1>1 DEF TreeOK, IsEdit
<1>3. IsFiniteSet(DOMAIN u)
  <2>1. IsFiniteSet(DOMAIN e.upserts \cup DOMAIN t)
    BY FS_Union DEF TreeOK, IsEdit
  <2>2. DOMAIN u \subseteq DOMAIN e.upserts \cup DOMAIN t
    BY <1>1
  <2> QED
    BY <2>1, <2>2, FS_Subset
<1>4. ASSUME NEW p \in DOMAIN u, NEW q \in DOMAIN u, IsStrictPrefix(p, q) PROVE FALSE
  <2>1. CASE p \in DOMAIN e.upserts /\ q \in DOMAIN e.upserts
    BY <1>4, <2>1 DEF Separate
  <2>2. CASE p \in DOMAIN e.upserts /\ q \in DOMAIN t
    BY <1>4, <2>2 DEF Applies, IsFolder
  <2>3. CASE p \in DOMAIN t /\ q \in DOMAIN t
    BY <1>4, <2>3 DEF TreeOK, WellFormed, IsFolder
  <2>4. CASE p \in DOMAIN t /\ ~Covered(e, p) /\ q \in DOMAIN e.upserts
    BY <1>4, <2>4 DEF Applies
  <2> QED
    BY <1>1, <2>1, <2>2, <2>3, <2>4
<1>5. WellFormed(u)
  BY <1>4 DEF WellFormed, IsFolder
<1> QED
  BY <1>1, <1>2, <1>3, <1>5 DEF TreeOK, u

(* Two honest edits of the same tree, about different paths.               *)
LEMMA FaithfulThen ==
    ASSUME NEW e, NEW f, NEW t, NEW side, NEW r, NEW s, Listed(r), Listed(s),
           Faithful(r, side, e, t), Faithful(s, side, f, t),
           \A p \in Path : ~(Mentions(r, <<side, p>>) /\ Mentions(s, <<side, p>>))
    PROVE  Faithful(r \o s, side, Then(e, f), t)
<1> DEFINE g == Then(e, f)
<1>1. /\ g.removed = e.removed \cup f.removed
      /\ DOMAIN g.upserts = DOMAIN f.upserts \cup DOMAIN e.upserts
      /\ g.upserts = Overlay(f.upserts, e.upserts)
  BY DEF Then, Overlay
<1>2. \A p : BlobAt(g.upserts, p) = IF p \in DOMAIN f.upserts THEN BlobAt(f.upserts, p)
                                    ELSE BlobAt(e.upserts, p)
  BY DEF Then, Overlay, BlobAt
<1>3. \A p : Covered(g, p) <=> Covered(e, p) \/ Covered(f, p)
  BY <1>1 DEF Covered
<1>4. \A p : p \in DOMAIN g.upserts <=> p \in DOMAIN f.upserts \/ p \in DOMAIN e.upserts
  BY <1>1
<1> HIDE DEF g
<1> SUFFICES ASSUME NEW p \in Path
             PROVE  LET k == <<side, p>>
                    IN /\ ~Mentions(r \o s, k) =>
                             p \notin DOMAIN g.upserts /\ (p \in DOMAIN t => ~Covered(g, p))
                       /\ Mentions(r \o s, k) =>
                             p \in DOMAIN g.upserts \/ p \notin DOMAIN t \/ Covered(g, p)
                       /\ LastSays(r \o s, k, BlobAt(g.upserts, p))
  BY DEF Faithful, g
<1> DEFINE k == <<side, p>>
<1>5. /\ ~Mentions(r, k) => p \notin DOMAIN e.upserts /\ (p \in DOMAIN t => ~Covered(e, p))
      /\ Mentions(r, k) => p \in DOMAIN e.upserts \/ p \notin DOMAIN t \/ Covered(e, p)
      /\ LastSays(r, k, BlobAt(e.upserts, p))
      /\ ~Mentions(s, k) => p \notin DOMAIN f.upserts /\ (p \in DOMAIN t => ~Covered(f, p))
      /\ Mentions(s, k) => p \in DOMAIN f.upserts \/ p \notin DOMAIN t \/ Covered(f, p)
      /\ LastSays(s, k, BlobAt(f.upserts, p))
  BY DEF Faithful
<1>6. /\ Mentions(r \o s, k) <=> Mentions(r, k) \/ Mentions(s, k)
      /\ \A v : LastSays(r \o s, k, v) <=> LastSays(s, k, v) /\ (Mentions(s, k) \/ LastSays(r, k, v))
  BY OutcomeConcat
<1>7. ~(Mentions(r, k) /\ Mentions(s, k))
  OBVIOUS
<1>8. /\ ~Mentions(s, k) => \A v : LastSays(s, k, v)
      /\ p \notin DOMAIN e.upserts => BlobAt(e.upserts, p) = <<>>
      /\ p \notin DOMAIN f.upserts => BlobAt(f.upserts, p) = <<>>
  BY DEF Mentions, LastSays, BlobAt
<1>9. LastSays(r \o s, k, BlobAt(g.upserts, p))
  <2>1. CASE Mentions(s, k)
    <3>1. p \notin DOMAIN e.upserts
      BY <1>5, <1>7, <2>1
    <3>2. BlobAt(g.upserts, p) = BlobAt(f.upserts, p)
      BY <1>2, <1>8, <3>1
    <3> QED
      BY <1>5, <1>6, <2>1, <3>2
  <2>2. CASE ~Mentions(s, k)
    <3>1. BlobAt(g.upserts, p) = BlobAt(e.upserts, p)
      BY <1>2, <1>5, <2>2
    <3> QED
      BY <1>5, <1>6, <1>8, <2>2, <3>1
  <2> QED
    BY <2>1, <2>2
<1> HIDE DEF k
<1>10. ~Mentions(r \o s, k) => p \notin DOMAIN g.upserts /\ (p \in DOMAIN t => ~Covered(g, p))
  BY <1>3, <1>4, <1>5, <1>6
<1>11. Mentions(r \o s, k) => p \in DOMAIN g.upserts \/ p \notin DOMAIN t \/ Covered(g, p)
  BY <1>3, <1>4, <1>5, <1>6
<1> QED
  BY <1>9, <1>10, <1>11 DEF k

LEMMA HonestThen ==
    ASSUME NEW e, NEW f, NEW t, Honest(e, t), Honest(f, t),
           NEW P, NEW Q, Within(e, P), Within(f, Q), P \cap Q = {}
    PROVE  Honest(Then(e, f), t) /\ Within(Then(e, f), P \cup Q)
<1> DEFINE g == Then(e, f)
<1>1. /\ g.removed = e.removed \cup f.removed
      /\ DOMAIN g.upserts = DOMAIN f.upserts \cup DOMAIN e.upserts
      /\ g.changes = e.changes \o f.changes /\ g.disk = e.disk \o f.disk
  BY DEF Then, Overlay
<1>2. /\ Listed(e.changes) /\ Listed(f.changes) /\ Listed(e.disk) /\ Listed(f.disk)
      /\ Faithful(e.changes, "file", e, t) /\ Faithful(f.changes, "file", f, t)
      /\ Faithful(e.disk, "disk", e, t) /\ Faithful(f.disk, "disk", f, t)
  BY DEF Honest, IsEdit
<1>3. /\ \A p \in Path : ~(Mentions(e.changes, <<"file", p>>) /\ Mentions(f.changes, <<"file", p>>))
      /\ \A p \in Path : ~(Mentions(e.disk, <<"disk", p>>) /\ Mentions(f.disk, <<"disk", p>>))
  BY DEF Within
<1>4. Faithful(g.changes, "file", g, t) /\ Faithful(g.disk, "disk", g, t)
  BY <1>1, <1>2, <1>3, FaithfulThen
<1>5. /\ Listed(g.changes) /\ Range(g.changes) = Range(e.changes) \cup Range(f.changes)
      /\ Listed(g.disk) /\ Range(g.disk) = Range(e.disk) \cup Range(f.disk)
  BY <1>1, <1>2, ListedConcat
<1>6. IsFiniteSet(DOMAIN g.upserts)
  <2>1. IsFiniteSet(DOMAIN e.upserts) /\ IsFiniteSet(DOMAIN f.upserts)
    BY DEF Honest, IsEdit
  <2> QED
    BY ONLY <1>1, <2>1, FS_Union
<1>7. /\ \A p : Mentions(g.changes, <<"file", p>>)
                => Mentions(e.changes, <<"file", p>>) \/ Mentions(f.changes, <<"file", p>>)
      /\ \A p : Mentions(g.disk, <<"disk", p>>)
                => Mentions(e.disk, <<"disk", p>>) \/ Mentions(f.disk, <<"disk", p>>)
  BY <1>1, <1>2, OutcomeConcat
<1> HIDE DEF g
<1>8. Within(g, P \cup Q)
  BY <1>1, <1>7 DEF Within
<1>9. IsEdit(g)
  BY <1>1, <1>5, <1>6 DEF Honest, IsEdit
<1> QED
  BY <1>4, <1>8, <1>9 DEF Honest, g

(* One change and its commands. *)
LEMMA NoEditFacts ==
    ASSUME NEW t PROVE Honest(NoEdit, t) /\ Within(NoEdit, {})
<1>1. /\ NoEdit.removed = {} /\ DOMAIN NoEdit.upserts = {} /\ IsFiniteSet(DOMAIN NoEdit.upserts)
      /\ NoEdit.changes = <<>> /\ NoEdit.disk = <<>> /\ Range(<<>>) = {}
  BY FS_EmptySet DEF NoEdit, Range
<1>2. /\ Listed(<<>>) /\ \A k : ~Mentions(<<>>, k) /\ \A v : LastSays(<<>>, k, v)
  BY OutcomeEmpty
<1>3. Within(NoEdit, {})
  BY <1>1, <1>2 DEF Within
<1>4. IsEdit(NoEdit)
  BY <1>1, <1>2 DEF IsEdit
<1>5. \A p : ~Covered(NoEdit, p) /\ p \notin DOMAIN NoEdit.upserts
  BY <1>1 DEF Covered
<1>6. \A side : Faithful(<<>>, side, NoEdit, t)
  BY <1>2, <1>5 DEF Faithful
<1> QED
  BY <1>1, <1>3, <1>4, <1>6 DEF Honest

LEMMA OnlyDomain ==
    ASSUME NEW p, NEW b PROVE DOMAIN Only(p, b) = {p} /\ IsFiniteSet(DOMAIN Only(p, b))
  BY FS_Singleton DEF Only

LEMMA OnlyFacts ==
    ASSUME NEW p, NEW b
    PROVE  /\ BlobAt(Only(p, b), p) = <<b>>
           /\ \A q : q # p => q \notin DOMAIN Only(p, b) /\ BlobAt(Only(p, b), q) = <<>>
<1>1. DOMAIN Only(p, b) = {p} /\ Only(p, b)[p] = b
  BY DEF Only
<1> HIDE DEF Only
<1> QED
  BY <1>1 DEF BlobAt

(* A sequence of one. *)
LEMMA RangeOne == ASSUME NEW e PROVE Range(<<e>>) = {e}
  BY DEF Range

LEMMA OneSays ==
    ASSUME NEW e
    PROVE  /\ Listed(<<e>>) /\ Range(<<e>>) = {e}
           /\ \A k : /\ Mentions(<<e>>, k) <=> Touches(e, k)
                     /\ \A v : LastSays(<<e>>, k, v) <=> (Touches(e, k) => Says(e, k) = v)
  BY OutcomeOne, RangeOne

LEMMA PutAsFacts ==
    ASSUME NEW t, NEW c, IsChange(c), c.kind \in {"created", "updated"}
    PROVE  /\ Honest(PutAs(c), t) /\ Within(PutAs(c), {c.path}) /\ Separate(PutAs(c))
           /\ PutAs(c).removed = {} /\ PutAs(c).changes # <<>>
<1> DEFINE e == PutAs(c)
           w == DiskWrite(c.path, c.blob)
           p == c.path
<1>1. /\ e.removed = {} /\ e.upserts = Only(p, c.blob)
      /\ e.changes = <<c>> /\ e.disk = <<w>>
  BY DEF PutAs, NoEdit
<1>2. p \in Legal /\ p \in Path /\ c.from = p
  BY LegalFacts DEF IsChange
<1>3. w.do = "write" /\ w.path = p /\ w.blob = c.blob
  BY DEF DiskWrite, Mirror
<1> HIDE DEF e, w
<1>4. /\ DOMAIN e.upserts = {p} /\ IsFiniteSet(DOMAIN e.upserts)
      /\ BlobAt(e.upserts, p) = <<c.blob>>
      /\ \A q : q # p => q \notin DOMAIN e.upserts /\ BlobAt(e.upserts, q) = <<>>
  <2>1. DOMAIN e.upserts = {p} /\ IsFiniteSet(DOMAIN e.upserts)
    BY <1>1, OnlyDomain
  <2>2. /\ BlobAt(e.upserts, p) = <<c.blob>>
        /\ \A q : q # p => q \notin DOMAIN e.upserts /\ BlobAt(e.upserts, q) = <<>>
    BY <1>1, OnlyFacts
  <2> QED
    BY <2>1, <2>2
<1> HIDE DEF p
<1>5. /\ \A q : Touches(c, <<"file", q>>) <=> q = p
      /\ \A q : Touches(w, <<"disk", q>>) <=> q = p
      /\ Says(c, <<"file", p>>) = <<c.blob>> /\ Says(w, <<"disk", p>>) = <<c.blob>>
  BY <1>2, <1>3 DEF Touches, Says, FileKinds, p
<1>6. /\ Listed(e.changes) /\ Listed(e.disk) /\ Range(e.changes) = {c} /\ Range(e.disk) = {w}
      /\ \A k : /\ Mentions(e.changes, k) <=> Touches(c, k)
                /\ Mentions(e.disk, k) <=> Touches(w, k)
                /\ \A v : LastSays(e.changes, k, v) <=> (Touches(c, k) => Says(c, k) = v)
                /\ \A v : LastSays(e.disk, k, v) <=> (Touches(w, k) => Says(w, k) = v)
  <2>1. /\ Listed(<<c>>) /\ Range(<<c>>) = {c}
        /\ \A k : /\ Mentions(<<c>>, k) <=> Touches(c, k)
                  /\ \A v : LastSays(<<c>>, k, v) <=> (Touches(c, k) => Says(c, k) = v)
    BY ONLY OneSays
  <2>2. /\ Listed(<<w>>) /\ Range(<<w>>) = {w}
        /\ \A k : /\ Mentions(<<w>>, k) <=> Touches(w, k)
                  /\ \A v : LastSays(<<w>>, k, v) <=> (Touches(w, k) => Says(w, k) = v)
    BY ONLY OneSays
  <2>3. e.changes = <<c>> /\ e.disk = <<w>>
    BY <1>1
  <2> QED
    BY ONLY <2>1, <2>2, <2>3
<1>7. Within(e, {p})
  BY <1>4, <1>5, <1>6 DEF Within
<1>8. IsEdit(e)
  BY <1>1, <1>2, <1>3, <1>4, <1>6 DEF IsEdit, IsCommand
<1>9. \A q : ~Covered(e, q)
  BY <1>1 DEF Covered
<1>10. Faithful(e.changes, "file", e, t)
  BY <1>4, <1>5, <1>6, <1>9 DEF Faithful
<1>11. Faithful(e.disk, "disk", e, t)
  BY <1>4, <1>5, <1>6, <1>9 DEF Faithful
<1>12. Separate(e)
  BY <1>4 DEF Separate, IsStrictPrefix
<1> QED
  BY <1>1, <1>7, <1>8, <1>10, <1>11, <1>12 DEF Honest, e, p

LEMMA PutFacts ==
    ASSUME NEW t, NEW p \in Legal, NEW b, NEW c, c \in {Created(p, b), Updated(p, b)}
    PROVE  /\ Honest(PutAs(c), t) /\ Within(PutAs(c), {p}) /\ Separate(PutAs(c))
           /\ PutAs(c).removed = {} /\ PutAs(c).changes # <<>>
<1>1. IsChange(c) /\ c.kind \in {"created", "updated"} /\ c.path = p
  BY DEF IsChange, Created, Updated, FileKinds
<1> QED
  BY <1>1, PutAsFacts

(* A path no blob is under covers, of the tree, itself only. *)
LEMMA CoversItself ==
    ASSUME NEW t, DOMAIN t \subseteq Legal, NEW p \in Path, ~IsFolder(t, p),
           NEW q \in DOMAIN t, IsPrefix(p, q)
    PROVE  q = p
  BY DEF IsFolder, IsStrictPrefix

LEMMA Remove1Facts ==
    ASSUME NEW t, DOMAIN t \subseteq Legal, NEW p \in Legal, ~IsFolder(t, p)
    PROVE  /\ Honest(Remove1(p), t) /\ Within(Remove1(p), {p}) /\ Separate(Remove1(p))
           /\ Remove1(p).removed = {p} /\ Remove1(p).changes # <<>>
           /\ DOMAIN Remove1(p).upserts = {}
<1> DEFINE e == Remove1(p)
           c == Deleted(p)
           w == DiskRemove(p)
<1>1. /\ e.removed = {p} /\ e.upserts = <<>> /\ e.changes = <<c>> /\ e.disk = <<w>>
  BY DEF Remove1, NoEdit
<1>2. p \in Path /\ c.path = p /\ c.kind = "deleted" /\ IsChange(c)
  BY LegalFacts DEF IsChange, Deleted, FileKinds
<1>3. w.do = "unlink" /\ w.path = p
  BY DEF DiskRemove, Mirror
<1> HIDE DEF e, w, c
<1>4. /\ DOMAIN e.upserts = {} /\ IsFiniteSet(DOMAIN e.upserts)
      /\ \A q : BlobAt(e.upserts, q) = <<>>
  BY <1>1, FS_EmptySet DEF BlobAt
<1>5. /\ \A q : Touches(c, <<"file", q>>) <=> q = p
      /\ \A q : Touches(w, <<"disk", q>>) <=> q = p
      /\ \A q : Says(c, <<"file", q>>) = <<>> /\ Says(w, <<"disk", q>>) = <<>>
  BY <1>2, <1>3 DEF Touches, Says, FileKinds
<1>6. /\ Listed(e.changes) /\ Listed(e.disk) /\ Range(e.changes) = {c} /\ Range(e.disk) = {w}
      /\ \A k : /\ Mentions(e.changes, k) <=> Touches(c, k)
                /\ Mentions(e.disk, k) <=> Touches(w, k)
                /\ \A v : LastSays(e.changes, k, v) <=> (Touches(c, k) => Says(c, k) = v)
                /\ \A v : LastSays(e.disk, k, v) <=> (Touches(w, k) => Says(w, k) = v)
  <2>1. /\ Listed(<<c>>) /\ Range(<<c>>) = {c}
        /\ \A k : /\ Mentions(<<c>>, k) <=> Touches(c, k)
                  /\ \A v : LastSays(<<c>>, k, v) <=> (Touches(c, k) => Says(c, k) = v)
    BY ONLY OneSays
  <2>2. /\ Listed(<<w>>) /\ Range(<<w>>) = {w}
        /\ \A k : /\ Mentions(<<w>>, k) <=> Touches(w, k)
                  /\ \A v : LastSays(<<w>>, k, v) <=> (Touches(w, k) => Says(w, k) = v)
    BY ONLY OneSays
  <2>3. e.changes = <<c>> /\ e.disk = <<w>>
    BY <1>1
  <2> QED
    BY ONLY <2>1, <2>2, <2>3
<1>7. Within(e, {p})
  BY <1>4, <1>5, <1>6 DEF Within
<1>8. IsEdit(e)
  BY <1>1, <1>2, <1>3, <1>4, <1>6 DEF IsEdit, IsCommand
<1>9. /\ \A q \in DOMAIN t : Covered(e, q) => q = p
      /\ Covered(e, p)
  BY <1>1, <1>2, CoversItself, PrefixFacts DEF Covered
<1>10. Faithful(e.changes, "file", e, t)
  BY <1>4, <1>5, <1>6, <1>9 DEF Faithful
<1>11. Faithful(e.disk, "disk", e, t)
  BY <1>4, <1>5, <1>6, <1>9 DEF Faithful
<1>12. Separate(e)
  BY <1>4 DEF Separate
<1> QED
  BY <1>1, <1>4, <1>7, <1>8, <1>10, <1>11, <1>12 DEF Honest, e

(* One blob moved: the first of the commands takes it away, the second     *)
(* puts it back.                                                           *)
Move1(p, q, b, a, w) ==
    [removed |-> {p}, upserts |-> Only(q, b), disk |-> <<a, w>>, changes |-> <<Moved(p, q, b)>>]

LEMMA Move1Shape ==
    ASSUME NEW p, NEW q, NEW b, NEW a, NEW w
    PROVE  /\ Move1(p, q, b, a, w).changes # <<>>
           /\ \A x \in DOMAIN Move1(p, q, b, a, w).upserts : x = q
  BY DEF Move1, Only

LEMMA MovedFacts ==
    ASSUME NEW t, TreeOK(t), NEW p \in Legal, NEW q \in Legal, p # q,
           IsIndex(p) <=> IsIndex(q), ~IsFolder(t, p), NEW b,
           NEW a, a.do = "unlink", a.path = p,
           NEW w, w.do = "write", w.path = q, w.blob = b
    PROVE  Tidy(Move1(p, q, b, a, w), t, {p, q})
<1> DEFINE c == Moved(p, q, b)
           e == Move1(p, q, b, a, w)
<1>1. /\ e.removed = {p} /\ e.upserts = Only(q, b) /\ e.changes = <<c>>
      /\ e.disk = <<a>> \o <<w>>
  BY DEF Move1
<1> HIDE DEF e
<1>2. /\ p \in Path /\ q \in Path /\ c.path = q /\ c.from = p /\ c.kind = "moved" /\ IsChange(c)
      /\ c.blob = b
  BY LegalFacts DEF IsChange, Moved, FileKinds
<1> HIDE DEF c
<1>4. /\ DOMAIN e.upserts = {q} /\ IsFiniteSet(DOMAIN e.upserts)
      /\ BlobAt(e.upserts, q) = <<b>>
      /\ \A x : x # q => x \notin DOMAIN e.upserts /\ BlobAt(e.upserts, x) = <<>>
  <2>0. e.upserts = Only(q, b)
    BY <1>1
  <2>1. DOMAIN e.upserts = {q} /\ IsFiniteSet(DOMAIN e.upserts)
    BY ONLY <2>0, OnlyDomain
  <2>2. /\ BlobAt(e.upserts, q) = <<b>>
        /\ \A x : x # q => x \notin DOMAIN e.upserts /\ BlobAt(e.upserts, x) = <<>>
    BY <1>1, OnlyFacts
  <2> QED
    BY <2>1, <2>2
<1>5. /\ \A x : Touches(c, <<"file", x>>) <=> x = p \/ x = q
      /\ \A x : Touches(a, <<"disk", x>>) <=> x = p
      /\ \A x : Touches(w, <<"disk", x>>) <=> x = q
      /\ Says(c, <<"file", q>>) = <<b>> /\ Says(c, <<"file", p>>) = <<>>
      /\ \A x : Says(a, <<"disk", x>>) = <<>> /\ Says(w, <<"disk", x>>) = <<b>>
  BY <1>2 DEF Touches, Says, FileKinds
<1>6. /\ Listed(e.changes) /\ Range(e.changes) = {c}
      /\ \A k : /\ Mentions(e.changes, k) <=> Touches(c, k)
                /\ \A v : LastSays(e.changes, k, v) <=> (Touches(c, k) => Says(c, k) = v)
  BY <1>1, OutcomeOne DEF Range
<1>13. /\ Range(<<a>>) = {a} /\ Range(<<w>>) = {w} /\ Listed(<<a>>) /\ Listed(<<w>>)
       /\ \A k : /\ Mentions(<<a>>, k) <=> Touches(a, k)
                 /\ Mentions(<<w>>, k) <=> Touches(w, k)
                 /\ \A v : LastSays(<<a>>, k, v) <=> (Touches(a, k) => Says(a, k) = v)
                 /\ \A v : LastSays(<<w>>, k, v) <=> (Touches(w, k) => Says(w, k) = v)
  BY OutcomeOne DEF Range
<1> DEFINE r == <<a>>
           s == <<w>>
<1>16. e.disk = r \o s /\ Listed(r) /\ Listed(s)
  BY <1>1, <1>13
<1> HIDE DEF r, s
<1>14. Listed(e.disk) /\ Range(e.disk) = Range(<<a>>) \cup Range(<<w>>)
  <2>1. Listed(r \o s) /\ Range(r \o s) = Range(r) \cup Range(s)
    BY <1>16, ListedConcat
  <2>2. Listed(e.disk) /\ Range(e.disk) = Range(r) \cup Range(s)
    BY <1>16, <2>1
  <2> QED
    BY <2>2 DEF r, s
<1>15. \A k : /\ Mentions(e.disk, k) <=> Touches(a, k) \/ Touches(w, k)
              /\ \A v : LastSays(e.disk, k, v)
                        <=> /\ Touches(w, k) => Says(w, k) = v
                            /\ Touches(w, k) \/ (Touches(a, k) => Says(a, k) = v)
  <2>1. \A k : /\ Mentions(e.disk, k) <=> Mentions(r, k) \/ Mentions(s, k)
               /\ \A v : LastSays(e.disk, k, v)
                         <=> LastSays(s, k, v) /\ (Mentions(s, k) \/ LastSays(r, k, v))
    <3>1. \A k : /\ Mentions(r \o s, k) <=> Mentions(r, k) \/ Mentions(s, k)
                 /\ \A v : LastSays(r \o s, k, v)
                           <=> LastSays(s, k, v) /\ (Mentions(s, k) \/ LastSays(r, k, v))
      BY <1>16, OutcomeConcat
    <3> QED
      BY <1>16, <3>1
  <2> QED
    BY <1>13, <2>1 DEF r, s
<1>7. Within(e, {p, q})
  BY <1>4, <1>5, <1>6, <1>15 DEF Within
<1>8. IsEdit(e)
  BY <1>1, <1>2, <1>4, <1>6, <1>13, <1>14 DEF IsEdit, IsCommand
<1>9. /\ \A x \in DOMAIN t : Covered(e, x) => x = p
      /\ Covered(e, p)
  BY <1>1, <1>2, CoversItself, PrefixFacts DEF Covered, TreeOK
<1>10. Faithful(e.changes, "file", e, t)
  BY <1>4, <1>5, <1>6, <1>9 DEF Faithful
<1>11. Faithful(e.disk, "disk", e, t)
  BY <1>4, <1>5, <1>9, <1>15 DEF Faithful
<1>12. Separate(e)
  BY <1>4 DEF Separate, IsStrictPrefix
<1> QED
  BY <1>1, <1>4, <1>7, <1>8, <1>10, <1>11, <1>12 DEF Honest, Tidy, e

-----------------------------------------------------------------------------
(* The write operations are honest edits. *)

LEMMA TidyThen ==
    ASSUME NEW t, NEW e, NEW P, Tidy(e, t, P), NEW f, NEW Q, Tidy(f, t, Q), P \cap Q = {},
           \A p \in DOMAIN e.upserts, q \in DOMAIN f.upserts :
              ~IsStrictPrefix(p, q) /\ ~IsStrictPrefix(q, p)
    PROVE  /\ Tidy(Then(e, f), t, P \cup Q)
           /\ e.changes # <<>> => Then(e, f).changes # <<>>
<1> DEFINE g == Then(e, f)
<1>1. Honest(g, t) /\ Within(g, P \cup Q)
  BY HonestThen DEF Tidy
<1>2. /\ g.removed = e.removed \cup f.removed /\ g.changes = e.changes \o f.changes
      /\ \A p : p \in DOMAIN g.upserts <=> p \in DOMAIN f.upserts \/ p \in DOMAIN e.upserts
  BY DEF Then, Overlay
<1>3. Separate(g)
  BY <1>2 DEF Separate, Tidy
<1>4. ASSUME e.changes # <<>> PROVE g.changes # <<>>
  <2>1. Listed(e.changes) /\ Listed(f.changes)
    BY DEF Tidy, Honest, IsEdit
  <2>2. /\ Len(e.changes) \in Nat /\ Len(f.changes) \in Nat /\ Len(e.changes) > 0
    BY <1>4, <2>1, ListedFacts
  <2>3. /\ Len(e.changes \o f.changes) = Len(e.changes) + Len(f.changes)
        /\ Listed(e.changes \o f.changes)
    BY <2>1, ListedConcat
  <2>6. \A m, n \in Nat : m > 0 => m + n > 0
    OBVIOUS
  <2>4. Len(e.changes \o f.changes) > 0
    BY <2>2, <2>3, <2>6
  <2>5. e.changes \o f.changes # <<>>
    BY <2>3, <2>4, ListedFacts
  <2> QED
    BY <1>2, <2>5
<1> QED
  BY <1>1, <1>2, <1>3, <1>4 DEF Tidy

LEMMA TidyNoEdit == ASSUME NEW t, NEW P PROVE Tidy(NoEdit, t, P)
<1>1. Honest(NoEdit, t) /\ Within(NoEdit, {})
  BY NoEditFacts
<1>2. NoEdit.removed = {} /\ DOMAIN NoEdit.upserts = {}
  BY DEF NoEdit
<1> QED
  BY <1>1, <1>2 DEF Tidy, Within, Separate

LEMMA StageIndexFacts ==
    ASSUME NEW t, DOMAIN t \subseteq Legal, NEW d \in Seq(Name), NEW es
    PROVE  Tidy(StageIndex(t, d, es), t, {IndexPath(d)}) /\ StageIndex(t, d, es).changes # <<>>
<1> DEFINE i == IndexPath(d)
<1>1. i \in Legal /\ i \in Path /\ IsIndex(i)
  BY LegalFacts
<1>2. ~IsFolder(t, i)
  BY <1>1, LegalFacts DEF IsFolder
<1>3. CASE es = <<>>
  <2>1. StageIndex(t, d, es) = Remove1(i)
    BY <1>3 DEF StageIndex
  <2> HIDE DEF i
  <2>2. /\ Honest(Remove1(i), t) /\ Within(Remove1(i), {i}) /\ Separate(Remove1(i))
        /\ Remove1(i).removed = {i} /\ Remove1(i).changes # <<>>
    BY <1>1, <1>2, Remove1Facts
  <2> QED
    BY <2>1, <2>2 DEF Tidy, i
<1>4. CASE es # <<>>
  <2>1. PICK c \in {Created(i, es), Updated(i, es)} : StageIndex(t, d, es) = PutAs(c)
    BY <1>4 DEF StageIndex
  <2> HIDE DEF i
  <2> QED
    BY <1>1, <2>1, PutFacts DEF Tidy, i
<1> QED
  BY <1>3, <1>4

LEMMA EntryEdits ==
    ASSUME NEW t, DOMAIN t \subseteq Legal, NEW d \in Seq(Name), NEW n, NEW e
    PROVE  /\ Tidy(EntryRemoved(t, d, n), t, {IndexPath(d)})
           /\ Tidy(EntryAppended(t, d, e), t, {IndexPath(d)})
           /\ Tidy(EntryRenamed(t, d, n, e), t, {IndexPath(d)})
<1>1. EntryRemoved(t, d, n) = NoEdit \/ \E es : EntryRemoved(t, d, n) = StageIndex(t, d, es)
  BY DEF EntryRemoved
<1>2. EntryAppended(t, d, e) = NoEdit \/ \E es : EntryAppended(t, d, e) = StageIndex(t, d, es)
  BY DEF EntryAppended
<1>3. EntryRenamed(t, d, n, e) = NoEdit \/ \E es : EntryRenamed(t, d, n, e) = StageIndex(t, d, es)
  BY DEF EntryRenamed
<1> QED
  BY <1>1, <1>2, <1>3, StageIndexFacts, TidyNoEdit

LEMMA EntryMovedFacts ==
    ASSUME NEW t, DOMAIN t \subseteq Legal, NEW d \in Seq(Name), NEW d2 \in Seq(Name), NEW n, NEW e
    PROVE  Tidy(EntryMoved(t, d, n, d2, e), t, {IndexPath(d), IndexPath(d2)})
<1>1. CASE d = d2
  <2>1. EntryMoved(t, d, n, d2, e) = EntryRenamed(t, d, n, e)
    BY <1>1 DEF EntryMoved
  <2>2. Tidy(EntryRenamed(t, d, n, e), t, {IndexPath(d)})
    BY EntryEdits
  <2> QED
    BY <1>1, <2>1, <2>2
<1>2. CASE d # d2
  <2> DEFINE r == EntryRemoved(t, d, n)
             a == EntryAppended(t, d2, e)
  <2>1. EntryMoved(t, d, n, d2, e) = Then(r, a)
    BY <1>2 DEF EntryMoved
  <2>2. Tidy(r, t, {IndexPath(d)}) /\ Tidy(a, t, {IndexPath(d2)})
    BY EntryEdits
  <2> HIDE DEF r, a
  <2>3. /\ IndexPath(d) # IndexPath(d2)
        /\ IndexPath(d) \in Legal /\ IndexPath(d2) \in Legal
        /\ IsIndex(IndexPath(d)) /\ IsIndex(IndexPath(d2))
        /\ IndexPath(d) \in Path /\ IndexPath(d2) \in Path
    BY <1>2, LegalFacts
  <2>4. \A p \in DOMAIN r.upserts, q \in DOMAIN a.upserts :
           ~IsStrictPrefix(p, q) /\ ~IsStrictPrefix(q, p)
    <3>1. DOMAIN r.upserts \subseteq {IndexPath(d)} /\ DOMAIN a.upserts \subseteq {IndexPath(d2)}
      BY <2>2 DEF Tidy, Within
    <3> QED
      BY <2>3, <3>1, LegalFacts
  <2>5. {IndexPath(d)} \cap {IndexPath(d2)} = {}
    BY <2>3
  <2>6. Tidy(Then(r, a), t, {IndexPath(d)} \cup {IndexPath(d2)})
    BY <2>2, <2>4, <2>5, TidyThen
  <2>7. {IndexPath(d)} \cup {IndexPath(d2)} = {IndexPath(d), IndexPath(d2)}
    OBVIOUS
  <2> QED
    BY <2>1, <2>6, <2>7
<1> QED
  BY <1>1, <1>2

(* An edit of files, and then one of indexes it does not bury.             *)
LEMMA TidyWithIndexes ==
    ASSUME NEW t, NEW e, NEW P, Tidy(e, t, P), NEW D, D \subseteq Seq(Name),
           NEW f, NEW Q, Q = {IndexPath(d) : d \in D}, Tidy(f, t, Q),
           \A d \in D : IndexPath(d) \notin P /\ \A p \in DOMAIN e.upserts : ~IsPrefix(p, d)
    PROVE  /\ Tidy(Then(e, f), t, P \cup Q)
           /\ e.changes # <<>> => Then(e, f).changes # <<>>
<1>1. P \cap Q = {}
  OBVIOUS
<1>2. ASSUME NEW p \in DOMAIN e.upserts, NEW q \in DOMAIN f.upserts
      PROVE  ~IsStrictPrefix(p, q) /\ ~IsStrictPrefix(q, p)
  <2>1. PICK d \in D : q = IndexPath(d)
    BY DEF Tidy, Within
  <2>2. p \in Legal
    BY DEF Tidy, Honest, IsEdit
  <2>3. p \in Path /\ d \in Path /\ q \in Path /\ IsIndex(q)
    BY <2>1, <2>2, LegalFacts
  <2>4. ~IsStrictPrefix(q, p)
    BY <2>2, <2>3, LegalFacts
  <2>5. IsPrefix(p, q) => IsPrefix(p, d) \/ p = q
    BY <2>1, <2>3, NameFacts, ChildFacts DEF IndexPath
  <2> QED
    BY <2>1, <2>4, <2>5 DEF IsStrictPrefix
<1> QED
  BY <1>1, <1>2, TidyThen

LEMMA PathFacts ==
    ASSUME NEW p \in Seq(Name), p # Root
    PROVE  /\ p \in Legal /\ p \in Path /\ ~IsIndex(p)
           /\ Parent(p) \in Seq(Name) /\ Parent(p) \in Path /\ IndexPath(Parent(p)) # p
           /\ IsStrictPrefix(Parent(p), p)
           /\ ~IsPrefix(p, Parent(p))
<1>1. p \in Legal /\ p \in Path /\ ~IsIndex(p) /\ Parent(p) \in Seq(Name) /\ Parent(p) \in Path
  BY LegalFacts
<1>2. IndexPath(Parent(p)) # p
  BY <1>1, LegalFacts
<1>3. p = Child(Parent(p), Leaf(p)) /\ Leaf(p) \in Nat
  BY <1>1, LeafFacts
<1>4. IsPrefix(Parent(p), p)
  BY <1>1, <1>3, ChildFacts
<1>5. Len(p) \in Nat /\ Len(Parent(p)) = Len(p) - 1
  BY <1>1, LeafFacts
<1>6. ~IsPrefix(p, Parent(p))
  BY <1>1, <1>5, PrefixFacts
<1> QED
  BY <1>1, <1>2, <1>4, <1>5, <1>6 DEF IsStrictPrefix

LEMMA FileEdits ==
    ASSUME NEW t, TreeOK(t), NEW p \in Seq(Name), p # Root
    PROVE  /\ \A c : Tidy(WriteFile(t, p, c), t, {p}) /\ WriteFile(t, p, c).changes # <<>>
           /\ IsFile(t, p) => /\ Tidy(DeleteFile(t, p), t, {p, IndexPath(Parent(p))})
                              /\ DeleteFile(t, p).changes # <<>>
<1>1. /\ p \in Legal /\ p \in Path /\ ~IsIndex(p) /\ Parent(p) \in Seq(Name)
      /\ IndexPath(Parent(p)) # p
  BY PathFacts
<1>2. ASSUME NEW c
      PROVE  Tidy(WriteFile(t, p, c), t, {p}) /\ WriteFile(t, p, c).changes # <<>>
  <2>1. PICK x \in {Created(p, c), Updated(p, c)} : WriteFile(t, p, c) = PutAs(x)
    BY DEF WriteFile
  <2> QED
    BY <1>1, <2>1, PutFacts DEF Tidy
<1>3. ASSUME IsFile(t, p)
      PROVE  /\ Tidy(DeleteFile(t, p), t, {p, IndexPath(Parent(p))})
             /\ DeleteFile(t, p).changes # <<>>
  <2> DEFINE e == Remove1(p)
             f == EntryRemoved(t, Parent(p), Leaf(p))
             D == {Parent(p)}
  <2>1. DOMAIN t \subseteq Legal /\ ~IsFolder(t, p)
    BY <1>3 DEF TreeOK, WellFormed, IsFile
  <2>2. Tidy(e, t, {p}) /\ e.changes # <<>> /\ DOMAIN e.upserts = {}
    BY <1>1, <2>1, Remove1Facts DEF Tidy
  <2>3. Tidy(f, t, {IndexPath(Parent(p))})
    BY <1>1, <2>1, EntryEdits
  <2>4. DeleteFile(t, p) = Then(e, f)
    BY DEF DeleteFile
  <2> HIDE DEF e, f
  <2>5. /\ D \subseteq Seq(Name) /\ {IndexPath(Parent(p))} = {IndexPath(d) : d \in D}
        /\ \A d \in D : IndexPath(d) \notin {p} /\ \A q \in DOMAIN e.upserts : ~IsPrefix(q, d)
    BY <1>1, <2>2
  <2> HIDE DEF D
  <2>6. /\ Tidy(Then(e, f), t, {p} \cup {IndexPath(Parent(p))})
        /\ Then(e, f).changes # <<>>
    BY <2>2, <2>3, <2>5, TidyWithIndexes
  <2>7. {p} \cup {IndexPath(Parent(p))} = {p, IndexPath(Parent(p))}
    OBVIOUS
  <2> QED
    BY <2>4, <2>6, <2>7
<1> QED
  BY <1>2, <1>3

LEMMA MoveFileFacts ==
    ASSUME NEW t, TreeOK(t), NEW p \in Seq(Name), p # Root, NEW q \in Seq(Name), q # Root,
           CanMoveFile(t, p, q)
    PROVE  /\ Tidy(MoveFile(t, p, q), t, {p, q, IndexPath(Parent(p)), IndexPath(Parent(q))})
           /\ MoveFile(t, p, q).changes # <<>>
<1> DEFINE e == [removed |-> {p}, upserts |-> Only(q, t[p]),
                 disk |-> <<DiskRemove(p), DiskWrite(q, t[p])>>,
                 changes |-> <<Moved(p, q, t[p])>>]
           f == EntryMoved(t, Parent(p), Leaf(p), Parent(q), [name |-> Leaf(q), folder |-> FALSE])
           D == {Parent(p), Parent(q)}
<1>1. /\ p \in Legal /\ p \in Path /\ ~IsIndex(p) /\ Parent(p) \in Seq(Name)
      /\ IndexPath(Parent(p)) # p /\ IsStrictPrefix(Parent(p), p) /\ Parent(p) \in Path
      /\ q \in Legal /\ q \in Path /\ ~IsIndex(q) /\ Parent(q) \in Seq(Name)
      /\ IndexPath(Parent(q)) # q /\ ~IsPrefix(q, Parent(q))
  BY PathFacts
<1>2. /\ DOMAIN t \subseteq Legal /\ ~IsFolder(t, p) /\ p # q
      /\ p \in DOMAIN t /\ ~IsFolder(t, q) /\ q \notin DOMAIN t
  BY DEF TreeOK, WellFormed, CanMoveFile, IsFile, Exists
<1>4. Tidy(e, t, {p, q}) /\ e.changes # <<>> /\ \A x \in DOMAIN e.upserts : x = q
  <2>1. p \in Legal /\ q \in Legal /\ p # q /\ (IsIndex(p) <=> IsIndex(q)) /\ ~IsFolder(t, p)
    BY <1>1, <1>2
  <2>2. ASSUME NEW b
        PROVE  LET g == Move1(p, q, b, DiskRemove(p), DiskWrite(q, b))
               IN Tidy(g, t, {p, q}) /\ g.changes # <<>> /\ \A x \in DOMAIN g.upserts : x = q
    <3>1. /\ DiskRemove(p).do = "unlink" /\ DiskRemove(p).path = p
          /\ DiskWrite(q, b).do = "write" /\ DiskWrite(q, b).path = q /\ DiskWrite(q, b).blob = b
      BY DEF DiskRemove, DiskWrite, Mirror
    <3> DEFINE g == Move1(p, q, b, DiskRemove(p), DiskWrite(q, b))
    <3>2. Tidy(g, t, {p, q})
      BY <2>1, <3>1, MovedFacts
    <3>3. g.changes # <<>> /\ \A x \in DOMAIN g.upserts : x = q
      BY Move1Shape
    <3> HIDE DEF g
    <3> QED
      BY <3>2, <3>3 DEF g
  <2>3. e = Move1(p, q, t[p], DiskRemove(p), DiskWrite(q, t[p]))
    BY DEF Move1
  <2> HIDE DEF e
  <2> DEFINE b == t[p]
  <2>4. e = Move1(p, q, b, DiskRemove(p), DiskWrite(q, b))
    BY <2>3
  <2> HIDE DEF b
  <2> QED
    BY <2>2, <2>4
<1>5. Tidy(f, t, {IndexPath(Parent(p)), IndexPath(Parent(q))})
  BY <1>1, <1>2, EntryMovedFacts
<1>6. MoveFile(t, p, q) = Then(e, f)
  BY DEF MoveFile
<1> HIDE DEF e, f
<1>8. ~IsPrefix(q, Parent(p))
  <2> SUFFICES ASSUME IsPrefix(q, Parent(p)) PROVE FALSE
    OBVIOUS
  <2>1. IsPrefix(q, p)
    BY <1>1, PrefixFacts DEF IsStrictPrefix
  <2> QED
    BY <1>2, <2>1 DEF IsFolder, IsStrictPrefix
<1>9. \A d \in Seq(Name) : IndexPath(d) # p /\ IndexPath(d) # q
  BY <1>1, LegalFacts
<1>10. /\ D \subseteq Seq(Name)
       /\ {IndexPath(Parent(p)), IndexPath(Parent(q))} = {IndexPath(d) : d \in D}
       /\ \A d \in D : IndexPath(d) \notin {p, q} /\ \A x \in DOMAIN e.upserts : ~IsPrefix(x, d)
  BY <1>1, <1>4, <1>8, <1>9
<1> HIDE DEF D
<1>11. /\ Tidy(Then(e, f), t, {p, q} \cup {IndexPath(Parent(p)), IndexPath(Parent(q))})
       /\ Then(e, f).changes # <<>>
  BY <1>4, <1>5, <1>10, TidyWithIndexes
<1>12. {p, q} \cup {IndexPath(Parent(p)), IndexPath(Parent(q))}
          = {p, q, IndexPath(Parent(p)), IndexPath(Parent(q))}
  OBVIOUS
<1> QED
  BY <1>6, <1>11, <1>12

-----------------------------------------------------------------------------
(* Sequences taken from the front. *)

LEMMA TailFacts ==
    ASSUME NEW s, Listed(s), s # <<>>
    PROVE  /\ Listed(Tail(s)) /\ Len(Tail(s)) = Len(s) - 1
           /\ s = <<Head(s)>> \o Tail(s) /\ Head(s) \in Range(s)
           /\ Range(Tail(s)) \subseteq Range(s)
           /\ \A i \in 1..(Len(s) - 1) : Tail(s)[i] = s[i + 1]
           /\ Head(s) = s[1]
<1> DEFINE S == Range(s)
<1>1. s \in Seq(S) /\ Len(s) \in Nat /\ Len(s) >= 1 /\ DOMAIN s = 1..Len(s)
  BY ListedFacts DEF Listed
<1>2. Head(s) = s[1] /\ Head(s) \in Range(s)
  BY <1>1 DEF Range
<1> HIDE DEF S
<1>3. /\ Tail(s) \in Seq(S) /\ Len(Tail(s)) = Len(s) - 1
      /\ \A i \in 1..(Len(s) - 1) : Tail(s)[i] = s[i + 1]
  BY <1>1, HeadTailProperties
<1>4. Listed(Tail(s)) /\ Range(Tail(s)) \subseteq S
  <2>1. Listed(Tail(s))
    BY <1>3, ListedIn
  <2>2. \A i \in 1..Len(Tail(s)) : Tail(s)[i] \in S
    BY <1>3
  <2>3. Range(Tail(s)) = {Tail(s)[i] : i \in 1..Len(Tail(s))}
    BY <2>1, ListedFacts
  <2> QED
    BY <2>1, <2>2, <2>3
<1>5. s = <<Head(s)>> \o Tail(s)
  <2> DEFINE u == <<Head(s)>> \o Tail(s)
  <2>1. /\ Listed(<<Head(s)>>) /\ Len(<<Head(s)>>) = 1 /\ <<Head(s)>>[1] = Head(s)
    BY OutcomeOne
  <2>2. /\ Listed(u) /\ Len(u) = 1 + Len(Tail(s))
        /\ \A i \in 1..1 : u[i] = <<Head(s)>>[i]
        /\ \A i \in 1..Len(Tail(s)) : u[1 + i] = Tail(s)[i]
        /\ Range(u) = Range(<<Head(s)>>) \cup Range(Tail(s))
    BY <1>4, <2>1, ListedConcat
  <2>3. Range(<<Head(s)>>) = {Head(s)}
    BY RangeOne
  <2>4. Range(u) \subseteq S
    BY <1>2, <1>4, <2>2, <2>3 DEF S
  <2> HIDE DEF u
  <2>5. u \in Seq(S)
    BY <2>2, <2>4, SeqMonotonic DEF Listed
  <2>6. Len(u) = Len(s)
    BY <1>1, <1>3, <2>2
  <2>7. ASSUME NEW i \in 1..Len(s) PROVE u[i] = s[i]
    <3>1. CASE i = 1
      BY <1>2, <2>1, <2>2, <3>1
    <3>2. CASE i # 1
      <4>1. PICK j \in 1..(Len(s) - 1) : i = 1 + j
        <5>1. i - 1 \in 1..(Len(s) - 1) /\ i = 1 + (i - 1)
          BY <1>1, <3>2
        <5> QED
          BY <5>1
      <4>2. Tail(s)[j] = s[j + 1] /\ u[1 + j] = Tail(s)[j] /\ 1 + j = j + 1
        BY <1>3, <2>2
      <4> QED
        BY <4>1, <4>2
    <3> QED
      BY <3>1, <3>2
  <2> QED
    BY <1>1, <2>5, <2>6, <2>7, SeqEqual DEF u
<1> QED
  BY <1>2, <1>3, <1>4, <1>5 DEF S

LEMMA PopFacts ==
    ASSUME NEW s, Listed(s), s # <<>>, NEW k
    PROVE  /\ Mentions(s, k) <=> Touches(Head(s), k) \/ Mentions(Tail(s), k)
           /\ \A v : LastSays(s, k, v) => LastSays(Tail(s), k, v)
           /\ \A v : LastSays(s, k, v) /\ ~Mentions(Tail(s), k) /\ Touches(Head(s), k)
                     => Says(Head(s), k) = v
<1> DEFINE h == <<Head(s)>>
           r == Tail(s)
<1>1. s = h \o r /\ Listed(r)
  BY TailFacts
<1>2. /\ Listed(h) /\ (Mentions(h, k) <=> Touches(Head(s), k))
      /\ \A v : LastSays(h, k, v) <=> (Touches(Head(s), k) => Says(Head(s), k) = v)
  BY OutcomeOne
<1> HIDE DEF h, r
<1>3. /\ Mentions(h \o r, k) <=> Mentions(h, k) \/ Mentions(r, k)
      /\ \A v : LastSays(h \o r, k, v) <=> LastSays(r, k, v) /\ (Mentions(r, k) \/ LastSays(h, k, v))
  BY <1>1, <1>2, OutcomeConcat
<1>4. /\ Mentions(s, k) <=> Mentions(h, k) \/ Mentions(r, k)
      /\ \A v : LastSays(s, k, v) <=> LastSays(r, k, v) /\ (Mentions(r, k) \/ LastSays(h, k, v))
  BY <1>1, <1>3
<1> QED
  BY <1>2, <1>4 DEF r

LEMMA AllSay ==
    ASSUME NEW s, Listed(s), NEW k
    PROVE  /\ Mentions(s, k) <=> \E e \in Range(s) : Touches(e, k)
           /\ \A v : (\A e \in Range(s) : Touches(e, k) => Says(e, k) = v) => LastSays(s, k, v)
<1>1. Range(s) = {s[i] : i \in 1..Len(s)}
  BY ListedFacts
<1> QED
  BY <1>1 DEF Mentions, LastSays

(* What the hooks are told of an edit whose changes are faithful.          *)
LEMMA FaithfulTells ==
    ASSUME NEW t, NEW e, IsEdit(e), Faithful(e.changes, "file", e, t)
    PROVE  /\ Listed(Job(e.changes)) /\ \A x \in Range(Job(e.changes)) : IsEvent(x)
           /\ e.changes # <<>> => Job(e.changes) # <<>>
           /\ \A k \in Key :
                 /\ ~Mentions(Job(e.changes), k) => Carried(After(e, t), k) = Carried(t, k)
                 /\ LastSays(Job(e.changes), k, Carried(After(e, t), k))
<1> DEFINE j == Job(e.changes)
           u == After(e, t)
<1>3. /\ Listed(j) /\ \A x \in Range(j) : IsEvent(x)
      /\ e.changes # <<>> => j # <<>>
      /\ \A k \in Key :
            /\ Mentions(j, k) <=> Mentions(e.changes, PathKey(k))
            /\ \A v : LastSays(e.changes, PathKey(k), v) => LastSays(j, k, v)
  BY JobTells DEF IsEdit
<1> HIDE DEF j, u
<1>4. ASSUME NEW k \in Key
      PROVE  /\ ~Mentions(j, k) => Carried(u, k) = Carried(t, k)
             /\ LastSays(j, k, Carried(u, k))
  <2>1. PICK p \in Path : PathKey(k) = <<"file", p>>
    <3>1. CASE k \in {"file"} \X FilePath
      BY <3>1 DEF PathKey, FilePath
    <3>2. CASE k \in {"order"} \X Path
      <4>1. IndexPath(k[2]) \in Path
        BY <3>2, LegalFacts
      <4> QED
        BY <3>2, <4>1 DEF PathKey
    <3> QED
      BY <3>1, <3>2 DEF Key
  <2>2. /\ ~Mentions(e.changes, <<"file", p>>) => BlobAt(u, p) = BlobAt(t, p)
        /\ LastSays(e.changes, <<"file", p>>, BlobAt(u, p))
    BY EditTells DEF u
  <2>3. Carried(u, k) = BlobAt(u, p) /\ Carried(t, k) = BlobAt(t, p)
    BY <2>1 DEF Carried
  <2>4. LastSays(e.changes, PathKey(k), Carried(u, k))
    BY <2>1, <2>2, <2>3
  <2> QED
    BY <1>3, <2>1, <2>2, <2>3, <2>4
<1> QED
  BY <1>3, <1>4 DEF j, u

(* A tree that a tidy edit is applied to, and what the hooks are told.     *)
LEMMA TidyTells ==
    ASSUME NEW t, TreeOK(t), NEW e, NEW P, Tidy(e, t, P), Applies(e, t)
    PROVE  /\ TreeOK(After(e, t))
           /\ Listed(Job(e.changes)) /\ \A x \in Range(Job(e.changes)) : IsEvent(x)
           /\ e.changes # <<>> => Job(e.changes) # <<>>
           /\ \A k \in Key :
                 /\ ~Mentions(Job(e.changes), k) => Carried(After(e, t), k) = Carried(t, k)
                 /\ LastSays(Job(e.changes), k, Carried(After(e, t), k))
<1>1. IsEdit(e) /\ Separate(e) /\ Faithful(e.changes, "file", e, t)
  BY DEF Tidy, Honest
<1> QED
  BY <1>1, AfterOK, FaithfulTells

-----------------------------------------------------------------------------
(* Directories *)

Under(d) == {p \in Path : IsPrefix(d, p)}

(* The indexes of the directories that hold d and q are not under either,  *)
(* when neither is under the other.                                        *)
LEMMA IndexOutside ==
    ASSUME NEW d \in Seq(Name), d # Root, NEW c \in Seq(Name), ~IsPrefix(d, c)
    PROVE  IndexPath(c) \notin Under(d)
<1> SUFFICES ASSUME IsPrefix(d, IndexPath(c)) PROVE FALSE
  BY DEF Under
<1>1. d \in Path /\ c \in Path /\ Index \in Nat /\ ~IsIndex(d)
  BY LegalFacts, NameFacts, PathFacts
<1>2. d = Child(c, Index)
  BY <1>1, ChildFacts DEF IndexPath
<1> QED
  BY <1>1, <1>2, LegalFacts DEF IndexPath

LEMMA RemovedSeq ==
    ASSUME NEW S, IsFiniteSet(S), S \subseteq Legal
    PROVE  LET c == SetToSeq({Deleted(p) : p \in S})
           IN /\ Listed(c) /\ \A x \in Range(c) : IsChange(x)
              /\ \A p : Mentions(c, <<"file", p>>) <=> p \in S
              /\ \A p, v : v = <<>> => LastSays(c, <<"file", p>>, v)
              /\ S # {} => c # <<>>
<1> DEFINE T == {Deleted(p) : p \in S}
           f == [p \in S |-> Deleted(p)]
           c == SetToSeq(T)
<1>1. IsFiniteSet(T)
  <2>1. f \in Surjection(S, T)
    <3>1. f \in [S -> T] /\ \A p \in S : f[p] = Deleted(p)
      OBVIOUS
    <3> QED
      BY <3>1 DEF Surjection
  <2> QED
    BY <2>1, FS_Surjection
<1>2. Listed(c) /\ Range(c) = T
  BY <1>1, SetToSeqFacts
<1> HIDE DEF c
<1>3. \A p \in S : IsChange(Deleted(p))
  BY DEF IsChange, Deleted, FileKinds
<1>4. \A p, q : /\ Touches(Deleted(p), <<"file", q>>) <=> q = p
                /\ Says(Deleted(p), <<"file", q>>) = <<>>
  BY DEF Touches, Says, Deleted, FileKinds
<1>5. \A p : /\ Mentions(c, <<"file", p>>) <=> p \in S
             /\ \A v : v = <<>> => LastSays(c, <<"file", p>>, v)
  <2> SUFFICES ASSUME NEW p
               PROVE  /\ Mentions(c, <<"file", p>>) <=> p \in S
                      /\ \A v : v = <<>> => LastSays(c, <<"file", p>>, v)
    OBVIOUS
  <2> DEFINE k == <<"file", p>>
  <2>1. \A q \in S : /\ Touches(Deleted(q), k) <=> p = q
                    /\ Says(Deleted(q), k) = <<>>
    BY <1>4
  <2> HIDE DEF k
  <2>2. /\ Mentions(c, k) <=> \E e \in T : Touches(e, k)
        /\ \A v : (\A e \in T : Touches(e, k) => Says(e, k) = v) => LastSays(c, k, v)
    BY <1>2, AllSay
  <2>3. /\ (\E e \in T : Touches(e, k)) <=> p \in S
        /\ \A e \in T : Says(e, k) = <<>>
    BY <2>1
  <2>4. Mentions(c, k) <=> p \in S
    BY <2>2, <2>3
  <2>5. \A v : v = <<>> => LastSays(c, k, v)
    BY <2>2, <2>3
  <2> QED
    BY <2>4, <2>5 DEF k
<1>7. S # {} => c # <<>>
  <2>1. Range(<<>>) = {}
    BY DEF Range
  <2> QED
    BY <2>1, <1>2
<1> QED
  BY <1>2, <1>3, <1>5, <1>7 DEF c

LEMMA DeleteDirectoryFacts ==
    ASSUME NEW t, TreeOK(t), NEW d \in Seq(Name), CanDeleteDirectory(t, d)
    PROVE  /\ Tidy(DeleteDirectory(t, d), t, Under(d) \cup {IndexPath(Parent(d))})
           /\ DeleteDirectory(t, d).changes # <<>>
<1> DEFINE w == DiskRemoveAll(d)
           cs == SetToSeq({Deleted(p) : p \in Subtree(t, d)})
           e == [NoEdit EXCEPT !.removed = {d}, !.disk = <<w>>, !.changes = cs]
           f == EntryRemoved(t, Parent(d), Leaf(d))
           D == {Parent(d)}
<1>1. /\ d # Root /\ IsFolder(t, d) /\ DOMAIN t \subseteq Legal /\ IsFiniteSet(DOMAIN t)
      /\ d \notin DOMAIN t /\ Legal \subseteq Path
  BY LegalFacts DEF CanDeleteDirectory, TreeOK, WellFormed
<1>2. /\ d \in Path /\ Parent(d) \in Seq(Name) /\ ~IsPrefix(d, Parent(d))
  BY <1>1, PathFacts
<1>3. /\ e.removed = {d} /\ e.upserts = <<>> /\ e.disk = <<w>> /\ e.changes = cs
  BY DEF NoEdit
<1>4. DeleteDirectory(t, d) = Then(e, f)
  BY DEF DeleteDirectory
<1>5. /\ Listed(cs) /\ \A x \in Range(cs) : IsChange(x)
      /\ \A p : Mentions(cs, <<"file", p>>) <=> p \in Subtree(t, d)
      /\ \A p, v : v = <<>> => LastSays(cs, <<"file", p>>, v)
      /\ cs # <<>>
  <2>1. IsFiniteSet(Subtree(t, d)) /\ Subtree(t, d) \subseteq Legal /\ Subtree(t, d) # {}
    BY <1>1, FS_Subset DEF Subtree, IsFolder
  <2> QED
    BY <2>1, RemovedSeq
<1> HIDE DEF e, f, cs, w
<1>6. /\ w.do = "rmdir" /\ w.path = d
  BY DEF w, DiskRemoveAll, Mirror
<1>7. /\ Listed(e.disk) /\ Range(e.disk) = {w}
      /\ \A p : Mentions(e.disk, <<"disk", p>>) <=> IsPrefix(d, p)
      /\ \A p, v : v = <<>> => LastSays(e.disk, <<"disk", p>>, v)
  <2>1. \A p : /\ Touches(w, <<"disk", p>>) <=> IsPrefix(d, p)
               /\ Says(w, <<"disk", p>>) = <<>>
    BY <1>6 DEF Touches, Says
  <2>2. /\ Listed(e.disk) /\ Range(e.disk) = {w}
        /\ \A k : /\ Mentions(e.disk, k) <=> Touches(w, k)
                  /\ \A v : LastSays(e.disk, k, v) <=> (Touches(w, k) => Says(w, k) = v)
    BY <1>3, OutcomeOne, RangeOne
  <2> QED
    BY <2>1, <2>2
<1>8. /\ DOMAIN e.upserts = {} /\ IsFiniteSet(DOMAIN e.upserts)
      /\ \A p : BlobAt(e.upserts, p) = <<>>
      /\ \A p : Covered(e, p) <=> IsPrefix(d, p)
  BY <1>3, FS_EmptySet DEF BlobAt, Covered
<1>9. \A p \in DOMAIN t : IsPrefix(d, p) <=> p \in Subtree(t, d)
  BY <1>1 DEF Subtree, IsStrictPrefix
<1>10. IsEdit(e)
  BY <1>2, <1>3, <1>5, <1>6, <1>7, <1>8 DEF IsEdit, IsCommand
<1>11. Faithful(e.changes, "file", e, t)
  <2>1. Subtree(t, d) \subseteq DOMAIN t
    BY DEF Subtree
  <2> QED
    BY <1>3, <1>5, <1>8, <1>9, <2>1 DEF Faithful
<1>12. Faithful(e.disk, "disk", e, t)
  BY <1>7, <1>8 DEF Faithful
<1>13. Within(e, Under(d))
  <2>1. \A p \in Path : Mentions(e.changes, <<"file", p>>) => IsPrefix(d, p)
    BY <1>3, <1>5, <1>9 DEF Subtree
  <2> QED
    BY <2>1, <1>7, <1>8 DEF Within, Under
<1>14. Tidy(e, t, Under(d)) /\ e.changes # <<>>
  <2>1. d \in Under(d)
    BY <1>2, PrefixFacts DEF Under
  <2> QED
    BY <2>1, <1>3, <1>5, <1>8, <1>10, <1>11, <1>12, <1>13 DEF Tidy, Honest, Separate
<1>15. Tidy(f, t, {IndexPath(Parent(d))})
  BY <1>1, <1>2, EntryEdits DEF f
<1>16. /\ D \subseteq Seq(Name) /\ {IndexPath(Parent(d))} = {IndexPath(x) : x \in D}
       /\ \A x \in D : IndexPath(x) \notin Under(d) /\ \A q \in DOMAIN e.upserts : ~IsPrefix(q, x)
  BY <1>1, <1>2, <1>8, IndexOutside
<1> HIDE DEF D
<1>17. /\ Tidy(Then(e, f), t, Under(d) \cup {IndexPath(Parent(d))})
       /\ Then(e, f).changes # <<>>
  BY <1>14, <1>15, <1>16, TidyWithIndexes
<1> QED
  BY <1>4, <1>17

(* A path under d taken to the same place under q. *)
Rebased(d, q, p) == q \o SubSeq(p, Len(d) + 1, Len(p))

LEMMA RebasedAt ==
    ASSUME NEW d \in Path, NEW q \in Path, NEW p \in Path, IsStrictPrefix(d, p)
    PROVE  /\ Len(d) \in Nat /\ Len(p) \in Nat /\ Len(q) \in Nat /\ Len(d) < Len(p)
           /\ Rebased(d, q, p) \in Path
           /\ Len(Rebased(d, q, p)) = Len(q) + (Len(p) - Len(d))
           /\ \A i \in 1..Len(q) : Rebased(d, q, p)[i] = q[i]
           /\ \A i \in 1..(Len(p) - Len(d)) : Rebased(d, q, p)[Len(q) + i] = p[Len(d) + i]
<1> DEFINE s == SubSeq(p, Len(d) + 1, Len(p))
<1>1. Len(d) \in Nat /\ Len(p) \in Nat /\ Len(q) \in Nat
  BY DEF Path
<1>2. Len(d) < Len(p)
  BY <1>1, PrefixFacts DEF IsStrictPrefix
<1>3. /\ s \in Path /\ Len(s) = Len(p) - Len(d)
      /\ \A i \in 1..(Len(p) - Len(d)) : s[i] = p[Len(d) + i]
  BY <1>1, <1>2, SubSeqProperties DEF Path
<1> HIDE DEF s
<1>4. /\ q \o s \in Path /\ Len(q \o s) = Len(q) + Len(s)
      /\ \A i \in 1..Len(q) : (q \o s)[i] = q[i]
      /\ \A i \in 1..Len(s) : (q \o s)[Len(q) + i] = s[i]
  <2>1. /\ q \o s \in Seq(Nat) /\ Len(q \o s) = Len(q) + Len(s)
        /\ \A i \in 1..(Len(q) + Len(s)) :
              (q \o s)[i] = IF i <= Len(q) THEN q[i] ELSE s[i - Len(q)]
    BY <1>3, ConcatProperties DEF Path
  <2>2. Len(s) \in Nat
    BY <1>3 DEF Path
  <2>3. \A i \in 1..Len(q) : (q \o s)[i] = q[i]
    BY <1>1, <2>1, <2>2
  <2>4. \A i \in 1..Len(s) : (q \o s)[Len(q) + i] = s[i]
    <3> TAKE i \in 1..Len(s)
    <3> DEFINE l == Len(q) + i
    <3>1. l \in 1..(Len(q) + Len(s)) /\ ~(l <= Len(q)) /\ l - Len(q) = i
      BY <1>1, <2>2
    <3> HIDE DEF l
    <3>2. (q \o s)[l] = s[i]
      BY <2>1, <3>1
    <3> QED
      BY <3>2 DEF l
  <2> QED
    BY <2>1, <2>3, <2>4 DEF Path
<1>5. Rebased(d, q, p) = q \o s
  BY DEF Rebased, s
<1> QED
  BY <1>1, <1>2, <1>3, <1>4, <1>5

LEMMA RebasedFacts ==
    ASSUME NEW d \in Seq(Name), NEW q \in Seq(Name), NEW p \in Legal, IsStrictPrefix(d, p)
    PROVE  /\ Rebased(d, q, p) \in Legal /\ Rebased(d, q, p) \in Path
           /\ IsStrictPrefix(q, Rebased(d, q, p))
           /\ IsIndex(Rebased(d, q, p)) <=> IsIndex(p)
           /\ Rebased(q, d, Rebased(d, q, p)) = p
<1> DEFINE r == Rebased(d, q, p)
           n == Len(d)
           m == Len(q)
           k == Len(p)
<1>1. d \in Path /\ q \in Path /\ p \in Path /\ p # Root
  BY LegalFacts
<1>2. /\ n \in Nat /\ m \in Nat /\ k \in Nat /\ n < k
      /\ r \in Path /\ Len(r) = m + (k - n)
      /\ \A i \in 1..m : r[i] = q[i]
      /\ \A i \in 1..(k - n) : r[m + i] = p[n + i]
  BY <1>1, RebasedAt
<1> HIDE DEF r, n, m, k
<1>3. IsStrictPrefix(q, r)
  <2>1. IsPrefix(q, r)
    BY <1>1, <1>2, PrefixAt DEF m
  <2>2. q # r
    BY <1>2 DEF m
  <2> QED
    BY <2>1, <2>2 DEF IsStrictPrefix
<1>4. r # Root
  <2>1. Len(r) > 0 /\ Len(<<>>) = 0
    BY <1>2
  <2> QED
    BY <2>1 DEF Root
<1>5. \A i \in 1..Len(r) : r[i] \in Name \cup {Index} /\ (i < Len(r) => r[i] # Index)
  <2> TAKE i \in 1..Len(r)
  <2>1. CASE i <= m
    <3>1. r[i] \in Name
      BY <1>2, <2>1 DEF m
    <3> QED
      BY <3>1, NameFacts
  <2>2. CASE i > m
    <3> DEFINE j == i - m
    <3>1. j \in 1..(k - n) /\ i = m + j
      BY <1>2, <2>2
    <3>2. r[i] = p[n + j] /\ n + j \in 1..k /\ (i < Len(r) => n + j < k)
      BY <1>2, <3>1
    <3> HIDE DEF j
    <3>3. /\ p \in Seq(Name \cup {Index})
          /\ \A l \in 1..(k - 1) : p[l] # Index
      BY DEF Legal, k
    <3>4. p[n + j] \in Name \cup {Index}
      BY <3>2, <3>3 DEF k
    <3>5. i < Len(r) => n + j \in 1..(k - 1)
      BY <1>2, <3>2
    <3> QED
      BY <3>2, <3>3, <3>4, <3>5
  <2> QED
    BY <1>2, <2>1, <2>2
<1>6. r \in Legal
  <2>1. r \in Seq(Name \cup {Index})
    <3>1. r \in Seq(Nat) /\ Len(r) \in Nat
      BY <1>2 DEF Path
    <3>2. r = [i \in 1..Len(r) |-> r[i]]
      BY <3>1
    <3>3. \A i \in 1..Len(r) : r[i] \in Name \cup {Index}
      BY <1>5
    <3> QED
      BY <3>1, <3>2, <3>3, IsASeq
  <2>2. \A i \in 1..(Len(r) - 1) : r[i] # Index
    <3>1. Len(r) \in Nat
      BY <1>2
    <3>2. \A i \in 1..(Len(r) - 1) : i \in 1..Len(r) /\ i < Len(r)
      BY <3>1
    <3> QED
      BY <3>2, <1>5
  <2> QED
    BY <1>4, <2>1, <2>2 DEF Legal
<1>7. IsIndex(r) <=> IsIndex(p)
  <2>1. /\ r # <<>> => Last(r) = r[Len(r)]
        /\ p # <<>> => Last(p) = p[Len(p)]
    BY DEF Last
  <2>2. r[Len(r)] = p[k]
    <3> PICK j \in Nat : j = k - n
      BY <1>2
    <3>1. j \in 1..(k - n) /\ m + j = Len(r) /\ n + j = k
      BY <1>2
    <3>2. r[m + j] = p[n + j]
      BY <1>2, <3>1
    <3> QED
      BY <3>1, <3>2
  <2> QED
    BY <1>1, <1>4, <2>1, <2>2 DEF IsIndex, Leaf, Root, k
<1>8. Rebased(q, d, r) = p
  <2> DEFINE b == Rebased(q, d, r)
  <2>1. /\ b \in Path /\ Len(b) = n + (Len(r) - m)
        /\ \A i \in 1..n : b[i] = d[i]
        /\ \A i \in 1..(Len(r) - m) : b[n + i] = r[m + i]
    BY <1>1, <1>2, <1>3, RebasedAt DEF n, m
  <2> HIDE DEF b
  <2>2. Len(b) = k /\ Len(r) - m = k - n
    BY <1>2, <2>1
  <2>3. \A i \in 1..n : p[i] = d[i]
    BY <1>1, PrefixAt DEF IsStrictPrefix, n
  <2>4. \A i \in 1..k : b[i] = p[i]
    <3> TAKE i \in 1..k
    <3>1. CASE i <= n
      BY <1>2, <2>1, <2>3, <3>1
    <3>2. CASE i > n
      <4> DEFINE j == i - n
      <4>1. j \in 1..(k - n) /\ i = n + j
        BY <1>2, <3>2
      <4> HIDE DEF j
      <4> QED
        BY <4>1, <1>2, <2>1, <2>2
    <3> QED
      BY <1>2, <3>1, <3>2
  <2>5. b = p
    BY <1>1, <2>1, <2>2, <2>4, SeqEqual DEF Path, k
  <2> QED
    BY <2>5 DEF b
<1> QED
  BY <1>2, <1>3, <1>6, <1>7, <1>8 DEF r

(* What stays apart under d stays apart under q. *)
LEMMA RebasedApart ==
    ASSUME NEW d \in Seq(Name), NEW q \in Seq(Name),
           NEW p1 \in Legal, IsStrictPrefix(d, p1), NEW p2 \in Legal, IsStrictPrefix(d, p2),
           IsPrefix(Rebased(d, q, p1), Rebased(d, q, p2))
    PROVE  IsPrefix(p1, p2)
<1> DEFINE r1 == Rebased(d, q, p1)
           r2 == Rebased(d, q, p2)
           n == Len(d)
           m == Len(q)
<1>1. d \in Path /\ q \in Path /\ p1 \in Path /\ p2 \in Path
  BY LegalFacts
<1>2. /\ n \in Nat /\ m \in Nat /\ Len(p1) \in Nat /\ n < Len(p1)
      /\ r1 \in Path /\ Len(r1) = m + (Len(p1) - n)
      /\ \A i \in 1..(Len(p1) - n) : r1[m + i] = p1[n + i]
  BY <1>1, RebasedAt
<1>3. /\ Len(p2) \in Nat /\ n < Len(p2)
      /\ r2 \in Path /\ Len(r2) = m + (Len(p2) - n)
      /\ \A i \in 1..(Len(p2) - n) : r2[m + i] = p2[n + i]
  BY <1>1, RebasedAt
<1>4. /\ \A i \in 1..n : p1[i] = d[i]
      /\ \A i \in 1..n : p2[i] = d[i]
  BY <1>1, PrefixAt DEF IsStrictPrefix
<1> HIDE DEF r1, r2, n, m
<1>5. IsPrefix(r1, r2)
  BY DEF r1, r2
<1>6. Len(r1) <= Len(r2) /\ \A i \in 1..Len(r1) : r1[i] = r2[i]
  BY <1>2, <1>3, <1>5, PrefixAt
<1>7. Len(p1) <= Len(p2)
  BY <1>2, <1>3, <1>6
<1>8. \A i \in 1..Len(p1) : p1[i] = p2[i]
  <2> TAKE i \in 1..Len(p1)
  <2>1. CASE i <= n
    <3>1. i \in 1..n
      BY <1>2, <2>1
    <3> QED
      BY <1>4, <3>1
  <2>2. CASE i > n
    <3> DEFINE j == i - n
    <3>1. j \in 1..(Len(p1) - n) /\ i = n + j /\ j \in 1..(Len(p2) - n) /\ m + j \in 1..Len(r1)
      BY <1>2, <1>3, <1>7, <2>2
    <3> HIDE DEF j
    <3> QED
      BY <3>1, <1>2, <1>3, <1>6
  <2> QED
    BY <1>2, <2>1, <2>2
<1> QED
  BY <1>1, <1>7, <1>8, PrefixAt

LEMMA MoveDirectoryFacts ==
    ASSUME NEW t, TreeOK(t), NEW d \in Seq(Name), NEW q \in Seq(Name), q # Root,
           CanMoveDirectory(t, d, q)
    PROVE  /\ Tidy(MoveDirectory(t, d, q), t,
                   (Under(d) \cup Under(q)) \cup {IndexPath(Parent(d)), IndexPath(Parent(q))})
           /\ MoveDirectory(t, d, q).changes # <<>>
<1> DEFINE S == Subtree(t, d)
           To(p) == Rebased(d, q, p)
           files == SetToSeq(S)
           at == {To(p) : p \in S}
           ups == [p \in at |-> t[Rebased(q, d, p)]]
           ws == [i \in DOMAIN files |-> DiskWrite(To(files[i]), t[files[i]])]
           w == DiskRemoveAll(d)
           cs == [i \in DOMAIN files |-> Moved(files[i], To(files[i]), t[files[i]])]
           e == [removed |-> {d}, upserts |-> ups, disk |-> Append(ws, w), changes |-> cs]
           f == EntryMoved(t, Parent(d), Leaf(d), Parent(q), [name |-> Leaf(q), folder |-> TRUE])
           D == {Parent(d), Parent(q)}
<1>1. /\ d # Root /\ IsFolder(t, d) /\ DOMAIN t \subseteq Legal /\ IsFiniteSet(DOMAIN t)
      /\ d \notin DOMAIN t /\ Legal \subseteq Path /\ ~IsPrefix(d, q) /\ ~Exists(t, q)
  BY LegalFacts DEF CanMoveDirectory, TreeOK, WellFormed
<1>2. /\ d \in Path /\ Parent(d) \in Seq(Name) /\ Parent(d) \in Path /\ ~IsPrefix(d, Parent(d))
      /\ q \in Path /\ Parent(q) \in Seq(Name) /\ Parent(q) \in Path /\ ~IsPrefix(q, Parent(q))
      /\ IsPrefix(Parent(d), d) /\ IsPrefix(Parent(q), q)
  BY <1>1, PathFacts DEF IsStrictPrefix
<1>3. ~IsPrefix(q, d)
  <2> SUFFICES ASSUME IsPrefix(q, d) PROVE FALSE
    OBVIOUS
  <2>1. PICK x \in DOMAIN t : IsStrictPrefix(d, x)
    BY <1>1 DEF IsFolder
  <2>2. x \in Path /\ IsPrefix(d, x)
    BY <1>1, <2>1 DEF IsStrictPrefix
  <2>3. IsPrefix(q, x)
    BY <1>2, <2>2, PrefixFacts
  <2>4. q # x
    BY <1>1, <2>2
  <2> QED
    BY <1>1, <2>1, <2>3, <2>4 DEF Exists, IsFolder, IsStrictPrefix
<1>4. /\ MoveDirectory(t, d, q) = Then(e, f)
      /\ e.removed = {d} /\ e.upserts = ups /\ e.disk = Append(ws, w) /\ e.changes = cs
  BY DEF MoveDirectory, Rebased
<1>5. /\ S \subseteq Legal /\ S \subseteq DOMAIN t /\ S # {} /\ IsFiniteSet(S)
      /\ \A p \in S : IsStrictPrefix(d, p)
      /\ \A p \in DOMAIN t : IsPrefix(d, p) => p \in S
  BY <1>1, FS_Subset DEF Subtree, IsFolder, IsStrictPrefix
<1>6. \A p \in S : /\ To(p) \in Legal /\ To(p) \in Path /\ IsStrictPrefix(q, To(p))
                   /\ IsIndex(To(p)) <=> IsIndex(p)
                   /\ Rebased(q, d, To(p)) = p
  BY <1>5, RebasedFacts
<1>7. \A p1, p2 \in S : IsPrefix(To(p1), To(p2)) => IsPrefix(p1, p2)
  BY <1>5, RebasedApart
<1>8. \A x \in Path : ~(IsPrefix(d, x) /\ IsPrefix(q, x))
  BY <1>1, <1>2, <1>3, PrefixFacts
<1>9. /\ Listed(files) /\ Range(files) = S /\ Len(files) \in Nat
      /\ DOMAIN files = 1..Len(files) /\ Range(files) = {files[i] : i \in 1..Len(files)}
  BY <1>5, SetToSeqFacts, ListedFacts
<1> HIDE DEF To, S, files
<1>10. /\ DOMAIN ups = at /\ IsFiniteSet(at) /\ at \subseteq Legal
       /\ \A p \in S : To(p) \in at /\ ups[To(p)] = t[p]
  <2> DEFINE g == [p \in S |-> To(p)]
  <2>1. g \in Surjection(S, at)
    <3>1. g \in [S -> at] /\ \A p \in S : g[p] = To(p)
      OBVIOUS
    <3> QED
      BY <3>1 DEF Surjection
  <2>2. IsFiniteSet(at)
    BY <1>5, <2>1, FS_Surjection
  <2>3. \A p \in S : ups[To(p)] = t[p]
    BY <1>6
  <2> QED
    BY <1>6, <2>2, <2>3
<1>11. \A x \in at : x \in Path /\ IsStrictPrefix(q, x) /\ ~IsPrefix(d, x)
  BY <1>6, <1>8 DEF IsStrictPrefix
<1>12. \A p \in S : BlobAt(ups, To(p)) = <<t[p]>>
  BY <1>10 DEF BlobAt
<1>13. \A x : x \notin at => BlobAt(ups, x) = <<>>
  BY <1>10 DEF BlobAt
<1> HIDE DEF ups, at
<1>14. /\ Listed(cs) /\ Len(cs) = Len(files)
       /\ Range(cs) = {Moved(p, To(p), t[p]) : p \in S}
       /\ cs # <<>>
  <2>1. DOMAIN cs = 1..Len(files) /\ cs = [i \in 1..Len(files) |-> cs[i]]
    BY <1>9
  <2>2. Listed(cs) /\ Len(cs) = Len(files)
    BY <1>9, <2>1, ListedBy
  <2>3. Range(cs) = {Moved(files[i], To(files[i]), t[files[i]]) : i \in 1..Len(files)}
    BY <2>1, <1>9 DEF Range
  <2>4. Range(cs) = {Moved(p, To(p), t[p]) : p \in S}
    BY <2>3, <1>9
  <2>5. Range(<<>>) = {}
    BY DEF Range
  <2>6. {Moved(p, To(p), t[p]) : p \in S} # {}
    BY <1>5
  <2> HIDE DEF cs
  <2> QED
    BY <2>2, <2>4, <2>5, <2>6
<1>15. /\ Listed(Append(ws, w)) /\ Range(Append(ws, w)) = {DiskWrite(To(p), t[p]) : p \in S} \cup {w}
  <2>1. DOMAIN ws = 1..Len(files) /\ ws = [i \in 1..Len(files) |-> ws[i]]
    BY <1>9
  <2>2. Listed(ws) /\ Len(ws) = Len(files)
    BY <1>9, <2>1, ListedBy
  <2>3. Range(ws) = {DiskWrite(To(files[i]), t[files[i]]) : i \in 1..Len(files)}
    BY <2>1, <1>9 DEF Range
  <2>4. Range(ws) = {DiskWrite(To(p), t[p]) : p \in S}
    BY <2>3, <1>9
  <2> HIDE DEF ws, w
  <2>5. Append(ws, w) = ws \o <<w>>
    <3>1. ws \in Seq(Range(ws) \cup {w}) /\ w \in Range(ws) \cup {w}
      <4>1. ws \in Seq(Range(ws))
        BY <2>2 DEF Listed
      <4> QED
        BY <4>1, SeqMonotonic
    <3> QED
      BY <3>1, AppendIsConcat
  <2>6. Listed(<<w>>) /\ Range(<<w>>) = {w}
    BY OutcomeOne, RangeOne
  <2> QED
    BY <2>2, <2>4, <2>5, <2>6, ListedConcat
<1> HIDE DEF cs, ws, e, f
<1>16. \A p \in S : /\ IsChange(Moved(p, To(p), t[p]))
                    /\ IsCommand(DiskWrite(To(p), t[p]))
  BY <1>5, <1>6 DEF IsChange, IsCommand, Moved, DiskWrite, Mirror, FileKinds
<1>17. w.do = "rmdir" /\ w.path = d /\ IsCommand(w)
  BY <1>2 DEF w, DiskRemoveAll, Mirror, IsCommand
<1> HIDE DEF w
<1>18. IsEdit(e)
  <2>1. {d} \subseteq Path
    BY <1>2
  <2>2. \A c \in Range(e.disk) : IsCommand(c)
    BY <1>4, <1>15, <1>16, <1>17
  <2>3. \A c \in Range(e.changes) : IsChange(c)
    BY <1>4, <1>14, <1>16
  <2> QED
    BY <2>1, <2>2, <2>3, <1>4, <1>10, <1>14, <1>15 DEF IsEdit
<1>19. \A p \in S, x \in Path :
          /\ Touches(Moved(p, To(p), t[p]), <<"file", x>>) <=> x = p \/ x = To(p)
          /\ Touches(Moved(p, To(p), t[p]), <<"file", x>>)
                => Says(Moved(p, To(p), t[p]), <<"file", x>>) = BlobAt(ups, x)
          /\ Touches(DiskWrite(To(p), t[p]), <<"disk", x>>) <=> x = To(p)
          /\ Touches(DiskWrite(To(p), t[p]), <<"disk", x>>)
                => Says(DiskWrite(To(p), t[p]), <<"disk", x>>) = BlobAt(ups, x)
  <2> TAKE p \in S, x \in Path
  <2> DEFINE c == Moved(p, To(p), t[p])
             v == DiskWrite(To(p), t[p])
  <2>1. /\ c.kind = "moved" /\ c.path = To(p) /\ c.from = p /\ c.blob = t[p]
        /\ v.do = "write" /\ v.path = To(p) /\ v.blob = t[p]
    BY DEF Moved, DiskWrite, Mirror
  <2>2. p # To(p) /\ p \notin at /\ BlobAt(ups, p) = <<>> /\ BlobAt(ups, To(p)) = <<t[p]>>
    BY <1>5, <1>10, <1>11, <1>12, <1>13 DEF IsStrictPrefix
  <2> HIDE DEF c, v
  <2>3. Touches(c, <<"file", x>>) <=> x = p \/ x = To(p)
    BY <2>1 DEF Touches, FileKinds
  <2>4. Says(c, <<"file", x>>) = IF x = To(p) THEN <<t[p]>> ELSE <<>>
    BY <2>1 DEF Says
  <2>5. Touches(v, <<"disk", x>>) <=> x = To(p)
    BY <2>1 DEF Touches
  <2>6. Says(v, <<"disk", x>>) = <<t[p]>>
    BY <2>1 DEF Says
  <2>7. Touches(c, <<"file", x>>) => Says(c, <<"file", x>>) = BlobAt(ups, x)
    BY <2>2, <2>3, <2>4
  <2>8. Touches(v, <<"disk", x>>) => Says(v, <<"disk", x>>) = BlobAt(ups, x)
    BY <2>2, <2>5, <2>6
  <2> QED
    BY <2>3, <2>5, <2>7, <2>8 DEF c, v
<1>20. \A x \in Path : /\ Mentions(cs, <<"file", x>>) <=> x \in S \/ x \in at
                       /\ LastSays(cs, <<"file", x>>, BlobAt(ups, x))
  <2> TAKE x \in Path
  <2> DEFINE k == <<"file", x>>
  <2>1. \A p \in S : /\ Touches(Moved(p, To(p), t[p]), k) <=> x = p \/ x = To(p)
                     /\ Touches(Moved(p, To(p), t[p]), k)
                           => Says(Moved(p, To(p), t[p]), k) = BlobAt(ups, x)
    BY <1>19
  <2> HIDE DEF k
  <2>2. /\ Mentions(cs, k) <=> \E c \in Range(cs) : Touches(c, k)
        /\ (\A c \in Range(cs) : Touches(c, k) => Says(c, k) = BlobAt(ups, x))
              => LastSays(cs, k, BlobAt(ups, x))
    BY <1>14, AllSay
  <2>3. (\E c \in Range(cs) : Touches(c, k)) <=> \E p \in S : x = p \/ x = To(p)
    BY <1>14, <2>1
  <2>4. (\E p \in S : x = p \/ x = To(p)) <=> x \in S \/ x \in at
    BY DEF at
  <2>5. \A c \in Range(cs) : Touches(c, k) => Says(c, k) = BlobAt(ups, x)
    BY <1>14, <2>1
  <2> QED
    BY <2>2, <2>3, <2>4, <2>5 DEF k
<1>21. \A x \in Path : /\ Mentions(e.disk, <<"disk", x>>) <=> IsPrefix(d, x) \/ x \in at
                       /\ LastSays(e.disk, <<"disk", x>>, BlobAt(ups, x))
  <2> TAKE x \in Path
  <2> DEFINE k == <<"disk", x>>
             T == {DiskWrite(To(p), t[p]) : p \in S}
  <2>1. \A p \in S : /\ Touches(DiskWrite(To(p), t[p]), k) <=> x = To(p)
                     /\ Touches(DiskWrite(To(p), t[p]), k)
                           => Says(DiskWrite(To(p), t[p]), k) = BlobAt(ups, x)
    BY <1>19
  <2>2. /\ Touches(w, k) <=> IsPrefix(d, x)
        /\ Says(w, k) = <<>>
    BY <1>17 DEF Touches, Says
  <2> HIDE DEF k
  <2>3. Listed(e.disk) /\ Range(e.disk) = T \cup {w}
    BY <1>4, <1>15
  <2>4. /\ Mentions(e.disk, k) <=> \E c \in Range(e.disk) : Touches(c, k)
        /\ (\A c \in Range(e.disk) : Touches(c, k) => Says(c, k) = BlobAt(ups, x))
              => LastSays(e.disk, k, BlobAt(ups, x))
    BY <2>3, AllSay
  <2>5. (\E c \in T : Touches(c, k)) <=> x \in at
    BY <2>1 DEF at
  <2>6. \A c \in T : Touches(c, k) => Says(c, k) = BlobAt(ups, x)
    BY <2>1
  <2>7. IsPrefix(d, x) => BlobAt(ups, x) = <<>>
    BY <1>11, <1>13
  <2> HIDE DEF T
  <2>8. \A c \in Range(e.disk) : Touches(c, k) => Says(c, k) = BlobAt(ups, x)
    BY <2>2, <2>3, <2>6, <2>7
  <2> QED
    BY <2>2, <2>3, <2>4, <2>5, <2>8 DEF k
<1>22. \A x : Covered(e, x) <=> IsPrefix(d, x)
  BY <1>4 DEF Covered
<1>23. Faithful(e.changes, "file", e, t)
  BY <1>4, <1>5, <1>10, <1>20, <1>22 DEF Faithful, IsStrictPrefix
<1>24. Faithful(e.disk, "disk", e, t)
  BY <1>4, <1>5, <1>10, <1>21, <1>22 DEF Faithful
<1>25. Within(e, Under(d) \cup Under(q)) /\ e.removed \subseteq Under(d) \cup Under(q)
  <2>1. at \subseteq Under(q)
    BY <1>11 DEF Under, IsStrictPrefix
  <2>2. \A x \in Path : x \in S \/ IsPrefix(d, x) => x \in Under(d)
    BY <1>5 DEF Under, IsStrictPrefix
  <2>3. d \in Under(d)
    BY <1>2, PrefixFacts DEF Under
  <2> QED
    BY <2>1, <2>2, <2>3, <1>4, <1>10, <1>20, <1>21 DEF Within
<1>26. Separate(e)
  <2> SUFFICES ASSUME NEW x \in at, NEW y \in at, IsStrictPrefix(x, y) PROVE FALSE
    BY <1>4, <1>10 DEF Separate
  <2>1. PICK p \in S : x = To(p)
    BY DEF at
  <2>2. PICK r \in S : y = To(r)
    BY DEF at
  <2>3. IsPrefix(p, r) /\ p # r
    BY <1>7, <2>1, <2>2 DEF IsStrictPrefix
  <2> QED
    BY <1>5, <2>3 DEF TreeOK, WellFormed, IsFolder, IsStrictPrefix
<1>27. Tidy(e, t, Under(d) \cup Under(q)) /\ e.changes # <<>>
  BY <1>4, <1>14, <1>18, <1>23, <1>24, <1>25, <1>26 DEF Tidy, Honest
<1>28. Tidy(f, t, {IndexPath(Parent(d)), IndexPath(Parent(q))})
  BY <1>1, <1>2, EntryMovedFacts DEF f
<1>29. ~IsPrefix(d, Parent(q)) /\ ~IsPrefix(q, Parent(d))
  BY <1>1, <1>2, <1>3, PrefixFacts
<1>30. /\ D \subseteq Seq(Name)
       /\ {IndexPath(Parent(d)), IndexPath(Parent(q))} = {IndexPath(x) : x \in D}
       /\ \A x \in D : x \in Path /\ ~IsPrefix(d, x) /\ ~IsPrefix(q, x)
  BY <1>1, <1>2, <1>29
<1> HIDE DEF D
<1>31. \A x \in D : /\ IndexPath(x) \notin Under(d) \cup Under(q)
                    /\ \A p \in DOMAIN e.upserts : ~IsPrefix(p, x)
  <2> TAKE x \in D
  <2>1. IndexPath(x) \notin Under(d) \cup Under(q)
    BY <1>1, <1>30, IndexOutside
  <2>2. \A p \in at : ~IsPrefix(p, x)
    BY <1>2, <1>11, <1>30, PrefixFacts DEF IsStrictPrefix
  <2> QED
    BY <2>1, <2>2, <1>4, <1>10
<1>32. /\ Tidy(Then(e, f), t, (Under(d) \cup Under(q))
                              \cup {IndexPath(Parent(d)), IndexPath(Parent(q))})
       /\ Then(e, f).changes # <<>>
  BY <1>27, <1>28, <1>30, <1>31, TidyWithIndexes
<1> QED
  BY <1>4, <1>32
-----------------------------------------------------------------------------
(* Edits taken together. *)

LEMMA TogetherSteps ==
    ASSUME NEW edits, Len(edits) \in Nat
    PROVE  \E f : /\ Together(edits) = f[Len(edits)] /\ f[0] = NoEdit
                  /\ \A n \in 1..Len(edits) : f[n] = Then(f[n - 1], edits[n])
<1> DEFINE N == Len(edits)
<1> DEFINE Made(g, m) ==
      g = [n \in 0..m |-> IF n = 0 THEN NoEdit ELSE Then(g[n - 1], edits[n])]
<1> DEFINE S == {m \in Nat : \E g : Made(g, m)}
<1>1. 0 \in S
  <2> DEFINE g == [n \in 0..0 |-> NoEdit]
  <2>1. Made(g, 0)
    OBVIOUS
  <2> QED
    BY <2>1
<1>2. ASSUME NEW m \in Nat, m \in S PROVE m + 1 \in S
  <2>1. PICK g : Made(g, m)
    BY <1>2
  <2> DEFINE h == [n \in 0..(m + 1) |-> IF n = 0 THEN NoEdit ELSE Then(g[n - 1], edits[n])]
  <2>2. /\ \A n \in 0..(m + 1) : n # 0 => n - 1 \in 0..m
        /\ \A n \in 0..m : n \in 0..(m + 1)
    OBVIOUS
  <2>3. \A n \in 0..m : g[n] = IF n = 0 THEN NoEdit ELSE Then(g[n - 1], edits[n])
    BY <2>1
  <2>4. \A n \in 0..m : h[n] = g[n]
    BY <2>2, <2>3
  <2>5. \A n \in 0..(m + 1) : h[n] = IF n = 0 THEN NoEdit ELSE Then(h[n - 1], edits[n])
    BY <2>2, <2>4
  <2>6. Made(h, m + 1)
    BY <2>5
  <2> HIDE DEF h, Made
  <2> QED
    BY <2>6
<1> HIDE DEF Made
<1>3. N \in S
  BY <1>1, <1>2, Induct
<1>4. \E g : Made(g, N)
  BY <1>3
<1> DEFINE f == CHOOSE g : Made(g, N)
<1>5. Made(f, N)
  BY <1>4
<1>6. Together(edits) = f[N]
  BY DEF Together, Made
<1> HIDE DEF f
<1>7. \A n \in 0..N : f[n] = IF n = 0 THEN NoEdit ELSE Then(f[n - 1], edits[n])
  BY <1>5 DEF Made
<1>8. 0 \in 0..N /\ \A n \in 1..N : n \in 0..N /\ n # 0
  OBVIOUS
<1>9. f[0] = NoEdit /\ \A n \in 1..N : f[n] = Then(f[n - 1], edits[n])
  BY <1>7, <1>8
<1> QED
  BY <1>6, <1>9

LEMMA ThenFacts ==
    ASSUME NEW e, NEW f, IsEdit(e), IsEdit(f)
    PROVE  /\ IsEdit(Then(e, f))
           /\ \A p : p \in Then(e, f).removed <=> p \in e.removed \/ p \in f.removed
           /\ \A p : p \in DOMAIN Then(e, f).upserts <=> p \in DOMAIN e.upserts \/ p \in DOMAIN f.upserts
           /\ \A p \in DOMAIN f.upserts : Then(e, f).upserts[p] = f.upserts[p]
           /\ \A p \in DOMAIN e.upserts :
                 p \notin DOMAIN f.upserts => Then(e, f).upserts[p] = e.upserts[p]
           /\ Range(Then(e, f).disk) = Range(e.disk) \cup Range(f.disk)
<1> DEFINE g == Then(e, f)
<1>1. /\ g.removed = e.removed \cup f.removed
      /\ DOMAIN g.upserts = DOMAIN f.upserts \cup DOMAIN e.upserts
      /\ g.changes = e.changes \o f.changes /\ g.disk = e.disk \o f.disk
      /\ \A p \in DOMAIN f.upserts : g.upserts[p] = f.upserts[p]
      /\ \A p \in DOMAIN e.upserts : p \notin DOMAIN f.upserts => g.upserts[p] = e.upserts[p]
  BY DEF Then, Overlay
<1>2. /\ Listed(e.changes) /\ Listed(f.changes) /\ Listed(e.disk) /\ Listed(f.disk)
  BY DEF IsEdit
<1>3. /\ Listed(g.changes) /\ Range(g.changes) = Range(e.changes) \cup Range(f.changes)
      /\ Listed(g.disk) /\ Range(g.disk) = Range(e.disk) \cup Range(f.disk)
  BY <1>1, <1>2, ListedConcat
<1>4. IsFiniteSet(DOMAIN g.upserts)
  <2>1. IsFiniteSet(DOMAIN e.upserts) /\ IsFiniteSet(DOMAIN f.upserts)
    BY DEF IsEdit
  <2>2. IsFiniteSet(DOMAIN f.upserts \cup DOMAIN e.upserts)
    BY <2>1, FS_Union
  <2> QED
    BY <1>1, <2>2
<1> HIDE DEF g
<1>5. IsEdit(g)
  BY <1>1, <1>3, <1>4 DEF IsEdit
<1> QED
  BY <1>1, <1>3, <1>5 DEF g

LEMMA TogetherFacts ==
    ASSUME NEW edits, Len(edits) \in Nat, \A i \in 1..Len(edits) : IsEdit(edits[i])
    PROVE  /\ IsEdit(Together(edits))
           /\ Together(edits).removed = UNION {edits[i].removed : i \in 1..Len(edits)}
           /\ DOMAIN Together(edits).upserts = UNION {DOMAIN edits[i].upserts : i \in 1..Len(edits)}
           /\ \A p \in DOMAIN Together(edits).upserts : \E i \in 1..Len(edits) :
                 p \in DOMAIN edits[i].upserts /\ Together(edits).upserts[p] = edits[i].upserts[p]
           /\ Range(Together(edits).disk) = UNION {Range(edits[i].disk) : i \in 1..Len(edits)}
<1> DEFINE N == Len(edits)
<1>1. PICK f : /\ Together(edits) = f[N] /\ f[0] = NoEdit
               /\ \A n \in 1..N : f[n] = Then(f[n - 1], edits[n])
  BY TogetherSteps
<1> DEFINE Good(n) ==
      /\ IsEdit(f[n])
      /\ \A p : p \in f[n].removed <=> \E i \in 1..n : p \in edits[i].removed
      /\ \A p : p \in DOMAIN f[n].upserts <=> \E i \in 1..n : p \in DOMAIN edits[i].upserts
      /\ \A p \in DOMAIN f[n].upserts : \E i \in 1..n :
            p \in DOMAIN edits[i].upserts /\ f[n].upserts[p] = edits[i].upserts[p]
      /\ \A c : c \in Range(f[n].disk) <=> \E i \in 1..n : c \in Range(edits[i].disk)
<1> DEFINE S == {n \in Nat : n <= N => Good(n)}
<1>2. 0 \in S
  <2>1. IsEdit(f[0])
    BY <1>1, NoEditFacts DEF Honest
  <2>2. f[0].removed = {} /\ DOMAIN f[0].upserts = {} /\ Range(f[0].disk) = {}
    BY <1>1 DEF NoEdit, Range
  <2> QED
    BY <2>1, <2>2
<1>3. ASSUME NEW n \in Nat, n \in S PROVE n + 1 \in S
  <2> SUFFICES ASSUME n + 1 <= N PROVE Good(n + 1)
    OBVIOUS
  <2>1. Good(n)
    BY <1>3
  <2> PICK m \in Nat : m = n + 1
    OBVIOUS
  <2>2. m \in 1..N /\ m - 1 = n
    OBVIOUS
  <2>3. f[m] = Then(f[n], edits[m])
    BY <1>1, <2>2
  <2>4. IsEdit(edits[m])
    BY <2>2
  <2>5. /\ IsEdit(f[m])
        /\ \A p : p \in f[m].removed <=> p \in f[n].removed \/ p \in edits[m].removed
        /\ \A p : p \in DOMAIN f[m].upserts <=> p \in DOMAIN f[n].upserts \/ p \in DOMAIN edits[m].upserts
        /\ \A p \in DOMAIN edits[m].upserts : f[m].upserts[p] = edits[m].upserts[p]
        /\ \A p \in DOMAIN f[n].upserts :
              p \notin DOMAIN edits[m].upserts => f[m].upserts[p] = f[n].upserts[p]
        /\ Range(f[m].disk) = Range(f[n].disk) \cup Range(edits[m].disk)
    BY <2>1, <2>3, <2>4, ThenFacts
  <2>6. 1..m = (1..n) \cup {m}
    OBVIOUS
  <2>7. \A p : p \in f[m].removed <=> \E i \in 1..m : p \in edits[i].removed
    BY <2>1, <2>5, <2>6
  <2>8. \A p : p \in DOMAIN f[m].upserts <=> \E i \in 1..m : p \in DOMAIN edits[i].upserts
    BY <2>1, <2>5, <2>6
  <2>9. ASSUME NEW p \in DOMAIN f[m].upserts
        PROVE  \E i \in 1..m :
                  p \in DOMAIN edits[i].upserts /\ f[m].upserts[p] = edits[i].upserts[p]
    <3>1. CASE p \in DOMAIN edits[m].upserts
      BY <2>5, <2>6, <3>1
    <3>2. CASE p \notin DOMAIN edits[m].upserts
      <4>1. p \in DOMAIN f[n].upserts /\ f[m].upserts[p] = f[n].upserts[p]
        BY <2>5, <3>2
      <4> QED
        BY <2>1, <2>6, <4>1
    <3> QED
      BY <3>1, <3>2
  <2>10. \A c : c \in Range(f[m].disk) <=> \E i \in 1..m : c \in Range(edits[i].disk)
    BY <2>1, <2>5, <2>6
  <2> QED
    BY <2>5, <2>7, <2>8, <2>9, <2>10
<1> HIDE DEF Good
<1>4. N \in S
  BY <1>2, <1>3, Induct
<1>5. Good(N)
  BY <1>4
<1>6. /\ IsEdit(f[N])
      /\ \A p \in DOMAIN f[N].upserts : \E i \in 1..N :
            p \in DOMAIN edits[i].upserts /\ f[N].upserts[p] = edits[i].upserts[p]
      /\ f[N].removed = UNION {edits[i].removed : i \in 1..N}
      /\ DOMAIN f[N].upserts = UNION {DOMAIN edits[i].upserts : i \in 1..N}
      /\ Range(f[N].disk) = UNION {Range(edits[i].disk) : i \in 1..N}
  BY <1>5 DEF Good
<1> QED
  BY <1>1, <1>6

(* Tidy edits of the same tree, each about paths of its own. *)
LEMMA TogetherTidy ==
    ASSUME NEW t, NEW edits, Len(edits) \in Nat, NEW P, NEW W,
           \A i \in 1..Len(edits) : Tidy(edits[i], t, P[i]) /\ DOMAIN edits[i].upserts \subseteq W,
           \A i, j \in 1..Len(edits) : i # j => P[i] \cap P[j] = {},
           \A p, q \in W : ~IsStrictPrefix(p, q)
    PROVE  /\ Tidy(Together(edits), t, UNION {P[i] : i \in 1..Len(edits)})
           /\ DOMAIN Together(edits).upserts \subseteq W
<1> DEFINE N == Len(edits)
<1>1. PICK f : /\ Together(edits) = f[N] /\ f[0] = NoEdit
               /\ \A n \in 1..N : f[n] = Then(f[n - 1], edits[n])
  BY TogetherSteps
<1> DEFINE U(n) == UNION {P[i] : i \in 1..n}
           Good(n) == Tidy(f[n], t, U(n)) /\ DOMAIN f[n].upserts \subseteq W
           S == {n \in Nat : n <= N => Good(n)}
<1>2. 0 \in S
  <2>1. Tidy(f[0], t, U(0))
    BY <1>1, TidyNoEdit
  <2>2. DOMAIN f[0].upserts = {}
    BY <1>1 DEF NoEdit
  <2> QED
    BY <2>1, <2>2
<1>3. ASSUME NEW n \in Nat, n \in S PROVE n + 1 \in S
  <2> SUFFICES ASSUME n + 1 <= N PROVE Good(n + 1)
    OBVIOUS
  <2>1. Good(n)
    BY <1>3
  <2> PICK m \in Nat : m = n + 1
    OBVIOUS
  <2>2. m \in 1..N /\ m - 1 = n
    OBVIOUS
  <2>3. f[m] = Then(f[n], edits[m])
    BY <1>1, <2>2
  <2>4. Tidy(edits[m], t, P[m]) /\ DOMAIN edits[m].upserts \subseteq W
    BY <2>2
  <2>5. \A i \in 1..n : i \in 1..N /\ i # m
    BY <2>2
  <2>6. U(n) \cap P[m] = {}
    BY <2>2, <2>5
  <2>7. 1..m = (1..n) \cup {m}
    OBVIOUS
  <2>8. U(m) = U(n) \cup P[m]
    BY <2>7
  <2> HIDE DEF U
  <2>9. Tidy(Then(f[n], edits[m]), t, U(n) \cup P[m])
    <3>1. \A p \in DOMAIN f[n].upserts, q \in DOMAIN edits[m].upserts :
             ~IsStrictPrefix(p, q) /\ ~IsStrictPrefix(q, p)
      BY <2>1, <2>4
    <3>2. Tidy(f[n], t, U(n)) /\ Tidy(edits[m], t, P[m])
      BY <2>1, <2>4
    <3> QED
      BY <2>6, <3>1, <3>2, TidyThen
  <2>10. DOMAIN f[m].upserts \subseteq W
    <3>1. DOMAIN f[m].upserts = DOMAIN edits[m].upserts \cup DOMAIN f[n].upserts
      BY <2>3 DEF Then, Overlay
    <3> QED
      BY <2>1, <2>4, <3>1
  <2> QED
    BY <2>3, <2>8, <2>9, <2>10
<1> HIDE DEF Good
<1>4. N \in S
  BY <1>2, <1>3, Induct
<1>5. Good(N)
  BY <1>4
<1> QED
  BY <1>1, <1>5 DEF Good
-----------------------------------------------------------------------------
(* The difference of two commits: each path is told by one delta, whatever *)
(* renames the diff finds.                                                 *)
PathsOf(d) == {d.old, d.new}

LEMMA RenamesFacts ==
    ASSUME NEW t, NEW u, NEW R \in Renames(t, u)
    PROVE  /\ DOMAIN R \subseteq Gone(t, u) /\ \A p \in DOMAIN R : R[p] \in Gone(u, t)
           /\ \A p, q \in DOMAIN R : R[p] = R[q] => p = q
           /\ \A p \in DOMAIN R : IsIndex(p) <=> IsIndex(R[p])
           /\ Range(R) = {R[p] : p \in DOMAIN R}
<1>1. PICK S \in SUBSET Gone(t, u) : R \in Injection(S, Gone(u, t))
  BY DEF Renames
<1>2. R \in [S -> Gone(u, t)] /\ \A p, q \in DOMAIN R : R[p] = R[q] => p = q
  BY <1>1 DEF Injection, IsInjective
<1>3. \A p \in DOMAIN R : IsIndex(p) <=> IsIndex(R[p])
  BY DEF Renames, Pairable
<1> QED
  BY <1>2, <1>3 DEF Range

LEMMA DeltaFacts ==
    ASSUME NEW t, NEW u, NEW R \in Renames(t, u), NEW d \in Deltas(t, u, R)
    PROVE  \/ d.status = "added" /\ d.old = d.new /\ d.new \in Gone(u, t)
                /\ d.new \notin DOMAIN R \cup Range(R)
           \/ d.status = "deleted" /\ d.old = d.new /\ d.old \in Gone(t, u)
                /\ d.old \notin DOMAIN R \cup Range(R)
           \/ d.status = "modified" /\ d.old = d.new /\ d.old \in DOMAIN t \cap DOMAIN u
                /\ t[d.old] # u[d.old]
           \/ d.status = "renamed" /\ d.old \in DOMAIN R /\ d.new = R[d.old]
                /\ d.old \in Gone(t, u) /\ d.new \in Gone(u, t) /\ (IsIndex(d.old) <=> IsIndex(d.new))
<1>1. /\ DOMAIN R \subseteq Gone(t, u) /\ \A p \in DOMAIN R : R[p] \in Gone(u, t)
      /\ \A p \in DOMAIN R : IsIndex(p) <=> IsIndex(R[p])
  BY RenamesFacts
<1>2. CASE \E p \in Gone(u, t) \ (DOMAIN R \cup Range(R)) : d = Delta("added", p, p)
  BY <1>2 DEF Delta
<1>3. CASE \E p \in Gone(t, u) \ (DOMAIN R \cup Range(R)) : d = Delta("deleted", p, p)
  BY <1>3 DEF Delta
<1>4. CASE \E p \in {q \in DOMAIN t \cap DOMAIN u : t[q] # u[q]} : d = Delta("modified", p, p)
  BY <1>4 DEF Delta
<1>5. CASE \E p \in DOMAIN R : d = Delta("renamed", p, R[p])
  BY <1>1, <1>5 DEF Delta
<1> QED
  BY <1>2, <1>3, <1>4, <1>5 DEF Deltas

LEMMA DeltaRecord ==
    ASSUME NEW t, NEW u, NEW R, NEW d \in Deltas(t, u, R)
    PROVE  d = Delta(d.status, d.old, d.new)
<1>1. \E s, p, q : d = Delta(s, p, q)
  BY DEF Deltas
<1> QED
  BY <1>1 DEF Delta

LEMMA DeltasApart ==
    ASSUME NEW t, NEW u, NEW R \in Renames(t, u), NEW d \in Deltas(t, u, R),
           NEW e \in Deltas(t, u, R), d # e
    PROVE  PathsOf(d) \cap PathsOf(e) = {}
<1>1. /\ DOMAIN R \subseteq Gone(t, u) /\ \A p \in DOMAIN R : R[p] \in Gone(u, t)
      /\ \A p, q \in DOMAIN R : R[p] = R[q] => p = q
      /\ Range(R) = {R[p] : p \in DOMAIN R}
  BY RenamesFacts
<1>2. d = Delta(d.status, d.old, d.new) /\ e = Delta(e.status, e.old, e.new)
  BY DeltaRecord
<1>3. ~(d.status = e.status /\ d.old = e.old /\ d.new = e.new)
  BY <1>2
<1> DEFINE Case(x) ==
       \/ x.status = "added" /\ x.old = x.new /\ x.new \in Gone(u, t)
                /\ x.new \notin DOMAIN R \cup Range(R)
       \/ x.status = "deleted" /\ x.old = x.new /\ x.old \in Gone(t, u)
                /\ x.old \notin DOMAIN R \cup Range(R)
       \/ x.status = "modified" /\ x.old = x.new /\ x.old \in DOMAIN t \cap DOMAIN u
       \/ x.status = "renamed" /\ x.old \in DOMAIN R /\ x.new = R[x.old]
                /\ x.old \in Gone(t, u) /\ x.new \in Gone(u, t)
<1>4. Case(d) /\ Case(e)
  BY DeltaFacts
<1>5. \A p : /\ p \in Gone(t, u) => p \notin Gone(u, t) /\ p \notin DOMAIN t \cap DOMAIN u
             /\ p \in Gone(u, t) => p \notin DOMAIN t \cap DOMAIN u
  BY DEF Gone
<1> SUFFICES ASSUME NEW p \in PathsOf(d), p \in PathsOf(e) PROVE FALSE
  OBVIOUS
<1> QED
  BY <1>1, <1>3, <1>4, <1>5 DEF PathsOf

(* What the deltas tell of, and that they are finitely many. *)
LEMMA DeltasTell ==
    ASSUME NEW t, NEW u, NEW R \in Renames(t, u)
    PROVE  /\ \A p \in Gone(u, t) : \E d \in Deltas(t, u, R) :
                 d.status \in {"added", "renamed"} /\ d.new = p
           /\ \A p \in Gone(t, u) : \E d \in Deltas(t, u, R) :
                 d.status \in {"deleted", "renamed"} /\ d.old = p
           /\ \A p \in DOMAIN t \cap DOMAIN u : t[p] # u[p] =>
                 \E d \in Deltas(t, u, R) : d.status = "modified" /\ d.old = p /\ d.new = p
<1>1. Range(R) = {R[p] : p \in DOMAIN R} /\ \A p \in DOMAIN R : p \in Gone(t, u) /\ R[p] \in Gone(u, t)
  BY RenamesFacts
<1>2. \A p \in DOMAIN R : Delta("renamed", p, R[p]) \in Deltas(t, u, R)
  BY DEF Deltas
<1>3. \A s, p, q : Delta(s, p, q).status = s /\ Delta(s, p, q).old = p /\ Delta(s, p, q).new = q
  BY DEF Delta
<1>4. \A p \in Gone(u, t) \ (DOMAIN R \cup Range(R)) : Delta("added", p, p) \in Deltas(t, u, R)
  BY DEF Deltas
<1>5. \A p \in Gone(t, u) \ (DOMAIN R \cup Range(R)) : Delta("deleted", p, p) \in Deltas(t, u, R)
  BY DEF Deltas
<1>6. \A p \in DOMAIN t \cap DOMAIN u : t[p] # u[p] => Delta("modified", p, p) \in Deltas(t, u, R)
  BY DEF Deltas
<1>7. \A p \in Gone(u, t) : p \notin DOMAIN R
  BY <1>1 DEF Gone
<1>8. \A p \in Gone(t, u) : p \notin Range(R)
  BY <1>1 DEF Gone
<1>9. ASSUME NEW p \in Gone(u, t)
      PROVE  \E d \in Deltas(t, u, R) : d.status \in {"added", "renamed"} /\ d.new = p
  <2>1. CASE p \in Range(R)
    <3>1. PICK q \in DOMAIN R : R[q] = p
      BY <1>1, <2>1
    <3> QED
      BY <1>2, <1>3, <3>1
  <2>2. CASE p \notin Range(R)
    BY <1>3, <1>4, <1>7, <2>2
  <2> QED
    BY <2>1, <2>2
<1>10. ASSUME NEW p \in Gone(t, u)
       PROVE  \E d \in Deltas(t, u, R) : d.status \in {"deleted", "renamed"} /\ d.old = p
  <2>1. CASE p \in DOMAIN R
    BY <1>2, <1>3, <2>1
  <2>2. CASE p \notin DOMAIN R
    BY <1>3, <1>5, <1>8, <2>2
  <2> QED
    BY <2>1, <2>2
<1>11. ASSUME NEW p \in DOMAIN t \cap DOMAIN u, t[p] # u[p]
       PROVE  \E d \in Deltas(t, u, R) : d.status = "modified" /\ d.old = p /\ d.new = p
  BY <1>3, <1>6, <1>11
<1> QED
  BY <1>9, <1>10, <1>11

LEMMA DeltasFinite ==
    ASSUME NEW t, NEW u, IsFiniteSet(DOMAIN t), IsFiniteSet(DOMAIN u), NEW R \in Renames(t, u)
    PROVE  IsFiniteSet(Deltas(t, u, R))
<1> DEFINE M == DOMAIN t \cup DOMAIN u
           D == Deltas(t, u, R)
<1>1. IsFiniteSet(M)
  BY FS_Union
<1>2. \A d \in D : d.old \in M /\ d.status \in {"added", "deleted", "modified", "renamed"}
  BY DeltaFacts DEF Gone
<1>3. \A d, e \in D : d.old = e.old => d = e
  BY DeltasApart DEF PathsOf
<1> DEFINE f == [d \in D |-> d.old]
<1>4. f \in Injection(D, M)
  <2>1. f \in [D -> M] /\ \A d \in D : f[d] = d.old
    BY <1>2
  <2> HIDE DEF f, D, M
  <2> QED
    BY <2>1, <1>3 DEF Injection, IsInjective
<1> QED
  BY <1>1, <1>4, FS_Injection

(* The inverse of a delta: what it puts and takes, and that it is honest   *)
(* where what it takes is not a directory.                                 *)
LEMMA UndoFacts ==
    ASSUME NEW t, TreeOK(t), NEW u, TreeOK(u), NEW R \in Renames(t, u), NEW d \in Deltas(t, u, R)
    PROVE  /\ IsEdit(Undo(t, d))
           /\ \A p : p \in DOMAIN Undo(t, d).upserts <=> p = d.old /\ d.status # "added"
           /\ \A p \in DOMAIN Undo(t, d).upserts : Undo(t, d).upserts[p] = t[p] /\ p \in DOMAIN t
           /\ \A p : p \in Undo(t, d).removed <=> p = d.new /\ d.status \in {"added", "renamed"}
           /\ \A head : TreeOK(head) /\ (\A p \in Undo(t, d).removed : ~IsFolder(head, p))
                        => Tidy(Undo(t, d), head, PathsOf(d))
           /\ \A c \in Range(Undo(t, d).disk) : c.do # "rmdir"
           /\ \A p \in Undo(t, d).removed : \E c \in Range(Undo(t, d).disk) : c.path = p
<1> DEFINE e == Undo(t, d)
           x == d.old
           y == d.new
<1>1. /\ DOMAIN t \subseteq Legal /\ DOMAIN u \subseteq Legal
      /\ \A p : p \in Gone(t, u) => p \in DOMAIN t /\ p \notin DOMAIN u
      /\ \A p : p \in Gone(u, t) => p \in DOMAIN u /\ p \notin DOMAIN t
  BY DEF TreeOK, Gone
<1>2. TreeOK(EmptyTree) /\ \A p : ~IsFolder(EmptyTree, p)
  <2>1. DOMAIN EmptyTree = {} /\ IsMap(EmptyTree)
    BY DEF EmptyTree, IsMap
  <2> QED
    BY <2>1, FS_EmptySet DEF TreeOK, WellFormed, IsFolder
<1>3. ASSUME \A head : TreeOK(head) /\ (\A p \in e.removed : ~IsFolder(head, p))
                       => Tidy(e, head, PathsOf(d))
      PROVE  IsEdit(e)
  <2>1. Tidy(e, EmptyTree, PathsOf(d))
    BY <1>2, <1>3
  <2> QED
    BY <2>1 DEF Tidy, Honest
<1>4. ASSUME NEW c, c \in {Created(x, t[x]), Updated(x, t[x])}, e = PutAs(c), x \in DOMAIN t
      PROVE  /\ DOMAIN e.upserts = {x} /\ e.upserts[x] = t[x] /\ e.removed = {}
             /\ \A head : Tidy(e, head, PathsOf(d))
             /\ \A w \in Range(e.disk) : w.do # "rmdir"
  <2>1. x \in Legal
    BY <1>1, <1>4
  <2>2. DOMAIN e.upserts = {x} /\ e.upserts[x] = t[x]
    BY <1>4 DEF PutAs, Only, Created, Updated, NoEdit
  <2>6. \A w \in Range(e.disk) : w.do # "rmdir"
    <3>1. e.disk = <<DiskWrite(c.path, c.blob)>>
      BY <1>4 DEF PutAs
    <3> QED
      BY <3>1, RangeOne DEF DiskWrite, Mirror
  <2> HIDE DEF e, x
  <2>3. \A head : /\ Honest(PutAs(c), head) /\ Within(PutAs(c), {x}) /\ Separate(PutAs(c))
                  /\ PutAs(c).removed = {}
    BY <2>1, <1>4, PutFacts
  <2>4. {x} \subseteq PathsOf(d)
    BY DEF PathsOf, x
  <2>5. \A head : Tidy(e, head, PathsOf(d))
    BY <1>4, <2>3, <2>4 DEF Tidy, Within
  <2> QED
    BY <1>4, <2>2, <2>3, <2>5, <2>6
<1>5. CASE d.status = "added"
  <2>1. y \in Legal /\ x = y
    BY <1>1, <1>5, DeltaFacts
  <2>2. e = Remove1(y)
    BY <1>5 DEF Undo
  <2>3. e.removed = {y} /\ DOMAIN e.upserts = {} /\ e.disk = <<DiskRemove(y)>>
    BY <2>2 DEF Remove1, NoEdit
  <2>5. Range(e.disk) = {DiskRemove(y)} /\ DiskRemove(y).path = y /\ DiskRemove(y).do = "unlink"
    BY <2>3, RangeOne DEF DiskRemove, Mirror
  <2> HIDE DEF e, y
  <2>4. ASSUME NEW head, TreeOK(head), \A p \in e.removed : ~IsFolder(head, p)
        PROVE  Tidy(e, head, PathsOf(d))
    <3>1. DOMAIN head \subseteq Legal /\ ~IsFolder(head, y)
      BY <2>3, <2>4 DEF TreeOK
    <3>2. /\ Honest(Remove1(y), head) /\ Within(Remove1(y), {y}) /\ Separate(Remove1(y))
          /\ Remove1(y).removed = {y}
      BY <2>1, <3>1, Remove1Facts
    <3>3. {y} \subseteq PathsOf(d)
      BY DEF PathsOf, y
    <3> QED
      BY <2>2, <3>2, <3>3 DEF Tidy, Within
  <2> QED
    BY <1>3, <1>5, <2>1, <2>3, <2>4, <2>5 DEF e, y
<1>6. CASE d.status = "deleted"
  <2>1. x \in DOMAIN t /\ e = PutAs(Created(x, t[x]))
    BY <1>1, <1>6, DeltaFacts DEF Undo
  <2>2. /\ DOMAIN e.upserts = {x} /\ e.upserts[x] = t[x] /\ e.removed = {}
        /\ \A head : Tidy(e, head, PathsOf(d))
        /\ \A w \in Range(e.disk) : w.do # "rmdir"
    BY <1>4, <2>1
  <2> HIDE DEF e
  <2> QED
    BY <1>3, <1>6, <2>1, <2>2 DEF e
<1>7. CASE d.status = "modified"
  <2>1. x \in DOMAIN t /\ e = PutAs(Updated(x, t[x]))
    BY <1>1, <1>7, DeltaFacts DEF Undo
  <2>2. /\ DOMAIN e.upserts = {x} /\ e.upserts[x] = t[x] /\ e.removed = {}
        /\ \A head : Tidy(e, head, PathsOf(d))
        /\ \A w \in Range(e.disk) : w.do # "rmdir"
    BY <1>4, <2>1
  <2> HIDE DEF e
  <2> QED
    BY <1>3, <1>7, <2>1, <2>2 DEF e
<1>8. CASE d.status = "renamed"
  <2>1. /\ x \in DOMAIN t /\ y \in DOMAIN u /\ x # y /\ x \in Legal /\ y \in Legal
        /\ IsIndex(y) <=> IsIndex(x)
    BY <1>1, <1>8, DeltaFacts
  <2> DEFINE a == DiskRemove(y)
             w == DiskWrite(x, t[x])
  <2>2. e = Move1(y, x, t[x], a, w)
    BY <1>8 DEF Undo, Move1
  <2>3. e.removed = {y} /\ DOMAIN e.upserts = {x} /\ e.upserts[x] = t[x] /\ e.disk = <<a, w>>
    BY <2>2 DEF Move1, Only
  <2>4. a.do = "unlink" /\ a.path = y /\ w.do = "write" /\ w.path = x /\ w.blob = t[x]
    BY DEF DiskRemove, DiskWrite, Mirror
  <2>6. Range(<<a, w>>) = {a, w}
    BY DEF Range
  <2> HIDE DEF e, x, y, a, w
  <2>5. ASSUME NEW head, TreeOK(head), \A p \in e.removed : ~IsFolder(head, p)
        PROVE  Tidy(e, head, PathsOf(d))
    <3>1. ~IsFolder(head, y)
      BY <2>3, <2>5
    <3>2. Tidy(Move1(y, x, t[x], a, w), head, {y, x})
      BY <2>1, <2>4, <2>5, <3>1, MovedFacts
    <3>3. {y, x} = PathsOf(d)
      BY DEF PathsOf, x, y
    <3> QED
      BY <2>2, <3>2, <3>3
  <2> QED
    BY <1>3, <1>8, <2>1, <2>3, <2>4, <2>5, <2>6 DEF e, x, y
<1> QED
  BY <1>5, <1>6, <1>7, <1>8, DeltaFacts

(* What a rollback does to one path. *)
LEMMA RestorePathFacts ==
    ASSUME NEW head, NEW u, NEW p \in Legal
    PROVE  /\ Tidy(RestorePath(head, u, p), head, {p})
           /\ RestorePath(head, u, p).removed = {}
           /\ \A q : q \in DOMAIN RestorePath(head, u, p).upserts
                     <=> q = p /\ ~(p \in DOMAIN head /\ head[p] = u[p])
           /\ \A q \in DOMAIN RestorePath(head, u, p).upserts :
                 RestorePath(head, u, p).upserts[q] = u[q]
<1> DEFINE e == RestorePath(head, u, p)
<1>1. CASE p \in DOMAIN head /\ head[p] = u[p]
  <2>1. e = NoEdit
    BY <1>1 DEF RestorePath, IsFile
  <2>2. Tidy(NoEdit, head, {p}) /\ NoEdit.removed = {} /\ DOMAIN NoEdit.upserts = {}
    BY TidyNoEdit DEF NoEdit
  <2> HIDE DEF e
  <2> QED
    BY <1>1, <2>1, <2>2 DEF e
<1>2. CASE ~(p \in DOMAIN head /\ head[p] = u[p])
  <2>1. PICK c \in {Created(p, u[p]), Updated(p, u[p])} : e = PutAs(c)
    BY <1>2 DEF RestorePath, IsFile
  <2>2. DOMAIN e.upserts = {p} /\ e.upserts[p] = u[p]
    BY <2>1 DEF PutAs, Only, Created, Updated, NoEdit
  <2> HIDE DEF e
  <2>3. /\ Honest(PutAs(c), head) /\ Within(PutAs(c), {p}) /\ Separate(PutAs(c))
        /\ PutAs(c).removed = {}
    BY PutFacts
  <2>4. Tidy(e, head, {p}) /\ e.removed = {}
    BY <2>1, <2>3 DEF Tidy
  <2> QED
    BY <1>2, <2>2, <2>4 DEF e
<1> QED
  BY <1>1, <1>2

LEMMA RemovePathFacts ==
    ASSUME NEW head, TreeOK(head), NEW p \in Legal
    PROVE  /\ Tidy(RemovePath(head, p), head, {p})
           /\ DOMAIN RemovePath(head, p).upserts = {}
           /\ \A q : q \in RemovePath(head, p).removed <=> q = p /\ p \in DOMAIN head
<1> DEFINE e == RemovePath(head, p)
<1>1. CASE p \notin DOMAIN head
  <2>1. e = NoEdit
    BY <1>1 DEF RemovePath, IsFile
  <2>2. Tidy(NoEdit, head, {p}) /\ NoEdit.removed = {} /\ DOMAIN NoEdit.upserts = {}
    BY TidyNoEdit DEF NoEdit
  <2> HIDE DEF e
  <2> QED
    BY <1>1, <2>1, <2>2 DEF e
<1>2. CASE p \in DOMAIN head
  <2>1. e = Remove1(p)
    BY <1>2 DEF RemovePath, IsFile
  <2>2. ~IsFolder(head, p) /\ DOMAIN head \subseteq Legal
    BY <1>2 DEF TreeOK, WellFormed
  <2> HIDE DEF e
  <2>3. /\ Honest(Remove1(p), head) /\ Within(Remove1(p), {p}) /\ Separate(Remove1(p))
        /\ Remove1(p).removed = {p} /\ DOMAIN Remove1(p).upserts = {}
    BY <2>2, Remove1Facts
  <2>4. Tidy(e, head, {p})
    BY <2>1, <2>3 DEF Tidy
  <2> QED
    BY <1>2, <2>1, <2>3, <2>4 DEF e
<1> QED
  BY <1>1, <1>2

(* A delta done again: honest on any head.                                 *)
LEMMA RedoFacts ==
    ASSUME NEW head, TreeOK(head), NEW t, TreeOK(t), NEW u, TreeOK(u),
           NEW R \in Renames(t, u), NEW d \in Deltas(t, u, R)
    PROVE  /\ Tidy(Redo(head, u, d), head, PathsOf(d))
           /\ \A p : p \in DOMAIN Redo(head, u, d).upserts
                     <=> p = d.new /\ d.status # "deleted" /\ ~(p \in DOMAIN head /\ head[p] = u[p])
           /\ \A p \in DOMAIN Redo(head, u, d).upserts :
                 Redo(head, u, d).upserts[p] = u[p] /\ p \in DOMAIN u
           /\ \A p : p \in Redo(head, u, d).removed
                     <=> p = d.old /\ d.status \in {"deleted", "renamed"} /\ p \in DOMAIN head
<1> DEFINE e == Redo(head, u, d)
           x == d.old
           y == d.new
<1>1. /\ DOMAIN t \subseteq Legal /\ DOMAIN u \subseteq Legal
      /\ \A p : p \in Gone(t, u) => p \in DOMAIN t /\ p \notin DOMAIN u
      /\ \A p : p \in Gone(u, t) => p \in DOMAIN u /\ p \notin DOMAIN t
  BY DEF TreeOK, Gone
<1>2. CASE d.status \in {"added", "modified"}
  <2>1. y \in DOMAIN u /\ y \in Legal /\ x = y
    BY <1>1, <1>2, DeltaFacts
  <2>2. e = RestorePath(head, u, y)
    BY <1>2 DEF Redo
  <2>3. PathsOf(d) = {y}
    BY <2>1 DEF PathsOf
  <2> HIDE DEF e, y
  <2>4. /\ Tidy(e, head, {y}) /\ e.removed = {}
        /\ \A q : q \in DOMAIN e.upserts <=> q = y /\ ~(y \in DOMAIN head /\ head[y] = u[y])
        /\ \A q \in DOMAIN e.upserts : e.upserts[q] = u[q]
    BY <2>1, <2>2, RestorePathFacts
  <2> QED
    BY <1>2, <2>1, <2>3, <2>4 DEF e, y
<1>3. CASE d.status = "deleted"
  <2>1. x \in Legal /\ x = y
    BY <1>1, <1>3, DeltaFacts
  <2>2. e = RemovePath(head, x)
    BY <1>3 DEF Redo
  <2>3. PathsOf(d) = {x}
    BY <2>1 DEF PathsOf
  <2> HIDE DEF e, x
  <2>4. /\ Tidy(e, head, {x}) /\ DOMAIN e.upserts = {}
        /\ \A q : q \in e.removed <=> q = x /\ x \in DOMAIN head
    BY <2>1, <2>2, RemovePathFacts
  <2> QED
    BY <1>3, <2>1, <2>3, <2>4 DEF e, x
<1>4. CASE d.status = "renamed"
  <2>1. /\ x \in DOMAIN t /\ y \in DOMAIN u /\ x # y /\ x \in Legal /\ y \in Legal
        /\ IsIndex(x) <=> IsIndex(y)
    BY <1>1, <1>4, DeltaFacts
  <2>2. CASE IsFile(head, x) /\ ~IsFile(head, y)
    <3> DEFINE a == Forced(DiskRemove(x))
               w == Forced(DiskWrite(y, u[y]))
    <3>1. e = Move1(x, y, u[y], a, w)
      BY <1>4, <2>2 DEF Redo, Move1
    <3>2. e.removed = {x} /\ DOMAIN e.upserts = {y} /\ e.upserts[y] = u[y]
      BY <3>1 DEF Move1, Only
    <3>3. a.do = "unlink" /\ a.path = x /\ w.do = "write" /\ w.path = y /\ w.blob = u[y]
      BY DEF DiskRemove, DiskWrite, Mirror, Forced
    <3>4. ~IsFolder(head, x) /\ x \in DOMAIN head /\ y \notin DOMAIN head
      BY <2>2 DEF TreeOK, WellFormed, IsFile
    <3>5. {x, y} = PathsOf(d)
      BY DEF PathsOf
    <3> HIDE DEF e, x, y, a, w
    <3>6. Tidy(Move1(x, y, u[y], a, w), head, {x, y})
      BY <2>1, <3>3, <3>4, MovedFacts
    <3> QED
      BY <1>4, <2>1, <3>1, <3>2, <3>4, <3>5, <3>6 DEF e, x, y
  <2>3. CASE ~(IsFile(head, x) /\ ~IsFile(head, y))
    <3> DEFINE f == RestorePath(head, u, y)
               g == RemovePath(head, x)
    <3>1. e = Then(f, g)
      BY <1>4, <2>3 DEF Redo
    <3>2. {y} \cup {x} = PathsOf(d) /\ {y} \cap {x} = {}
      BY <2>1 DEF PathsOf
    <3> HIDE DEF e, x, y
    <3>3. /\ Tidy(f, head, {y}) /\ f.removed = {}
          /\ \A q : q \in DOMAIN f.upserts <=> q = y /\ ~(y \in DOMAIN head /\ head[y] = u[y])
          /\ \A q \in DOMAIN f.upserts : f.upserts[q] = u[q]
      <4>1. y \in Legal /\ f = RestorePath(head, u, y)
        BY <2>1
      <4> HIDE DEF f
      <4> QED
        BY <4>1, RestorePathFacts
    <3>4. /\ Tidy(g, head, {x}) /\ DOMAIN g.upserts = {}
          /\ \A q : q \in g.removed <=> q = x /\ x \in DOMAIN head
      BY <2>1, RemovePathFacts
    <3> HIDE DEF f, g
    <3>5. Tidy(Then(f, g), head, {y} \cup {x})
      BY <3>2, <3>3, <3>4, TidyThen
    <3>6. IsEdit(f) /\ IsEdit(g)
      BY <3>3, <3>4 DEF Tidy, Honest
    <3>7. /\ \A p : p \in e.removed <=> p \in f.removed \/ p \in g.removed
          /\ \A p : p \in DOMAIN e.upserts <=> p \in DOMAIN f.upserts \/ p \in DOMAIN g.upserts
          /\ \A p \in DOMAIN f.upserts :
                p \notin DOMAIN g.upserts => e.upserts[p] = f.upserts[p]
      BY <3>1, <3>6, ThenFacts
    <3> QED
      BY <1>4, <2>1, <3>1, <3>2, <3>3, <3>4, <3>5, <3>7 DEF e, x, y
  <2> QED
    BY <2>2, <2>3
<1> QED
  BY <1>2, <1>3, <1>4, DeltaFacts

(* The whole revert of a commit, t being its parent's tree and u its own:  *)
(* it puts back what the commit changed or took, takes what it added, and  *)
(* is honest where nothing of that is a directory by now.                  *)
LEMMA RevertFacts ==
    ASSUME NEW t, TreeOK(t), NEW u, TreeOK(u), NEW R \in Renames(t, u)
    PROVE  /\ IsEdit(Revert(t, u, R)) /\ Separate(Revert(t, u, R))
           /\ \A p : p \in Revert(t, u, R).removed <=> p \in Gone(u, t)
           /\ \A p : p \in DOMAIN Revert(t, u, R).upserts
                     <=> p \in Gone(t, u) \/ (p \in DOMAIN t \cap DOMAIN u /\ t[p] # u[p])
           /\ \A p \in DOMAIN Revert(t, u, R).upserts : Revert(t, u, R).upserts[p] = t[p]
           /\ \A head : TreeOK(head) /\ (\A p \in Gone(u, t) : ~IsFolder(head, p))
                        => \E P : Tidy(Revert(t, u, R), head, P)
           /\ \A c \in Range(Revert(t, u, R).disk) : c.do # "rmdir"
           /\ \A p \in Revert(t, u, R).removed : \E c \in Range(Revert(t, u, R).disk) : c.path = p
<1> DEFINE D == Deltas(t, u, R)
           ds == SetToSeq(D)
           edits == [i \in DOMAIN ds |-> Undo(t, ds[i])]
           e == Revert(t, u, R)
<1>1. IsFiniteSet(D)
  BY DeltasFinite DEF TreeOK
<1>2. /\ Listed(ds) /\ Range(ds) = D /\ Len(ds) \in Nat
      /\ DOMAIN ds = 1..Len(ds) /\ Range(ds) = {ds[i] : i \in 1..Len(ds)}
      /\ \A i, j \in 1..Len(ds) : ds[i] = ds[j] => i = j
  BY <1>1, SetToSeqFacts, ListedFacts
<1> HIDE DEF ds
<1>3. /\ DOMAIN edits = 1..Len(ds) /\ edits = [i \in 1..Len(ds) |-> edits[i]]
      /\ \A i \in 1..Len(ds) : edits[i] = Undo(t, ds[i]) /\ ds[i] \in D
  BY <1>2
<1>4. e = Together(edits)
  BY DEF Revert, ds
<1> HIDE DEF edits, e, D
<1>5. Len(edits) = Len(ds)
  BY <1>2, <1>3, ListedBy
<1>6. \A d \in D :
         /\ IsEdit(Undo(t, d))
         /\ \A p : p \in DOMAIN Undo(t, d).upserts <=> p = d.old /\ d.status # "added"
         /\ \A p \in DOMAIN Undo(t, d).upserts : Undo(t, d).upserts[p] = t[p] /\ p \in DOMAIN t
         /\ \A p : p \in Undo(t, d).removed <=> p = d.new /\ d.status \in {"added", "renamed"}
         /\ \A head : TreeOK(head) /\ (\A p \in Undo(t, d).removed : ~IsFolder(head, p))
                      => Tidy(Undo(t, d), head, PathsOf(d))
         /\ \A c \in Range(Undo(t, d).disk) : c.do # "rmdir"
         /\ \A p \in Undo(t, d).removed : \E c \in Range(Undo(t, d).disk) : c.path = p
  BY UndoFacts DEF D
<1>7. /\ IsEdit(e)
      /\ \A p : p \in e.removed <=> \E i \in 1..Len(ds) : p \in edits[i].removed
      /\ \A p : p \in DOMAIN e.upserts <=> \E i \in 1..Len(ds) : p \in DOMAIN edits[i].upserts
      /\ \A p \in DOMAIN e.upserts : e.upserts[p] = t[p]
      /\ \A c : c \in Range(e.disk) <=> \E i \in 1..Len(ds) : c \in Range(edits[i].disk)
  <2>1. \A i \in 1..Len(edits) : IsEdit(edits[i])
    BY <1>3, <1>5, <1>6
  <2>2. Len(edits) \in Nat
    BY <1>2, <1>5
  <2> DEFINE a == Together(edits)
  <2>3. /\ IsEdit(a)
        /\ a.removed = UNION {edits[i].removed : i \in 1..Len(edits)}
        /\ DOMAIN a.upserts = UNION {DOMAIN edits[i].upserts : i \in 1..Len(edits)}
        /\ \A p \in DOMAIN a.upserts : \E i \in 1..Len(edits) :
              p \in DOMAIN edits[i].upserts /\ a.upserts[p] = edits[i].upserts[p]
        /\ Range(a.disk) = UNION {Range(edits[i].disk) : i \in 1..Len(edits)}
    BY <2>1, <2>2, TogetherFacts
  <2>4. e = a
    BY <1>4
  <2> HIDE DEF a
  <2>5. \A p \in DOMAIN e.upserts : e.upserts[p] = t[p]
    <3> TAKE p \in DOMAIN e.upserts
    <3>1. PICK i \in 1..Len(ds) : p \in DOMAIN edits[i].upserts /\ e.upserts[p] = edits[i].upserts[p]
      BY <1>5, <2>3, <2>4
    <3>2. edits[i] = Undo(t, ds[i]) /\ ds[i] \in D
      BY <1>3
    <3> QED
      BY <1>6, <3>1, <3>2
  <2> QED
    BY <1>5, <2>3, <2>4, <2>5
<1>8. /\ \A p : p \in e.removed <=> \E d \in D : p = d.new /\ d.status \in {"added", "renamed"}
      /\ \A p : p \in DOMAIN e.upserts <=> \E d \in D : p = d.old /\ d.status # "added"
  BY <1>2, <1>3, <1>6, <1>7
<1>9. \A p : p \in e.removed <=> p \in Gone(u, t)
  BY <1>8, DeltaFacts, DeltasTell DEF D
<1>10. \A p : p \in DOMAIN e.upserts
              <=> p \in Gone(t, u) \/ (p \in DOMAIN t \cap DOMAIN u /\ t[p] # u[p])
  <2>1. ASSUME NEW d \in D, d.status # "added"
        PROVE  d.old \in Gone(t, u) \/ (d.old \in DOMAIN t \cap DOMAIN u /\ t[d.old] # u[d.old])
    BY <2>1, DeltaFacts DEF D
  <2>2. ASSUME NEW p, p \in Gone(t, u) \/ (p \in DOMAIN t \cap DOMAIN u /\ t[p] # u[p])
        PROVE  \E d \in D : p = d.old /\ d.status # "added"
    BY <2>2, DeltasTell DEF D
  <2> QED
    BY <1>8, <2>1, <2>2
<1>11. Separate(e)
  <2>1. \A p \in DOMAIN e.upserts : p \in DOMAIN t
    BY <1>10 DEF Gone
  <2> QED
    BY <2>1 DEF Separate, TreeOK, WellFormed, IsFolder
<1>12. ASSUME NEW head, TreeOK(head), \A p \in Gone(u, t) : ~IsFolder(head, p)
       PROVE  \E P : Tidy(e, head, P)
  <2> DEFINE P == [i \in 1..Len(ds) |-> PathsOf(ds[i])]
             W == DOMAIN t
  <2>1. \A i \in 1..Len(edits) : Tidy(edits[i], head, P[i]) /\ DOMAIN edits[i].upserts \subseteq W
    <3> TAKE i \in 1..Len(edits)
    <3>1. ds[i] \in D /\ edits[i] = Undo(t, ds[i]) /\ P[i] = PathsOf(ds[i])
      BY <1>3, <1>5
    <3>2. \A p \in edits[i].removed : ~IsFolder(head, p)
      BY <1>5, <1>7, <1>9, <1>12
    <3> HIDE DEF P
    <3> QED
      BY <1>6, <1>12, <3>1, <3>2
  <2>2. \A i, j \in 1..Len(edits) : i # j => P[i] \cap P[j] = {}
    <3> TAKE i, j \in 1..Len(edits)
    <3>1. i # j => ds[i] # ds[j]
      BY <1>2, <1>5
    <3>2. ds[i] \in D /\ ds[j] \in D /\ P[i] = PathsOf(ds[i]) /\ P[j] = PathsOf(ds[j])
      BY <1>3, <1>5
    <3> HIDE DEF P
    <3> QED
      BY <3>1, <3>2, DeltasApart DEF D
  <2>3. \A p, q \in W : ~IsStrictPrefix(p, q)
    BY DEF TreeOK, WellFormed, IsFolder
  <2>4. Len(edits) \in Nat
    BY <1>2, <1>5
  <2> HIDE DEF P, W
  <2>5. /\ Tidy(Together(edits), head, UNION {P[i] : i \in 1..Len(edits)})
        /\ DOMAIN Together(edits).upserts \subseteq W
    BY <2>1, <2>2, <2>3, <2>4, TogetherTidy
  <2> QED
    BY <1>4, <2>5
<1>13. \A c \in Range(e.disk) : c.do # "rmdir"
  BY <1>3, <1>6, <1>7
<1>14. \A p \in e.removed : \E c \in Range(e.disk) : c.path = p
  BY <1>3, <1>6, <1>7
<1> QED
  BY <1>7, <1>9, <1>10, <1>11, <1>12, <1>13, <1>14 DEF e

(* The whole rollback of a commit onto a head: what the commit touched is  *)
(* put as the commit left it, where the head is not so already.            *)
LEMMA RollbackFacts ==
    ASSUME NEW head, TreeOK(head), NEW t, TreeOK(t), NEW u, TreeOK(u), NEW R \in Renames(t, u)
    PROVE  /\ \E P : Tidy(Rollback(head, t, u, R), head, P)
           /\ \A p : p \in Rollback(head, t, u, R).removed <=> p \in Gone(t, u) /\ p \in DOMAIN head
           /\ \A p : p \in DOMAIN Rollback(head, t, u, R).upserts
                     <=> /\ p \in Gone(u, t) \/ (p \in DOMAIN t \cap DOMAIN u /\ t[p] # u[p])
                         /\ ~(p \in DOMAIN head /\ head[p] = u[p])
           /\ \A p \in DOMAIN Rollback(head, t, u, R).upserts :
                 Rollback(head, t, u, R).upserts[p] = u[p]
<1> DEFINE D == Deltas(t, u, R)
           ds == SetToSeq(D)
           edits == [i \in DOMAIN ds |-> Redo(head, u, ds[i])]
           e == Rollback(head, t, u, R)
           Same(p) == p \in DOMAIN head /\ head[p] = u[p]
<1>1. IsFiniteSet(D)
  BY DeltasFinite DEF TreeOK
<1>2. /\ Listed(ds) /\ Range(ds) = D /\ Len(ds) \in Nat
      /\ DOMAIN ds = 1..Len(ds) /\ Range(ds) = {ds[i] : i \in 1..Len(ds)}
      /\ \A i, j \in 1..Len(ds) : ds[i] = ds[j] => i = j
  BY <1>1, SetToSeqFacts, ListedFacts
<1> HIDE DEF ds
<1>3. /\ DOMAIN edits = 1..Len(ds) /\ edits = [i \in 1..Len(ds) |-> edits[i]]
      /\ \A i \in 1..Len(ds) : edits[i] = Redo(head, u, ds[i]) /\ ds[i] \in D
  BY <1>2
<1>4. e = Together(edits)
  BY DEF Rollback, ds
<1> HIDE DEF edits, e, D
<1>5. Len(edits) = Len(ds)
  BY <1>2, <1>3, ListedBy
<1>6. \A d \in D :
         /\ Tidy(Redo(head, u, d), head, PathsOf(d))
         /\ \A p : p \in DOMAIN Redo(head, u, d).upserts <=> p = d.new /\ d.status # "deleted" /\ ~Same(p)
         /\ \A p \in DOMAIN Redo(head, u, d).upserts :
               Redo(head, u, d).upserts[p] = u[p] /\ p \in DOMAIN u
         /\ \A p : p \in Redo(head, u, d).removed
                   <=> p = d.old /\ d.status \in {"deleted", "renamed"} /\ p \in DOMAIN head
  BY RedoFacts DEF D
<1> HIDE DEF Same
<1>7. /\ \A p : p \in e.removed <=> \E i \in 1..Len(ds) : p \in edits[i].removed
      /\ \A p : p \in DOMAIN e.upserts <=> \E i \in 1..Len(ds) : p \in DOMAIN edits[i].upserts
      /\ \A p \in DOMAIN e.upserts : e.upserts[p] = u[p]
  <2>1. \A i \in 1..Len(edits) : IsEdit(edits[i])
    BY <1>3, <1>5, <1>6 DEF Tidy, Honest
  <2>2. Len(edits) \in Nat
    BY <1>2, <1>5
  <2> DEFINE a == Together(edits)
  <2>3. /\ IsEdit(a)
        /\ a.removed = UNION {edits[i].removed : i \in 1..Len(edits)}
        /\ DOMAIN a.upserts = UNION {DOMAIN edits[i].upserts : i \in 1..Len(edits)}
        /\ \A p \in DOMAIN a.upserts : \E i \in 1..Len(edits) :
              p \in DOMAIN edits[i].upserts /\ a.upserts[p] = edits[i].upserts[p]
        /\ Range(a.disk) = UNION {Range(edits[i].disk) : i \in 1..Len(edits)}
    BY <2>1, <2>2, TogetherFacts
  <2>4. e = a
    BY <1>4
  <2> HIDE DEF a
  <2>5. \A p \in DOMAIN e.upserts : e.upserts[p] = u[p]
    <3> TAKE p \in DOMAIN e.upserts
    <3>1. PICK i \in 1..Len(ds) : p \in DOMAIN edits[i].upserts /\ e.upserts[p] = edits[i].upserts[p]
      BY <1>5, <2>3, <2>4
    <3>2. edits[i] = Redo(head, u, ds[i]) /\ ds[i] \in D
      BY <1>3
    <3> QED
      BY <1>6, <3>1, <3>2
  <2> QED
    BY <1>5, <2>3, <2>4, <2>5
<1>8. /\ \A p : p \in e.removed
                <=> \E d \in D : p = d.old /\ d.status \in {"deleted", "renamed"} /\ p \in DOMAIN head
      /\ \A p : p \in DOMAIN e.upserts
                <=> \E d \in D : p = d.new /\ d.status # "deleted" /\ ~Same(p)
  BY <1>2, <1>3, <1>6, <1>7
<1>9. \A p : p \in e.removed <=> p \in Gone(t, u) /\ p \in DOMAIN head
  BY <1>8, DeltaFacts, DeltasTell DEF D
<1>10. \A p : p \in DOMAIN e.upserts
              <=> /\ p \in Gone(u, t) \/ (p \in DOMAIN t \cap DOMAIN u /\ t[p] # u[p])
                  /\ ~Same(p)
  <2>1. ASSUME NEW d \in D, d.status # "deleted"
        PROVE  d.new \in Gone(u, t) \/ (d.new \in DOMAIN t \cap DOMAIN u /\ t[d.new] # u[d.new])
    BY <2>1, DeltaFacts DEF D
  <2>2. ASSUME NEW p, p \in Gone(u, t) \/ (p \in DOMAIN t \cap DOMAIN u /\ t[p] # u[p])
        PROVE  \E d \in D : p = d.new /\ d.status # "deleted"
    BY <2>2, DeltasTell DEF D
  <2> QED
    BY <1>8, <2>1, <2>2
<1>11. \E P : Tidy(e, head, P)
  <2> DEFINE P == [i \in 1..Len(ds) |-> PathsOf(ds[i])]
             W == DOMAIN u
  <2>1. \A i \in 1..Len(edits) : Tidy(edits[i], head, P[i]) /\ DOMAIN edits[i].upserts \subseteq W
    <3> TAKE i \in 1..Len(edits)
    <3>1. ds[i] \in D /\ edits[i] = Redo(head, u, ds[i]) /\ P[i] = PathsOf(ds[i])
      BY <1>3, <1>5
    <3> HIDE DEF P
    <3> QED
      BY <1>6, <3>1
  <2>2. \A i, j \in 1..Len(edits) : i # j => P[i] \cap P[j] = {}
    <3> TAKE i, j \in 1..Len(edits)
    <3>1. i # j => ds[i] # ds[j]
      BY <1>2, <1>5
    <3>2. ds[i] \in D /\ ds[j] \in D /\ P[i] = PathsOf(ds[i]) /\ P[j] = PathsOf(ds[j])
      BY <1>3, <1>5
    <3> HIDE DEF P
    <3> QED
      BY <3>1, <3>2, DeltasApart DEF D
  <2>3. \A p, q \in W : ~IsStrictPrefix(p, q)
    BY DEF TreeOK, WellFormed, IsFolder
  <2>4. Len(edits) \in Nat
    BY <1>2, <1>5
  <2> HIDE DEF P, W
  <2>5. /\ Tidy(Together(edits), head, UNION {P[i] : i \in 1..Len(edits)})
        /\ DOMAIN Together(edits).upserts \subseteq W
    BY <2>1, <2>2, <2>3, <2>4, TogetherTidy
  <2> QED
    BY <1>4, <2>5
<1> QED
  BY <1>7, <1>9, <1>10, <1>11 DEF e, Same


-----------------------------------------------------------------------------
(* Orders: what keeping some entries leaves of a sequence, what a sort     *)
(* makes of a set, and that there is one way to put a set in order.        *)

Increasing(s, R) == \A i, j \in 1..Len(s) : i < j => <<s[i], s[j]>> \in R
Strict(R) == \A x, y : ~(<<x, y>> \in R /\ <<y, x>> \in R)

LEMMA AppendListed ==
    ASSUME NEW s, Listed(s), NEW x
    PROVE  /\ Listed(Append(s, x)) /\ Len(Append(s, x)) = Len(s) + 1 /\ Len(s) \in Nat
           /\ Append(s, x)[Len(s) + 1] = x /\ \A i \in 1..Len(s) : Append(s, x)[i] = s[i]
           /\ Range(Append(s, x)) = Range(s) \cup {x}
           /\ Append(s, x) = s \o <<x>>
<1> DEFINE S == Range(s) \cup {x}
           t == Append(s, x)
           n == Len(s)
<1>1. s \in Seq(S) /\ x \in S /\ n \in Nat
  <2>1. s \in Seq(Range(s))
    BY DEF Listed
  <2> QED
    BY <2>1, SeqMonotonic
<1> HIDE DEF S
<1>2. /\ t \in Seq(S) /\ Len(t) = n + 1 /\ t[n + 1] = x /\ \A i \in 1..n : t[i] = s[i]
  BY <1>1, AppendProperties
<1>3. t = s \o <<x>>
  BY <1>1, AppendIsConcat
<1>4. Listed(t)
  BY <1>2, ListedIn
<1> HIDE DEF t
<1>5. Range(t) = Range(s) \cup {x}
  <2>1. Range(t) = {t[i] : i \in 1..(n + 1)} /\ Range(s) = {s[i] : i \in 1..n}
    BY <1>2, <1>4, ListedFacts
  <2>2. 1..(n + 1) = (1..n) \cup {n + 1}
    BY <1>1
  <2> QED
    BY <1>2, <2>1, <2>2
<1> QED
  BY <1>1, <1>2, <1>3, <1>4, <1>5 DEF t, n

LEMMA AppendIncreasing ==
    ASSUME NEW s, Listed(s), NEW x, NEW R, Increasing(s, R), \A y \in Range(s) : <<y, x>> \in R
    PROVE  Increasing(Append(s, x), R)
<1>1. /\ Len(Append(s, x)) = Len(s) + 1 /\ Len(s) \in Nat
      /\ Append(s, x)[Len(s) + 1] = x /\ \A i \in 1..Len(s) : Append(s, x)[i] = s[i]
  BY AppendListed
<1>2. \A i \in 1..Len(s) : s[i] \in Range(s)
  BY ListedFacts
<1> SUFFICES ASSUME NEW i \in 1..(Len(s) + 1), NEW j \in 1..(Len(s) + 1), i < j
             PROVE  <<Append(s, x)[i], Append(s, x)[j]>> \in R
  BY <1>1 DEF Increasing
<1>3. i \in 1..Len(s) /\ (j \in 1..Len(s) \/ j = Len(s) + 1)
  BY <1>1
<1> QED
  BY <1>1, <1>2, <1>3 DEF Increasing

(* The elements of s that are in S, in their order. *)
Sift(s, S) == FlattenSeq([i \in DOMAIN s |-> IF s[i] \in S THEN <<s[i]>> ELSE <<>>])

Sifts(f, s, S) ==
    /\ Sift(s, S) = f[Len(s)] /\ f[0] = <<>>
    /\ \A i \in 0..Len(s) : Listed(f[i])
    /\ \A i \in 1..Len(s) : f[i] = IF s[i] \in S THEN Append(f[i - 1], s[i]) ELSE f[i - 1]

LEMMA SiftSteps ==
    ASSUME NEW s, Listed(s), NEW S
    PROVE  \E f : Sifts(f, s, S)
<1> DEFINE N == Len(s)
           ss == [i \in 1..N |-> IF s[i] \in S THEN <<s[i]>> ELSE <<>>]
<1>1. N \in Nat /\ DOMAIN s = 1..N
  BY ListedFacts
<1>2. Sift(s, S) = FlattenSeq(ss)
  BY <1>1 DEF Sift
<1>3. Listed(ss) /\ Len(ss) = N
  BY <1>1, ListedBy
<1>e. Listed(<<>>)
  BY DEF Listed, Range
<1>4. CASE N = 0
  <2> DEFINE f == [i \in {0} |-> <<>>]
  <2>1. FlattenSeq(ss) = ss /\ ss = <<>>
    BY <1>3, <1>4 DEF FlattenSeq
  <2>2. /\ Sift(s, S) = f[N] /\ f[0] = <<>> /\ \A i \in 0..N : Listed(f[i])
        /\ \A i \in 1..N : FALSE
    BY <1>2, <1>4, <1>e, <2>1
  <2>3. Sifts(f, s, S)
    BY <2>2 DEF Sifts
  <2> QED
    BY <2>3
<1>5. CASE N > 0
  <2>2. \A i \in 1..N : ss[i] = IF s[i] \in S THEN <<s[i]>> ELSE <<>>
    OBVIOUS
  <2>1. PICK g : /\ FlattenSeq(ss) = g[N] /\ g[1] = ss[1]
                 /\ \A i \in 2..N : g[i] = g[i - 1] \o ss[i]
    <3> HIDE DEF ss
    <3> HIDE DEF N
    <3> QED
      BY <1>1, <1>3, <1>5, FlattenSteps
  <2> DEFINE f == [i \in 0..N |-> IF i = 0 THEN <<>> ELSE g[i]]
             Step(i) == f[i] = IF s[i] \in S THEN Append(f[i - 1], s[i]) ELSE f[i - 1]
             Good(i) == Listed(f[i]) /\ (i > 0 => Step(i))
             P == {i \in Nat : i <= N => Good(i)}
  <2> HIDE DEF ss
  <2>3. f[0] = <<>> /\ \A i \in 1..N : f[i] = g[i]
    OBVIOUS
  <2> HIDE DEF f
  <2>4. 0 \in P
    BY <1>e, <2>3
  <2>5. ASSUME NEW n \in Nat, n \in P PROVE n + 1 \in P
    <3> PICK m \in Nat : m = n + 1
      OBVIOUS
    <3> SUFFICES ASSUME m <= N PROVE Good(m)
      OBVIOUS
    <3>1. Listed(f[n]) /\ m \in 1..N /\ m - 1 = n
      BY <2>5
    <3>2. f[m] = f[n] \o ss[m]
      <4>1. CASE n = 0
        <5>1. <<>> \o ss[1] = ss[1] /\ m = 1
          BY <1>5, <2>2, <4>1
        <5>2. f[1] = g[1] /\ f[0] = <<>>
          BY <2>3, <3>1, <5>1
        <5> QED
          BY <2>1, <4>1, <5>1, <5>2
      <4>2. CASE n > 0
        <5>1. m \in 2..N /\ n \in 1..N
          BY <3>1, <4>2
        <5> QED
          BY <2>1, <2>3, <3>1, <5>1
      <4>3. n = 0 \/ n > 0
        BY <2>5
      <4> QED
        BY <4>1, <4>2, <4>3
    <3>3. CASE s[m] \in S
      <4>1. Listed(Append(f[n], s[m])) /\ Append(f[n], s[m]) = f[n] \o <<s[m]>>
        BY <3>1, AppendListed
      <4> QED
        BY <2>2, <3>1, <3>2, <3>3, <4>1
    <3>4. CASE s[m] \notin S
      <4>1. f[n] \o <<>> = f[n]
        BY <3>1 DEF Listed
      <4> QED
        BY <2>2, <3>1, <3>2, <3>4, <4>1
    <3> QED
      BY <3>3, <3>4
  <2> HIDE DEF Good
  <2>6. \A i \in Nat : i <= N => Good(i)
    BY <2>4, <2>5, Induct
  <2>7. \A i \in 0..N : Listed(f[i])
    BY <1>1, <2>6 DEF Good
  <2>8. \A i \in 1..N : Step(i)
    BY <1>1, <2>6 DEF Good
  <2>9. Sift(s, S) = f[N]
    BY <1>1, <1>2, <1>5, <2>1, <2>3
  <2>10. Sifts(f, s, S)
    BY <2>3, <2>7, <2>8, <2>9 DEF Sifts
  <2> QED
    BY <2>10
<1> QED
  BY <1>1, <1>4, <1>5

LEMMA SiftFacts ==
    ASSUME NEW s, Listed(s), NEW S, NEW R, Increasing(s, R)
    PROVE  /\ Listed(Sift(s, S)) /\ Range(Sift(s, S)) = Range(s) \cap S
           /\ Increasing(Sift(s, S), R)
<1> DEFINE N == Len(s)
<1>1. N \in Nat /\ Range(s) = {s[i] : i \in 1..N}
  BY ListedFacts
<1>p. PICK f : Sifts(f, s, S)
  BY SiftSteps
<1>2. /\ Sift(s, S) = f[N] /\ f[0] = <<>>
      /\ \A i \in 0..N : Listed(f[i])
      /\ \A i \in 1..N : f[i] = IF s[i] \in S THEN Append(f[i - 1], s[i]) ELSE f[i - 1]
  BY <1>p DEF Sifts
<1> DEFINE Good(n) == Range(f[n]) = {s[i] : i \in 1..n} \cap S /\ Increasing(f[n], R)
           P == {n \in Nat : n <= N => Good(n)}
<1>3. 0 \in P
  <2>1. Range(<<>>) = {} /\ Len(<<>>) = 0
    BY DEF Range
  <2>2. 1..0 = {}
    OBVIOUS
  <2> QED
    BY <1>2, <2>1, <2>2 DEF Increasing
<1>4. ASSUME NEW n \in Nat, n \in P PROVE n + 1 \in P
  <2> PICK m \in Nat : m = n + 1
    OBVIOUS
  <2> SUFFICES ASSUME m <= N PROVE Good(m)
    OBVIOUS
  <2>1. m \in 1..N /\ m - 1 = n /\ n \in 0..N /\ 1..m = (1..n) \cup {m} /\ Good(n)
    BY <1>1, <1>4
  <2>2. {s[i] : i \in 1..m} = {s[i] : i \in 1..n} \cup {s[m]}
    BY <2>1
  <2>3. Listed(f[n])
    BY <1>2, <2>1
  <2>4. CASE s[m] \in S
    <3>1. f[m] = Append(f[n], s[m])
      BY <1>2, <2>1, <2>4
    <3>2. Range(f[m]) = Range(f[n]) \cup {s[m]}
      <4>1. Range(Append(f[n], s[m])) = Range(f[n]) \cup {s[m]}
        BY <2>3, AppendListed
      <4> QED
        BY <3>1, <4>1
    <3>3. \A y \in Range(f[n]) : <<y, s[m]>> \in R
      <4>1. \A i \in 1..n : i \in 1..N /\ i < m
        BY <2>1
      <4> QED
        BY <2>1, <4>1 DEF Increasing
    <3>4. Increasing(f[m], R)
      BY <2>1, <2>3, <3>1, <3>3, AppendIncreasing
    <3> QED
      BY <2>1, <2>2, <2>4, <3>2, <3>4
  <2>5. CASE s[m] \notin S
    <3>1. f[m] = f[n]
      BY <1>2, <2>1, <2>5
    <3> QED
      BY <2>1, <2>2, <2>5, <3>1
  <2> QED
    BY <2>4, <2>5
<1> HIDE DEF Good
<1>5. N \in P
  BY <1>1, <1>3, <1>4, Induct
<1>6. Good(N)
  BY <1>1, <1>5
<1>7. Listed(f[N])
  BY <1>1, <1>2
<1> QED
  BY <1>1, <1>2, <1>6, <1>7 DEF Good

LEMMA SiftAll ==
    ASSUME NEW s, Listed(s), NEW S, Range(s) \subseteq S
    PROVE  Sift(s, S) = s
<1> DEFINE N == Len(s)
<1>1. N \in Nat /\ \A i \in 1..N : s[i] \in S
  BY ListedFacts
<1>p. PICK f : Sifts(f, s, S)
  BY SiftSteps
<1>2. /\ Sift(s, S) = f[N] /\ f[0] = <<>>
      /\ \A i \in 0..N : Listed(f[i])
      /\ \A i \in 1..N : f[i] = IF s[i] \in S THEN Append(f[i - 1], s[i]) ELSE f[i - 1]
  BY <1>p DEF Sifts
<1> DEFINE Good(n) == Len(f[n]) = n /\ \A i \in 1..n : f[n][i] = s[i]
           P == {n \in Nat : n <= N => Good(n)}
<1>3. 0 \in P
  BY <1>2
<1>4. ASSUME NEW n \in Nat, n \in P PROVE n + 1 \in P
  <2> PICK m \in Nat : m = n + 1
    OBVIOUS
  <2> SUFFICES ASSUME m <= N PROVE Good(m)
    OBVIOUS
  <2>1. m \in 1..N /\ m - 1 = n /\ n \in 0..N /\ Good(n)
    BY <1>1, <1>4
  <2>2. Listed(f[n]) /\ f[m] = Append(f[n], s[m])
    BY <1>1, <1>2, <2>1
  <2>3. /\ Len(f[m]) = m /\ f[m][m] = s[m] /\ \A i \in 1..n : f[m][i] = f[n][i]
    BY <2>1, <2>2, AppendListed
  <2>4. \A i \in 1..m : i \in 1..n \/ i = m
    OBVIOUS
  <2> QED
    BY <2>1, <2>3, <2>4
<1> HIDE DEF Good
<1>5. N \in P
  BY <1>1, <1>3, <1>4, Induct
<1>6. Good(N) /\ Listed(f[N])
  BY <1>1, <1>2, <1>5
<1>7. f[N] = s
  BY <1>6, SeqEqual DEF Good, Listed
<1> QED
  BY <1>2, <1>7

LEMMA SiftAppend ==
    ASSUME NEW s, Listed(s), NEW x, NEW S, Range(s) \subseteq S, x \notin S
    PROVE  Sift(Append(s, x), S) = s
<1> DEFINE N == Len(s)
           t == Append(s, x)
<1>1. N \in Nat /\ \A i \in 1..N : s[i] \in S
  BY ListedFacts
<1>t. Listed(t) /\ Len(t) = N + 1 /\ t[N + 1] = x /\ \A i \in 1..N : t[i] = s[i]
  <2>1. Listed(t) /\ Len(t) = N + 1
    BY AppendListed
  <2>2. t[N + 1] = x
    BY AppendListed
  <2>3. \A i \in 1..N : t[i] = s[i]
    BY AppendListed
  <2> QED
    BY <2>1, <2>2, <2>3
<1> HIDE DEF t
<1>p. PICK f : Sifts(f, t, S)
  BY <1>t, SiftSteps
<1>2. /\ Sift(t, S) = f[N + 1] /\ f[0] = <<>>
      /\ \A i \in 0..(N + 1) : Listed(f[i])
      /\ \A i \in 1..(N + 1) : f[i] = IF t[i] \in S THEN Append(f[i - 1], t[i]) ELSE f[i - 1]
  BY <1>p, <1>t DEF Sifts
<1> DEFINE Good(n) == Len(f[n]) = n /\ \A i \in 1..n : f[n][i] = s[i]
           P == {n \in Nat : n <= N => Good(n)}
<1>3. 0 \in P
  BY <1>2
<1>4. ASSUME NEW n \in Nat, n \in P PROVE n + 1 \in P
  <2> PICK m \in Nat : m = n + 1
    OBVIOUS
  <2> SUFFICES ASSUME m <= N PROVE Good(m)
    OBVIOUS
  <2>1. m \in 1..N /\ m \in 1..(N + 1) /\ m - 1 = n /\ n \in 0..(N + 1) /\ Good(n)
    BY <1>1, <1>4
  <2>2. Listed(f[n]) /\ f[m] = Append(f[n], s[m])
    BY <1>1, <1>t, <1>2, <2>1
  <2>3. /\ Len(f[m]) = m /\ f[m][m] = s[m] /\ \A i \in 1..n : f[m][i] = f[n][i]
    BY <2>1, <2>2, AppendListed
  <2>4. \A i \in 1..m : i \in 1..n \/ i = m
    OBVIOUS
  <2> QED
    BY <2>1, <2>3, <2>4
<1> HIDE DEF Good
<1>5. N \in P
  BY <1>1, <1>3, <1>4, Induct
<1>6. Good(N) /\ Listed(f[N])
  BY <1>1, <1>2, <1>5
<1>7. f[N + 1] = f[N]
  <2> PICK m \in Nat : m = N + 1
    BY <1>1
  <2>1. m \in 1..(N + 1) /\ m - 1 = N /\ t[m] \notin S
    BY <1>1, <1>t
  <2> QED
    BY <1>2, <2>1
<1>8. f[N] = s
  BY <1>6, SeqEqual DEF Good, Listed
<1> QED
  BY <1>2, <1>7, <1>8 DEF t

(* Two sequences in the same order of the same elements are one. *)
LEMMA OneOrder ==
    ASSUME NEW s, Listed(s), NEW t, Listed(t), Range(s) = Range(t), NEW R, Strict(R),
           Increasing(s, R), Increasing(t, R)
    PROVE  s = t
<1> DEFINE Alike(a, b, n) == n <= Len(a) => n <= Len(b) /\ \A i \in 1..n : a[i] = b[i]
<1>1. ASSUME NEW a, Listed(a), NEW b, Listed(b), Range(a) = Range(b),
             Increasing(a, R), Increasing(b, R)
      PROVE  Alike(a, b, Len(a))
  <2>1. /\ Len(a) \in Nat /\ Len(b) \in Nat
        /\ Range(a) = {a[i] : i \in 1..Len(a)} /\ Range(b) = {b[i] : i \in 1..Len(b)}
    BY <1>1, ListedFacts
  <2>i. /\ \A i, j \in 1..Len(a) : i < j => <<a[i], a[j]>> \in R
        /\ \A i, j \in 1..Len(b) : i < j => <<b[i], b[j]>> \in R
    BY <1>1 DEF Increasing
  <2>s. \A x, y : ~(<<x, y>> \in R /\ <<y, x>> \in R)
    BY DEF Strict
  <2> DEFINE P == {n \in Nat : Alike(a, b, n)}
  <2>2. 0 \in P
    BY <2>1
  <2>3. ASSUME NEW n \in Nat, n \in P PROVE n + 1 \in P
    <3> PICK m \in Nat : m = n + 1
      OBVIOUS
    <3> SUFFICES ASSUME m <= Len(a) PROVE m <= Len(b) /\ \A i \in 1..m : a[i] = b[i]
      OBVIOUS
    <3>1. /\ m \in 1..Len(a) /\ n <= Len(b) /\ \A i \in 1..n : a[i] = b[i]
          /\ \A i \in 1..n : i \in 1..Len(a) /\ i \in 1..Len(b) /\ i < m
      BY <2>1, <2>3
    <3>2. PICK j \in 1..Len(b) : b[j] = a[m]
      BY <1>1, <2>1, <3>1
    <3>3. j >= m
      <4> SUFFICES ASSUME j < m PROVE FALSE
        BY <3>1
      <4>1. j \in 1..n
        BY <2>1
      <4>2. <<a[j], a[m]>> \in R /\ a[j] = a[m]
        BY <2>i, <3>1, <3>2, <4>1
      <4> QED
        BY <2>s, <4>2
    <3>4. m \in 1..Len(b)
      BY <2>1, <3>1, <3>3
    <3>5. PICK k \in 1..Len(a) : a[k] = b[m]
      BY <1>1, <2>1, <3>4
    <3>6. k >= m
      <4> SUFFICES ASSUME k < m PROVE FALSE
        BY <3>1
      <4>1. k \in 1..n
        BY <2>1
      <4>2. <<b[k], b[m]>> \in R /\ b[k] = b[m]
        BY <2>i, <3>1, <3>4, <3>5, <4>1
      <4> QED
        BY <2>s, <4>2
    <3>7. a[m] = b[m]
      <4> SUFFICES ASSUME j # m, k # m PROVE FALSE
        BY <3>2, <3>5
      <4>1. m < j /\ m < k
        BY <2>1, <3>1, <3>3, <3>6
      <4>2. <<b[m], b[j]>> \in R /\ <<a[m], a[k]>> \in R
        BY <2>i, <3>1, <3>4, <4>1
      <4> QED
        BY <2>s, <3>2, <3>5, <4>2
    <3>8. \A i \in 1..m : i \in 1..n \/ i = m
      OBVIOUS
    <3> QED
      BY <2>1, <3>1, <3>4, <3>7, <3>8
  <2> HIDE DEF Alike
  <2>4. Len(a) \in P
    BY <2>1, <2>2, <2>3, Induct
  <2> QED
    BY <2>4
<1>2. /\ Len(s) \in Nat /\ Len(t) \in Nat
  BY ListedFacts
<1>3. /\ Len(s) <= Len(t) /\ \A i \in 1..Len(s) : s[i] = t[i]
  BY <1>1, <1>2
<1>4. Len(t) <= Len(s)
  BY <1>1, <1>2
<1>5. Len(s) = Len(t)
  BY <1>2, <1>3, <1>4
<1>6. s \in Seq(Range(s)) /\ t \in Seq(Range(s))
  BY DEF Listed
<1> QED
  BY <1>3, <1>5, <1>6, SeqEqual

(* S from its first to its last as R has them, R an order of S. *)
Ranks(S, R) ==
    /\ Strict(R)
    /\ \A x, y \in S : x = y \/ <<x, y>> \in R \/ <<y, x>> \in R
    /\ \A x, y, z \in S : <<x, y>> \in R /\ <<y, z>> \in R => <<x, z>> \in R
InOrder(es, R) == \A i \in 2..Len(es) : <<es[i - 1], es[i]>> \in R

LEMMA SeqsListed ==
    ASSUME NEW S, IsFiniteSet(S), NEW es \in SetToSeqs(S)
    PROVE  Listed(es) /\ Range(es) = S /\ Len(es) = Cardinality(S)
<1> DEFINE n == Cardinality(S)
<1>1. n \in Nat
  BY FS_CardinalityType
<1>2. es \in [1..n -> S] /\ \A i, j \in 1..n : i # j => es[i] # es[j]
  BY DEF SetToSeqs
<1>3. es \in Injection(1..n, S)
  BY <1>2 DEF Injection, IsInjective
<1>4. es \in Surjection(1..n, S)
  <2>1. Cardinality(1..n) = n
    BY <1>1, FS_Interval
  <2> QED
    BY <1>3, <2>1, FS_Injection
<1>5. Range(es) = S
  BY <1>2, <1>4 DEF Surjection, Range
<1> QED
  BY <1>1, <1>2, <1>5, SeqDef DEF Listed

LEMMA InOrderIncreasing ==
    ASSUME NEW S, NEW R, Ranks(S, R), NEW es, Listed(es), Range(es) = S, InOrder(es, R)
    PROVE  Increasing(es, R)
<1> DEFINE N == Len(es)
<1>1. N \in Nat /\ \A i \in 1..N : es[i] \in S
  BY ListedFacts
<1> DEFINE Good(j) == \A i \in 1..N : i < j => <<es[i], es[j]>> \in R
           P == {n \in Nat : n <= N => Good(n)}
<1>2. 0 \in P
  BY <1>1
<1>3. ASSUME NEW n \in Nat, n \in P PROVE n + 1 \in P
  <2> PICK m \in Nat : m = n + 1
    OBVIOUS
  <2> SUFFICES ASSUME m <= N, NEW i \in 1..N, i < m PROVE <<es[i], es[m]>> \in R
    OBVIOUS
  <2>1. n \in 1..N /\ m \in 2..N /\ m \in 1..N /\ m - 1 = n /\ Good(n)
    BY <1>1, <1>3
  <2>2. <<es[n], es[m]>> \in R
    BY <2>1 DEF InOrder
  <2>3. CASE i = n
    BY <2>2, <2>3
  <2>4. CASE i < n
    <3>1. <<es[i], es[n]>> \in R
      BY <2>1, <2>4
    <3>2. es[i] \in S /\ es[n] \in S /\ es[m] \in S
      BY <1>1, <2>1
    <3> QED
      BY <2>2, <3>1, <3>2 DEF Ranks
  <2>5. i = n \/ i < n
    BY <2>1
  <2> QED
    BY <2>3, <2>4, <2>5
<1> HIDE DEF Good
<1>4. \A j \in Nat : j <= N => Good(j)
  BY <1>2, <1>3, Induct
<1> QED
  BY <1>1, <1>4 DEF Increasing, Good

LEMMA OrderExists ==
    ASSUME NEW S, IsFiniteSet(S), NEW R, Ranks(S, R)
    PROVE  \E es \in SetToSeqs(S) : InOrder(es, R)
<1> DEFINE n == Cardinality(S)
           B(e) == {f \in S : <<f, e>> \in R}
           r == [e \in S |-> Cardinality(B(e))]
<1>1. n \in Nat
  BY FS_CardinalityType
<1>o. /\ \A x, y : ~(<<x, y>> \in R /\ <<y, x>> \in R)
      /\ \A x, y \in S : x = y \/ <<x, y>> \in R \/ <<y, x>> \in R
      /\ \A x, y, z \in S : <<x, y>> \in R /\ <<y, z>> \in R => <<x, z>> \in R
  BY DEF Ranks, Strict
<1>2. ASSUME NEW e \in S PROVE IsFiniteSet(B(e)) /\ r[e] \in 0..(n - 1)
  <2>1. IsFiniteSet(S \ {e}) /\ Cardinality(S \ {e}) = n - 1
    BY FS_RemoveElement
  <2>2. B(e) \in SUBSET (S \ {e})
    BY <1>o
  <2> HIDE DEF B
  <2>3. IsFiniteSet(B(e)) /\ Cardinality(B(e)) <= n - 1
    BY <2>1, <2>2, FS_Subset
  <2>4. Cardinality(B(e)) \in Nat
    BY <2>3, FS_CardinalityType
  <2> QED
    BY <1>1, <2>3, <2>4
<1>3. ASSUME NEW e \in S, NEW f \in S, <<e, f>> \in R PROVE r[e] < r[f]
  <2>1. B(e) \cup {e} \in SUBSET B(f) /\ e \notin B(e)
    BY <1>o, <1>3
  <2>2. r[e] = Cardinality(B(e)) /\ r[f] = Cardinality(B(f))
    OBVIOUS
  <2>3. IsFiniteSet(B(e)) /\ IsFiniteSet(B(f)) /\ r[e] \in 0..(n - 1) /\ r[f] \in 0..(n - 1)
    BY <1>2
  <2> HIDE DEF B, r
  <2>4. Cardinality(B(e) \cup {e}) = Cardinality(B(e)) + 1
    BY <2>1, <2>3, FS_AddElement
  <2>5. Cardinality(B(e) \cup {e}) <= Cardinality(B(f))
    BY <2>1, <2>3, FS_Subset
  <2> QED
    BY <1>1, <2>2, <2>3, <2>4, <2>5
<1>4. r \in [S -> 0..(n - 1)]
  BY <1>2
<1> HIDE DEF r, B
<1>5. r \in Injection(S, 0..(n - 1))
  <2>1. ASSUME NEW e \in S, NEW f \in S, r[e] = r[f], e # f PROVE FALSE
    <3>1. <<e, f>> \in R \/ <<f, e>> \in R
      BY <1>o, <2>1
    <3>2. r[e] \in 0..(n - 1) /\ r[f] \in 0..(n - 1)
      BY <1>4
    <3> QED
      BY <1>1, <1>3, <2>1, <3>1, <3>2
  <2> QED
    BY <1>4, <2>1 DEF Injection, IsInjective
<1>6. r \in Surjection(S, 0..(n - 1))
  <2>1. IsFiniteSet(0..(n - 1)) /\ Cardinality(0..(n - 1)) = n
    BY <1>1, FS_Interval
  <2> QED
    BY <1>5, <2>1, FS_Injection
<1> DEFINE es == [i \in 1..n |-> CHOOSE e \in S : r[e] = i - 1]
<1>7. ASSUME NEW i \in 1..n PROVE es[i] \in S /\ r[es[i]] = i - 1
  <2>1. i - 1 \in 0..(n - 1)
    BY <1>1
  <2>2. \E e \in S : r[e] = i - 1
    BY <1>6, <2>1 DEF Surjection
  <2> QED
    BY <2>2
<1>8. es \in [1..n -> S]
  BY <1>7
<1>9. Len(es) = n
  BY <1>1
<1> HIDE DEF es
<1>10. \A i, j \in 1..n : i # j => es[i] # es[j]
  <2> SUFFICES ASSUME NEW i \in 1..n, NEW j \in 1..n, i # j, es[i] = es[j] PROVE FALSE
    OBVIOUS
  <2>1. i - 1 = j - 1
    BY <1>7
  <2> QED
    BY <1>1, <2>1
<1>11. es \in SetToSeqs(S)
  BY <1>8, <1>10 DEF SetToSeqs
<1>12. InOrder(es, R)
  <2> SUFFICES ASSUME NEW i \in 2..n PROVE <<es[i - 1], es[i]>> \in R
    BY <1>9 DEF InOrder
  <2> PICK h \in Nat : h = i - 1
    BY <1>1
  <2>1. h \in 1..n /\ i \in 1..n /\ h # i
    BY <1>1
  <2>2. /\ es[h] \in S /\ es[i] \in S /\ r[es[h]] = h - 1 /\ r[es[i]] = i - 1 /\ es[h] # es[i]
    BY <1>7, <1>10, <2>1
  <2>3. CASE <<es[i], es[h]>> \in R
    <3>1. r[es[i]] < r[es[h]]
      BY <1>3, <2>2, <2>3
    <3> QED
      BY <2>1, <2>2, <3>1
  <2> QED
    BY <1>o, <2>2, <2>3
<1> QED
  BY <1>11, <1>12

(* order_rank as four numbers compared in turn. *)
PlaceOf(es, n) == SelectInSeq(es, LAMBDA y : y.name = n)
RankAt(es, implicit, x) == IF x.name \in Names(es) THEN PlaceOf(es, x.name) - 1 ELSE implicit
RankListed(es, x) == IF x.name \in Names(es) THEN 1 ELSE 0
RankFolder(x) == IF x.folder THEN 0 ELSE 1
Less4(a, b, c, d, w, x, y, z) ==
    a < w \/ (a = w /\ (b < x \/ (b = x /\ (c < y \/ (c = y /\ d < z)))))
Ranking(es, implicit) == {r \in Entry \X Entry : RankBefore(es, implicit, r[1], r[2])}

LEMMA MinFacts ==
    ASSUME NEW S, S \subseteq Nat, S # {}
    PROVE  Min(S) \in S /\ \A m \in S : Min(S) <= m
<1>1. \E n \in S : \A m \in S : n <= m
  BY Least
<1> QED
  BY <1>1 DEF Min

LEMMA PlaceFacts ==
    ASSUME NEW es, Listed(es), NEW n
    PROVE  /\ PlaceOf(es, n) \in 0..Len(es) /\ Len(es) \in Nat
           /\ n \in Names(es) <=> PlaceOf(es, n) > 0
           /\ PlaceOf(es, n) > 0 => es[PlaceOf(es, n)].name = n
           /\ \A j \in 1..Len(es) : es[j].name = n => PlaceOf(es, n) <= j
<1> DEFINE I == {i \in 1..Len(es) : es[i].name = n}
<1>1. Len(es) \in Nat /\ DOMAIN es = 1..Len(es)
  BY ListedFacts
<1>2. PlaceOf(es, n) = IF I # {} THEN Min(I) ELSE 0
  BY DEF PlaceOf, SelectInSeq
<1>3. n \in Names(es) <=> I # {}
  BY <1>1 DEF Names
<1>4. CASE I = {}
  BY <1>1, <1>2, <1>3, <1>4
<1>5. CASE I # {}
  <2>1. Min(I) \in I /\ \A m \in I : Min(I) <= m
    <3>1. I \subseteq Nat /\ I # {}
      BY <1>1, <1>5
    <3> HIDE DEF I
    <3> QED
      BY <3>1, MinFacts
  <2> QED
    BY <1>1, <1>2, <1>3, <1>5, <2>1
<1> QED
  BY <1>4, <1>5

LEMMA RankNumbers ==
    ASSUME NEW es, Listed(es), NEW implicit \in Nat, NEW x \in Entry
    PROVE  /\ RankAt(es, implicit, x) \in Nat /\ RankListed(es, x) \in Nat
           /\ RankFolder(x) \in Nat /\ x.name \in Nat
<1>1. x.name \in Nat
  BY NameFacts DEF Entry
<1>2. x.name \in Names(es) => PlaceOf(es, x.name) - 1 \in Nat
  BY PlaceFacts
<1> QED
  BY <1>1, <1>2 DEF RankAt, RankListed, RankFolder

LEMMA RankIs ==
    ASSUME NEW es, Listed(es), NEW implicit \in Nat, NEW e \in Entry, NEW f \in Entry
    PROVE  RankBefore(es, implicit, e, f) <=>
              Less4(RankAt(es, implicit, e), RankListed(es, e), RankFolder(e), e.name,
                    RankAt(es, implicit, f), RankListed(es, f), RankFolder(f), f.name)
<1>1. /\ RankAt(es, implicit, e) \in Nat /\ RankAt(es, implicit, f) \in Nat
  BY RankNumbers
<1> DEFINE a == RankAt(es, implicit, e)
           w == RankAt(es, implicit, f)
           Alphabetical == IF e.folder # f.folder THEN e.folder ELSE e.name < f.name
<1>2. RankBefore(es, implicit, e, f) <=>
        \/ a < w
        \/ a = w /\ ~(e.name \in Names(es)) /\ f.name \in Names(es)
        \/ a = w /\ (e.name \in Names(es) <=> f.name \in Names(es)) /\ Alphabetical
  BY DEF RankBefore, RankAt, PlaceOf
<1>3. e.folder \in BOOLEAN /\ f.folder \in BOOLEAN
  BY DEF Entry
<1>4. Alphabetical <=> RankFolder(e) < RankFolder(f)
                         \/ (RankFolder(e) = RankFolder(f) /\ e.name < f.name)
  BY <1>3 DEF RankFolder
<1>5. /\ (~(e.name \in Names(es)) /\ f.name \in Names(es)) <=> RankListed(es, e) < RankListed(es, f)
      /\ (e.name \in Names(es) <=> f.name \in Names(es)) <=> RankListed(es, e) = RankListed(es, f)
  BY DEF RankListed
<1> HIDE DEF a, w, Alphabetical
<1>6. RankBefore(es, implicit, e, f) <=>
        \/ a < w
        \/ a = w /\ RankListed(es, e) < RankListed(es, f)
        \/ a = w /\ RankListed(es, e) = RankListed(es, f) /\ Alphabetical
  BY <1>2, <1>5
<1> QED
  BY <1>4, <1>6 DEF Less4, a, w

LEMMA LessTrans ==
    ASSUME NEW a \in Nat, NEW b \in Nat, NEW c \in Nat, NEW d \in Nat,
           NEW i \in Nat, NEW j \in Nat, NEW k \in Nat, NEW l \in Nat,
           NEW w \in Nat, NEW x \in Nat, NEW y \in Nat, NEW z \in Nat,
           Less4(a, b, c, d, i, j, k, l), Less4(i, j, k, l, w, x, y, z)
    PROVE  Less4(a, b, c, d, w, x, y, z)
  BY DEF Less4

LEMMA LessOrders ==
    ASSUME NEW a \in Nat, NEW b \in Nat, NEW c \in Nat, NEW d \in Nat,
           NEW w \in Nat, NEW x \in Nat, NEW y \in Nat, NEW z \in Nat
    PROVE  /\ ~(Less4(a, b, c, d, w, x, y, z) /\ Less4(w, x, y, z, a, b, c, d))
           /\ d # z => Less4(a, b, c, d, w, x, y, z) \/ Less4(w, x, y, z, a, b, c, d)
  BY DEF Less4

(* One order of what has different names, whatever the index says. *)
LEMMA RankFacts ==
    ASSUME NEW es, Listed(es), NEW implicit \in Nat, NEW S, S \subseteq Entry,
           \A e, f \in S : e.name = f.name => e = f
    PROVE  /\ Ranks(S, Ranking(es, implicit)) /\ Strict(Ranking(es, implicit))
           /\ \A e, f \in S : <<e, f>> \in Ranking(es, implicit) <=> RankBefore(es, implicit, e, f)
<1> DEFINE A(e) == RankAt(es, implicit, e)
           L(e) == RankListed(es, e)
           F(e) == RankFolder(e)
           R == Ranking(es, implicit)
<1>1. \A e, f : <<e, f>> \in R <=> e \in Entry /\ f \in Entry /\ RankBefore(es, implicit, e, f)
  BY DEF Ranking
<1>2. \A e \in Entry : A(e) \in Nat /\ L(e) \in Nat /\ F(e) \in Nat /\ e.name \in Nat
  BY RankNumbers
<1>3. \A e, f \in Entry : <<e, f>> \in R
           <=> Less4(A(e), L(e), F(e), e.name, A(f), L(f), F(f), f.name)
  BY <1>1, RankIs
<1> HIDE DEF R, A, L, F
<1>4. Strict(R)
  <2> SUFFICES ASSUME NEW x, NEW y, <<x, y>> \in R, <<y, x>> \in R PROVE FALSE
    BY DEF Strict
  <2>1. x \in Entry /\ y \in Entry
    BY <1>1
  <2> QED
    BY <1>2, <1>3, <2>1, LessOrders
<1>5. ASSUME NEW x \in S, NEW y \in S, x # y PROVE <<x, y>> \in R \/ <<y, x>> \in R
  <2>1. x \in Entry /\ y \in Entry /\ x.name # y.name
    BY <1>5
  <2> QED
    BY <1>2, <1>3, <2>1, LessOrders
<1>6. ASSUME NEW x \in S, NEW y \in S, NEW z \in S, <<x, y>> \in R, <<y, z>> \in R
      PROVE  <<x, z>> \in R
  <2>1. x \in Entry /\ y \in Entry /\ z \in Entry
    OBVIOUS
  <2>2. /\ Less4(A(x), L(x), F(x), x.name, A(y), L(y), F(y), y.name)
        /\ Less4(A(y), L(y), F(y), y.name, A(z), L(z), F(z), z.name)
    BY <1>3, <1>6, <2>1
  <2>3. Less4(A(x), L(x), F(x), x.name, A(z), L(z), F(z), z.name)
    BY <1>2, <2>1, <2>2, LessTrans
  <2> QED
    BY <1>3, <2>1, <2>3
<1> QED
  BY <1>1, <1>4, <1>5, <1>6 DEF Ranks, R

Sorting(S, es, implicit) ==
    CHOOSE x \in SetToSeqs(S) : \A i \in 2..Len(x) : RankBefore(es, implicit, x[i - 1], x[i])

LEMMA SortFacts ==
    ASSUME NEW es, Listed(es), NEW implicit \in Nat, NEW S, IsFiniteSet(S), S \subseteq Entry,
           \A e, f \in S : e.name = f.name => e = f
    PROVE  /\ Listed(Sorting(S, es, implicit)) /\ Range(Sorting(S, es, implicit)) = S
           /\ Len(Sorting(S, es, implicit)) = Cardinality(S)
           /\ Increasing(Sorting(S, es, implicit), Ranking(es, implicit))
<1> DEFINE R == Ranking(es, implicit)
           y == Sorting(S, es, implicit)
           By(x) == \A i \in 2..Len(x) : RankBefore(es, implicit, x[i - 1], x[i])
<1>1. Ranks(S, R) /\ \A e, f \in S : <<e, f>> \in R <=> RankBefore(es, implicit, e, f)
  BY RankFacts
<1> HIDE DEF R
<1>2. ASSUME NEW x \in SetToSeqs(S) PROVE InOrder(x, R) <=> By(x)
  <2>1. Listed(x) /\ Range(x) = S
    BY SeqsListed
  <2>2. Len(x) \in Nat /\ \A i \in 1..Len(x) : x[i] \in S
    BY <2>1, ListedFacts
  <2>3. \A i \in 2..Len(x) : x[i - 1] \in S /\ x[i] \in S
    <3>1. \A i \in 2..Len(x) : i - 1 \in 1..Len(x) /\ i \in 1..Len(x)
      BY <2>2
    <3> QED
      BY <2>2, <3>1
  <2> QED
    BY <1>1, <2>3 DEF InOrder
<1>3. \E x \in SetToSeqs(S) : By(x)
  BY <1>1, <1>2, OrderExists
<1>4. y \in SetToSeqs(S) /\ By(y)
  BY <1>3 DEF Sorting
<1> HIDE DEF y, By
<1>5. Listed(y) /\ Range(y) = S /\ Len(y) = Cardinality(S) /\ InOrder(y, R)
  BY <1>2, <1>4, SeqsListed
<1>6. Increasing(y, R)
  BY <1>1, <1>5, InOrderIncreasing
<1> QED
  BY <1>5, <1>6 DEF y, R

-----------------------------------------------------------------------------
(* The entries of a directory *)

LEMMA FiniteRange ==
    ASSUME NEW S, IsFiniteSet(S), NEW f, f \in [S -> {f[x] : x \in S}]
    PROVE  IsFiniteSet({f[x] : x \in S})
<1>1. f \in Surjection(S, {f[x] : x \in S})
  BY DEF Surjection
<1> QED
  BY <1>1, FS_Surjection

LEMMA EntriesFacts ==
    ASSUME NEW t, TreeOK(t), NEW d \in Seq(Name)
    PROVE  /\ EntriesOf(t, d) \subseteq Entry /\ IsFiniteSet(EntriesOf(t, d))
           /\ \A e, f \in EntriesOf(t, d) : e.name = f.name => e = f
           /\ \A e : e \in EntriesOf(t, d) <=>
                 \E n \in Name : Exists(t, Child(d, n)) /\ e = EntryFor(t, d, n)
           /\ \A n : EntryFor(t, d, n).name = n
           /\ \A n \in Name : EntryFor(t, d, n) \in Entry
<1>1. \A n \in Name : EntryFor(t, d, n) \in Entry
  <2>1. \A n : IsFolder(t, Child(d, n)) \in BOOLEAN
    BY DEF IsFolder
  <2> QED
    BY <2>1 DEF Entry, EntryFor
<1>2. \A n : EntryFor(t, d, n).name = n
  BY DEF EntryFor
<1> DEFINE M == {m \in Name : Exists(t, Child(d, m))}
<1>3. EntriesOf(t, d) = {EntryFor(t, d, n) : n \in M}
  BY DEF EntriesOf
<1>4. IsFiniteSet(M)
  <2> DEFINE k == Len(d) + 1
             f == [q \in DOMAIN t |-> q[k]]
             I == {f[q] : q \in DOMAIN t}
  <2>1. IsFiniteSet(I)
    <3>1. f \in [DOMAIN t -> {f[q] : q \in DOMAIN t}]
      OBVIOUS
    <3>2. IsFiniteSet(DOMAIN t)
      BY DEF TreeOK
    <3> HIDE DEF f
    <3> QED
      BY <3>1, <3>2, FiniteRange
  <2>2. M \subseteq I
    <3> SUFFICES ASSUME NEW m \in Name, Exists(t, Child(d, m)) PROVE m \in I
      OBVIOUS
    <3>1. PICK q \in DOMAIN t : IsPrefix(Child(d, m), q)
      <4>1. d \in Path /\ m \in Nat /\ Child(d, m) \in Path
        BY NameFacts, LegalFacts, ChildFacts
      <4>2. IsPrefix(Child(d, m), Child(d, m))
        BY <4>1, PrefixFacts
      <4> QED
        BY <4>2 DEF Exists, IsFile, IsFolder, IsStrictPrefix
    <3>2. d \in Path /\ m \in Nat /\ q \in Path /\ Child(d, m) \in Path
      BY NameFacts, LegalFacts, ChildFacts DEF TreeOK
    <3>3. Len(d) \in Nat /\ Len(Child(d, m)) = k /\ Child(d, m)[k] = m
      BY <3>2 DEF Path, Child
    <3>4. q[k] = m
      <4>1. k \in 1..Len(Child(d, m))
        BY <3>3
      <4> HIDE DEF k
      <4>2. Child(d, m)[k] = q[k]
        BY <3>1, <3>2, <4>1, PrefixAt
      <4> QED
        BY <3>3, <4>2
    <3> QED
      BY <3>4
  <2> HIDE DEF I
  <2> QED
    BY <2>1, <2>2, FS_Subset
<1>5. IsFiniteSet(EntriesOf(t, d))
  <2> DEFINE g == [n \in M |-> EntryFor(t, d, n)]
  <2>1. g \in [M -> {g[n] : n \in M}] /\ {g[n] : n \in M} = EntriesOf(t, d)
    BY <1>3
  <2> HIDE DEF g, M
  <2> QED
    BY <1>4, <2>1, FiniteRange
<1>6. \A e : e \in EntriesOf(t, d) <=> \E n \in Name : Exists(t, Child(d, n)) /\ e = EntryFor(t, d, n)
  BY <1>3
<1> QED
  BY <1>1, <1>2, <1>5, <1>6

InList(t, d, hidden) ==
    {e \in EntriesOf(t, d) : \/ hidden \/ e.name \notin HiddenName
                             \/ e.name \in Names(StoredOrder(t, d))}

LEMMA MaterializedFacts ==
    ASSUME NEW t, TreeOK(t), NEW d \in Seq(Name), Listed(StoredOrder(t, d)),
           NEW implicit \in Nat, NEW hidden
    PROVE  /\ Listed(Materialized(t, d, implicit, hidden))
           /\ Range(Materialized(t, d, implicit, hidden)) = InList(t, d, hidden)
           /\ Increasing(Materialized(t, d, implicit, hidden),
                         Ranking(StoredOrder(t, d), implicit))
<1> DEFINE S == InList(t, d, hidden)
           es == StoredOrder(t, d)
<1>1. S \subseteq EntriesOf(t, d)
  BY DEF InList
<1>2. Materialized(t, d, implicit, hidden) = Sorting(S, es, implicit)
  BY DEF Materialized, Sorted, Sorting, InList
<1>3. /\ EntriesOf(t, d) \subseteq Entry /\ IsFiniteSet(EntriesOf(t, d))
      /\ \A e, f \in EntriesOf(t, d) : e.name = f.name => e = f
  BY EntriesFacts
<1> HIDE DEF S, es
<1>4. IsFiniteSet(S) /\ S \subseteq Entry /\ \A e, f \in S : e.name = f.name => e = f
  <2>1. IsFiniteSet(S)
    BY <1>1, <1>3, FS_Subset
  <2> QED
    BY <1>1, <1>3, <2>1
<1>5. Listed(es)
  BY DEF es
<1>6. /\ Listed(Sorting(S, es, implicit)) /\ Range(Sorting(S, es, implicit)) = S
      /\ Increasing(Sorting(S, es, implicit), Ranking(es, implicit))
  BY <1>4, <1>5, SortFacts
<1> QED
  BY <1>2, <1>6 DEF S, es

-----------------------------------------------------------------------------
(* What operations put in a tree: an index where an index goes, with an    *)
(* entry or more, and contents elsewhere.                                  *)

TypedAt(p, v) == v \in (IF IsIndex(p) THEN Seq(Entry) \ {<<>>} ELSE Content)
WellTyped(t) == \A p \in DOMAIN t : TypedAt(p, t[p])

LEMMA TypedAfter ==
    ASSUME NEW e, NEW t, WellTyped(e.upserts), WellTyped(t)
    PROVE  WellTyped(After(e, t))
<1> SUFFICES ASSUME NEW p \in DOMAIN After(e, t) PROVE TypedAt(p, After(e, t)[p])
  BY DEF WellTyped
<1>1. BlobAt(After(e, t), p) = IF p \in DOMAIN e.upserts THEN BlobAt(e.upserts, p)
                               ELSE IF Covered(e, p) THEN <<>> ELSE BlobAt(t, p)
  BY AfterAt
<1>2. BlobAt(After(e, t), p) = <<After(e, t)[p]>>
  BY DEF BlobAt
<1>3. CASE p \in DOMAIN e.upserts
  <2>1. After(e, t)[p] = e.upserts[p]
    BY <1>1, <1>2, <1>3 DEF BlobAt
  <2> QED
    BY <1>3, <2>1 DEF WellTyped
<1>4. CASE p \notin DOMAIN e.upserts
  <2>1. p \in DOMAIN t /\ ~Covered(e, p)
    BY <1>4, AfterAt
  <2>2. After(e, t)[p] = t[p]
    BY <1>1, <1>2, <1>4, <2>1 DEF BlobAt
  <2> QED
    BY <2>1, <2>2 DEF WellTyped
<1> QED
  BY <1>3, <1>4

LEMMA TypedThen ==
    ASSUME NEW e, NEW f, WellTyped(e.upserts), WellTyped(f.upserts)
    PROVE  WellTyped(Then(e, f).upserts)
<1> DEFINE a == e.upserts
           b == f.upserts
           u == Overlay(b, a)
<1>1. Then(e, f).upserts = u
  BY DEF Then
<1>2. /\ DOMAIN u = DOMAIN a \cup DOMAIN b
      /\ \A p \in DOMAIN u : u[p] = IF p \in DOMAIN b THEN b[p] ELSE a[p]
  BY DEF Overlay
<1> HIDE DEF u, a, b
<1>3. WellTyped(a) /\ WellTyped(b)
  BY DEF a, b
<1> QED
  BY <1>1, <1>2, <1>3 DEF WellTyped

LEMMA TypedOnly ==
    ASSUME NEW p, NEW b, TypedAt(p, b)
    PROVE  /\ WellTyped(Only(p, b))
           /\ WellTyped(PutAs(Created(p, b)).upserts) /\ WellTyped(PutAs(Updated(p, b)).upserts)
<1>1. DOMAIN Only(p, b) = {p} /\ Only(p, b)[p] = b
  BY DEF Only
<1>2. PutAs(Created(p, b)).upserts = Only(p, b) /\ PutAs(Updated(p, b)).upserts = Only(p, b)
  BY DEF PutAs, Created, Updated, NoEdit
<1> QED
  BY <1>1, <1>2 DEF WellTyped

LEMMA TypedNone == WellTyped(NoEdit.upserts) /\ \A p : WellTyped(Remove1(p).upserts)
  BY DEF WellTyped, NoEdit, Remove1

LEMMA StageTyped ==
    ASSUME NEW t, NEW d \in Seq(Name), NEW es \in Seq(Entry)
    PROVE  WellTyped(StageIndex(t, d, es).upserts)
<1>1. IsIndex(IndexPath(d))
  BY LegalFacts
<1>2. CASE es = <<>>
  BY <1>2, TypedNone DEF StageIndex
<1>3. CASE es # <<>>
  <2>1. TypedAt(IndexPath(d), es)
    BY <1>1, <1>3 DEF TypedAt
  <2>2. PICK c \in {Created(IndexPath(d), es), Updated(IndexPath(d), es)} : StageIndex(t, d, es) = PutAs(c)
    BY <1>3 DEF StageIndex
  <2> QED
    BY <2>1, <2>2, TypedOnly
<1> QED
  BY <1>2, <1>3

LEMMA StoredTyped ==
    ASSUME NEW t, WellTyped(t), NEW d \in Seq(Name)
    PROVE  /\ StoredOrder(t, d) \in Seq(Entry) /\ Listed(StoredOrder(t, d))
           /\ HasIndex(t, d) => StoredOrder(t, d) # <<>>
<1>1. IsIndex(IndexPath(d))
  BY LegalFacts
<1>2. HasIndex(t, d) => t[IndexPath(d)] \in Seq(Entry) \ {<<>>}
  BY <1>1 DEF HasIndex, IsFile, WellTyped, TypedAt
<1>3. StoredOrder(t, d) \in Seq(Entry)
  BY <1>2 DEF StoredOrder
<1> QED
  BY <1>2, <1>3, ListedIn DEF StoredOrder

LEMMA SiftIn ==
    ASSUME NEW E, NEW s \in Seq(E), NEW S
    PROVE  Sift(s, S) \in Seq(E) /\ Listed(Sift(s, S)) /\ Range(Sift(s, S)) = Range(s) \cap S
<1>1. Listed(s)
  BY ListedIn
<1> DEFINE R == {<<s[i], s[j]>> : i \in 1..Len(s), j \in 1..Len(s)}
<1>2. Increasing(s, R)
  BY DEF Increasing
<1> HIDE DEF R
<1>3. Listed(Sift(s, S)) /\ Range(Sift(s, S)) = Range(s) \cap S
  BY <1>1, <1>2, SiftFacts
<1>4. Range(s) \subseteq E
  BY <1>1, ListedFacts
<1>5. Sift(s, S) \in Seq(Range(Sift(s, S)))
  BY <1>3 DEF Listed
<1> QED
  BY <1>3, <1>4, <1>5, SeqMonotonic

LEMMA OthersSift ==
    ASSUME NEW es, NEW n
    PROVE  Others(es, n) = Sift(es, {e \in Range(es) : e.name # n})
<1>1. \A i \in DOMAIN es : es[i].name # n <=> es[i] \in {e \in Range(es) : e.name # n}
  BY DEF Range
<1> QED
  BY <1>1 DEF Others, Keeping, Sift

LEMMA OthersTyped ==
    ASSUME NEW es \in Seq(Entry), NEW n
    PROVE  /\ Others(es, n) \in Seq(Entry) /\ Listed(Others(es, n))
           /\ Range(Others(es, n)) = {e \in Range(es) : e.name # n}
<1> DEFINE S == {e \in Range(es) : e.name # n}
<1>1. Others(es, n) = Sift(es, S)
  BY OthersSift
<1>2. Range(es) \cap S = S
  OBVIOUS
<1> HIDE DEF S
<1>3. Sift(es, S) \in Seq(Entry) /\ Listed(Sift(es, S)) /\ Range(Sift(es, S)) = Range(es) \cap S
  BY SiftIn
<1> QED
  BY <1>1, <1>2, <1>3 DEF S

LEMMA InsertFacts ==
    ASSUME NEW E, NEW s \in Seq(E), NEW e \in E, NEW k \in 1..(Len(s) + 1)
    PROVE  /\ InsertAt(s, k, e) \in Seq(E) /\ Len(InsertAt(s, k, e)) = Len(s) + 1
           /\ \A j \in 1..(k - 1) : InsertAt(s, k, e)[j] = s[j]
           /\ InsertAt(s, k, e)[k] = e
           /\ \A j \in (k + 1)..(Len(s) + 1) : InsertAt(s, k, e)[j] = s[j - 1]
<1> DEFINE n == Len(s)
           a == SubSeq(s, 1, k - 1)
           b == SubSeq(s, k, n)
           u == a \o <<e>>
           v == u \o b
<1>1. n \in Nat /\ k \in Nat /\ k - 1 \in Nat
  OBVIOUS
<1>2. a \in Seq(E) /\ Len(a) = k - 1 /\ \A j \in 1..(k - 1) : a[j] = s[j]
  BY <1>1, SubSeqProperties
<1>3. b \in Seq(E) /\ Len(b) = n - k + 1 /\ \A j \in 1..(n - k + 1) : b[j] = s[k + j - 1]
  BY <1>1, SubSeqProperties
<1>4. InsertAt(s, k, e) = v
  BY DEF InsertAt
<1>s. <<e>> \in Seq(E) /\ Len(<<e>>) = 1 /\ <<e>>[1] = e
  OBVIOUS
<1> HIDE DEF a, b, n
<1>5. /\ u \in Seq(E) /\ Len(u) = k /\ u[k] = e /\ \A j \in 1..(k - 1) : u[j] = s[j]
  <2>1. /\ u \in Seq(E) /\ Len(u) = Len(a) + 1
        /\ \A i \in 1..(Len(a) + 1) : u[i] = IF i <= Len(a) THEN a[i] ELSE <<e>>[i - Len(a)]
    BY <1>2, <1>s, ConcatProperties
  <2> HIDE DEF u
  <2>a. Len(a) = k - 1 /\ Len(u) = Len(a) + 1 /\ k \in Nat /\ 1 <= k
    BY <1>2, <2>1
  <2>2. Len(u) = k /\ k \in 1..(Len(a) + 1) /\ ~(k <= Len(a)) /\ k - Len(a) = 1
    BY ONLY <2>a
  <2>3. u[k] = e
    BY <1>s, <2>1, <2>2
  <2>4. \A j \in 1..(k - 1) : j \in 1..(Len(a) + 1) /\ j <= Len(a)
    BY <1>1, <1>2
  <2> QED
    BY <1>2, <2>1, <2>2, <2>3, <2>4
<1> HIDE DEF u
<1>6. /\ v \in Seq(E) /\ Len(v) = k + (n - k + 1)
      /\ \A i \in 1..(k + (n - k + 1)) : v[i] = IF i <= k THEN u[i] ELSE b[i - k]
  <2>1. /\ v \in Seq(E) /\ Len(v) = Len(u) + Len(b)
        /\ \A i \in 1..(Len(u) + Len(b)) : v[i] = IF i <= Len(u) THEN u[i] ELSE b[i - Len(u)]
    BY <1>3, <1>5, ConcatProperties
  <2> HIDE DEF v
  <2> QED
    BY <1>3, <1>5, <2>1
<1>7. k + (n - k + 1) = n + 1
  BY <1>1
<1>8. ASSUME NEW j \in 1..(k - 1) PROVE v[j] = s[j]
  <2>1. j \in 1..(n + 1) /\ j <= k
    BY <1>1 DEF n
  <2> QED
    BY <1>5, <1>6, <1>7, <2>1
<1>9. v[k] = e
  <2>1. k \in 1..(n + 1)
    BY DEF n
  <2> QED
    BY <1>5, <1>6, <1>7, <2>1
<1>10. ASSUME NEW j \in (k + 1)..(n + 1) PROVE v[j] = s[j - 1]
  <2>1. j \in 1..(n + 1) /\ ~(j <= k) /\ j - k \in 1..(n - k + 1) /\ k + (j - k) - 1 = j - 1
    BY <1>1
  <2>2. v[j] = b[j - k]
    BY <1>6, <1>7, <2>1
  <2>3. b[j - k] = s[k + (j - k) - 1]
    BY <1>3, <2>1
  <2> QED
    BY <2>1, <2>2, <2>3
<1> QED
  BY <1>4, <1>6, <1>7, <1>8, <1>9, <1>10 DEF n

LEMMA EntryEditsTyped ==
    ASSUME NEW t, WellTyped(t), NEW d \in Seq(Name), NEW n, NEW e \in Entry
    PROVE  /\ WellTyped(EntryRemoved(t, d, n).upserts)
           /\ WellTyped(EntryAppended(t, d, e).upserts)
           /\ WellTyped(EntryRenamed(t, d, n, e).upserts)
<1> DEFINE es == StoredOrder(t, d)
           at == PlaceOf(es, n)
<1>1. es \in Seq(Entry)
  BY StoredTyped
<1>2. Others(es, n) \in Seq(Entry) /\ Append(es, e) \in Seq(Entry)
  BY <1>1, OthersTyped
<1>3. ReplaceAt(es, at, e) \in Seq(Entry)
  <2> HIDE DEF at, es
  <2>1. es = [i \in 1..Len(es) |-> es[i]] /\ Len(es) \in Nat /\ es \in [1..Len(es) -> Entry]
    BY <1>1
  <2>2. [es EXCEPT ![at] = e] \in [1..Len(es) -> Entry]
    BY <2>1
  <2>3. [es EXCEPT ![at] = e] \in Seq(Entry)
    BY <2>1, <2>2, SeqDef
  <2> QED
    BY <2>3 DEF ReplaceAt
<1>4. EntryRemoved(t, d, n) \in {NoEdit, StageIndex(t, d, Others(es, n))}
  BY DEF EntryRemoved
<1>5. EntryAppended(t, d, e) \in {NoEdit, StageIndex(t, d, Append(es, e))}
  BY DEF EntryAppended
<1>6. EntryRenamed(t, d, n, e) \in {NoEdit, StageIndex(t, d, ReplaceAt(es, at, e))}
  BY DEF EntryRenamed, PlaceOf
<1> HIDE DEF at, es
<1> QED
  BY <1>2, <1>3, <1>4, <1>5, <1>6, StageTyped, TypedNone

LEMMA EntryMovedTyped ==
    ASSUME NEW t, WellTyped(t), NEW d \in Seq(Name), NEW d2 \in Seq(Name), NEW n, NEW e \in Entry
    PROVE  WellTyped(EntryMoved(t, d, n, d2, e).upserts)
<1>1. /\ WellTyped(EntryRemoved(t, d, n).upserts) /\ WellTyped(EntryAppended(t, d2, e).upserts)
      /\ WellTyped(EntryRenamed(t, d, n, e).upserts)
  BY EntryEditsTyped
<1> QED
  BY <1>1, TypedThen DEF EntryMoved

LEMMA LeafName ==
    ASSUME NEW p \in Seq(Name), p # Root
    PROVE  Leaf(p) \in Name /\ \A b \in BOOLEAN : [name |-> Leaf(p), folder |-> b] \in Entry
  BY DEF Leaf, Last, Root, Entry

LEMMA FileTyped ==
    ASSUME NEW t, WellTyped(t), NEW p \in Seq(Name), p # Root
    PROVE  /\ \A c \in Content : WellTyped(WriteFile(t, p, c).upserts)
           /\ WellTyped(DeleteFile(t, p).upserts)
           /\ WellTyped(DeleteDirectory(t, p).upserts)
           /\ IsFile(t, p) => t[p] \in Content
<1>1. ~IsIndex(p) /\ Parent(p) \in Seq(Name)
  BY PathFacts
<1>2. ASSUME NEW c \in Content PROVE WellTyped(WriteFile(t, p, c).upserts)
  <2>1. TypedAt(p, c)
    BY <1>1 DEF TypedAt
  <2> QED
    BY <2>1, TypedOnly DEF WriteFile
<1>3. WellTyped(EntryRemoved(t, Parent(p), Leaf(p)).upserts)
  <2>1. PICK e : e \in Entry
    BY LeafName
  <2> QED
    BY <1>1, <2>1, EntryEditsTyped
<1>4. WellTyped(DeleteFile(t, p).upserts)
  BY <1>3, TypedThen, TypedNone DEF DeleteFile
<1>5. WellTyped(DeleteDirectory(t, p).upserts)
  <2> DEFINE e == [NoEdit EXCEPT !.removed = {p}, !.disk = <<DiskRemoveAll(p)>>,
                                 !.changes = SetToSeq({Deleted(q) : q \in Subtree(t, p)})]
  <2>1. e.upserts = NoEdit.upserts
    BY DEF NoEdit
  <2>2. DeleteDirectory(t, p) = Then(e, EntryRemoved(t, Parent(p), Leaf(p)))
    BY DEF DeleteDirectory
  <2> HIDE DEF e
  <2>3. WellTyped(e.upserts)
    BY <2>1, TypedNone
  <2> QED
    BY <1>3, <2>2, <2>3, TypedThen
<1>6. IsFile(t, p) => t[p] \in Content
  BY <1>1 DEF IsFile, WellTyped, TypedAt
<1> QED
  BY <1>2, <1>4, <1>5, <1>6

LEMMA MoveFileTyped ==
    ASSUME NEW t, WellTyped(t), NEW p \in Seq(Name), p # Root, NEW q \in Seq(Name), q # Root,
           IsFile(t, p)
    PROVE  WellTyped(MoveFile(t, p, q).upserts)
<1> DEFINE b == t[p]
           e == [removed |-> {p}, upserts |-> Only(q, b),
                 disk |-> <<DiskRemove(p), DiskWrite(q, b)>>, changes |-> <<Moved(p, q, b)>>]
           f == EntryMoved(t, Parent(p), Leaf(p), Parent(q), [name |-> Leaf(q), folder |-> FALSE])
<1>1. b \in Content
  BY FileTyped
<1>2. MoveFile(t, p, q) = Then(e, f)
  BY DEF MoveFile
<1> HIDE DEF b
<1>3. ~IsIndex(q) /\ Parent(q) \in Seq(Name) /\ Parent(p) \in Seq(Name)
  BY PathFacts
<1>4. TypedAt(q, b)
  BY <1>1, <1>3 DEF TypedAt
<1>5. e.upserts = Only(q, b)
  OBVIOUS
<1>6. WellTyped(e.upserts)
  BY <1>4, <1>5, TypedOnly
<1>7. [name |-> Leaf(q), folder |-> FALSE] \in Entry
  BY LeafName
<1>8. WellTyped(f.upserts)
  BY <1>3, <1>7, EntryMovedTyped
<1> HIDE DEF e, f
<1> QED
  BY <1>2, <1>6, <1>8, TypedThen

LEMMA MoveDirectoryTyped ==
    ASSUME NEW t, TreeOK(t), WellTyped(t), NEW d \in Seq(Name), d # Root,
           NEW q \in Seq(Name), q # Root
    PROVE  WellTyped(MoveDirectory(t, d, q).upserts)
<1> DEFINE S == Subtree(t, d)
           at == {Rebased(d, q, p) : p \in S}
           ups == [p \in at |-> t[Rebased(q, d, p)]]
           f == EntryMoved(t, Parent(d), Leaf(d), Parent(q), [name |-> Leaf(q), folder |-> TRUE])
<1> DEFINE files == SetToSeq(S)
           e == [removed |-> {d}, upserts |-> ups,
                 disk |-> Append([i \in DOMAIN files |->
                                    DiskWrite(Rebased(d, q, files[i]), t[files[i]])],
                                 DiskRemoveAll(d)),
                 changes |-> [i \in DOMAIN files |->
                                Moved(files[i], Rebased(d, q, files[i]), t[files[i]])]]
<1>1. MoveDirectory(t, d, q) = Then(e, f) /\ e.upserts = ups
  BY DEF MoveDirectory, Rebased
<1>2. WellTyped(ups)
  <2> SUFFICES ASSUME NEW p \in S
               PROVE  TypedAt(Rebased(d, q, p), t[Rebased(q, d, Rebased(d, q, p))])
    BY DEF WellTyped
  <2>1. p \in DOMAIN t /\ p \in Legal /\ IsStrictPrefix(d, p)
    BY DEF Subtree, TreeOK
  <2>2. /\ IsIndex(Rebased(d, q, p)) <=> IsIndex(p)
        /\ Rebased(q, d, Rebased(d, q, p)) = p
    BY <2>1, RebasedFacts
  <2>3. TypedAt(p, t[p])
    BY <2>1 DEF WellTyped
  <2> QED
    BY <2>2, <2>3 DEF TypedAt
<1>3. WellTyped(f.upserts)
  <2>1. Parent(d) \in Seq(Name) /\ Parent(q) \in Seq(Name)
    BY PathFacts
  <2>2. [name |-> Leaf(q), folder |-> TRUE] \in Entry
    BY LeafName
  <2> QED
    BY <2>1, <2>2, EntryMovedTyped
<1> HIDE DEF ups, e, f
<1> QED
  BY <1>1, <1>2, <1>3, TypedThen

(* What a reorder counts positions against, without the entry it moves,    *)
(* and where it puts that entry.                                           *)
ShownOthers(t, p, implicit, hidden) == Others(Materialized(t, Parent(p), implicit, hidden), Leaf(p))
PlaceIn(rest, position) == IF position < Len(rest) THEN position ELSE Len(rest)

LEMMA PositionedFacts ==
    ASSUME NEW t, TreeOK(t), WellTyped(t), NEW p \in Seq(Name), p # Root,
           NEW position \in Nat, NEW implicit \in Nat, NEW hidden
    PROVE  LET rest == ShownOthers(t, p, implicit, hidden)
               at == PlaceIn(rest, position)
           IN /\ rest \in Seq(Entry) /\ Listed(rest)
              /\ Range(rest) = {e \in InList(t, Parent(p), hidden) : e.name # Leaf(p)}
              /\ at + 1 \in 1..(Len(rest) + 1)
              /\ EntryFor(t, Parent(p), Leaf(p)) \in Entry
              /\ Positioned(t, p, position, implicit, hidden)
                    = InsertAt(rest, at + 1, EntryFor(t, Parent(p), Leaf(p)))
              /\ Positioned(t, p, position, implicit, hidden) \in Seq(Entry)
<1> DEFINE rest == ShownOthers(t, p, implicit, hidden)
           at == PlaceIn(rest, position)
           m == Materialized(t, Parent(p), implicit, hidden)
           x == EntryFor(t, Parent(p), Leaf(p))
<1>1. Parent(p) \in Seq(Name) /\ Leaf(p) \in Name
  BY PathFacts, LeafName
<1>2. Listed(StoredOrder(t, Parent(p)))
  BY <1>1, StoredTyped
<1>3. Listed(m) /\ Range(m) = InList(t, Parent(p), hidden)
  BY <1>1, <1>2, MaterializedFacts
<1>4. InList(t, Parent(p), hidden) \subseteq Entry /\ x \in Entry
  BY <1>1, EntriesFacts DEF InList
<1>5. m \in Seq(Entry)
  BY <1>3, <1>4, SeqMonotonic DEF Listed
<1>6. rest = Others(m, Leaf(p))
  BY DEF ShownOthers
<1>9. Positioned(t, p, position, implicit, hidden) = InsertAt(rest, at + 1, x)
  BY DEF Positioned, ShownOthers, PlaceIn
<1> HIDE DEF m, x, rest
<1>7. rest \in Seq(Entry) /\ Listed(rest) /\ Range(rest) = {e \in Range(m) : e.name # Leaf(p)}
  BY <1>5, <1>6, OthersTyped
<1>8. at + 1 \in 1..(Len(rest) + 1)
  <2>1. Len(rest) \in Nat
    BY <1>7
  <2> HIDE DEF rest
  <2> QED
    BY <2>1 DEF PlaceIn
<1> HIDE DEF at
<1>10. InsertAt(rest, at + 1, x) \in Seq(Entry)
  BY <1>4, <1>7, <1>8, InsertFacts
<1> QED
  BY <1>3, <1>4, <1>7, <1>8, <1>9, <1>10 DEF rest, at, x

LEMMA OrdersTyped ==
    ASSUME NEW t, TreeOK(t), WellTyped(t)
    PROVE  /\ \A d \in Seq(Name), ns \in Seq(Name) : WellTyped(WriteOrder(t, d, ns).upserts)
           /\ \A p \in Seq(Name) : p # Root =>
                 WellTyped(StageIndex(t, Parent(p), Unlisted(t, p)).upserts)
           /\ \A d \in Seq(Name) : WellTyped(StageIndex(t, d, <<>>).upserts)
           /\ \A p \in Seq(Name), position \in Nat, implicit \in Nat : p # Root => \A hidden :
                 WellTyped(StageIndex(t, Parent(p),
                              Positioned(t, p, position, implicit, hidden)).upserts)
<1>1. ASSUME NEW d \in Seq(Name), NEW ns \in Seq(Name)
      PROVE  WellTyped(WriteOrder(t, d, ns).upserts)
  <2>1. \A n \in Name : EntryFor(t, d, n) \in Entry
    BY EntriesFacts
  <2>2. DOMAIN ns = 1..Len(ns) /\ Len(ns) \in Nat /\ \A i \in 1..Len(ns) : ns[i] \in Name
    OBVIOUS
  <2>3. Canonical(t, d, ns) \in [1..Len(ns) -> Entry]
    BY <2>1, <2>2 DEF Canonical
  <2>4. Canonical(t, d, ns) \in Seq(Entry)
    BY <2>2, <2>3, SeqDef
  <2> QED
    BY <2>4, StageTyped DEF WriteOrder
<1>2. ASSUME NEW p \in Seq(Name), p # Root
      PROVE  WellTyped(StageIndex(t, Parent(p), Unlisted(t, p)).upserts)
  <2>1. Parent(p) \in Seq(Name)
    BY <1>2, PathFacts
  <2>2. Unlisted(t, p) \in Seq(Entry)
    BY <2>1, StoredTyped, OthersTyped DEF Unlisted
  <2> QED
    BY <2>1, <2>2, StageTyped
<1>3. ASSUME NEW d \in Seq(Name) PROVE WellTyped(StageIndex(t, d, <<>>).upserts)
  <2>1. <<>> \in Seq(Entry)
    OBVIOUS
  <2> QED
    BY <2>1, StageTyped
<1>4. ASSUME NEW p \in Seq(Name), NEW position \in Nat, NEW implicit \in Nat, NEW hidden, p # Root
      PROVE  WellTyped(StageIndex(t, Parent(p),
                          Positioned(t, p, position, implicit, hidden)).upserts)
  <2>1. Parent(p) \in Seq(Name)
    BY <1>4, PathFacts
  <2>2. Positioned(t, p, position, implicit, hidden) \in Seq(Entry)
    BY <1>4, PositionedFacts
  <2> QED
    BY <2>1, <2>2, StageTyped
<1> QED
  BY <1>1, <1>2, <1>3, <1>4

LEMMA HistoryTyped ==
    ASSUME NEW head, TreeOK(head), NEW t, TreeOK(t), WellTyped(t), NEW u, TreeOK(u), WellTyped(u),
           NEW R \in Renames(t, u)
    PROVE  /\ WellTyped(Revert(t, u, R).upserts)
           /\ WellTyped(Rollback(head, t, u, R).upserts)
<1>1. ASSUME NEW p \in DOMAIN Revert(t, u, R).upserts
      PROVE  p \in DOMAIN t /\ Revert(t, u, R).upserts[p] = t[p]
  BY RevertFacts DEF Gone
<1>2. ASSUME NEW p \in DOMAIN Rollback(head, t, u, R).upserts
      PROVE  p \in DOMAIN u /\ Rollback(head, t, u, R).upserts[p] = u[p]
  BY RollbackFacts DEF Gone
<1> QED
  BY <1>1, <1>2 DEF WellTyped

-----------------------------------------------------------------------------
(* What an edit of one index leaves of a directory. *)

LEMMA SameEntries ==
    ASSUME NEW t, DOMAIN t \subseteq Path, NEW u, DOMAIN u \subseteq Path, NEW d \in Seq(Name),
           \A q : q # IndexPath(d) => (q \in DOMAIN t <=> q \in DOMAIN u)
    PROVE  /\ EntriesOf(t, d) = EntriesOf(u, d)
           /\ \A m \in Name : EntryFor(t, d, m) = EntryFor(u, d, m)
<1>1. d \in Path /\ IndexPath(d) \in Path /\ Index \in Nat
  BY LegalFacts, NameFacts
<1>2. ASSUME NEW m \in Name
      PROVE  /\ Child(d, m) # IndexPath(d) /\ ~IsStrictPrefix(Child(d, m), IndexPath(d))
  <2>1. m \in Nat /\ m # Index
    BY NameFacts
  <2>2. /\ Child(d, m) \in Path /\ Len(Child(d, m)) = Len(d) + 1 /\ Leaf(Child(d, m)) = m
        /\ Len(IndexPath(d)) = Len(d) + 1 /\ Leaf(IndexPath(d)) = Index
    BY <1>1, <2>1, ChildFacts DEF IndexPath
  <2> QED
    BY <1>1, <2>1, <2>2, PrefixFacts DEF IsStrictPrefix
<1>3. \A m \in Name : /\ IsFile(t, Child(d, m)) <=> IsFile(u, Child(d, m))
                      /\ IsFolder(t, Child(d, m)) <=> IsFolder(u, Child(d, m))
  BY <1>2 DEF IsFile, IsFolder
<1>4. \A m \in Name : IsFolder(t, Child(d, m)) = IsFolder(u, Child(d, m))
  BY <1>3 DEF IsFolder
<1>5. \A m \in Name : EntryFor(t, d, m) = EntryFor(u, d, m)
  BY <1>4 DEF EntryFor
<1>6. {m \in Name : Exists(t, Child(d, m))} = {m \in Name : Exists(u, Child(d, m))}
  BY <1>3 DEF Exists
<1> QED
  BY <1>5, <1>6 DEF EntriesOf

LEMMA StagedIndex ==
    ASSUME NEW t, TreeOK(t), NEW d \in Seq(Name), NEW es, es # <<>>
    PROVE  LET u == After(StageIndex(t, d, es), t)
           IN /\ StoredOrder(u, d) = es /\ HasIndex(u, d)
              /\ EntriesOf(u, d) = EntriesOf(t, d)
<1> DEFINE e == StageIndex(t, d, es)
           u == After(e, t)
           i == IndexPath(d)
<1>1. i \in Legal /\ DOMAIN t \subseteq Legal
  BY LegalFacts DEF TreeOK
<1>2. e.removed = {} /\ e.upserts = Only(i, es)
  <2>1. PICK c \in {Created(i, es), Updated(i, es)} : e = PutAs(c)
    BY DEF StageIndex
  <2> QED
    BY <2>1 DEF PutAs, NoEdit, Created, Updated
<1> HIDE DEF e, i
<1>3. DOMAIN e.upserts = {i} /\ BlobAt(e.upserts, i) = <<es>>
  BY <1>2, OnlyDomain, OnlyFacts
<1>4. \A p : ~Covered(e, p)
  BY <1>2 DEF Covered
<1>5. \A p : p \in DOMAIN u <=> p = i \/ p \in DOMAIN t
  BY <1>3, <1>4, AfterAt
<1>6. BlobAt(u, i) = <<es>>
  BY <1>3, AfterAt
<1> HIDE DEF u
<1>7. u[i] = es /\ i \in DOMAIN u
  BY <1>5, <1>6 DEF BlobAt
<1>8. StoredOrder(u, d) = es /\ HasIndex(u, d)
  BY <1>7 DEF StoredOrder, HasIndex, IsFile, i
<1>9. EntriesOf(t, d) = EntriesOf(u, d)
  <2>1. DOMAIN t \subseteq Path /\ DOMAIN u \subseteq Path
    BY <1>1, <1>5, LegalFacts
  <2>2. \A q : q # IndexPath(d) => (q \in DOMAIN t <=> q \in DOMAIN u)
    BY <1>5 DEF i
  <2> QED
    BY <2>1, <2>2, SameEntries
<1> QED
  BY <1>8, <1>9 DEF u, e

LEMMA InsertOrder ==
    ASSUME NEW E, NEW s \in Seq(E), NEW R, Increasing(s, R), NEW x \in E, NEW k \in 1..(Len(s) + 1),
           NEW i \in 1..(Len(s) + 1), NEW j \in 1..(Len(s) + 1), i < j, i # k, j # k
    PROVE  <<InsertAt(s, k, x)[i], InsertAt(s, k, x)[j]>> \in R
<1> DEFINE y == InsertAt(s, k, x)
           At(l) == IF l < k THEN l ELSE l - 1
<1>0. Len(s) \in Nat /\ k \in Nat
  OBVIOUS
<1>1. ASSUME NEW l \in 1..(Len(s) + 1), l # k PROVE At(l) \in 1..Len(s) /\ y[l] = s[At(l)]
  <2>1. CASE l < k
    <3>1. l \in 1..(k - 1) /\ l \in 1..Len(s)
      BY <1>0, <2>1
    <3> QED
      BY <2>1, <3>1, InsertFacts
  <2>2. CASE l > k
    <3>1. l \in (k + 1)..(Len(s) + 1) /\ l - 1 \in 1..Len(s) /\ ~(l < k)
      BY <1>0, <2>2
    <3>2. y[l] = s[l - 1]
      <4>1. \A h \in (k + 1)..(Len(s) + 1) : y[h] = s[h - 1]
        BY InsertFacts
      <4> HIDE DEF y
      <4> QED
        BY <3>1, <4>1
    <3> HIDE DEF y
    <3> QED
      BY <3>1, <3>2
  <2> QED
    BY <1>0, <1>1, <2>1, <2>2
<1>2. At(i) < At(j)
  BY <1>0
<1> HIDE DEF y, At
<1>3. /\ At(i) \in 1..Len(s) /\ y[i] = s[At(i)] /\ At(j) \in 1..Len(s) /\ y[j] = s[At(j)]
  BY <1>1
<1>4. <<s[At(i)], s[At(j)]>> \in R
  BY <1>2, <1>3 DEF Increasing
<1> QED
  BY <1>3, <1>4 DEF y

LEMMA RankStrict ==
    ASSUME NEW es, Listed(es), NEW implicit \in Nat
    PROVE  Strict(Ranking(es, implicit))
<1> DEFINE S == {}
<1>1. S \subseteq Entry /\ \A e, f \in S : e.name = f.name => e = f
  OBVIOUS
<1> HIDE DEF S
<1> QED
  BY <1>1, RankFacts

(* The entries a listing shows, but for that of n. *)
InView(t, d, n) == {e \in EntriesOf(t, d) : e.name \notin HiddenName \cup {n}}

Reordered(t, p, position, implicit, hidden) ==
    StageIndex(t, Parent(p), Positioned(t, p, position, implicit, hidden))

(* Giving an entry a position keeps the order of what is shown of the rest *)
(* of its directory.                                                       *)
LEMMA ReorderKeeps ==
    ASSUME NEW t, TreeOK(t), WellTyped(t), NEW p \in Seq(Name), p # Root,
           NEW position \in Nat, NEW implicit \in Nat, NEW hidden \in BOOLEAN,
           Applies(Reordered(t, p, position, implicit, hidden), t)
    PROVE  Sift(Materialized(After(Reordered(t, p, position, implicit, hidden), t),
                             Parent(p), implicit, TRUE),
                InView(t, Parent(p), Leaf(p)))
           = Sift(Materialized(t, Parent(p), implicit, TRUE), InView(t, Parent(p), Leaf(p)))
<1> DEFINE d == Parent(p)
           e == Reordered(t, p, position, implicit, hidden)
           u == After(e, t)
           es == StoredOrder(t, d)
           rest == ShownOthers(t, p, implicit, hidden)
           k == PlaceIn(rest, position) + 1
           x == EntryFor(t, d, Leaf(p))
           fs == InsertAt(rest, k, x)
           R == Ranking(es, implicit)
           Q == Ranking(fs, implicit)
           m == Materialized(t, d, implicit, TRUE)
           n == Materialized(u, d, implicit, TRUE)
           T == InView(t, d, Leaf(p))
<1>t. T \subseteq EntriesOf(t, d) /\ \A z \in T : z.name \notin HiddenName \cup {Leaf(p)}
  BY DEF InView
<1> HIDE DEF T
<1>e. /\ e = StageIndex(t, d, Positioned(t, p, position, implicit, hidden)) /\ Applies(e, t)
      /\ Reordered(t, p, position, implicit, hidden) = e
  BY DEF Reordered
<1> HIDE DEF e
<1>1. d \in Seq(Name) /\ Leaf(p) \in Name
  BY PathFacts, LeafName
<1>2. /\ rest \in Seq(Entry) /\ Listed(rest)
      /\ Range(rest) = {y \in InList(t, d, hidden) : y.name # Leaf(p)}
      /\ k \in 1..(Len(rest) + 1) /\ x \in Entry
      /\ Positioned(t, p, position, implicit, hidden) = fs
  BY PositionedFacts
<1>3. es \in Seq(Entry) /\ Listed(es)
  BY <1>1, StoredTyped
<1>4. Increasing(rest, R)
  <2> DEFINE y == Materialized(t, d, implicit, hidden)
             S == {z \in Range(y) : z.name # Leaf(p)}
  <2>1. Listed(y) /\ Increasing(y, R)
    BY <1>1, <1>3, MaterializedFacts
  <2>2. rest = Sift(y, S)
    BY OthersSift DEF ShownOthers
  <2> HIDE DEF y, S, rest, R
  <2> QED
    BY <2>1, <2>2, SiftFacts
<1>5. /\ EntriesOf(t, d) \subseteq Entry
      /\ \A a, b \in EntriesOf(t, d) : a.name = b.name => a = b
      /\ x \in Entry /\ x.name = Leaf(p)
  BY <1>1, EntriesFacts
<1> HIDE DEF rest, k, x
<1>6. /\ fs \in Seq(Entry) /\ Len(fs) = Len(rest) + 1 /\ fs[k] = x
      /\ \A j \in 1..(k - 1) : fs[j] = rest[j]
      /\ \A j \in (k + 1)..(Len(rest) + 1) : fs[j] = rest[j - 1]
  BY <1>2, InsertFacts
<1>7. Listed(fs) /\ fs # <<>> /\ Len(rest) \in Nat
  <2>1. Len(rest) \in Nat /\ Len(fs) > 0
    BY <1>2, <1>6
  <2> HIDE DEF fs
  <2> QED
    BY <1>6, <2>1, ListedIn
<1>8. StoredOrder(u, d) = fs /\ EntriesOf(u, d) = EntriesOf(t, d)
  BY <1>1, <1>2, <1>7, <1>e, StagedIndex
<1>9. TreeOK(u)
  <2>1. DOMAIN t \subseteq Legal
    BY DEF TreeOK
  <2>2. IsEdit(e) /\ Separate(e)
    <3> DEFINE gs == Positioned(t, p, position, implicit, hidden)
    <3>1. e = StageIndex(t, d, gs)
      BY <1>e
    <3> HIDE DEF gs
    <3>2. Tidy(e, t, {IndexPath(d)})
      BY <1>1, <2>1, <3>1, StageIndexFacts
    <3> QED
      BY <3>2 DEF Tidy, Honest
  <2> QED
    BY <1>e, <2>2, AfterOK
<1>10. /\ Listed(m) /\ Range(m) = EntriesOf(t, d) /\ Increasing(m, R)
       /\ Listed(n) /\ Range(n) = EntriesOf(t, d) /\ Increasing(n, Q)
  <2>1. Listed(m) /\ Range(m) = InList(t, d, TRUE) /\ Increasing(m, R)
    BY <1>1, <1>3, MaterializedFacts
  <2>2. Listed(n) /\ Range(n) = InList(u, d, TRUE) /\ Increasing(n, Ranking(StoredOrder(u, d), implicit))
    BY <1>1, <1>7, <1>8, <1>9, MaterializedFacts
  <2>3. InList(t, d, TRUE) = EntriesOf(t, d) /\ InList(u, d, TRUE) = EntriesOf(u, d)
    BY DEF InList
  <2> QED
    BY <1>8, <2>1, <2>2, <2>3
<1> HIDE DEF m, n, fs, u, es, d
(* Of the entries that are not hidden, the new index names each where the  *)
(* listing had it.                                                         *)
<1>11. ASSUME NEW a \in T, NEW b \in T, <<a, b>> \in Q PROVE <<a, b>> \in R
  <2>1. \A y \in T : y \in Range(rest) /\ y \in Entry /\ y.name # Leaf(p) /\ y \in EntriesOf(t, d)
    BY <1>2, <1>5, <1>t DEF InList
  <2>2. ASSUME NEW y \in T
        PROVE  /\ y.name \in Names(fs) /\ PlaceOf(fs, y.name) \in 1..Len(fs)
               /\ PlaceOf(fs, y.name) # k /\ fs[PlaceOf(fs, y.name)] = y
    <3>1. PICK i \in 1..Len(rest) : rest[i] = y
      BY <1>2, <2>1, ListedFacts
    <3>2. \E j \in 1..Len(fs) : fs[j] = y
      <4>1. CASE i < k
        <5>1. i \in 1..(k - 1) /\ i \in 1..Len(fs)
          BY <1>2, <1>6, <1>7, <4>1
        <5> QED
          BY <1>6, <3>1, <5>1
      <4>2. CASE ~(i < k)
        <5> PICK j \in Nat : j = i + 1
          OBVIOUS
        <5>1. j \in (k + 1)..(Len(rest) + 1) /\ j \in 1..Len(fs) /\ j - 1 = i
          BY <1>2, <1>6, <1>7, <4>2
        <5> QED
          BY <1>6, <3>1, <5>1
      <4> QED
        BY <4>1, <4>2
    <3>3. y.name \in Names(fs)
      BY <1>7, <3>2, ListedFacts DEF Names
    <3> DEFINE l == PlaceOf(fs, y.name)
    <3>4. l \in 1..Len(fs) /\ fs[l].name = y.name
      BY <1>7, <3>3, PlaceFacts
    <3> HIDE DEF l
    <3>5. l # k
      BY <1>5, <1>6, <2>1, <3>4
    <3>6. fs[l] \in Range(rest)
      <4>1. CASE l < k
        <5>1. l \in 1..(k - 1) /\ l \in 1..Len(rest)
          BY <1>2, <1>6, <1>7, <3>4, <4>1
        <5> QED
          BY <1>2, <1>6, <5>1, ListedFacts
      <4>2. CASE l > k
        <5>1. l \in (k + 1)..(Len(rest) + 1) /\ l - 1 \in 1..Len(rest)
          BY <1>2, <1>6, <1>7, <3>4, <4>2
        <5>2. fs[l] = rest[l - 1]
          BY <1>6, <5>1
        <5>3. rest[l - 1] \in Range(rest)
          BY <1>2, <5>1, ListedFacts
        <5> QED
          BY <5>2, <5>3
      <4> QED
        BY <1>2, <1>7, <3>4, <3>5, <4>1, <4>2
    <3>7. fs[l] = y
      BY <1>2, <1>5, <2>1, <3>4, <3>6 DEF InList
    <3> QED
      BY <3>3, <3>4, <3>5, <3>7 DEF l
  <2> DEFINE i == PlaceOf(fs, a.name)
             j == PlaceOf(fs, b.name)
  <2>3. /\ i \in 1..Len(fs) /\ j \in 1..Len(fs) /\ i # k /\ j # k /\ fs[i] = a /\ fs[j] = b
        /\ a.name \in Names(fs) /\ b.name \in Names(fs)
    BY <2>2
  <2>4. a # b
    <3>1. Strict(Q)
      BY <1>7, RankStrict
    <3> QED
      BY <1>11, <3>1 DEF Strict
  <2>5. i <= j
    <3>1. RankBefore(fs, implicit, a, b)
      BY <1>11 DEF Ranking
    <3>2. RankAt(fs, implicit, a) <= RankAt(fs, implicit, b)
      <4>1. a \in Entry /\ b \in Entry
        BY <2>1
      <4>2. /\ RankAt(fs, implicit, a) \in Nat /\ RankAt(fs, implicit, b) \in Nat
        BY <1>7, <4>1, RankNumbers
      <4>3. Less4(RankAt(fs, implicit, a), RankListed(fs, a), RankFolder(a), a.name,
                  RankAt(fs, implicit, b), RankListed(fs, b), RankFolder(b), b.name)
        BY <1>7, <3>1, <4>1, RankIs
      <4> QED
        BY <4>2, <4>3 DEF Less4
    <3> QED
      BY <1>7, <2>3, <3>2 DEF RankAt
  <2> HIDE DEF i, j
  <2>6. i < j /\ i \in 1..(Len(rest) + 1) /\ j \in 1..(Len(rest) + 1)
    BY <1>6, <1>7, <2>3, <2>4, <2>5
  <2>7. <<fs[i], fs[j]>> \in R
    BY <1>2, <1>4, <2>3, <2>6, InsertOrder DEF fs
  <2> QED
    BY <2>3, <2>7
<1>s. Range(m) \cap T = T /\ Range(n) \cap T = T
  BY <1>10, <1>t
<1>12. /\ Listed(Sift(m, T)) /\ Range(Sift(m, T)) = T /\ Increasing(Sift(m, T), R)
  BY <1>10, <1>s, SiftFacts
<1>13. /\ Listed(Sift(n, T)) /\ Range(Sift(n, T)) = T /\ Increasing(Sift(n, T), Q)
  BY <1>10, <1>s, SiftFacts
<1>14. Increasing(Sift(n, T), R)
  <2>1. \A i \in 1..Len(Sift(n, T)) : Sift(n, T)[i] \in T
    BY <1>13, ListedFacts
  <2> QED
    BY <1>11, <1>13, <2>1 DEF Increasing
<1>15. Strict(R)
  BY <1>3, RankStrict
<1>16. Sift(n, T) = Sift(m, T)
  BY <1>12, <1>13, <1>14, <1>15, OneOrder
<1> QED
  BY <1>16, <1>e DEF m, n, u, d, T

-----------------------------------------------------------------------------
(* What edits put in an index. *)

Climbs(k) == {r \in (1..k) \X (1..k) : r[1] < r[2]}
OrderOf(s) == {<<s[r[1]], s[r[2]]>> : r \in Climbs(Len(s))}

LEMMA OrderOfFacts ==
    ASSUME NEW s, Listed(s)
    PROVE  /\ Increasing(s, OrderOf(s))
           /\ \A x, y : <<x, y>> \in OrderOf(s)
                 => \E i, j \in 1..Len(s) : i < j /\ x = s[i] /\ y = s[j]
           /\ IsInjective(s) => Strict(OrderOf(s))
<1>1. Len(s) \in Nat /\ DOMAIN s = 1..Len(s)
  BY ListedFacts
<1>2. Increasing(s, OrderOf(s))
  <2>1. ASSUME NEW i \in 1..Len(s), NEW j \in 1..Len(s), i < j PROVE <<s[i], s[j]>> \in OrderOf(s)
    <3> DEFINE r == <<i, j>>
    <3>1. r \in Climbs(Len(s)) /\ r[1] = i /\ r[2] = j
      BY <2>1 DEF Climbs
    <3> HIDE DEF r
    <3> QED
      BY <3>1 DEF OrderOf
  <2> QED
    BY <2>1 DEF Increasing
<1>3. ASSUME NEW x, NEW y, <<x, y>> \in OrderOf(s)
      PROVE  \E i, j \in 1..Len(s) : i < j /\ x = s[i] /\ y = s[j]
  BY <1>3 DEF OrderOf, Climbs
<1>4. ASSUME IsInjective(s), NEW x, NEW y, <<x, y>> \in OrderOf(s), <<y, x>> \in OrderOf(s)
      PROVE  FALSE
  <2>1. PICK i, j \in 1..Len(s) : i < j /\ x = s[i] /\ y = s[j]
    BY <1>3, <1>4
  <2>2. PICK k, l \in 1..Len(s) : k < l /\ y = s[k] /\ x = s[l]
    BY <1>3, <1>4
  <2>3. i = l /\ j = k
    BY <1>1, <1>4, <2>1, <2>2 DEF IsInjective
  <2> QED
    BY <2>1, <2>2, <2>3
<1> QED
  BY <1>2, <1>3, <1>4 DEF Strict

(* Of what two sequences in the same order share, each keeps the same.     *)
LEMMA SameOrder ==
    ASSUME NEW s, Listed(s), NEW t, Listed(t), NEW R, Strict(R), Increasing(s, R), Increasing(t, R)
    PROVE  Sift(s, Range(t)) = Sift(t, Range(s))
<1>1. /\ Listed(Sift(s, Range(t))) /\ Range(Sift(s, Range(t))) = Range(s) \cap Range(t)
      /\ Increasing(Sift(s, Range(t)), R)
  BY SiftFacts
<1>2. /\ Listed(Sift(t, Range(s))) /\ Range(Sift(t, Range(s))) = Range(t) \cap Range(s)
      /\ Increasing(Sift(t, Range(s)), R)
  BY SiftFacts
<1>3. Range(s) \cap Range(t) = Range(t) \cap Range(s)
  OBVIOUS
<1> QED
  BY <1>1, <1>2, <1>3, OneOrder

LEMMA StagePuts ==
    ASSUME NEW t, NEW d, NEW es, NEW q
    PROVE  BlobAt(StageIndex(t, d, es).upserts, q) =
              IF q = IndexPath(d) /\ es # <<>> THEN <<es>> ELSE <<>>
<1> DEFINE i == IndexPath(d)
<1> HIDE DEF i
<1>1. CASE es = <<>>
  <2>1. StageIndex(t, d, es).upserts = <<>>
    BY <1>1 DEF StageIndex, Remove1, NoEdit
  <2> QED
    BY <1>1, <2>1 DEF BlobAt
<1>2. CASE es # <<>>
  <2>1. PICK c \in {Created(i, es), Updated(i, es)} : StageIndex(t, d, es) = PutAs(c)
    BY <1>2 DEF StageIndex, i
  <2>2. StageIndex(t, d, es).upserts = Only(i, es)
    BY <2>1 DEF PutAs, NoEdit, Created, Updated
  <2>3. BlobAt(Only(i, es), q) = IF q = i THEN <<es>> ELSE <<>>
    BY OnlyFacts
  <2> QED
    BY <1>2, <2>2, <2>3 DEF i
<1> QED
  BY <1>1, <1>2

LEMMA ThenPuts ==
    ASSUME NEW e, NEW f, NEW q
    PROVE  /\ \/ BlobAt(Then(e, f).upserts, q) = BlobAt(e.upserts, q)
              \/ BlobAt(Then(e, f).upserts, q) = BlobAt(f.upserts, q)
           /\ q \notin DOMAIN e.upserts => BlobAt(Then(e, f).upserts, q) = BlobAt(f.upserts, q)
<1> DEFINE a == e.upserts
           b == f.upserts
           u == Overlay(b, a)
<1>1. Then(e, f).upserts = u
  BY DEF Then
<1>2. /\ \A p : p \in DOMAIN u <=> p \in DOMAIN a \/ p \in DOMAIN b
      /\ \A p \in DOMAIN u : u[p] = IF p \in DOMAIN b THEN b[p] ELSE a[p]
  BY DEF Overlay
<1> HIDE DEF u, a, b
<1>3. /\ BlobAt(u, q) = BlobAt(a, q) \/ BlobAt(u, q) = BlobAt(b, q)
      /\ q \notin DOMAIN a => BlobAt(u, q) = BlobAt(b, q)
  BY <1>2 DEF BlobAt
<1> QED
  BY <1>1, <1>3 DEF a, b

LEMMA NoPuts == \A p, q : BlobAt(NoEdit.upserts, q) = <<>> /\ BlobAt(Remove1(p).upserts, q) = <<>>
  BY DEF NoEdit, Remove1, BlobAt

(* What upkeep may put in an index: it drops a name, or adds one at the    *)
(* tail.                                                                   *)
Kin(es, fs) ==
    fs = es \/ (\E n : fs = Others(es, n)) \/ (\E e \in Entry : fs = Append(es, e))

LEMMA StageOrNotPuts ==
    ASSUME NEW t, NEW d, NEW es, NEW q, NEW e \in {NoEdit, StageIndex(t, d, es)}
    PROVE  /\ BlobAt(e.upserts, q) \in {<<>>, <<es>>}
           /\ q # IndexPath(d) => BlobAt(e.upserts, q) = <<>>
<1>1. CASE e = NoEdit
  <2>1. BlobAt(NoEdit.upserts, q) = <<>>
    BY NoPuts
  <2> QED
    BY <1>1, <2>1
<1>2. CASE e = StageIndex(t, d, es)
  <2>1. BlobAt(StageIndex(t, d, es).upserts, q) =
            IF q = IndexPath(d) /\ es # <<>> THEN <<es>> ELSE <<>>
    BY StagePuts
  <2> QED
    BY <1>2, <2>1
<1> QED
  BY <1>1, <1>2

LEMMA EntryPuts ==
    ASSUME NEW t, NEW d, NEW n, NEW e, NEW q
    PROVE  /\ BlobAt(EntryRemoved(t, d, n).upserts, q) \in {<<>>, <<Others(StoredOrder(t, d), n)>>}
           /\ BlobAt(EntryAppended(t, d, e).upserts, q) \in {<<>>, <<Append(StoredOrder(t, d), e)>>}
           /\ q # IndexPath(d) => /\ BlobAt(EntryRemoved(t, d, n).upserts, q) = <<>>
                                  /\ BlobAt(EntryAppended(t, d, e).upserts, q) = <<>>
                                  /\ BlobAt(EntryRenamed(t, d, n, e).upserts, q) = <<>>
<1>1. EntryRemoved(t, d, n) \in {NoEdit, StageIndex(t, d, Others(StoredOrder(t, d), n))}
  BY DEF EntryRemoved
<1>2. EntryAppended(t, d, e) \in {NoEdit, StageIndex(t, d, Append(StoredOrder(t, d), e))}
  BY DEF EntryAppended
<1>3. EntryRenamed(t, d, n, e)
         \in {NoEdit, StageIndex(t, d, ReplaceAt(StoredOrder(t, d), PlaceOf(StoredOrder(t, d), n), e))}
  BY DEF EntryRenamed, PlaceOf
<1>4. /\ BlobAt(EntryRemoved(t, d, n).upserts, q) \in {<<>>, <<Others(StoredOrder(t, d), n)>>}
      /\ q # IndexPath(d) => BlobAt(EntryRemoved(t, d, n).upserts, q) = <<>>
  BY <1>1, StageOrNotPuts
<1>5. /\ BlobAt(EntryAppended(t, d, e).upserts, q) \in {<<>>, <<Append(StoredOrder(t, d), e)>>}
      /\ q # IndexPath(d) => BlobAt(EntryAppended(t, d, e).upserts, q) = <<>>
  BY <1>2, StageOrNotPuts
<1>6. q # IndexPath(d) => BlobAt(EntryRenamed(t, d, n, e).upserts, q) = <<>>
  <2> DEFINE c == EntryRenamed(t, d, n, e)
             fs == ReplaceAt(StoredOrder(t, d), PlaceOf(StoredOrder(t, d), n), e)
  <2>1. c \in {NoEdit, StageIndex(t, d, fs)}
    BY <1>3
  <2> HIDE DEF c, fs
  <2>2. q # IndexPath(d) => BlobAt(c.upserts, q) = <<>>
    BY <2>1, StageOrNotPuts
  <2> QED
    BY <2>2 DEF c
<1> QED
  BY <1>4, <1>5, <1>6

(* All that an edit puts in the index of d is kin to what is there.        *)
KinAt(e, t, d) == \A fs : BlobAt(e.upserts, IndexPath(d)) = <<fs>> => Kin(StoredOrder(t, d), fs)

LEMMA KinNothing ==
    ASSUME NEW e, NEW t, NEW d, BlobAt(e.upserts, IndexPath(d)) = <<>>
    PROVE  KinAt(e, t, d)
<1>1. \A fs : <<>> # <<fs>>
  OBVIOUS
<1> QED
  BY <1>1 DEF KinAt

LEMMA KinThen ==
    ASSUME NEW e, NEW f, NEW t, NEW d, KinAt(e, t, d), KinAt(f, t, d)
    PROVE  KinAt(Then(e, f), t, d)
<1> DEFINE q == IndexPath(d)
<1> HIDE DEF q
<1>1. \/ BlobAt(Then(e, f).upserts, q) = BlobAt(e.upserts, q)
      \/ BlobAt(Then(e, f).upserts, q) = BlobAt(f.upserts, q)
  BY ThenPuts
<1> QED
  BY <1>1 DEF KinAt, q

LEMMA OneIndex ==
    ASSUME NEW d \in Seq(Name), NEW c \in Seq(Name), IndexPath(d) = IndexPath(c)
    PROVE  d = c
  BY LegalFacts

LEMMA KinEdits ==
    ASSUME NEW t, NEW d \in Seq(Name), NEW c \in Seq(Name), NEW n, NEW e \in Entry
    PROVE  /\ KinAt(EntryRemoved(t, c, n), t, d)
           /\ KinAt(EntryAppended(t, c, e), t, d)
           /\ d # c => KinAt(EntryRenamed(t, c, n, e), t, d)
<1> DEFINE es == StoredOrder(t, c)
           q == IndexPath(d)
<1>1. /\ BlobAt(EntryRemoved(t, c, n).upserts, q) \in {<<>>, <<Others(es, n)>>}
      /\ BlobAt(EntryAppended(t, c, e).upserts, q) \in {<<>>, <<Append(es, e)>>}
      /\ q # IndexPath(c) => /\ BlobAt(EntryRemoved(t, c, n).upserts, q) = <<>>
                             /\ BlobAt(EntryAppended(t, c, e).upserts, q) = <<>>
                             /\ BlobAt(EntryRenamed(t, c, n, e).upserts, q) = <<>>
  <2> HIDE DEF q
  <2> QED
    BY EntryPuts
<1> HIDE DEF q
<1>2. CASE d # c
  <2>1. q # IndexPath(c)
    BY <1>2, OneIndex DEF q
  <2> QED
    BY <1>1, <1>2, <2>1, KinNothing DEF q
<1>3. CASE d = c
  <2>1. Kin(es, Others(es, n)) /\ Kin(es, Append(es, e))
    BY DEF Kin
  <2> HIDE DEF es
  <2>2. KinAt(EntryRemoved(t, c, n), t, d)
    <3>1. \A fs : BlobAt(EntryRemoved(t, c, n).upserts, q) = <<fs>> => fs = Others(es, n)
      BY <1>1
    <3> QED
      BY <1>3, <2>1, <3>1 DEF KinAt, q, es
  <2>3. KinAt(EntryAppended(t, c, e), t, d)
    <3>1. \A fs : BlobAt(EntryAppended(t, c, e).upserts, q) = <<fs>> => fs = Append(es, e)
      BY <1>1
    <3> QED
      BY <1>3, <2>1, <3>1 DEF KinAt, q, es
  <2> QED
    BY <1>3, <2>2, <2>3
<1> QED
  BY <1>2, <1>3

LEMMA KinMoved ==
    ASSUME NEW t, NEW d \in Seq(Name), NEW c \in Seq(Name), NEW c2 \in Seq(Name), NEW n,
           NEW e \in Entry, c # c2 \/ d # c
    PROVE  KinAt(EntryMoved(t, c, n, c2, e), t, d)
<1>1. /\ KinAt(EntryRemoved(t, c, n), t, d) /\ KinAt(EntryAppended(t, c2, e), t, d)
      /\ d # c => KinAt(EntryRenamed(t, c, n, e), t, d)
  BY KinEdits
<1>2. KinAt(Then(EntryRemoved(t, c, n), EntryAppended(t, c2, e)), t, d)
  BY <1>1, KinThen
<1> QED
  BY <1>1, <1>2 DEF EntryMoved

LEMMA KinFiles ==
    ASSUME NEW t, NEW d \in Seq(Name), NEW p \in Seq(Name), p # Root
    PROVE  /\ \A c : KinAt(WriteFile(t, p, c), t, d)
           /\ KinAt(DeleteFile(t, p), t, d) /\ KinAt(DeleteDirectory(t, p), t, d)
<1>1. p # IndexPath(d) /\ Parent(p) \in Seq(Name)
  <2>1. ~IsIndex(p) /\ Parent(p) \in Seq(Name) /\ IsIndex(IndexPath(d))
    BY LegalFacts, PathFacts
  <2> QED
    BY <2>1
<1>2. ASSUME NEW c PROVE KinAt(WriteFile(t, p, c), t, d)
  <2>1. WriteFile(t, p, c).upserts = Only(p, c)
    BY DEF WriteFile, PutAs, Created, Updated, NoEdit
  <2>2. BlobAt(WriteFile(t, p, c).upserts, IndexPath(d)) = <<>>
    BY <1>1, <2>1, OnlyFacts
  <2> QED
    BY <2>2, KinNothing
<1>3. KinAt(EntryRemoved(t, Parent(p), Leaf(p)), t, d)
  <2>1. [name |-> Leaf(p), folder |-> FALSE] \in Entry
    BY LeafName
  <2> QED
    BY <1>1, <2>1, KinEdits
<1>4. KinAt(Remove1(p), t, d)
  BY NoPuts, KinNothing
<1>5. KinAt(DeleteFile(t, p), t, d)
  BY <1>3, <1>4, KinThen DEF DeleteFile
<1>6. KinAt(DeleteDirectory(t, p), t, d)
  <2> DEFINE a == [NoEdit EXCEPT !.removed = {p}, !.disk = <<DiskRemoveAll(p)>>,
                          !.changes = SetToSeq({Deleted(q) : q \in Subtree(t, p)})]
  <2>1. a.upserts = NoEdit.upserts
    BY DEF NoEdit
  <2>2. BlobAt(a.upserts, IndexPath(d)) = <<>>
    BY <2>1, NoPuts
  <2>3. DeleteDirectory(t, p) = Then(a, EntryRemoved(t, Parent(p), Leaf(p)))
    BY DEF DeleteDirectory
  <2> HIDE DEF a
  <2>4. KinAt(a, t, d)
    BY <2>2, KinNothing
  <2> QED
    BY <1>3, <2>3, <2>4, KinThen
<1> QED
  BY <1>2, <1>5, <1>6

(* An entry renamed within its directory keeps its place.                  *)
Renamed(fs, es, n, m) ==
    /\ DOMAIN fs = DOMAIN es
    /\ \A i \in DOMAIN es : fs[i].name = IF es[i].name = n THEN m ELSE es[i].name

LEMMA RenamedInPlace ==
    ASSUME NEW es \in Seq(Entry), NEW n, NEW e \in Entry, n \in Names(es),
           \A i, j \in 1..Len(es) : es[i].name = es[j].name => i = j
    PROVE  /\ Renamed(ReplaceAt(es, PlaceOf(es, n), e), es, n, e.name)
           /\ ReplaceAt(es, PlaceOf(es, n), e) # <<>>
<1> DEFINE at == PlaceOf(es, n)
           fs == ReplaceAt(es, at, e)
<1>1. Listed(es) /\ Len(es) \in Nat /\ DOMAIN es = 1..Len(es)
  BY ListedIn
<1>2. at \in 1..Len(es) /\ es[at].name = n
  <2>1. /\ at \in 0..Len(es) /\ at > 0 /\ es[at].name = n
    BY <1>1, PlaceFacts
  <2> HIDE DEF at
  <2> QED
    BY <1>1, <2>1
<1> HIDE DEF at
<1>3. /\ DOMAIN fs = 1..Len(es) /\ Len(es) > 0
      /\ \A i \in 1..Len(es) : fs[i] = IF i = at THEN e ELSE es[i]
  BY <1>1, <1>2 DEF ReplaceAt
<1> HIDE DEF fs
<1>4. fs # <<>>
  <2>1. DOMAIN <<>> = {} /\ 1 \in 1..Len(es)
    BY <1>1, <1>3
  <2> QED
    BY <1>3, <2>1
<1>5. Renamed(fs, es, n, e.name)
  <2>1. \A i \in 1..Len(es) : es[i].name = n <=> i = at
    BY <1>2
  <2> QED
    BY <1>1, <1>3, <2>1 DEF Renamed
<1> QED
  BY <1>4, <1>5 DEF fs, at

(* The order of d in what an edit puts, or the one stored where it puts    *)
(* none.                                                                   *)
OrderAfter(e, t, d) ==
    IF IndexPath(d) \in DOMAIN e.upserts THEN e.upserts[IndexPath(d)] ELSE StoredOrder(t, d)

LEMMA StoredAfter ==
    ASSUME NEW e, NEW t, NEW d, HasIndex(t, d), HasIndex(After(e, t), d)
    PROVE  StoredOrder(After(e, t), d) = OrderAfter(e, t, d)
<1> DEFINE q == IndexPath(d)
           u == After(e, t)
<1>1. BlobAt(u, q) = IF q \in DOMAIN e.upserts THEN BlobAt(e.upserts, q)
                     ELSE IF Covered(e, q) THEN <<>> ELSE BlobAt(t, q)
  BY AfterAt
<1>2. q \in DOMAIN u /\ StoredOrder(u, d) = u[q] /\ q \in DOMAIN t /\ StoredOrder(t, d) = t[q]
  BY DEF HasIndex, IsFile, StoredOrder
<1> HIDE DEF u, q
<1>3. u[q] = IF q \in DOMAIN e.upserts THEN e.upserts[q] ELSE t[q]
  BY <1>1, <1>2 DEF BlobAt
<1> QED
  BY <1>2, <1>3 DEF OrderAfter, u, q

LEMMA KinAfter ==
    ASSUME NEW e, NEW t, NEW d, KinAt(e, t, d)
    PROVE  Kin(StoredOrder(t, d), OrderAfter(e, t, d))
<1>1. Kin(StoredOrder(t, d), StoredOrder(t, d))
  BY DEF Kin
<1>2. ASSUME IndexPath(d) \in DOMAIN e.upserts
      PROVE  Kin(StoredOrder(t, d), e.upserts[IndexPath(d)])
  <2>1. BlobAt(e.upserts, IndexPath(d)) = <<e.upserts[IndexPath(d)]>>
    BY <1>2 DEF BlobAt
  <2> QED
    BY <2>1 DEF KinAt
<1> QED
  BY <1>1, <1>2 DEF OrderAfter

LEMMA RenameAfter ==
    ASSUME NEW t, WellTyped(t), NEW d \in Seq(Name), NEW n, NEW e \in Entry, NEW a,
           IndexPath(d) \notin DOMAIN a.upserts,
           \A i, j \in 1..Len(StoredOrder(t, d)) :
              StoredOrder(t, d)[i].name = StoredOrder(t, d)[j].name => i = j
    PROVE  Renamed(OrderAfter(Then(a, EntryRenamed(t, d, n, e)), t, d), StoredOrder(t, d), n, e.name)
<1> DEFINE es == StoredOrder(t, d)
           f == EntryRenamed(t, d, n, e)
           fs == ReplaceAt(es, PlaceOf(es, n), e)
           q == IndexPath(d)
           w == Then(a, f)
<1>1. es \in Seq(Entry)
  BY StoredTyped
<1>2. BlobAt(w.upserts, q) = BlobAt(f.upserts, q)
  <2>1. q \notin DOMAIN a.upserts
    OBVIOUS
  <2> HIDE DEF q, f
  <2> QED
    BY <2>1, ThenPuts
<1>3. OrderAfter(w, t, d) = IF BlobAt(w.upserts, q) = <<>> THEN es ELSE BlobAt(w.upserts, q)[1]
  <2> HIDE DEF w
  <2> QED
    BY DEF OrderAfter, BlobAt
<1>4. f = IF n \notin Names(es) THEN NoEdit ELSE StageIndex(t, d, fs)
  BY DEF EntryRenamed, PlaceOf
<1> HIDE DEF fs
<1>5. CASE n \notin Names(es)
  <2>1. BlobAt(f.upserts, q) = <<>>
    <3> HIDE DEF f, q
    <3> QED
      BY <1>4, <1>5, NoPuts
  <2> HIDE DEF w, f
  <2>2. OrderAfter(w, t, d) = es
    BY <1>2, <1>3, <2>1
  <2>3. \A i \in DOMAIN es : es[i].name # n
    BY <1>5 DEF Names
  <2> HIDE DEF es
  <2> QED
    BY <2>2, <2>3 DEF Renamed, w, f, es
<1>6. CASE n \in Names(es)
  <2>1. Renamed(fs, es, n, e.name) /\ fs # <<>>
    BY <1>1, <1>6, RenamedInPlace DEF fs
  <2>2. BlobAt(f.upserts, q) = <<fs>>
    <3>1. q = IndexPath(d)
      OBVIOUS
    <3> HIDE DEF q, f
    <3>2. BlobAt(StageIndex(t, d, fs).upserts, q) = IF q = IndexPath(d) /\ fs # <<>> THEN <<fs>> ELSE <<>>
      BY StagePuts
    <3> QED
      BY <1>4, <1>6, <2>1, <3>1, <3>2
  <2> HIDE DEF w, f
  <2>3. OrderAfter(w, t, d) = fs
    BY <1>2, <1>3, <2>2
  <2> QED
    BY <2>1, <2>3 DEF w, f
<1> QED
  BY <1>5, <1>6

(* A move puts no index but those of the directories it moves between.     *)
MoveParts(e, t, p, q, b) ==
    \E a : /\ e = Then(a, EntryMoved(t, Parent(p), Leaf(p), Parent(q),
                                     [name |-> Leaf(q), folder |-> b]))
           /\ \A d \in Seq(Name) : HasIndex(t, d) => IndexPath(d) \notin DOMAIN a.upserts

LEMMA MoveFileParts ==
    ASSUME NEW t, NEW p \in Seq(Name), p # Root, NEW q \in Seq(Name), q # Root
    PROVE  MoveParts(MoveFile(t, p, q), t, p, q, FALSE)
<1> DEFINE a == [removed |-> {p}, upserts |-> Only(q, t[p]),
                 disk |-> <<DiskRemove(p), DiskWrite(q, t[p])>>, changes |-> <<Moved(p, q, t[p])>>]
           f == EntryMoved(t, Parent(p), Leaf(p), Parent(q), [name |-> Leaf(q), folder |-> FALSE])
<1>1. MoveFile(t, p, q) = Then(a, f)
  BY DEF MoveFile
<1>2. ~IsIndex(q) /\ \A d \in Seq(Name) : IsIndex(IndexPath(d))
  BY LegalFacts, PathFacts
<1>3. DOMAIN a.upserts = {q}
  BY OnlyDomain
<1>4. \A d \in Seq(Name) : IndexPath(d) \notin DOMAIN a.upserts
  BY <1>2, <1>3
<1> HIDE DEF a
<1> QED
  BY <1>1, <1>4 DEF MoveParts

LEMMA MoveDirectoryParts ==
    ASSUME NEW t, TreeOK(t), NEW d \in Seq(Name), d # Root, NEW q \in Seq(Name), q # Root,
           ~Exists(t, q)
    PROVE  MoveParts(MoveDirectory(t, d, q), t, d, q, TRUE)
<1> DEFINE S == Subtree(t, d)
           at == {Rebased(d, q, p) : p \in S}
           ups == [p \in at |-> t[Rebased(q, d, p)]]
           f == EntryMoved(t, Parent(d), Leaf(d), Parent(q), [name |-> Leaf(q), folder |-> TRUE])
           files == SetToSeq(S)
           a == [removed |-> {d}, upserts |-> ups,
                 disk |-> Append([i \in DOMAIN files |->
                                    DiskWrite(Rebased(d, q, files[i]), t[files[i]])],
                                 DiskRemoveAll(d)),
                 changes |-> [i \in DOMAIN files |->
                                Moved(files[i], Rebased(d, q, files[i]), t[files[i]])]]
<1>1. MoveDirectory(t, d, q) = Then(a, f) /\ a.upserts = ups
  BY DEF MoveDirectory, Rebased
<1>2. ASSUME NEW x \in at PROVE x \notin DOMAIN t
  <2>1. PICK p \in S : x = Rebased(d, q, p)
    OBVIOUS
  <2>2. p \in Legal /\ IsStrictPrefix(d, p)
    BY DEF Subtree, TreeOK
  <2>3. IsStrictPrefix(q, x)
    BY <2>1, <2>2, RebasedFacts
  <2> QED
    BY <2>3 DEF Exists, IsFolder
<1>3. \A c \in Seq(Name) : HasIndex(t, c) => IndexPath(c) \notin DOMAIN a.upserts
  BY <1>1, <1>2 DEF HasIndex, IsFile
<1> HIDE DEF a
<1> QED
  BY <1>1, <1>3 DEF MoveParts

LEMMA MoveKin ==
    ASSUME NEW t, NEW d \in Seq(Name), HasIndex(t, d), NEW p \in Seq(Name), p # Root,
           NEW q \in Seq(Name), q # Root, Parent(p) # Parent(q) \/ d # Parent(p),
           NEW b \in BOOLEAN, NEW e, MoveParts(e, t, p, q, b)
    PROVE  KinAt(e, t, d)
<1>1. PICK a : /\ e = Then(a, EntryMoved(t, Parent(p), Leaf(p), Parent(q),
                                         [name |-> Leaf(q), folder |-> b]))
               /\ IndexPath(d) \notin DOMAIN a.upserts
  BY DEF MoveParts
<1>2. KinAt(a, t, d)
  <2>1. BlobAt(a.upserts, IndexPath(d)) = <<>>
    BY <1>1 DEF BlobAt
  <2> QED
    BY <2>1, KinNothing
<1>3. [name |-> Leaf(q), folder |-> b] \in Entry /\ Parent(p) \in Seq(Name) /\ Parent(q) \in Seq(Name)
  BY LeafName, PathFacts
<1>4. KinAt(EntryMoved(t, Parent(p), Leaf(p), Parent(q), [name |-> Leaf(q), folder |-> b]), t, d)
  BY <1>3, KinMoved
<1> QED
  BY <1>1, <1>2, <1>4, KinThen

LEMMA MoveRenames ==
    ASSUME NEW t, WellTyped(t), NEW p \in Seq(Name), p # Root, HasIndex(t, Parent(p)),
           NEW q \in Seq(Name), q # Root, Parent(p) = Parent(q),
           NEW b \in BOOLEAN, NEW e, MoveParts(e, t, p, q, b),
           \A i, j \in 1..Len(StoredOrder(t, Parent(p))) :
              StoredOrder(t, Parent(p))[i].name = StoredOrder(t, Parent(p))[j].name => i = j
    PROVE  Renamed(OrderAfter(e, t, Parent(p)), StoredOrder(t, Parent(p)), Leaf(p), Leaf(q))
<1> DEFINE x == [name |-> Leaf(q), folder |-> b]
           d == Parent(p)
<1>1. x \in Entry /\ d \in Seq(Name) /\ x.name = Leaf(q)
  BY LeafName, PathFacts
<1>2. PICK a : /\ e = Then(a, EntryMoved(t, d, Leaf(p), Parent(q), x))
               /\ IndexPath(d) \notin DOMAIN a.upserts
  BY <1>1 DEF MoveParts
<1>3. EntryMoved(t, d, Leaf(p), Parent(q), x) = EntryRenamed(t, d, Leaf(p), x)
  BY DEF EntryMoved
<1>4. e = Then(a, EntryRenamed(t, d, Leaf(p), x)) /\ HasIndex(t, d)
      /\ \A i, j \in 1..Len(StoredOrder(t, d)) :
            StoredOrder(t, d)[i].name = StoredOrder(t, d)[j].name => i = j
  BY <1>2, <1>3
<1> HIDE DEF x, d
<1>5. Renamed(OrderAfter(Then(a, EntryRenamed(t, d, Leaf(p), x)), t, d),
              StoredOrder(t, d), Leaf(p), x.name)
  BY <1>1, <1>2, <1>4, RenameAfter
<1> QED
  BY <1>1, <1>4, <1>5 DEF d
=============================================================================
