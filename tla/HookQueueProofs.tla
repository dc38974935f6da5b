--------------------------- MODULE HookQueueProofs ---------------------------
(***************************************************************************)
(* What the receiver of a tenant's hooks holds, for every tree, path and   *)
(* content.  The invariant is about every moment, not only the drained     *)
(* ones: the last of the jobs that are not over to speak of a file or an   *)
(* order says what HEAD has for it, and what HEAD has and nobody is to     *)
(* speak of the receiver holds.  A replay that mends promises this of what *)
(* it was given to read, whatever is written meanwhile.                    *)
(***************************************************************************)
EXTENDS HookQueue, ContentTreeProofs

-----------------------------------------------------------------------------
(* Jobs *)

IsJob(j) ==
    /\ j = [kind |-> j.kind, events |-> j.events, paths |-> j.paths, dirs |-> j.dirs,
            mends |-> j.mends, since |-> j.since]
    /\ j.kind \in {"commit", "create", "delete"}
    /\ Listed(j.events) /\ \A e \in Range(j.events) : IsEvent(e)
    /\ Listed(j.paths) /\ Range(j.paths) \subseteq FilePath
    /\ Listed(j.dirs) /\ Range(j.dirs) \subseteq Path
    /\ "missing" \in j.mends => j.kind = "create"

(* What a job will still say whatever is written meanwhile: its events,    *)
(* and the deletions a replay has yet to read.  What it has yet to read.   *)
ToDelete(j, k) == j.kind = "delete" /\ k[1] = "file" /\ k[2] \in Range(j.paths)
Unsent(j, k) == Mentions(j.events, k) \/ ToDelete(j, k)
EndsWith(j, k, v) == IF ToDelete(j, k) THEN v = <<>> ELSE LastSays(j.events, k, v)
Unread(j, k) ==
    \/ k[1] = "file" /\ k[2] \in Range(j.paths)
    \/ k[1] = "order" /\ k[2] \in Range(j.dirs)

UnsentFrom(jobs, i, k) == \E l \in 1..Len(jobs) : l >= i /\ Unsent(jobs[l], k)

(* The last job that speaks of a key says what the tree has for it.        *)
LastJobIsRight(jobs, t) ==
    \A k \in Key : \A i \in 1..Len(jobs) :
        Unsent(jobs[i], k) /\ ~UnsentFrom(jobs, i + 1, k) => EndsWith(jobs[i], k, Carried(t, k))

NothingMissing(jobs, t, held) ==
    \A k \in Key : Carried(t, k) # <<>>
                   => UnsentFrom(jobs, 1, k) \/ Held(held, k) = Carried(t, k)

NothingExtra(jobs, t, held) ==
    \A p \in DOMAIN held.files : p \in DOMAIN t \/ UnsentFrom(jobs, 1, <<"file", p>>)

(* A replay that mends: what it has not told yet it has still to read, or  *)
(* somebody tells it later.                                                *)
WillMend(jobs, t, held, busy, l) ==
    \A i \in 1..Len(jobs) :
        "missing" \in jobs[i].mends /\ jobs[i].since = l =>
            \A k \in Key : Carried(t, k) # <<>> =>
                \/ Unread(jobs[i], k) \/ UnsentFrom(jobs, i, k)
                \/ i = 1 /\ busy /\ Held(held, k) = Carried(t, k)

Mending(jobs, l) == \E i \in 1..Len(jobs) : "extra" \in jobs[i].mends /\ jobs[i].since = l

(* What the jobs will make of the receiver: held is what it holds, busy    *)
(* whether the first is being told, l the losses so far.                   *)
Telling(jobs, t, held, off, busy, l) ==
    /\ LastJobIsRight(jobs, t)
    /\ "missing" \notin off => NothingMissing(jobs, t, held)
    /\ "extra" \notin off \/ Mending(jobs, l) => NothingExtra(jobs, t, held)
    /\ WillMend(jobs, t, held, busy, l)

-----------------------------------------------------------------------------
(* What each kind of step does to the jobs. *)

LEMMA LaterJobs ==
    ASSUME NEW jobs, Len(jobs) \in Nat, NEW next, Len(next) = Len(jobs),
           \A i \in 2..Len(jobs) : next[i] = jobs[i]
    PROVE  \A i \in 2..(Len(jobs) + 1) :
               \A k : UnsentFrom(jobs, i, k) <=> UnsentFrom(next, i, k)
<1> DEFINE N == Len(jobs)
<1>1. \A i \in 2..(N + 1) : \A k : UnsentFrom(jobs, i, k) <=> UnsentFrom(next, i, k)
  <2> SUFFICES ASSUME NEW i \in 2..(N + 1), NEW k
               PROVE  UnsentFrom(jobs, i, k) <=> UnsentFrom(next, i, k)
    OBVIOUS
  <2>1. \A m \in 1..N : m >= i => m \in 2..N
    OBVIOUS
  <2>2. \A m \in 1..N : m >= i => next[m] = jobs[m]
    BY <2>1
  <2> QED
    BY <2>2 DEF UnsentFrom
<1> QED
  BY <1>1

LEMMA JobAppended ==
    ASSUME NEW jobs, Len(jobs) \in Nat, NEW more, Len(more) = Len(jobs) + 1,
           \A i \in 1..Len(jobs) : more[i] = jobs[i],
           NEW t, NEW u, NEW held, NEW off, NEW busy \in BOOLEAN, NEW l,
           \A p \in DOMAIN held.files : <<"file", p>> \in Key,
           Telling(jobs, t, held, off, busy, l),
           \A k \in Key :
               LET j == more[Len(more)]
               IN /\ ~Unsent(j, k) => Carried(u, k) = Carried(t, k)
                  /\ Unsent(j, k) => EndsWith(j, k, Carried(u, k))
                  /\ "missing" \in j.mends /\ Carried(u, k) # <<>> => Unread(j, k),
           LET j == more[Len(more)]
           IN "extra" \in j.mends =>
                  \A p \in DOMAIN held.files : p \in DOMAIN u \/ Unsent(j, <<"file", p>>)
    PROVE  Telling(more, u, held, off, busy, l)
<1> DEFINE N == Len(jobs)
           j == more[N + 1]
<1>n. N \in Nat /\ Len(more) = N + 1
  OBVIOUS
<1>j. /\ \A k \in Key :
            /\ ~Unsent(j, k) => Carried(u, k) = Carried(t, k)
            /\ Unsent(j, k) => EndsWith(j, k, Carried(u, k))
            /\ "missing" \in j.mends /\ Carried(u, k) # <<>> => Unread(j, k)
      /\ "extra" \in j.mends =>
            \A p \in DOMAIN held.files : p \in DOMAIN u \/ Unsent(j, <<"file", p>>)
      /\ \A i \in 1..N : more[i] = jobs[i]
  OBVIOUS
<1> HIDE DEF j
<1>1. ASSUME NEW i \in 1..(N + 1), NEW k
      PROVE  UnsentFrom(more, i, k) <=> UnsentFrom(jobs, i, k) \/ Unsent(j, k)
  <2>1. more[N + 1] = j
    BY DEF j
  <2> QED
    BY <1>n, <1>j, <2>1 DEF UnsentFrom
<1>2. LastJobIsRight(more, u)
  <2> SUFFICES ASSUME NEW k \in Key, NEW i \in 1..(N + 1),
                      Unsent(more[i], k), ~UnsentFrom(more, i + 1, k)
               PROVE  EndsWith(more[i], k, Carried(u, k))
    BY <1>n DEF LastJobIsRight
  <2>1. CASE i = N + 1
    BY <2>1, <1>j DEF j
  <2>2. CASE i \in 1..N
    <3>1. i + 1 \in 1..(N + 1) /\ ~UnsentFrom(jobs, i + 1, k) /\ ~Unsent(j, k)
      BY <1>1, <1>n, <2>2
    <3> QED
      BY <3>1, <2>2, <1>j DEF Telling, LastJobIsRight
  <2> QED
    BY <2>1, <2>2, <1>n
<1>3. ASSUME NothingMissing(jobs, t, held) PROVE NothingMissing(more, u, held)
  BY <1>1, <1>3, <1>j, <1>n DEF NothingMissing
<1>4. ASSUME NothingExtra(jobs, t, held) PROVE NothingExtra(more, u, held)
  <2> SUFFICES ASSUME NEW p \in DOMAIN held.files, p \notin DOMAIN u
               PROVE  UnsentFrom(more, 1, <<"file", p>>)
    BY DEF NothingExtra
  <2>1. CASE p \notin DOMAIN t
    BY <2>1, <1>4, <1>1, <1>n DEF NothingExtra
  <2>2. CASE p \in DOMAIN t
    <3>1. Carried(u, <<"file", p>>) # Carried(t, <<"file", p>>)
      BY <2>2 DEF Carried, PathKey, BlobAt
    <3> QED
      BY <3>1, <1>j, <1>1, <1>n
  <2> QED
    BY <2>1, <2>2
<1>5. ASSUME "extra" \notin off \/ Mending(more, l) PROVE NothingExtra(more, u, held)
  <2>1. CASE "extra" \notin off \/ Mending(jobs, l)
    BY <2>1, <1>4 DEF Telling
  <2>2. CASE ~Mending(jobs, l) /\ Mending(more, l)
    <3>1. "extra" \in j.mends
      BY <2>2, <1>n, <1>j DEF Mending, j
    <3>2. \A k : Unsent(j, k) => UnsentFrom(more, 1, k)
      BY <1>1, <1>n
    <3> QED
      BY <3>1, <3>2, <1>j DEF NothingExtra
  <2> QED
    BY <2>1, <2>2, <1>5
<1>6. WillMend(more, u, held, busy, l)
  <2> SUFFICES ASSUME NEW i \in 1..(N + 1), "missing" \in more[i].mends, more[i].since = l,
                      NEW k \in Key, Carried(u, k) # <<>>
               PROVE  \/ Unread(more[i], k) \/ UnsentFrom(more, i, k)
                      \/ i = 1 /\ busy /\ Held(held, k) = Carried(u, k)
    BY <1>n DEF WillMend
  <2>1. CASE i = N + 1
    BY <2>1, <1>j DEF j
  <2>2. CASE i \in 1..N /\ ~Unsent(j, k)
    <3>1. Carried(t, k) = Carried(u, k) /\ more[i] = jobs[i]
      BY <2>2, <1>j
    <3>2. \/ Unread(jobs[i], k) \/ UnsentFrom(jobs, i, k)
          \/ i = 1 /\ busy /\ Held(held, k) = Carried(t, k)
      BY <3>1, <2>2 DEF Telling, WillMend
    <3> QED
      BY <3>1, <3>2, <1>1
  <2>3. CASE Unsent(j, k)
    BY <2>3, <1>1
  <2> QED
    BY <2>1, <2>2, <2>3, <1>n
<1> QED
  BY <1>2, <1>3, <1>5, <1>6 DEF Telling

(* The first job goes on: what it had to say it has still to say or has    *)
(* read from the tree.                                                     *)
LEMMA JobRead ==
    ASSUME NEW jobs, Len(jobs) \in Nat, Len(jobs) > 0, NEW next, Len(next) = Len(jobs),
           \A i \in 2..Len(jobs) : next[i] = jobs[i],
           NEW t, NEW held, NEW off, NEW l,
           \A p \in DOMAIN held.files : <<"file", p>> \in Key,
           Telling(jobs, t, held, off, TRUE, l),
           next[1].mends = jobs[1].mends, next[1].since = jobs[1].since,
           \A k \in Key :
               /\ Unsent(jobs[1], k) => Unsent(next[1], k)
               /\ /\ Unsent(next[1], k)
                  /\ Unsent(jobs[1], k) => EndsWith(jobs[1], k, Carried(t, k))
                  => EndsWith(next[1], k, Carried(t, k))
               /\ Unread(jobs[1], k) /\ Carried(t, k) # <<>>
                  => Unread(next[1], k) \/ Unsent(next[1], k)
    PROVE  Telling(next, t, held, off, TRUE, l)
<1> DEFINE N == Len(jobs)
<1>n. N \in Nat /\ N > 0 /\ Len(next) = N
  OBVIOUS
<1>1. \A k \in Key : UnsentFrom(jobs, 1, k) => UnsentFrom(next, 1, k)
  <2> SUFFICES ASSUME NEW k \in Key, NEW m \in 1..N, Unsent(jobs[m], k)
               PROVE  \E n \in 1..N : n >= 1 /\ Unsent(next[n], k)
    BY <1>n DEF UnsentFrom
  <2>1. m = 1 \/ m \in 2..N
    BY <1>n
  <2>2. Unsent(next[m], k)
    BY <2>1
  <2> QED
    BY <2>2
<1>2. \A i \in 2..(N + 1) : \A k : UnsentFrom(jobs, i, k) <=> UnsentFrom(next, i, k)
  BY LaterJobs
<1>3. LastJobIsRight(next, t)
  <2> SUFFICES ASSUME NEW k \in Key, NEW i \in 1..N,
                      Unsent(next[i], k), ~UnsentFrom(next, i + 1, k)
               PROVE  EndsWith(next[i], k, Carried(t, k))
    BY <1>n DEF LastJobIsRight
  <2>1. ~UnsentFrom(jobs, i + 1, k)
    BY <1>2, <1>n
  <2>2. Unsent(jobs[i], k) => EndsWith(jobs[i], k, Carried(t, k))
    BY <2>1 DEF Telling, LastJobIsRight
  <2>3. i = 1 \/ i \in 2..N
    BY <1>n
  <2> QED
    BY <2>2, <2>3
<1>4. "missing" \notin off => NothingMissing(next, t, held)
  BY <1>1 DEF Telling, NothingMissing
<1>5. Mending(next, l) => Mending(jobs, l)
  <2> SUFFICES ASSUME NEW i \in 1..N, "extra" \in next[i].mends, next[i].since = l
               PROVE  "extra" \in jobs[i].mends /\ jobs[i].since = l
    BY <1>n DEF Mending
  <2>1. i = 1 \/ i \in 2..N
    BY <1>n
  <2> QED
    BY <2>1
<1>6. "extra" \notin off \/ Mending(next, l) => NothingExtra(next, t, held)
  BY <1>1, <1>5 DEF Telling, NothingExtra
<1>7. WillMend(next, t, held, TRUE, l)
  <2> SUFFICES ASSUME NEW i \in 1..N, "missing" \in next[i].mends, next[i].since = l,
                      NEW k \in Key, Carried(t, k) # <<>>
               PROVE  \/ Unread(next[i], k) \/ UnsentFrom(next, i, k)
                      \/ i = 1 /\ TRUE /\ Held(held, k) = Carried(t, k)
    BY <1>n DEF WillMend
  <2>1. CASE i \in 2..N
    <3>1. next[i] = jobs[i] /\ i # 1 /\ i \in 2..(N + 1)
      BY <2>1, <1>n
    <3>2. Unread(jobs[i], k) \/ UnsentFrom(jobs, i, k)
      BY <3>1 DEF Telling, WillMend
    <3> QED
      BY <3>1, <3>2, <1>2
  <2>2. CASE i = 1
    <3>1. Unread(jobs[1], k) \/ UnsentFrom(jobs, 1, k) \/ Held(held, k) = Carried(t, k)
      BY <2>2, <1>n DEF Telling, WillMend
    <3>2. Unsent(next[1], k) => UnsentFrom(next, 1, k)
      BY <1>n DEF UnsentFrom
    <3> QED
      BY <3>1, <3>2, <2>2, <1>1
  <2> QED
    BY <2>1, <2>2, <1>n
<1> QED
  BY <1>3, <1>4, <1>6, <1>7 DEF Telling

(* The first job posts its first event: the receiver has it.               *)
LEMMA JobPosted ==
    ASSUME NEW jobs, Len(jobs) \in Nat, Len(jobs) > 0, NEW next, Len(next) = Len(jobs),
           \A i \in 2..Len(jobs) : next[i] = jobs[i],
           NEW t, NEW held, NEW now, NEW off, NEW l,
           \A p \in DOMAIN held.files \cup DOMAIN now.files : <<"file", p>> \in Key,
           Telling(jobs, t, held, off, TRUE, l),
           next[1].mends = jobs[1].mends, next[1].since = jobs[1].since,
           \A k \in Key :
               /\ Unsent(next[1], k) => Unsent(jobs[1], k)
               /\ Unread(next[1], k) <=> Unread(jobs[1], k)
               /\ Unsent(next[1], k) /\ EndsWith(jobs[1], k, Carried(t, k))
                  => EndsWith(next[1], k, Carried(t, k))
               /\ ~Unsent(next[1], k) /\ Unsent(jobs[1], k) /\ EndsWith(jobs[1], k, Carried(t, k))
                  => Held(now, k) = Carried(t, k)
               /\ ~Unsent(jobs[1], k) => Held(now, k) = Held(held, k)
    PROVE  Telling(next, t, now, off, TRUE, l)
<1> DEFINE N == Len(jobs)
<1>n. N \in Nat /\ N > 0 /\ Len(next) = N
  OBVIOUS
<1>2. \A i \in 2..(N + 1) : \A k : UnsentFrom(jobs, i, k) <=> UnsentFrom(next, i, k)
  BY LaterJobs
<1>1. ASSUME NEW k \in Key
      PROVE  /\ UnsentFrom(jobs, 1, k) <=> Unsent(jobs[1], k) \/ UnsentFrom(next, 2, k)
             /\ UnsentFrom(next, 1, k) <=> Unsent(next[1], k) \/ UnsentFrom(next, 2, k)
  <2>1. \A m \in 1..N : m >= 1 <=> m = 1 \/ m >= 2
    BY <1>n
  <2>2. 1 \in 1..N /\ ~(1 >= 2) /\ 2 \in 2..(N + 1)
    BY <1>n
  <2>3. UnsentFrom(jobs, 1, k) <=> Unsent(jobs[1], k) \/ UnsentFrom(jobs, 2, k)
    BY <2>1, <2>2 DEF UnsentFrom
  <2>4. UnsentFrom(next, 1, k) <=> Unsent(next[1], k) \/ UnsentFrom(next, 2, k)
    BY <2>1, <2>2, <1>n DEF UnsentFrom
  <2> QED
    BY <2>2, <2>3, <2>4, <1>2
<1>3. LastJobIsRight(next, t)
  <2> SUFFICES ASSUME NEW k \in Key, NEW i \in 1..N,
                      Unsent(next[i], k), ~UnsentFrom(next, i + 1, k)
               PROVE  EndsWith(next[i], k, Carried(t, k))
    BY <1>n DEF LastJobIsRight
  <2>1. ~UnsentFrom(jobs, i + 1, k)
    BY <1>2, <1>n
  <2>2. Unsent(jobs[i], k) => EndsWith(jobs[i], k, Carried(t, k))
    BY <2>1 DEF Telling, LastJobIsRight
  <2>3. i = 1 \/ i \in 2..N
    BY <1>n
  <2> QED
    BY <2>2, <2>3
(* A key nobody has still to speak of: the receiver knows.                 *)
<1>4. ASSUME NEW k \in Key, ~UnsentFrom(next, 1, k),
             UnsentFrom(jobs, 1, k) \/ Held(held, k) = Carried(t, k)
      PROVE  Held(now, k) = Carried(t, k)
  <2>1. ~Unsent(next[1], k) /\ ~UnsentFrom(jobs, 2, k) /\ 1 \in 1..N /\ 1 + 1 = 2
    BY <1>1, <1>2, <1>4, <1>n
  <2>2. Unsent(jobs[1], k) => EndsWith(jobs[1], k, Carried(t, k))
    BY <2>1 DEF Telling, LastJobIsRight
  <2>3. Unsent(jobs[1], k) \/ Held(held, k) = Carried(t, k)
    BY <1>1, <1>4
  <2> QED
    BY <2>1, <2>2, <2>3
<1>5. "missing" \notin off => NothingMissing(next, t, now)
  BY <1>4 DEF Telling, NothingMissing
<1>6. Mending(next, l) => Mending(jobs, l)
  <2> SUFFICES ASSUME NEW i \in 1..N, "extra" \in next[i].mends, next[i].since = l
               PROVE  "extra" \in jobs[i].mends /\ jobs[i].since = l
    BY <1>n DEF Mending
  <2>1. i = 1 \/ i \in 2..N
    BY <1>n
  <2> QED
    BY <2>1
<1>7. ASSUME NothingExtra(jobs, t, held) PROVE NothingExtra(next, t, now)
  <2> SUFFICES ASSUME NEW p \in DOMAIN now.files, p \notin DOMAIN t,
                      ~UnsentFrom(next, 1, <<"file", p>>)
               PROVE  FALSE
    BY DEF NothingExtra
  <2> DEFINE k == <<"file", p>>
  <2>1. k \in Key /\ Held(now, k) # <<>> /\ Carried(t, k) = <<>>
    BY DEF Held, Carried, PathKey, BlobAt
  <2>2. UnsentFrom(jobs, 1, k) \/ Held(held, k) = <<>>
    BY <1>7 DEF NothingExtra, Held, BlobAt
  <2> QED
    BY <2>1, <2>2, <1>4
<1>8. WillMend(next, t, now, TRUE, l)
  <2> SUFFICES ASSUME NEW i \in 1..N, "missing" \in next[i].mends, next[i].since = l,
                      NEW k \in Key, Carried(t, k) # <<>>
               PROVE  \/ Unread(next[i], k) \/ UnsentFrom(next, i, k)
                      \/ i = 1 /\ TRUE /\ Held(now, k) = Carried(t, k)
    BY <1>n DEF WillMend
  <2>1. CASE i \in 2..N
    <3>1. next[i] = jobs[i] /\ i # 1 /\ i \in 2..(N + 1)
      BY <2>1, <1>n
    <3>2. Unread(jobs[i], k) \/ UnsentFrom(jobs, i, k)
      BY <3>1 DEF Telling, WillMend
    <3> QED
      BY <3>1, <3>2, <1>2
  <2>2. CASE i = 1
    <3>1. Unread(jobs[1], k) \/ UnsentFrom(jobs, 1, k) \/ Held(held, k) = Carried(t, k)
      BY <2>2, <1>n DEF Telling, WillMend
    <3> QED
      BY <3>1, <2>2, <1>4
  <2> QED
    BY <2>1, <2>2, <1>n
<1> QED
  BY <1>3, <1>5, <1>6, <1>7, <1>8 DEF Telling

(* The first job is over: what it was to mend is mended.                   *)
LEMMA JobEnded ==
    ASSUME NEW jobs, Len(jobs) \in Nat, Len(jobs) > 0, NEW rest, Len(rest) = Len(jobs) - 1,
           \A i \in 1..Len(rest) : rest[i] = jobs[i + 1],
           NEW t, NEW held, NEW off, NEW l,
           Telling(jobs, t, held, off, TRUE, l),
           \A p \in DOMAIN held.files : <<"file", p>> \in Key,
           \A k \in Key : ~Unsent(jobs[1], k) /\ ~Unread(jobs[1], k)
    PROVE  Telling(rest, t, held,
                   IF jobs[1].since = l THEN off \ jobs[1].mends ELSE off, FALSE, l)
<1> DEFINE N == Len(jobs)
           less == IF jobs[1].since = l THEN off \ jobs[1].mends ELSE off
<1>n. N \in Nat /\ N > 0 /\ Len(rest) = N - 1
  OBVIOUS
<1>1. ASSUME NEW i \in 1..N, NEW k
      PROVE  UnsentFrom(rest, i, k) <=> UnsentFrom(jobs, i + 1, k)
  <2>1. ASSUME UnsentFrom(rest, i, k) PROVE UnsentFrom(jobs, i + 1, k)
    <3>1. PICK m \in 1..(N - 1) : m >= i /\ Unsent(rest[m], k)
      BY <2>1, <1>n DEF UnsentFrom
    <3>2. m + 1 \in 1..N /\ m + 1 >= i + 1 /\ rest[m] = jobs[m + 1]
      BY <3>1, <1>n
    <3> QED
      BY <3>1, <3>2 DEF UnsentFrom
  <2>2. ASSUME UnsentFrom(jobs, i + 1, k) PROVE UnsentFrom(rest, i, k)
    <3>1. PICK m \in 1..N : m >= i + 1 /\ Unsent(jobs[m], k)
      BY <2>2 DEF UnsentFrom
    <3>2. PICK n \in 1..(N - 1) : m = n + 1
      BY <3>1, <1>n
    <3>3. n >= i /\ rest[n] = jobs[m]
      BY <3>1, <3>2, <1>n
    <3> QED
      BY <3>1, <3>2, <3>3, <1>n DEF UnsentFrom
  <2> QED
    BY <2>1, <2>2
<1>2. \A k \in Key : UnsentFrom(jobs, 1, k) => UnsentFrom(rest, 1, k)
  <2> SUFFICES ASSUME NEW k \in Key, NEW m \in 1..N, Unsent(jobs[m], k)
               PROVE  UnsentFrom(rest, 1, k)
    BY DEF UnsentFrom
  <2>1. m >= 1 + 1
    BY <1>n
  <2>2. UnsentFrom(jobs, 1 + 1, k)
    BY <2>1 DEF UnsentFrom
  <2> QED
    BY <2>2, <1>1, <1>n
<1>3. LastJobIsRight(rest, t)
  <2> SUFFICES ASSUME NEW k \in Key, NEW i \in 1..(N - 1),
                      Unsent(rest[i], k), ~UnsentFrom(rest, i + 1, k)
               PROVE  EndsWith(rest[i], k, Carried(t, k))
    BY <1>n DEF LastJobIsRight
  <2>1. i + 1 \in 1..N /\ rest[i] = jobs[i + 1] /\ ~UnsentFrom(jobs, (i + 1) + 1, k)
    BY <1>1, <1>n
  <2> QED
    BY <2>1 DEF Telling, LastJobIsRight
<1>4. ASSUME "missing" \notin less PROVE NothingMissing(rest, t, held)
  <2>1. CASE "missing" \notin off
    BY <2>1, <1>2 DEF Telling, NothingMissing
  <2>2. CASE "missing" \in jobs[1].mends /\ jobs[1].since = l
    <3> SUFFICES ASSUME NEW k \in Key, Carried(t, k) # <<>>
                 PROVE  UnsentFrom(rest, 1, k) \/ Held(held, k) = Carried(t, k)
      BY DEF NothingMissing
    <3>1. UnsentFrom(jobs, 1, k) \/ Held(held, k) = Carried(t, k)
      BY <2>2, <1>n DEF Telling, WillMend
    <3> QED
      BY <3>1, <1>2
  <2> QED
    BY <1>4, <2>1, <2>2
<1>5. ASSUME Mending(rest, l) PROVE Mending(jobs, l)
  <2>1. PICK i \in 1..(N - 1) : "extra" \in rest[i].mends /\ rest[i].since = l
    BY <1>5, <1>n DEF Mending
  <2>2. i + 1 \in 1..N /\ rest[i] = jobs[i + 1]
    BY <1>n
  <2> QED
    BY <2>1, <2>2 DEF Mending
<1>6. ASSUME NothingExtra(jobs, t, held) PROVE NothingExtra(rest, t, held)
  BY <1>2, <1>6 DEF NothingExtra
<1>7. ASSUME "extra" \notin less \/ Mending(rest, l) PROVE NothingExtra(rest, t, held)
  <2>1. CASE "extra" \notin off \/ Mending(jobs, l)
    BY <2>1, <1>6 DEF Telling
  <2>2. CASE "extra" \in off /\ ~Mending(jobs, l)
    <3>1. "extra" \in jobs[1].mends /\ jobs[1].since = l
      BY <2>2, <1>5, <1>7
    <3> QED
      BY <2>2, <3>1, <1>n DEF Mending
  <2> QED
    BY <2>1, <2>2
<1>8. WillMend(rest, t, held, FALSE, l)
  <2> SUFFICES ASSUME NEW i \in 1..(N - 1), "missing" \in rest[i].mends, rest[i].since = l,
                      NEW k \in Key, Carried(t, k) # <<>>
               PROVE  Unread(rest[i], k) \/ UnsentFrom(rest, i, k)
    BY <1>n DEF WillMend
  <2>1. i + 1 \in 1..N /\ rest[i] = jobs[i + 1] /\ i + 1 # 1 /\ i \in 1..N
    BY <1>n
  <2>2. Unread(jobs[i + 1], k) \/ UnsentFrom(jobs, i + 1, k)
    BY <2>1 DEF Telling, WillMend
  <2> QED
    BY <2>1, <2>2, <1>1
<1> HIDE DEF less
<1>9. Telling(rest, t, held, less, FALSE, l)
  BY <1>3, <1>4, <1>7, <1>8 DEF Telling
<1> QED
  BY <1>9 DEF less

(* After a loss nothing is promised but that the last word is right.       *)
LEMMA NothingPromised ==
    ASSUME NEW jobs, Len(jobs) \in Nat, NEW t, NEW held, NEW busy \in BOOLEAN, NEW l \in Nat,
           \A i \in 1..Len(jobs) : jobs[i].since \in 0..l,
           LastJobIsRight(jobs, t)
    PROVE  Telling(jobs, t, held, {"missing", "extra"}, busy, l + 1)
<1>1. \A i \in 1..Len(jobs) : jobs[i].since # l + 1
  OBVIOUS
<1> QED
  BY <1>1 DEF Telling, Mending, WillMend

(* What is left of the first job, or of the jobs without it, has the same  *)
(* last words.                                                             *)
LEMMA LastWordsStay ==
    ASSUME NEW jobs, Len(jobs) \in Nat, Len(jobs) > 0, NEW next, Len(next) = Len(jobs),
           \A i \in 2..Len(jobs) : next[i] = jobs[i],
           NEW t, LastJobIsRight(jobs, t),
           \A k \in Key :
               /\ Unsent(next[1], k) => Unsent(jobs[1], k)
               /\ Unsent(next[1], k) /\ EndsWith(jobs[1], k, Carried(t, k))
                  => EndsWith(next[1], k, Carried(t, k))
    PROVE  LastJobIsRight(next, t)
<1> DEFINE N == Len(jobs)
<1>n. N \in Nat /\ N > 0 /\ Len(next) = N
  OBVIOUS
<1>2. \A i \in 2..(N + 1) : \A k : UnsentFrom(jobs, i, k) <=> UnsentFrom(next, i, k)
  BY LaterJobs
<1> SUFFICES ASSUME NEW k \in Key, NEW i \in 1..N,
                    Unsent(next[i], k), ~UnsentFrom(next, i + 1, k)
             PROVE  EndsWith(next[i], k, Carried(t, k))
  BY <1>n DEF LastJobIsRight
<1>3. ~UnsentFrom(jobs, i + 1, k)
  BY <1>2, <1>n
<1>4. Unsent(jobs[i], k) => EndsWith(jobs[i], k, Carried(t, k))
  BY <1>3 DEF LastJobIsRight
<1>5. i = 1 \/ i \in 2..N
  BY <1>n
<1> QED
  BY <1>4, <1>5

LEMMA LastWordsOfRest ==
    ASSUME NEW jobs, Len(jobs) \in Nat, Len(jobs) > 0, NEW rest, Len(rest) = Len(jobs) - 1,
           \A i \in 1..Len(rest) : rest[i] = jobs[i + 1],
           NEW t, LastJobIsRight(jobs, t)
    PROVE  LastJobIsRight(rest, t)
<1> DEFINE N == Len(jobs)
<1>n. N \in Nat /\ N > 0 /\ Len(rest) = N - 1
  OBVIOUS
<1> SUFFICES ASSUME NEW k \in Key, NEW i \in 1..(N - 1),
                    Unsent(rest[i], k), ~UnsentFrom(rest, i + 1, k)
             PROVE  EndsWith(rest[i], k, Carried(t, k))
  BY <1>n DEF LastJobIsRight
<1>1. ~UnsentFrom(jobs, (i + 1) + 1, k)
  <2> SUFFICES ASSUME NEW m \in 1..N, m >= (i + 1) + 1, Unsent(jobs[m], k)
               PROVE  FALSE
    BY DEF UnsentFrom
  <2>1. PICK n \in 1..(N - 1) : m = n + 1
    BY <1>n
  <2>2. n >= i + 1 /\ rest[n] = jobs[m]
    BY <2>1, <1>n
  <2> QED
    BY <2>1, <2>2, <1>n DEF UnsentFrom
<1>2. i + 1 \in 1..N /\ rest[i] = jobs[i + 1]
  BY <1>n
<1> QED
  BY <1>1, <1>2 DEF LastJobIsRight

-----------------------------------------------------------------------------
(* The jobs that are not over: the one being delivered, then the queue.    *)
Jobs(w, q) == IF w = NoJob THEN q ELSE <<w>> \o q

QueueTyped ==
    /\ TreeOK(tree) /\ IsTable(table)
    /\ Listed(queue) /\ \A j \in Range(queue) : IsJob(j) /\ j.since \in 0..losses
    /\ work # NoJob => IsJob(work) /\ work.since \in 0..losses
    /\ \A j \in Range(queue) : j.kind = "commit" <=> j.events # <<>>
    /\ attempt \in 0..(Attempts - 1)
    /\ attempt > 0 => Sending
    /\ drift \subseteq {"missing", "extra"}
    /\ commits \in 0..MaxCommits /\ replays \in 0..MaxReplays /\ losses \in 0..MaxLosses

QueueInv ==
    /\ QueueTyped
    /\ Telling(Jobs(work, queue), tree, table, drift, work # NoJob, losses)

LEMMA IsJobNot == ASSUME NEW j, IsJob(j) PROVE j # NoJob
  BY DEF IsJob, NoJob

LEMMA JobsFacts ==
    ASSUME NEW w, NEW q, Listed(q)
    PROVE  /\ Len(Jobs(w, q)) \in Nat /\ Len(q) \in Nat
           /\ w = NoJob => Jobs(w, q) = q
           /\ w # NoJob => /\ Len(Jobs(w, q)) = Len(q) + 1 /\ Jobs(w, q)[1] = w
                           /\ \A i \in 1..Len(q) : Jobs(w, q)[i + 1] = q[i]
                           /\ \A i \in 2..(Len(q) + 1) : Jobs(w, q)[i] = q[i - 1]
<1>q. Len(q) \in Nat /\ (\A i \in 1..Len(q) : q[i] \in Range(q)) /\ q \in Seq(Range(q))
  BY ListedFacts DEF Listed
<1>1. CASE w = NoJob
  BY <1>1, <1>q DEF Jobs
<1>2. CASE w # NoJob
  <2>1. Listed(<<w>>)
    <3>1. <<w>> \in Seq({w})
      OBVIOUS
    <3> QED
      BY <3>1, ListedIn
  <2> DEFINE j == <<w>> \o q
  <2>2. Jobs(w, q) = j /\ Len(<<w>>) = 1 /\ <<w>>[1] = w
    BY <1>2 DEF Jobs
  <2>3. /\ Len(j) = 1 + Len(q) /\ j[1] = w
        /\ \A i \in 1..Len(q) : j[1 + i] = q[i]
    BY <2>1, <2>2, ListedConcat
  <2> HIDE DEF j
  <2>4. \A i \in 1..Len(q) : j[i + 1] = q[i]
    BY <2>3, <1>q
  <2>5. ASSUME NEW i \in 2..(Len(q) + 1) PROVE j[i] = q[i - 1]
    <3>1. PICK n \in 1..Len(q) : i = n + 1
      BY <1>q
    <3> QED
      BY <3>1, <2>4
  <2> QED
    BY <2>2, <2>3, <2>4, <2>5, <1>q, <1>2
<1> QED
  BY <1>1, <1>2

LEMMA JobsKeep ==
    ASSUME NEW w, NEW v, w # NoJob, v # NoJob, NEW q, Listed(q)
    PROVE  /\ Len(Jobs(w, q)) > 0 /\ Len(Jobs(v, q)) = Len(Jobs(w, q))
           /\ \A i \in 2..Len(Jobs(w, q)) : Jobs(v, q)[i] = Jobs(w, q)[i]
           /\ Len(q) = Len(Jobs(w, q)) - 1
           /\ \A i \in 1..Len(q) : q[i] = Jobs(w, q)[i + 1]
  BY JobsFacts

(* What Append makes of the queue. *)
LEMMA AppendFacts ==
    ASSUME NEW q, Listed(q), NEW j
    PROVE  /\ Listed(Append(q, j)) /\ Len(Append(q, j)) = Len(q) + 1
           /\ \A x \in Range(Append(q, j)) : x = j \/ x \in Range(q)
           /\ Append(q, j)[Len(q) + 1] = j
           /\ \A i \in 1..Len(q) : Append(q, j)[i] = q[i]
<1>q. Len(q) \in Nat /\ q \in Seq(Range(q))
  BY ListedFacts DEF Listed
<1>1. Listed(<<j>>) /\ Len(<<j>>) = 1 /\ <<j>>[1] = j /\ Range(<<j>>) = {j}
  <2>1. <<j>> \in Seq({j}) /\ Len(<<j>>) = 1 /\ <<j>>[1] = j /\ Range(<<j>>) = {j}
    BY DEF Range
  <2> QED
    BY <2>1, ListedIn
<1>2. Append(q, j) = q \o <<j>>
  BY <1>q
<1>3. Listed(q \o <<j>>) /\ Range(q \o <<j>>) = Range(q) \cup {j}
  BY ONLY Listed(q), <1>1, ListedConcat
<1>4. /\ Len(q \o <<j>>) = Len(q) + 1 /\ (q \o <<j>>)[Len(q) + 1] = j
      /\ \A i \in 1..Len(q) : (q \o <<j>>)[i] = q[i]
  BY ONLY <1>q
<1> QED
  BY ONLY <1>2, <1>3, <1>4

LEMMA JobsAppended ==
    ASSUME NEW w, NEW q, Listed(q), NEW j
    PROVE  /\ Len(Jobs(w, Append(q, j))) = Len(Jobs(w, q)) + 1
           /\ \A i \in 1..Len(Jobs(w, q)) : Jobs(w, Append(q, j))[i] = Jobs(w, q)[i]
           /\ Jobs(w, Append(q, j))[Len(Jobs(w, q)) + 1] = j
<1> DEFINE r == Append(q, j)
           a == Jobs(w, q)
           b == Jobs(w, r)
           N == Len(q)
<1>1. /\ Listed(r) /\ Len(r) = N + 1 /\ r[N + 1] = j /\ \A i \in 1..N : r[i] = q[i]
      /\ N \in Nat
  BY AppendFacts, ListedFacts
<1>2. /\ w = NoJob => a = q
      /\ w # NoJob => /\ Len(a) = N + 1 /\ a[1] = w
                      /\ \A i \in 2..(N + 1) : a[i] = q[i - 1]
  BY JobsFacts
<1>3. /\ w = NoJob => b = r
      /\ w # NoJob => /\ Len(b) = (N + 1) + 1 /\ b[1] = w
                      /\ \A i \in 2..((N + 1) + 1) : b[i] = r[i - 1]
  <2> HIDE DEF r
  <2>1. /\ w = NoJob => b = r
        /\ w # NoJob => /\ Len(b) = Len(r) + 1 /\ b[1] = w
                        /\ \A i \in 2..(Len(r) + 1) : b[i] = r[i - 1]
    BY <1>1, JobsFacts
  <2> QED
    BY <1>1, <2>1
<1> HIDE DEF r, a, b, N
<1>4. CASE w = NoJob
  BY <1>1, <1>2, <1>3, <1>4 DEF N, a, b, r
<1>5. CASE w # NoJob
  <2>1. Len(b) = Len(a) + 1 /\ Len(a) = N + 1
    BY <1>2, <1>3, <1>5
  <2>2. b[(N + 1) + 1] = r[N + 1]
    <3>1. (N + 1) + 1 \in 2..((N + 1) + 1) /\ ((N + 1) + 1) - 1 = N + 1
      BY <1>1
    <3> QED
      BY <3>1, <1>3, <1>5
  <2>3. ASSUME NEW i \in 1..(N + 1) PROVE b[i] = a[i]
    <3>1. CASE i = 1
      BY <3>1, <1>2, <1>3, <1>5
    <3>2. CASE i # 1
      <4>1. i \in 2..(N + 1) /\ i \in 2..((N + 1) + 1) /\ i - 1 \in 1..N
        BY <3>2, <1>1
      <4> QED
        BY <4>1, <1>1, <1>2, <1>3, <1>5
    <3> QED
      BY <3>1, <3>2
  <2> QED
    BY <2>1, <2>2, <2>3, <1>1 DEF a, b, r
<1> QED
  BY <1>4, <1>5

-----------------------------------------------------------------------------
(* The steps *)

LEMMA InvFacts ==
    ASSUME QueueInv
    PROVE  /\ QueueTyped /\ Telling(Jobs(work, queue), tree, table, drift, work # NoJob, losses)
           /\ Listed(queue) /\ losses \in Nat /\ (work # NoJob) \in BOOLEAN
           /\ Len(Jobs(work, queue)) \in Nat
           /\ \A i \in 1..Len(Jobs(work, queue)) : Jobs(work, queue)[i].since \in 0..losses
           /\ \A p \in DOMAIN table.files : <<"file", p>> \in Key
<1>1. QueueTyped /\ Telling(Jobs(work, queue), tree, table, drift, work # NoJob, losses)
  BY DEF QueueInv
<1>2. Listed(queue) /\ losses \in Nat
  BY <1>1, QueueConstants DEF QueueTyped
<1>3. /\ Len(Jobs(work, queue)) \in Nat /\ Len(queue) \in Nat
      /\ \A i \in 1..Len(queue) : queue[i] \in Range(queue)
  BY <1>2, JobsFacts, ListedFacts
<1>4. \A i \in 1..Len(Jobs(work, queue)) : Jobs(work, queue)[i].since \in 0..losses
  <2>1. CASE work = NoJob
    BY <2>1, <1>1, <1>2, <1>3, JobsFacts DEF QueueTyped
  <2>2. CASE work # NoJob
    <3>1. /\ Len(Jobs(work, queue)) = Len(queue) + 1 /\ Jobs(work, queue)[1] = work
          /\ \A i \in 2..(Len(queue) + 1) : Jobs(work, queue)[i] = queue[i - 1]
      BY <2>2, <1>2, JobsFacts
    <3>2. \A i \in 1..Len(queue) : queue[i].since \in 0..losses
      BY <1>1, <1>3 DEF QueueTyped
    <3> SUFFICES ASSUME NEW i \in 1..(Len(queue) + 1)
                 PROVE  Jobs(work, queue)[i].since \in 0..losses
      BY <3>1
    <3>3. CASE i = 1
      BY <3>1, <3>3, <2>2, <1>1 DEF QueueTyped
    <3>4. CASE i # 1
      <4>1. i \in 2..(Len(queue) + 1) /\ i - 1 \in 1..Len(queue)
        BY <3>4, <1>3
      <4> QED
        BY <4>1, <3>1, <3>2
    <3> QED
      BY <3>3, <3>4
  <2> QED
    BY <2>1, <2>2
<1>5. \A p \in DOMAIN table.files : <<"file", p>> \in Key
  BY <1>1 DEF QueueTyped, IsTable, Key
<1> QED
  BY <1>1, <1>2, <1>3, <1>4, <1>5

(* A job joins the queue: what it says or asks for is of the tree of then. *)
LEMMA Enqueued ==
    ASSUME QueueInv, NEW j, IsJob(j), j.since \in 0..losses,
           j.kind = "commit" <=> j.events # <<>>,
           NEW u, TreeOK(u), tree' = u, queue' = Append(queue, j),
           commits' \in 0..MaxCommits, replays' \in 0..MaxReplays,
           UNCHANGED <<work, attempt, table, drift, losses>>,
           \A k \in Key :
               /\ ~Unsent(j, k) => Carried(u, k) = Carried(tree, k)
               /\ Unsent(j, k) => EndsWith(j, k, Carried(u, k))
               /\ "missing" \in j.mends /\ Carried(u, k) # <<>> => Unread(j, k),
           "extra" \in j.mends =>
               \A p \in DOMAIN table.files : p \in DOMAIN u \/ Unsent(j, <<"file", p>>)
    PROVE  QueueInv'
<1> DEFINE a == Jobs(work, queue)
           b == Jobs(work, Append(queue, j))
<1>1. /\ QueueTyped /\ Telling(a, tree, table, drift, work # NoJob, losses)
      /\ Listed(queue) /\ (work # NoJob) \in BOOLEAN /\ Len(a) \in Nat
      /\ \A p \in DOMAIN table.files : <<"file", p>> \in Key
  BY InvFacts
<1>2. /\ Listed(Append(queue, j)) /\ \A x \in Range(Append(queue, j)) : x = j \/ x \in Range(queue)
  BY <1>1, AppendFacts
<1>3. QueueTyped'
  BY <1>1, <1>2 DEF QueueTyped, Sending
<1>4. Len(b) = Len(a) + 1 /\ (\A i \in 1..Len(a) : b[i] = a[i]) /\ b[Len(b)] = j
  BY <1>1, JobsAppended
<1> HIDE DEF a, b
<1>5. Telling(b, u, table, drift, work # NoJob, losses)
  BY <1>1, <1>4, JobAppended, ZenonT(60)
<1> QED
  BY <1>3, <1>5 DEF QueueInv, b

LEMMA AcceptKeeps ==
    ASSUME QueueInv, NEW e, NEW P, Tidy(e, tree, P), e.changes # <<>>, Accept(e)
    PROVE  QueueInv'
<1> DEFINE j == CommitJob(e.changes)
           u == After(e, tree)
<1>1. QueueTyped /\ TreeOK(tree) /\ losses \in Nat
  BY InvFacts DEF QueueTyped
<1>2. /\ Applies(e, tree) /\ tree' = u /\ queue' = Append(queue, j)
      /\ commits < MaxCommits /\ commits' = commits + 1
      /\ UNCHANGED <<work, attempt, table, drift, replays, losses>>
  BY DEF Accept
<1>3. /\ TreeOK(u) /\ Listed(Job(e.changes)) /\ \A x \in Range(Job(e.changes)) : IsEvent(x)
      /\ Job(e.changes) # <<>>
      /\ \A k \in Key : /\ ~Mentions(Job(e.changes), k) => Carried(u, k) = Carried(tree, k)
                        /\ LastSays(Job(e.changes), k, Carried(u, k))
  BY <1>1, <1>2, TidyTells
<1>4. /\ j.kind = "commit" /\ j.events = Job(e.changes) /\ j.paths = <<>> /\ j.dirs = <<>>
      /\ j.mends = {} /\ j.since = 0
      /\ j = [kind |-> j.kind, events |-> j.events, paths |-> j.paths, dirs |-> j.dirs,
              mends |-> j.mends, since |-> j.since]
  BY DEF CommitJob
<1>5. commits' \in 0..MaxCommits /\ replays' \in 0..MaxReplays
  BY <1>1, <1>2, QueueConstants DEF QueueTyped
<1> HIDE DEF j, u
<1>6. IsJob(j)
  <2>1. Listed(<<>>) /\ Range(<<>>) = {}
    BY OutcomeEmpty DEF Range
  <2> QED
    BY <2>1, <1>3, <1>4 DEF IsJob
<1>7. \A k \in Key : /\ ~Unsent(j, k) => Carried(u, k) = Carried(tree, k)
                     /\ Unsent(j, k) => EndsWith(j, k, Carried(u, k))
  BY <1>3, <1>4 DEF Unsent, EndsWith, ToDelete
<1> QED
  BY <1>1, <1>2, <1>3, <1>4, <1>5, <1>6, <1>7, Enqueued

(* The files and the orders of a tree, and what a replay lists.            *)
LEMMA SidesFacts ==
    ASSUME NEW t, TreeOK(t)
    PROVE  /\ Files(t) \subseteq FilePath /\ IsFiniteSet(Files(t))
           /\ Ordered(t) \subseteq Path /\ IsFiniteSet(Ordered(t))
           /\ \A p \in FilePath : p \in Files(t) <=> p \in DOMAIN t
           /\ \A d \in Path : d \in Ordered(t) <=> IndexPath(d) \in DOMAIN t
<1>1. DOMAIN t \subseteq Legal /\ IsFiniteSet(DOMAIN t) /\ Legal \subseteq Path
  BY LegalFacts DEF TreeOK
<1>2. Files(t) \subseteq FilePath /\ \A p \in FilePath : p \in Files(t) <=> p \in DOMAIN t
  BY <1>1 DEF Files, FilePath
<1>3. IsFiniteSet(Files(t)) /\ IsFiniteSet(DOMAIN t \ Files(t))
  BY <1>1, FS_Subset DEF Files
<1>4. IsFiniteSet(Ordered(t))
  <2> DEFINE S == DOMAIN t \ Files(t)
         f == [p \in S |-> Parent(p)]
         T == {Parent(p) : p \in S}
  <2>1. f \in Surjection(S, T)
    <3>1. f \in [S -> T] /\ \A p \in S : f[p] = Parent(p)
      OBVIOUS
    <3> QED
      BY <3>1 DEF Surjection
  <2>2. IsFiniteSet(T)
    BY <2>1, <1>3, FS_Surjection
  <2> QED
    BY <2>2 DEF Ordered
<1>5. \A p \in DOMAIN t \ Files(t) : IsIndex(p) /\ p = IndexPath(Parent(p)) /\ Parent(p) \in Path
  BY <1>1, LegalFacts DEF Files
<1>6. \A d \in Path : IndexPath(d) \in DOMAIN t => d \in Ordered(t)
  <2> SUFFICES ASSUME NEW d \in Path, IndexPath(d) \in DOMAIN t PROVE d \in Ordered(t)
    OBVIOUS
  <2>1. IsIndex(IndexPath(d)) /\ Parent(IndexPath(d)) = d
    BY LegalFacts
  <2> QED
    BY <2>1 DEF Ordered, Files
<1>7. \A d \in Ordered(t) : d \in Path /\ IndexPath(d) \in DOMAIN t
  BY <1>5 DEF Ordered
<1> QED
  BY <1>2, <1>3, <1>4, <1>6, <1>7

LEMMA ReplayKeeps ==
    ASSUME QueueInv, NEW direction \in {"create", "delete"}, NEW given \in BOOLEAN,
           NEW hidden \in BOOLEAN, Replay(direction, given, hidden)
    PROVE  QueueInv'
<1> DEFINE paths == Affected(direction, given, hidden)
           dirs == {d \in Ordered(tree) : given \/ hidden \/ Visible(d)}
           mends == IF direction = "create" /\ hidden /\ ~given THEN {"missing"}
                    ELSE IF direction = "delete" /\ given THEN {"extra"} ELSE {}
           j == [kind |-> direction, events |-> <<>>,
                 paths |-> SetToSeq(paths), dirs |-> SetToSeq(dirs),
                 mends |-> mends, since |-> losses]
<1>1. /\ QueueTyped /\ TreeOK(tree) /\ losses \in Nat /\ IsTable(table)
      /\ IsFiniteSet(DOMAIN table.files) /\ DOMAIN table.files \subseteq FilePath
  BY InvFacts DEF QueueTyped, IsTable
<1>2. /\ queue' = Append(queue, j) /\ replays < MaxReplays /\ replays' = replays + 1
      /\ UNCHANGED <<tree, work, attempt, table, drift, commits, losses>>
  BY DEF Replay
<1>3. commits' \in 0..MaxCommits /\ replays' \in 0..MaxReplays
  BY <1>1, <1>2, QueueConstants DEF QueueTyped
<1>4. /\ paths \subseteq Files(tree) \cup DOMAIN table.files
      /\ direction = "create" => paths \subseteq Files(tree)
      /\ direction = "create" /\ hidden /\ ~given => paths = Files(tree)
      /\ direction = "delete" => \A p \in paths : p \notin Files(tree)
      /\ direction = "delete" /\ given =>
            \A p \in DOMAIN table.files : p \notin Files(tree) => p \in paths
  BY DEF Affected
<1>5. dirs \subseteq Ordered(tree) /\ (hidden => dirs = Ordered(tree))
  OBVIOUS
<1> HIDE DEF paths, dirs
<1>6. /\ Listed(SetToSeq(paths)) /\ Range(SetToSeq(paths)) = paths /\ paths \subseteq FilePath
      /\ Listed(SetToSeq(dirs)) /\ Range(SetToSeq(dirs)) = dirs /\ dirs \subseteq Path
  <2>1. IsFiniteSet(paths) /\ IsFiniteSet(dirs)
    <3>1. IsFiniteSet(Files(tree) \cup DOMAIN table.files)
      BY <1>1, SidesFacts, FS_Union
    <3> QED
      BY <1>1, <1>4, <1>5, <3>1, SidesFacts, FS_Subset
  <2> QED
    BY <2>1, <1>1, <1>4, <1>5, SidesFacts, SetToSeqFacts
<1>7. /\ j.kind = direction /\ j.events = <<>> /\ Range(j.paths) = paths /\ Range(j.dirs) = dirs
      /\ Listed(j.paths) /\ Listed(j.dirs) /\ j.mends = mends /\ j.since = losses
      /\ j = [kind |-> j.kind, events |-> j.events, paths |-> j.paths, dirs |-> j.dirs,
              mends |-> j.mends, since |-> j.since]
  BY <1>6
<1>8. /\ "missing" \in mends => direction = "create" /\ hidden /\ ~given
      /\ "extra" \in mends => direction = "delete" /\ given
  OBVIOUS
<1> HIDE DEF j, mends
<1>9. IsJob(j)
  <2>1. Listed(<<>>) /\ Range(<<>>) = {}
    BY OutcomeEmpty DEF Range
  <2> QED
    BY <2>1, <1>6, <1>7, <1>8 DEF IsJob
<1>10. ASSUME NEW k \in Key
       PROVE  /\ Unsent(j, k) => direction = "delete" /\ k[1] = "file" /\ k[2] \in paths
              /\ direction = "delete" /\ k[1] = "file" /\ k[2] \in paths => Unsent(j, k)
              /\ Unsent(j, k) => EndsWith(j, k, Carried(tree, k))
              /\ "missing" \in j.mends /\ Carried(tree, k) # <<>> => Unread(j, k)
  <2>1. ~Mentions(j.events, k)
    BY <1>7, OutcomeEmpty
  <2>2. \/ k[1] = "file" /\ k[2] \in FilePath /\ k = <<"file", k[2]>>
        \/ k[1] = "order" /\ k[2] \in Path
    BY DEF Key
  <2>3. /\ Unsent(j, k) => direction = "delete" /\ k[1] = "file" /\ k[2] \in paths
        /\ direction = "delete" /\ k[1] = "file" /\ k[2] \in paths => Unsent(j, k)
    BY <2>1, <1>7 DEF Unsent, ToDelete
  <2>4. Unsent(j, k) => EndsWith(j, k, Carried(tree, k))
    <3> SUFFICES ASSUME Unsent(j, k) PROVE EndsWith(j, k, Carried(tree, k))
      OBVIOUS
    <3>1. ToDelete(j, k) /\ k[2] \notin DOMAIN tree
      BY <2>1, <2>2, <2>3, <1>1, <1>4, SidesFacts DEF Unsent
    <3> QED
      BY <3>1, <2>3 DEF EndsWith, Carried, PathKey, BlobAt
  <2>5. "missing" \in j.mends /\ Carried(tree, k) # <<>> => Unread(j, k)
    <3> SUFFICES ASSUME "missing" \in j.mends, Carried(tree, k) # <<>> PROVE Unread(j, k)
      OBVIOUS
    <3>1. paths = Files(tree) /\ dirs = Ordered(tree)
      BY <1>4, <1>5, <1>7, <1>8
    <3>2. /\ k[1] = "file" => k[2] \in DOMAIN tree
          /\ k[1] = "order" => IndexPath(k[2]) \in DOMAIN tree
      BY DEF Carried, PathKey, BlobAt
    <3> QED
      BY <2>2, <3>1, <3>2, <1>1, <1>7, SidesFacts DEF Unread
  <2> QED
    BY <2>3, <2>4, <2>5
<1>11. ASSUME "extra" \in j.mends, NEW p \in DOMAIN table.files
       PROVE  p \in DOMAIN tree \/ Unsent(j, <<"file", p>>)
  <2>1. p \in FilePath /\ <<"file", p>> \in Key
    BY <1>1 DEF Key
  <2>2. p \in paths \/ p \in Files(tree)
    BY <1>4, <1>7, <1>8, <1>11
  <2> QED
    BY <2>1, <2>2, <1>1, <1>7, <1>8, <1>10, <1>11, SidesFacts
<1>12. j.kind # "commit" /\ j.events = <<>> /\ j.since \in 0..losses
  BY <1>1, <1>7
<1> QED
  BY <1>1, <1>2, <1>3, <1>9, <1>10, <1>11, <1>12, Enqueued

LEMMA TakeKeeps ==
    ASSUME QueueInv, Take
    PROVE  QueueInv'
<1> DEFINE h == Head(queue)
           r == Tail(queue)
<1>1. /\ QueueTyped /\ Listed(queue)
      /\ Telling(Jobs(work, queue), tree, table, drift, work # NoJob, losses)
  BY InvFacts
<1>2. /\ work = NoJob /\ queue # <<>> /\ work' = h /\ queue' = r
      /\ UNCHANGED <<tree, attempt, table, drift, commits, replays, losses>>
  BY DEF Take
<1>3. /\ Listed(r) /\ queue = <<h>> \o r /\ h \in Range(queue) /\ Range(r) \subseteq Range(queue)
  BY <1>1, <1>2, TailFacts
<1> HIDE DEF h, r
<1>4. IsJob(h) /\ h.since \in 0..losses /\ h # NoJob /\ attempt = 0
  <2>1. IsJob(h) /\ h.since \in 0..losses
    BY <1>1, <1>3 DEF QueueTyped
  <2>2. attempt = 0
    BY <1>1, <1>2, QueueConstants DEF QueueTyped, Sending
  <2> QED
    BY <2>1, <2>2, IsJobNot
<1>5. QueueTyped'
  BY <1>1, <1>2, <1>3, <1>4 DEF QueueTyped
<1>6. Jobs(h, r) = queue /\ Jobs(work, queue) = queue
  BY <1>2, <1>3, <1>4 DEF Jobs
<1>7. Telling(queue, tree, table, drift, TRUE, losses)
  BY <1>1, <1>2, <1>6 DEF Telling, WillMend
<1> QED
  BY <1>2, <1>4, <1>5, <1>6, <1>7 DEF QueueInv

(* A chunk, and what is left. *)
LEMMA ChunkFacts ==
    ASSUME NEW s, Listed(s)
    PROVE  /\ Listed(FirstOf(s)) /\ Listed(RestOf(s))
           /\ Range(s) = Range(FirstOf(s)) \cup Range(RestOf(s))
<1> DEFINE N == Len(s)
           n == IF N < Chunk THEN N ELSE Chunk
           a == SubSeq(s, 1, n)
           b == SubSeq(s, n + 1, N)
<1>1. N \in Nat /\ DOMAIN s = 1..N /\ s \in Seq(Range(s)) /\ Range(s) = {s[i] : i \in 1..N}
  BY ListedFacts DEF Listed
<1>2. n \in 0..N
  BY <1>1, QueueConstants
<1> HIDE DEF n
<1>3. /\ a \in Seq(Range(s)) /\ Len(a) = n /\ \A i \in 1..n : a[i] = s[i]
  BY <1>1, <1>2
<1>4. /\ b \in Seq(Range(s)) /\ Len(b) = N - n /\ \A i \in 1..(N - n) : b[i] = s[n + i]
  <2>1. PICK m \in Nat : m = n + 1
    BY <1>1, <1>2
  <2>2. \A i \in m..N : s[i] \in Range(s)
    BY <2>1, <1>1, <1>2
  <2>3. /\ SubSeq(s, m, N) \in Seq(Range(s))
        /\ Len(SubSeq(s, m, N)) = IF m <= N THEN N - m + 1 ELSE 0
        /\ \A i \in 1..(N - m + 1) : SubSeq(s, m, N)[i] = s[m + i - 1]
    BY <2>1, <2>2, <1>1, SubSeqProperties
  <2>4. b = SubSeq(s, m, N)
    BY <2>1
  <2> HIDE DEF b
  <2>n. n \in Nat /\ n <= N /\ N \in Nat /\ m \in Nat /\ m = n + 1
    BY <2>1, <1>1, <1>2
  <2> HIDE DEF N
  <2>5. Len(b) = N - n
    <3>1. CASE m <= N
      BY <3>1, <2>n, <2>3, <2>4
    <3>2. CASE ~(m <= N)
      BY <3>2, <2>n, <2>3, <2>4
    <3> QED
      BY <3>1, <3>2
  <2>6. ASSUME NEW i \in 1..(N - n) PROVE b[i] = s[n + i]
    <3>1. i \in 1..(N - m + 1) /\ m + i - 1 = n + i
      BY <2>n
    <3> QED
      BY <3>1, <2>3, <2>4
  <2> QED
    BY <2>3, <2>4, <2>5, <2>6
<1> HIDE DEF a, b
<1>5. Listed(a) /\ Listed(b)
  BY <1>3, <1>4, ListedIn
<1>6. Range(a) = {a[i] : i \in 1..n} /\ Range(b) = {b[i] : i \in 1..(N - n)}
  BY <1>3, <1>4, <1>5, ListedFacts
<1>7. Range(s) = Range(a) \cup Range(b)
  <2>1. ASSUME NEW i \in 1..N PROVE s[i] \in Range(a) \cup Range(b)
    <3>1. CASE i <= n
      <4>1. i \in 1..n
        BY <3>1, <1>1, <1>2
      <4> QED
        BY <4>1, <1>3, <1>6
    <3>2. CASE i > n
      <4>1. PICK m \in 1..(N - n) : i = n + m
        <5>1. i - n \in 1..(N - n) /\ i = n + (i - n)
          BY <3>2, <1>1, <1>2
        <5> QED
          BY <5>1
      <4> QED
        BY <4>1, <1>4, <1>6
    <3> QED
      BY <3>1, <3>2, <1>1, <1>2
  <2>2. Range(a) \subseteq Range(s)
    <3> SUFFICES ASSUME NEW i \in 1..n PROVE a[i] \in Range(s)
      BY <1>6
    <3>1. i \in 1..N
      BY <1>1, <1>2
    <3> QED
      BY <3>1, <1>1, <1>3
  <2>3. Range(b) \subseteq Range(s)
    <3> SUFFICES ASSUME NEW i \in 1..(N - n) PROVE b[i] \in Range(s)
      BY <1>6
    <3>1. n + i \in 1..N
      BY <1>1, <1>2
    <3> QED
      BY <3>1, <1>1, <1>4
  <2> QED
    BY <2>1, <2>2, <2>3, <1>1
<1>8. FirstOf(s) = a
  BY DEF FirstOf, a, n
<1>9. RestOf(s) = b
  BY <1>3, <1>8 DEF RestOf, b
<1> QED
  BY <1>5, <1>7, <1>8, <1>9

(* The first job has read a part of what it had to read.                   *)
LEMMA ReadKeeps ==
    ASSUME QueueInv, work # NoJob, work.events = <<>>,
           NEW w, work' = w, IsJob(w), w.kind = work.kind,
           w.mends = work.mends, w.since = work.since,
           UNCHANGED <<tree, queue, attempt, table, drift, commits, replays, losses>>,
           \A k \in Key :
               /\ ToDelete(work, k) => Unsent(w, k)
               /\ /\ Unsent(w, k)
                  /\ ToDelete(work, k) => Carried(tree, k) = <<>>
                  => EndsWith(w, k, Carried(tree, k))
               /\ Unread(work, k) /\ Carried(tree, k) # <<>> => Unread(w, k) \/ Unsent(w, k)
    PROVE  QueueInv'
<1> DEFINE a == Jobs(work, queue)
           b == Jobs(w, queue)
<1>1. /\ QueueTyped /\ Listed(queue) /\ Len(a) \in Nat
      /\ Telling(a, tree, table, drift, work # NoJob, losses)
      /\ \A p \in DOMAIN table.files : <<"file", p>> \in Key
  BY InvFacts
<1>2. w # NoJob
  BY IsJobNot
<1>3. /\ Len(a) > 0 /\ Len(b) = Len(a) /\ \A i \in 2..Len(a) : b[i] = a[i]
  BY <1>1, <1>2, JobsKeep
<1>4. a[1] = work /\ b[1] = w
  BY <1>1, <1>2, JobsFacts
<1> HIDE DEF a, b
<1>5. \A k \in Key : Unsent(work, k) <=> ToDelete(work, k)
  BY OutcomeEmpty DEF Unsent
<1>6. \A k \in Key : ToDelete(work, k) => (EndsWith(work, k, Carried(tree, k)) <=> Carried(tree, k) = <<>>)
  BY DEF EndsWith
<1>7. Telling(a, tree, table, drift, TRUE, losses)
  BY <1>1
<1>8. Telling(b, tree, table, drift, TRUE, losses)
  BY <1>1, <1>3, <1>4, <1>5, <1>6, <1>7, JobRead
<1>9. QueueTyped'
  <2>1. attempt = 0
    BY <1>1, QueueConstants DEF QueueTyped, Sending
  <2> QED
    BY <1>1, <2>1 DEF QueueTyped
<1> QED
  BY <1>2, <1>8, <1>9 DEF QueueInv, b

(* What a job becomes. *)
LEMMA PathsRead ==
    ASSUME NEW j, IsJob(j), NEW a, NEW b
    PROVE  [j EXCEPT !.paths = a, !.events = b]
              = [kind |-> j.kind, events |-> b, paths |-> a, dirs |-> j.dirs,
                 mends |-> j.mends, since |-> j.since]
<1> DEFINE x == [j EXCEPT !.paths = a]
<1>1. x = [kind |-> j.kind, events |-> j.events, paths |-> a, dirs |-> j.dirs,
           mends |-> j.mends, since |-> j.since]
  BY DEF IsJob
<1>2. [j EXCEPT !.paths = a, !.events = b] = [x EXCEPT !.events = b]
  OBVIOUS
<1> HIDE DEF x
<1>3. [x EXCEPT !.events = b]
         = [kind |-> j.kind, events |-> b, paths |-> a, dirs |-> j.dirs,
            mends |-> j.mends, since |-> j.since]
  BY <1>1
<1> QED
  BY <1>2, <1>3

LEMMA DirsRead ==
    ASSUME NEW j, IsJob(j), NEW a, NEW b
    PROVE  [j EXCEPT !.dirs = a, !.events = b]
              = [kind |-> j.kind, events |-> b, paths |-> j.paths, dirs |-> a,
                 mends |-> j.mends, since |-> j.since]
<1> DEFINE x == [j EXCEPT !.dirs = a]
<1>1. x = [kind |-> j.kind, events |-> j.events, paths |-> j.paths, dirs |-> a,
           mends |-> j.mends, since |-> j.since]
  BY DEF IsJob
<1>2. [j EXCEPT !.dirs = a, !.events = b] = [x EXCEPT !.events = b]
  OBVIOUS
<1> HIDE DEF x
<1>3. [x EXCEPT !.events = b]
         = [kind |-> j.kind, events |-> b, paths |-> j.paths, dirs |-> a,
            mends |-> j.mends, since |-> j.since]
  BY <1>1
<1> QED
  BY <1>2, <1>3

LEMMA EventsLeft ==
    ASSUME NEW j, IsJob(j), NEW b
    PROVE  [j EXCEPT !.events = b]
              = [kind |-> j.kind, events |-> b, paths |-> j.paths, dirs |-> j.dirs,
                 mends |-> j.mends, since |-> j.since]
  BY DEF IsJob

(* What is read of a sequence of paths, each told by a listed sequence.    *)
LEMMA ToldFacts ==
    ASSUME NEW c, Listed(c), NEW ss, DOMAIN ss = DOMAIN c, ss = [i \in DOMAIN c |-> ss[i]],
           \A i \in DOMAIN c : Listed(ss[i])
    PROVE  /\ Listed(FlattenSeq(ss))
           /\ \A e : e \in Range(FlattenSeq(ss)) <=> \E i \in DOMAIN c : e \in Range(ss[i])
           /\ \A i \in DOMAIN c : c[i] \in Range(c)
           /\ \A x \in Range(c) : \E i \in DOMAIN c : x = c[i]
<1> DEFINE N == Len(c)
<1>1. N \in Nat /\ DOMAIN c = 1..N /\ Range(c) = {c[i] : i \in 1..N}
  BY ListedFacts
<1>2. ss = [i \in 1..N |-> ss[i]] /\ \A i \in 1..N : Listed(ss[i])
  BY <1>1
<1> HIDE DEF N
<1>3. Listed(FlattenSeq(ss)) /\ Range(FlattenSeq(ss)) = UNION {Range(ss[i]) : i \in 1..N}
  BY <1>1, <1>2, FlattenListed
<1>4. \A e : e \in UNION {Range(ss[i]) : i \in 1..N} <=> \E i \in 1..N : e \in Range(ss[i])
  OBVIOUS
<1> QED
  BY <1>1, <1>3, <1>4

LEMMA ReadFilesKeeps ==
    ASSUME QueueInv, ReadFiles
    PROVE  QueueInv'
<1> DEFINE c == FirstOf(work.paths)
           r == RestOf(work.paths)
           T(p) == IF work.kind = "delete" THEN <<Deleted(p)>>
                   ELSE IF p \in Files(tree) THEN <<Created(p, tree[p])>> ELSE <<>>
           ss == [i \in DOMAIN c |-> T(c[i])]
           s == FlattenSeq(ss)
           w == [work EXCEPT !.paths = r, !.events = s]
<1>1. /\ work # NoJob /\ work.events = <<>>
      /\ work' = [work EXCEPT !.paths = RestOf(@), !.events = s]
      /\ UNCHANGED <<tree, queue, attempt, table, drift, commits, replays, losses>>
  BY DEF ReadFiles
<1>2. IsJob(work) /\ TreeOK(tree)
  BY <1>1, InvFacts DEF QueueTyped
<1>3. /\ work = [kind |-> work.kind, events |-> work.events, paths |-> work.paths,
                 dirs |-> work.dirs, mends |-> work.mends, since |-> work.since]
      /\ work.kind \in {"commit", "create", "delete"}
      /\ Listed(work.paths) /\ Range(work.paths) \subseteq FilePath
      /\ Listed(work.dirs) /\ Range(work.dirs) \subseteq Path
      /\ "missing" \in work.mends => work.kind = "create"
  BY <1>2 DEF IsJob
<1>4. w = [kind |-> work.kind, events |-> s, paths |-> r,
           dirs |-> work.dirs, mends |-> work.mends, since |-> work.since]
  <2> HIDE DEF r, s
  <2> QED
    BY <1>2, PathsRead
<1>5. work' = w
  BY <1>1
<1>6. /\ w.kind = work.kind /\ w.events = s /\ w.paths = r /\ w.dirs = work.dirs
      /\ w.mends = work.mends /\ w.since = work.since
      /\ w = [kind |-> w.kind, events |-> w.events, paths |-> w.paths,
              dirs |-> w.dirs, mends |-> w.mends, since |-> w.since]
  BY <1>4
<1>7. Listed(c) /\ Listed(r) /\ Range(work.paths) = Range(c) \cup Range(r)
  BY <1>3, ChunkFacts
<1>8. \A p : /\ Listed(T(p))
             /\ work.kind = "delete" => Range(T(p)) = {Deleted(p)}
             /\ work.kind # "delete" /\ p \in Files(tree) => Range(T(p)) = {Created(p, tree[p])}
             /\ work.kind # "delete" /\ p \notin Files(tree) => Range(T(p)) = {}
  <2> SUFFICES ASSUME NEW p
               PROVE  /\ Listed(T(p))
                      /\ work.kind = "delete" => Range(T(p)) = {Deleted(p)}
                      /\ work.kind # "delete" /\ p \in Files(tree)
                         => Range(T(p)) = {Created(p, tree[p])}
                      /\ work.kind # "delete" /\ p \notin Files(tree) => Range(T(p)) = {}
    OBVIOUS
  <2>1. \A e : Listed(<<e>>) /\ Range(<<e>>) = {e}
    <3> SUFFICES ASSUME NEW e PROVE Listed(<<e>>) /\ Range(<<e>>) = {e}
      OBVIOUS
    <3>1. <<e>> \in Seq({e}) /\ Range(<<e>>) = {e}
      BY DEF Range
    <3> QED
      BY <3>1, ListedIn
  <2>2. Listed(<<>>) /\ Range(<<>>) = {}
    BY OutcomeEmpty DEF Range
  <2> QED
    BY <2>1, <2>2
<1>9. /\ Listed(s)
      /\ \A e : e \in Range(s) <=> \E p \in Range(c) : e \in Range(T(p))
  <2>1. DOMAIN ss = DOMAIN c /\ ss = [i \in DOMAIN c |-> ss[i]]
        /\ \A i \in DOMAIN c : ss[i] = T(c[i])
    OBVIOUS
  <2> HIDE DEF T, c, ss
  <2>2. \A i \in DOMAIN c : Listed(ss[i])
    BY <1>8, <2>1
  <2>3. /\ Listed(FlattenSeq(ss))
        /\ \A e : e \in Range(FlattenSeq(ss)) <=> \E i \in DOMAIN c : e \in Range(ss[i])
        /\ \A i \in DOMAIN c : c[i] \in Range(c)
        /\ \A x \in Range(c) : \E i \in DOMAIN c : x = c[i]
    BY <1>7, <2>1, <2>2, ToldFacts
  <2> QED
    BY <2>1, <2>3
<1> HIDE DEF c, r, T, ss, s, w
<1>10. /\ \A e \in Range(s) : \E p \in Range(c) :
             \/ work.kind = "delete" /\ e = Deleted(p)
             \/ work.kind # "delete" /\ p \in Files(tree) /\ e = Created(p, tree[p])
       /\ work.kind = "delete" => \A p \in Range(c) : Deleted(p) \in Range(s)
       /\ work.kind # "delete" =>
             \A p \in Range(c) : p \in Files(tree) => Created(p, tree[p]) \in Range(s)
  BY <1>8, <1>9
<1>11. \A p : \A k \in Key :
                 /\ Touches(Deleted(p), k) <=> k[1] = "file" /\ k[2] = p
                 /\ k[1] = "file" => Says(Deleted(p), k) = <<>>
                 /\ Touches(Created(p, tree[p]), k) <=> k[1] = "file" /\ k[2] = p
                 /\ k[1] = "file" /\ k[2] = p => Says(Created(p, tree[p]), k) = <<tree[p]>>
       BY DEF Key, Touches, Says, Deleted, Created, FileKinds, OrderKinds
<1>12. IsJob(w)
  <2>1. \A p \in FilePath : IsEvent(Deleted(p)) /\ \A b : IsEvent(Created(p, b))
    BY DEF IsEvent, Deleted, Created, FileKinds
  <2>2. \A e \in Range(s) : IsEvent(e)
    BY <2>1, <1>3, <1>7, <1>10
  <2> QED
    BY <2>2, <1>3, <1>6, <1>7, <1>9 DEF IsJob
<1>13. ASSUME NEW k \in Key
       PROVE  /\ ToDelete(work, k) => Unsent(w, k)
              /\ /\ Unsent(w, k)
                 /\ ToDelete(work, k) => Carried(tree, k) = <<>>
                 => EndsWith(w, k, Carried(tree, k))
              /\ Unread(work, k) /\ Carried(tree, k) # <<>> => Unread(w, k) \/ Unsent(w, k)
  <2>1. /\ Mentions(s, k) <=> \E e \in Range(s) : Touches(e, k)
        /\ \A v : (\A e \in Range(s) : Touches(e, k) => Says(e, k) = v) => LastSays(s, k, v)
    BY <1>9, AllSay
  <2>2. k[1] = "file" => k[2] \in FilePath /\ Carried(tree, k) = BlobAt(tree, k[2])
    BY DEF Key, Carried, PathKey
  <2>3. /\ Mentions(s, k) => k[1] = "file" /\ k[2] \in Range(c)
        /\ work.kind = "delete" /\ k[1] = "file" /\ k[2] \in Range(c) => Mentions(s, k)
        /\ work.kind # "delete" /\ k[1] = "file" /\ k[2] \in Range(c) /\ k[2] \in Files(tree)
           => Mentions(s, k)
    <3>1. ASSUME Mentions(s, k) PROVE k[1] = "file" /\ k[2] \in Range(c)
      <4>1. PICK e \in Range(s) : Touches(e, k)
        BY <2>1, <3>1
      <4>2. PICK p \in Range(c) : e = Deleted(p) \/ e = Created(p, tree[p])
        BY <1>10
      <4> QED
        BY <4>1, <4>2, <1>11
    <3>2. /\ k[1] = "file" => Touches(Deleted(k[2]), k)
          /\ k[1] = "file" => Touches(Created(k[2], tree[k[2]]), k)
      BY <1>11
    <3> QED
      BY <3>1, <3>2, <2>1, <1>10
  <2>4. ToDelete(work, k) => Unsent(w, k)
    BY <2>3, <1>6, <1>7 DEF ToDelete, Unsent
  <2>5. ASSUME Unsent(w, k), ToDelete(work, k) => Carried(tree, k) = <<>>
        PROVE  EndsWith(w, k, Carried(tree, k))
    <3>1. ToDelete(w, k) => ToDelete(work, k)
      BY <1>6, <1>7 DEF ToDelete
    <3>2. ASSUME ~ToDelete(w, k) PROVE LastSays(s, k, Carried(tree, k))
      <4>1. k[1] = "file" /\ k[2] \in Range(c)
        BY <2>3, <2>5, <3>2, <1>6 DEF Unsent
      <4>2. CASE work.kind = "delete"
        <5>1. Carried(tree, k) = <<>>
          BY <4>1, <4>2, <2>5, <1>7 DEF ToDelete
        <5> QED
          BY <4>1, <4>2, <5>1, <2>1, <1>10, <1>11
      <4>3. CASE work.kind # "delete"
        <5>1. \A e \in Range(s) : Touches(e, k) =>
                  e = Created(k[2], tree[k[2]]) /\ k[2] \in Files(tree)
          <6> SUFFICES ASSUME NEW e \in Range(s), Touches(e, k)
                       PROVE  e = Created(k[2], tree[k[2]]) /\ k[2] \in Files(tree)
            OBVIOUS
          <6>1. PICK p \in Range(c) : p \in Files(tree) /\ e = Created(p, tree[p])
            BY <4>3, <1>10
          <6>2. p = k[2]
            BY <6>1, <1>11
          <6> QED
            BY <6>1, <6>2
        <5>2. k[2] \in Files(tree) => Carried(tree, k) = <<tree[k[2]]>>
          BY <4>1, <2>2 DEF BlobAt, Files
        <5> QED
          BY <4>1, <5>1, <5>2, <2>1, <1>11
      <4> QED
        BY <4>2, <4>3
    <3> QED
      BY <3>1, <3>2, <2>5, <1>6 DEF EndsWith
  <2>6. ASSUME Unread(work, k), Carried(tree, k) # <<>>
        PROVE  Unread(w, k) \/ Unsent(w, k)
    <3>1. CASE k[1] = "file" /\ k[2] \in Range(c)
      <4>1. k[2] \in Files(tree)
        BY <3>1, <2>2, <2>6, <1>2, SidesFacts DEF BlobAt
      <4> QED
        BY <3>1, <4>1, <2>3, <1>6 DEF Unsent
    <3>2. CASE ~(k[1] = "file" /\ k[2] \in Range(c))
      BY <3>2, <2>6, <1>6, <1>7 DEF Unread
    <3> QED
      BY <3>1, <3>2
  <2> QED
    BY <2>4, <2>5, <2>6
<1> QED
  BY <1>1, <1>5, <1>6, <1>12, <1>13, ReadKeeps

(* The event of an order that is there. *)
LEMMA OrderTold ==
    ASSUME NEW d \in Path, NEW b
    PROVE  \E e : /\ OrderEvents(Updated(IndexPath(d), b)) = <<e>>
                  /\ IsEvent(e)
                  /\ \A k \in Key : /\ Touches(e, k) <=> k = <<"order", d>>
                                    /\ Touches(e, k) => Says(e, k) = <<b>>
<1> DEFINE e == [kind |-> "order.updated", path |-> d, from |-> d, blob |-> b]
<1>1. Parent(IndexPath(d)) = d
  BY LegalFacts
<1>2. OrderEvents(Updated(IndexPath(d), b)) = <<e>>
  BY <1>1 DEF OrderEvents, Updated
<1>3. IsEvent(e)
  BY DEF IsEvent, OrderKinds
<1>4. \A k \in Key : /\ Touches(e, k) <=> k = <<"order", d>>
                     /\ Touches(e, k) => Says(e, k) = <<b>>
  BY DEF Key, Touches, Says, FileKinds, OrderKinds
<1> QED
  BY <1>2, <1>3, <1>4

LEMMA ReadOrdersKeeps ==
    ASSUME QueueInv, ReadOrders
    PROVE  QueueInv'
<1> DEFINE c == FirstOf(work.dirs)
           r == RestOf(work.dirs)
           T(d) == IF HasIndex(tree, d)
                   THEN OrderEvents(Updated(IndexPath(d), StoredOrder(tree, d))) ELSE <<>>
           ss == [i \in DOMAIN c |-> T(c[i])]
           s == FlattenSeq(ss)
           w == [work EXCEPT !.dirs = r, !.events = s]
<1>1. /\ work # NoJob /\ work.events = <<>> /\ work.paths = <<>>
      /\ work' = [work EXCEPT !.dirs = RestOf(@), !.events = s]
      /\ UNCHANGED <<tree, queue, attempt, table, drift, commits, replays, losses>>
  BY DEF ReadOrders
<1>2. IsJob(work) /\ TreeOK(tree)
  BY <1>1, InvFacts DEF QueueTyped
<1>3. /\ work.kind \in {"commit", "create", "delete"}
      /\ Listed(work.paths) /\ Range(work.paths) = {}
      /\ Listed(work.dirs) /\ Range(work.dirs) \subseteq Path
      /\ "missing" \in work.mends => work.kind = "create"
  <2>1. Range(<<>>) = {}
    BY DEF Range
  <2> QED
    BY <2>1, <1>1, <1>2 DEF IsJob
<1>4. w = [kind |-> work.kind, events |-> s, paths |-> work.paths,
           dirs |-> r, mends |-> work.mends, since |-> work.since]
  <2> HIDE DEF r, s
  <2> QED
    BY <1>2, DirsRead
<1>5. work' = w
  BY <1>1
<1>6. /\ w.kind = work.kind /\ w.events = s /\ w.paths = work.paths /\ w.dirs = r
      /\ w.mends = work.mends /\ w.since = work.since
      /\ w = [kind |-> w.kind, events |-> w.events, paths |-> w.paths,
              dirs |-> w.dirs, mends |-> w.mends, since |-> w.since]
  BY <1>4
<1>7. Listed(c) /\ Listed(r) /\ Range(work.dirs) = Range(c) \cup Range(r)
  BY <1>3, ChunkFacts
<1>8. ASSUME NEW d \in Path
      PROVE  /\ Listed(T(d)) /\ (~HasIndex(tree, d) => Range(T(d)) = {})
             /\ HasIndex(tree, d) =>
                    \E e : /\ Range(T(d)) = {e} /\ IsEvent(e)
                           /\ \A k \in Key :
                                 /\ Touches(e, k) <=> k = <<"order", d>>
                                 /\ Touches(e, k) => Says(e, k) = Carried(tree, k)
  <2>1. CASE ~HasIndex(tree, d)
    BY <2>1, OutcomeEmpty DEF Range
  <2>2. CASE HasIndex(tree, d)
    <3>1. PICK e : /\ OrderEvents(Updated(IndexPath(d), StoredOrder(tree, d))) = <<e>>
                   /\ IsEvent(e)
                   /\ \A k \in Key : /\ Touches(e, k) <=> k = <<"order", d>>
                                     /\ Touches(e, k) => Says(e, k) = <<StoredOrder(tree, d)>>
      BY OrderTold
    <3>2. <<e>> \in Seq({e}) /\ Range(<<e>>) = {e}
      BY DEF Range
    <3>3. Listed(<<e>>) /\ T(d) = <<e>>
      BY <2>2, <3>1, <3>2, ListedIn
    <3>4. Carried(tree, <<"order", d>>) = <<StoredOrder(tree, d)>>
      BY <2>2 DEF Carried, PathKey, BlobAt, StoredOrder, HasIndex, IsFile
    <3> HIDE DEF T
    <3>5. \A k \in Key : /\ Touches(e, k) <=> k = <<"order", d>>
                         /\ Touches(e, k) => Says(e, k) = Carried(tree, k)
      BY <3>1, <3>4
    <3> QED
      BY <2>2, <3>1, <3>2, <3>3, <3>5
  <2> QED
    BY <2>1, <2>2
<1>9. /\ Listed(s)
      /\ \A e : e \in Range(s) <=> \E d \in Range(c) : e \in Range(T(d))
  <2>1. DOMAIN ss = DOMAIN c /\ ss = [i \in DOMAIN c |-> ss[i]]
        /\ \A i \in DOMAIN c : ss[i] = T(c[i])
    OBVIOUS
  <2>2. \A i \in DOMAIN c : c[i] \in Range(c)
    BY DEF Range
  <2> HIDE DEF T, c, ss
  <2>3. \A i \in DOMAIN c : Listed(ss[i])
    BY <1>3, <1>7, <1>8, <2>1, <2>2
  <2>4. /\ Listed(FlattenSeq(ss))
        /\ \A e : e \in Range(FlattenSeq(ss)) <=> \E i \in DOMAIN c : e \in Range(ss[i])
        /\ \A i \in DOMAIN c : c[i] \in Range(c)
        /\ \A x \in Range(c) : \E i \in DOMAIN c : x = c[i]
    BY <1>7, <2>1, <2>3, ToldFacts
  <2> QED
    BY <2>1, <2>4
<1> HIDE DEF c, r, T, ss, s, w
<1>10. \A d \in Range(c) : d \in Path
  BY <1>3, <1>7
<1>11. ASSUME NEW e \in Range(s)
       PROVE  /\ IsEvent(e)
              /\ \A k \in Key : Touches(e, k) => k[1] = "order" /\ Says(e, k) = Carried(tree, k)
  <2>1. PICK d \in Range(c) : e \in Range(T(d))
    BY <1>9
  <2>2. HasIndex(tree, d)
    BY <2>1, <1>8, <1>10
  <2>3. /\ IsEvent(e)
        /\ \A k \in Key : /\ Touches(e, k) <=> k = <<"order", d>>
                          /\ Touches(e, k) => Says(e, k) = Carried(tree, k)
    BY <2>1, <2>2, <1>8, <1>10
  <2> QED
    BY <2>3
<1>12. IsJob(w)
  BY <1>3, <1>6, <1>7, <1>9, <1>11 DEF IsJob
<1>13. ASSUME NEW k \in Key
       PROVE  /\ ToDelete(work, k) => Unsent(w, k)
              /\ /\ Unsent(w, k)
                 /\ ToDelete(work, k) => Carried(tree, k) = <<>>
                 => EndsWith(w, k, Carried(tree, k))
              /\ Unread(work, k) /\ Carried(tree, k) # <<>> => Unread(w, k) \/ Unsent(w, k)
  <2>1. /\ Mentions(s, k) <=> \E e \in Range(s) : Touches(e, k)
        /\ \A v : (\A e \in Range(s) : Touches(e, k) => Says(e, k) = v) => LastSays(s, k, v)
    BY <1>9, AllSay
  <2>2. ~ToDelete(work, k) /\ ~ToDelete(w, k)
    BY <1>3, <1>6 DEF ToDelete
  <2>3. EndsWith(w, k, Carried(tree, k))
    BY <2>1, <2>2, <1>6, <1>11 DEF EndsWith
  <2>4. ASSUME Unread(work, k), Carried(tree, k) # <<>>
        PROVE  Unread(w, k) \/ Unsent(w, k)
    <3>1. k[1] = "order" /\ k[2] \in Range(work.dirs) /\ k = <<"order", k[2]>> /\ k[2] \in Path
      BY <2>4, <1>3 DEF Unread, Key
    <3>2. CASE k[2] \in Range(r)
      BY <3>1, <3>2, <1>6 DEF Unread
    <3>3. CASE k[2] \in Range(c)
      <4>1. HasIndex(tree, k[2])
        BY <3>1, <2>4 DEF Carried, PathKey, BlobAt, HasIndex, IsFile
      <4>2. PICK e : /\ Range(T(k[2])) = {e}
                     /\ \A l \in Key : Touches(e, l) <=> l = <<"order", k[2]>>
        BY <3>1, <4>1, <1>8
      <4>3. e \in Range(s) /\ Touches(e, k)
        BY <3>1, <3>3, <4>2, <1>9
      <4> QED
        BY <4>3, <2>1, <1>6 DEF Unsent
    <3> QED
      BY <3>1, <3>2, <3>3, <1>7
  <2> QED
    BY <2>2, <2>3, <2>4
<1> QED
  BY <1>1, <1>5, <1>6, <1>12, <1>13, ReadKeeps

(* A job without its first event. *)
LEMMA Popped ==
    ASSUME NEW j, IsJob(j), j.events # <<>>,
           NEW w, w = [j EXCEPT !.events = Tail(j.events)]
    PROVE  /\ IsJob(w) /\ IsEvent(Head(j.events))
           /\ w.kind = j.kind /\ w.mends = j.mends /\ w.since = j.since
           /\ \A k : /\ Unsent(w, k) => Unsent(j, k)
                     /\ Unread(w, k) <=> Unread(j, k)
                     /\ Touches(Head(j.events), k) => Unsent(j, k)
           /\ \A k, v : EndsWith(j, k, v) =>
                 /\ Unsent(w, k) => EndsWith(w, k, v)
                 /\ ~Unsent(w, k) /\ Unsent(j, k) =>
                        Touches(Head(j.events), k) /\ Says(Head(j.events), k) = v
<1> DEFINE r == Tail(j.events)
           h == Head(j.events)
<1>1. Listed(j.events) /\ \A e \in Range(j.events) : IsEvent(e)
  BY DEF IsJob
<1>2. /\ Listed(r) /\ h \in Range(j.events) /\ Range(r) \subseteq Range(j.events)
  BY <1>1, TailFacts
<1>3. \A k : /\ Mentions(j.events, k) <=> Touches(h, k) \/ Mentions(r, k)
             /\ \A v : LastSays(j.events, k, v) => LastSays(r, k, v)
             /\ \A v : LastSays(j.events, k, v) /\ ~Mentions(r, k) /\ Touches(h, k)
                       => Says(h, k) = v
  BY <1>1, PopFacts
<1> HIDE DEF r, h
<1>4. w = [kind |-> j.kind, events |-> r, paths |-> j.paths, dirs |-> j.dirs,
           mends |-> j.mends, since |-> j.since]
  BY EventsLeft DEF r
<1>5. /\ w.kind = j.kind /\ w.events = r /\ w.paths = j.paths /\ w.dirs = j.dirs
      /\ w.mends = j.mends /\ w.since = j.since
      /\ w = [kind |-> w.kind, events |-> w.events, paths |-> w.paths,
              dirs |-> w.dirs, mends |-> w.mends, since |-> w.since]
  BY ONLY <1>4
<1>6. IsJob(w) /\ IsEvent(h)
  BY <1>1, <1>2, <1>5 DEF IsJob
<1>7. \A k : /\ ToDelete(w, k) <=> ToDelete(j, k)
             /\ Unread(w, k) <=> Unread(j, k)
  BY <1>5 DEF ToDelete, Unread
<1>8. \A k : /\ Unsent(w, k) => Unsent(j, k)
             /\ Touches(h, k) => Unsent(j, k)
  BY <1>3, <1>5, <1>7 DEF Unsent
<1>9. ASSUME NEW k, NEW v, EndsWith(j, k, v)
      PROVE  /\ Unsent(w, k) => EndsWith(w, k, v)
             /\ ~Unsent(w, k) /\ Unsent(j, k) => Touches(h, k) /\ Says(h, k) = v
  BY <1>3, <1>5, <1>7, <1>9 DEF Unsent, EndsWith
<1> QED
  BY <1>5, <1>6, <1>7, <1>8, <1>9 DEF h

LEMMA SendingFacts ==
    ASSUME QueueInv, Sending
    PROVE  /\ IsJob(work) /\ work # NoJob /\ work.events # <<>> /\ IsTable(table)
           /\ Len(Jobs(work, queue)) \in Nat /\ Len(Jobs(work, queue)) > 0
           /\ Jobs(work, queue)[1] = work
           /\ Telling(Jobs(work, queue), tree, table, drift, TRUE, losses)
           /\ IsEvent(Head(work.events)) /\ IsTable(Receive(table, Head(work.events)))
           /\ \A k \in Key :
                 Held(Receive(table, Head(work.events)), k)
                   = IF Touches(Head(work.events), k) THEN Says(Head(work.events), k)
                     ELSE Held(table, k)
<1>1. /\ IsJob(work) /\ work # NoJob /\ work.events # <<>> /\ IsTable(table) /\ Listed(queue)
      /\ Telling(Jobs(work, queue), tree, table, drift, work # NoJob, losses)
  BY InvFacts DEF Sending, QueueTyped
<1>2. IsEvent(Head(work.events))
  BY <1>1, Popped
<1>3. Telling(Jobs(work, queue), tree, table, drift, TRUE, losses)
  BY <1>1
<1>4. /\ Len(Jobs(work, queue)) \in Nat /\ Len(Jobs(work, queue)) > 0
      /\ Jobs(work, queue)[1] = work
  BY <1>1, JobsFacts
<1>5. /\ IsTable(Receive(table, Head(work.events)))
      /\ \A k \in Key :
            Held(Receive(table, Head(work.events)), k)
              = IF Touches(Head(work.events), k) THEN Says(Head(work.events), k)
                ELSE Held(table, k)
  BY <1>1, <1>2, ReceiveTells
<1> QED
  BY <1>1, <1>2, <1>3, <1>4, <1>5

LEMMA KeysOfTable ==
    ASSUME NEW held, IsTable(held)
    PROVE  \A p \in DOMAIN held.files : <<"file", p>> \in Key
  BY DEF IsTable, Key

LEMMA DeliveredKeeps ==
    ASSUME QueueInv, Delivered
    PROVE  QueueInv'
<1> DEFINE h == Head(work.events)
           now == Receive(table, h)
           w == [work EXCEPT !.events = Tail(work.events)]
           a == Jobs(work, queue)
           b == Jobs(w, queue)
<1>1. /\ Sending /\ table' = now /\ work' = w /\ attempt' = 0
      /\ UNCHANGED <<tree, queue, drift, commits, replays, losses>>
  BY DEF Delivered, Applied, Done
<1>2. /\ IsJob(work) /\ work # NoJob /\ work.events # <<>> /\ IsTable(table)
      /\ Len(a) \in Nat /\ Len(a) > 0 /\ a[1] = work
      /\ Telling(a, tree, table, drift, TRUE, losses)
      /\ IsTable(now)
      /\ \A k \in Key : Held(now, k) = IF Touches(h, k) THEN Says(h, k) ELSE Held(table, k)
  BY <1>1, SendingFacts
<1>3. /\ IsJob(w) /\ w.kind = work.kind /\ w.mends = work.mends /\ w.since = work.since
      /\ \A k : /\ Unsent(w, k) => Unsent(work, k)
                /\ Unread(w, k) <=> Unread(work, k)
                /\ Touches(h, k) => Unsent(work, k)
      /\ \A k, v : EndsWith(work, k, v) =>
            /\ Unsent(w, k) => EndsWith(w, k, v)
            /\ ~Unsent(w, k) /\ Unsent(work, k) => Touches(h, k) /\ Says(h, k) = v
  BY <1>2, Popped
<1>4. w # NoJob /\ QueueTyped
  BY <1>3, IsJobNot, InvFacts
<1>5. /\ Len(b) = Len(a) /\ b[1] = w /\ \A i \in 2..Len(a) : b[i] = a[i]
  <2>1. Listed(queue)
    BY <1>4 DEF QueueTyped
  <2> HIDE DEF w
  <2>2. Len(b) = Len(a) /\ \A i \in 2..Len(a) : b[i] = a[i]
    BY ONLY <2>1, <1>2, <1>4, JobsKeep DEF a, b
  <2>3. b[1] = w
    BY ONLY <2>1, <1>4, JobsFacts DEF b
  <2> QED
    BY ONLY <2>2, <2>3
<1> HIDE DEF h, now, w, a, b
<1>6. \A p \in DOMAIN table.files \cup DOMAIN now.files : <<"file", p>> \in Key
  BY <1>2, KeysOfTable
<1>7. Telling(b, tree, now, drift, TRUE, losses)
  BY ONLY <1>2, <1>3, <1>5, <1>6, JobPosted, ZenonT(60)
<1>8. QueueTyped'
  BY <1>1, <1>2, <1>3, <1>4, QueueConstants DEF QueueTyped
<1> QED
  BY <1>1, <1>4, <1>7, <1>8 DEF QueueInv, b

LEMMA FailedKeeps ==
    ASSUME QueueInv, Failed
    PROVE  QueueInv'
<1> DEFINE h == Head(work.events)
           now == Receive(table, h)
           w == [work EXCEPT !.events = Tail(work.events)]
           a == Jobs(work, queue)
           b == Jobs(w, queue)
<1>1. /\ Sending /\ (table' = now \/ table' = table)
      /\ UNCHANGED <<tree, queue, commits, replays>>
      /\ \/ /\ attempt + 1 < Attempts /\ attempt' = attempt + 1
            /\ UNCHANGED <<work, drift, losses>>
         \/ /\ attempt' = 0 /\ work' = w /\ losses < MaxLosses /\ losses' = losses + 1
            /\ drift' = {"missing", "extra"}
  BY DEF Failed, Applied, Done, Lose
<1>2. /\ IsJob(work) /\ work # NoJob /\ work.events # <<>> /\ IsTable(table)
      /\ Len(a) \in Nat /\ Len(a) > 0 /\ a[1] = work
      /\ Telling(a, tree, table, drift, TRUE, losses)
      /\ IsTable(now)
      /\ \A k \in Key : Held(now, k) = IF Touches(h, k) THEN Says(h, k) ELSE Held(table, k)
  BY <1>1, SendingFacts
<1>3. /\ IsJob(w) /\ w.kind = work.kind /\ w.mends = work.mends /\ w.since = work.since
      /\ \A k : /\ Unsent(w, k) => Unsent(work, k)
                /\ Touches(h, k) => Unsent(work, k)
      /\ \A k, v : EndsWith(work, k, v) => (Unsent(w, k) => EndsWith(w, k, v))
  BY <1>2, Popped
<1>4. /\ w # NoJob /\ QueueTyped /\ losses \in Nat /\ Listed(queue)
      /\ \A i \in 1..Len(a) : a[i].since \in 0..losses
  BY <1>3, IsJobNot, InvFacts
<1>5. /\ Len(b) = Len(a) /\ b[1] = w /\ \A i \in 2..Len(a) : b[i] = a[i]
  <2> HIDE DEF w
  <2>1. b[1] = w
    BY <1>4, JobsFacts
  <2> QED
    BY <2>1, <1>2, <1>4, JobsKeep
<1> HIDE DEF h, now, w, a, b
<1>6. \A p \in DOMAIN table.files \cup DOMAIN now.files : <<"file", p>> \in Key
  BY <1>2, KeysOfTable
<1>7. IsTable(table')
  BY <1>1, <1>2
<1>8. CASE attempt' = attempt + 1 /\ attempt + 1 < Attempts /\ UNCHANGED <<work, drift, losses>>
  <2>1. Telling(a, tree, now, drift, TRUE, losses)
    BY <1>2, <1>3, <1>6, JobPosted
  <2>2. Telling(a, tree, table', drift, TRUE, losses)
    BY <1>1, <1>2, <2>1
  <2>3. Sending'
    BY <1>1, <1>8 DEF Sending
  <2>4. QueueTyped'
    BY <1>1, <1>4, <1>7, <1>8, <2>3, QueueConstants DEF QueueTyped
  <2>5. Telling(Jobs(work', queue'), tree', table', drift', TRUE, losses')
    BY <1>1, <1>8, <2>2 DEF a
  <2> QED
    BY <1>2, <1>8, <2>4, <2>5 DEF QueueInv
<1>9. CASE /\ attempt' = 0 /\ work' = w /\ losses < MaxLosses /\ losses' = losses + 1
           /\ drift' = {"missing", "extra"}
  <2>1. LastJobIsRight(b, tree)
    BY <1>2, <1>3, <1>5, LastWordsStay DEF Telling
  <2>2. \A i \in 1..Len(b) : b[i].since \in 0..losses
    <3> SUFFICES ASSUME NEW i \in 1..Len(a) PROVE b[i].since \in 0..losses
      BY <1>5
    <3>1. i = 1 \/ i \in 2..Len(a)
      BY <1>2
    <3>2. a[1].since \in 0..losses /\ b[1].since = a[1].since
      BY <1>2, <1>3, <1>4, <1>5
    <3> QED
      BY <3>1, <3>2, <1>4, <1>5
  <2>3. Len(b) \in Nat /\ TRUE \in BOOLEAN
    BY <1>2, <1>5
  <2>4. Telling(b, tree, table', {"missing", "extra"}, TRUE, losses + 1)
    BY <1>4, <2>1, <2>2, <2>3, NothingPromised
  <2>5. /\ w.since \in 0..(losses + 1) /\ \A j \in Range(queue) : j.since \in 0..(losses + 1)
        /\ losses + 1 \in 0..MaxLosses
    BY <1>2, <1>3, <1>4, <1>9, QueueConstants DEF QueueTyped
  <2>6. QueueTyped'
    BY <1>1, <1>3, <1>4, <1>7, <1>9, <2>5, QueueConstants DEF QueueTyped
  <2>7. Telling(Jobs(work', queue'), tree', table', drift', TRUE, losses')
    BY <1>1, <1>9, <2>4 DEF b
  <2> QED
    BY <1>4, <1>9, <2>6, <2>7 DEF QueueInv
<1> QED
  BY <1>1, <1>8, <1>9

LEMMA AbortKeeps ==
    ASSUME QueueInv, Abort
    PROVE  QueueInv'
<1> DEFINE a == Jobs(work, queue)
<1>1. /\ work # NoJob /\ work.events = <<>> /\ work' = NoJob
      /\ losses < MaxLosses /\ losses' = losses + 1 /\ drift' = {"missing", "extra"}
      /\ UNCHANGED <<tree, queue, attempt, table, commits, replays>>
  BY DEF Abort, Lose
<1>2. /\ QueueTyped /\ Listed(queue) /\ losses \in Nat /\ Len(a) \in Nat
      /\ Telling(a, tree, table, drift, work # NoJob, losses)
      /\ \A i \in 1..Len(a) : a[i].since \in 0..losses
  BY InvFacts
<1>3. /\ Len(a) > 0 /\ Len(queue) = Len(a) - 1
      /\ \A i \in 1..Len(queue) : queue[i] = a[i + 1]
  BY <1>1, <1>2, JobsFacts
<1> HIDE DEF a
<1>4. LastJobIsRight(queue, tree)
  BY <1>2, <1>3, LastWordsOfRest DEF Telling
<1>5. \A i \in 1..Len(queue) : queue[i].since \in 0..losses
  <2> SUFFICES ASSUME NEW i \in 1..Len(queue) PROVE queue[i].since \in 0..losses
    OBVIOUS
  <2>1. i + 1 \in 1..Len(a)
    BY <1>2, <1>3
  <2> QED
    BY <2>1, <1>2, <1>3
<1>6. Len(queue) \in Nat /\ FALSE \in BOOLEAN
  BY <1>2, ListedFacts
<1>7. Telling(queue, tree, table, {"missing", "extra"}, FALSE, losses + 1)
  BY <1>2, <1>4, <1>5, <1>6, NothingPromised
<1>8. QueueTyped'
  <2>1. /\ \A j \in Range(queue) : j.since \in 0..(losses + 1)
        /\ losses + 1 \in 0..MaxLosses /\ attempt = 0
    BY <1>1, <1>2, QueueConstants DEF QueueTyped, Sending
  <2> QED
    BY <1>1, <1>2, <2>1 DEF QueueTyped
<1> QED
  BY <1>1, <1>7, <1>8 DEF QueueInv, Jobs

LEMMA EndJobKeeps ==
    ASSUME QueueInv, EndJob
    PROVE  QueueInv'
<1> DEFINE a == Jobs(work, queue)
<1>1. /\ work # NoJob /\ work.events = <<>> /\ work.paths = <<>> /\ work.dirs = <<>>
      /\ work' = NoJob
      /\ drift' = IF work.since = losses THEN drift \ work.mends ELSE drift
      /\ UNCHANGED <<tree, queue, attempt, table, commits, replays, losses>>
  BY DEF EndJob
<1>2. /\ QueueTyped /\ Listed(queue) /\ losses \in Nat /\ Len(a) \in Nat
      /\ Telling(a, tree, table, drift, TRUE, losses)
      /\ \A p \in DOMAIN table.files : <<"file", p>> \in Key
  BY <1>1, InvFacts
<1>3. /\ Len(a) > 0 /\ Len(queue) = Len(a) - 1 /\ a[1] = work
      /\ \A i \in 1..Len(queue) : queue[i] = a[i + 1]
  BY <1>1, <1>2, JobsFacts
<1> HIDE DEF a
<1>4. \A k \in Key : ~Unsent(work, k) /\ ~Unread(work, k)
  <2>1. Range(<<>>) = {} /\ \A k : ~Mentions(<<>>, k)
    BY OutcomeEmpty DEF Range
  <2> QED
    BY <2>1, <1>1 DEF Unsent, ToDelete, Unread
<1>5. Telling(queue, tree, table, drift', FALSE, losses)
  BY <1>1, <1>2, <1>3, <1>4, JobEnded
<1>6. QueueTyped'
  <2>1. attempt = 0
    BY <1>1, <1>2, QueueConstants DEF QueueTyped, Sending
  <2>2. drift' \subseteq {"missing", "extra"}
    BY <1>1, <1>2 DEF QueueTyped
  <2> QED
    BY <1>1, <1>2, <2>1, <2>2 DEF QueueTyped
<1> QED
  BY <1>1, <1>5, <1>6 DEF QueueInv, Jobs

LEMMA CrashKeeps ==
    ASSUME QueueInv, Crash
    PROVE  QueueInv'
<1>1. /\ work' = NoJob /\ queue' = <<>> /\ attempt' = 0
      /\ losses < MaxLosses /\ losses' = losses + 1 /\ drift' = {"missing", "extra"}
      /\ UNCHANGED <<tree, table, commits, replays>>
  BY DEF Crash, Lose
<1>2. QueueTyped /\ losses \in Nat
  BY InvFacts
<1>3. Listed(<<>>) /\ Range(<<>>) = {} /\ Len(<<>>) = 0
  BY OutcomeEmpty DEF Range
<1>4. Telling(<<>>, tree, table, {"missing", "extra"}, FALSE, losses + 1)
  BY <1>3 DEF Telling, LastJobIsRight, Mending, WillMend
<1>5. QueueTyped'
  BY <1>1, <1>2, <1>3, QueueConstants DEF QueueTyped
<1> QED
  BY <1>1, <1>4, <1>5 DEF QueueInv, Jobs

-----------------------------------------------------------------------------
(* The specification *)

LEMMA InitOK == ASSUME Init PROVE QueueInv
<1>1. Listed(<<>>) /\ Range(<<>>) = {} /\ Len(<<>>) = 0
  BY OutcomeEmpty DEF Range
<1>2. TreeOK(tree) /\ IsTable(table)
  <2>1. /\ <<>> = [x \in {} |-> <<>>[x]] /\ DOMAIN <<>> = {} /\ IsFiniteSet({})
    BY FS_EmptySet
  <2> QED
    BY <2>1 DEF Init, EmptyTree, NothingTold, TreeOK, IsTable, IsMap, WellFormed
<1>3. QueueTyped
  BY <1>1, <1>2, QueueConstants DEF Init, QueueTyped
<1>4. Jobs(work, queue) = <<>>
  BY DEF Init, Jobs
<1>5. Telling(<<>>, tree, table, drift, work # NoJob, losses)
  <2>1. \A k : Carried(tree, k) = <<>>
    BY DEF Init, EmptyTree, Carried, BlobAt
  <2>2. DOMAIN table.files = {}
    BY DEF Init, NothingTold, EmptyTree
  <2> QED
    BY <1>1, <2>1, <2>2 DEF Telling, LastJobIsRight, NothingMissing, NothingExtra, Mending, WillMend
<1> QED
  BY <1>3, <1>4, <1>5 DEF QueueInv

LEMMA WritesKeep ==
    ASSUME QueueInv
    PROVE  /\ \A p \in Paths, c \in Content : PutFile(p, c) => QueueInv'
           /\ \A p \in Paths : RemoveFile(p) => QueueInv'
           /\ \A p, q \in Paths : Rename(p, q) => QueueInv'
           /\ \A ns \in Orders : PutOrder(ns) => QueueInv'
<1>1. TreeOK(tree) /\ DOMAIN tree \subseteq Legal
  BY InvFacts DEF QueueTyped, TreeOK
<1>2. \A p \in Paths : p \in Seq(Name) /\ p # Root
  BY QueueConstants
<1>3. ASSUME NEW p \in Paths, NEW c \in Content, PutFile(p, c) PROVE QueueInv'
  BY <1>1, <1>2, <1>3, FileEdits, AcceptKeeps DEF PutFile
<1>4. ASSUME NEW p \in Paths, RemoveFile(p) PROVE QueueInv'
  BY <1>1, <1>2, <1>4, FileEdits, AcceptKeeps DEF RemoveFile, CanDeleteFile
<1>5. ASSUME NEW p \in Paths, NEW q \in Paths, Rename(p, q) PROVE QueueInv'
  BY <1>1, <1>2, <1>5, MoveFileFacts, AcceptKeeps DEF Rename
<1>6. ASSUME NEW ns \in Orders, PutOrder(ns) PROVE QueueInv'
  <2>1. Root \in Seq(Name)
    BY DEF Root
  <2>2. /\ Tidy(WriteOrder(tree, Root, ns), tree, {IndexPath(Root)})
        /\ WriteOrder(tree, Root, ns).changes # <<>>
    BY <1>1, <2>1, StageIndexFacts DEF WriteOrder
  <2> QED
    BY <2>2, <1>6, AcceptKeeps DEF PutOrder
<1> QED
  BY <1>3, <1>4, <1>5, <1>6

LEMMA NextKeeps == ASSUME QueueInv, [Next]_vars PROVE QueueInv'
<1>1. CASE UNCHANGED vars
  BY <1>1 DEF vars, QueueInv, QueueTyped, Sending
<1>2. CASE \/ \E p \in Paths, c \in Content : PutFile(p, c)
           \/ \E p \in Paths : RemoveFile(p)
           \/ \E p, q \in Paths : Rename(p, q)
           \/ \E ns \in Orders : PutOrder(ns)
  BY <1>2, WritesKeep
<1>3. CASE \E direction \in {"create", "delete"}, given, hidden \in BOOLEAN :
              Replay(direction, given, hidden)
  BY <1>3, ReplayKeeps
<1>4. CASE Consume
  BY <1>4, TakeKeeps, ReadFilesKeeps, ReadOrdersKeeps, DeliveredKeeps, EndJobKeeps DEF Consume
<1>5. CASE Failed \/ Abort \/ Crash
  BY <1>5, FailedKeeps, AbortKeeps, CrashKeeps
<1> QED
  BY <1>1, <1>2, <1>3, <1>4, <1>5 DEF Next

(* At every moment the last job to speak of a file or an order is right,   *)
(* and the receiver holds what no job is to speak of.                      *)
THEOREM QueueIsRight == Spec => []QueueInv
<1>1. Init => QueueInv
  BY InitOK
<1>2. QueueInv /\ [Next]_vars => QueueInv'
  BY NextKeeps
<1> QED
  BY <1>1, <1>2, PTL DEF Spec

(* The parts of the queue have their types: a job of the queue is a        *)
(* commit's exactly when its events are known, and an attempt is counted   *)
(* only while an event is being sent (hooks.rs, HookJob and the consumer). *)
THEOREM QueueTypes == Spec => []TypeOK
<1>1. QueueInv => TypeOK
  <2> SUFFICES ASSUME QueueInv PROVE TypeOK
    OBVIOUS
  <2>1. QueueTyped /\ Listed(queue)
    BY InvFacts
  <2>2. \A i \in DOMAIN queue : queue[i] \in Range(queue)
    BY DEF Range
  <2>3. work # NoJob => work.kind \in {"commit", "create", "delete"}
    BY <2>1 DEF QueueTyped, IsJob
  <2> QED
    BY <2>1, <2>2, <2>3 DEF QueueTyped, TypeOK, TreeOK
<1> QED
  BY <1>1, QueueIsRight, PTL

(* Once its queue is drained the receiver holds what HEAD does, in so far  *)
(* as nothing was lost that no replay has mended.                          *)
THEOREM ReceiversHoldHead == Spec => []ReceiverHoldsHead
<1>1. QueueInv => ReceiverHoldsHead
  <2> SUFFICES ASSUME QueueInv, work = NoJob, queue = <<>>
               PROVE  /\ "missing" \notin drift =>
                            /\ \A p \in Files(tree) : p \in DOMAIN table.files /\ table.files[p] = tree[p]
                            /\ \A d \in Ordered(tree) :
                                  d \in DOMAIN table.orders /\ table.orders[d] = StoredOrder(tree, d)
                      /\ "extra" \notin drift => DOMAIN table.files \subseteq Files(tree)
    BY DEF ReceiverHoldsHead, Drained
  <2>1. /\ TreeOK(tree) /\ IsTable(table)
        /\ Telling(<<>>, tree, table, drift, FALSE, losses)
    BY InvFacts DEF QueueTyped, Jobs
  <2>2. \A k : ~UnsentFrom(<<>>, 1, k)
    BY DEF UnsentFrom
  <2>3. ASSUME "missing" \notin drift
        PROVE  \A k \in Key : Carried(tree, k) # <<>> => Held(table, k) = Carried(tree, k)
    BY <2>1, <2>2, <2>3 DEF Telling, NothingMissing
  <2>4. ASSUME "missing" \notin drift, NEW p \in Files(tree)
        PROVE  p \in DOMAIN table.files /\ table.files[p] = tree[p]
    <3>1. p \in FilePath /\ p \in DOMAIN tree /\ <<"file", p>> \in Key
      BY <2>1, SidesFacts DEF Key
    <3>2. Carried(tree, <<"file", p>>) = <<tree[p]>>
      BY <3>1 DEF Carried, PathKey, BlobAt
    <3>3. BlobAt(table.files, p) = <<tree[p]>>
      BY <2>3, <2>4, <3>1, <3>2 DEF Held
    <3> QED
      BY <3>3 DEF BlobAt
  <2>5. ASSUME "missing" \notin drift, NEW d \in Ordered(tree)
        PROVE  d \in DOMAIN table.orders /\ table.orders[d] = StoredOrder(tree, d)
    <3>1. d \in Path /\ IndexPath(d) \in DOMAIN tree /\ <<"order", d>> \in Key
      BY <2>1, SidesFacts DEF Key
    <3>2. Carried(tree, <<"order", d>>) = <<StoredOrder(tree, d)>>
      BY <3>1 DEF Carried, PathKey, BlobAt, StoredOrder, HasIndex, IsFile
    <3>3. BlobAt(table.orders, d) = <<StoredOrder(tree, d)>>
      BY <2>3, <2>5, <3>1, <3>2 DEF Held
    <3> QED
      BY <3>3 DEF BlobAt
  <2>6. ASSUME "extra" \notin drift PROVE DOMAIN table.files \subseteq Files(tree)
    <3>1. \A p \in DOMAIN table.files : p \in DOMAIN tree /\ p \in FilePath
      BY <2>1, <2>2, <2>6 DEF Telling, NothingExtra, IsTable
    <3> QED
      BY <3>1, <2>1, SidesFacts
  <2> QED
    BY <2>4, <2>5, <2>6
<1> QED
  BY <1>1, QueueIsRight, PTL
=============================================================================
