------------------------ MODULE ReplicaRegistryProofs ------------------------
(***************************************************************************)
(* Proofs about ReplicaRegistry, for any number of processes under a name  *)
(* and any lengths of time that DialsOutpaceExpiry allows.                 *)
(*                                                                         *)
(* Why a replica that restarts is not reported: as long as no two          *)
(* processes were up at once, whoever holds the row of a refused process   *)
(* has a dead connection, unless the row is stranded, and the run of       *)
(* refusals is no older than that connection has been dead.                *)
(***************************************************************************)
EXTENDS ReplicaRegistry, TLAPS

(* The parts of TypeOK. *)
ProcessOK ==
    /\ phase \in [Process -> {"up", "down"}]
    /\ open \in SUBSET Process
    /\ lost \in [Process -> MaybeAge(ReapWithin)]
    /\ rivals \in BOOLEAN
DialOK ==
    /\ dial \in [Process -> {"idle", "refused", "persists", "admitted"}]
    /\ dialed \in [Process -> Age(BackoffCap)]
    /\ refused \in [Process -> MaybeAge(ReportAfter)]
    /\ told \in SUBSET Process
    /\ issue \in BOOLEAN
RowOK == row \in Row
UpOK ==
    /\ \A p \in open : phase[p] = "up"
    /\ \A p \in told : phase[p] = "up"
    /\ row.connected => row.holder # None
HelloOK ==
    /\ mute \in SUBSET open /\ lostMute \in SUBSET Process
    /\ \A p \in lostMute : lost[p] # None
    /\ overdue \in BOOLEAN /\ forgotten \in BOOLEAN
Typed == ProcessOK /\ DialOK /\ RowOK /\ UpOK /\ HelloOK

(* Only a process that is up counts its refusals.                           *)
Started == \A p \in Process : phase[p] # "up" => refused[p] = None

(* A refusal is on record as long as somebody counts it.                    *)
Recorded ==
    \A p \in Process :
        /\ dial[p] \in {"refused", "persists"} => row.collided = 0 /\ p \notin open
        /\ refused[p] # None => row.collided # None /\ row.collided <= dialed[p]
        /\ p \in open /\ refused[p] # None => dial[p] = "admitted"

(* A row is forgotten with the process that it names, whose connection has *)
(* ended, and until a dead connection was overdue none had lasted so long. *)
Forgetting ==
    forgotten => /\ row.connected /\ row.holder \in Process /\ row.holder \notin open
                 /\ lost[row.holder] = None
Noticed == ~overdue => \A p \in Process : lost[p] # None => lost[p] < ReportAfter

(* What excuses a report. *)
Excused == rivals \/ overdue \/ Stranded

(* While no two processes were up at once, and nothing else is an excuse.   *)
OneUp == ~rivals => \A p, q \in Process : phase[p] = "up" /\ phase[q] = "up" => p = q
Alone ==
    ~Excused =>
        /\ told = {} /\ ~issue /\ \A p \in Process : dial[p] # "persists"
        /\ row.connected /\ row.since # None =>
              /\ phase[row.holder] # "up" /\ lost[row.holder] # None
              /\ row.since <= lost[row.holder]
        /\ \A p \in Process : phase[p] = "up" =>
              /\ dial[p] = "refused" => row.since # None /\ row.since < ReportAfter
              /\ refused[p] # None /\ dial[p] # "admitted" =>
                    row.since # None /\ refused[p] <= row.since

RegistryInv ==
    /\ Typed /\ PresenceIsNotInvented /\ Started /\ Recorded /\ Forgetting
    /\ Noticed /\ OneUp /\ Alone

-----------------------------------------------------------------------------
LEMMA Constants ==
    /\ None \notin Nat /\ None \notin Process /\ PollInterval \in Nat
    /\ ReapWithin \in Nat /\ ReportAfter \in Nat /\ Expiry \in Nat /\ BackoffCap \in Nat
    /\ 0 < ReportAfter /\ BackoffCap <= Expiry
    /\ SilentMinimum \in Nat /\ SilentMaximum \in Nat /\ MaxSecs \in Nat
    /\ SilentMinimum <= SilentMaximum
BY DialsOutpaceExpiry DEF DialsOutpaceExpiry, Process

LEMMA AgeFacts ==
    ASSUME NEW cap \in Nat, NEW a \in MaybeAge(cap), None \notin Nat
    PROVE  /\ Older(a, cap) \in MaybeAge(cap)
           /\ Older(a, cap) = None <=> a = None
           /\ a # None => a \in Nat /\ Older(a, cap) \in Nat
           /\ a # None /\ a < cap => Older(a, cap) = a + 1
           /\ a # None /\ a = cap => Older(a, cap) = cap
           /\ a # None => a <= cap
BY DEF Older, AtMost, MaybeAge, Age

LEMMA ZeroFacts ==
    ASSUME NEW cap \in Nat, None \notin Nat
    PROVE  /\ 0 \in MaybeAge(cap) /\ None \in MaybeAge(cap) /\ 0 # None
           /\ 0 \in MaybeAge(cap + 1) /\ None \in MaybeAge(cap + 1) /\ 0 \in Age(cap)
BY DEF MaybeAge, Age

(* A step under which the same row is stranded as before.                  *)
LEMMA SameExcuses ==
    ASSUME Typed, UNCHANGED <<phase, rivals, overdue, forgotten>>, row'.holder = row.holder
    PROVE  Excused' = Excused
<1>1. Up' = Up
  BY DEF Up
<1>2. Stranded' = Stranded
  BY <1>1 DEF Stranded
<1> QED
  BY <1>2 DEF Excused

(* What each part of the code does to a row. *)
LEMMA NotedFacts ==
    ASSUME NEW r \in Row, NEW p \in Process
    PROVE  /\ Noted(r) \in Row /\ Reported(p, r) \in Row
           /\ Noted(r).connected = r.connected /\ Reported(p, r).connected = r.connected
           /\ Noted(r).holder = r.holder /\ Reported(p, r).holder = r.holder
           /\ Noted(r).since = r.since /\ Reported(p, r).since = r.since
           /\ Noted(r).collided = r.collided /\ Reported(p, r).collided = r.collided
<1>1. Noted(r) \in Row
  <2>1. 0 \in MaybeAge(SilentMaximum + 1)
    BY Constants, ZeroFacts
  <2> QED
    BY <2>1 DEF Noted, Row
<1>2. SyncStatus(p) \in {"synced", "halted", None}
  BY DEF SyncStatus
<1>3. Reported(p, r) \in Row
  BY <1>1, <1>2 DEF Reported, Row
<1>4. /\ Noted(r).connected = r.connected /\ Reported(p, r).connected = r.connected
      /\ Noted(r).holder = r.holder /\ Reported(p, r).holder = r.holder
  BY DEF Noted, Reported, Row
<1>5. /\ Noted(r).since = r.since /\ Reported(p, r).since = r.since
      /\ Noted(r).collided = r.collided /\ Reported(p, r).collided = r.collided
  BY DEF Noted, Reported, Row
<1> QED
  BY <1>1, <1>3, <1>4, <1>5

LEMMA RefusalFacts ==
    ASSUME NEW r \in Row
    PROVE  /\ Refusal(r) \in Row
           /\ Refusal(r).connected = r.connected /\ Refusal(r).holder = r.holder
           /\ Refusal(r).collided = 0
           /\ Refusal(r).since \in Nat
           /\ Refusal(r).since = 0 \/ (r.since # None /\ Refusal(r).since = r.since)
           /\ r.since # None /\ r.collided # None /\ r.collided <= Expiry
                => Refusal(r).since = r.since
<1> DEFINE fresh == r.collided = None \/ r.collided > Expiry
           since == IF fresh \/ r.since = None THEN 0 ELSE r.since
<1>1. Refusal(r) = [r EXCEPT !.since = since, !.collided = 0]
  BY DEF Refusal
<1>2. /\ since \in MaybeAge(ReportAfter) /\ since \in Nat
      /\ since = 0 \/ (r.since # None /\ since = r.since)
      /\ r.since # None /\ r.collided # None /\ r.collided <= Expiry => since = r.since
  BY Constants DEF Row, MaybeAge, Age
<1>3. 0 \in MaybeAge(Expiry + 1)
  BY Constants DEF MaybeAge, Age
<1> HIDE DEF since, fresh
<1>4. Refusal(r) \in Row
  BY <1>1, <1>2, <1>3 DEF Row
<1>5. /\ Refusal(r).connected = r.connected /\ Refusal(r).holder = r.holder
      /\ Refusal(r).collided = 0 /\ Refusal(r).since = since
  BY <1>1 DEF Row
<1> QED
  BY <1>2, <1>4, <1>5

LEMMA AdmissionFacts ==
    ASSUME NEW r \in Row, NEW p \in Process
    PROVE  /\ Admission(p, r) \in Row
           /\ Admission(p, r).connected = TRUE /\ Admission(p, r).holder = p
           /\ Admission(p, r).since = None
           /\ Admission(p, r).collided = r.collided
<1>1. Admission(p, r) \in Row
  <2>1. 0 \in MaybeAge(SilentMaximum + 1) /\ None \in MaybeAge(ReportAfter)
    BY Constants, ZeroFacts
  <2> QED
    BY <2>1 DEF Admission, Row
<1> QED
  BY <1>1 DEF Admission, Row

LEMMA ClosedFacts ==
    ASSUME NEW r \in Row, NEW p \in Process
    PROVE  /\ Closed(p, r) \in Row
           /\ Closed(p, r).connected => r.connected /\ r.holder # p
           /\ Closed(p, r).holder = r.holder
           /\ Closed(p, r).since = r.since
           /\ Closed(p, r).collided = r.collided
<1>1. CASE r.holder # p
  BY <1>1 DEF Closed
<1>2. CASE r.holder = p
  <2>1. Closed(p, r) = [r EXCEPT !.connected = FALSE, !.contact = 0]
    BY <1>2 DEF Closed
  <2>2. Closed(p, r) \in Row
    <3>1. 0 \in MaybeAge(SilentMaximum + 1)
      BY Constants, ZeroFacts
    <3> QED
      BY <2>1, <3>1 DEF Row
  <2> QED
    BY <2>1, <2>2 DEF Row
<1> QED
  BY <1>1, <1>2

LEMMA OlderRow ==
    ASSUME NEW r \in Row
    PROVE  LET o == [r EXCEPT !.contact = Older(@, SilentMaximum + 1),
                              !.since = Older(@, ReportAfter),
                              !.collided = Older(@, Expiry + 1)]
           IN  /\ o \in Row
               /\ o.connected = r.connected /\ o.holder = r.holder
               /\ o.since = Older(r.since, ReportAfter)
               /\ o.collided = Older(r.collided, Expiry + 1)
<1>1. /\ Older(r.contact, SilentMaximum + 1) \in MaybeAge(SilentMaximum + 1)
      /\ Older(r.since, ReportAfter) \in MaybeAge(ReportAfter)
      /\ Older(r.collided, Expiry + 1) \in MaybeAge(Expiry + 1)
  BY Constants, AgeFacts DEF Row
<1> QED
  BY <1>1 DEF Row

-----------------------------------------------------------------------------
LEMMA InitRegistry ==
    ASSUME Init
    PROVE  RegistryInv
<1>z. /\ None \in MaybeAge(ReapWithin) /\ 0 \in Age(BackoffCap)
      /\ None \in MaybeAge(ReportAfter) /\ None \in MaybeAge(SilentMaximum + 1)
      /\ None \in MaybeAge(Expiry + 1)
  BY Constants, ZeroFacts
<1>1. ProcessOK /\ DialOK
  <2>1. ProcessOK
    BY <1>z DEF Init, ProcessOK
  <2>2. DialOK
    BY <1>z DEF Init, DialOK
  <2> QED
    BY <2>1, <2>2
<1>2. RowOK
  BY <1>z DEF Init, RowOK, Row
<1>3. UpOK /\ PresenceIsNotInvented /\ Started /\ Recorded /\ Alone
  BY DEF Init, UpOK, PresenceIsNotInvented, Started, Recorded, Alone
<1>4. HelloOK /\ Forgetting /\ Noticed /\ OneUp
  BY DEF Init, HelloOK, Forgetting, Noticed, OneUp
<1> QED
  BY <1>1, <1>2, <1>3, <1>4 DEF RegistryInv, Typed

LEMMA StartStep ==
    ASSUME RegistryInv, NEW p \in Process, Start(p)
    PROVE  RegistryInv'
<1> USE DEF RegistryInv, Typed
<1>0. phase[p] # "up" /\ lost[p] = None /\ dial[p] = "idle" /\ ~(row.connected /\ row.holder = p)
  BY DEF Start, Forgot
<1>1. /\ phase' = [phase EXCEPT ![p] = "up"]
      /\ rivals' = (rivals \/ Up # {})
      /\ UNCHANGED <<open, lost, mute, lostMute, dial, dialed, refused, told, row, issue,
                     overdue, forgotten>>
  BY DEF Start, streamVars, replicaVars, ghosts
<1>2. phase \in [Process -> {"up", "down"}]
  BY DEF ProcessOK
<1>3. ProcessOK' /\ DialOK' /\ RowOK'
  BY <1>1, <1>2 DEF ProcessOK, DialOK, RowOK
<1>4. UpOK' /\ PresenceIsNotInvented'
  BY <1>1, <1>2 DEF UpOK, PresenceIsNotInvented
<1>5. Started' /\ Recorded'
  BY <1>1, <1>2 DEF Started, Recorded
<1>6. Alone'
  <2> SUFFICES ASSUME ~Excused'
               PROVE  Alone'
    BY DEF Alone
  <2>1. ~rivals /\ ~overdue /\ \A q \in Process : phase[q] # "up"
    BY <1>1 DEF Excused, Up, ProcessOK
  <2>5. ~Stranded
    <3> SUFFICES ASSUME Stranded
                 PROVE  FALSE
      OBVIOUS
    <3>1. forgotten /\ row.holder \in Process /\ row.connected
      BY DEF Stranded, Forgetting
    <3>2. row.holder # p
      BY <1>0, <3>1
    <3>3. phase'[row.holder] # "up"
      BY <1>1, <1>2, <2>1, <3>1, <3>2
    <3>4. Stranded'
      BY <1>1, <3>1, <3>3 DEF Stranded, Up
    <3> QED
      BY <3>4 DEF Excused
  <2>6. ~Excused
    BY <2>1, <2>5 DEF Excused
  <2>2. \A q \in Process : phase'[q] = "up" => q = p
    BY <1>1, <1>2, <2>1
  <2>3. lost[p] = None /\ dial[p] = "idle" /\ refused[p] = None
    BY <1>0 DEF Started
  <2>4. row.connected /\ row.since # None =>
           phase'[row.holder] # "up" /\ lost[row.holder] # None /\ row.since <= lost[row.holder]
    BY <1>0, <1>1, <1>2, <2>6 DEF Alone, UpOK, RowOK, Row
  <2> QED
    BY <1>1, <2>2, <2>3, <2>4, <2>6 DEF Alone
<1>7. HelloOK' /\ Noticed'
  BY <1>1 DEF HelloOK, Noticed
<1>8. Forgetting'
  BY <1>1, <1>2 DEF Forgetting
<1>9. OneUp'
  <2> SUFFICES ASSUME ~rivals'
               PROVE  OneUp'
    BY DEF OneUp
  <2>1. \A q \in Process : phase[q] # "up"
    BY <1>1 DEF Up
  <2> QED
    BY <1>1, <1>2, <2>1 DEF OneUp
<1> QED
  BY <1>3, <1>4, <1>5, <1>6, <1>7, <1>8, <1>9

LEMMA StopStep ==
    ASSUME RegistryInv, NEW p \in Process, Stop(p)
    PROVE  RegistryInv'
<1> USE DEF RegistryInv, Typed
<1>1. /\ phase[p] = "up" /\ phase' = [phase EXCEPT ![p] = "down"]
      /\ open' = open \ {p}
      /\ lost' = [lost EXCEPT ![p] = IF p \in open THEN 0 ELSE lost[p]]
      /\ refused' = [refused EXCEPT ![p] = None]
      /\ told' = told \ {p} /\ dialed' = [dialed EXCEPT ![p] = 0]
      /\ UNCHANGED <<rivals, dial, row, issue, overdue, forgotten>>
      /\ mute' = mute \ {p} /\ lostMute' = lostMute \cup (mute \cap {p})
  BY DEF Stop, ghosts
<1>2. /\ phase \in [Process -> {"up", "down"}]
      /\ lost \in [Process -> MaybeAge(ReapWithin)]
      /\ refused \in [Process -> MaybeAge(ReportAfter)]
      /\ dialed \in [Process -> Age(BackoffCap)]
  BY DEF ProcessOK, DialOK
<1>3. /\ 0 \in MaybeAge(ReapWithin) /\ 0 \in Age(BackoffCap) /\ None \in MaybeAge(ReportAfter)
      /\ 0 # None
  BY Constants DEF MaybeAge, Age
<1>4. ProcessOK' /\ DialOK' /\ RowOK'
  BY <1>1, <1>2, <1>3 DEF ProcessOK, DialOK, RowOK
<1>5. UpOK'
  BY <1>1, <1>2 DEF UpOK, ProcessOK, DialOK
<1>6. PresenceIsNotInvented'
  BY <1>1, <1>2, <1>3 DEF PresenceIsNotInvented
<1>7. Started'
  BY <1>1, <1>2, <1>3 DEF Started
<1>8. Recorded'
  BY <1>1, <1>2, <1>3 DEF Recorded
<1>9. Alone'
  <2> SUFFICES ASSUME ~Excused'
               PROVE  Alone'
    BY DEF Alone
  <2>3. ~Excused
    <3>1. Up' \subseteq Up
      BY <1>1, <1>2 DEF Up
    <3> QED
      BY <1>1, <3>1 DEF Excused, Stranded
  <2>1. row.connected /\ row.since # None =>
           phase'[row.holder] # "up" /\ lost'[row.holder] # None /\ row.since <= lost'[row.holder]
    BY <1>1, <1>2, <2>3 DEF Alone, UpOK, RowOK, Row
  <2>2. \A q \in Process : phase'[q] = "up" => phase[q] = "up" /\ refused'[q] = refused[q]
    BY <1>1, <1>2
  <2> QED
    BY <1>1, <2>1, <2>2, <2>3 DEF Alone
<1>10. HelloOK'
  <2>1. mute \in SUBSET open /\ lostMute \in SUBSET Process /\ open \in SUBSET Process
    BY DEF HelloOK, ProcessOK
  <2>2. mute' \in SUBSET open' /\ lostMute' \in SUBSET Process
    BY <1>1, <2>1
  <2>3. \A q \in lostMute' : lost'[q] # None
    BY <1>1, <1>2, <1>3, <2>1 DEF HelloOK
  <2> QED
    BY <1>1, <2>2, <2>3 DEF HelloOK
<1>11. Forgetting'
  BY <1>1, <1>2 DEF Forgetting
<1>12. Noticed' /\ OneUp'
  BY <1>1, <1>2, Constants DEF Noticed, OneUp
<1> QED
  BY <1>4, <1>5, <1>6, <1>7, <1>8, <1>9, <1>10, <1>11, <1>12

(* A step that changes no more than what the row says besides the stream    *)
(* and its refusals.                                                        *)
LEMMA PollStep ==
    ASSUME RegistryInv, NEW p \in Process, Poll(p)
    PROVE  RegistryInv'
<1> USE DEF RegistryInv, Typed
<1>1. /\ row' = Reported(p, row)
      /\ UNCHANGED <<phase, rivals, open, lost, mute, lostMute, dial, dialed, refused, told,
                     issue, overdue, forgotten>>
  BY DEF Poll, processVars, streamVars, replicaVars, ghosts
<1>2. /\ row' \in Row /\ row'.connected = row.connected /\ row'.holder = row.holder
      /\ row'.since = row.since /\ row'.collided = row.collided
  BY <1>1, NotedFacts DEF RowOK
<1>3. ProcessOK' /\ DialOK' /\ RowOK' /\ UpOK'
  BY <1>1, <1>2 DEF ProcessOK, DialOK, RowOK, UpOK
<1>4. PresenceIsNotInvented' /\ Started' /\ Recorded'
  BY <1>1, <1>2 DEF PresenceIsNotInvented, Started, Recorded
<1>5. HelloOK' /\ Forgetting' /\ Noticed' /\ OneUp'
  BY <1>1, <1>2 DEF HelloOK, Forgetting, Noticed, OneUp
<1>6. Alone'
  BY <1>1, <1>2, SameExcuses DEF Alone
<1> QED
  BY <1>3, <1>4, <1>5, <1>6

LEMMA HealthProbeStep ==
    ASSUME RegistryInv, HealthProbe
    PROVE  RegistryInv'
<1> USE DEF RegistryInv, Typed
<1>1. /\ issue' = FALSE
      /\ UNCHANGED <<phase, rivals, open, lost, mute, lostMute, dial, dialed, refused, told,
                     row, overdue, forgotten>>
  BY DEF HealthProbe, processVars, streamVars, replicaVars, ghosts
<1>2. ProcessOK' /\ DialOK' /\ RowOK' /\ UpOK'
  BY <1>1 DEF ProcessOK, DialOK, RowOK, UpOK
<1>3. PresenceIsNotInvented' /\ Started' /\ Recorded'
  BY <1>1 DEF PresenceIsNotInvented, Started, Recorded
<1>4. HelloOK' /\ Forgetting' /\ Noticed' /\ OneUp'
  BY <1>1 DEF HelloOK, Forgetting, Noticed, OneUp
<1>5. Alone'
  BY <1>1, SameExcuses DEF Alone
<1> QED
  BY <1>2, <1>3, <1>4, <1>5

(* A task takes its first step. *)
LEMMA SendHelloStep ==
    ASSUME RegistryInv, NEW p \in Process, SendHello(p)
    PROVE  RegistryInv'
<1> USE DEF RegistryInv, Typed
<1>1. /\ mute' \subseteq mute /\ lostMute' \subseteq lostMute
      /\ UNCHANGED <<phase, rivals, open, lost, dial, dialed, refused, told, row, issue,
                     overdue, forgotten>>
  BY DEF SendHello, processVars, replicaVars, ghosts
<1>2. ProcessOK' /\ DialOK' /\ RowOK' /\ UpOK' /\ HelloOK'
  BY <1>1 DEF ProcessOK, DialOK, RowOK, UpOK, HelloOK
<1>3. PresenceIsNotInvented' /\ Started' /\ Recorded'
  BY <1>1 DEF PresenceIsNotInvented, Started, Recorded
<1>4. Forgetting' /\ Noticed' /\ OneUp'
  BY <1>1 DEF Forgetting, Noticed, OneUp
<1>5. Alone'
  BY <1>1, SameExcuses DEF Alone
<1> QED
  BY <1>2, <1>3, <1>4, <1>5

(* The ways a connection or its task ends. *)
LEMMA LoseStep ==
    ASSUME RegistryInv, NEW p \in Process, Lose(p)
    PROVE  RegistryInv'
<1> USE DEF RegistryInv, Typed
<1>1. /\ p \in open /\ open' = open \ {p} /\ lost' = [lost EXCEPT ![p] = 0]
      /\ mute' = mute \ {p} /\ lostMute' = lostMute \cup (mute \cap {p})
      /\ UNCHANGED <<phase, rivals, dial, dialed, refused, told, row, issue, overdue,
                     forgotten>>
  BY DEF Lose, processVars, replicaVars, ghosts
<1>2. lost \in [Process -> MaybeAge(ReapWithin)]
  BY DEF ProcessOK
<1>3. 0 \in MaybeAge(ReapWithin) /\ 0 # None
  BY Constants, ZeroFacts
<1>4. ProcessOK' /\ DialOK' /\ RowOK' /\ UpOK'
  BY <1>1, <1>2, <1>3 DEF ProcessOK, DialOK, RowOK, UpOK
<1>5. phase[p] = "up"
  BY <1>1 DEF UpOK
<1>6. PresenceIsNotInvented'
  BY <1>1, <1>2, <1>3 DEF PresenceIsNotInvented
<1>7. Started' /\ Recorded'
  BY <1>1, <1>2, <1>5 DEF Started, Recorded
<1>8. Alone'
  <2>1. \A q \in Process : q # p => lost'[q] = lost[q]
    BY <1>1, <1>2
  <2>2. row.connected => row.holder \in Process
    BY DEF UpOK, RowOK, Row
  <2> QED
    BY <1>1, <1>5, <2>1, <2>2, SameExcuses DEF Alone
<1>9. HelloOK'
  <2>1. mute \in SUBSET open /\ lostMute \in SUBSET Process /\ open \in SUBSET Process
    BY DEF HelloOK, ProcessOK
  <2>2. mute' \in SUBSET open' /\ lostMute' \in SUBSET Process
    BY <1>1, <2>1
  <2>3. \A q \in lostMute' : lost'[q] # None
    BY <1>1, <1>2, <1>3, <2>1 DEF HelloOK
  <2> QED
    BY <1>1, <2>2, <2>3 DEF HelloOK
<1>10. Forgetting'
  BY <1>1, <1>2 DEF Forgetting
<1>11. Noticed' /\ OneUp'
  BY <1>1, <1>2, Constants DEF Noticed, OneUp
<1> QED
  BY <1>4, <1>6, <1>7, <1>8, <1>9, <1>10, <1>11

LEMMA EndStep ==
    ASSUME RegistryInv, NEW p \in Process, EndLost(p) \/ EndLagged(p)
    PROVE  RegistryInv'
<1> USE DEF RegistryInv, Typed
<1>1. /\ row' = Closed(p, row)
      /\ UNCHANGED <<phase, rivals, mute, lostMute, dial, dialed, refused, told, issue,
                     overdue, forgotten>>
      /\ \/ lost[p] # None /\ p \notin lostMute
            /\ lost' = [lost EXCEPT ![p] = None] /\ open' = open
         \/ p \in open /\ p \notin mute /\ lost' = lost /\ open' = open \ {p}
  BY DEF EndLost, EndLagged, processVars, replicaVars, ghosts
<1>2. lost \in [Process -> MaybeAge(ReapWithin)] /\ None \in MaybeAge(ReapWithin)
  BY Constants, ZeroFacts DEF ProcessOK
<1>3. /\ row' \in Row /\ row'.holder = row.holder /\ row'.since = row.since
      /\ row'.connected => row.connected /\ row.holder # p
      /\ row'.collided = row.collided
  BY <1>1, ClosedFacts DEF RowOK
<1>4. /\ open' \subseteq open /\ \A q \in Process : q # p => lost'[q] = lost[q]
      /\ \A q \in open : q # p => q \in open'
      /\ lost' \in [Process -> MaybeAge(ReapWithin)]
      /\ \A q \in Process : lost[q] = None => lost'[q] = None
  BY <1>1, <1>2
<1>5. ProcessOK' /\ DialOK' /\ RowOK' /\ UpOK'
  BY <1>1, <1>3, <1>4 DEF ProcessOK, DialOK, RowOK, UpOK
<1>6. row'.connected => row.holder \in Process /\ row.holder # p
  BY <1>3 DEF UpOK, RowOK, Row
<1>7. PresenceIsNotInvented'
  BY <1>1, <1>3, <1>4, <1>6 DEF PresenceIsNotInvented
<1>8. Started' /\ Recorded'
  BY <1>1, <1>3, <1>4 DEF Started, Recorded
<1>9. Alone'
  BY <1>1, <1>3, <1>4, <1>6, SameExcuses DEF Alone
<1>10. HelloOK'
  BY <1>1, <1>2 DEF HelloOK
<1>11. Forgetting'
  <2> SUFFICES ASSUME forgotten
               PROVE  Forgetting'
    BY <1>1 DEF Forgetting
  <2>1. /\ row.connected /\ row.holder \in Process /\ row.holder \notin open
        /\ lost[row.holder] = None
    BY DEF Forgetting
  <2>2. row.holder # p
    BY <1>1, <2>1
  <2>3. row' = row
    BY <1>1, <2>2 DEF Closed
  <2> QED
    BY <1>1, <1>4, <2>1, <2>3 DEF Forgetting
<1>12. Noticed' /\ OneUp'
  BY <1>1, <1>4 DEF Noticed, OneUp
<1> QED
  BY <1>5, <1>7, <1>8, <1>9, <1>10, <1>11, <1>12

(* A task that ends past stream_closed strands the row, unless the process  *)
(* is there to dial again.                                                  *)
LEMMA EndUnsaidStep ==
    ASSUME RegistryInv, NEW p \in Process, EndUnsaid(p)
    PROVE  RegistryInv'
<1> USE DEF RegistryInv, Typed
<1>1. /\ p \in lostMute /\ lostMute' = lostMute \ {p}
      /\ lost' = [lost EXCEPT ![p] = None]
      /\ forgotten' = (forgotten \/ (row.connected /\ row.holder = p /\ p \notin open))
      /\ UNCHANGED <<phase, rivals, open, mute, dial, dialed, refused, told, row, issue,
                     overdue>>
  BY DEF EndUnsaid, processVars, replicaVars
<1>2. /\ lost \in [Process -> MaybeAge(ReapWithin)] /\ None \in MaybeAge(ReapWithin)
      /\ lost[p] # None
  BY <1>1, Constants, ZeroFacts DEF ProcessOK, HelloOK
<1>3. /\ lost' \in [Process -> MaybeAge(ReapWithin)]
      /\ lost'[p] = None /\ \A q \in Process \ {p} : lost'[q] = lost[q]
  BY <1>1, <1>2
<1>4. ProcessOK' /\ DialOK' /\ RowOK' /\ UpOK'
  BY <1>1, <1>3 DEF ProcessOK, DialOK, RowOK, UpOK
<1>5. HelloOK'
  <2>1. forgotten' \in BOOLEAN
    BY <1>1
  <2> QED
    BY <1>1, <1>3, <2>1 DEF HelloOK
<1>6. row.connected => row.holder \in Process
  BY DEF UpOK, RowOK, Row
<1>7. PresenceIsNotInvented'
  BY <1>1, <1>3, <1>6 DEF PresenceIsNotInvented
<1>8. Started' /\ Recorded'
  BY <1>1, <1>3 DEF Started, Recorded
<1>9. Forgetting'
  BY <1>1, <1>2, <1>3 DEF Forgetting
<1>10. Noticed' /\ OneUp'
  BY <1>1, <1>3 DEF Noticed, OneUp
<1>11. Alone'
  <2> SUFFICES ASSUME ~Excused'
               PROVE  Alone'
    BY DEF Alone
  <2>1. ~Excused
    BY <1>1 DEF Excused, Stranded, Up
  <2>2. ASSUME row.connected, row.since # None PROVE row.holder # p
    <3> SUFFICES ASSUME row.holder = p
                 PROVE  FALSE
      OBVIOUS
    <3>1. phase[p] # "up"
      BY <2>1, <2>2 DEF Alone
    <3>2. p \notin open
      BY <3>1 DEF UpOK
    <3>3. forgotten'
      BY <1>1, <2>2, <3>2
    <3>4. Stranded'
      BY <1>1, <3>1, <3>3 DEF Stranded, Up
    <3> QED
      BY <3>4 DEF Excused
  <2> QED
    BY <1>1, <1>3, <1>6, <2>1, <2>2 DEF Alone
<1> QED
  BY <1>4, <1>5, <1>7, <1>8, <1>9, <1>10, <1>11

LEMMA DialStep ==
    ASSUME RegistryInv, NEW p \in Process, Dial(p)
    PROVE  RegistryInv'
<1> USE DEF RegistryInv, Typed
<1> DEFINE r == Noted(row)
<1>1. /\ phase[p] = "up" /\ dial[p] = "idle" /\ p \notin open
      /\ UNCHANGED <<phase, rivals, lost, lostMute, dialed, refused, told, issue, overdue>>
  BY DEF Dial, processVars, replicaVars, streamVars
<1>2. /\ dial \in [Process -> {"idle", "refused", "persists", "admitted"}]
      /\ refused \in [Process -> MaybeAge(ReportAfter)]
      /\ lost \in [Process -> MaybeAge(ReapWithin)]
      /\ dialed \in [Process -> Age(BackoffCap)]
  BY DEF DialOK, ProcessOK
<1>r. /\ r \in Row /\ r.connected = row.connected /\ r.holder = row.holder
      /\ r.since = row.since /\ r.collided = row.collided
  BY NotedFacts DEF RowOK
<1>3. CASE Holds(p, r)
  <2>1. /\ row' = Refusal(r) /\ UNCHANGED <<open, mute, forgotten>>
        /\ dial' = [dial EXCEPT ![p] =
                IF Refusal(r).since >= ReportAfter THEN "persists" ELSE "refused"]
    BY <1>3 DEF Dial, streamVars
  <2>2. /\ row.connected /\ row.holder # p /\ row.holder \in Process
    BY <1>3, <1>r DEF Holds, Row
  <2>3. /\ row' \in Row /\ row'.connected = row.connected /\ row'.holder = row.holder
        /\ row'.collided = 0 /\ row'.since \in Nat
        /\ row'.since = 0 \/ (row.since # None /\ row'.since = row.since)
        /\ row.since # None /\ row.collided # None /\ row.collided <= Expiry
             => row'.since = row.since
    BY <1>r, <2>1, RefusalFacts
  <2>4. /\ dial'[p] \in {"refused", "persists"}
        /\ dial'[p] = "persists" => row'.since >= ReportAfter
        /\ dial'[p] = "refused" => ~(row'.since >= ReportAfter)
        /\ \A q \in Process \ {p} : dial'[q] = dial[q]
        /\ dial' \in [Process -> {"idle", "refused", "persists", "admitted"}]
    BY <1>2, <2>1
  <2>5. ProcessOK' /\ DialOK' /\ RowOK' /\ UpOK'
    BY <1>1, <2>1, <2>3, <2>4 DEF ProcessOK, DialOK, RowOK, UpOK
  <2>6. PresenceIsNotInvented' /\ Started'
    BY <1>1, <2>1, <2>3, <2>4 DEF PresenceIsNotInvented, Started
  <2>7. Recorded'
    <3>1. \A q \in Process : dialed[q] \in Nat /\ 0 <= dialed[q] /\ 0 # None
      BY <1>2, Constants DEF Age
    <3> QED
      BY <1>1, <2>1, <2>3, <2>4, <3>1 DEF Recorded
  <2>8. Alone'
    <3> SUFFICES ASSUME ~Excused'
                 PROVE  Alone'
      BY DEF Alone
    <3>0. ~Excused
      BY <1>1, <2>1, <2>3, SameExcuses
    <3>1. \A q \in Process : phase[q] = "up" => q = p
      BY <1>1, <3>0 DEF OneUp, Excused
    <3>2. row.holder \notin open
      BY <2>2, <3>1 DEF UpOK
    <3>3. lost[row.holder] # None /\ phase[row.holder] # "up"
      BY <2>2, <3>0, <3>1, <3>2 DEF PresenceIsNotInvented, Excused, Stranded, Up
    <3>4. lost[row.holder] \in Nat /\ lost[row.holder] < ReportAfter
      BY <1>2, <2>2, <3>0, <3>3, Constants, AgeFacts DEF Noticed, Excused
    <3>5. row'.since <= lost[row.holder]
      BY <2>2, <2>3, <3>0, <3>4 DEF Alone
    <3>6. row'.since < ReportAfter /\ row'.since # None
      BY <2>3, <3>4, <3>5, Constants
    <3>7. dial'[p] = "refused"
      BY <2>3, <2>4, <3>6, Constants
    <3>8. refused[p] # None => refused[p] <= row'.since
      <4> SUFFICES ASSUME refused[p] # None
                   PROVE  refused[p] <= row'.since
        OBVIOUS
      <4>1. row.collided # None /\ row.collided <= dialed[p] /\ dialed[p] <= BackoffCap
        BY <1>2 DEF Recorded, Age
      <4>2. row.collided \in Nat /\ dialed[p] \in Nat
        BY <1>2, <4>1, Constants DEF RowOK, Row, MaybeAge, Age
      <4>3. row.collided <= Expiry
        BY <4>1, <4>2, Constants
      <4>4. row.since # None /\ refused[p] <= row.since
        BY <1>1, <3>0 DEF Alone
      <4> QED
        BY <2>3, <4>1, <4>3, <4>4
    <3>9. told = {} /\ ~issue /\ \A q \in Process : dial'[q] # "persists"
      BY <2>4, <3>0, <3>7 DEF Alone
    <3> QED
      BY <1>1, <2>3, <3>1, <3>3, <3>5, <3>6, <3>8, <3>9 DEF Alone
  <2>9. HelloOK' /\ Forgetting' /\ Noticed' /\ OneUp'
    BY <1>1, <2>1, <2>3 DEF HelloOK, Forgetting, Noticed, OneUp
  <2> QED
    BY <2>5, <2>6, <2>7, <2>8, <2>9
<1>4. CASE ~Holds(p, r)
  <2>1. /\ row' = Admission(p, r) /\ open' = open \cup {p}
        /\ mute' = mute \cup {p} /\ forgotten' = FALSE
        /\ dial' = [dial EXCEPT ![p] = "admitted"]
    BY <1>4 DEF Dial
  <2>2. /\ row' \in Row /\ row'.connected = TRUE /\ row'.holder = p
        /\ row'.since = None /\ row'.collided = row.collided
    BY <1>r, <2>1, AdmissionFacts
  <2>3. /\ dial'[p] = "admitted" /\ \A q \in Process \ {p} : dial'[q] = dial[q]
        /\ dial' \in [Process -> {"idle", "refused", "persists", "admitted"}]
    BY <1>2, <2>1
  <2>4. ProcessOK' /\ DialOK' /\ RowOK'
    BY <1>1, <2>1, <2>2, <2>3 DEF ProcessOK, DialOK, RowOK
  <2>5. UpOK'
    BY <1>1, <2>1, <2>2, Constants DEF UpOK
  <2>6. PresenceIsNotInvented' /\ Started'
    BY <1>1, <2>1, <2>2, <2>3 DEF PresenceIsNotInvented, Started
  <2>7. Recorded'
    BY <1>1, <2>1, <2>2, <2>3 DEF Recorded
  <2>8. Alone'
    <3> SUFFICES ASSUME ~Excused'
                 PROVE  Alone'
      BY DEF Alone
    <3>0. ~Stranded
      <4> SUFFICES ASSUME Stranded
                   PROVE  FALSE
        OBVIOUS
      <4>1. row.connected /\ row.holder \in Process /\ row.holder \notin Up
        BY DEF Stranded, Forgetting
      <4>2. row.holder = p
        BY <1>4, <1>r, <4>1, Constants DEF Holds
      <4> QED
        BY <1>1, <4>1, <4>2 DEF Up
    <3>1. ~Excused /\ ~rivals
      BY <1>1, <3>0 DEF Excused
    <3>2. \A q \in Process : phase[q] = "up" => q = p
      BY <1>1, <3>1 DEF OneUp
    <3> QED
      BY <1>1, <2>2, <2>3, <3>1, <3>2 DEF Alone
  <2>9. HelloOK' /\ Forgetting' /\ Noticed' /\ OneUp'
    BY <1>1, <2>1 DEF HelloOK, Forgetting, Noticed, OneUp
  <2> QED
    BY <2>4, <2>5, <2>6, <2>7, <2>8, <2>9
<1> QED
  BY <1>3, <1>4

LEMMA AnswerStep ==
    ASSUME RegistryInv, NEW p \in Process, Answer(p)
    PROVE  RegistryInv'
<1> USE DEF RegistryInv, Typed
<1>1. /\ dial[p] # "idle" /\ dial' = [dial EXCEPT ![p] = "idle"]
      /\ issue' = (dial[p] = "persists" \/ (issue /\ dial[p] # "admitted"))
      /\ UNCHANGED <<phase, rivals, open, lost, mute, lostMute, row, overdue, forgotten>>
  BY DEF Answer, processVars, streamVars, ghosts
<1>2. /\ dial \in [Process -> {"idle", "refused", "persists", "admitted"}]
      /\ refused \in [Process -> MaybeAge(ReportAfter)]
      /\ dialed \in [Process -> Age(BackoffCap)]
      /\ told \in SUBSET Process
  BY DEF DialOK
<1>3. /\ 0 \in Age(BackoffCap) /\ 0 \in MaybeAge(ReportAfter)
      /\ None \in MaybeAge(ReportAfter) /\ 0 # None
  BY Constants, ZeroFacts
<1>4. /\ dial' \in [Process -> {"idle", "refused", "persists", "admitted"}]
      /\ dial'[p] = "idle" /\ \A q \in Process \ {p} : dial'[q] = dial[q]
  BY <1>1, <1>2
<1>5. issue' \in BOOLEAN
  BY <1>1
<1>8. HelloOK' /\ Forgetting' /\ Noticed' /\ OneUp'
  BY <1>1 DEF HelloOK, Forgetting, Noticed, OneUp
<1>9. Excused' = Excused
  BY <1>1, SameExcuses
<1>6. CASE phase[p] # "up"
  <2>1. UNCHANGED <<dialed, refused, told>>
    BY <1>6 DEF Answer, replicaVars
  <2>2. refused[p] = None
    BY <1>6 DEF Started
  <2>3. ProcessOK' /\ DialOK' /\ RowOK' /\ UpOK'
    BY <1>1, <1>4, <1>5, <2>1 DEF ProcessOK, DialOK, RowOK, UpOK
  <2>4. PresenceIsNotInvented' /\ Started' /\ Recorded'
    BY <1>1, <1>4, <2>1, <2>2 DEF PresenceIsNotInvented, Started, Recorded
  <2>5. Alone'
    <3> SUFFICES ASSUME ~Excused
                 PROVE  Alone'
      BY <1>9 DEF Alone
    <3>1. ~issue'
      BY <1>1 DEF Alone
    <3> QED
      BY <1>1, <1>4, <1>6, <2>1, <3>1 DEF Alone
  <2> QED
    BY <1>8, <2>3, <2>4, <2>5
<1>7. CASE phase[p] = "up"
  <2>1. /\ dialed' = [dialed EXCEPT ![p] = 0]
        /\ refused' = [refused EXCEPT ![p] =
               IF dial[p] = "admitted" THEN None
               ELSE IF refused[p] = None THEN 0 ELSE refused[p]]
        /\ told' = IF dial[p] = "admitted" THEN told \ {p}
                   ELSE IF refused'[p] >= ReportAfter THEN told \cup {p} ELSE told
    BY <1>7 DEF Answer
  <2>2. /\ dialed' \in [Process -> Age(BackoffCap)]
        /\ dialed'[p] = 0 /\ \A q \in Process \ {p} : dialed'[q] = dialed[q]
    BY <1>2, <1>3, <2>1
  <2>3. /\ refused' \in [Process -> MaybeAge(ReportAfter)]
        /\ \A q \in Process \ {p} : refused'[q] = refused[q]
        /\ dial[p] = "admitted" => refused'[p] = None
        /\ dial[p] # "admitted" => refused'[p] = IF refused[p] = None THEN 0 ELSE refused[p]
    BY <1>2, <1>3, <2>1
  <2>4. told' \in SUBSET Process /\ \A q \in told' : q \in told \/ q = p
    BY <1>2, <2>1
  <2>5. dial[p] = "admitted" \/ dial[p] \in {"refused", "persists"}
    BY <1>1, <1>2
  <2>6. ProcessOK' /\ DialOK' /\ RowOK'
    BY <1>1, <1>4, <1>5, <2>2, <2>3, <2>4 DEF ProcessOK, DialOK, RowOK
  <2>7. UpOK'
    BY <1>1, <1>7, <2>4 DEF UpOK
  <2>8. PresenceIsNotInvented' /\ Started'
    BY <1>1, <1>4, <1>7, <2>3 DEF PresenceIsNotInvented, Started
  <2>9. Recorded'
    <3>1. refused'[p] # None => row.collided = 0 /\ p \notin open
      BY <2>3, <2>5 DEF Recorded
    <3> QED
      BY <1>1, <1>3, <1>4, <2>2, <2>3, <3>1 DEF Recorded
  <2>10. Alone'
    <3> SUFFICES ASSUME ~Excused
                 PROVE  Alone'
      BY <1>9 DEF Alone
    <3>1. dial[p] # "persists"
      BY DEF Alone
    <3>2. ~issue'
      BY <1>1, <3>1 DEF Alone
    <3>3. dial[p] = "refused" =>
             row.since # None /\ row.since < ReportAfter /\ refused'[p] <= row.since
      <4> SUFFICES ASSUME dial[p] = "refused"
                   PROVE  row.since # None /\ row.since < ReportAfter /\ refused'[p] <= row.since
        OBVIOUS
      <4>1. row.since # None /\ row.since < ReportAfter
        BY <1>7 DEF Alone
      <4>2. refused[p] # None => refused[p] <= row.since
        BY <1>7 DEF Alone
      <4>3. row.since \in Nat
        BY <4>1, Constants DEF RowOK, Row, MaybeAge, Age
      <4> QED
        BY <2>3, <4>1, <4>2, <4>3
    <3>4. told' = {}
      <4>1. told = {}
        BY DEF Alone
      <4>2. CASE dial[p] = "admitted"
        BY <2>1, <4>1, <4>2
      <4>3. CASE dial[p] = "refused"
        <5>1. refused'[p] \in Nat /\ row.since \in Nat
          BY <1>3, <2>3, <3>3, <4>3, Constants DEF RowOK, Row, MaybeAge, Age
        <5> QED
          BY <2>1, <3>3, <4>1, <4>3, <5>1, Constants
      <4> QED
        BY <2>5, <3>1, <4>2, <4>3
    <3>5. refused'[p] # None => dial[p] = "refused"
      BY <2>3, <2>5, <3>1
    <3> QED
      BY <1>1, <1>4, <2>3, <3>2, <3>3, <3>4, <3>5 DEF Alone
  <2> QED
    BY <1>8, <2>6, <2>7, <2>8, <2>9, <2>10
<1> QED
  BY <1>6, <1>7

LEMMA TickStep ==
    ASSUME RegistryInv, Tick
    PROVE  RegistryInv'
<1> USE DEF RegistryInv, Typed
<1>1. /\ \A p \in Process : dial[p] = "idle"
      /\ \A p \in Up \ open : dialed[p] < BackoffCap
      /\ \A p \in Process : lost[p] # None => lost[p] < ReapWithin
      /\ dialed' = [p \in Process |-> IF p \in Up \ open THEN dialed[p] + 1 ELSE 0]
      /\ lost' = [p \in Process |-> Older(lost[p], ReapWithin)]
      /\ refused' = [p \in Process |-> Older(refused[p], ReportAfter)]
      /\ overdue' = (overdue \/ \E p \in Process :
                                   lost'[p] # None /\ lost'[p] >= ReportAfter)
      /\ UNCHANGED <<phase, rivals, open, mute, lostMute, dial, told, issue, forgotten>>
  BY DEF Tick, processVars
<1>2. /\ lost \in [Process -> MaybeAge(ReapWithin)]
      /\ refused \in [Process -> MaybeAge(ReportAfter)]
      /\ dialed \in [Process -> Age(BackoffCap)]
  BY DEF ProcessOK, DialOK
<1>3. /\ row' \in Row /\ row'.connected = row.connected /\ row'.holder = row.holder
      /\ row'.since = Older(row.since, ReportAfter)
      /\ row'.collided = Older(row.collided, Expiry + 1)
  BY OlderRow DEF Tick, RowOK
<1>4. /\ row.since \in MaybeAge(ReportAfter) /\ row.collided \in MaybeAge(Expiry + 1)
      /\ ReapWithin \in Nat /\ ReportAfter \in Nat /\ Expiry + 1 \in Nat /\ BackoffCap \in Nat
      /\ None \notin Nat
  BY Constants DEF RowOK, Row
<1>5. \A p \in Process :
         /\ lost'[p] \in MaybeAge(ReapWithin)
         /\ lost'[p] = None <=> lost[p] = None
         /\ lost[p] # None => lost'[p] = lost[p] + 1 /\ lost[p] \in Nat
  <2> SUFFICES ASSUME NEW p \in Process
               PROVE  /\ lost'[p] \in MaybeAge(ReapWithin)
                      /\ lost'[p] = None <=> lost[p] = None
                      /\ lost[p] # None => lost'[p] = lost[p] + 1 /\ lost[p] \in Nat
    OBVIOUS
  <2>1. lost[p] \in MaybeAge(ReapWithin) /\ lost'[p] = Older(lost[p], ReapWithin)
    BY <1>1, <1>2
  <2>2. lost[p] # None => lost[p] < ReapWithin
    BY <1>1
  <2> QED
    BY <1>4, <2>1, <2>2, AgeFacts
<1>6. \A p \in Process :
         /\ refused'[p] \in MaybeAge(ReportAfter)
         /\ refused'[p] = None <=> refused[p] = None
         /\ refused'[p] = Older(refused[p], ReportAfter)
  BY <1>1, <1>2, <1>4, AgeFacts
<1>7. \A p \in Process :
         /\ dialed'[p] \in Age(BackoffCap) /\ dialed[p] \in Nat
         /\ phase[p] = "up" /\ p \notin open => dialed'[p] = dialed[p] + 1
  <2>1. 0 \in Age(BackoffCap)
    BY Constants, ZeroFacts
  <2> QED
    BY <1>1, <1>2, <1>4, <2>1 DEF Up, Age
<1>8. ProcessOK' /\ DialOK' /\ RowOK' /\ UpOK'
  <2>1. ProcessOK'
    BY <1>1, <1>5 DEF ProcessOK
  <2>2. DialOK'
    BY <1>1, <1>6, <1>7 DEF DialOK
  <2> QED
    BY <1>1, <1>3, <2>1, <2>2 DEF RowOK, UpOK
<1>9. PresenceIsNotInvented'
  <2>1. row.connected => row.holder \in Process
    BY DEF UpOK, RowOK, Row
  <2> QED
    BY <1>1, <1>3, <1>5, <2>1 DEF PresenceIsNotInvented
<1>10. Started'
  BY <1>1, <1>5, <1>6 DEF Started
<1>11. Recorded'
  <2> SUFFICES ASSUME NEW p \in Process, refused'[p] # None
               PROVE  /\ row'.collided # None /\ row'.collided <= dialed'[p]
                      /\ p \notin open
    BY <1>1 DEF Recorded
  <2>1. refused[p] # None /\ phase[p] = "up" /\ p \notin open
    BY <1>1, <1>6 DEF Started, Recorded
  <2>2. row.collided # None /\ row.collided <= dialed[p]
    BY <2>1 DEF Recorded
  <2>3. /\ row'.collided # None
        /\ row'.collided = row.collided + 1 \/ row'.collided = row.collided
        /\ row.collided \in Nat
    BY <1>3, <1>4, <2>2, AgeFacts DEF MaybeAge, Age, Older, AtMost
  <2> QED
    BY <1>7, <2>1, <2>2, <2>3
<1>12. HelloOK'
  <2>1. overdue' \in BOOLEAN
    BY <1>1 DEF HelloOK
  <2> QED
    BY <1>1, <1>5, <2>1 DEF HelloOK
<1>13. Forgetting'
  BY <1>1, <1>3, <1>5 DEF Forgetting
<1>14. Noticed'
  <2> SUFFICES ASSUME ~overdue', NEW p \in Process, lost'[p] # None
               PROVE  lost'[p] < ReportAfter
    BY DEF Noticed
  <2>1. ~(lost'[p] >= ReportAfter)
    BY <1>1
  <2>2. lost'[p] \in Nat
    BY <1>4, <1>5
  <2> QED
    BY <1>4, <2>1, <2>2
<1>15. OneUp'
  BY <1>1 DEF OneUp
<1>16. Alone'
  <2> SUFFICES ASSUME ~Excused'
               PROVE  Alone'
    BY DEF Alone
  <2>0. ~Excused
    BY <1>1, <1>3 DEF Excused, Stranded, Up
  <2>1. row'.connected /\ row'.since # None =>
           phase[row'.holder] # "up" /\ lost'[row'.holder] # None
           /\ row'.since <= lost'[row'.holder]
    <3> SUFFICES ASSUME row.connected, row'.since # None
                 PROVE  phase[row.holder] # "up" /\ lost'[row.holder] # None
                        /\ row'.since <= lost'[row.holder]
      BY <1>3
    <3>1. row.holder \in Process
      BY DEF UpOK, RowOK, Row
    <3>2. row.since # None
      BY <1>3, <1>4, AgeFacts
    <3>3. /\ phase[row.holder] # "up" /\ lost[row.holder] # None
          /\ row.since <= lost[row.holder]
      BY <2>0, <3>2 DEF Alone
    <3>4. row.since \in Nat /\ row'.since \in Nat /\ row'.since <= row.since + 1
      BY <1>3, <1>4, <3>2 DEF MaybeAge, Age, Older, AtMost
    <3> QED
      BY <1>5, <3>1, <3>3, <3>4
  <2>2. \A p \in Process : phase[p] = "up" /\ refused'[p] # None =>
           row'.since # None /\ refused'[p] <= row'.since
    <3> SUFFICES ASSUME NEW p \in Process, phase[p] = "up", refused'[p] # None
                 PROVE  row'.since # None /\ refused'[p] <= row'.since
      OBVIOUS
    <3>1. refused[p] # None /\ dial[p] # "admitted"
      BY <1>1, <1>6
    <3>2. row.since # None /\ refused[p] <= row.since
      BY <2>0, <3>1 DEF Alone
    <3>3. refused[p] \in Nat /\ row.since \in Nat
      BY <1>2, <1>4, <3>1, <3>2, AgeFacts
    <3>4. refused'[p] = AtMost(refused[p] + 1, ReportAfter)
      BY <1>6, <3>1 DEF Older
    <3>5. row'.since = AtMost(row.since + 1, ReportAfter)
      BY <1>3, <3>2 DEF Older
    <3> QED
      BY <1>4, <3>2, <3>3, <3>4, <3>5 DEF AtMost
  <2> QED
    BY <1>1, <1>3, <2>0, <2>1, <2>2 DEF Alone
<1> QED
  BY <1>8, <1>9, <1>10, <1>11, <1>12, <1>13, <1>14, <1>15, <1>16

-----------------------------------------------------------------------------
LEMMA RegistryStep ==
    ASSUME RegistryInv, [Next]_vars
    PROVE  RegistryInv'
<1>1. CASE \E p \in Process : Start(p) \/ Stop(p) \/ Poll(p) \/ Dial(p)
  BY <1>1, StartStep, StopStep, PollStep, DialStep
<1>2. CASE \E p \in Process : Answer(p) \/ Lose(p) \/ EndLost(p) \/ EndLagged(p)
  BY <1>2, AnswerStep, LoseStep, EndStep
<1>6. CASE \E p \in Process : SendHello(p) \/ EndUnsaid(p)
  BY <1>6, SendHelloStep, EndUnsaidStep
<1>3. CASE HealthProbe
  BY <1>3, HealthProbeStep
<1>4. CASE Tick
  BY <1>4, TickStep
<1>5. CASE UNCHANGED vars
  <2>1. UNCHANGED <<phase, rivals, open, lost, mute, lostMute, dial, dialed, refused, told,
                    row, issue, overdue, forgotten>>
    BY <1>5 DEF vars, processVars, streamVars, replicaVars, ghosts
  <2>2. Typed'
    BY <2>1 DEF RegistryInv, Typed, ProcessOK, DialOK, RowOK, UpOK, HelloOK
  <2>3. PresenceIsNotInvented' /\ Started' /\ Recorded'
    BY <2>1 DEF RegistryInv, PresenceIsNotInvented, Started, Recorded
  <2>4. Forgetting' /\ Noticed' /\ OneUp'
    BY <2>1 DEF RegistryInv, Forgetting, Noticed, OneUp
  <2>5. Alone'
    BY <2>1, SameExcuses DEF RegistryInv, Alone
  <2> QED
    BY <2>2, <2>3, <2>4, <2>5 DEF RegistryInv
<1> QED
  BY <1>1, <1>2, <1>3, <1>4, <1>5, <1>6 DEF Next

LEMMA RegistryInvariant == Spec => []RegistryInv
<1>1. Init => RegistryInv
  BY InitRegistry
<1>2. RegistryInv /\ [Next]_vars => RegistryInv'
  BY RegistryStep
<1> QED
  BY <1>1, <1>2, PTL DEF Spec

(* Every row, connection and replica keeps its type (ReplicaPresence,       *)
(* stream_opened, stream_closed, run_event_stream).                         *)
THEOREM RegistryTypeCorrect == Spec => []TypeOK
<1>1. RegistryInv => TypeOK
  <2> SUFFICES ASSUME RegistryInv
               PROVE  TypeOK
    OBVIOUS
  <2>1. open \subseteq Up /\ told \subseteq Up
    BY DEF RegistryInv, Typed, UpOK, ProcessOK, DialOK, Up
  <2> QED
    BY <2>1 DEF RegistryInv, Typed, ProcessOK, DialOK, RowOK, UpOK, HelloOK, TypeOK
<1> QED
  BY <1>1, RegistryInvariant, PTL

(* A row never says connected of a process without a connection, in any     *)
(* order of admissions, losses and closes, but for a stream that ended      *)
(* before its hello (stream_opened, stream_closed).                         *)
THEOREM PresenceIsWitnessed == Spec => []PresenceIsNotInvented
<1>1. RegistryInv => PresenceIsNotInvented
  BY DEF RegistryInv
<1> QED
  BY <1>1, RegistryInvariant, PTL

(* However often replicas restart, and whatever connections they lose, no   *)
(* side reports a collision unless two processes were up at once, a dead    *)
(* connection lasted for as long as it takes to report one, or the row is   *)
(* stranded (stream_opened, COLLISION_REPORT_AFTER_SECS).                   *)
THEOREM RestartsAreNotReported == Spec => []RestartIsNoCollision
<1>1. RegistryInv => RestartIsNoCollision
  BY DEF RegistryInv, Alone, Excused, RestartIsNoCollision
<1> QED
  BY <1>1, RegistryInvariant, PTL

(* A collision that a master forgets is over: no process that is up is      *)
(* being refused, provided refused replicas dial again before a collision   *)
(* expires (expire_collisions, MAXIMUM_RECONNECT_BACKOFF_MS).               *)
THEOREM ExpiryIsSafe == Spec => ExpiryMeansGone
<1>1. RegistryInv /\ [Next]_vars => [HealthProbe => \A p \in Up : refused[p] = None]_vars
  <2> SUFFICES ASSUME RegistryInv, HealthProbe, NEW p \in Process, refused[p] # None
               PROVE  FALSE
    BY DEF Up
  <2>1. row.collided # None /\ row.collided > Expiry
    BY DEF HealthProbe, Expired
  <2>2. row.collided <= dialed[p] /\ dialed[p] <= BackoffCap /\ dialed[p] \in Nat
    BY Constants DEF RegistryInv, Typed, DialOK, Recorded, Age
  <2>3. row.collided \in Nat
    BY <2>1, Constants DEF RegistryInv, Typed, RowOK, Row, MaybeAge, Age
  <2> QED
    BY <2>1, <2>2, <2>3, Constants
<1> QED
  BY <1>1, RegistryInvariant, PTL DEF Spec, ExpiryMeansGone

LEMMA AtMostFacts ==
    ASSUME NEW m \in Nat, NEW n \in Nat, NEW cap \in Nat, m <= n
    PROVE  AtMost(m, cap) \in Nat /\ AtMost(n, cap) \in Nat /\ AtMost(m, cap) <= AtMost(n, cap)
BY DEF AtMost

LEMMA SilentAfterGrows ==
    ASSUME NEW i \in Nat, NEW j \in Nat, i <= j
    PROVE  /\ SilentAfter(i) <= SilentAfter(j)
           /\ SilentAfter(i) \in Nat /\ SilentAfter(j) \in Nat
<1> DEFINE stated(k) == AtMost(AtMost(k, MaxSecs) * 2, MaxSecs)
           clamped(k) == IF stated(k) < SilentMinimum THEN SilentMinimum
                         ELSE AtMost(stated(k), SilentMaximum)
<1>1. /\ SilentMinimum \in Nat /\ SilentMaximum \in Nat /\ MaxSecs \in Nat
      /\ SilentMinimum <= SilentMaximum
      /\ i # None /\ j # None
  BY Constants
<1>2. SilentAfter(i) = clamped(i) /\ SilentAfter(j) = clamped(j)
  BY <1>1 DEF SilentAfter
<1>3. /\ AtMost(i, MaxSecs) \in Nat /\ AtMost(j, MaxSecs) \in Nat
      /\ AtMost(i, MaxSecs) <= AtMost(j, MaxSecs)
  BY <1>1, AtMostFacts
<1>4. stated(i) \in Nat /\ stated(j) \in Nat /\ stated(i) <= stated(j)
  <2>1. /\ AtMost(i, MaxSecs) * 2 \in Nat /\ AtMost(j, MaxSecs) * 2 \in Nat
        /\ AtMost(i, MaxSecs) * 2 <= AtMost(j, MaxSecs) * 2
    BY <1>3
  <2> QED
    BY <1>1, <2>1, AtMostFacts
<1> HIDE DEF stated
<1>5. /\ AtMost(stated(i), SilentMaximum) \in Nat /\ AtMost(stated(j), SilentMaximum) \in Nat
      /\ AtMost(stated(i), SilentMaximum) <= AtMost(stated(j), SilentMaximum)
      /\ stated(j) >= SilentMinimum => AtMost(stated(j), SilentMaximum) >= SilentMinimum
  BY <1>1, <1>4, AtMostFacts DEF AtMost
<1>6. clamped(i) \in Nat /\ clamped(j) \in Nat /\ clamped(i) <= clamped(j)
  BY <1>1, <1>4, <1>5
<1> QED
  BY <1>2, <1>6

(* A slower replica is tolerated for longer, whatever numbers the intervals *)
(* are and wherever a product of them saturates (silent_after_secs).        *)
THEOREM SlowerReplicasAreTolerated == Spec => []SlowerIsTolerated
<1>1. RegistryInv => SlowerIsTolerated
  <2> SUFFICES ASSUME RegistryInv, NEW i \in 0..(2 * MaxSecs), NEW j \in 0..(2 * MaxSecs),
                      i <= j, Silent([row EXCEPT !.interval = j])
               PROVE  Silent([row EXCEPT !.interval = i])
    BY DEF SlowerIsTolerated
  <2>1. row \in Row
    BY DEF RegistryInv, Typed, RowOK
  <2>2. /\ [row EXCEPT !.interval = j].contact = row.contact
        /\ [row EXCEPT !.interval = i].contact = row.contact
        /\ [row EXCEPT !.interval = j].interval = j
        /\ [row EXCEPT !.interval = i].interval = i
    BY <2>1 DEF Row
  <2>3. SilentAfter(i) <= SilentAfter(j) /\ SilentAfter(i) \in Nat /\ SilentAfter(j) \in Nat
    BY SilentAfterGrows, Constants
  <2>4. row.contact # None => row.contact \in Nat
    BY <2>1, Constants DEF Row, MaybeAge, Age
  <2> QED
    BY <2>2, <2>3, <2>4 DEF Silent
<1> QED
  BY <1>1, RegistryInvariant, PTL
=============================================================================
