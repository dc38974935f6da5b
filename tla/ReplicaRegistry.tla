--------------------------- MODULE ReplicaRegistry ---------------------------
(* A master's row for one node id: which process holds the notification     *)
(* stream under that name, who is refused it, and what health then says.    *)
(* The processes are numbered in the order they start; a restart is a Stop  *)
(* followed by a Start, a misconfigured second replica is a Start without   *)
(* the Stop.  Timestamps are kept as ages, in an arbitrary unit, and only   *)
(* as far as some comparison of the code tells them apart.                  *)
EXTENDS Integers, FiniteSets

CONSTANTS
    Processes,      \* how many processes ever start under this name
    AtOnce,         \* how many of them are up at once, at most
    None,
    PollInterval,   \* poll_interval_secs of the replicas
    ReapWithin,     \* how long a dead connection may go unnoticed
    ReportAfter,    \* COLLISION_REPORT_AFTER_SECS
    Expiry,         \* COLLISION_EXPIRY_SECS
    BackoffCap,     \* MAXIMUM_RECONNECT_BACKOFF_MS
    SilentMinimum,  \* REPLICA_SILENT_MINIMUM_SECS
    SilentMaximum,  \* REPLICA_SILENT_MAXIMUM_SECS
    MaxSecs         \* i64::MAX

Process == 1..Processes

(* Refused replicas dial again well before a collision expires, and a       *)
(* threshold is a number of seconds.  Nothing is assumed of how long a dead *)
(* connection goes unnoticed: two heartbeats (ReportAfter) is what the      *)
(* master counts on, and a socket may take longer to fail.                  *)
ASSUME DialsOutpaceExpiry ==
    /\ Processes \in Nat /\ AtOnce \in Nat
    /\ PollInterval \in Nat /\ None \notin Int
    /\ ReapWithin \in Nat /\ ReportAfter \in Nat \ {0} /\ Expiry \in Nat
    /\ BackoffCap \in Nat \ {0}
    /\ BackoffCap <= Expiry
    /\ SilentMinimum \in Nat /\ SilentMaximum \in Nat /\ MaxSecs \in Nat
    /\ SilentMinimum <= SilentMaximum /\ SilentMaximum <= MaxSecs

VARIABLES
    phase,      \* of each process: "up" or "down"
    open,       \* the processes with a notification stream
    lost,       \* of each, how long ago it lost one that has not ended here
    mute,       \* the open streams whose task has yet to send its hello
    lostMute,   \* the lost ones whose task has yet to send its hello
    dial,       \* what the events handler decided, until it has answered
    dialed,     \* how long ago each process last had an answer
    refused,    \* how long it has been refused: its collision_since
    told,       \* the processes that report a collision themselves
    row,        \* the ReplicaPresence
    issue,      \* the master's collision issue
    rivals,     \* whether two processes were ever up at once
    overdue,    \* whether a dead connection ever lasted for ReportAfter
    forgotten   \* whether the row stays connected for a stream that ended

processVars == <<phase, rivals>>
streamVars == <<open, lost, mute, lostMute>>
replicaVars == <<dialed, refused, told>>
ghosts == <<overdue, forgotten>>
vars == <<processVars, streamVars, dial, replicaVars, row, issue, ghosts>>

Up == {p \in Process : phase[p] = "up"}

-----------------------------------------------------------------------------
(* Ages. *)

AtMost(n, cap) == IF n < cap THEN n ELSE cap
Older(age, cap) == IF age = None THEN None ELSE AtMost(age + 1, cap)

(* Mutant: a product that overflows is no answer, and falls back.          *)
SilentAfterChecked(interval) ==
    LET stated == IF interval = None \/ interval * 2 > MaxSecs THEN SilentMinimum
                  ELSE interval * 2
    IN  IF stated < SilentMinimum THEN SilentMinimum
        ELSE AtMost(stated, SilentMaximum)

(* silent_after_secs: multiplications saturate *)
SilentAfter(interval) ==
    LET stated == IF interval = None THEN SilentMinimum
                  ELSE AtMost(AtMost(interval, MaxSecs) * 2, MaxSecs)
    IN  IF stated < SilentMinimum THEN SilentMinimum
        ELSE AtMost(stated, SilentMaximum)

Silent(r) == r.contact = None \/ r.contact > SilentAfter(r.interval)

(* master_status; what replicas report of their passes is left out          *)
Verdict ==
    IF issue \/ row.sync = "halted" THEN "halted"
    ELSE IF row.contact # None /\ ~row.connected /\ Silent(row) THEN "degraded"
    ELSE "healthy"

-----------------------------------------------------------------------------
Init ==
    /\ phase = [p \in Process |-> "down"]
    /\ open = {}
    /\ lost = [p \in Process |-> None]
    /\ dial = [p \in Process |-> "idle"]
    /\ dialed = [p \in Process |-> 0]
    /\ refused = [p \in Process |-> None]
    /\ told = {}
    /\ row = [connected |-> FALSE, holder |-> None, contact |-> None,
              interval |-> None, sync |-> None, since |-> None, collided |-> None]
    /\ issue = FALSE
    /\ rivals = FALSE
    /\ mute = {} /\ lostMute = {}
    /\ overdue = FALSE /\ forgotten = FALSE

(* Nothing is left of a process that is down, if there ever was one: what   *)
(* starts next under its number is another process.                         *)
Forgot(p) ==
    /\ phase[p] = "down" /\ lost[p] = None /\ dial[p] = "idle"
    /\ ~(row.connected /\ row.holder = p)

Start(p) ==
    /\ Forgot(p)
    /\ Cardinality(Up) < AtOnce
    /\ phase' = [phase EXCEPT ![p] = "up"]
    /\ rivals' = (rivals \/ Up # {})
    /\ UNCHANGED <<streamVars, dial, replicaVars, row, issue, ghosts>>

(* Whether the master sees the connection go is EndLost's business.         *)
Stop(p) ==
    /\ phase[p] = "up" /\ (p \in open => lost[p] = None)
    /\ phase' = [phase EXCEPT ![p] = "down"]
    /\ open' = open \ {p}
    /\ lost' = [lost EXCEPT ![p] = IF p \in open THEN 0 ELSE @]
    /\ mute' = mute \ {p}
    /\ lostMute' = lostMute \cup (mute \cap {p})
    /\ refused' = [refused EXCEPT ![p] = None]
    /\ told' = told \ {p}
    /\ dialed' = [dialed EXCEPT ![p] = 0]
    /\ UNCHANGED <<rivals, dial, row, issue, ghosts>>

(* note_request: every request of a replica states the interval             *)
Noted(r) == [r EXCEPT !.contact = 0, !.interval = PollInterval]

(* sync_status: an open issue is a halt                                     *)
SyncStatus(p) == IF p \in told THEN "halted" ELSE "synced"

(* Mutant: a report counts as long as no worse one has come.                *)
ReportedWorst(p, r) ==
    [Noted(r) EXCEPT !.sync = IF @ = "halted" THEN @ ELSE SyncStatus(p)]

(* The state poll, the one request that reports                             *)
Reported(p, r) == [Noted(r) EXCEPT !.sync = SyncStatus(p)]

Poll(p) ==
    /\ phase[p] = "up"
    /\ row' = Reported(p, row)
    /\ UNCHANGED <<processVars, streamVars, dial, replicaVars, issue, ghosts>>

(* stream_opened *)
Holds(p, r) == r.connected /\ r.holder # None /\ r.holder # p

Refusal(r) ==
    LET fresh == r.collided = None \/ r.collided > Expiry
    IN  [r EXCEPT !.since = IF fresh \/ @ = None THEN 0 ELSE @, !.collided = 0]

(* Mutant: the run of refusals outlives the stream that ended it.           *)
AdmissionKeepsRun(p, r) ==
    [r EXCEPT !.connected = TRUE, !.contact = 0, !.holder = p]

Admission(p, r) ==
    [r EXCEPT !.connected = TRUE, !.contact = 0, !.holder = p, !.since = None]

(* replication_events, up to its decision *)
Dial(p) ==
    /\ phase[p] = "up" /\ dial[p] = "idle" /\ p \notin open
    /\ LET r == Noted(row) IN
       IF Holds(p, r)
       THEN LET after == Refusal(r) IN
            /\ row' = after
            /\ dial' = [dial EXCEPT ![p] =
                   IF after.since >= ReportAfter THEN "persists" ELSE "refused"]
            /\ UNCHANGED <<streamVars, forgotten>>
       ELSE /\ row' = Admission(p, r)
            /\ open' = open \cup {p}
            /\ mute' = mute \cup {p}
            /\ forgotten' = FALSE
            /\ UNCHANGED <<lost, lostMute>>
            /\ dial' = [dial EXCEPT ![p] = "admitted"]
    /\ UNCHANGED <<processVars, replicaVars, issue, overdue>>

(* The rest of it: the issue is raised or cleared after the row was let go, *)
(* and the replica reads the answer.                                        *)
Answer(p) ==
    /\ dial[p] # "idle"
    /\ dial' = [dial EXCEPT ![p] = "idle"]
    /\ issue' = (dial[p] = "persists" \/ (issue /\ dial[p] # "admitted"))
    /\ IF phase[p] # "up" THEN UNCHANGED replicaVars
       ELSE /\ dialed' = [dialed EXCEPT ![p] = 0]
            /\ refused' = [refused EXCEPT ![p] =
                   IF dial[p] = "admitted" THEN None ELSE IF @ = None THEN 0 ELSE @]
            /\ told' = IF dial[p] = "admitted" THEN told \ {p}
                       ELSE IF refused'[p] >= ReportAfter THEN told \cup {p}
                       ELSE told
    /\ UNCHANGED <<processVars, streamVars, row, ghosts>>

(* What the task of a stream does first, at some point after the answer:    *)
(* the hello goes into a channel whose other end is still there, dead or    *)
(* not.                                                                     *)
SendHello(p) ==
    /\ dial[p] # "admitted"
    /\ \/ p \in mute /\ mute' = mute \ {p} /\ UNCHANGED lostMute
       \/ p \in lostMute /\ lostMute' = lostMute \ {p} /\ UNCHANGED mute
    /\ UNCHANGED <<processVars, open, lost, dial, replicaVars, row, issue, ghosts>>

(* A partition or a proxy: the replica's end is gone, the master's is not.  *)
Lose(p) ==
    /\ p \in open /\ dial[p] # "admitted" /\ lost[p] = None
    /\ open' = open \ {p}
    /\ lost' = [lost EXCEPT ![p] = 0]
    /\ mute' = mute \ {p}
    /\ lostMute' = lostMute \cup (mute \cap {p})
    /\ UNCHANGED <<processVars, dial, replicaVars, row, issue, ghosts>>

(* Mutant: a connection that dies takes its task with it, without a word.   *)
ClosedUntold(p, r) == r

(* stream_closed *)
Closed(p, r) ==
    IF r.holder # p THEN r ELSE [r EXCEPT !.connected = FALSE, !.contact = 0]

(* The master notices that a connection is dead, and its task ends.         *)
EndLost(p) ==
    /\ lost[p] # None /\ p \notin lostMute
    /\ lost' = [lost EXCEPT ![p] = None]
    /\ row' = Closed(p, row)
    /\ UNCHANGED <<processVars, open, mute, lostMute, dial, replicaVars, issue, ghosts>>

(* It notices before the task has sent its hello: the send fails, and the   *)
(* task returns past stream_closed.                                         *)
EndUnsaid(p) ==
    /\ p \in lostMute /\ dial[p] # "admitted"
    /\ lost' = [lost EXCEPT ![p] = None]
    /\ lostMute' = lostMute \ {p}
    /\ forgotten' = (forgotten \/ (row.connected /\ row.holder = p /\ p \notin open))
    /\ UNCHANGED <<processVars, open, mute, dial, replicaVars, row, issue, overdue>>

(* The task of an open stream ends because its subscriber lagged.           *)
EndLagged(p) ==
    /\ p \in open \ mute /\ dial[p] # "admitted"
    /\ open' = open \ {p}
    /\ row' = Closed(p, row)
    /\ UNCHANGED <<processVars, lost, mute, lostMute, dial, replicaVars, issue, ghosts>>

(* Mutant: counted from the first refusal instead of the last.              *)
ExpiredSinceFirst(r) == r.since # None /\ r.since >= ReportAfter

(* build_health: expire_collisions *)
Expired(r) == r.collided # None /\ r.collided > Expiry

HealthProbe ==
    /\ issue /\ Expired(row)
    /\ issue' = FALSE
    /\ UNCHANGED <<processVars, streamVars, dial, replicaVars, row, ghosts>>

(* Time passes, as long as nothing that has to happen by then is due: an    *)
(* answer, the first step of a task, a reconnect attempt, the end of a lost *)
(* connection.                                                              *)
Tick ==
    /\ \A p \in Process : dial[p] = "idle"
    /\ mute = {} /\ lostMute = {}
    /\ \A p \in Up \ open : dialed[p] < BackoffCap
    /\ \A p \in Process : lost[p] # None => lost[p] < ReapWithin
    /\ dialed' = [p \in Process |-> IF p \in Up \ open THEN dialed[p] + 1 ELSE 0]
    /\ lost' = [p \in Process |-> Older(lost[p], ReapWithin)]
    /\ refused' = [p \in Process |-> Older(refused[p], ReportAfter)]
    /\ row' = [row EXCEPT !.contact = Older(@, SilentMaximum + 1),
                          !.since = Older(@, ReportAfter),
                          !.collided = Older(@, Expiry + 1)]
    /\ overdue' = (overdue \/ \E p \in Process :
                                 lost'[p] # None /\ lost'[p] >= ReportAfter)
    /\ UNCHANGED <<processVars, open, mute, lostMute, dial, told, issue, forgotten>>

Next ==
    \/ \E p \in Process :
          \/ Start(p) \/ Stop(p) \/ Poll(p) \/ Dial(p) \/ Answer(p)
          \/ SendHello(p) \/ Lose(p) \/ EndLost(p) \/ EndUnsaid(p) \/ EndLagged(p)
    \/ HealthProbe
    \/ Tick

Spec == Init /\ [][Next]_vars

(* Replicas keep dialling and polling, handlers answer, tasks take their    *)
(* first step, dead connections are noticed, monitors probe, and time       *)
(* passes.  Nothing has to start, stop or break.                           *)
Fairness ==
    /\ \A p \in Process :
          /\ WF_vars(Dial(p)) /\ WF_vars(Answer(p)) /\ WF_vars(Poll(p))
          /\ WF_vars(SendHello(p)) /\ WF_vars(EndLost(p))
    /\ WF_vars(HealthProbe)
    /\ WF_vars(Tick)

FairSpec == Spec /\ Fairness

-----------------------------------------------------------------------------
Age(cap) == 0..cap
MaybeAge(cap) == Age(cap) \cup {None}
Row == [connected : BOOLEAN, holder : Process \cup {None},
        contact : MaybeAge(SilentMaximum + 1), interval : {PollInterval, None},
        sync : {"synced", "halted", None},
        since : MaybeAge(ReportAfter), collided : MaybeAge(Expiry + 1)]

(* The type invariant of the row, the connections and the replicas.         *)
TypeOK ==
    /\ phase \in [Process -> {"up", "down"}]
    /\ open \subseteq Up
    /\ lost \in [Process -> MaybeAge(ReapWithin)]
    /\ dial \in [Process -> {"idle", "refused", "persists", "admitted"}]
    /\ dialed \in [Process -> Age(BackoffCap)]
    /\ refused \in [Process -> MaybeAge(ReportAfter)]
    /\ told \subseteq Up
    /\ row \in Row /\ (row.connected => row.holder # None)
    /\ issue \in BOOLEAN /\ rivals \in BOOLEAN
    /\ mute \subseteq open /\ \A p \in lostMute : p \in Process /\ lost[p] # None
    /\ overdue \in BOOLEAN /\ forgotten \in BOOLEAN

(* The row is held for a process that is gone, by a stream whose task ended *)
(* before its hello: nothing on the master will ever release it.            *)
Stranded == forgotten /\ row.holder \notin Up

(* A replica that restarts, however often, is refused but never reported:   *)
(* neither side raises a collision unless two processes really were up at   *)
(* once, or a dead connection went unnoticed for as long as it takes to     *)
(* report one, or the row is stranded (stream_opened, run_event_stream).    *)
RestartIsNoCollision == issue \/ told # {} => rivals \/ overdue \/ Stranded

(* A row says that a stream is connected only while the process it names    *)
(* has a connection whose task has not ended, but for the one way a task    *)
(* ends without saying so, before its hello (stream_opened, stream_closed,  *)
(* and the return of replication_events at routes/replication.rs:385).      *)
PresenceIsNotInvented ==
    row.connected => row.holder \in open \/ lost[row.holder] # None \/ forgotten

(* A master forgets a collision only once nobody is being refused: refused  *)
(* replicas dial again before it expires (expire_collisions against the     *)
(* reconnect backoff).                                                      *)
ExpiryMeansGone ==
    [][HealthProbe => \A p \in Up : refused[p] = None]_vars

(* The slower a replica says it polls, the longer its silence is tolerated, *)
(* up to numbers that do not fit (silent_after_secs).                       *)
SlowerIsTolerated ==
    \A i, j \in 0..(2 * MaxSecs) :
        i <= j /\ Silent([row EXCEPT !.interval = j])
        => Silent([row EXCEPT !.interval = i])

(* Once the same process, or none, is all that is ever up under a name, the *)
(* collision goes away by itself, on both sides, unless the row is stranded. *)
CollisionsClear ==
    (\E S \in {{}} \cup {{p} : p \in Process} : <>[](Up = S /\ ~Stranded))
    => <>[](~issue /\ told = {} /\ \A p \in Up : refused[p] = None)

(* Once every process of a known replica is gone, health says so and goes   *)
(* on saying so, unless the row is stranded.                                *)
DarkIsNoticed ==
    <>[](Up = {} /\ ~Stranded) /\ <>(row.contact # None) => <>[](Verdict # "healthy")

(* A collision leaves no mark on what health says of the replica that is    *)
(* left: alone, polling and not up against a stranded row, it is called     *)
(* healthy again and again, whatever it or its rival once reported          *)
(* (note_request, master_status).                                           *)
VerdictRecovers ==
    <>[]((\E p \in Process : Up = {p}) /\ ~Stranded) => []<>(Verdict = "healthy")

(* REPLICATION.md:72 and the doc of stream_closed: a process that connects  *)
(* again replaces its own connection, and the row is not marked closed when *)
(* the older connection's task finally ends.                                *)
LateCloseIsIgnored ==
    row.holder \in open => row.connected
=============================================================================
