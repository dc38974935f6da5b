-------------------------- MODULE TenantStoreProofs --------------------------
(***************************************************************************)
(* Proofs about TenantStore, for any number of writers, readers, writes,   *)
(* deletions, dropped clients and faults: its type, that it implements     *)
(* TenantLog, that a maintenance pass loses nothing HEAD reaches, that a   *)
(* read finds all of what it opened, and that every commit is told while   *)
(* clients wait.                                                           *)
(*                                                                         *)
(* That an enqueued write is told in commit order does not follow from the *)
(* order of the actions alone: the work of a client that went away goes on *)
(* without the lock.  The invariant says who holds the lock, that numbers  *)
(* of writes are never reused, and where in the log the commit is that a   *)
(* waiting handler is about to publish.                                    *)
(***************************************************************************)
EXTENDS TenantStore, TLAPS

Job == [step : {"none", "open", "content", "commit", "ref", "committed",
                "remove", "removed", "nothing"},
        write : 0..MaxWrites, base : 0..MaxWrites, era : Nat]

PassState ==
    [step : {"none", "list", "select", "pack", "loose", "packs", "end"},
     loose : SUBSET Object, before : SUBSET SUBSET Object, pack : SUBSET Object]

Reading == [step : {"none", "look", "failed", "error"}, needs : SUBSET Object,
            era : Nat]

(* The parts of TypeOK, as the actions disturb them. *)
DiskOK ==
    /\ exists \in BOOLEAN
    /\ history \in Seq(1..MaxWrites)
    /\ loose \in SUBSET Object /\ packs \in SUBSET SUBSET Object
    /\ era \in Nat
RequestOK ==
    /\ lock \in Writer \cup {Maintenance, Free}
    /\ handler \in [Writer -> {"idle", "locking", "waiting"}]
    /\ job \in [Writer -> Job]
    /\ writes \in 0..MaxWrites /\ deletes \in 0..MaxDeletes
    /\ drops \in 0..MaxDrops /\ faults \in 0..MaxFaults
MaintenanceOK ==
    /\ prune \in BOOLEAN
    /\ slot \in {"none", "armed", "running"}
    /\ pass \in PassState
ToldOK ==
    /\ log \in Seq(1..MaxWrites) /\ queue \in Seq(1..MaxWrites)
    /\ announced \in (0..MaxWrites) \cup {Absent}
ReadOK == read \in [Reader -> Reading]

(* A write under way has a number of its own, not yet in the log. *)
Unborn == {"open", "content", "commit", "ref"}
Numbered ==
    /\ \A w \in Writer : job[w].write <= writes
    /\ \A w \in Writer : job[w].step \in Unborn \cup {"committed"} => job[w].write # 0
    /\ \A v, w \in Writer : job[v].write = job[w].write /\ v # w => job[w].write = 0
    /\ \A k \in DOMAIN log : log[k] <= writes
    /\ \A w \in Writer : job[w].step \in Unborn =>
          \A k \in DOMAIN log : log[k] # job[w].write

(* A handler that waits holds the lock; so does a pass that runs. *)
Locked ==
    /\ \A w \in Writer : handler[w] = "waiting" => lock = w
    /\ pass.step # "none" => lock = Maintenance

(* Place k of the log is where what was told so far is all before. *)
After(k) == \A i \in DOMAIN queue : \E j \in 1..(k - 1) : log[j] = queue[i]
Placed ==
    /\ \A i \in DOMAIN queue : \E j \in DOMAIN log : log[j] = queue[i]
    /\ \A w \in Writer : handler[w] = "waiting" /\ job[w].step = "committed" =>
          \E k \in DOMAIN log : log[k] = job[w].write /\ After(k)

Typed == DiskOK /\ RequestOK /\ MaintenanceOK /\ ToldOK /\ ReadOK
StoreInv == Typed /\ Numbered /\ Locked /\ Placed

LEMMA TypedIsTypeOK == Typed <=> TypeOK
BY DEF Typed, TypeOK, DiskOK, RequestOK, MaintenanceOK, ToldOK, ReadOK, Job,
       PassState, Reading

-----------------------------------------------------------------------------
LEMMA ObjectFacts ==
    ASSUME NEW n \in 1..MaxWrites
    PROVE  Content(n) \in Object /\ Commit(n) \in Object
BY DEF Content, Commit, Object

LEMMA HeadFacts ==
    ASSUME NEW h \in Seq(1..MaxWrites), StoreConstants
    PROVE  HeadOf(h) \in 0..MaxWrites /\ Reachable(h) \in SUBSET Object
<1>1. HeadOf(h) \in 0..MaxWrites
  <2>1. CASE h = <<>>
    BY <2>1 DEF HeadOf, StoreConstants
  <2>2. CASE h # <<>>
    <3>1. Len(h) \in DOMAIN h /\ Last(h) = h[Len(h)]
      BY <2>2 DEF Last
    <3>2. h[Len(h)] \in 1..MaxWrites
      BY <3>1
    <3> QED
      BY <2>2, <3>1, <3>2 DEF HeadOf
  <2> QED
    BY <2>1, <2>2
<1>2. \A i \in DOMAIN h : h[i] \in 1..MaxWrites
  OBVIOUS
<1>3. \A i \in DOMAIN h : Content(h[i]) \in Object /\ Commit(h[i]) \in Object
  BY <1>2, ObjectFacts
<1> QED
  BY <1>1, <1>3 DEF Reachable

(* A job that goes on is still a job. *)
LEMMA JobFacts ==
    ASSUME NEW j \in Job
    PROVE  /\ \A s \in {"none", "open", "content", "commit", "ref", "committed",
                        "remove", "removed", "nothing"} :
                 [j EXCEPT !.step = s] \in Job
           /\ \A b \in 0..MaxWrites, e \in Nat :
                 [j EXCEPT !.step = "content", !.base = b, !.era = e] \in Job
BY DEF Job

(* What the client did, and where the handler is. *)
LEMMA HandlersTyped ==
    ASSUME StoreConstants, Typed, Numbered, NEW w \in Writer,
           Request(w) \/ Handle(w) \/ Disconnect(w) \/ Forget(w)
    PROVE  Typed'
<1> USE DEF Typed
<1>n. /\ MaxWrites \in Nat /\ MaxDeletes \in Nat /\ MaxDrops \in Nat
      /\ Free \in Writer \cup {Maintenance, Free} /\ NoJob \in Job
  BY DEF StoreConstants, NoJob, Job
<1>j. job[w] \in Job
  BY DEF RequestOK
<1>1. CASE Request(w)
  <2>1. DiskOK' /\ MaintenanceOK' /\ ToldOK' /\ ReadOK'
    BY <1>1 DEF Request, diskVars, toldVars, DiskOK, MaintenanceOK, ToldOK, ReadOK
  <2>2. RequestOK'
    BY <1>1 DEF Request, RequestOK
  <2> QED
    BY <2>1, <2>2
<1>2. CASE StartWrite(w)
  <2>1. DiskOK' /\ MaintenanceOK' /\ ToldOK' /\ ReadOK'
    BY <1>2 DEF StartWrite, diskVars, toldVars, DiskOK, MaintenanceOK, ToldOK, ReadOK
  <2>2. writes' \in 0..MaxWrites
    BY <1>2, <1>n DEF StartWrite, RequestOK
  <2>3. [NoJob EXCEPT !.step = "open", !.write = writes'] \in Job
    BY <2>2, <1>n DEF NoJob, Job
  <2>4. RequestOK'
    BY <1>2, <2>2, <2>3 DEF StartWrite, RequestOK
  <2> QED
    BY <2>1, <2>4
<1>3. CASE StartDelete(w)
  <2>1. DiskOK' /\ MaintenanceOK' /\ ToldOK' /\ ReadOK'
    BY <1>3 DEF StartDelete, diskVars, toldVars, DiskOK, MaintenanceOK, ToldOK, ReadOK
  <2>2. deletes' \in 0..MaxDeletes
    BY <1>3, <1>n DEF StartDelete, RequestOK
  <2>3. [NoJob EXCEPT !.step = "remove"] \in Job
    BY <1>n, JobFacts
  <2>4. RequestOK'
    BY <1>3, <2>2, <2>3 DEF StartDelete, RequestOK
  <2> QED
    BY <2>1, <2>4
<1>4. ASSUME Answer(w) PROVE DiskOK' /\ RequestOK' /\ ReadOK' /\ UNCHANGED <<prune, pass, log>>
  <2>1. DiskOK' /\ ReadOK' /\ UNCHANGED <<prune, pass, log>>
    BY <1>4 DEF Answer, diskVars, DiskOK, ReadOK
  <2>2. RequestOK'
    BY <1>4, <1>n DEF Answer, RequestOK
  <2> QED
    BY <2>1, <2>2
<1>5. CASE PublishWrite(w)
  <2>1. job[w].write \in 1..MaxWrites
    BY <1>j, <1>5 DEF PublishWrite, Numbered, Job
  <2>2. ToldOK'
    BY <1>4, <1>5, <2>1 DEF PublishWrite, ToldOK
  <2>3. MaintenanceOK'
    BY <1>4, <1>5 DEF PublishWrite, MaintenanceOK
  <2> QED
    BY <1>4, <1>5, <2>2, <2>3 DEF PublishWrite
<1>6. CASE PublishDelete(w)
  <2>1. ToldOK' /\ MaintenanceOK'
    BY <1>4, <1>6 DEF PublishDelete, ToldOK, MaintenanceOK
  <2> QED
    BY <1>4, <1>6, <2>1 DEF PublishDelete
<1>7. CASE AnswerNothingDone(w)
  <2>1. ToldOK' /\ MaintenanceOK'
    BY <1>4, <1>7 DEF AnswerNothingDone, toldVars, ToldOK, MaintenanceOK
  <2> QED
    BY <1>4, <1>7, <2>1 DEF AnswerNothingDone
<1>8. CASE Disconnect(w)
  <2>1. DiskOK' /\ MaintenanceOK' /\ ToldOK' /\ ReadOK'
    BY <1>8 DEF Disconnect, diskVars, toldVars, DiskOK, MaintenanceOK, ToldOK, ReadOK
  <2>2. drops' \in 0..MaxDrops
    BY <1>8, <1>n DEF Disconnect, RequestOK
  <2>3. RequestOK'
    BY <1>8, <1>n, <2>2 DEF Disconnect, RequestOK
  <2> QED
    BY <2>1, <2>3
<1>9. CASE Forget(w)
  <2>1. DiskOK' /\ MaintenanceOK' /\ ToldOK' /\ ReadOK'
    BY <1>9 DEF Forget, diskVars, toldVars, DiskOK, MaintenanceOK, ToldOK, ReadOK
  <2>2. RequestOK'
    BY <1>9, <1>n DEF Forget, RequestOK
  <2> QED
    BY <2>1, <2>2
<1> QED
  BY <1>1, <1>2, <1>3, <1>5, <1>6, <1>7, <1>8, <1>9 DEF Handle

(* What the blocking pool does for a write or a deletion. *)
LEMMA WorkTyped ==
    ASSUME StoreConstants, Typed, Numbered, NEW w \in Writer, Work(w)
    PROVE  Typed'
<1> USE DEF Typed
<1>n. MaxWrites \in Nat /\ MaxFaults \in Nat
  BY DEF StoreConstants
<1>j. job[w] \in Job
  BY DEF RequestOK
<1>w. job[w].step \in Unborn => job[w].write \in 1..MaxWrites
  BY <1>j DEF Numbered, Job
<1>a. ASSUME UNCHANGED poolFrame
      PROVE  MaintenanceOK' /\ ReadOK'
             /\ UNCHANGED <<lock, handler, writes, deletes, drops, queue, announced>>
  BY <1>a DEF poolFrame, toldVars, MaintenanceOK, ReadOK
<1>b. ASSUME NEW j \in Job, job' = [job EXCEPT ![w] = j], UNCHANGED poolFrame,
             faults' \in 0..MaxFaults
      PROVE  RequestOK'
  BY <1>a, <1>b DEF RequestOK
<1>c. ASSUME NEW s \in {"none", "open", "content", "commit", "ref", "committed",
                        "remove", "removed", "nothing"}, Step(w, s)
      PROVE  /\ job' = [job EXCEPT ![w] = [job[w] EXCEPT !.step = s]]
             /\ [job[w] EXCEPT !.step = s] \in Job
  BY <1>c, <1>j, JobFacts DEF Step
<1>f. UNCHANGED faults => faults' \in 0..MaxFaults
  BY DEF RequestOK
<1>1. CASE CreateRepository(w)
  <2>1. UNCHANGED poolFrame /\ UNCHANGED <<job, faults, log>>
    BY <1>1 DEF CreateRepository
  <2>2. DiskOK'
    BY <1>1 DEF CreateRepository, DiskOK
  <2>3. RequestOK' /\ ToldOK'
    BY <1>a, <2>1 DEF RequestOK, ToldOK
  <2> QED
    BY <1>a, <2>1, <2>2, <2>3
<1>2. CASE Open(w)
  <2>1. UNCHANGED poolFrame /\ UNCHANGED diskVars /\ UNCHANGED <<faults, log>>
    BY <1>2 DEF Open
  <2>2. DiskOK' /\ ToldOK'
    BY <1>a, <2>1 DEF diskVars, DiskOK, ToldOK
  <2>3. HeadOf(history) \in 0..MaxWrites /\ era \in Nat
    BY HeadFacts DEF DiskOK
  <2> DEFINE j == [job[w] EXCEPT !.step = "content", !.base = HeadOf(history), !.era = era]
  <2>4. j \in Job
    BY <1>j, <2>3, JobFacts
  <2>5. job' = [job EXCEPT ![w] = j] \/ Step(w, "nothing")
    BY <1>2 DEF Open, RequestOK
  <2>6. RequestOK'
    BY <1>b, <1>c, <1>f, <2>1, <2>4, <2>5
  <2> QED
    BY <1>a, <2>1, <2>2, <2>6
<1>3. CASE WriteContent(w) \/ WriteCommit(w)
  <2>1. /\ UNCHANGED poolFrame
        /\ UNCHANGED <<exists, history, packs, era, log, faults>>
        /\ Step(w, "commit") \/ Step(w, "ref")
        /\ loose' = loose \cup {Content(job[w].write)}
           \/ loose' = loose \cup {Commit(job[w].write)}
    BY <1>3 DEF WriteContent, WriteCommit
  <2>2. job[w].write \in 1..MaxWrites
    BY <1>3, <1>w DEF WriteContent, WriteCommit, Unborn
  <2>3. DiskOK' /\ ToldOK'
    BY <1>a, <2>1, <2>2, ObjectFacts DEF DiskOK, ToldOK
  <2>4. RequestOK'
    BY <1>b, <1>c, <1>f, <2>1
  <2> QED
    BY <1>a, <2>1, <2>3, <2>4
<1>4. CASE MoveHead(w)
  <2>1. /\ UNCHANGED poolFrame
        /\ UNCHANGED <<exists, loose, packs, era, faults>>
        /\ Step(w, "committed")
        /\ history' = Append(history, job[w].write)
        /\ log' = Append(log, job[w].write)
    BY <1>4 DEF MoveHead
  <2>2. job[w].write \in 1..MaxWrites
    BY <1>4, <1>w DEF MoveHead, Unborn
  <2>3. DiskOK' /\ ToldOK'
    BY <1>a, <2>1, <2>2 DEF DiskOK, ToldOK
  <2>4. RequestOK'
    BY <1>b, <1>c, <1>f, <2>1
  <2> QED
    BY <1>a, <2>1, <2>3, <2>4
<1>5. CASE RemoveRepository(w)
  <2>1. /\ UNCHANGED poolFrame /\ UNCHANGED <<faults, log>>
        /\ Step(w, "removed") \/ Step(w, "nothing")
    BY <1>5 DEF RemoveRepository
  <2>2. DiskOK'
    <3>1. CASE exists
      <4>1. /\ exists' = FALSE /\ history' = <<>> /\ loose' = {} /\ packs' = {}
            /\ era' = era + 1
        BY <1>5, <3>1 DEF RemoveRepository
      <4>2. /\ era + 1 \in Nat /\ <<>> \in Seq(1..MaxWrites)
            /\ {} \in SUBSET Object /\ {} \in SUBSET SUBSET Object
        BY DEF DiskOK
      <4> QED
        BY <4>1, <4>2 DEF DiskOK
    <3>2. CASE ~exists
      BY <1>5, <3>2 DEF RemoveRepository, diskVars, DiskOK
    <3> QED
      BY <3>1, <3>2
  <2>3. RequestOK' /\ ToldOK'
    BY <1>a, <1>b, <1>c, <1>f, <2>1 DEF ToldOK
  <2> QED
    BY <1>a, <2>1, <2>2, <2>3
<1>6. CASE JobFails(w)
  <2>1. /\ UNCHANGED poolFrame /\ UNCHANGED diskVars /\ UNCHANGED log
        /\ Step(w, "nothing")
    BY <1>6 DEF JobFails
  <2>2. faults' \in 0..MaxFaults
    BY <1>6, <1>n DEF JobFails, Fault, RequestOK
  <2>3. DiskOK' /\ ToldOK'
    BY <1>a, <2>1 DEF diskVars, DiskOK, ToldOK
  <2>4. RequestOK'
    BY <1>b, <1>c, <2>1, <2>2
  <2> QED
    BY <1>a, <2>1, <2>3, <2>4
<1> QED
  BY <1>1, <1>2, <1>3, <1>4, <1>5, <1>6 DEF Work

(* A pass keeps the objects it deals with among the objects there are. *)
LEMMA PassTyped ==
    ASSUME StoreConstants, Typed, StartPass \/ Pass
    PROVE  Typed'
<1> USE DEF Typed
<1>n. MaxFaults \in Nat /\ Maintenance \in Writer \cup {Maintenance, Free}
      /\ Free \in Writer \cup {Maintenance, Free} /\ NoPass \in PassState
  BY DEF StoreConstants, NoPass, PassState
<1>p. pass \in PassState
  BY DEF MaintenanceOK
<1>a. UNCHANGED passFrame
  BY DEF Pass, StartPass, ListObjects, SelectObjects, WritePack, RemoveLoose,
         RemovePacks, PassFails, EndPass
<1>b. ToldOK' /\ ReadOK'
      /\ UNCHANGED <<prune, handler, job, writes, deletes, drops>>
  BY <1>a DEF passFrame, ToldOK, ReadOK
<1>c. ASSUME lock' \in {lock, Maintenance, Free}, faults' \in 0..MaxFaults
      PROVE  RequestOK'
  BY <1>b, <1>c, <1>n DEF RequestOK
<1>d. ASSUME slot' \in {"none", "running", slot}, pass' \in PassState
      PROVE  MaintenanceOK'
  BY <1>b, <1>d DEF MaintenanceOK
<1>f. /\ UNCHANGED faults => faults' \in 0..MaxFaults
      /\ UNCHANGED diskVars => DiskOK'
  BY DEF RequestOK, diskVars, DiskOK
<1>1. CASE StartPass
  <2>1. pass' \in PassState
    BY <1>1, <1>n DEF StartPass, NoPass, PassState
  <2> QED
    BY <1>1, <1>b, <1>c, <1>d, <1>f, <2>1 DEF StartPass
<1>2. CASE ListObjects
  <2>1. pass' \in PassState
    BY <1>2, <1>p DEF ListObjects, PassState, DiskOK
  <2> QED
    BY <1>2, <1>b, <1>c, <1>d, <1>f, <2>1 DEF ListObjects
<1>3. CASE SelectObjects
  <2>1. Stored \in SUBSET Object /\ Reachable(history) \cap Stored \in SUBSET Object
    BY DEF Stored, DiskOK
  <2>2. pass' \in PassState
    BY <1>3, <1>p, <2>1 DEF SelectObjects, PassState
  <2> QED
    BY <1>3, <1>b, <1>c, <1>d, <1>f, <2>2 DEF SelectObjects
<1>4. CASE WritePack
  <2>1. pass.pack \in SUBSET Object
    BY <1>p DEF PassState
  <2>2. DiskOK'
    BY <1>4, <2>1 DEF WritePack, DiskOK
  <2>3. pass' \in PassState
    BY <1>4, <1>p DEF WritePack, PassState
  <2> QED
    BY <1>4, <1>b, <1>c, <1>d, <1>f, <2>2, <2>3 DEF WritePack
<1>5. CASE RemoveLoose
  <2>1. DiskOK'
    BY <1>5 DEF RemoveLoose, DiskOK
  <2>2. pass' \in PassState
    BY <1>5, <1>p DEF RemoveLoose, PassState
  <2> QED
    BY <1>5, <1>b, <1>c, <1>d, <1>f, <2>1, <2>2 DEF RemoveLoose
<1>6. CASE RemovePacks
  <2>1. DiskOK'
    BY <1>6 DEF RemovePacks, DiskOK
  <2>2. pass' \in PassState
    BY <1>6, <1>p DEF RemovePacks, PassState
  <2> QED
    BY <1>6, <1>b, <1>c, <1>d, <1>f, <2>1, <2>2 DEF RemovePacks
<1>7. CASE PassFails
  <2>1. faults' \in 0..MaxFaults
    BY <1>7, <1>n DEF PassFails, Fault, RequestOK
  <2>2. pass' \in PassState
    BY <1>7, <1>p DEF PassFails, PassState
  <2> QED
    BY <1>7, <1>b, <1>c, <1>d, <1>f, <2>1, <2>2 DEF PassFails
<1>8. CASE EndPass
  BY <1>8, <1>n, <1>b, <1>c, <1>d, <1>f DEF EndPass
<1> QED
  BY <1>1, <1>2, <1>3, <1>4, <1>5, <1>6, <1>7, <1>8 DEF Pass

(* Reads, and a crash. *)
LEMMA RestTyped ==
    ASSUME StoreConstants, Typed,
           Crash \/ \E r \in Reader : OpenRead(r) \/ Lookup(r) \/ FailRead(r) \/ EndRead(r)
    PROVE  Typed'
<1> USE DEF Typed
<1>n. NoJob \in Job /\ NoPass \in PassState /\ NoRead \in Reading
  BY DEF StoreConstants, NoJob, Job, NoPass, PassState, NoRead, Reading
<1>h. HeadOf(history) \in 0..MaxWrites /\ Reachable(history) \in SUBSET Object
  BY HeadFacts DEF DiskOK
<1>1. CASE Crash
  <2>1. DiskOK' /\ MaintenanceOK' /\ ReadOK'
    BY <1>1, <1>n DEF Crash, diskVars, DiskOK, MaintenanceOK, ReadOK
  <2>2. faults' \in 0..MaxFaults
    BY <1>1 DEF Crash, Fault, RequestOK, StoreConstants
  <2>3. RequestOK'
    BY <1>1, <1>n, <2>2 DEF Crash, RequestOK
  <2>4. ToldOK'
    BY <1>1, <1>h DEF Crash, ToldOK
  <2> QED
    BY <2>1, <2>3, <2>4
<1>2. CASE \E r \in Reader : OpenRead(r) \/ Lookup(r) \/ FailRead(r) \/ EndRead(r)
  <2>1. UNCHANGED readFrame
    BY <1>2 DEF OpenRead, Lookup, FailRead, EndRead
  <2>2. DiskOK' /\ RequestOK' /\ MaintenanceOK' /\ ToldOK'
    BY <2>1 DEF readFrame, diskVars, toldVars, DiskOK, RequestOK, MaintenanceOK, ToldOK
  <2>3. PICK r \in Reader : OpenRead(r) \/ Lookup(r) \/ FailRead(r) \/ EndRead(r)
    BY <1>2
  <2>4. PICK x \in Reading : read' = [read EXCEPT ![r] = x]
    <3>1. read[r] \in Reading
      BY DEF ReadOK
    <3>2. /\ [step |-> "look", needs |-> Reachable(history), era |-> era] \in Reading
          /\ [read[r] EXCEPT !.step = "failed"] \in Reading
      BY <1>h, <3>1 DEF Reading, DiskOK
    <3>3. FailRead(r) => \E x \in Reading : read' = [read EXCEPT ![r] = x]
      BY <1>n, <3>1 DEF FailRead, Reading
    <3> QED
      BY <2>3, <1>n, <3>2, <3>3 DEF OpenRead, Lookup, EndRead
  <2>5. ReadOK'
    BY <2>4 DEF ReadOK
  <2> QED
    BY <2>2, <2>5
<1> QED
  BY <1>1, <1>2

LEMMA TypedStep ==
    ASSUME StoreConstants, Typed, Numbered, [Next]_vars
    PROVE  Typed'
<1>1. CASE UNCHANGED vars
  BY <1>1 DEF vars, diskVars, toldVars, Typed, DiskOK, RequestOK, MaintenanceOK,
              ToldOK, ReadOK
<1>2. CASE Next
  BY <1>2, HandlersTyped, WorkTyped, PassTyped, RestTyped DEF Next
<1> QED
  BY <1>1, <1>2

-----------------------------------------------------------------------------
(* What a step may do to a request.  The fields of a job that a step        *)
(* leaves alone are left alone.                                             *)
LEMMA StepFacts ==
    ASSUME Typed, NEW w \in Writer, NEW s, Step(w, s)
    PROVE  /\ job'[w].step = s
           /\ job'[w].write = job[w].write
           /\ job'[w].base = job[w].base
           /\ job'[w].era = job[w].era
           /\ \A v \in Writer \ {w} : job'[v] = job[v]
<1>1. job \in [Writer -> Job]
  BY DEF Typed, RequestOK
<1>2. job' = [job EXCEPT ![w] = [job[w] EXCEPT !.step = s]]
  BY <1>1 DEF Step
<1>3. /\ job'[w] = [job[w] EXCEPT !.step = s]
      /\ \A v \in Writer \ {w} : job'[v] = job[v]
  BY <1>1, <1>2
<1>4. job[w] \in Job
  BY <1>1
<1> QED
  BY <1>3, <1>4 DEF Job

(* Whoever works for a handler does not touch the lock. *)
LEMMA LockedStep ==
    ASSUME StoreConstants, Typed, Locked, [Next]_vars
    PROVE  Locked'
<1> USE DEF Locked
<1>t. /\ handler \in [Writer -> {"idle", "locking", "waiting"}]
      /\ Maintenance \notin Writer /\ Free \notin Writer /\ Free # Maintenance
  BY DEF Typed, RequestOK, StoreConstants
<1>1. CASE UNCHANGED <<handler, lock, pass>>
  BY <1>1
<1>2. ASSUME NEW w \in Writer, Request(w) PROVE Locked'
  BY <1>2, <1>t DEF Request
<1>3. ASSUME NEW w \in Writer, StartWrite(w) \/ StartDelete(w) PROVE Locked'
  BY <1>3, <1>t DEF StartWrite, StartDelete
<1>4. ASSUME NEW w \in Writer, Answer(w) PROVE Locked'
  BY <1>4, <1>t DEF Answer
<1>5. ASSUME NEW w \in Writer, Handle(w) PROVE Locked'
  BY <1>3, <1>4, <1>5 DEF Handle, PublishWrite, PublishDelete, AnswerNothingDone
<1>6. ASSUME NEW w \in Writer, Disconnect(w) PROVE Locked'
  BY <1>6, <1>t DEF Disconnect
<1>7. ASSUME NEW w \in Writer, Forget(w) \/ Work(w) PROVE UNCHANGED <<handler, lock, pass>>
  BY <1>7 DEF Forget, Work, CreateRepository, Open, WriteContent, WriteCommit,
              MoveHead, RemoveRepository, JobFails, poolFrame
<1>8. CASE StartPass
  BY <1>8, <1>t DEF StartPass, passFrame
<1>9. CASE Pass
  <2>1. UNCHANGED handler
    BY <1>9 DEF Pass, ListObjects, SelectObjects, WritePack, RemoveLoose,
                RemovePacks, PassFails, EndPass, passFrame
  <2>2. CASE EndPass
    BY <2>1, <2>2, <1>t DEF EndPass, NoPass
  <2>3. CASE ~EndPass
    <3>1. UNCHANGED lock /\ pass.step # "none"
      BY <1>9, <2>3 DEF Pass, ListObjects, SelectObjects, WritePack, RemoveLoose,
                        RemovePacks, PassFails
    <3> QED
      BY <2>1, <3>1
  <2> QED
    BY <2>2, <2>3
<1>10. CASE \E r \in Reader : OpenRead(r) \/ Lookup(r) \/ FailRead(r) \/ EndRead(r)
  BY <1>10, <1>1 DEF OpenRead, Lookup, FailRead, EndRead, readFrame
<1>11. CASE Crash
  BY <1>11, <1>t DEF Crash, NoPass
<1>12. UNCHANGED vars => UNCHANGED <<handler, lock, pass>>
  BY DEF vars
<1> QED
  BY <1>1, <1>2, <1>5, <1>6, <1>7, <1>8, <1>9, <1>10, <1>11, <1>12 DEF Next

(* The number of a write is its own, and goes into the log once: what a     *)
(* request's work may do to the numbers other than taking a new one or      *)
(* putting its own into the log.                                            *)
Renumbers(w) ==
    /\ UNCHANGED <<log, writes>>
    /\ \A v \in Writer \ {w} : job'[v] = job[v]
    /\ \/ job'[w].write = 0 /\ job'[w].step \notin Unborn \cup {"committed"}
       \/ /\ job'[w].write = job[w].write
          /\ job'[w].step \in Unborn => job[w].step \in Unborn
          /\ job'[w].step # "committed"

LEMMA RenumbersFacts ==
    ASSUME StoreConstants, Typed, NEW w \in Writer,
           \/ StartDelete(w) \/ Answer(w) \/ Forget(w) \/ Open(w)
           \/ WriteContent(w) \/ WriteCommit(w) \/ RemoveRepository(w) \/ JobFails(w)
    PROVE  Renumbers(w) \/ UNCHANGED <<job, log, writes>>
<1>1. job \in [Writer -> Job] /\ job[w] \in Job
  BY DEF Typed, RequestOK
<1>2. CASE StartDelete(w)
  <2>1. job' = [job EXCEPT ![w] = [NoJob EXCEPT !.step = "remove"]]
        /\ UNCHANGED <<log, writes>>
    BY <1>2 DEF StartDelete
  <2> QED
    BY <1>1, <2>1 DEF Renumbers, NoJob, Unborn
<1>3. CASE Answer(w) \/ Forget(w)
  <2>1. job' = [job EXCEPT ![w] = NoJob] /\ UNCHANGED <<log, writes>>
    BY <1>3 DEF Answer, Forget
  <2> QED
    BY <1>1, <2>1 DEF Renumbers, NoJob, Unborn
<1>4. ASSUME NEW s, Step(w, s), UNCHANGED <<log, writes>>, s # "committed",
             s \in Unborn => job[w].step \in Unborn
      PROVE  Renumbers(w)
  BY <1>4, StepFacts DEF Renumbers
<1>5. CASE Open(w)
  <2>1. UNCHANGED <<log, writes>> /\ job[w].step \in Unborn
    BY <1>5 DEF Open, poolFrame, Unborn
  <2>2. CASE Step(w, "nothing")
    BY <1>4, <2>1, <2>2 DEF Unborn
  <2>3. CASE ~Step(w, "nothing")
    <3> DEFINE j == [job[w] EXCEPT !.step = "content", !.base = HeadOf(history), !.era = era]
    <3>1. job' = [job EXCEPT ![w] = j]
      BY <1>1, <1>5, <2>3 DEF Open
    <3>2. j.step = "content" /\ j.write = job[w].write
      BY <1>1 DEF Job
    <3>3. job'[w] = j /\ \A v \in Writer \ {w} : job'[v] = job[v]
      BY <1>1, <3>1
    <3> HIDE DEF j
    <3> QED
      BY <2>1, <3>2, <3>3 DEF Renumbers, Unborn
  <2> QED
    BY <2>2, <2>3
<1>6. CASE WriteContent(w)
  <2>1. UNCHANGED <<log, writes>> /\ job[w].step \in Unborn /\ Step(w, "commit")
    BY <1>6 DEF WriteContent, poolFrame, Unborn
  <2> QED
    BY <1>4, <2>1
<1>7. CASE WriteCommit(w)
  <2>1. UNCHANGED <<log, writes>> /\ job[w].step \in Unborn /\ Step(w, "ref")
    BY <1>7 DEF WriteCommit, poolFrame, Unborn
  <2> QED
    BY <1>4, <2>1
<1>8. CASE RemoveRepository(w)
  <2>1. UNCHANGED <<log, writes>> /\ (Step(w, "removed") \/ Step(w, "nothing"))
    BY <1>8 DEF RemoveRepository, poolFrame
  <2> QED
    BY <1>4, <2>1 DEF Unborn
<1>9. CASE JobFails(w)
  <2>1. UNCHANGED <<log, writes>> /\ Step(w, "nothing")
    BY <1>9 DEF JobFails, poolFrame
  <2> QED
    BY <1>4, <2>1 DEF Unborn
<1> QED
  BY <1>2, <1>3, <1>5, <1>6, <1>7, <1>8, <1>9

LEMMA NumberedStep ==
    ASSUME StoreConstants, Typed, Numbered, [Next]_vars
    PROVE  Numbered'
<1>t. /\ job \in [Writer -> Job] /\ log \in Seq(1..MaxWrites)
      /\ writes \in Nat /\ \A v \in Writer : job[v].write \in Nat
  BY DEF Typed, RequestOK, ToldOK, Job, StoreConstants
<1>l. \A k \in DOMAIN log : log[k] \in Nat
  BY <1>t
<1>1. ASSUME UNCHANGED <<job, log, writes>> PROVE Numbered'
  BY <1>1 DEF Numbered
<1>2. ASSUME NEW w \in Writer, Renumbers(w) PROVE Numbered'
  <2>1. \A v \in Writer : \/ job'[v].write = job[v].write
                          \/ job'[v].write = 0
    BY <1>2 DEF Renumbers
  <2>2. \A v \in Writer : job'[v].step \in Unborn =>
           job[v].step \in Unborn /\ job'[v].write = job[v].write
    BY <1>2 DEF Renumbers
  <2>3. \A v \in Writer : job'[v].step = "committed" =>
           job[v].step = "committed" /\ job'[v].write = job[v].write
    BY <1>2 DEF Renumbers
  <2>4. log' = log /\ writes' = writes
    BY <1>2 DEF Renumbers
  <2>5. \A v \in Writer : job'[v].write <= writes
    BY <1>t, <2>1 DEF Numbered
  <2>6. \A v \in Writer : job'[v].step \in Unborn \cup {"committed"} => job'[v].write # 0
    BY <2>2, <2>3 DEF Numbered
  <2>7. \A u, v \in Writer : job'[u].write = job'[v].write /\ u # v => job'[u].write = 0
    BY <2>1 DEF Numbered
  <2>8. \A v \in Writer : job'[v].step \in Unborn =>
            \A k \in DOMAIN log : log[k] # job'[v].write
    BY <2>2 DEF Numbered
  <2> QED
    BY <2>4, <2>5, <2>6, <2>7, <2>8 DEF Numbered
<1>3. ASSUME NEW w \in Writer, StartWrite(w) PROVE Numbered'
  <2>1. /\ writes' = writes + 1 /\ log' = log
        /\ job' = [job EXCEPT ![w] = [NoJob EXCEPT !.step = "open", !.write = writes']]
    BY <1>3 DEF StartWrite
  <2>2. job'[w].write = writes + 1 /\ \A v \in Writer \ {w} : job'[v] = job[v]
    BY <1>t, <2>1 DEF NoJob
  <2>3. \A v \in Writer : job[v].write < writes + 1
    BY <1>t DEF Numbered
  <2>4. \A v \in Writer : job'[v].write <= writes'
    BY <1>t, <2>1, <2>2, <2>3
  <2>5. \A v \in Writer : job'[v].step \in Unborn \cup {"committed"} => job'[v].write # 0
    BY <1>t, <2>2 DEF Numbered
  <2>6. \A u, v \in Writer : job'[u].write = job'[v].write /\ u # v => job'[u].write = 0
    BY <1>t, <2>2, <2>3 DEF Numbered
  <2>7. \A k \in DOMAIN log : log[k] <= writes' /\ log[k] # writes + 1
    BY <1>t, <1>l, <2>1 DEF Numbered
  <2>8. \A v \in Writer : job'[v].step \in Unborn =>
            \A k \in DOMAIN log : log[k] # job'[v].write
    BY <2>2, <2>7 DEF Numbered
  <2> QED
    BY <2>1, <2>4, <2>5, <2>6, <2>7, <2>8 DEF Numbered
<1>4. ASSUME NEW w \in Writer, MoveHead(w) PROVE Numbered'
  <2>1. /\ writes' = writes /\ log' = Append(log, job[w].write)
        /\ job[w].step \in Unborn /\ Step(w, "committed")
    BY <1>4 DEF MoveHead, poolFrame, Unborn
  <2>2. /\ job'[w].step = "committed" /\ \A v \in Writer : job'[v].write = job[v].write
        /\ \A v \in Writer \ {w} : job'[v] = job[v]
    BY <2>1, StepFacts
  <2>3. DOMAIN log' = 1..(Len(log) + 1)
        /\ \A k \in DOMAIN log' : log'[k] = job[w].write \/ (k \in DOMAIN log /\ log'[k] = log[k])
    <3>1. job[w].write \in 1..MaxWrites
      BY <2>1 DEF Numbered, Typed, RequestOK, Job
    <3>2. Len(log') = Len(log) + 1 /\ DOMAIN log' = 1..Len(log') /\ DOMAIN log = 1..Len(log)
      BY <1>t, <2>1, <3>1
    <3>3. \A k \in 1..Len(log) : log'[k] = log[k]
      BY <1>t, <2>1, <3>1
    <3>4. log'[Len(log) + 1] = job[w].write
      BY <1>t, <2>1, <3>1
    <3>5. Len(log) \in Nat
      BY <1>t
    <3> QED
      BY <3>2, <3>3, <3>4, <3>5
  <2>4. /\ \A v \in Writer : job'[v].write <= writes'
        /\ \A v \in Writer : job'[v].step \in Unborn \cup {"committed"} => job'[v].write # 0
        /\ \A u, v \in Writer : job'[u].write = job'[v].write /\ u # v => job'[u].write = 0
    BY <2>1, <2>2 DEF Numbered
  <2>5. \A k \in DOMAIN log' : log'[k] <= writes'
    BY <2>1, <2>3 DEF Numbered
  <2>6. \A v \in Writer : job'[v].step \in Unborn =>
            \A k \in DOMAIN log' : log'[k] # job'[v].write
    <3> SUFFICES ASSUME NEW v \in Writer, job'[v].step \in Unborn, NEW k \in DOMAIN log'
                 PROVE  log'[k] # job[v].write
      BY <2>2
    <3>1. v # w /\ job[v].step \in Unborn
      BY <2>2 DEF Unborn
    <3>2. job[v].write # job[w].write
      BY <2>1, <3>1 DEF Numbered
    <3> QED
      BY <2>3, <3>1, <3>2 DEF Numbered
  <2> QED
    BY <2>4, <2>5, <2>6 DEF Numbered
<1>5. ASSUME Crash PROVE Numbered'
  <2>1. log' = <<>> /\ writes' = writes /\ \A v \in Writer : job'[v] = NoJob
    BY <1>5 DEF Crash
  <2> QED
    BY <1>t, <2>1 DEF Numbered, NoJob, Unborn
<1>6. ASSUME NEW w \in Writer, Request(w) \/ Disconnect(w) \/ CreateRepository(w)
      PROVE  UNCHANGED <<job, log, writes>>
  BY <1>6 DEF Request, Disconnect, CreateRepository, poolFrame
<1>7. StartPass \/ Pass => UNCHANGED <<job, log, writes>>
  BY DEF StartPass, Pass, ListObjects, SelectObjects, WritePack, RemoveLoose,
         RemovePacks, PassFails, EndPass, passFrame
<1>8. (\E r \in Reader : OpenRead(r) \/ Lookup(r) \/ FailRead(r) \/ EndRead(r))
      => UNCHANGED <<job, log, writes>>
  BY DEF OpenRead, Lookup, FailRead, EndRead, readFrame
<1>9. UNCHANGED vars => UNCHANGED <<job, log, writes>>
  BY DEF vars
<1>10. ASSUME NEW w \in Writer, Handle(w) PROVE Numbered'
  <2>1. ASSUME Answer(w) \/ StartDelete(w) PROVE Numbered'
    <3>1. Renumbers(w) \/ UNCHANGED <<job, log, writes>>
      BY <2>1, RenumbersFacts
    <3> QED
      BY <1>1, <1>2, <3>1
  <2> QED
    BY <1>3, <1>10, <2>1 DEF Handle, PublishWrite, PublishDelete, AnswerNothingDone
<1>11. ASSUME NEW w \in Writer, Forget(w) \/ Work(w) PROVE Numbered'
  BY <1>1, <1>2, <1>4, <1>6, <1>11, RenumbersFacts DEF Work
<1> QED
  BY <1>1, <1>5, <1>6, <1>7, <1>8, <1>9, <1>10, <1>11 DEF Next

(* What is told, and by whom: quietly, unless a step commits, publishes or  *)
(* starts the process over.                                                 *)
Quiet ==
    /\ UNCHANGED <<log, queue>>
    /\ \A v \in Writer : handler'[v] = "waiting" /\ job'[v].step = "committed"
          => /\ handler[v] = "waiting" /\ job[v].step = "committed"
             /\ job'[v].write = job[v].write

LEMMA QuietFacts ==
    ASSUME StoreConstants, Typed, [Next]_vars
    PROVE  Quiet \/ Crash \/ \E w \in Writer : MoveHead(w) \/ PublishWrite(w)
<1>t. /\ job \in [Writer -> Job] /\ handler \in [Writer -> {"idle", "locking", "waiting"}]
      /\ \A v \in Writer : NoJob.step # "committed"
  BY DEF Typed, RequestOK, NoJob
<1>1. UNCHANGED <<log, queue, handler, job>> => Quiet
  BY DEF Quiet
<1>2. ASSUME NEW w \in Writer, Renumbers(w), UNCHANGED <<queue, handler>>
      PROVE  Quiet
  BY <1>2 DEF Quiet, Renumbers, Unborn
<1>3. ASSUME NEW w \in Writer, UNCHANGED <<log, queue>>,
             \A v \in Writer \ {w} : handler'[v] = handler[v] /\ job'[v] = job[v],
             \/ handler'[w] # "waiting" \/ job'[w].step # "committed"
      PROVE  Quiet
  BY <1>3 DEF Quiet
<1>4. ASSUME NEW w \in Writer, Request(w) \/ Disconnect(w) \/ Forget(w)
      PROVE  Quiet
  <2>1. UNCHANGED <<log, queue>>
    BY <1>4 DEF Request, Disconnect, Forget, toldVars
  <2>2. \A v \in Writer \ {w} : handler'[v] = handler[v] /\ job'[v] = job[v]
    BY <1>4, <1>t DEF Request, Disconnect, Forget
  <2>3. handler'[w] # "waiting"
    BY <1>4, <1>t DEF Request, Disconnect, Forget
  <2> QED
    BY <1>3, <2>1, <2>2, <2>3
<1>5. ASSUME NEW w \in Writer, Handle(w), ~PublishWrite(w)
      PROVE  Quiet
  <2>1. UNCHANGED <<log, queue>>
    BY <1>5 DEF Handle, StartWrite, StartDelete, PublishDelete, AnswerNothingDone,
                Answer, toldVars
  <2>2. \A v \in Writer \ {w} : handler'[v] = handler[v] /\ job'[v] = job[v]
    BY <1>5, <1>t DEF Handle, StartWrite, StartDelete, PublishDelete,
                      AnswerNothingDone, Answer
  <2>3. job'[w].step # "committed"
    BY <1>5, <1>t DEF Handle, StartWrite, StartDelete, PublishDelete,
                      AnswerNothingDone, Answer, NoJob
  <2> QED
    BY <1>3, <2>1, <2>2, <2>3
<1>6. ASSUME NEW w \in Writer, Work(w), ~MoveHead(w)
      PROVE  Quiet
  <2>1. UNCHANGED <<queue, handler>>
    BY <1>6 DEF Work, CreateRepository, Open, WriteContent, WriteCommit,
                RemoveRepository, JobFails, poolFrame, toldVars
  <2>2. UNCHANGED <<job, log>> \/ Renumbers(w)
    BY <1>6, RenumbersFacts DEF Work, CreateRepository
  <2> QED
    BY <1>1, <1>2, <2>1, <2>2
<1>7. StartPass \/ Pass => UNCHANGED <<log, queue, handler, job>>
  BY DEF StartPass, Pass, ListObjects, SelectObjects, WritePack, RemoveLoose,
         RemovePacks, PassFails, EndPass, passFrame
<1>8. (\E r \in Reader : OpenRead(r) \/ Lookup(r) \/ FailRead(r) \/ EndRead(r))
      => UNCHANGED <<log, queue, handler, job>>
  BY DEF OpenRead, Lookup, FailRead, EndRead, readFrame, toldVars
<1>9. UNCHANGED vars => UNCHANGED <<log, queue, handler, job>>
  BY DEF vars, toldVars
<1> QED
  BY <1>1, <1>4, <1>5, <1>6, <1>7, <1>8, <1>9 DEF Next

(* The lock is what keeps the queue in order: of the handlers whose write   *)
(* is in the log, only one is left that may publish, and nothing was told   *)
(* that came after its write.                                               *)
LEMMA PlacedStep ==
    ASSUME StoreConstants, Typed, Numbered, Locked, Placed, [Next]_vars
    PROVE  Placed'
<1>t. /\ job \in [Writer -> Job] /\ handler \in [Writer -> {"idle", "locking", "waiting"}]
      /\ log \in Seq(1..MaxWrites) /\ queue \in Seq(1..MaxWrites)
  BY DEF Typed, RequestOK, ToldOK
<1>1. CASE Quiet
  <2>1. log' = log /\ queue' = queue
    BY <1>1 DEF Quiet
  <2>2. \A k : After(k) => After(k)'
    BY <2>1 DEF After
  <2> QED
    BY <1>1, <2>1, <2>2 DEF Placed, Quiet
<1>2. CASE Crash
  <2>1. queue' = <<>> /\ \A v \in Writer : handler'[v] # "waiting"
    BY <1>2 DEF Crash
  <2> QED
    BY <2>1 DEF Placed
<1>3. ASSUME NEW w \in Writer, MoveHead(w) PROVE Placed'
  <2>1. /\ log' = Append(log, job[w].write) /\ UNCHANGED <<queue, handler>>
        /\ Step(w, "committed") /\ job[w].step \in Unborn
    BY <1>3 DEF MoveHead, poolFrame, toldVars, Unborn
  <2>2. job[w].write \in 1..MaxWrites
    BY <2>1 DEF Numbered, Typed, RequestOK, Job
  <2>3. /\ Len(log) \in Nat /\ DOMAIN log = 1..Len(log)
        /\ DOMAIN log' = 1..(Len(log) + 1)
        /\ \A k \in DOMAIN log : log'[k] = log[k]
        /\ log'[Len(log) + 1] = job[w].write
    <3>1. Len(log') = Len(log) + 1 /\ DOMAIN log' = 1..Len(log')
      BY <1>t, <2>1, <2>2
    <3>2. \A k \in 1..Len(log) : log'[k] = log[k]
      BY <1>t, <2>1, <2>2
    <3>3. log'[Len(log) + 1] = job[w].write
      BY <1>t, <2>1, <2>2
    <3> QED
      BY ONLY <1>t, <3>1, <3>2, <3>3
  <2>4. \A i \in DOMAIN queue : \E j \in DOMAIN log : log'[j] = queue[i]
    BY <2>3 DEF Placed
  <2>5. \A i \in DOMAIN queue' : \E j \in DOMAIN log' : log'[j] = queue'[i]
    BY <2>1, <2>3, <2>4
  <2>6. ASSUME NEW v \in Writer, handler'[v] = "waiting", job'[v].step = "committed"
        PROVE  \E k \in DOMAIN log' : log'[k] = job'[v].write /\ After(k)'
    <3>1. CASE v = w
      <4>1. PICK k \in DOMAIN log' : k = Len(log) + 1
        BY <2>3
      <4>2. 1..(k - 1) = DOMAIN log
        BY <2>3, <4>1
      <4>3. After(k)'
        BY <2>1, <2>4, <4>2 DEF After
      <4>4. job'[v].write = job[w].write
        BY <2>1, <3>1, StepFacts
      <4>5. log'[k] = job'[v].write
        BY <2>3, <4>1, <4>4
      <4> QED
        BY <4>3, <4>5
    <3>2. CASE v # w
      <4>1. job'[v] = job[v] /\ handler[v] = "waiting"
        BY <2>1, <2>6, <3>2, StepFacts
      <4>2. PICK k \in DOMAIN log : log[k] = job[v].write /\ After(k)
        BY <2>6, <4>1 DEF Placed
      <4>3. 1..(k - 1) \subseteq DOMAIN log /\ k \in DOMAIN log'
        BY <2>3
      <4>4. After(k)'
        BY <2>1, <2>3, <4>2, <4>3 DEF After
      <4> QED
        BY <2>3, <4>1, <4>2, <4>3, <4>4
    <3> QED
      BY <3>1, <3>2
  <2> QED
    BY <2>5, <2>6 DEF Placed
<1>4. ASSUME NEW w \in Writer, PublishWrite(w) PROVE Placed'
  <2>1. /\ queue' = Append(queue, job[w].write) /\ log' = log
        /\ handler[w] = "waiting" /\ job[w].step = "committed"
        /\ handler' = [handler EXCEPT ![w] = "idle"]
    BY <1>4 DEF PublishWrite, Answer
  <2>2. PICK k \in DOMAIN log : log[k] = job[w].write
    BY <2>1 DEF Placed
  <2>3. job[w].write \in 1..MaxWrites
    BY <1>t, <2>2
  <2>4. \A i \in DOMAIN queue' : queue'[i] = job[w].write \/ \E h \in DOMAIN queue : queue'[i] = queue[h]
    <3>1. Len(queue') = Len(queue) + 1 /\ DOMAIN queue' = 1..Len(queue')
          /\ DOMAIN queue = 1..Len(queue)
      BY <1>t, <2>1, <2>3
    <3>2. \A i \in 1..Len(queue) : queue'[i] = queue[i]
      BY <1>t, <2>1, <2>3
    <3>3. queue'[Len(queue) + 1] = job[w].write
      BY <1>t, <2>1, <2>3
    <3>4. Len(queue) \in Nat
      BY <1>t
    <3> QED
      BY <3>1, <3>2, <3>3, <3>4
  <2>5. \A i \in DOMAIN queue' : \E j \in DOMAIN log' : log'[j] = queue'[i]
    BY <2>1, <2>2, <2>4 DEF Placed
  <2>6. \A v \in Writer : handler'[v] # "waiting"
    BY <1>t, <2>1 DEF Locked
  <2> QED
    BY <2>5, <2>6 DEF Placed
<1> QED
  BY <1>1, <1>2, <1>3, <1>4, QuietFacts

LEMMA InitStoreInv ==
    ASSUME StoreConstants, Init
    PROVE  StoreInv
<1>n. /\ NoJob \in Job /\ NoPass \in PassState /\ NoRead \in Reading
      /\ MaxWrites \in Nat /\ MaxDeletes \in Nat /\ MaxDrops \in Nat /\ MaxFaults \in Nat
  BY DEF StoreConstants, NoJob, Job, NoPass, PassState, NoRead, Reading
<1>1. DiskOK
  <2>1. exists = FALSE /\ history = <<>> /\ era = 0
    BY DEF Init
  <2>2. loose \in SUBSET Object /\ packs \in SUBSET SUBSET Object
    BY DEF Init
  <2>3. <<>> \in Seq(1..MaxWrites)
    OBVIOUS
  <2> QED
    BY <2>1, <2>2, <2>3 DEF DiskOK
<1>2. RequestOK
  BY <1>n DEF Init, RequestOK
<1>3. MaintenanceOK /\ ToldOK /\ ReadOK
  BY <1>n DEF Init, MaintenanceOK, ToldOK, ReadOK
<1>4. Numbered
  BY <1>n DEF Init, Numbered, NoJob, Unborn
<1>5. Locked /\ Placed
  BY DEF Init, Locked, Placed, NoPass
<1> QED
  BY <1>1, <1>2, <1>3, <1>4, <1>5 DEF StoreInv, Typed

LEMMA StoreInvStep ==
    ASSUME StoreConstants, StoreInv, [Next]_vars
    PROVE  StoreInv'
BY TypedStep, NumberedStep, LockedStep, PlacedStep DEF StoreInv

LEMMA StoreInvariant == Spec => []StoreInv
<1>1. Init => StoreInv
  BY InitStoreInv, StoreConstants
<1>2. StoreInv /\ [Next]_vars => StoreInv'
  BY StoreInvStep, StoreConstants
<1> QED
  BY <1>1, <1>2, PTL DEF Spec

(* The disk, the requests, the maintenance pass and the announcements of    *)
(* the write path always have their types.                                  *)
THEOREM StoreTypeCorrect == Spec => []TypeOK
<1>1. StoreInv => TypeOK
  BY TypedIsTypeOK DEF StoreInv
<1> QED
  BY <1>1, StoreInvariant, PTL

-----------------------------------------------------------------------------
(* The refinement: which step of the log each step of the store is.         *)
Seen == [w \in Writer |-> MadeFrom(w)]

LEMMA TipFact ==
    ASSUME NEW h \in Seq(1..MaxWrites)
    PROVE  HeadOf(h) = IF h = <<>> THEN 0 ELSE h[Len(h)]
BY DEF HeadOf, Last

(* A step that leaves a request's work where it was, or ends it. *)
LEMMA SeenFacts ==
    ASSUME Typed, NEW w \in Writer, \A v \in Writer \ {w} : job'[v] = job[v]
    PROVE  /\ MadeFrom(w)' = MadeFrom(w) => Seen' = Seen
           /\ MadeFrom(w)' = Absent => Seen' = [Seen EXCEPT ![w] = Absent]
<1>1. \A v \in Writer \ {w} : MadeFrom(v)' = MadeFrom(v)
  BY DEF MadeFrom
<1> QED
  BY <1>1 DEF Seen

(* Work that is not under way was made from nothing. *)
LEMMA MadeFromFacts ==
    ASSUME NEW w \in Writer
    PROVE  /\ job[w].step \notin {"content", "commit", "ref"} => MadeFrom(w) = Absent
           /\ job'[w].step \notin {"content", "commit", "ref"} => MadeFrom(w)' = Absent
BY DEF MadeFrom

(* The steps of the log, with the store's variables for its own. *)
LEMMA LogStutter ==
    ASSUME UNCHANGED <<exists, history, era, log, queue>>, Seen' = Seen
    PROVE  [Promise!Next]_(Promise!vars)
BY DEF Promise!vars, Seen

LEMMA LogGiveUp ==
    ASSUME NEW w \in Writer, UNCHANGED <<exists, history, era, log, queue>>,
           Seen' = [Seen EXCEPT ![w] = Absent]
    PROVE  [Promise!Next]_(Promise!vars)
<1>1. Promise!GiveUp(w)
  BY DEF Promise!GiveUp, Seen
<1> QED
  BY <1>1 DEF Promise!Next

LEMMA HandleRefines ==
    ASSUME StoreConstants, StoreInv, NEW w \in Writer,
           Request(w) \/ Handle(w) \/ Disconnect(w) \/ Forget(w)
    PROVE  [Promise!Next]_(Promise!vars)
<1>t. job \in [Writer -> Job] /\ Typed /\ NoJob.step = "none"
  BY DEF StoreInv, Typed, RequestOK, NoJob
<1>1. UNCHANGED <<exists, history, era, log>> /\ \A v \in Writer \ {w} : job'[v] = job[v]
  BY <1>t DEF Request, Handle, StartWrite, StartDelete, PublishWrite, PublishDelete,
              AnswerNothingDone, Answer, Disconnect, Forget, diskVars
<1>2. UNCHANGED job \/ job'[w].step \in {"none", "open", "remove"}
  BY <1>t DEF Request, Handle, StartWrite, StartDelete, PublishWrite, PublishDelete,
              AnswerNothingDone, Answer, Disconnect, Forget, NoJob
<1>3. Seen' = Seen \/ Seen' = [Seen EXCEPT ![w] = Absent]
  <2>1. CASE UNCHANGED job
    BY <2>1 DEF Seen, MadeFrom
  <2>2. CASE job'[w].step \in {"none", "open", "remove"}
    BY <1>t, <1>1, <2>2, SeenFacts, MadeFromFacts
  <2> QED
    BY <1>2, <2>1, <2>2
<1>4. CASE ~PublishWrite(w)
  <2>1. UNCHANGED queue
    BY <1>4 DEF Request, Handle, StartWrite, StartDelete, PublishDelete,
                AnswerNothingDone, Disconnect, Forget, toldVars
  <2> QED
    BY <1>1, <1>3, <2>1, LogStutter, LogGiveUp
<1>5. CASE PublishWrite(w)
  <2>1. /\ job[w].step = "committed" /\ queue' = Append(queue, job[w].write)
        /\ handler[w] = "waiting" /\ job' = [job EXCEPT ![w] = NoJob]
    BY <1>5 DEF PublishWrite, Answer
  <2>2. MadeFrom(w)' = Absent /\ MadeFrom(w) = Absent
    BY <1>t, <2>1, MadeFromFacts
  <2>3. Seen' = Seen
    BY <1>t, <1>1, <2>2, SeenFacts
  <2>4. PICK k \in DOMAIN log : log[k] = job[w].write /\ After(k)
    BY <2>1 DEF StoreInv, Placed
  <2>5. Promise!Tell(k)
    BY <1>1, <2>1, <2>3, <2>4 DEF Promise!Tell, After, Seen
  <2> QED
    BY <2>4, <2>5 DEF Promise!Next
<1> QED
  BY <1>4, <1>5

LEMMA WorkRefines ==
    ASSUME StoreConstants, StoreInv, NEW w \in Writer, Work(w)
    PROVE  [Promise!Next]_(Promise!vars)
<1>t. /\ job \in [Writer -> Job] /\ Typed /\ Numbered
      /\ history \in Seq(1..MaxWrites) /\ log \in Seq(1..MaxWrites)
  BY DEF StoreInv, Typed, RequestOK, DiskOK, ToldOK
<1>q. UNCHANGED queue
  BY DEF Work, CreateRepository, Open, WriteContent, WriteCommit, MoveHead,
         RemoveRepository, JobFails, poolFrame, toldVars
<1>h. Promise!Here = [generation |-> era, tip |-> HeadOf(history)]
  BY <1>t, TipFact DEF Promise!Here, Promise!Tip
<1>s. ASSUME NEW s, Step(w, s)
      PROVE  /\ s \notin {"content", "commit", "ref"} => Seen' = [Seen EXCEPT ![w] = Absent]
             /\ s \in {"content", "commit", "ref"} /\ job[w].step \in {"content", "commit", "ref"}
                  => Seen' = Seen
             /\ s \notin {"content", "commit", "ref"} /\ job[w].step \notin {"content", "commit", "ref"}
                  => Seen' = Seen
  <2>1. /\ job'[w].step = s /\ job'[w].base = job[w].base /\ job'[w].era = job[w].era
        /\ \A v \in Writer \ {w} : job'[v] = job[v]
    BY <1>s, <1>t, StepFacts
  <2>2. \/ s \notin {"content", "commit", "ref"}
        \/ job[w].step \notin {"content", "commit", "ref"}
        \/ MadeFrom(w)' = MadeFrom(w)
    BY <2>1 DEF MadeFrom
  <2> QED
    BY <1>t, <2>1, <2>2, SeenFacts, MadeFromFacts
<1>1. CASE CreateRepository(w)
  <2>1. Seen' = Seen
    BY <1>1 DEF CreateRepository, Seen, MadeFrom
  <2>2. Promise!Create
    BY <1>1, <1>q, <2>1 DEF CreateRepository, Promise!Create, Seen
  <2> QED
    BY <2>2 DEF Promise!Next
<1>2. CASE Open(w)
  <2>1. UNCHANGED <<exists, history, era, log>> /\ exists
    BY <1>2 DEF Open, diskVars
  <2>2. CASE Step(w, "nothing")
    BY <1>q, <1>s, <2>1, <2>2, LogGiveUp
  <2>3. CASE ~Step(w, "nothing")
    <3> DEFINE j == [job[w] EXCEPT !.step = "content", !.base = HeadOf(history), !.era = era]
    <3>1. job' = [job EXCEPT ![w] = j]
      BY <1>t, <1>2, <2>3 DEF Open
    <3>2. j.step = "content" /\ j.base = HeadOf(history) /\ j.era = era
      BY <1>t DEF Job
    <3>3. job'[w] = j /\ \A v \in Writer \ {w} : job'[v] = job[v]
      BY <1>t, <3>1
    <3> HIDE DEF j
    <3>4. MadeFrom(w)' = Promise!Here
      BY <1>h, <3>2, <3>3 DEF MadeFrom
    <3>5. \A v \in Writer \ {w} : MadeFrom(v)' = MadeFrom(v)
      BY <3>3 DEF MadeFrom
    <3>6. Seen' = [Seen EXCEPT ![w] = Promise!Here]
      BY <3>4, <3>5 DEF Seen
    <3>7. Promise!Begin(w)
      BY <1>q, <2>1, <3>6 DEF Promise!Begin, Seen
    <3> QED
      BY <3>7 DEF Promise!Next
  <2> QED
    BY <2>2, <2>3
<1>3. CASE WriteContent(w) \/ WriteCommit(w)
  <2>1. UNCHANGED <<exists, history, era, log>>
    BY <1>3 DEF WriteContent, WriteCommit
  <2>2. Seen' = Seen
    BY <1>3, <1>s DEF WriteContent, WriteCommit
  <2> QED
    BY <1>q, <2>1, <2>2, LogStutter
<1>4. CASE MoveHead(w)
  <2> DEFINE n == job[w].write
  <2>1. /\ exists /\ job[w].era = era /\ job[w].base = HeadOf(history)
        /\ job[w].step = "ref" /\ Step(w, "committed")
        /\ history' = Append(history, n) /\ log' = Append(log, n)
        /\ UNCHANGED <<exists, era>>
    BY <1>4 DEF MoveHead, OnTip
  <2>2. Seen' = [Seen EXCEPT ![w] = Absent]
    BY <1>s, <2>1
  <2>3. Seen[w] = Promise!Here
    BY <1>h, <2>1 DEF Seen, MadeFrom
  <2>4. n \in 1..MaxWrites /\ \A k \in DOMAIN log : log[k] # n
    BY <1>t, <2>1 DEF Numbered, Unborn, Job
  <2>5. Promise!Commit(w, n)
    BY <1>q, <2>1, <2>2, <2>3, <2>4 DEF Promise!Commit, Seen
  <2> QED
    BY <2>4, <2>5 DEF Promise!Next
<1>5. CASE RemoveRepository(w)
  <2>1. Seen' = Seen
    BY <1>5, <1>s DEF RemoveRepository
  <2>2. CASE exists
    <3>1. Promise!Remove
      BY <1>5, <1>q, <2>1, <2>2 DEF RemoveRepository, Promise!Remove, Seen
    <3> QED
      BY <3>1 DEF Promise!Next
  <2>3. CASE ~exists
    BY <1>5, <1>q, <2>1, <2>3, LogStutter DEF RemoveRepository, diskVars
  <2> QED
    BY <2>2, <2>3
<1>6. CASE JobFails(w)
  BY <1>6, <1>q, <1>s, LogGiveUp DEF JobFails, diskVars
<1> QED
  BY <1>1, <1>2, <1>3, <1>4, <1>5, <1>6 DEF Work

(* Maintenance and reads are no steps of the log; a crash is its restart.   *)
LEMMA StepRefines ==
    ASSUME StoreConstants, StoreInv, [Next]_vars
    PROVE  [Promise!Next]_(Promise!vars)
<1>1. CASE UNCHANGED vars \/ StartPass \/ Pass
           \/ \E r \in Reader : OpenRead(r) \/ Lookup(r) \/ FailRead(r) \/ EndRead(r)
  <2>1. UNCHANGED <<job, exists, history, era, log, queue>>
    BY <1>1 DEF vars, StartPass, Pass, ListObjects, SelectObjects, WritePack,
                RemoveLoose, RemovePacks, PassFails, EndPass, passFrame, OpenRead,
                Lookup, FailRead, EndRead, readFrame, diskVars, toldVars
  <2>2. Seen' = Seen
    BY <2>1 DEF Seen, MadeFrom
  <2> QED
    BY <2>1, <2>2, LogStutter
<1>2. CASE Crash
  <2>1. \A v \in Writer : job'[v].step = "none"
    BY <1>2 DEF Crash, NoJob
  <2>2. Seen' = [w \in Writer |-> Absent]
    BY <2>1 DEF Seen, MadeFrom
  <2>3. Promise!Restart
    BY <1>2, <2>2 DEF Crash, diskVars, Promise!Restart, Seen
  <2> QED
    BY <2>3 DEF Promise!Next
<1> QED
  BY <1>1, <1>2, HandleRefines, WorkRefines DEF Next

LEMMA InitRefines ==
    ASSUME Init
    PROVE  Promise!Init
<1>1. \A w \in Writer : job[w].step = "none"
  BY DEF Init, NoJob
<1>2. [w \in Writer |-> MadeFrom(w)] = [w \in Writer |-> Absent]
  BY <1>1 DEF MadeFrom
<1> QED
  BY <1>2 DEF Init, Promise!Init

(* For any number of writers, readers and failures the store implements     *)
(* TenantLog: a commit is made on the very state its write was prepared     *)
(* from, once; the queue is in commit order; a crash keeps every commit.    *)
THEOREM StoreIsALog == Spec => ImplementsTenantLog
<1>1. Init => Promise!Init
  BY InitRefines
<1>2. StoreInv /\ [Next]_vars => [Promise!Next]_(Promise!vars)
  BY StepRefines, StoreConstants
<1> QED
  BY <1>1, <1>2, StoreInvariant, PTL DEF Spec, ImplementsTenantLog, Promise!Spec

-----------------------------------------------------------------------------
(* Maintenance.  With destructive_prune off the pass may meet a writer     *)
(* whose client went away, so it must not lose what that writer has stored *)
(* and not committed yet.  An object is alive from the moment it is stored *)
(* by a write made on the present repository; the invariant is about the   *)
(* objects alive.                                                          *)

UnderWay == {"content", "commit", "ref"}

(* What w has stored of its write. *)
StoredBy(w) ==
    {o \in Object :
        \/ job[w].step \in {"commit", "ref"} /\ o = Content(job[w].write)
        \/ job[w].step = "ref" /\ o = Commit(job[w].write)}

Alive(o) ==
    /\ exists
    /\ \/ o \in Reachable(history)
       \/ \E w \in Writer : job[w].era = era /\ o \in StoredBy(w)

(* What a pass is going to remove. *)
Listed == pass.loose \cup UNION pass.before

(* Every object anybody has stored, or knows of. *)
Known == Stored \cup Listed \cup pass.pack

(* What a write is still to store nobody has seen yet. *)
Fresh ==
    /\ \A n \in 1..MaxWrites : n > writes =>
          Content(n) \notin Known /\ Commit(n) \notin Known
    /\ \A w \in Writer :
          /\ job[w].step \in {"open", "content"} => Content(job[w].write) \notin Known
          /\ job[w].step \in {"open", "content", "commit"} => Commit(job[w].write) \notin Known

(* Work goes on in the repository it was begun in, or in none. *)
Dated ==
    \A w \in Writer : job[w].step \in UnderWay =>
        job[w].era <= era /\ (job[w].era = era => exists)

(* As long as nobody has gone away, only a handler's own work is running.  *)
Attended ==
    drops = 0 => \A w \in Writer : job[w].step # "none" => handler[w] = "waiting"

Careful == prune => drops = 0

(* What is alive is stored; what is alive of what a pass is going to remove *)
(* is in the pack it wrote first.                                           *)
Kept ==
    /\ Careful => \A o \in Object : Alive(o) => o \in Stored
    /\ pass.step \in {"select", "pack"} => packs \subseteq pass.before
    /\ pass.step \in {"loose", "packs"} => packs \subseteq pass.before \cup {pass.pack}
    /\ Careful /\ pass.step \in {"pack", "loose", "packs"} =>
          \A o \in Listed : Alive(o) => o \in pass.pack
    /\ Careful /\ pass.step \in {"loose", "packs"} =>
          \A o \in Listed : Alive(o) => pass.pack \in packs

-----------------------------------------------------------------------------
LEMMA ObjectsDiffer ==
    ASSUME NEW m, NEW n
    PROVE  /\ Content(m) # Commit(n)
           /\ Content(m) = Content(n) => m = n
           /\ Commit(m) = Commit(n) => m = n
BY DEF Content, Commit

(* What the actions do to what is known.  Only a write stores what was not  *)
(* known before.                                                            *)
LEMMA KnownSteps ==
    ASSUME StoreConstants, Typed, Next,
           ~\E w \in Writer : WriteContent(w) \/ WriteCommit(w)
    PROVE  Known' \subseteq Known
<1>1. ASSUME NEW w \in Writer, Request(w) \/ Handle(w) \/ Disconnect(w) \/ Forget(w)
      PROVE  UNCHANGED <<loose, packs, pass>>
  BY <1>1 DEF Request, Handle, StartWrite, StartDelete, PublishWrite, PublishDelete,
              AnswerNothingDone, Answer, Disconnect, Forget, diskVars
<1>2. ASSUME NEW w \in Writer, Open(w) \/ MoveHead(w) \/ JobFails(w)
      PROVE  UNCHANGED <<loose, packs, pass>>
  BY <1>2 DEF Open, MoveHead, JobFails, poolFrame, diskVars
<1>3. ASSUME NEW w \in Writer, CreateRepository(w) \/ RemoveRepository(w)
      PROVE  UNCHANGED <<loose, packs, pass>>
             \/ (loose' = {} /\ packs' = {} /\ UNCHANGED pass)
  BY <1>3 DEF CreateRepository, RemoveRepository, poolFrame, diskVars
<1>4. CASE UNCHANGED <<loose, packs, pass>>
  BY <1>4 DEF Known, Stored, Listed
<1>5. CASE loose' = {} /\ packs' = {} /\ UNCHANGED pass
  BY <1>5 DEF Known, Stored, Listed
<1>6. CASE \E r \in Reader : OpenRead(r) \/ Lookup(r) \/ FailRead(r) \/ EndRead(r)
  BY <1>4, <1>6 DEF OpenRead, Lookup, FailRead, EndRead, readFrame, diskVars
<1>7. CASE StartPass \/ EndPass \/ Crash
  <2>1. /\ UNCHANGED <<loose, packs>>
        /\ pass'.loose = {} /\ pass'.before = {} /\ pass'.pack = {}
    BY <1>7 DEF StartPass, EndPass, Crash, NoPass, diskVars
  <2> QED
    BY <2>1 DEF Known, Stored, Listed
<1>p. /\ pass \in PassState
      /\ Stored = loose \cup UNION packs
  BY DEF Typed, MaintenanceOK, Stored
<1>k. ASSUME loose' \subseteq Known, UNION packs' \subseteq Known,
             pass'.loose \subseteq Known, UNION pass'.before \subseteq Known,
             pass'.pack \subseteq Known
      PROVE  Known' \subseteq Known
  <2>1. Known' = ((loose' \cup (UNION packs')) \cup (pass'.loose \cup (UNION pass'.before)))
                 \cup pass'.pack
    BY DEF Known, Stored, Listed
  <2> QED
    BY <1>k, <2>1
<1>i. /\ loose \subseteq Known /\ UNION packs \subseteq Known /\ pass.loose \subseteq Known
      /\ UNION pass.before \subseteq Known /\ pass.pack \subseteq Known /\ Stored \subseteq Known
  BY DEF Known, Stored, Listed
<1>8. CASE ListObjects
  <2>1. /\ UNCHANGED <<loose, packs>> /\ pass'.pack = pass.pack
        /\ \/ pass'.loose = pass.loose /\ pass'.before = pass.before
           \/ pass'.loose = loose /\ pass'.before = packs
    BY <1>8, <1>p DEF ListObjects, diskVars, PassState
  <2>2. pass'.loose \subseteq Known
    BY <2>1, <1>i
  <2>3. UNION pass'.before \subseteq Known
    BY <2>1, <1>i
  <2>4. loose' = loose /\ UNION packs' = UNION packs
    BY <2>1
  <2> QED
    BY <2>1, <2>2, <2>3, <2>4, <1>k, <1>i
<1>9. CASE SelectObjects
  <2>1. /\ UNCHANGED <<loose, packs>> /\ pass'.loose = pass.loose
        /\ pass'.before = pass.before /\ pass'.pack \subseteq Stored
    BY <1>9, <1>p DEF SelectObjects, diskVars, PassState
  <2>2. pass'.pack \subseteq Known
    BY <2>1, <1>i
  <2>3. /\ loose' = loose /\ UNION packs' = UNION packs
        /\ UNION pass'.before = UNION pass.before
    BY <2>1
  <2> QED
    BY <2>1, <2>2, <2>3, <1>k, <1>i
<1>10. CASE WritePack \/ RemoveLoose \/ RemovePacks \/ PassFails
  <2>1. /\ pass'.loose = pass.loose /\ pass'.before = pass.before
        /\ pass'.pack = pass.pack
    BY <1>10, <1>p DEF WritePack, RemoveLoose, RemovePacks, PassFails, PassState
  <2>2. loose' \subseteq loose /\ packs' \subseteq packs \cup {pass.pack}
    BY <1>10 DEF WritePack, RemoveLoose, RemovePacks, PassFails, diskVars
  <2> QED
    <3>1. UNION packs' \subseteq (UNION packs) \cup pass.pack
      BY <2>2
    <3>2. loose' \subseteq Known /\ UNION packs' \subseteq Known
      BY <2>2, <3>1, <1>i
    <3>3. /\ pass'.loose \subseteq Known /\ pass'.pack \subseteq Known
          /\ UNION pass'.before \subseteq Known
      BY <2>1, <1>i
    <3> QED
      BY <3>2, <3>3, <1>k
<1> QED
  BY <1>1, <1>2, <1>3, <1>4, <1>5, <1>6, <1>7, <1>8, <1>9, <1>10 DEF Next, Work, Pass

(* Every other step leaves a request no more to store than it had. *)
Behind ==
    /\ writes' = writes
    /\ \A v \in Writer :
          /\ job'[v].step \in {"open", "content"} =>
                job[v].step \in {"open", "content"} /\ job'[v].write = job[v].write
          /\ job'[v].step = "commit" =>
                job[v].step = "commit" /\ job'[v].write = job[v].write

LEMMA BehindSteps ==
    ASSUME StoreConstants, Typed, [Next]_vars,
           ~\E w \in Writer : StartWrite(w) \/ WriteContent(w) \/ WriteCommit(w)
    PROVE  Behind
<1>t. job \in [Writer -> Job] /\ NoJob.step = "none"
  BY DEF Typed, RequestOK, NoJob
<1>1. UNCHANGED <<job, writes>> => Behind
  BY DEF Behind
<1>2. ASSUME NEW w \in Writer, UNCHANGED writes,
             \A v \in Writer \ {w} : job'[v] = job[v],
             job'[w].step \notin {"open", "content", "commit"}
      PROVE  Behind
  BY <1>2 DEF Behind
<1>3. ASSUME NEW w \in Writer, Answer(w) \/ Forget(w)
      PROVE  Behind
  <2>1. UNCHANGED writes /\ job' = [job EXCEPT ![w] = NoJob]
    BY <1>3 DEF Answer, Forget
  <2>2. job'[w].step = "none" /\ \A v \in Writer \ {w} : job'[v] = job[v]
    BY <1>t, <2>1
  <2> QED
    BY <1>2, <2>1, <2>2
<1>4. ASSUME NEW w \in Writer, StartDelete(w)
      PROVE  Behind
  <2>1. UNCHANGED writes /\ job' = [job EXCEPT ![w] = [NoJob EXCEPT !.step = "remove"]]
    BY <1>4 DEF StartDelete
  <2>2. job'[w].step = "remove" /\ \A v \in Writer \ {w} : job'[v] = job[v]
    BY <1>t, <2>1 DEF NoJob
  <2> QED
    BY <1>2, <2>1, <2>2
<1>5. ASSUME NEW w \in Writer, NEW x \in {"ref", "committed", "removed", "nothing"},
             Step(w, x), UNCHANGED writes
      PROVE  Behind
  <2>1. job'[w].step = x /\ \A v \in Writer \ {w} : job'[v] = job[v]
    BY <1>5, StepFacts
  <2> QED
    BY <1>2, <1>5, <2>1
<1>6. ASSUME NEW w \in Writer, MoveHead(w) \/ RemoveRepository(w) \/ JobFails(w)
      PROVE  Behind
  <2>1. UNCHANGED writes
    BY <1>6 DEF MoveHead, RemoveRepository, JobFails, poolFrame
  <2>2. Step(w, "committed") \/ Step(w, "removed") \/ Step(w, "nothing")
    BY <1>6 DEF MoveHead, RemoveRepository, JobFails
  <2> QED
    BY <1>5, <2>1, <2>2
<1>7. ASSUME NEW w \in Writer, Open(w)
      PROVE  Behind
  <2>1. UNCHANGED writes /\ job[w].step = "open"
    BY <1>7 DEF Open, poolFrame
  <2>2. CASE Step(w, "nothing")
    BY <1>5, <2>1, <2>2
  <2>3. CASE ~Step(w, "nothing")
    <3> DEFINE j == [job[w] EXCEPT !.step = "content", !.base = HeadOf(history), !.era = era]
    <3>1. job' = [job EXCEPT ![w] = j]
      BY <1>t, <1>7, <2>3 DEF Open
    <3>2. j.step = "content" /\ j.write = job[w].write
      BY <1>t DEF Job
    <3>3. job'[w] = j /\ \A v \in Writer \ {w} : job'[v] = job[v]
      BY <1>t, <3>1
    <3> HIDE DEF j
    <3> QED
      BY <2>1, <3>2, <3>3 DEF Behind
  <2> QED
    BY <2>2, <2>3
<1>8. ASSUME NEW w \in Writer, Request(w) \/ Disconnect(w) \/ CreateRepository(w)
      PROVE  UNCHANGED <<job, writes>>
  BY <1>8 DEF Request, Disconnect, CreateRepository, poolFrame
<1>9. StartPass \/ Pass => UNCHANGED <<job, writes>>
  BY DEF StartPass, Pass, ListObjects, SelectObjects, WritePack, RemoveLoose,
         RemovePacks, PassFails, EndPass, passFrame
<1>10. (\E r \in Reader : OpenRead(r) \/ Lookup(r) \/ FailRead(r) \/ EndRead(r))
       => UNCHANGED <<job, writes>>
  BY DEF OpenRead, Lookup, FailRead, EndRead, readFrame
<1>11. UNCHANGED vars => UNCHANGED <<job, writes>>
  BY DEF vars
<1>12. Crash => Behind
  <2>1. Crash => UNCHANGED writes /\ \A v \in Writer : job'[v].step = "none"
    BY <1>t DEF Crash
  <2> QED
    BY <2>1 DEF Behind
<1>13. ASSUME NEW w \in Writer, Handle(w), ~StartWrite(w)
       PROVE  Behind
  BY <1>3, <1>4, <1>13 DEF Handle, PublishWrite, PublishDelete, AnswerNothingDone
<1>14. ASSUME NEW w \in Writer, Work(w), ~(WriteContent(w) \/ WriteCommit(w))
       PROVE  Behind
  BY <1>1, <1>6, <1>7, <1>8, <1>14 DEF Work
<1> QED
  BY <1>1, <1>3, <1>8, <1>9, <1>10, <1>11, <1>12, <1>13, <1>14 DEF Next

LEMMA FreshStep ==
    ASSUME StoreConstants, Typed, Numbered, Fresh, [Next]_vars
    PROVE  Fresh'
<1>t. /\ job \in [Writer -> Job] /\ writes \in Nat /\ MaxWrites \in Nat
      /\ \A w \in Writer : job[w].write \in 0..MaxWrites
  BY DEF Typed, RequestOK, Job, StoreConstants
<1>1. CASE ~\E w \in Writer : StartWrite(w) \/ WriteContent(w) \/ WriteCommit(w)
  <2>1. Known' \subseteq Known
    <3>1. CASE UNCHANGED vars
      BY <3>1 DEF vars, diskVars, Known, Stored, Listed
    <3> QED
      BY <1>1, <3>1, KnownSteps
  <2>2. Behind
    BY <1>1, BehindSteps
  <2> QED
    BY <2>1, <2>2 DEF Fresh, Behind
<1>2. ASSUME NEW w \in Writer, StartWrite(w)
      PROVE  Fresh'
  <2>1. /\ writes < MaxWrites /\ writes' = writes + 1 /\ Known' = Known
        /\ job' = [job EXCEPT ![w] = [NoJob EXCEPT !.step = "open", !.write = writes']]
    BY <1>2 DEF StartWrite, diskVars, Known, Stored, Listed
  <2>2. job'[w].write = writes + 1 /\ \A v \in Writer \ {w} : job'[v] = job[v]
    BY <1>t, <2>1 DEF NoJob
  <2>3. Content(writes + 1) \notin Known /\ Commit(writes + 1) \notin Known
    BY <1>t, <2>1 DEF Fresh
  <2>4. \A n \in 1..MaxWrites : n > writes' => n > writes
    BY <1>t, <2>1
  <2> QED
    BY <2>1, <2>2, <2>3, <2>4 DEF Fresh
<1>3. ASSUME NEW w \in Writer, WriteContent(w) \/ WriteCommit(w)
      PROVE  Fresh'
  <2> DEFINE n == job[w].write
  <2>1. /\ writes' = writes /\ UNCHANGED <<packs, pass>>
        /\ \/ /\ loose' = loose \cup {Content(n)} /\ Step(w, "commit")
              /\ job[w].step = "content"
           \/ /\ loose' = loose \cup {Commit(n)} /\ Step(w, "ref")
              /\ job[w].step = "commit"
    BY <1>3 DEF WriteContent, WriteCommit, poolFrame
  <2>2. n <= writes /\ n # 0
    BY <2>1 DEF Numbered, Unborn
  <2>3. \A v \in Writer \ {w} : job'[v] = job[v] /\ job[v].write # n
    BY <1>t, <2>1, <2>2, StepFacts DEF Numbered
  <2>4. CASE loose' = loose \cup {Content(n)} /\ Step(w, "commit") /\ job[w].step = "content"
    <3>1. \A o : o \in Known' => o \in Known \/ o = Content(n)
      BY <2>1, <2>4 DEF Known, Stored, Listed
    <3>2. job'[w].step = "commit" /\ job'[w].write = n
      BY <2>4, StepFacts
    <3>3. \A m \in 1..MaxWrites : m > writes => Content(m) # Content(n) /\ Commit(m) # Content(n)
      BY <1>t, <2>2, ObjectsDiffer
    <3>4. \A v \in Writer : /\ v # w => Content(job[v].write) # Content(n)
                            /\ Commit(job[v].write) # Content(n)
      BY <2>3, ObjectsDiffer
    <3>5. \A m \in 1..MaxWrites : m > writes' => Content(m) \notin Known' /\ Commit(m) \notin Known'
      BY <2>1, <3>1, <3>3 DEF Fresh
    <3>6. Commit(n) \notin Known'
      BY <2>4, <3>1, <3>4 DEF Fresh
    <3>7. \A v \in Writer \ {w} :
            /\ job[v].step \in {"open", "content"} => Content(job[v].write) \notin Known'
            /\ job[v].step \in {"open", "content", "commit"} => Commit(job[v].write) \notin Known'
      BY <3>1, <3>4 DEF Fresh
    <3> QED
      BY <2>3, <3>2, <3>5, <3>6, <3>7 DEF Fresh
  <2>5. CASE loose' = loose \cup {Commit(n)} /\ Step(w, "ref") /\ job[w].step = "commit"
    <3>1. \A o : o \in Known' => o \in Known \/ o = Commit(n)
      BY <2>1, <2>5 DEF Known, Stored, Listed
    <3>2. job'[w].step = "ref" /\ job'[w].write = n
      BY <2>5, StepFacts
    <3>3. \A m \in 1..MaxWrites : m > writes => Content(m) # Commit(n) /\ Commit(m) # Commit(n)
      BY <1>t, <2>2, ObjectsDiffer
    <3>4. \A v \in Writer \ {w} : /\ Content(job[v].write) # Commit(n)
                                  /\ Commit(job[v].write) # Commit(n)
      BY <2>3, ObjectsDiffer
    <3>5. \A m \in 1..MaxWrites : m > writes' => Content(m) \notin Known' /\ Commit(m) \notin Known'
      BY <2>1, <3>1, <3>3 DEF Fresh
    <3>6. \A v \in Writer \ {w} :
            /\ job[v].step \in {"open", "content"} => Content(job[v].write) \notin Known'
            /\ job[v].step \in {"open", "content", "commit"} => Commit(job[v].write) \notin Known'
      BY <3>1, <3>4 DEF Fresh
    <3> QED
      BY <2>3, <3>2, <3>5, <3>6 DEF Fresh
  <2> QED
    BY <2>1, <2>4, <2>5
<1> QED
  BY <1>1, <1>2, <1>3

-----------------------------------------------------------------------------
(* Where a request's work is after a step that stores nothing. *)
LEMMA SettlesSteps ==
    ASSUME StoreConstants, Typed, NEW w \in Writer,
           \/ Handle(w) \/ Forget(w) \/ Open(w) \/ MoveHead(w)
           \/ RemoveRepository(w) \/ JobFails(w)
    PROVE  /\ \A v \in Writer \ {w} : job'[v] = job[v]
           /\ job'[w].step \notin {"commit", "ref"}
           /\ job'[w].step = "content" =>
                 job'[w].era = era /\ era' = era /\ exists /\ exists'
<1>t. job \in [Writer -> Job] /\ NoJob.step = "none"
  BY DEF Typed, RequestOK, NoJob
<1>1. CASE Handle(w) \/ Forget(w)
  <2>1. \/ job' = [job EXCEPT ![w] = NoJob]
        \/ job' = [job EXCEPT ![w] = [NoJob EXCEPT !.step = "open", !.write = writes']]
        \/ job' = [job EXCEPT ![w] = [NoJob EXCEPT !.step = "remove"]]
    BY <1>1 DEF Handle, StartWrite, StartDelete, PublishWrite, PublishDelete,
                AnswerNothingDone, Answer, Forget
  <2>2. /\ [NoJob EXCEPT !.step = "open", !.write = writes'].step = "open"
        /\ [NoJob EXCEPT !.step = "remove"].step = "remove"
    BY DEF NoJob
  <2>3. \A v \in Writer \ {w} : job'[v] = job[v]
    BY <1>t, <2>1
  <2>4. job'[w].step \in {"none", "open", "remove"}
    BY <1>t, <2>1, <2>2
  <2> QED
    BY <2>3, <2>4
<1>2. CASE MoveHead(w) \/ RemoveRepository(w) \/ JobFails(w)
  <2>1. PICK x \in {"committed", "removed", "nothing"} : Step(w, x)
    BY <1>2 DEF MoveHead, RemoveRepository, JobFails
  <2> QED
    BY <2>1, StepFacts
<1>3. CASE Open(w)
  <2>1. exists /\ UNCHANGED <<exists, era>>
    BY <1>3 DEF Open, diskVars
  <2>2. CASE Step(w, "nothing")
    BY <2>2, StepFacts
  <2>3. CASE ~Step(w, "nothing")
    <3> DEFINE j == [job[w] EXCEPT !.step = "content", !.base = HeadOf(history), !.era = era]
    <3>1. job' = [job EXCEPT ![w] = j]
      BY <1>t, <1>3, <2>3 DEF Open
    <3>2. j.step = "content" /\ j.era = era
      BY <1>t DEF Job
    <3>3. job'[w] = j /\ \A v \in Writer \ {w} : job'[v] = job[v]
      BY <1>t, <3>1
    <3> HIDE DEF j
    <3> QED
      BY <2>1, <3>2, <3>3
  <2> QED
    BY <2>2, <2>3
<1> QED
  BY <1>1, <1>2, <1>3

(* The steps that leave every request's work alone. *)
Idle ==
    \/ UNCHANGED vars \/ StartPass \/ Pass
    \/ \E r \in Reader : OpenRead(r) \/ Lookup(r) \/ FailRead(r) \/ EndRead(r)
    \/ \E w \in Writer : Request(w) \/ Disconnect(w)

LEMMA IdleSteps ==
    ASSUME Idle
    PROVE  UNCHANGED <<job, exists, history, era, log, queue, announced>>
BY DEF Idle, vars, diskVars, toldVars, StartPass, Pass, ListObjects, SelectObjects,
       WritePack, RemoveLoose, RemovePacks, PassFails, EndPass, passFrame, OpenRead,
       Lookup, FailRead, EndRead, readFrame, Request, Disconnect

LEMMA StepKinds ==
    ASSUME [Next]_vars
    PROVE  \/ Idle \/ Crash
           \/ \E w \in Writer :
                \/ CreateRepository(w) \/ WriteContent(w) \/ WriteCommit(w)
                \/ Handle(w) \/ Forget(w) \/ Open(w) \/ MoveHead(w)
                \/ RemoveRepository(w) \/ JobFails(w)
BY DEF Next, Work, Idle

LEMMA DatedStep ==
    ASSUME StoreConstants, Typed, Dated, [Next]_vars
    PROVE  Dated'
<1>t. era \in Nat /\ \A v \in Writer : job[v].era \in Nat
  BY DEF Typed, DiskOK, RequestOK, Job
<1>1. CASE Idle
  BY <1>1, IdleSteps DEF Dated
<1>2. CASE Crash
  BY <1>2 DEF Crash, Dated, NoJob, UnderWay
<1>3. ASSUME NEW w \in Writer, CreateRepository(w) PROVE Dated'
  BY <1>3 DEF CreateRepository, Dated
<1>4. ASSUME NEW w \in Writer, WriteContent(w) \/ WriteCommit(w) PROVE Dated'
  <2>1. /\ UNCHANGED <<exists, era>> /\ job[w].step \in UnderWay
        /\ Step(w, "commit") \/ Step(w, "ref")
    BY <1>4 DEF WriteContent, WriteCommit, UnderWay
  <2>2. job'[w].era = job[w].era /\ \A v \in Writer \ {w} : job'[v] = job[v]
    BY <2>1, StepFacts
  <2> QED
    BY <2>1, <2>2 DEF Dated
<1>5. ASSUME NEW w \in Writer,
             \/ Handle(w) \/ Forget(w) \/ Open(w) \/ MoveHead(w)
             \/ RemoveRepository(w) \/ JobFails(w)
      PROVE  Dated'
  <2>1. \/ UNCHANGED <<exists, era>>
        \/ exists' = FALSE /\ era' = era + 1
    BY <1>5 DEF Handle, StartWrite, StartDelete, PublishWrite, PublishDelete,
                AnswerNothingDone, Answer, Forget, Open, MoveHead, RemoveRepository,
                JobFails, diskVars
  <2>2. \A v \in Writer \ {w} : job'[v].step \in UnderWay =>
           job'[v].era <= era' /\ (job'[v].era = era' => exists')
    <3> SUFFICES ASSUME NEW v \in Writer \ {w}, job[v].step \in UnderWay
                 PROVE  job[v].era <= era' /\ (job[v].era = era' => exists')
      BY <1>5, SettlesSteps
    <3>1. job[v].era <= era /\ (job[v].era = era => exists)
      BY DEF Dated
    <3> QED
      BY <1>t, <2>1, <3>1
  <2>3. job'[w].step \in UnderWay =>
           job'[w].era <= era' /\ (job'[w].era = era' => exists')
    BY <1>5, <1>t, SettlesSteps DEF UnderWay
  <2> QED
    BY <2>2, <2>3 DEF Dated
<1> QED
  BY <1>1, <1>2, <1>3, <1>4, <1>5, StepKinds

LEMMA AttendedStep ==
    ASSUME StoreConstants, Typed, Attended, [Next]_vars
    PROVE  Attended'
<1>t. /\ job \in [Writer -> Job] /\ handler \in [Writer -> {"idle", "locking", "waiting"}]
      /\ drops \in Nat /\ NoJob.step = "none"
  BY DEF Typed, RequestOK, NoJob, StoreConstants
<1>1. UNCHANGED <<job, handler, drops>> => Attended'
  BY DEF Attended
<1>2. ASSUME NEW w \in Writer, UNCHANGED drops,
             \A v \in Writer \ {w} : job'[v] = job[v] /\ handler'[v] = handler[v],
             job'[w].step # "none" => handler'[w] = "waiting"
      PROVE  Attended'
  BY <1>2 DEF Attended
<1>3. ASSUME NEW w \in Writer, Request(w) PROVE Attended'
  <2>1. /\ UNCHANGED drops /\ UNCHANGED job /\ job[w] = NoJob
        /\ \A v \in Writer \ {w} : handler'[v] = handler[v]
    BY <1>3, <1>t DEF Request
  <2> QED
    BY <1>t, <1>2, <2>1
<1>4. ASSUME NEW w \in Writer, Disconnect(w) PROVE Attended'
  BY <1>4, <1>t DEF Disconnect, Attended
<1>5. ASSUME NEW w \in Writer, Handle(w) \/ Forget(w) PROVE Attended'
  <2>1. UNCHANGED drops
    BY <1>5 DEF Handle, StartWrite, StartDelete, PublishWrite, PublishDelete,
                AnswerNothingDone, Answer, Forget
  <2>2. \A v \in Writer \ {w} : job'[v] = job[v] /\ handler'[v] = handler[v]
    BY <1>5, <1>t DEF Handle, StartWrite, StartDelete, PublishWrite, PublishDelete,
                      AnswerNothingDone, Answer, Forget
  <2>3. job'[w].step # "none" => handler'[w] = "waiting"
    BY <1>5, <1>t DEF Handle, StartWrite, StartDelete, PublishWrite, PublishDelete,
                      AnswerNothingDone, Answer, Forget
  <2> QED
    BY <1>2, <2>1, <2>2, <2>3
<1>6. ASSUME NEW w \in Writer, Work(w) PROVE Attended'
  <2>1. UNCHANGED <<handler, drops>> /\ job[w].step # "none"
    BY <1>6 DEF Work, CreateRepository, Open, WriteContent, WriteCommit, MoveHead,
                RemoveRepository, JobFails, poolFrame
  <2>2. \A v \in Writer \ {w} : job'[v] = job[v]
    BY <1>6, <1>t DEF Work, CreateRepository, Open, WriteContent, WriteCommit,
                MoveHead, RemoveRepository, JobFails, Step
  <2> QED
    BY <2>1, <2>2 DEF Attended
<1>7. CASE Crash
  BY <1>7, <1>t DEF Crash, Attended
<1>8. StartPass \/ Pass => UNCHANGED <<job, handler, drops>>
  BY DEF StartPass, Pass, ListObjects, SelectObjects, WritePack, RemoveLoose,
         RemovePacks, PassFails, EndPass, passFrame
<1>9. (\E r \in Reader : OpenRead(r) \/ Lookup(r) \/ FailRead(r) \/ EndRead(r))
      => UNCHANGED <<job, handler, drops>>
  BY DEF OpenRead, Lookup, FailRead, EndRead, readFrame
<1>10. UNCHANGED vars => UNCHANGED <<job, handler, drops>>
  BY DEF vars
<1> QED
  BY <1>1, <1>3, <1>4, <1>5, <1>6, <1>7, <1>8, <1>9, <1>10 DEF Next

(* Nothing comes to life but what a write stores. *)
LEMMA AliveSteps ==
    ASSUME StoreConstants, Typed, Dated, [Next]_vars, NEW o \in Object, Alive(o)'
    PROVE  Alive(o) \/ \E w \in Writer :
              \/ WriteContent(w) /\ o = Content(job[w].write)
              \/ WriteCommit(w) /\ o = Commit(job[w].write)
<1>t. /\ job \in [Writer -> Job] /\ era \in Nat
      /\ history \in Seq(1..MaxWrites)
  BY DEF Typed, RequestOK, DiskOK
<1>1. CASE Idle
  BY <1>1, IdleSteps DEF Alive, StoredBy
<1>2. CASE Crash
  BY <1>2 DEF Crash, NoJob, diskVars, Alive, StoredBy
<1>3. ASSUME NEW w \in Writer, CreateRepository(w) PROVE FALSE
  <2>1. ~exists /\ history' = <<>> /\ UNCHANGED <<job, era>>
    BY <1>3 DEF CreateRepository
  <2>2. PICK v \in Writer : job[v].era = era /\ o \in StoredBy(v)'
    BY <2>1 DEF Alive, Reachable
  <2>3. job[v].step \in UnderWay
    BY <2>1, <2>2 DEF StoredBy, UnderWay
  <2> QED
    BY <2>1, <2>2, <2>3 DEF Dated
<1>4. ASSUME NEW w \in Writer, WriteContent(w) \/ WriteCommit(w)
      PROVE  Alive(o) \/ \/ WriteContent(w) /\ o = Content(job[w].write)
                         \/ WriteCommit(w) /\ o = Commit(job[w].write)
  <2>1. /\ UNCHANGED <<exists, era, history>>
        /\ \/ Step(w, "commit") /\ WriteContent(w)
           \/ Step(w, "ref") /\ WriteCommit(w) /\ job[w].step = "commit"
    BY <1>4 DEF WriteContent, WriteCommit
  <2>2. /\ job'[w].era = job[w].era /\ job'[w].write = job[w].write
        /\ \A v \in Writer \ {w} : job'[v] = job[v]
        /\ Step(w, "commit") => job'[w].step = "commit"
        /\ Step(w, "ref") => job'[w].step = "ref"
    BY <2>1, StepFacts
  <2>3. \A v \in Writer \ {w} : StoredBy(v)' = StoredBy(v)
    BY <2>2 DEF StoredBy
  <2>4. o \in StoredBy(w)' => \/ o \in StoredBy(w)
                              \/ WriteContent(w) /\ o = Content(job[w].write)
                              \/ WriteCommit(w) /\ o = Commit(job[w].write)
    BY <2>1, <2>2 DEF StoredBy
  <2>5. exists /\ (o \in Reachable(history) \/ \E v \in Writer : job[v].era = era /\ o \in StoredBy(v)')
    BY <2>1, <2>2 DEF Alive
  <2> QED
    BY <2>3, <2>4, <2>5 DEF Alive
<1>5. ASSUME NEW w \in Writer,
             \/ Handle(w) \/ Forget(w) \/ Open(w) \/ MoveHead(w)
             \/ RemoveRepository(w) \/ JobFails(w)
      PROVE  Alive(o)
  <2>1. /\ \A v \in Writer \ {w} : job'[v] = job[v]
        /\ job'[w].step \notin {"commit", "ref"}
    BY <1>5, SettlesSteps
  <2>2. StoredBy(w)' = {} /\ \A v \in Writer \ {w} : StoredBy(v)' = StoredBy(v)
    BY <2>1 DEF StoredBy
  <2>3. UNCHANGED <<exists, era>>
    BY <1>5 DEF Handle, StartWrite, StartDelete, PublishWrite, PublishDelete,
                AnswerNothingDone, Answer, Forget, Open, MoveHead, RemoveRepository,
                JobFails, diskVars, Alive
  <2>4. \A v \in Writer : job'[v].era = era' /\ o \in StoredBy(v)' =>
           job[v].era = era /\ o \in StoredBy(v)
    BY <2>1, <2>2, <2>3
  <2>5. CASE MoveHead(w)
    <3>1. /\ job[w].step = "ref" /\ job[w].era = era /\ exists
          /\ history' = Append(history, job[w].write)
      BY <2>5 DEF MoveHead, OnTip
    <3>2. job[w].write \in 0..MaxWrites
      BY <1>t DEF Job
    <3>3. /\ DOMAIN history' = 1..(Len(history) + 1) /\ DOMAIN history = 1..Len(history)
          /\ Len(history) \in Nat
          /\ \A i \in 1..Len(history) : history'[i] = history[i]
          /\ history'[Len(history) + 1] = job[w].write
      BY <1>t, <3>1, <3>2
    <3>4. \A i \in DOMAIN history' : (i \in DOMAIN history /\ history'[i] = history[i])
                                     \/ history'[i] = job[w].write
      BY <3>3
    <3>5. o \in Reachable(history') =>
             o \in Reachable(history) \/ o \in {Content(job[w].write), Commit(job[w].write)}
      BY <3>4 DEF Reachable
    <3>6. o \in {Content(job[w].write), Commit(job[w].write)} => o \in StoredBy(w)
      BY <3>1 DEF StoredBy
    <3> QED
      BY <2>4, <3>1, <3>5, <3>6 DEF Alive
  <2>6. CASE ~MoveHead(w)
    <3>1. history' = history
      BY <1>5, <2>3, <2>6 DEF Handle, StartWrite, StartDelete, PublishWrite, PublishDelete,
              AnswerNothingDone, Answer, Forget, Open, RemoveRepository, JobFails,
              diskVars, Alive
    <3> QED
      BY <2>3, <2>4, <3>1 DEF Alive
  <2> QED
    BY <2>5, <2>6
<1> QED
  BY <1>1, <1>2, <1>3, <1>4, <1>5, StepKinds

-----------------------------------------------------------------------------
(* Nothing but a client that goes away makes a pass less careful. *)
LEMMA DropSteps ==
    ASSUME [Next]_vars
    PROVE  prune' = prune /\ (drops' = drops \/ drops' = drops + 1)
BY DEF Next, vars, Request, Handle, StartWrite, StartDelete, PublishWrite,
       PublishDelete, AnswerNothingDone, Answer, Disconnect, Forget, Work,
       CreateRepository, Open, WriteContent, WriteCommit, MoveHead,
       RemoveRepository, JobFails, poolFrame, OpenRead, Lookup, FailRead,
       EndRead, readFrame, StartPass, Pass, ListObjects, SelectObjects,
       WritePack, RemoveLoose, RemovePacks, PassFails, EndPass, passFrame, Crash

LEMMA CarefulSteps ==
    ASSUME StoreConstants, Typed, [Next]_vars
    PROVE  Careful' => Careful
<1>1. drops \in Nat
  BY DEF Typed, RequestOK, StoreConstants
<1>2. prune' = prune /\ (drops' = drops \/ drops' = drops + 1)
  BY DropSteps
<1>3. drops' = 0 => drops = 0
  BY <1>1, <1>2
<1> QED
  BY <1>2, <1>3 DEF Careful

(* While a pass runs and everybody waits, nobody has work under way. *)
LEMMA NobodyWrites ==
    ASSUME StoreConstants, Locked, Attended, drops = 0, pass.step # "none"
    PROVE  \A o \in Object : Alive(o) => o \in Reachable(history)
<1>1. \A w \in Writer : job[w].step = "none"
  BY DEF Locked, Attended, StoreConstants
<1> QED
  BY <1>1 DEF Alive, StoredBy

(* What a step has to leave for Kept to go on, when it is no step of the    *)
(* pass itself.                                                             *)
LEMMA KeptAside ==
    ASSUME Kept, Careful' => Careful, UNCHANGED pass, packs' \subseteq packs,
           \A o \in Object : Alive(o)' => o \in Stored' \/ (Alive(o) /\ Stored \subseteq Stored'),
           \A o \in Listed : Alive(o)' => Alive(o) /\ packs' = packs
    PROVE  Kept'
<1>1. Listed' = Listed
  BY DEF Listed
<1> QED
  BY <1>1 DEF Kept

LEMMA KeptBesides ==
    ASSUME StoreConstants, Typed, Numbered, Fresh, Dated, Kept, [Next]_vars,
           ~(StartPass \/ Pass \/ Crash)
    PROVE  Kept'
<1>t. /\ pass \in PassState /\ drops \in Nat /\ loose \in SUBSET Object
      /\ packs \in SUBSET SUBSET Object
  BY DEF Typed, MaintenanceOK, RequestOK, DiskOK, StoreConstants
<1>l. Listed \subseteq Object /\ Listed \subseteq Known
  BY <1>t DEF Listed, PassState, Known
<1>c. Careful' => Careful
  BY CarefulSteps
<1>1. ASSUME NEW w \in Writer, WriteContent(w) \/ WriteCommit(w)
      PROVE  Kept'
  <2> DEFINE new == {o \in Object : \/ WriteContent(w) /\ o = Content(job[w].write)
                                    \/ WriteCommit(w) /\ o = Commit(job[w].write)}
  <2>1. UNCHANGED <<packs, pass>> /\ loose \subseteq loose' /\ new \subseteq loose'
    BY <1>1 DEF WriteContent, WriteCommit, poolFrame
  <2>2. new \cap Known = {}
    BY DEF Fresh, WriteContent, WriteCommit
  <2>3. Stored \subseteq Stored' /\ new \subseteq Stored'
    BY <2>1 DEF Stored
  <2>4. \A o \in Object : Alive(o)' => Alive(o) \/ o \in new
    <3> SUFFICES ASSUME NEW o \in Object, Alive(o)'
                 PROVE  Alive(o) \/ o \in new
      OBVIOUS
    <3>1. Alive(o) \/ \E v \in Writer : \/ WriteContent(v) /\ o = Content(job[v].write)
                                        \/ WriteCommit(v) /\ o = Commit(job[v].write)
      BY AliveSteps
    <3>2. ASSUME NEW v \in Writer, WriteContent(v) \/ WriteCommit(v)
          PROVE  v = w
      <4>1. job'[v] # job[v]
        <5>1. \/ Step(v, "commit") /\ job[v].step = "content"
              \/ Step(v, "ref") /\ job[v].step = "commit"
          BY <3>2 DEF WriteContent, WriteCommit
        <5> QED
          BY <5>1, StepFacts
      <4>2. Step(w, "commit") \/ Step(w, "ref")
        BY <1>1 DEF WriteContent, WriteCommit
      <4> QED
        BY <4>1, <4>2, StepFacts
    <3> QED
      BY <3>1, <3>2
  <2>5. \A o \in Listed : Alive(o)' => Alive(o)
    BY <1>l, <2>2, <2>4
  <2> QED
    BY <1>c, <2>1, <2>3, <2>4, <2>5, KeptAside
<1>2. CASE ~\E w \in Writer : WriteContent(w) \/ WriteCommit(w)
  <2>1. \A o \in Object : Alive(o)' => Alive(o)
    BY <1>2, AliveSteps
  <2>2. CASE UNCHANGED <<loose, packs, pass>>
    <3>1. Stored' = Stored
      BY <2>2 DEF Stored
    <3> QED
      BY <1>c, <1>l, <2>1, <2>2, <3>1, KeptAside
  <2>3. CASE \E w \in Writer : CreateRepository(w) \/ (RemoveRepository(w) /\ exists)
    <3>1. /\ UNCHANGED pass /\ packs' = {}
          /\ ~exists \/ ~exists'
      BY <2>3 DEF CreateRepository, RemoveRepository, poolFrame
    <3>2. \A o \in Object : ~Alive(o)'
      BY <2>1, <3>1 DEF Alive
    <3> QED
      BY <1>c, <1>l, <3>1, <3>2, KeptAside
  <2>4. \/ UNCHANGED <<loose, packs, pass>>
        \/ \E w \in Writer : CreateRepository(w) \/ (RemoveRepository(w) /\ exists)
    <3>1. ASSUME NEW w \in Writer, RemoveRepository(w), ~exists
          PROVE  UNCHANGED <<loose, packs, pass>>
      BY <3>1 DEF RemoveRepository, poolFrame, diskVars
    <3> QED
      BY <1>2, <3>1 DEF Next, vars, diskVars, Request, Handle, StartWrite, StartDelete,
           PublishWrite, PublishDelete, AnswerNothingDone, Answer, Disconnect, Forget,
           Work, Open, MoveHead, JobFails, poolFrame, OpenRead, Lookup, FailRead,
           EndRead, readFrame
  <2> QED
    BY <2>2, <2>3, <2>4
<1> QED
  BY <1>1, <1>2

LEMMA KeptPass ==
    ASSUME StoreConstants, Typed, Locked, Dated, Attended, Kept, [Next]_vars,
           StartPass \/ Pass \/ Crash
    PROVE  Kept'
<1>t. pass \in PassState /\ Listed \subseteq Object
  BY DEF Typed, MaintenanceOK, DiskOK, Listed, PassState
<1>a. \A o \in Object : Alive(o)' => Alive(o)
  <2>1. ASSUME NEW w \in Writer, WriteContent(w) \/ WriteCommit(w)
        PROVE  FALSE
    <3>1. job'[w] # job[w] /\ job'[w].step # "none"
      <4>1. \/ Step(w, "commit") /\ job[w].step = "content"
            \/ Step(w, "ref") /\ job[w].step = "commit"
        BY <2>1 DEF WriteContent, WriteCommit
      <4> QED
        BY <4>1, StepFacts
    <3>2. Crash => job'[w].step = "none"
      BY DEF Crash, NoJob
    <3>3. StartPass \/ Pass => job' = job
      BY DEF StartPass, Pass, ListObjects, SelectObjects, WritePack, RemoveLoose,
             RemovePacks, PassFails, EndPass, passFrame
    <3> QED
      BY <3>1, <3>2, <3>3
  <2> QED
    BY <2>1, AliveSteps
<1>c. Careful' = Careful
  BY DEF Careful, Crash, StartPass, Pass, ListObjects, SelectObjects, WritePack,
         RemoveLoose, RemovePacks, PassFails, EndPass, passFrame
<1>1. ASSUME pass'.step \in {"none", "list", "end"}, Stored' = Stored
      PROVE  Kept'
  BY <1>1, <1>a, <1>c DEF Kept
<1>2. CASE StartPass \/ PassFails \/ EndPass \/ Crash
  <2>1. Stored' = Stored
    BY <1>2 DEF StartPass, PassFails, EndPass, Crash, diskVars, Stored
  <2>2. pass'.step \in {"none", "list", "end"}
    BY <1>2, <1>t DEF StartPass, PassFails, EndPass, Crash, NoPass, PassState
  <2> QED
    BY <1>1, <2>1, <2>2
<1>3. CASE ListObjects
  <2>1. Stored' = Stored /\ packs' = packs
    BY <1>3 DEF ListObjects, diskVars, Stored
  <2>2. \/ pass'.step = "end"
        \/ pass'.step = "select" /\ pass'.before = packs
    BY <1>3, <1>t DEF ListObjects, PassState
  <2> QED
    BY <1>1, <1>a, <1>c, <2>1, <2>2 DEF Kept
<1>4. CASE SelectObjects
  <2>1. /\ Stored' = Stored /\ packs' = packs /\ pass.step = "select"
        /\ pass'.step = "pack" /\ pass'.loose = pass.loose /\ pass'.before = pass.before
        /\ pass'.pack = IF prune THEN Reachable(history) \cap Stored ELSE Stored
    BY <1>4, <1>t DEF SelectObjects, diskVars, Stored, PassState
  <2>2. Careful => \A o \in Object : Alive(o) => o \in pass'.pack
    <3>1. CASE ~prune
      BY <2>1, <3>1 DEF Kept
    <3>2. CASE prune
      BY <2>1, <3>2, NobodyWrites DEF Kept, Careful
    <3> QED
      BY <3>1, <3>2
  <2>3. Listed' = Listed
    BY <2>1 DEF Listed
  <2> QED
    BY <1>a, <1>c, <1>t, <2>1, <2>2, <2>3 DEF Kept
<1>5. CASE WritePack
  <2>1. /\ loose' = loose /\ packs' = packs \cup {pass.pack} /\ pass.step = "pack"
        /\ pass'.step = "loose" /\ pass'.loose = pass.loose
        /\ pass'.before = pass.before /\ pass'.pack = pass.pack
    BY <1>5, <1>t DEF WritePack, PassState
  <2>2. Stored \subseteq Stored' /\ Listed' = Listed
    BY <2>1 DEF Stored, Listed
  <2> QED
    BY <1>a, <1>c, <1>t, <2>1, <2>2 DEF Kept
<1>6. CASE RemoveLoose
  <2>1. /\ loose' = loose \ pass.loose /\ packs' = packs /\ pass.step = "loose"
        /\ pass'.step = "packs" /\ pass'.loose = pass.loose
        /\ pass'.before = pass.before /\ pass'.pack = pass.pack
    BY <1>6, <1>t DEF RemoveLoose, PassState
  <2>2. Listed' = Listed
    BY <2>1 DEF Listed
  <2>3. Careful => \A o \in Object : Alive(o) => o \in Stored'
    <3> SUFFICES ASSUME Careful, NEW o \in Object, Alive(o)
                 PROVE  o \in Stored'
      OBVIOUS
    <3>1. CASE o \in pass.loose
      <4>1. o \in Listed
        BY <3>1 DEF Listed
      <4>2. o \in pass.pack /\ pass.pack \in packs
        BY <2>1, <4>1 DEF Kept
      <4> QED
        BY <2>1, <4>2 DEF Stored
    <3>2. CASE o \notin pass.loose
      <4>1. o \in Stored
        BY DEF Kept
      <4> QED
        BY <2>1, <3>2, <4>1 DEF Stored
    <3> QED
      BY <3>1, <3>2
  <2> QED
    BY <1>a, <1>c, <1>t, <2>1, <2>2, <2>3 DEF Kept
<1>7. CASE RemovePacks
  <2>1. /\ loose' = loose /\ pass.step = "packs" /\ pass'.step = "end"
        /\ packs' = IF packs \subseteq pass.before THEN packs ELSE packs \ pass.before
    BY <1>7, <1>t DEF RemovePacks, PassState
  <2>2. Careful => \A o \in Object : Alive(o) => o \in Stored'
    <3> SUFFICES ASSUME Careful, NEW o \in Object, Alive(o)
                 PROVE  o \in Stored'
      OBVIOUS
    <3>1. o \in Stored
      BY DEF Kept
    <3>2. CASE packs \subseteq pass.before \/ o \in loose
      BY <2>1, <3>1, <3>2 DEF Stored
    <3>3. CASE ~(packs \subseteq pass.before) /\ o \notin loose
      <4>1. PICK p \in packs : o \in p
        BY <3>1, <3>3 DEF Stored
      <4>2. CASE p \notin pass.before
        BY <2>1, <3>3, <4>1, <4>2 DEF Stored
      <4>3. CASE p \in pass.before
        <5>1. o \in Listed
          BY <4>1, <4>3 DEF Listed
        <5>2. o \in pass.pack /\ pass.pack \in packs
          BY <2>1, <5>1 DEF Kept
        <5>3. pass.pack \notin pass.before
          BY <2>1, <3>3 DEF Kept
        <5> QED
          BY <2>1, <3>3, <5>2, <5>3 DEF Stored
      <4> QED
        BY <4>2, <4>3
    <3> QED
      BY <3>2, <3>3
  <2> QED
    BY <1>a, <1>c, <2>1, <2>2 DEF Kept
<1> QED
  BY <1>2, <1>3, <1>4, <1>5, <1>6, <1>7 DEF Pass

LEMMA KeptStep ==
    ASSUME StoreConstants, Typed, Numbered, Locked, Fresh, Dated, Attended, Kept,
           [Next]_vars
    PROVE  Kept'
BY KeptBesides, KeptPass

WholeInv == StoreInv /\ Fresh /\ Dated /\ Attended /\ Kept

LEMMA WholeInvariant == Spec => []WholeInv
<1>1. Init => WholeInv
  <2> SUFFICES ASSUME Init PROVE WholeInv
    OBVIOUS
  <2>1. StoreInv
    BY InitStoreInv, StoreConstants
  <2>2. Fresh /\ Dated /\ Attended
    BY DEF Init, Fresh, Dated, Attended, Known, Stored, Listed, NoPass, NoJob, UnderWay
  <2>3. Kept
    BY DEF Init, Kept, Alive, NoPass
  <2> QED
    BY <2>1, <2>2, <2>3 DEF WholeInv
<1>2. WholeInv /\ [Next]_vars => WholeInv'
  BY StoreInvStep, FreshStep, DatedStep, AttendedStep, KeptStep, StoreConstants
     DEF WholeInv, StoreInv
<1> QED
  BY <1>1, <1>2, PTL DEF Spec

(* Whatever a crash, an I/O error or a client that goes away interrupts,    *)
(* and however many there are, a maintenance pass removes nothing that HEAD *)
(* reaches: always with destructive_prune off, with it on as long as no     *)
(* client has gone away.                                                    *)
THEOREM MaintenanceLosesNothing == Spec => []NothingReachableIsLost
<1>1. ASSUME WholeInv PROVE NothingReachableIsLost
  <2>1. history \in Seq(1..MaxWrites)
    BY <1>1 DEF WholeInv, StoreInv, Typed, DiskOK
  <2>2. Reachable(history) \in SUBSET Object
    BY <2>1, HeadFacts, StoreConstants
  <2> QED
    BY <1>1, <2>2 DEF WholeInv, Kept, Careful, Alive, NothingReachableIsLost, HistoryIsWhole
<1> QED
  BY <1>1, WholeInvariant, PTL

-----------------------------------------------------------------------------
(* A read that is not outdated needs what HEAD reaches, and finds it. *)
ReadsWhole ==
    \A r \in Reader : read[r].step # "none" =>
        /\ read[r].era <= era
        /\ read[r].era = era => exists /\ read[r].needs \subseteq Reachable(history)
        /\ Careful /\ read[r].step \in {"failed", "error"} => read[r].era # era

LEMMA HistoryGrows ==
    ASSUME NEW h \in Seq(1..MaxWrites), NEW n \in 1..MaxWrites
    PROVE  Reachable(h) \subseteq Reachable(Append(h, n)) /\ HeadOf(Append(h, n)) = n
<1>1. /\ Append(h, n) \in Seq(1..MaxWrites) /\ Len(Append(h, n)) = Len(h) + 1
      /\ DOMAIN h = 1..Len(h) /\ DOMAIN Append(h, n) = 1..(Len(h) + 1) /\ Len(h) \in Nat
      /\ Append(h, n)[Len(h) + 1] = n
  OBVIOUS
<1>2. \A i \in DOMAIN h : i \in DOMAIN Append(h, n) /\ Append(h, n)[i] = h[i]
  BY <1>1
<1>3. Append(h, n) # <<>>
  BY <1>1
<1>4. HeadOf(Append(h, n)) = n
  BY <1>1, <1>3, TipFact
<1> QED
  BY <1>2, <1>4 DEF Reachable

(* The disk under a read: the history grows, or the era moves on. *)
LEMMA DiskSteps ==
    ASSUME StoreConstants, Typed, Numbered, [Next]_vars
    PROVE  \/ /\ era' = era
              /\ exists => exists'
              /\ exists => Reachable(history) \subseteq Reachable(history')
           \/ era' = era + 1
<1>1. ASSUME NEW w \in Writer, MoveHead(w)
      PROVE  era' = era /\ exists' = exists /\ Reachable(history) \subseteq Reachable(history')
  <2>1. job[w].write \in 1..MaxWrites /\ history \in Seq(1..MaxWrites)
    BY <1>1 DEF MoveHead, Numbered, Unborn, Typed, RequestOK, DiskOK, Job
  <2> QED
    BY <1>1, <2>1, HistoryGrows DEF MoveHead
<1>2. ASSUME NEW w \in Writer, CreateRepository(w)
      PROVE  era' = era /\ ~exists
  BY <1>2 DEF CreateRepository
<1>3. ASSUME NEW w \in Writer, RemoveRepository(w)
      PROVE  era' = era + 1 \/ UNCHANGED <<exists, era, history>>
  BY <1>3 DEF RemoveRepository, diskVars
<1>4. ASSUME NEW w \in Writer, Handle(w) \/ Forget(w) \/ Open(w) \/ WriteContent(w)
                               \/ WriteCommit(w) \/ JobFails(w)
      PROVE  UNCHANGED <<exists, era, history>>
  BY <1>4 DEF Handle, StartWrite, StartDelete, PublishWrite, PublishDelete,
              AnswerNothingDone, Answer, Forget, Open, WriteContent, WriteCommit,
              JobFails, diskVars
<1>5. Crash => UNCHANGED <<exists, era, history>>
  BY DEF Crash, diskVars
<1>6. CASE UNCHANGED <<exists, era, history>>
  BY <1>6
<1> QED
  BY <1>1, <1>2, <1>3, <1>4, <1>5, <1>6, StepKinds, IdleSteps

LEMMA ReadsWholeStep ==
    ASSUME StoreConstants, Typed, Numbered, Kept, ReadsWhole, [Next]_vars
    PROVE  ReadsWhole'
<1>t. /\ read \in [Reader -> Reading] /\ era \in Nat /\ drops \in Nat
      /\ \A r \in Reader : read[r].era \in Nat
      /\ history \in Seq(1..MaxWrites)
  BY DEF Typed, ReadOK, DiskOK, RequestOK, StoreConstants, Reading
<1>1. CASE UNCHANGED read
  <2> SUFFICES ASSUME NEW r \in Reader, read[r].step # "none"
               PROVE  /\ read[r].era <= era'
                      /\ read[r].era = era' => exists' /\ read[r].needs \subseteq Reachable(history')
                      /\ Careful' /\ read[r].step \in {"failed", "error"} => read[r].era # era'
    BY <1>1 DEF ReadsWhole
  <2>1. /\ read[r].era <= era
        /\ read[r].era = era => exists /\ read[r].needs \subseteq Reachable(history)
        /\ Careful /\ read[r].step \in {"failed", "error"} => read[r].era # era
    BY DEF ReadsWhole
  <2>2. Careful' => Careful
    BY CarefulSteps
  <2>3. CASE era' = era + 1
    <3>1. read[r].era <= era' /\ read[r].era # era'
      BY <1>t, <2>1, <2>3
    <3> QED
      BY <3>1
  <2>4. CASE /\ era' = era
             /\ exists => exists'
             /\ exists => Reachable(history) \subseteq Reachable(history')
    <3>1. read[r].era <= era'
      BY <2>1, <2>4
    <3>2. read[r].era = era' => exists' /\ read[r].needs \subseteq Reachable(history')
      <4>1. CASE read[r].era = era
        <5>1. exists /\ read[r].needs \subseteq Reachable(history)
          BY <2>1, <4>1
        <5> QED
          BY <2>4, <5>1
      <4>2. CASE read[r].era # era
        BY <2>4, <4>2
      <4> QED
        BY <4>1, <4>2
    <3>3. Careful' /\ read[r].step \in {"failed", "error"} => read[r].era # era'
      BY <2>1, <2>2, <2>4
    <3> QED
      BY <3>1, <3>2, <3>3
  <2> QED
    BY <2>3, <2>4, DiskSteps
<1>2. CASE Crash
  BY <1>2 DEF Crash, ReadsWhole, NoRead
<1>3. ASSUME NEW r \in Reader, OpenRead(r) \/ Lookup(r) \/ FailRead(r) \/ EndRead(r)
      PROVE  ReadsWhole'
  <2>1. /\ UNCHANGED <<exists, era, history>> /\ Careful' = Careful /\ Reachable(history)' = Reachable(history)
        /\ read[r] \in Reading
    BY <1>3, <1>t DEF OpenRead, Lookup, FailRead, EndRead, readFrame, diskVars, Careful
  <2>2. \A q \in Reader \ {r} : read'[q] = read[q]
    BY <1>3, <1>t DEF OpenRead, Lookup, FailRead, EndRead
  <2>3. read'[r].step # "none" =>
           /\ read'[r].era <= era
           /\ read'[r].era = era => exists /\ read'[r].needs \subseteq Reachable(history)
           /\ Careful /\ read'[r].step \in {"failed", "error"} => read'[r].era # era
    <3>1. CASE OpenRead(r)
      <4>1. /\ read'[r] = [step |-> "look", needs |-> Reachable(history), era |-> era]
            /\ exists
        BY <1>t, <3>1 DEF OpenRead
      <4> QED
        BY <1>t, <4>1
    <3>2. CASE Lookup(r)
      <4>1. read[r].step = "look"
            /\ read'[r] = IF Found(r) THEN NoRead ELSE [read[r] EXCEPT !.step = "failed"]
        BY <1>t, <3>2 DEF Lookup
      <4>2. CASE Found(r)
        BY <4>1, <4>2 DEF NoRead
      <4>3. CASE ~Found(r)
        <5>1. /\ read'[r].era = read[r].era /\ read'[r].needs = read[r].needs
          BY <2>1, <4>1, <4>3 DEF Reading
        <5>2. /\ read[r].era <= era
              /\ read[r].era = era => exists /\ read[r].needs \subseteq Reachable(history)
          BY <4>1 DEF ReadsWhole
        <5>3. Careful => read[r].era # era
          <6> SUFFICES ASSUME Careful, read[r].era = era PROVE FALSE
            OBVIOUS
          <6>1. Reachable(history) \subseteq Object
            BY <1>t, HeadFacts
          <6>2. Reachable(history) \subseteq Stored
            BY <5>2, <6>1 DEF Kept, Alive
          <6> QED
            BY <4>3, <5>2, <6>2 DEF Found
        <5> QED
          BY <5>1, <5>2, <5>3
      <4> QED
        BY <4>2, <4>3
    <3>3. CASE FailRead(r)
      <4>1. read[r].step = "failed"
            /\ (read'[r] = NoRead \/ read'[r] = [read[r] EXCEPT !.step = "error"])
        BY <1>t, <3>3 DEF FailRead
      <4>2. read'[r].step = "none" \/ (read'[r].era = read[r].era /\ read'[r].needs = read[r].needs)
        BY <2>1, <4>1 DEF NoRead, Reading
      <4> QED
        BY <4>1, <4>2 DEF ReadsWhole
    <3>4. CASE EndRead(r)
      BY <1>t, <3>4 DEF EndRead, NoRead
    <3> QED
      BY <1>3, <3>1, <3>2, <3>3, <3>4
  <2> QED
    BY <2>1, <2>2, <2>3 DEF ReadsWhole
<1>4. UNCHANGED read \/ Crash
      \/ \E r \in Reader : OpenRead(r) \/ Lookup(r) \/ FailRead(r) \/ EndRead(r)
  BY DEF Next, vars, Request, Handle, StartWrite, StartDelete, PublishWrite,
         PublishDelete, AnswerNothingDone, Answer, Disconnect, Forget, Work,
         CreateRepository, Open, WriteContent, WriteCommit, MoveHead,
         RemoveRepository, JobFails, poolFrame, StartPass, Pass, ListObjects,
         SelectObjects, WritePack, RemoveLoose, RemovePacks, PassFails, EndPass,
         passFrame
<1> QED
  BY <1>1, <1>2, <1>3, <1>4

(* A read takes no lock, yet while it reads the repository it opened, no    *)
(* pass takes anything from under it; only a deletion makes it fail.        *)
THEOREM ReadsAreWhole == Spec => []ReadsFailOnlyByDeletion
<1>1. Init => ReadsWhole
  BY DEF Init, ReadsWhole, NoRead
<1>2. WholeInv /\ ReadsWhole /\ [Next]_vars => ReadsWhole'
  BY ReadsWholeStep, StoreConstants DEF WholeInv, StoreInv
<1>3. ReadsWhole => ReadsFailOnlyByDeletion
  BY DEF ReadsWhole, ReadsFailOnlyByDeletion, Careful
<1> QED
  BY <1>1, <1>2, <1>3, WholeInvariant, PTL DEF Spec

-----------------------------------------------------------------------------
(* What is not told yet is what the holder of the lock is about to tell. *)
Owed ==
    drops = 0 =>
        /\ \/ queue = log /\ \A w \in Writer : job[w].step # "committed"
           \/ \E w \in Writer : /\ job[w].step = "committed"
                                /\ log = Append(queue, job[w].write)
                                /\ exists
                                /\ HeadOf(history) = job[w].write
        /\ \/ announced = IF exists THEN HeadOf(history) ELSE Absent
           \/ exists /\ history = <<>>
           \/ \E w \in Writer : job[w].step \in {"committed", "removed"}
        /\ \A w \in Writer : job[w].step = "removed" => ~exists

(* Then at most one request has work. *)
LEMMA Alone ==
    ASSUME Locked, Attended, drops = 0
    PROVE  /\ \A v, w \in Writer : job[v].step # "none" /\ job[w].step # "none" => v = w
           /\ \A w \in Writer : job[w].step # "none" => lock = w /\ handler[w] = "waiting"
BY DEF Locked, Attended

LEMMA OwedStep ==
    ASSUME StoreConstants, Typed, Numbered, Locked, Attended, Owed, [Next]_vars
    PROVE  Owed'
<1> SUFFICES ASSUME drops' = 0
             PROVE  Owed'
  BY DEF Owed
<1>t. /\ job \in [Writer -> Job] /\ handler \in [Writer -> {"idle", "locking", "waiting"}]
      /\ log \in Seq(1..MaxWrites) /\ queue \in Seq(1..MaxWrites) /\ drops \in Nat
      /\ NoJob.step = "none" /\ Free \notin Writer
  BY DEF Typed, RequestOK, ToldOK, NoJob, StoreConstants
<1>d. drops = 0
  BY <1>t, DropSteps
<1>1. CASE Crash
  <2>1. /\ queue' = log' /\ \A w \in Writer : job'[w].step = "none"
        /\ announced' = IF exists' THEN HeadOf(history') ELSE Absent
    BY <1>1, <1>t DEF Crash, diskVars
  <2> QED
    BY <2>1 DEF Owed
<1>2. CASE drops = 0
  <2>o. /\ \/ queue = log /\ \A w \in Writer : job[w].step # "committed"
           \/ \E w \in Writer : /\ job[w].step = "committed"
                                /\ log = Append(queue, job[w].write)
                                /\ exists
                                /\ HeadOf(history) = job[w].write
        /\ \/ announced = IF exists THEN HeadOf(history) ELSE Absent
           \/ exists /\ history = <<>>
           \/ \E w \in Writer : job[w].step \in {"committed", "removed"}
        /\ \A w \in Writer : job[w].step = "removed" => ~exists
    BY <1>2 DEF Owed
  <2>1. CASE UNCHANGED <<job, exists, history, queue, log, announced>>
    BY <2>1, <2>o DEF Owed
  <2>2. ASSUME NEW w \in Writer,
               \A v \in Writer \ {w} : job'[v].step = "none",
               job'[w].step \notin {"committed", "removed"},
               job[w].step \notin {"committed", "removed"},
               \A v \in Writer \ {w} : job[v].step = "none",
               UNCHANGED <<exists, history, queue, log, announced>>
        PROVE  Owed'
    BY <2>2, <2>o DEF Owed
  <2>3. ASSUME NEW w \in Writer, job[w].step # "none"
        PROVE  \A v \in Writer \ {w} : job[v].step = "none"
    BY <1>2, <2>3, Alone
  <2>4. ASSUME NEW w \in Writer, StartWrite(w) \/ StartDelete(w)
        PROVE  Owed'
    <3>1. \A v \in Writer : job[v].step = "none"
      BY <1>2, <1>t, <2>4, Alone DEF StartWrite, StartDelete
    <3>2. /\ UNCHANGED <<exists, history, queue, log, announced>>
          /\ \/ job' = [job EXCEPT ![w] = [NoJob EXCEPT !.step = "open", !.write = writes']]
             \/ job' = [job EXCEPT ![w] = [NoJob EXCEPT !.step = "remove"]]
      BY <2>4 DEF StartWrite, StartDelete, diskVars, toldVars
    <3>3. /\ [NoJob EXCEPT !.step = "open", !.write = writes'].step = "open"
          /\ [NoJob EXCEPT !.step = "remove"].step = "remove"
      BY DEF NoJob
    <3>4. job'[w].step \in {"open", "remove"} /\ \A v \in Writer \ {w} : job'[v].step = "none"
      BY <1>t, <3>1, <3>2, <3>3
    <3> QED
      BY <2>2, <3>1, <3>2, <3>4
  <2>5. ASSUME NEW w \in Writer, PublishWrite(w)
        PROVE  Owed'
    <3>1. /\ job[w].step = "committed" /\ announced' = job[w].write
          /\ queue' = Append(queue, job[w].write)
          /\ UNCHANGED <<exists, history, log>> /\ job' = [job EXCEPT ![w] = NoJob]
      BY <2>5 DEF PublishWrite, Answer, diskVars
    <3>2. \A v \in Writer : job'[v].step = "none"
      BY <1>t, <2>3, <3>1
    <3>3. PICK v \in Writer : /\ job[v].step = "committed"
                              /\ log = Append(queue, job[v].write)
                              /\ exists
                              /\ HeadOf(history) = job[v].write
      BY <2>o, <3>1
    <3>4. v = w
      BY <2>3, <3>1, <3>3
    <3> QED
      BY <3>1, <3>2, <3>3, <3>4 DEF Owed
  <2>6. ASSUME NEW w \in Writer, PublishDelete(w)
        PROVE  Owed'
    <3>1. /\ job[w].step = "removed" /\ announced' = Absent
          /\ UNCHANGED <<exists, history, log, queue>> /\ job' = [job EXCEPT ![w] = NoJob]
      BY <2>6 DEF PublishDelete, Answer, diskVars
    <3>2. \A v \in Writer : job'[v].step = "none"
      BY <1>t, <2>3, <3>1
    <3>3. ~exists /\ \A v \in Writer : job[v].step # "committed"
      BY <2>o, <2>3, <3>1
    <3> QED
      BY <2>o, <3>1, <3>2, <3>3 DEF Owed
  <2>7. ASSUME NEW w \in Writer, AnswerNothingDone(w)
        PROVE  Owed'
    <3>1. /\ job[w].step = "nothing" /\ job' = [job EXCEPT ![w] = NoJob]
          /\ UNCHANGED <<exists, history, log, queue, announced>>
      BY <2>7 DEF AnswerNothingDone, Answer, diskVars, toldVars
    <3>2. \A v \in Writer : job'[v].step = "none"
      BY <1>t, <2>3, <3>1
    <3> QED
      BY <2>2, <2>3, <3>1, <3>2
  <2>8. ASSUME NEW w \in Writer, Forget(w)
        PROVE  FALSE
    BY <1>2, <2>8, Alone DEF Forget
  <2>9. ASSUME NEW w \in Writer, CreateRepository(w)
        PROVE  Owed'
    <3>1. /\ job[w].step = "open" /\ exists' = TRUE /\ history' = <<>>
          /\ UNCHANGED <<job, queue, log>>
      BY <2>9 DEF CreateRepository, poolFrame, toldVars
    <3>2. \A v \in Writer : job[v].step \notin {"committed", "removed"}
      BY <2>3, <3>1
    <3> QED
      BY <2>o, <3>1, <3>2 DEF Owed
  <2>10. ASSUME NEW w \in Writer, Open(w) \/ WriteContent(w) \/ WriteCommit(w) \/ JobFails(w)
         PROVE  Owed'
    <3>1. /\ UNCHANGED <<exists, history, log, queue, announced>>
          /\ job[w].step \notin {"none", "committed", "removed"}
      BY <2>10 DEF Open, WriteContent, WriteCommit, JobFails, poolFrame, diskVars, toldVars
    <3>2. /\ \A v \in Writer \ {w} : job'[v] = job[v]
          /\ job'[w].step \notin {"committed", "removed"}
      <4>1. ASSUME NEW x \in {"commit", "ref", "nothing"}, Step(w, x)
            PROVE  /\ \A v \in Writer \ {w} : job'[v] = job[v]
                   /\ job'[w].step \notin {"committed", "removed"}
        BY <4>1, StepFacts
      <4>2. CASE Open(w) /\ ~Step(w, "nothing")
        <5> DEFINE j == [job[w] EXCEPT !.step = "content", !.base = HeadOf(history), !.era = era]
        <5>1. job' = [job EXCEPT ![w] = j]
          BY <1>t, <4>2 DEF Open
        <5>2. j.step = "content"
          BY <1>t DEF Job
        <5> HIDE DEF j
        <5> QED
          BY <1>t, <5>1, <5>2
      <4> QED
        BY <2>10, <4>1, <4>2 DEF WriteContent, WriteCommit, JobFails
    <3> QED
      BY <2>2, <2>3, <3>1, <3>2
  <2>11. ASSUME NEW w \in Writer, MoveHead(w)
         PROVE  Owed'
    <3>1. /\ job[w].step = "ref" /\ exists /\ Step(w, "committed")
          /\ history' = Append(history, job[w].write)
          /\ log' = Append(log, job[w].write)
          /\ UNCHANGED <<exists, queue>>
      BY <2>11 DEF MoveHead, OnTip, poolFrame, toldVars
    <3>2. job[w].write \in 1..MaxWrites /\ history \in Seq(1..MaxWrites)
      BY <3>1 DEF Numbered, Unborn, Typed, RequestOK, DiskOK, Job
    <3>3. HeadOf(history') = job[w].write
      BY <3>1, <3>2, HistoryGrows
    <3>4. /\ job'[w].step = "committed" /\ job'[w].write = job[w].write
          /\ \A v \in Writer \ {w} : job'[v] = job[v]
      BY <3>1, StepFacts
    <3>5. queue = log /\ \A v \in Writer \ {w} : job[v].step = "none"
      BY <2>o, <2>3, <3>1
    <3>6. log' = Append(queue', job'[w].write) /\ exists' /\ HeadOf(history') = job'[w].write
      BY <3>1, <3>3, <3>4, <3>5
    <3>7. \A v \in Writer : job'[v].step # "removed"
      BY <3>4, <3>5
    <3> QED
      BY <3>4, <3>6, <3>7 DEF Owed
  <2>12. ASSUME NEW w \in Writer, RemoveRepository(w)
         PROVE  Owed'
    <3>1. job[w].step = "remove" /\ UNCHANGED <<queue, log, announced>>
      BY <2>12 DEF RemoveRepository, poolFrame, toldVars
    <3>2. \A v \in Writer \ {w} : job[v].step = "none"
      BY <2>3, <3>1
    <3>3. CASE exists
      <4>1. Step(w, "removed") /\ exists' = FALSE
        BY <2>12, <3>3 DEF RemoveRepository
      <4>2. /\ job'[w].step = "removed" /\ \A v \in Writer \ {w} : job'[v] = job[v]
        BY <4>1, StepFacts
      <4>3. queue = log
        BY <2>o, <3>1, <3>2
      <4> QED
        BY <3>1, <3>2, <4>1, <4>2, <4>3 DEF Owed
    <3>4. CASE ~exists
      <4>1. Step(w, "nothing") /\ UNCHANGED <<exists, history>>
        BY <2>12, <3>4 DEF RemoveRepository, diskVars
      <4>2. /\ job'[w].step = "nothing" /\ \A v \in Writer \ {w} : job'[v] = job[v]
        BY <4>1, StepFacts
      <4> QED
        BY <2>2, <3>1, <3>2, <4>1, <4>2
    <3> QED
      BY <3>3, <3>4
  <2>13. Idle => UNCHANGED <<job, exists, history, queue, log, announced>>
    BY IdleSteps
  <2> QED
    BY <1>1, <2>1, <2>4, <2>5, <2>6, <2>7, <2>8, <2>9, <2>10, <2>11, <2>12, <2>13,
       StepKinds DEF Handle
<1> QED
  BY <1>1, <1>2, <1>d

(* While every client waits for its answer, every commit since boot has     *)
(* been enqueued and the last one announced, once the lock is free.         *)
THEOREM CommitsAreTold == Spec => []EveryCommitIsTold
<1>1. Init => Owed
  BY DEF Init, Owed, NoJob
<1>2. WholeInv /\ Owed /\ [Next]_vars => Owed'
  BY OwedStep, StoreConstants DEF WholeInv, StoreInv
<1>3. WholeInv /\ Owed => EveryCommitIsTold
  <2> SUFFICES ASSUME WholeInv, Owed, drops = 0, lock = Free
               PROVE  /\ queue = log
                      /\ \/ announced = IF exists THEN HeadOf(history) ELSE Absent
                         \/ exists /\ history = <<>>
    BY DEF EveryCommitIsTold
  <2>1. \A w \in Writer : job[w].step = "none"
    BY Alone, StoreConstants DEF WholeInv, StoreInv, StoreConstants
  <2> QED
    BY <2>1 DEF Owed
<1> QED
  BY <1>1, <1>2, <1>3, WholeInvariant, PTL DEF Spec
=============================================================================
