------------------------------ MODULE TenantLog ------------------------------
(* What the users of one tenant are promised, whatever the handlers, the    *)
(* blocking pool and maintenance do in between: a log of writes.  A write   *)
(* takes effect in one step, on the very state it was made from, and at     *)
(* most once; who listens is told of writes in the order they took effect;  *)
(* a restart forgets nothing that took effect.                              *)
EXTENDS Naturals, Sequences

CONSTANTS
    Client,     \* who writes
    Write,      \* the writes, numbers
    Nothing     \* no write under way

VARIABLES
    present,    \* whether the tenant exists
    repo,       \* its log
    generation, \* how many logs the tenant has had before
    seen,       \* what each write under way was made from
    committed,  \* the writes that took effect since the last restart
    told        \* those that were told

vars == <<present, repo, generation, seen, committed, told>>

Tip == IF repo = <<>> THEN 0 ELSE repo[Len(repo)]
Here == [generation |-> generation, tip |-> Tip]

Init ==
    /\ present = FALSE /\ repo = <<>> /\ generation = 0
    /\ seen = [c \in Client |-> Nothing]
    /\ committed = <<>> /\ told = <<>>

Create ==
    /\ ~present
    /\ present' = TRUE /\ repo' = <<>>
    /\ UNCHANGED <<generation, seen, committed, told>>

Begin(c) ==
    /\ present
    /\ seen' = [seen EXCEPT ![c] = Here]
    /\ UNCHANGED <<present, repo, generation, committed, told>>

Commit(c, n) ==
    /\ present /\ seen[c] = Here
    /\ \A k \in DOMAIN committed : committed[k] # n
    /\ repo' = Append(repo, n)
    /\ committed' = Append(committed, n)
    /\ seen' = [seen EXCEPT ![c] = Nothing]
    /\ UNCHANGED <<present, generation, told>>

GiveUp(c) ==
    /\ seen' = [seen EXCEPT ![c] = Nothing]
    /\ UNCHANGED <<present, repo, generation, committed, told>>

Remove ==
    /\ present
    /\ present' = FALSE /\ repo' = <<>> /\ generation' = generation + 1
    /\ UNCHANGED <<seen, committed, told>>

(* Writes may be passed over, but never told late or twice. *)
Tell(k) ==
    /\ \A i \in DOMAIN told : \E j \in 1..(k - 1) : committed[j] = told[i]
    /\ told' = Append(told, committed[k])
    /\ UNCHANGED <<present, repo, generation, seen, committed>>

Restart ==
    /\ seen' = [c \in Client |-> Nothing]
    /\ committed' = <<>> /\ told' = <<>>
    /\ UNCHANGED <<present, repo, generation>>

Next ==
    \/ Create \/ Remove \/ Restart
    \/ \E c \in Client : Begin(c) \/ GiveUp(c) \/ \E n \in Write : Commit(c, n)
    \/ \E k \in DOMAIN committed : Tell(k)

Spec == Init /\ [][Next]_vars
=============================================================================
