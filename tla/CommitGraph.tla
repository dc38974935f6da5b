----------------------------- MODULE CommitGraph -----------------------------
(***************************************************************************)
(* Git history as the replication code sees it.  A commit stands for       *)
(* itself with its tree; Past[c] is c and every ancestor of c.             *)
(***************************************************************************)
CONSTANTS
    Commit,     \* every commit any node may ever hold
    Past,       \* Past[c]: what is reachable from c, c included
    None        \* an unborn HEAD, a repository that is not there

ASSUME History ==
    /\ None \notin Commit
    /\ Past \in [Commit -> SUBSET Commit]
    /\ \A c \in Commit : c \in Past[c]
    /\ \A c \in Commit : \A d \in Past[c] : Past[d] \subseteq Past[c]
    /\ \A c \in Commit : \A d \in Past[c] : c \in Past[d] => c = d

(* graph_descendant_of: strict, a commit is no descendant of itself *)
DescendsFrom(c, d) == c # d /\ d \in Past[c]

(* The commits one write may produce on top of a HEAD. *)
ChildrenOf(head) ==
    IF head = None THEN {c \in Commit : Past[c] = {c}}
    ELSE {c \in Commit : c # head /\ Past[c] = Past[head] \cup {c}}

Reach(head) == IF head = None THEN {} ELSE Past[head]

(* build_pack: everything reachable from head, less what is reachable from *)
(* `have`; a `have` this node never held is ignored.  Whether a commit     *)
(* outside head's history is still held depends on past restores, deletes  *)
(* and prunes, and both answers are possible.                              *)
Packs(head, have) ==
    IF have \in Reach(head) THEN {Past[head] \ Past[have]}
    ELSE {Past[head] \ Reach(have), Past[head]}

(* relation_to, from local objects alone *)
Relation(objects, local, remote) ==
    IF local = None \/ remote \notin objects THEN "unknown"
    ELSE IF remote = local THEN "same"
    ELSE IF DescendsFrom(local, remote) THEN "ahead" ELSE "diverged"
=============================================================================
