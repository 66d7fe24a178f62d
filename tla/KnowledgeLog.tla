---------------------------- MODULE KnowledgeLog ----------------------------
(***************************************************************************)
(* What publication promises about durable knowledge, whoever publishes    *)
(* and whatever fails: the remote main branch is a log to which changes    *)
(* are appended one at a time and once each, and a change that has reached *)
(* the remote, on main or on a preserved branch, stays known.              *)
(***************************************************************************)
EXTENDS Sequences

CONSTANT Change

VARIABLES
    log,    \* the changes of the remote main branch, oldest first
    kept    \* the changes that have been on the remote, on any branch

InLog(c) == \E i \in DOMAIN log : log[i] = c

Init == log = <<>> /\ kept = {}

\* A publisher wins the race for main with exactly one new change.
Publish(c) ==
    /\ ~InLog(c)
    /\ log' = Append(log, c)
    /\ kept' = kept \cup {c}

\* A change is put aside on a conflicts/ or recovery/ branch.
PutAside(c) ==
    /\ kept' = kept \cup {c}
    /\ UNCHANGED log

Next == \E c \in Change : Publish(c) \/ PutAside(c)

Spec == Init /\ [][Next]_<<log, kept>>
=============================================================================
