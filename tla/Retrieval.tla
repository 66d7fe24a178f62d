----------------------------- MODULE Retrieval -----------------------------
(***************************************************************************)
(* `kb get` and `kb search`, lib/retrieval.ml, against an index that other *)
(* processes synchronise.                                                  *)
(*                                                                         *)
(* A reader captures the commit its clone knows of main, asks whether the  *)
(* index is the index of that commit, reads, and asks again before it      *)
(* commits.  A get also counts the access, in the transaction that read    *)
(* the concept, and the reply to its COMMIT may be lost.  Visibility       *)
(* filters, ranking and the byte limits of rows are left out.              *)
(***************************************************************************)
EXTENDS IndexSync

CONSTANTS
    Readers,        \* retrieval processes
    CloneOf,        \* the clone each runs in
    MaxReads        \* bound: how many retrievals are started

ASSUME RetrievalAssumption ==
    /\ CloneOf \in [Readers -> Clones]
    /\ MaxReads \in Nat

VARIABLES
    reads,      \* the retrieval of each reader
    unread,     \* retrievals that may still be started
    told        \* history: what gets were told of each row since it was inserted

rvars == <<vars, reads, unread, told>>

Quiet == [pc |-> "idle", kind |-> "get", path |-> None, commit |-> 0,
          found |-> [p \in Paths |-> None], seen |-> None]

Untold == [done |-> 0, uncertain |-> 0]

Reading(r, pc) == reads[r].pc = pc
Move(r, pc) == reads' = [reads EXCEPT ![r].pc = pc]
Quit(r) == reads' = [reads EXCEPT ![r] = Quiet]

ReadOnly == UNCHANGED <<vars, unread, told>>

InTransaction(r) == reads[r].pc \in {"content", "state", "ref", "commit"}

\* The rows that gets hold FOR SHARE until they commit.
Shared(p) ==
    \E r \in Readers :
        InTransaction(r) /\ reads[r].kind = "get" /\ reads[r].path = p

----------------------------------------------------------------------------
(* A retrieval *)

\* validate_state
Valid(r, checkpoint) ==
    /\ checkpoint # None
    /\ checkpoint.source = SourceOf[CloneOf[r]]
    /\ checkpoint.model = ModelOf[CloneOf[r]]
    /\ checkpoint.commit = reads[r].commit

\* source_and_commit: what the clone last fetched, without fetching.
Begin(r, kind, path) ==
    /\ Reading(r, "idle") /\ unread > 0
    /\ tracking[CloneOf[r]] # 0
    /\ unread' = unread - 1
    /\ reads' = [reads EXCEPT ![r] = [Quiet EXCEPT !.pc = "preflight", !.kind = kind,
                    !.path = path, !.commit = tracking[CloneOf[r]]]]
    /\ UNCHANGED <<vars, told>>

\* index_preflight, in a transaction of its own.
Preflight(r) ==
    /\ Reading(r, "preflight")
    /\ IF Valid(r, state)
       THEN Move(r, IF reads[r].kind = "get" THEN "lock" ELSE "snapshot")
       ELSE Quit(r)
    /\ ReadOnly

\* get_visible_sql: concept_not_found, or the row is locked.
LockRow(r) ==
    /\ Reading(r, "lock")
    /\ IF rows[reads[r].path] = None THEN Quit(r) ELSE Move(r, "content")
    /\ ReadOnly

\* validate_content of the one row.
ReadContent(r) ==
    /\ Reading(r, "content")
    /\ reads' = [reads EXCEPT ![r].pc = "state",
                    ![r].found[reads[r].path] = rows[reads[r].path]]
    /\ ReadOnly

\* The first query of a search fixes what its transaction sees of rows and
\* checkpoint: candidates and their contents are those of one snapshot.
Snapshot(r) ==
    /\ Reading(r, "snapshot")
    /\ reads' = [reads EXCEPT ![r].pc = "state", ![r].found = rows, ![r].seen = state]
    /\ ReadOnly

\* Mutant of Checkpoint: a search is read committed as well.
ReadCommitted(r) == state

\* state_sql in the transaction: a get is read committed, a search is not.
Checkpoint(r) == IF reads[r].kind = "get" THEN state ELSE reads[r].seen

CheckState(r) ==
    /\ Reading(r, "state")
    /\ IF Valid(r, Checkpoint(r)) THEN Move(r, "ref") ELSE Quit(r)
    /\ ReadOnly

\* check_final_ref; a get then writes its access, seen by nobody before COMMIT.
CheckRef(r) ==
    /\ Reading(r, "ref")
    /\ IF tracking[CloneOf[r]] = reads[r].commit THEN Move(r, "commit") ELSE Quit(r)
    /\ ReadOnly

\* A get is told of its access: done, or uncertain.
Tell(p, outcome) == told' = [told EXCEPT ![p][outcome] = @ + 1]

\* COMMIT is dispatched and acknowledged.
Deliver(r) ==
    /\ Reading(r, "commit")
    /\ IF reads[r].kind = "get"
       THEN CountAccess(reads[r].path) /\ Tell(reads[r].path, "done")
       ELSE UNCHANGED <<stats, told>>
    /\ Quit(r)
    /\ UNCHANGED <<git, rows, state, lock, sync, faults, unread>>

\* Mutant of AfterDispatch: the loss is reported like any other.
PlainLoss(p) == UNCHANGED told

AfterDispatch(p) == Tell(p, "uncertain")

\* The connection is lost after COMMIT was sent, before or after it took effect:
\* the get is told that its access may have been counted.
LoseReply(r) ==
    /\ Reading(r, "commit") /\ reads[r].kind = "get"
    /\ Fault("reply")
    /\ CountAccess(reads[r].path) \/ UNCHANGED stats
    /\ AfterDispatch(reads[r].path)
    /\ Quit(r)
    /\ UNCHANGED <<git, rows, state, lock, sync, unread>>

\* The deadline, a limit, a failed statement: rolled back before COMMIT.
GiveUp(r) ==
    /\ ~Reading(r, "idle")
    /\ Fault("deadline")
    /\ Quit(r)
    /\ UNCHANGED <<git, db, lock, sync, unread, told>>

----------------------------------------------------------------------------
(* Syncs among readers *)

\* The transaction of a sync waits for the rows that are locked.
ApplyAmongReaders(c) ==
    /\ Apply(c)
    /\ \A p \in Paths : rows'[p] # rows[p] => ~Shared(p)

\* Somebody forces main back to the commit before.
Rewind(s) ==
    /\ tip[s] > 1
    /\ Fault("rewind")
    /\ tip' = [tip EXCEPT ![s] = @ - 1]
    /\ UNCHANGED <<tracking, db, lock, sync>>

\* TRUNCATE and a restore wait for, or end, every transaction.
WithoutReaders == \A r \in Readers : ~InTransaction(r)

----------------------------------------------------------------------------
(* The specification *)

RInit ==
    /\ Init
    /\ reads = [r \in Readers |-> Quiet]
    /\ unread = MaxReads
    /\ told = [p \in Paths |-> Untold]

Advance(r) ==
    \/ Preflight(r) \/ LockRow(r) \/ ReadContent(r) \/ Snapshot(r)
    \/ CheckState(r) \/ CheckRef(r) \/ Deliver(r)

Retrieve(r) == \E kind \in {"get", "search"}, path \in Accessed : Begin(r, kind, path)

SyncStep(c) == Planning(c) \/ ApplyAmongReaders(c) \/ Unlock(c)

Clear(s) == WithoutReaders /\ OperatorClear(s)

\* Nobody's retrieval takes part; what was told of a row goes with the row.
Untouched ==
    /\ UNCHANGED <<reads, unread>>
    /\ told' = [p \in Paths |-> IF rows'[p] = None THEN Untold ELSE told[p]]

RNext ==
    \/ \E r \in Readers : Retrieve(r) \/ Advance(r) \/ LoseReply(r) \/ GiveUp(r)
    \/ \E c \in Clones : Invoke(c) /\ Untouched
    \/ \E c \in Clones : SyncStep(c) /\ Untouched
    \/ \E c \in Clones : Failing(c) /\ Untouched
    \/ \E s \in Sources : Push(s) /\ Untouched
    \/ \E s \in Sources : Rewind(s) /\ Untouched
    \/ \E s \in Sources : Clear(s) /\ Untouched
    \/ WithoutReaders /\ LoseState /\ Untouched

RSpec == RInit /\ [][RNext]_rvars

\* Invocations that sync whatever the tip is and whatever goes.
Approving == {options \in Options : "allow" \in options /\ "target" \notin options}

\* A started sync or retrieval proceeds; every clone synchronises again and
\* again, with the owner's approval of deletions; an index without identity is
\* cleared.
RFairness ==
    /\ \A r \in Readers : WF_rvars(Advance(r))
    /\ \A c \in Clones :
          /\ SF_rvars(\E options \in Approving : Start(c, options) /\ Untouched)
          /\ WF_rvars(SyncStep(c) /\ Untouched)
    /\ \A s \in Sources : SF_rvars(Clear(s) /\ Untouched)

RFairSpec == RSpec /\ RFairness

----------------------------------------------------------------------------
(* Properties *)

Reads ==
    [pc : {"idle", "preflight", "lock", "content", "snapshot", "state", "ref", "commit"},
     kind : {"get", "search"}, path : Paths \cup {None}, commit : Nat,
     found : Table, seen : State \cup {None}]

RTypeOK ==
    /\ TypeOK
    /\ reads \in [Readers -> Reads]
    /\ \A r \in Readers :
          InTransaction(r) /\ reads[r].kind = "get" => rows[reads[r].path] # None
    /\ unread \in Nat
    /\ told \in [Paths -> [done : Nat, uncertain : Nat]]

\* What a retrieval is about to return is what the commit it captured holds,
\* however many syncs ran between its statements (get_with_deadline,
\* search_with_clock).
ReadsCapturedTree ==
    \A r \in Readers : Reading(r, "commit") =>
        LET tree == Trees[SourceOf[CloneOf[r]]][reads[r].commit]
            asked == IF reads[r].kind = "get" THEN {reads[r].path} ELSE Paths
        IN  \A p \in asked : reads[r].found[p] = RowFor(tree[p], ModelOf[CloneOf[r]])

Counted(p) == IF stats[p] = None THEN 0 ELSE stats[p]

\* For as long as a row stays, however syncs rewrite it, its count holds every
\* access that a get was told is done, and beyond these only such as a get was
\* told are uncertain (retrieval_transaction_result, apply).
CountedOnce ==
    \A p \in Paths :
        Counted(p) \in told[p].done .. told[p].done + told[p].uncertain
=============================================================================
