----------------------------- MODULE IndexSync -----------------------------
(***************************************************************************)
(* The derived index of a knowledge repository in PostgreSQL and the       *)
(* `kb sync` processes that write it, lib/sync.ml, over the schema of      *)
(* db/migrations/0002_application_schema.sql.                              *)
(*                                                                         *)
(* Clones of one or several repositories share the database.  A commit of  *)
(* a repository is a position in its history, and stands for the concepts  *)
(* its tree holds.  A sync plans outside any transaction and applies its   *)
(* plan in one; what keeps the plan valid is an advisory lock that belongs *)
(* to the database session, which may end without the client noticing.     *)
(***************************************************************************)
EXTENDS Integers, Sequences, FiniteSets

CONSTANTS
    Clones,         \* the clones that synchronise and read
    Sources,        \* the repositories, by their source_repository identity
    SourceOf,       \* the repository of each clone
    ModelOf,        \* the embedding model of the kb each clone runs
    Paths,          \* concept paths
    Inputs,         \* what embeddings are computed from
    Rests,          \* what else a blob says
    Trees,          \* the history of each repository: sequences of trees
    MassLimit,      \* deletions from which the safeguard looks at the share
    Options,        \* bound: the sets of options a sync is invoked with
    Accessed,       \* bound: the paths whose accesses are counted
    MaxAccess,      \* bound: how many of each
    Hazards,        \* which faults this instance admits
    MaxFaults,      \* bound: how many of them happen
    None

Models == {ModelOf[c] : c \in Clones}
Blob   == [input : Inputs, rest : Rests]
Tree   == [Paths -> Blob \cup {None}]
Row    == [blob : Blob, input : Inputs, model : Models, vector : Models \X Inputs]
Table  == [Paths -> Row \cup {None}]
State  == [source : Sources, commit : Nat, model : Models]

ASSUME IndexAssumption ==
    /\ SourceOf \in [Clones -> Sources]
    /\ DOMAIN ModelOf = Clones
    /\ Trees \in [Sources -> Seq(Tree)]
    /\ \A s \in Sources : Trees[s] # <<>>
    /\ Options \subseteq SUBSET {"target", "reembed", "allow"}
    /\ Accessed \subseteq Paths
    /\ MassLimit \in Nat /\ MaxAccess \in Nat /\ MaxFaults \in Nat
    /\ None \notin Blob /\ None \notin Row /\ None \notin State
    /\ None \notin Clones /\ None \notin Nat

VARIABLES
    tip,        \* refs/heads/main of each remote
    tracking,   \* refs/remotes/origin/main of each clone, 0 before any fetch
    rows,       \* public.concepts
    state,      \* public.index_state, or None
    stats,      \* public.access_stats: a count, or None
    lock,       \* the advisory lock of each source, and who holds it
    sync,       \* the sync process of each clone
    faults      \* faults that may still happen

git == <<tip, tracking>>
db  == <<rows, state, stats>>
vars == <<git, db, lock, sync, faults>>

----------------------------------------------------------------------------
(* The index *)

\* The row of a blob embedded by a model.
RowFor(blob, model) ==
    IF blob = None THEN None
    ELSE [blob |-> blob, input |-> blob.input, model |-> model,
          vector |-> <<model, blob.input>>]

Present(table) == {p \in Paths : table[p] # None}

Idle == [pc |-> "idle", alive |-> FALSE, requested |-> 0, reembed |-> FALSE,
         allow |-> FALSE, target |-> 0, state |-> None, rows |-> [p \in Paths |-> None]]

Fault(kind) == kind \in Hazards /\ faults > 0 /\ faults' = faults - 1

\* The tree the run of c brings the index to.
Target(c) == Trees[SourceOf[c]][sync[c].target]

At(c, pc) == sync[c].pc = pc
\* A statement needs the session it runs on.
Connected(c) == sync[c].alive

Goto(c, pc) == sync' = [sync EXCEPT ![c].pc = pc]

\* Refused, failed or done: what remains is to release the lock.
Stop(c) == sync' = [sync EXCEPT ![c] = [Idle EXCEPT !.pc = "unlock", !.alive = Connected(c)]]

\* try_lock
Lockable(c) == lock[SourceOf[c]] = None

\* A requested commit is the tip when the sync is invoked.
Start(c, options) ==
    /\ At(c, "idle")
    /\ Lockable(c)
    /\ lock' = [lock EXCEPT ![SourceOf[c]] = c]
    /\ sync' = [sync EXCEPT ![c] = [Idle EXCEPT !.pc = "precheck", !.alive = TRUE,
                   !.requested = IF "target" \in options THEN tip[SourceOf[c]] ELSE 0,
                   !.reembed = "reembed" \in options, !.allow = "allow" \in options]]
    /\ UNCHANGED <<git, db, faults>>

\* precheck_index_state: rows without an identity are not adopted.
Precheck(c) ==
    /\ At(c, "precheck") /\ Connected(c)
    /\ IF state = None /\ Present(rows) # {} THEN Stop(c) ELSE Goto(c, "fetch")
    /\ UNCHANGED <<git, db, lock, faults>>

\* Mutant of Fetched: the ref of an earlier fetch is used if there is one.
Remembered(c) == IF tracking[c] = 0 THEN tip[SourceOf[c]] ELSE tracking[c]

Fetched(c) == tip[SourceOf[c]]

\* fetch_target: the commit to index is the tip under the lock, and a requested
\* one must be that tip.
FetchTarget(c) ==
    /\ At(c, "fetch")
    /\ tracking' = [tracking EXCEPT ![c] = tip[SourceOf[c]]]
    /\ IF sync[c].requested \in {0, Fetched(c)}
       THEN sync' = [sync EXCEPT ![c].pc = "state", ![c].target = Fetched(c)]
       ELSE Stop(c)
    /\ UNCHANGED <<tip, db, lock, faults>>

ReadState(c) ==
    /\ At(c, "state") /\ Connected(c)
    /\ IF state # None /\ state.source # SourceOf[c]
       THEN Stop(c)
       ELSE sync' = [sync EXCEPT ![c].pc = "rows", ![c].state = state]
    /\ UNCHANGED <<git, db, lock, faults>>

\* The rows a plan made from `table` deletes.
Deletes(c, table) == {p \in Present(table) : Target(c)[p] = None}

MassDeletion(c, table) ==
    /\ Present(table) # {}
    /\ \/ Present(Target(c)) = {}
       \/ /\ Cardinality(Deletes(c, table)) >= MassLimit
          /\ 2 * Cardinality(Deletes(c, table)) > Cardinality(Present(table))

Approved(c) == sync[c].allow \/ ~MassDeletion(c, rows)

\* The existing rows are read and the plan is made; embeddings are obtained
\* before anything is written.
ReadRows(c) ==
    /\ At(c, "rows") /\ Connected(c)
    /\ IF (sync[c].state = None /\ Present(rows) # {}) \/ ~Approved(c)
       THEN Stop(c)
       ELSE sync' = [sync EXCEPT ![c].pc = "apply", ![c].rows = rows]
    /\ UNCHANGED <<git, db, lock, faults>>

\* Mutant of MustEmbed: vectors of another model are kept.
KeepVectors(c, old, blob) == sync[c].reembed \/ old.input # blob.input

\* The row must be embedded again: asked for, another model, another input.
MustEmbed(c, old, blob) ==
    \/ sync[c].reembed
    \/ sync[c].state # None /\ sync[c].state.model # ModelOf[c]
    \/ old.model # ModelOf[c]
    \/ old.input # blob.input

\* What the transaction makes of a row, by the plan: deleted, inserted or
\* embedded again, updated with its embedding kept, or left alone.
Applied(c, p) ==
    LET blob == Target(c)[p]
        old  == sync[c].rows[p]
    IN  IF blob = None THEN IF old # None THEN None ELSE rows[p]
        ELSE IF old = None \/ MustEmbed(c, old, blob) THEN RowFor(blob, ModelOf[c])
        ELSE IF old.blob = blob \/ rows[p] = None THEN rows[p]
        ELSE [rows[p] EXCEPT !.blob = blob, !.input = blob.input, !.model = ModelOf[c]]

\* Mutant of Counts: a row that changes is deleted and inserted again.
CountsReplaced(table) ==
    [p \in Paths |-> IF table[p] # rows[p] THEN None ELSE stats[p]]

\* access_stats references concepts ON DELETE CASCADE.
Counts(table) == [p \in Paths |-> IF table[p] = None THEN None ELSE stats[p]]

\* Mutant of Foreign: the identity is not looked at again in the transaction.
TrustedIdentity(c) == FALSE

Foreign(c) == state # None /\ state.source # SourceOf[c]

\* The transaction of run_locked: identity, upserts, deletions and checkpoint.
Apply(c) ==
    /\ At(c, "apply") /\ Connected(c)
    /\ IF Foreign(c)
       THEN UNCHANGED db
       ELSE LET table == [p \in Paths |-> Applied(c, p)] IN
            /\ rows' = table
            /\ stats' = Counts(table)
            /\ state' = [source |-> SourceOf[c], commit |-> sync[c].target,
                         model |-> ModelOf[c]]
    /\ Stop(c)
    /\ UNCHANGED <<git, lock, faults>>

\* Mutant of Released: the lock outlives the sync, on a pooled connection.
Leaked(c) == lock' = lock

Released(c) ==
    lock' = IF Connected(c) THEN [lock EXCEPT ![SourceOf[c]] = None] ELSE lock

\* unlock, or the end of the session.
Unlock(c) ==
    /\ At(c, "unlock")
    /\ Released(c)
    /\ sync' = [sync EXCEPT ![c] = Idle]
    /\ UNCHANGED <<git, db, faults>>

----------------------------------------------------------------------------
(* Faults and the environment *)

\* The tree is not valid, or Git, the embedding service or a statement fails.
Fail(c) ==
    /\ sync[c].pc \notin {"idle", "unlock"}
    /\ Fault("failure")
    /\ Stop(c)
    /\ UNCHANGED <<git, db, lock>>

\* The database ends the session; the client notices at its next statement.
DropSession(c) ==
    /\ Connected(c)
    /\ Fault("session")
    /\ Released(c)
    /\ sync' = [sync EXCEPT ![c].alive = FALSE]
    /\ UNCHANGED <<git, db>>

\* A statement on a session that has ended.
NoticeDrop(c) ==
    /\ sync[c].pc \in {"precheck", "state", "rows", "apply"} /\ ~Connected(c)
    /\ Stop(c)
    /\ UNCHANGED <<git, db, lock, faults>>

\* Somebody publishes the next commit.
Push(s) ==
    /\ tip[s] < Len(Trees[s])
    /\ tip' = [tip EXCEPT ![s] = @ + 1]
    /\ UNCHANGED <<tracking, db, lock, sync, faults>>

\* A reader's access is counted.
CountAccess(p) ==
    /\ rows[p] # None
    /\ stats' = [stats EXCEPT ![p] = IF @ = None THEN 1 ELSE @ + 1]

Access(p) ==
    /\ stats[p] \in {None} \cup 0 .. MaxAccess - 1
    /\ CountAccess(p)
    /\ UNCHANGED <<git, rows, state, lock, sync, faults>>

\* The database is restored without its checkpoint, while nobody synchronises.
LoseState ==
    /\ Fault("restore")
    /\ \A c \in Clones : At(c, "idle")
    /\ state # None
    /\ state' = None
    /\ UNCHANGED <<git, rows, stats, lock, sync>>

\* The documented clearing of an index without identity, under its lock.
OperatorClear(s) ==
    /\ state = None /\ Present(rows) # {}
    /\ lock[s] = None
    /\ rows' = [p \in Paths |-> None]
    /\ stats' = [p \in Paths |-> None]
    /\ UNCHANGED <<git, state, lock, sync, faults>>

----------------------------------------------------------------------------
(* The specification *)

Init ==
    /\ tip = [s \in Sources |-> 1]
    /\ tracking = [c \in Clones |-> 0]
    /\ rows = [p \in Paths |-> None]
    /\ state = None
    /\ stats = [p \in Paths |-> None]
    /\ lock = [s \in Sources |-> None]
    /\ sync = [c \in Clones |-> Idle]
    /\ faults = MaxFaults

Invoke(c) == \E options \in Options : Start(c, options)

Planning(c) ==
    Precheck(c) \/ FetchTarget(c) \/ ReadState(c) \/ ReadRows(c) \/ NoticeDrop(c)

Failing(c) == Fail(c) \/ DropSession(c)

World(s) == Push(s) \/ OperatorClear(s)

Next ==
    \/ \E c \in Clones :
          Invoke(c) \/ Planning(c) \/ Apply(c) \/ Unlock(c) \/ Failing(c)
    \/ \E s \in Sources : World(s)
    \/ \E p \in Accessed : Access(p)
    \/ LoseState

Spec == Init /\ [][Next]_vars

----------------------------------------------------------------------------
(* Properties *)

Run == [pc : {"idle", "precheck", "fetch", "state", "rows", "apply", "unlock"},
        alive : BOOLEAN, requested : Nat, reembed : BOOLEAN, allow : BOOLEAN,
        target : Nat, state : State \cup {None}, rows : Table]

TypeOK ==
    /\ tip \in [Sources -> Nat] /\ \A s \in Sources : tip[s] \in 1 .. Len(Trees[s])
    /\ tracking \in [Clones -> Nat]
    /\ rows \in Table
    /\ state \in State \cup {None}
    /\ stats \in [Paths -> Nat \cup {None}]
    /\ \A p \in Paths : stats[p] # None => rows[p] # None
    /\ lock \in [Sources -> Clones \cup {None}]
    /\ sync \in [Clones -> Run]
    /\ faults \in Nat

\* The rows are those of the checkpoint's tree, each embedded by the
\* checkpoint's model from its own input: one transaction of run_locked applies
\* a plan that nobody has made stale.
IndexMatchesCheckpoint ==
    state # None =>
        \A p \in Paths : rows[p] = RowFor(Trees[state.source][state.commit][p], state.model)

\* The checkpoint never goes back, nor over to another repository: the target
\* is fetched under the lock, and the identity is looked at again (apply).
CheckpointAdvances ==
    [][state # None /\ state' # None =>
          state'.source = state.source /\ state'.commit >= state.commit]_vars

\* When publishing and faults have ended, the index reaches the tip of the
\* repository it belongs to and stays there (run_with_connection).
IndexCatchesUp ==
    <>[](state # None /\ state.commit = tip[state.source])
=============================================================================
