----------------------------- MODULE Migration -----------------------------
(***************************************************************************)
(* `kb database migrate`, lib/database.ml: over the connection of Connect, *)
(* one transaction brings the schema of the database from any prefix of    *)
(* the migrations of a checkout to all of them, and records them in a      *)
(* ledger.  Commands of several clients, whose checkouts may be of         *)
(* different age, run at once.                                             *)
(*                                                                         *)
(* An advisory lock serialises the commands.  Other programs do not take   *)
(* it, but they cannot avoid the lock of the ledger's table.  A statement  *)
(* sees what is committed when it starts, and its own transaction.         *)
(***************************************************************************)
EXTENDS Connect, SequencesExt

CONSTANTS
  All,       \* the migrations, in their order
  Checkouts, \* how many of them the checkouts of a client may have
  None

\* What the rows of a ledger name: migrations, or something foreign.
Names == ToSet(All) \cup {"rogue"}

ASSUME CheckoutAssumption ==
    /\ All \in Seq(Names) \ {<<>>}
    /\ Checkouts \in [Clients -> SUBSET (1 .. Len(All))]

\* What the table of the ledger can be: of the first version, of this one, or
\* neither.
Ledgers == [shape : {"legacy", "current", "rogue"}, rows : Seq(Names)]

ASSUME NoneAssumption == None \notin Ledgers

VARIABLES
  db,      \* what is committed
  tx,      \* the transaction of each client, in the server
  other,   \* the transaction of a program that is not kb
  tampered \* one of these has committed

vars == <<cvars, db, tx, other, tampered>>

server == <<db, tx, other, tampered>>

----------------------------------------------------------------------------
(* The database *)

Baseline == All[1]

\* `schema` holds the migrations whose SQL has been run.
Ledger(shape, rows) == [shape |-> shape, rows |-> rows]

Empty == Ledger("current", <<>>)

Rows(ledger) == IF ledger = None THEN <<>> ELSE ledger.rows

NoTx ==
    [pc |-> "none", repo |-> <<>>, view |-> None, advisory |-> FALSE, locked |-> FALSE, made |-> FALSE]

Tx(c, pc) == tx[c].pc = pc

SetTx(c, state) == tx' = [tx EXCEPT ![c] = state]

GotoTx(c, pc) == SetTx(c, [tx[c] EXCEPT !.pc = pc])

\* The table of the ledger has been created by a transaction that is not over.
Creating == (\E c \in Clients : tx[c].made) \/ (other # None /\ db.ledger = None)

\* Another transaction has the table of the ledger in ACCESS EXCLUSIVE mode.
Locked(c) == (\E d \in Clients \ {c} : tx[d].locked) \/ (other # None /\ db.ledger # None)

\* The command fails: ROLLBACK, and the connection is finished.
Rollback(c) == SetTx(c, NoTx) /\ Quit(c) /\ UNCHANGED <<db, other, tampered>>

----------------------------------------------------------------------------
(* apply_migrations *)

\* migrate_remote_from: the checkout is read before the connection is opened.
Begin(c, n) ==
    /\ Dial(c) /\ Tx(c, "none")
    /\ SetTx(c, [NoTx EXCEPT !.repo = SubSeq(All, 1, n)])
    /\ UNCHANGED <<db, other, tampered>>

Quietly == UNCHANGED <<cvars, db, other, tampered>>

\* pg_advisory_xact_lock
TakeAdvisory(c) ==
    /\ At(c, "use") /\ Tx(c, "none")
    /\ \A d \in Clients : ~tx[d].advisory
    /\ SetTx(c, [tx[c] EXCEPT !.pc = "present", !.advisory = TRUE])
    /\ Quietly

\* ledger_present, in the catalog: what is not committed is not there.
Present(c) ==
    /\ Tx(c, "present") /\ GotoTx(c, IF db.ledger = None THEN "create" ELSE "lock")
    /\ Quietly

\* CREATE TABLE IF NOT EXISTS after a savepoint: skipped if the table is there
\* by now, and blocked while somebody else is creating it.
Create(c) ==
    /\ Tx(c, "create")
    /\ IF db.ledger # None THEN GotoTx(c, "lock")
       ELSE IF Creating THEN GotoTx(c, "blocked")
       ELSE SetTx(c, [tx[c] EXCEPT !.pc = "lock", !.made = TRUE])
    /\ Quietly

\* The other one has committed: back to the savepoint, and another look.
Unblock(c) ==
    /\ Tx(c, "blocked") /\ ~Creating
    /\ IF db.ledger # None THEN GotoTx(c, "again")
       ELSE SetTx(c, [tx[c] EXCEPT !.pc = "lock", !.made = TRUE])
    /\ Quietly

Again(c) ==
    /\ Tx(c, "again")
    /\ IF db.ledger # None THEN GotoTx(c, "lock") /\ Quietly
       ELSE Rollback(c) /\ UNCHANGED faults

There(c) == db.ledger # None \/ tx[c].made

\* lock_ledger
LockLedger(c) ==
    /\ Tx(c, "lock") /\ ~Locked(c)
    /\ IF There(c) THEN SetTx(c, [tx[c] EXCEPT !.pc = "validate", !.locked = TRUE]) /\ Quietly
       ELSE Rollback(c) /\ UNCHANGED faults

\* validate_ledger_rows
Known(rows, repo) == IsPrefix(rows, repo)

\* Mutant of Upgraded: the rows of the old ledger are not copied.
Fresh(ledger) == Empty

\* upgrade_legacy_ledger gives the rows their positions.
Upgraded(ledger) == Ledger("current", ledger.rows)

\* ledger_shape, validate_ledger_catalog, the rows, and the identity of the
\* extension that the first migration creates.
Validate(c) ==
    LET ledger == IF tx[c].made THEN Empty ELSE db.ledger IN
    /\ Tx(c, "validate")
    /\ IF /\ ledger.shape \in {"legacy", "current"}
          /\ Known(ledger.rows, tx[c].repo)
          /\ ledger.rows # <<>> => Baseline \in db.schema
       THEN /\ SetTx(c, [tx[c] EXCEPT
                  !.pc = "apply",
                  !.view = [ledger |-> IF ledger.shape = "legacy" THEN Upgraded(ledger) ELSE ledger,
                            schema |-> db.schema]])
            /\ Quietly
       ELSE Rollback(c) /\ UNCHANGED faults

Left(c) == Len(tx[c].repo) - Len(tx[c].view.ledger.rows)

\* Mutant of InProgress: the first migration has a BEGIN and a COMMIT.
Wrapped(c) ==
    IF tx[c].view.ledger.rows # <<>> THEN db
    ELSE [ledger |-> tx[c].view.ledger, schema |-> tx[c].view.schema \cup {Baseline}]

\* strip_transaction: what the SQL of a migration does is not committed yet.
InProgress(c) == db

\* The SQL of a migration and its row in the ledger.  The first one has an IF
\* NOT EXISTS; the others fail where they have been run before.
Apply(c) ==
    /\ Tx(c, "apply") /\ Left(c) > 0
    /\ LET next == tx[c].repo[Len(tx[c].view.ledger.rows) + 1] IN
       IF next \in tx[c].view.schema /\ next # Baseline
       THEN Rollback(c) /\ UNCHANGED faults
       ELSE /\ SetTx(c, [tx[c] EXCEPT !.view.ledger.rows = Append(@, next),
                                      !.view.schema = @ \cup {next}])
            /\ db' = InProgress(c) /\ UNCHANGED <<cvars, other, tampered>>

\* validate_final_ledger, and COMMIT.
Commit(c) ==
    /\ Tx(c, "apply") /\ Left(c) = 0
    /\ db' = tx[c].view /\ SetTx(c, NoTx)
    /\ Quit(c) /\ UNCHANGED <<faults, other, tampered>>

----------------------------------------------------------------------------
(* Faults *)

Serving(c) == tx[c].pc \notin {"none", "gone"}

\* A statement fails or takes too long.
StatementFails(c) == At(c, "use") /\ Serving(c) /\ Fault("statement") /\ Rollback(c)

\* The connection or the client is lost; the server ends the transaction when it
\* notices, and a COMMIT that was under way may have been carried out.
Lose(c) ==
    /\ At(c, "use") /\ Fault("lost") /\ Quit(c)
    /\ \/ Serving(c) /\ GotoTx(c, "gone") /\ UNCHANGED db
       \/ ~Serving(c) /\ SetTx(c, NoTx) /\ UNCHANGED db
       \/ Tx(c, "apply") /\ Left(c) = 0 /\ db' = tx[c].view /\ SetTx(c, NoTx)
    /\ UNCHANGED <<other, tampered>>

Notice(c) == Tx(c, "gone") /\ SetTx(c, NoTx) /\ Quietly

\* An operator, or an old program, that changes the ledger.
Change(ledger) ==
    IF ledger = None THEN {Ledger("current", <<"rogue">>)}
    ELSE {None, Ledger("rogue", <<>>), Ledger(ledger.shape, Append(ledger.rows, "rogue"))}

OtherBegins ==
    /\ other = None /\ Fault("other")
    /\ ~Creating /\ \A c \in Clients : ~tx[c].locked
    /\ \E ledger \in Change(db.ledger) : other' = [ledger |-> ledger]
    /\ UNCHANGED <<conn, sockets, db, tx, tampered>>

OtherEnds ==
    /\ other # None /\ other' = None
    /\ \/ db' = [db EXCEPT !.ledger = other.ledger] /\ tampered' = TRUE
       \/ UNCHANGED <<db, tampered>>
    /\ UNCHANGED <<cvars, tx>>

----------------------------------------------------------------------------
(* The specification *)

\* Nothing, a production database that predates the ledger, or what earlier
\* versions have left.
Installed ==
    {[ledger |-> None, schema |-> {}], [ledger |-> None, schema |-> {Baseline}]}
      \cup {[ledger |-> Ledger("legacy", SubSeq(All, 1, n)), schema |-> ToSet(SubSeq(All, 1, n))] : n \in 1 .. Len(All)}

Init ==
    /\ Disconnected
    /\ db \in Installed /\ tx = [c \in Clients |-> NoTx] /\ other = None /\ tampered = FALSE

Connecting(c) == (Progress(c) \/ Setback(c)) /\ UNCHANGED server

Transacting(c) ==
    \/ TakeAdvisory(c) \/ Present(c) \/ Create(c) \/ Unblock(c) \/ Again(c) \/ LockLedger(c)
    \/ Validate(c) \/ Apply(c) \/ Commit(c) \/ Notice(c)

Next ==
    \/ \E c \in Clients : \/ \E n \in Checkouts[c] : Begin(c, n)
                          \/ Connecting(c) \/ Transacting(c) \/ StatementFails(c) \/ Lose(c)
    \/ OtherBegins \/ OtherEnds

Spec == Init /\ [][Next]_vars

\* Commands and transactions proceed, servers answer in the end, and somebody
\* has the complete checkout and runs the command again.
FairSpec ==
    /\ Spec
    /\ \A c \in Clients : WF_vars(Progress(c) /\ UNCHANGED server) /\ SF_vars(Transacting(c))
    /\ SF_vars(\E c \in Clients : Len(All) \in Checkouts[c] /\ Begin(c, Len(All)))
    /\ WF_vars(OtherEnds)

----------------------------------------------------------------------------
(* Properties *)

Views == [ledger : Ledgers, schema : SUBSET Names]

TypeOK ==
    /\ conn \in [Clients -> [pc : {"idle", "resolve", "inspect", "advance", "use"},
                             round : 1 .. MaxRounds, found : 0 .. Hosts,
                             launched : 0 .. Hosts,
                             pending : [1 .. Hosts -> {"none", "polling", "ok", "broken", "refused"}],
                             opened : SUBSET (1 .. Hosts)]]
    /\ sockets \in [Clients -> SUBSET (1 .. Hosts)]
    /\ faults \in 0 .. MaxFaults
    /\ db \in [ledger : Ledgers \cup {None}, schema : SUBSET Names]
    /\ tx \in [Clients -> [pc : {"none", "present", "create", "blocked", "again", "lock",
                                "validate", "apply", "gone"},
                           repo : Seq(Names), view : Views \cup {None},
                           advisory : BOOLEAN, locked : BOOLEAN, made : BOOLEAN]]
    /\ other \in [ledger : Ledgers \cup {None}] \cup {None}
    /\ tampered \in BOOLEAN

\* The committed ledger says which migrations the schema has, whatever commands
\* ran at once or were interrupted (apply_migrations, prepare_ledger).
LedgerTellsSchema ==
    ~tampered => IF db.ledger = None THEN db.schema \subseteq {Baseline}
                 ELSE IsPrefix(db.ledger.rows, All) /\ db.schema = ToSet(db.ledger.rows)

\* Where no other program interferes, the database gets all migrations.
Migrated == []~tampered => <>[](db.ledger = Ledger("current", All))
=============================================================================
