--------------------------- MODULE ScaffoldProofs ---------------------------
(***************************************************************************)
(* What `kb scaffold upgrade` guarantees, for every number of generated    *)
(* files, wherever it is killed or fails, and whatever the owner of the    *)
(* repository writes meanwhile: all of the old scaffold or all of the new  *)
(* one, true reports, and no file of the owner destroyed.                  *)
(***************************************************************************)
EXTENDS Scaffold, TLAPS

----------------------------------------------------------------------------
(* The inductive invariant *)

Undoing  == {"rollback", "undo", "rolled"}
Marking  == {"mark", "fill", "rename"}
Emptying == {"empty", "uncommit", "unrecord", "rmdir"}
Cleaning == Marking \cup Emptying \cup {"unmark"}

Unpublished == dir # None /\ dir.name \in {"preparing", "preparing_cleanup"}

\* Where a command is tells whether there is a directory, and of which name.
Placed ==
    /\ run.pc \in {"slots", "check", "exchange", "verify", "rollback", "undo", "empty"}
         => run.i \in Entries
    /\ run.pc \in {"snapshot", "finish", "unmark"} => dir = None
    /\ run.pc \in Preparing \cup {"discard"} => dir # None /\ dir.name = "preparing"
    /\ run.pc = "unprepare" => Unpublished
    /\ run.pc \in Emptying \cup {"discarded"} => dir # None /\ dir.name = "cleanup"
    /\ run.pc \in Installing \cup Undoing \cup Marking => dir # None /\ ~Unpublished

\* The outcome is recorded once and for all: a cleanup never meets the record of
\* the other outcome.
Recorded ==
    /\ marker[TRUE] = None \/ marker[FALSE] = None
    /\ run.pc \in Preparing \cup Installing \cup {"snapshot", "discard", "discarded"}
         => marker[TRUE] = None /\ marker[FALSE] = None
    /\ Unpublished => marker[TRUE] = None /\ marker[FALSE] = None
    /\ run.pc \in Undoing => marker[FALSE] = None
    /\ run.pc \in Cleaning => marker[~run.new] = None
    /\ run.pc \in Emptying \cup {"rename", "unmark"} => marker[run.new] = "whole"
    /\ run.pc = "finish" => marker[TRUE] # None \/ marker[FALSE] # None

NoneNew == \A e \in Entries : dir.slot[e] # "new"

\* There is one new file of an entry at most, and a slot is removed, or written,
\* only while nothing is in it that must not be lost.
Filled ==
    dir # None =>
        /\ Unpublished => \A e \in Entries : dir.slot[e] \in {"absent", "new"}
        /\ run.pc \in {"record", "discard", "discarded", "uncommit", "unrecord", "rmdir"}
             => \A e \in Entries : dir.slot[e] = "absent"
        /\ run.pc = "slots" => \A e \in Entries : e >= run.i => dir.slot[e] = "absent"
        /\ run.pc = "empty" => \A e \in Entries : e < run.i => dir.slot[e] = "absent"
        /\ \A e \in Entries : dir.slot[e] # "new" \/ target[e] # "new"
        /\ run.pc \in Preparing => \A e \in Entries : target[e] # "new"
        /\ run.pc = "commit_sync" \/ (run.pc \in Cleaning /\ run.new) => NoneNew

\* The new file of the entry is gone for good, after an edit.
Spoiled(e) == target[e] # "new" /\ dir.slot[e] # "new"

\* Once the new scaffold has been recorded as the outcome, a rollback can begin
\* only because of a spoiled entry, and fails on it.
Doomed ==
    dir # None /\ marker[TRUE] # None =>
        \/ run.pc \notin Undoing /\ NoneNew
        \/ /\ \E e \in Entries : Spoiled(e)
           /\ run.pc = "rolled" => run.bad
           /\ run.pc \in {"rollback", "undo"} =>
                 \/ run.bad
                 \/ \E e \in Entries : /\ Spoiled(e) /\ e <= run.i
                                       /\ run.pc = "undo" => e < run.i

\* Before a transaction is published the old scaffold is there.
Before == run.pc \in {"snapshot", "discarded"} \/ Unpublished => Whole(FALSE)

IInv == TypeOK /\ Placed /\ Recorded /\ Filled /\ Doomed /\ Before /\ AllOrNothing

----------------------------------------------------------------------------
(* The run of a command *)

Run == [pc : Labels, i : 0 .. N, new : BOOLEAN, bad : BOOLEAN,
        by : {"perform", "recover", "recover_cleanup"}]

Reports == {"none", "crashed", "refused", "owner_modified", "required", "foreign",
            "failed", "already_current", "complete", "rolled_back", "recovered"}

LEMMA Types ==
    /\ TypeOK <=> /\ target \in [Entries -> Files]
                  /\ dir \in Directories \cup {None}
                  /\ marker \in [BOOLEAN -> {None, "torn", "whole"}]
                  /\ run \in Run /\ out \in Reports
                  /\ faults \in 0 .. MaxFaults /\ touched \subseteq Entries
    /\ TypeOK' <=> /\ target' \in [Entries -> Files]
                   /\ dir' \in Directories \cup {None}
                   /\ marker' \in [BOOLEAN -> {None, "torn", "whole"}]
                   /\ run' \in Run /\ out' \in Reports
                   /\ faults' \in 0 .. MaxFaults /\ touched' \subseteq Entries
BY DEF TypeOK, Run, Reports

LEMMA Numbers == N \in Nat \ {0} /\ N \in 0 .. N /\ N \in Entries /\ 1 \in Entries
BY EntryAssumption DEF Entries

LEMMA FaultType ==
    ASSUME NEW kind, TypeOK, Fault(kind)
    PROVE  faults' \in 0 .. MaxFaults
BY EntryAssumption DEF TypeOK, Fault

LEMMA IdleType == Idle \in Run /\ Idle.pc = "idle" /\ ~Idle.bad
BY Numbers DEF Idle, Run, Labels

files == <<target, dir, marker, touched>>

\* A step of the run alone has to respect what its place promises.
LEMMA RunInv ==
    ASSUME IInv, UNCHANGED files, faults' \in 0 .. MaxFaults,
           run' \in Run, out' \in Reports,
           Placed', Recorded', Filled', Doomed', Before'
    PROVE  IInv'
<1>1. TypeOK'
  BY Types DEF IInv, files
<1>2. AllOrNothing'
  BY DEF IInv, AllOrNothing, Quiet, Whole, files
<1> QED
  BY <1>1, <1>2 DEF IInv

\* A command may end, or be killed, anywhere.
LEMMA ExitInv ==
    ASSUME IInv, UNCHANGED files, faults' \in 0 .. MaxFaults,
           NEW code \in Reports, Exit(code)
    PROVE  IInv'
<1>1. run' \in Run /\ out' \in Reports /\ run'.pc = "idle"
  BY IdleType DEF Exit
<1>2. Placed'
  BY <1>1 DEF Placed, Preparing, Installing, Undoing, Marking, Emptying
<1>3. Recorded'
  BY <1>1 DEF IInv, Recorded, Preparing, Installing, Undoing, Cleaning, Marking, Emptying,
              Unpublished, files
<1>4. Filled'
  BY <1>1 DEF IInv, Filled, Preparing, Cleaning, Marking, Emptying, Unpublished, files
<1>5. Doomed'
  BY <1>1 DEF IInv, Doomed, Undoing, NoneNew, Spoiled, files
<1>6. Before'
  BY <1>1 DEF IInv, Before, Unpublished, Whole, files
<1> QED
  BY <1>1, <1>2, <1>3, <1>4, <1>5, <1>6, RunInv

\* A rollback begins at the last entry.
LEMMA RollbackInv ==
    ASSUME IInv, UNCHANGED files, faults' \in 0 .. MaxFaults,
           run' \in Run, run'.pc = "rollback", run'.i = N, out' = out,
           dir # None, ~Unpublished, marker[FALSE] = None,
           marker[TRUE] # None => \E e \in Entries : Spoiled(e)
    PROVE  IInv'
<1>1. out' \in Reports
  BY Types DEF IInv
<1>2. Placed'
  BY Numbers DEF Placed, Preparing, Installing, Undoing, Marking, Emptying, Unpublished, files
<1>3. Recorded'
  BY DEF IInv, Recorded, Preparing, Installing, Undoing, Cleaning, Marking, Emptying,
         Unpublished, files
<1>4. Filled'
  BY DEF IInv, Filled, Preparing, Cleaning, Marking, Emptying, Unpublished, files
<1>5. Doomed'
  <2> SUFFICES ASSUME marker[TRUE] # None PROVE Doomed'
    BY DEF Doomed, files
  <2>1. PICK e \in Entries : Spoiled(e)
    OBVIOUS
  <2>2. Spoiled(e)' /\ e <= run'.i
    BY <2>1, Numbers DEF Spoiled, Entries, files
  <2> QED
    BY <2>2 DEF Doomed
<1>6. Before'
  BY DEF IInv, Before, Unpublished, Whole, files
<1> QED
  BY <1>1, <1>2, <1>3, <1>4, <1>5, <1>6, RunInv

\* A cleanup begins where the record of the other outcome is not.
LEMMA CleanupInv ==
    ASSUME IInv, UNCHANGED files, faults' \in 0 .. MaxFaults,
           NEW new \in BOOLEAN, NEW by \in {"perform", "recover", "recover_cleanup"},
           StartCleanup(new, by), dir # None, ~Unpublished, marker[~new] = None,
           new => NoneNew
    PROVE  IInv'
<1>1. /\ run' \in Run /\ out' \in Reports /\ run'.pc = "mark" /\ run'.new = new
  <2>1. /\ run' = [pc |-> "mark", i |-> 0, new |-> new, by |-> by, bad |-> FALSE]
        /\ out' = out
    BY DEF StartCleanup, Idle
  <2>2. "mark" \in Labels /\ 0 \in 0 .. N /\ out \in Reports
    BY Types, Numbers DEF IInv, Labels
  <2> QED
    BY <2>1, <2>2 DEF Run
<1>2. Placed'
  BY <1>1 DEF Placed, Preparing, Installing, Undoing, Marking, Emptying, Unpublished, files
<1>3. Recorded'
  BY <1>1 DEF IInv, Recorded, Preparing, Installing, Undoing, Cleaning, Marking, Emptying,
         Unpublished, files
<1>4. Filled'
  BY <1>1 DEF IInv, Filled, NoneNew, Preparing, Cleaning, Marking, Emptying, Unpublished, files
<1>5. Doomed'
  BY <1>1 DEF IInv, Doomed, NoneNew, Undoing, Spoiled, files
<1>6. Before'
  BY <1>1 DEF IInv, Before, Unpublished, Whole, files
<1> QED
  BY <1>1, <1>2, <1>3, <1>4, <1>5, <1>6, RunInv

LEMMA RaiseInv ==
    ASSUME IInv, UNCHANGED files, faults' \in 0 .. MaxFaults, Raise
    PROVE  IInv'
<1>1. run \in Run /\ out \in Reports
  BY Types DEF IInv
<1>2. CASE run.pc \in Installing /\ GotoEntry("rollback", N)
  <2>1. run' = [run EXCEPT !.pc = "rollback", !.i = N] /\ out' = out
    BY <1>2 DEF GotoEntry
  <2>2. run' \in Run /\ run'.pc = "rollback" /\ run'.i = N /\ out' = out
    BY <1>1, <2>1, Numbers DEF Run, Labels
  <2>3. dir # None /\ ~Unpublished /\ marker[FALSE] = None /\ marker[TRUE] = None
    BY <1>2 DEF IInv, Placed, Recorded
  <2> QED
    BY <2>2, <2>3, RollbackInv
<1>3. CASE Exit("required") \/ Exit(Failure)
  BY <1>3, ExitInv DEF Reports, Failure
<1> QED
  BY <1>2, <1>3 DEF Raise

\* The run of a command moves on, and nothing else happens.
LEMMA GotoRun ==
    ASSUME IInv, NEW pc \in Labels, NEW i \in 0 .. N,
           Goto(pc) \/ GotoEntry(pc, i)
    PROVE  /\ run' \in Run /\ out' \in Reports /\ run'.pc = pc
           /\ run'.new = run.new /\ run'.bad = run.bad /\ run'.by = run.by
           /\ run'.i = run.i \/ run'.i = i
           /\ Goto(pc) => run'.i = run.i
           /\ GotoEntry(pc, i) => run'.i = i
<1>1. run \in Run /\ out \in Reports
  BY Types DEF IInv
<1>2. CASE Goto(pc)
  <2>1. run' = [run EXCEPT !.pc = pc] /\ out' = out
    BY <1>2 DEF Goto
  <2>2. /\ run' \in Run /\ run'.pc = pc /\ run'.i = run.i
        /\ run'.new = run.new /\ run'.bad = run.bad /\ run'.by = run.by
    BY <1>1, <2>1 DEF Run
  <2>3. GotoEntry(pc, i) => run'.i = i
    BY <1>1 DEF GotoEntry, Run
  <2> QED
    BY <1>1, <2>1, <2>2, <2>3
<1>3. CASE GotoEntry(pc, i)
  <2>1. run' = [run EXCEPT !.pc = pc, !.i = i] /\ out' = out
    BY <1>3 DEF GotoEntry
  <2>2. /\ run' \in Run /\ run'.pc = pc /\ run'.i = i
        /\ run'.new = run.new /\ run'.bad = run.bad /\ run'.by = run.by
    BY <1>1, <2>1 DEF Run
  <2>3. Goto(pc) => run'.i = run.i
    BY <1>1 DEF Goto, Run
  <2> QED
    BY <1>1, <2>1, <2>2, <2>3
<1> QED
  BY <1>2, <1>3

----------------------------------------------------------------------------
(* Steps that change no file *)

LEMMA SameFaults ==
    ASSUME IInv, UNCHANGED faults
    PROVE  faults' \in 0 .. MaxFaults
BY Types DEF IInv

\* A step that goes on without a change of the files: what it must respect.
LEMMA GotoInv ==
    ASSUME IInv, UNCHANGED files, faults' \in 0 .. MaxFaults,
           NEW pc \in Labels, NEW i \in 0 .. N, Goto(pc) \/ GotoEntry(pc, i),
           Placed', Recorded', Filled', Doomed', Before'
    PROVE  IInv'
BY GotoRun, RunInv

LEMMA RecoverInv ==
    ASSUME IInv, Recover, dir # None, ~Unpublished, UNCHANGED <<files, faults>>
    PROVE  IInv'
<1>1. UNCHANGED files /\ faults' \in 0 .. MaxFaults
  BY SameFaults
<1>2. CASE ~dir.record /\ marker[TRUE] = None /\ marker[FALSE] = None
  BY <1>1, <1>2, ExitInv DEF Recover, Reports
<1>3. CASE ~(~dir.record /\ marker[TRUE] = None /\ marker[FALSE] = None) /\ marker[FALSE] # None
  <2>1. marker[TRUE] = None
    BY <1>3 DEF IInv, Recorded
  <2>2. CASE AllTargetsMatch(FALSE)
    <3>1. StartCleanup(FALSE, "recover_cleanup")
      BY <1>3, <2>2 DEF Recover
    <3> QED
      BY <1>1, <2>1, <3>1, CleanupInv
  <2>3. CASE ~AllTargetsMatch(FALSE)
    BY <1>1, <1>3, <2>3, ExitInv DEF Recover, Reports
  <2> QED
    BY <2>2, <2>3
<1>4. CASE /\ ~(~dir.record /\ marker[TRUE] = None /\ marker[FALSE] = None)
           /\ marker[FALSE] = None /\ Committed
  <2>1. CASE AllTargetsMatch(TRUE)
    <3>1. StartCleanup(TRUE, "recover_cleanup")
      BY <1>4, <2>1 DEF Recover
    <3>2. NoneNew
      BY <2>1 DEF AllTargetsMatch, NoneNew, IInv, Filled
    <3> QED
      BY <1>1, <1>4, <3>1, <3>2, CleanupInv
  <2>2. CASE ~AllTargetsMatch(TRUE)
    BY <1>1, <1>4, <2>2, ExitInv DEF Recover, Reports
  <2> QED
    BY <2>1, <2>2
<1>5. CASE /\ ~(~dir.record /\ marker[TRUE] = None /\ marker[FALSE] = None)
           /\ marker[FALSE] = None /\ ~Committed
  <2>1. run' = [Idle EXCEPT !.pc = "rollback", !.i = N, !.by = "recover"] /\ out' = out
    BY <1>5 DEF Recover
  <2>2. run' \in Run /\ run'.pc = "rollback" /\ run'.i = N
    BY <2>1, Numbers DEF Idle, Run, Labels
  <2>3. \E e \in Entries : target[e] # "new"
    BY <1>5 DEF Committed, AllTargetsMatch
  <2>4. marker[TRUE] # None => \E e \in Entries : Spoiled(e)
    BY <2>3 DEF IInv, Doomed, NoneNew, Spoiled
  <2> QED
    BY <1>1, <1>5, <2>1, <2>2, <2>4, RollbackInv
<1> QED
  BY <1>2, <1>3, <1>4, <1>5

\* Where the old scaffold is, all that the owner has not touched is of it.
LEMMA UnmodifiedWhole == IInv /\ Unmodified /\ Quiet => Whole(FALSE)
BY DEF IInv, AllOrNothing, Unmodified, Whole, Entries, Original

LEMMA UpgradeInv ==
    ASSUME IInv, Upgrade
    PROVE  IInv'
<1>1. /\ UNCHANGED files /\ UNCHANGED <<files, faults>> /\ faults' \in 0 .. MaxFaults
      /\ run.pc = "idle"
  BY SameFaults DEF Upgrade, files
<1>2. CASE dir # None /\ dir.name \in {"preparing", "preparing_cleanup"}
  <2>1. Goto("unprepare") /\ Unpublished
    BY <1>2 DEF Upgrade, Unpublished
  <2>2. "unprepare" \in Labels /\ 0 \in 0 .. N
    BY Numbers DEF Labels
  <2>3. run'.pc = "unprepare"
    BY <2>1, <2>2, GotoRun
  <2>4. Placed'
    BY <1>1, <2>1, <2>3 DEF Placed, Preparing, Installing, Undoing, Marking, Emptying,
                           Unpublished, files
  <2>5. Recorded'
    BY <1>1, <2>1, <2>3 DEF IInv, Recorded, Preparing, Installing, Undoing, Cleaning, Marking,
                           Emptying, Unpublished, files
  <2>6. Filled'
    BY <1>1, <2>3 DEF IInv, Filled, Preparing, Cleaning, Marking, Emptying, Unpublished, files
  <2>7. Doomed'
    BY <1>1, <2>3 DEF IInv, Doomed, NoneNew, Spoiled, Undoing, files
  <2>8. Before'
    BY <1>1, <2>3 DEF IInv, Before, Unpublished, Whole, files
  <2> QED
    BY <1>1, <2>1, <2>2, <2>4, <2>5, <2>6, <2>7, <2>8, GotoInv
<1>3. CASE dir # None /\ dir.name \notin {"preparing", "preparing_cleanup"}
  BY <1>1, <1>3, RecoverInv DEF Upgrade, Unpublished
<1>4. CASE dir = None /\ (marker[TRUE] # None \/ marker[FALSE] # None)
  <2>1. Goto("finish")
    BY <1>4 DEF Upgrade
  <2>2. "finish" \in Labels /\ 0 \in 0 .. N
    BY Numbers DEF Labels
  <2>3. run'.pc = "finish"
    BY <2>1, <2>2, GotoRun
  <2>4. Placed'
    BY <1>1, <1>4, <2>3 DEF Placed, Preparing, Installing, Undoing, Marking, Emptying, files
  <2>5. Recorded'
    BY <1>1, <1>4, <2>3 DEF IInv, Recorded, Preparing, Installing, Undoing, Cleaning, Marking,
                           Emptying, Unpublished, files
  <2>6. Filled' /\ Doomed' /\ Before'
    BY <1>1, <1>4, <2>3 DEF Filled, Doomed, Before, Unpublished, files
  <2> QED
    BY <1>1, <2>1, <2>2, <2>4, <2>5, <2>6, GotoInv
<1>5. CASE dir = None /\ marker[TRUE] = None /\ marker[FALSE] = None
           /\ Unmodified /\ ~AllTargetsMatch(TRUE)
  <2>1. Goto("snapshot")
    BY <1>5 DEF Upgrade
  <2>2. "snapshot" \in Labels /\ 0 \in 0 .. N
    BY Numbers DEF Labels
  <2>3. run'.pc = "snapshot"
    BY <2>1, <2>2, GotoRun
  <2>4. Placed'
    BY <1>1, <1>5, <2>3 DEF Placed, Preparing, Installing, Undoing, Marking, Emptying, files
  <2>5. Recorded'
    BY <1>1, <1>5, <2>3 DEF IInv, Recorded, Preparing, Installing, Undoing, Cleaning, Marking,
                           Emptying, Unpublished, files
  <2>6. Quiet
    BY <1>5 DEF Quiet
  <2>7. Whole(FALSE)
    BY <1>5, <2>6, UnmodifiedWhole
  <2>8. Filled' /\ Doomed' /\ Before'
    BY <1>1, <1>5, <2>3, <2>7 DEF Filled, Doomed, Before, Unpublished, Whole, files
  <2> QED
    BY <1>1, <2>1, <2>2, <2>4, <2>5, <2>8, GotoInv
<1>6. CASE dir = None /\ marker[TRUE] = None /\ marker[FALSE] = None
           /\ ~Unmodified /\ ~AllTargetsMatch(TRUE)
  BY <1>1, <1>6, ExitInv DEF Upgrade, Reports
<1>7. CASE dir = None /\ marker[TRUE] = None /\ marker[FALSE] = None /\ AllTargetsMatch(TRUE)
  BY <1>1, <1>7, ExitInv DEF Upgrade, Reports
<1> QED
  BY <1>2, <1>3, <1>4, <1>5, <1>6, <1>7

LEMMA CheckEntryInv ==
    ASSUME IInv, CheckEntry
    PROVE  IInv'
<1>1. UNCHANGED files /\ faults' \in 0 .. MaxFaults /\ run.pc = "check"
  BY SameFaults DEF CheckEntry, files
<1>2. CASE Goto("exchange")
  <2>1. "exchange" \in Labels /\ 0 \in 0 .. N
    BY Numbers DEF Labels, Installing
  <2>2. run'.pc = "exchange" /\ run'.i = run.i
    BY <1>2, <2>1, GotoRun
  <2>3. Placed'
    BY <1>1, <2>2 DEF IInv, Placed, Preparing, Installing, Undoing, Marking, Emptying,
                      Unpublished, files
  <2>4. Recorded'
    BY <1>1, <2>2 DEF IInv, Recorded, Preparing, Installing, Undoing, Cleaning, Marking,
                      Emptying, Unpublished, files
  <2>5. Filled'
    BY <1>1, <2>2 DEF IInv, Filled, Preparing, Cleaning, Marking, Emptying, Unpublished, files
  <2>6. Doomed'
    BY <1>1, <2>2 DEF IInv, Recorded, Doomed, Installing, files
  <2>7. Before'
    BY <1>1, <2>2 DEF IInv, Before, Unpublished, Whole, files
  <2> QED
    BY <1>1, <1>2, <2>1, <2>3, <2>4, <2>5, <2>6, <2>7, GotoInv
<1> QED
  BY <1>1, <1>2, RaiseInv DEF CheckEntry

LEMMA VerifyEntryInv ==
    ASSUME IInv, VerifyEntry
    PROVE  IInv'
<1>1. /\ UNCHANGED files /\ faults' \in 0 .. MaxFaults /\ run.pc = "verify"
      /\ run.i \in Entries /\ run \in Run
  BY SameFaults, Types DEF VerifyEntry, files, IInv, Placed
<1>2. ASSUME NEW pc \in {"check", "commit"}, NEW i \in Entries,
             (pc = "commit" /\ Goto(pc)) \/ (pc = "check" /\ GotoEntry(pc, i))
      PROVE  IInv'
  <2>1. pc \in Labels /\ i \in 0 .. N
    BY Numbers DEF Labels, Installing, Entries
  <2>2. run'.pc = pc /\ (pc = "check" => run'.i = i)
    BY <1>2, <2>1, GotoRun
  <2>3. Placed'
    BY <1>1, <2>2 DEF IInv, Placed, Preparing, Installing, Undoing, Marking, Emptying,
                      Unpublished, files
  <2>4. Recorded'
    BY <1>1, <2>2 DEF IInv, Recorded, Preparing, Installing, Undoing, Cleaning, Marking,
                      Emptying, Unpublished, files
  <2>5. Filled'
    BY <1>1, <2>2 DEF IInv, Filled, Preparing, Cleaning, Marking, Emptying, Unpublished, files
  <2>6. Doomed'
    BY <1>1, <2>2 DEF IInv, Recorded, Doomed, Installing, files
  <2>7. Before'
    BY <1>1, <2>2 DEF IInv, Before, Unpublished, Whole, files
  <2> QED
    BY <1>1, <1>2, <2>1, <2>3, <2>4, <2>5, <2>6, <2>7, GotoInv
<1>3. CASE Raise
  BY <1>1, <1>3, RaiseInv
<1>4. CASE IsLast(run.i) /\ Goto("commit")
  <2>1. run.i \in Entries /\ "commit" \in {"check", "commit"} /\ Goto("commit")
    BY <1>1, <1>4
  <2> QED
    BY <1>2, <2>1
<1>5. CASE ~IsLast(run.i) /\ GotoEntry("check", run.i + 1)
  <2>1. run.i + 1 \in Entries
    BY <1>1, <1>5, Numbers DEF IsLast, Entries
  <2> QED
    BY <1>2, <1>5, <2>1
<1> QED
  BY <1>3, <1>4, <1>5 DEF VerifyEntry

LEMMA CommitSyncedInv ==
    ASSUME IInv, CommitSynced
    PROVE  IInv'
<1>1. UNCHANGED files /\ faults' \in 0 .. MaxFaults /\ run.pc = "commit_sync"
  BY SameFaults DEF CommitSynced, files
<1>2. dir # None /\ ~Unpublished /\ marker[FALSE] = None /\ NoneNew
  BY <1>1 DEF IInv, Placed, Recorded, Filled, Installing
<1> QED
  BY <1>1, <1>2, CleanupInv DEF CommitSynced

LEMMA RollbackEntryInv ==
    ASSUME IInv, RollbackEntry
    PROVE  IInv'
<1>1. /\ UNCHANGED files /\ faults' \in 0 .. MaxFaults /\ run.pc = "rollback"
      /\ run.i \in Entries /\ run \in Run /\ out \in Reports
      /\ dir # None /\ ~Unpublished /\ marker[FALSE] = None
  BY SameFaults, Types DEF RollbackEntry, files, IInv, Placed, Recorded, Undoing
<1>2. marker[TRUE] # None =>
        /\ \E e \in Entries : Spoiled(e)
        /\ run.bad \/ \E e \in Entries : Spoiled(e) /\ e <= run.i
  BY <1>1 DEF IInv, Doomed, Undoing
<1>3. ASSUME run' \in Run, run'.pc \in Undoing, out' \in Reports,
             run'.pc # "rolled" => run'.i \in Entries, Doomed'
      PROVE  IInv'
  <2>1. Placed'
    BY <1>1, <1>3 DEF Placed, Preparing, Installing, Undoing, Marking, Emptying,
                      Unpublished, files
  <2>2. Recorded'
    BY <1>1, <1>3 DEF IInv, Recorded, Preparing, Installing, Undoing, Cleaning, Marking,
                      Emptying, Unpublished, files
  <2>3. Filled'
    BY <1>1, <1>3 DEF IInv, Filled, Preparing, Cleaning, Marking, Emptying, Unpublished,
                      Undoing, files
  <2>4. Before'
    BY <1>1, <1>3 DEF IInv, Before, Unpublished, Whole, Undoing, files
  <2> QED
    BY <1>1, <1>3, <2>1, <2>2, <2>3, <2>4, RunInv
<1>4. CASE Installed(run.i)
  <2>1. Goto("undo")
    BY <1>4 DEF RollbackEntry
  <2>2. "undo" \in Labels /\ 0 \in 0 .. N
    BY Numbers DEF Labels
  <2>3. /\ run' \in Run /\ run'.pc = "undo" /\ run'.i = run.i /\ run'.bad = run.bad
        /\ out' \in Reports
    BY <2>1, <2>2, GotoRun
  <2>4. ~Spoiled(run.i)
    BY <1>4 DEF Installed, Spoiled
  <2>5. Doomed'
    <3> SUFFICES ASSUME marker[TRUE] # None PROVE Doomed'
      BY <1>1 DEF Doomed, files
    <3>1. \E e \in Entries : Spoiled(e)'
      BY <1>1, <1>2 DEF Spoiled, files
    <3>2. CASE run.bad
      BY <2>3, <3>1, <3>2 DEF Doomed
    <3>3. CASE \E e \in Entries : Spoiled(e) /\ e <= run.i
      <4>1. PICK e \in Entries : Spoiled(e) /\ e <= run.i
        BY <3>3
      <4>2. Spoiled(e)' /\ e < run'.i /\ e <= run'.i
        BY <1>1, <2>3, <2>4, <4>1 DEF Spoiled, files, Entries
      <4> QED
        BY <2>3, <3>1, <4>2 DEF Doomed
    <3> QED
      BY <1>2, <3>2, <3>3
  <2> QED
    BY <1>1, <1>3, <2>3, <2>5 DEF Undoing
<1>5. CASE ~Installed(run.i)
  <2>1. /\ run' = [run EXCEPT !.pc = PcBelow(run.i), !.i = run.i - 1,
                              !.bad = @ \/ ~Untouched(run.i)]
        /\ out' = out
    BY <1>5 DEF RollbackEntry
  <2>2. PcBelow(run.i) \in {"rollback", "rolled"} /\ run.i - 1 \in 0 .. N
    BY <1>1, Numbers DEF PcBelow, Entries
  <2>3. /\ run'.pc = PcBelow(run.i) /\ run'.i = run.i - 1
        /\ run'.bad <=> run.bad \/ ~Untouched(run.i)
        /\ run' \in Run
    BY <1>1, <2>1, <2>2 DEF Run, Labels
  <2>4. run'.pc # "rolled" => run'.i \in Entries
    <3>1. CASE run.i = 1
      BY <2>3, <3>1 DEF PcBelow
    <3>2. CASE run.i # 1
      BY <1>1, <2>3, <3>2, Numbers DEF Entries
    <3> QED
      BY <3>1, <3>2
  <2>5. Doomed'
    <3> SUFFICES ASSUME marker[TRUE] # None PROVE Doomed'
      BY <1>1 DEF Doomed, files
    <3>1. \E e \in Entries : Spoiled(e)'
      BY <1>1, <1>2 DEF Spoiled, files
    <3>2. CASE run'.bad
      BY <2>2, <2>3, <3>1, <3>2 DEF Doomed
    <3>3. CASE ~run'.bad
      <4>1. ~run.bad /\ ~Spoiled(run.i)
        BY <2>3, <3>3 DEF Untouched, Spoiled
      <4>2. PICK e \in Entries : Spoiled(e) /\ e <= run.i
        BY <1>2, <4>1
      <4>3. Spoiled(e)' /\ e <= run'.i /\ run'.pc = "rollback"
        BY <1>1, <2>3, <4>1, <4>2 DEF Spoiled, files, Entries, PcBelow
      <4> QED
        BY <3>1, <4>3 DEF Doomed
    <3> QED
      BY <3>2, <3>3
  <2> QED
    BY <1>1, <1>3, <2>1, <2>2, <2>3, <2>4, <2>5 DEF Undoing
<1> QED
  BY <1>4, <1>5

LEMMA RolledBackInv ==
    ASSUME IInv, RolledBack
    PROVE  IInv'
<1>1. /\ UNCHANGED files /\ faults' \in 0 .. MaxFaults /\ run.pc = "rolled" /\ run \in Run
      /\ dir # None /\ ~Unpublished
  BY SameFaults, Types DEF RolledBack, files, IInv, Placed, Undoing
<1>2. CASE ~run.bad /\ AllTargetsMatch(FALSE)
  <2>1. marker[TRUE] = None
    BY <1>1, <1>2 DEF IInv, Doomed, Undoing
  <2>2. StartCleanup(FALSE, run.by) /\ run.by \in {"perform", "recover", "recover_cleanup"}
    BY <1>1, <1>2 DEF RolledBack, Run
  <2> QED
    BY <1>1, <2>1, <2>2, CleanupInv
<1>3. CASE ~(~run.bad /\ AllTargetsMatch(FALSE))
  BY <1>1, <1>3, ExitInv DEF RolledBack, Reports
<1> QED
  BY <1>2, <1>3

LEMMA FaultInv ==
    ASSUME IInv, Crash \/ CallFails
    PROVE  IInv'
<1>1. CASE Crash
  <2>1. faults' \in 0 .. MaxFaults
    BY <1>1, FaultType DEF Crash, IInv
  <2> QED
    BY <1>1, <2>1, ExitInv DEF Crash, Reports, files
<1>2. CASE CallFails
  <2>1. faults' \in 0 .. MaxFaults
    BY <1>2, FaultType DEF CallFails, IInv
  <2> QED
    BY <1>2, <2>1, RaiseInv DEF CallFails, files
<1> QED
  BY <1>1, <1>2

----------------------------------------------------------------------------
(* Steps that prepare a transaction *)

\* A directory is not None: what it means for the conditions on what is left.
LEMMA DirectoryThere ==
    ASSUME dir' \in Directories
    PROVE  dir' # None /\ AllOrNothing'
BY NoneAssumption DEF AllOrNothing, Quiet

\* While no outcome is recorded no rollback can fail on it.
LEMMA Undoomed == marker'[TRUE] = None => Doomed'
BY DEF Doomed

LEMMA SnapshotInv ==
    ASSUME IInv, Snapshot
    PROVE  IInv'
<1> USE DEF Preparing, Installing, Undoing, Cleaning, Marking, Emptying
<1>1. /\ TypeOK /\ run.pc = "snapshot" /\ dir = None /\ Whole(FALSE)
      /\ marker[TRUE] = None /\ marker[FALSE] = None /\ UNCHANGED <<marker, faults>>
  BY DEF IInv, Snapshot, Placed, Recorded, Before
<1>2. /\ dir' \in Directories /\ dir'.name = "preparing"
      /\ \A e \in Entries : dir'.slot[e] = "absent"
  BY DEF Snapshot, Directories, Files
<1>3. dir' # None /\ Unpublished' /\ AllOrNothing' /\ Doomed'
  BY <1>1, <1>2, DirectoryThere, Undoomed DEF Unpublished
<1>4. CASE Unmodified
  <2>1. target' = [e \in Entries |-> Original(e)] /\ touched' = {} /\ Goto("record")
    BY <1>4 DEF Snapshot
  <2>2. "record" \in Labels /\ 0 \in 0 .. N
    BY Numbers DEF Labels
  <2>3. run' \in Run /\ out' \in Reports /\ run'.pc = "record"
    BY <2>1, <2>2, GotoRun
  <2>4. TypeOK'
    BY <1>1, <1>2, <2>1, <2>3, Types DEF Original, Files
  <2>5. Placed' /\ Recorded'
    BY <1>1, <1>2, <1>3, <2>3 DEF Placed, Recorded
  <2>6. Filled'
    BY <1>2, <2>1, <2>3 DEF Filled, Original
  <2>7. Before'
    BY <2>1 DEF Before, Whole, Original
  <2> QED
    BY <1>3, <2>4, <2>5, <2>6, <2>7 DEF IInv
<1>5. CASE ~Unmodified
  <2>1. Goto("discard") /\ UNCHANGED <<target, touched>>
    BY <1>5 DEF Snapshot
  <2>2. "discard" \in Labels /\ 0 \in 0 .. N
    BY Numbers DEF Labels
  <2>3. run' \in Run /\ out' \in Reports /\ run'.pc = "discard"
    BY <2>1, <2>2, GotoRun
  <2>4. TypeOK'
    BY <1>1, <1>2, <2>1, <2>3, Types
  <2>5. Placed' /\ Recorded'
    BY <1>1, <1>2, <1>3, <2>3 DEF Placed, Recorded
  <2>6. Filled'
    BY <1>2, <2>3 DEF Filled
  <2>7. Before'
    BY <1>1, <2>1 DEF Before, Whole
  <2> QED
    BY <1>3, <2>4, <2>5, <2>6, <2>7 DEF IInv
<1> QED
  BY <1>4, <1>5

\* The directory is gone, and with it the transaction.
LEMMA GoneInv ==
    ASSUME IInv, dir' = None, UNCHANGED <<target, marker, faults, touched>>,
           NEW code \in Reports, Exit(code), Whole(FALSE)
    PROVE  IInv'
<1> USE DEF Preparing, Installing, Undoing, Cleaning, Marking, Emptying
<1>1. run' \in Run /\ out' \in Reports /\ run'.pc = "idle"
  BY IdleType DEF Exit
<1>2. TypeOK'
  BY <1>1, Types DEF IInv
<1>3. Placed' /\ Filled' /\ Doomed' /\ Before' /\ AllOrNothing'
  BY <1>1 DEF Placed, Filled, Doomed, Before, Unpublished, AllOrNothing, Whole
<1>4. Recorded'
  BY <1>1 DEF IInv, Recorded, Unpublished
<1> QED
  BY <1>2, <1>3, <1>4 DEF IInv

LEMMA DiscardInv ==
    ASSUME IInv, Discard
    PROVE  IInv'
<1> USE DEF Preparing, Installing, Undoing, Cleaning, Marking, Emptying
<1>1. /\ TypeOK /\ UNCHANGED <<target, marker, faults, touched>>
      /\ marker[TRUE] = None /\ marker[FALSE] = None /\ Whole(FALSE)
      /\ dir \in Directories /\ \A e \in Entries : dir.slot[e] = "absent"
  BY Types DEF IInv, Discard, Placed, Recorded, Filled, Before, Unpublished
<1>2. CASE run.pc = "discard"
  <2>1. dir' = [dir EXCEPT !.name = "cleanup"] /\ Goto("discarded")
    BY <1>2 DEF Discard
  <2>2. "discarded" \in Labels /\ 0 \in 0 .. N
    BY Numbers DEF Labels
  <2>3. run' \in Run /\ out' \in Reports /\ run'.pc = "discarded"
    BY <2>1, <2>2, GotoRun
  <2>4. dir' \in Directories /\ dir'.name = "cleanup" /\ dir'.slot = dir.slot
    BY <1>1, <2>1 DEF Directories
  <2>5. dir' # None /\ ~Unpublished' /\ AllOrNothing' /\ Doomed'
    BY <1>1, <2>4, DirectoryThere, Undoomed DEF Unpublished
  <2>6. TypeOK'
    BY <1>1, <2>3, <2>4, Types
  <2>7. Placed' /\ Recorded' /\ Before'
    BY <1>1, <2>3, <2>4, <2>5 DEF Placed, Recorded, Before, Whole
  <2>8. Filled'
    BY <1>1, <2>3, <2>4, <2>5 DEF Filled
  <2> QED
    BY <2>5, <2>6, <2>7, <2>8 DEF IInv
<1>3. CASE run.pc # "discard"
  BY <1>1, <1>3, GoneInv DEF Discard, Reports
<1> QED
  BY <1>2, <1>3

LEMMA WriteRecordInv ==
    ASSUME IInv, WriteRecord
    PROVE  IInv'
<1> USE DEF Preparing, Installing, Undoing, Cleaning, Marking, Emptying
<1>1. /\ TypeOK /\ run.pc = "record" /\ UNCHANGED <<target, marker, faults, touched>>
      /\ marker[TRUE] = None /\ marker[FALSE] = None /\ Whole(FALSE)
      /\ dir \in Directories /\ dir.name = "preparing"
      /\ \A e \in Entries : dir.slot[e] = "absent" /\ target[e] # "new"
  BY Types DEF IInv, WriteRecord, Placed, Recorded, Filled, Before, Unpublished
<1>2. dir' = [dir EXCEPT !.record = TRUE] /\ GotoEntry("slots", 1)
  BY DEF WriteRecord
<1>3. dir' \in Directories /\ dir'.name = "preparing" /\ dir'.slot = dir.slot
  BY <1>1, <1>2 DEF Directories
<1>4. "slots" \in Labels /\ 1 \in 0 .. N
  BY Numbers DEF Labels, Entries
<1>5. run' \in Run /\ out' \in Reports /\ run'.pc = "slots" /\ run'.i = 1
  BY <1>2, <1>4, GotoRun
<1>6. dir' # None /\ Unpublished' /\ AllOrNothing' /\ Doomed'
  BY <1>1, <1>3, DirectoryThere, Undoomed DEF Unpublished
<1>7. TypeOK'
  BY <1>1, <1>3, <1>5, Types
<1>8. Placed' /\ Recorded' /\ Before'
  BY <1>1, <1>3, <1>5, <1>6, Numbers DEF Placed, Recorded, Before, Whole
<1>9. Filled'
  BY <1>1, <1>3, <1>5, <1>6 DEF Filled
<1> QED
  BY <1>6, <1>7, <1>8, <1>9 DEF IInv

LEMMA WriteSlotInv ==
    ASSUME IInv, WriteSlot
    PROVE  IInv'
<1> USE DEF Preparing, Installing, Undoing, Cleaning, Marking, Emptying
<1>1. /\ TypeOK /\ run.pc = "slots" /\ UNCHANGED <<target, marker, faults, touched>>
      /\ marker[TRUE] = None /\ marker[FALSE] = None /\ Whole(FALSE)
      /\ dir \in Directories /\ dir.name = "preparing" /\ run.i \in Entries
      /\ \A e \in Entries : target[e] # "new" /\ dir.slot[e] \in {"absent", "new"}
      /\ \A e \in Entries : e >= run.i => dir.slot[e] = "absent"
  BY Types DEF IInv, WriteSlot, Placed, Recorded, Filled, Before, Unpublished
<1>2. dir' = [dir EXCEPT !.slot[run.i] = "new"]
  BY DEF WriteSlot
<1>3. /\ dir' \in Directories /\ dir'.name = "preparing"
      /\ dir'.slot = [dir.slot EXCEPT ![run.i] = "new"]
  BY <1>1, <1>2 DEF Directories, Files
<1>4. dir' # None /\ Unpublished' /\ AllOrNothing' /\ Doomed'
  BY <1>1, <1>3, DirectoryThere, Undoomed DEF Unpublished
<1>5. /\ run' \in Run /\ out' \in Reports /\ run'.pc \in {"slots", "publish"}
      /\ run'.pc = "slots" => run'.i \in Entries /\ run'.i = run.i + 1
  <2>1. CASE IsLast(run.i)
    <3>1. "publish" \in Labels /\ 0 \in 0 .. N
      BY Numbers DEF Labels
    <3> QED
      BY <2>1, <3>1, GotoRun DEF WriteSlot
  <2>2. CASE ~IsLast(run.i)
    <3>1. "slots" \in Labels /\ run.i + 1 \in 0 .. N /\ run.i + 1 \in Entries
      BY <1>1, <2>2, Numbers DEF Labels, IsLast, Entries
    <3> QED
      BY <2>2, <3>1, GotoRun DEF WriteSlot
  <2> QED
    BY <2>1, <2>2
<1>6. TypeOK'
  BY <1>1, <1>3, <1>5, Types
<1>7. Placed' /\ Recorded' /\ Before'
  BY <1>1, <1>3, <1>4, <1>5 DEF Placed, Recorded, Before, Whole
<1>8. Filled'
  <2>1. dir.slot \in [Entries -> Files]
    BY <1>1 DEF Directories
  <2>2. \A e \in Entries : /\ dir'.slot[e] \in {"absent", "new"}
                           /\ e > run.i => dir'.slot[e] = "absent"
    BY <1>1, <1>3, <2>1 DEF Entries
  <2>3. run'.pc = "slots" => \A e \in Entries : e >= run'.i => dir'.slot[e] = "absent"
    BY <1>1, <1>5, <2>2 DEF Entries
  <2> QED
    BY <1>1, <1>4, <1>5, <2>2, <2>3 DEF Filled
<1> QED
  BY <1>4, <1>6, <1>7, <1>8 DEF IInv

LEMMA PublishTransactionInv ==
    ASSUME IInv, PublishTransaction
    PROVE  IInv'
<1> USE DEF Preparing, Installing, Undoing, Cleaning, Marking, Emptying
<1>1. /\ TypeOK /\ run.pc = "publish" /\ UNCHANGED <<target, marker, faults, touched>>
      /\ marker[TRUE] = None /\ marker[FALSE] = None /\ dir \in Directories
      /\ \A e \in Entries : target[e] # "new"
  BY Types DEF IInv, PublishTransaction, Placed, Recorded, Filled, Unpublished
<1>2. dir' = [dir EXCEPT !.name = "transaction"] /\ GotoEntry("check", 1)
  BY DEF PublishTransaction
<1>3. dir' \in Directories /\ dir'.name = "transaction" /\ dir'.slot = dir.slot
  BY <1>1, <1>2 DEF Directories
<1>4. "check" \in Labels /\ 1 \in 0 .. N
  BY Numbers DEF Labels, Entries
<1>5. run' \in Run /\ out' \in Reports /\ run'.pc = "check" /\ run'.i = 1
  BY <1>2, <1>4, GotoRun
<1>6. dir' # None /\ ~Unpublished' /\ AllOrNothing' /\ Doomed'
  BY <1>1, <1>3, DirectoryThere, Undoomed DEF Unpublished
<1>7. TypeOK'
  BY <1>1, <1>3, <1>5, Types
<1>8. Placed' /\ Recorded' /\ Before' /\ Filled'
  BY <1>1, <1>3, <1>5, <1>6, Numbers DEF Placed, Recorded, Before, Filled
<1> QED
  BY <1>6, <1>7, <1>8 DEF IInv

----------------------------------------------------------------------------
(* Steps that exchange files, and the commit *)

LEMMA ExchangeFacts ==
    ASSUME NEW e \in Entries, target \in [Entries -> Files], dir \in Directories, Exchange(e)
    PROVE  /\ target' \in [Entries -> Files] /\ dir' \in Directories
           /\ dir'.name = dir.name /\ dir'.committed = dir.committed
           /\ target'[e] = dir.slot[e] /\ dir'.slot[e] = target[e]
           /\ \A f \in Entries \ {e} : target'[f] = target[f] /\ dir'.slot[f] = dir.slot[f]
           /\ \A f \in Entries : Spoiled(f) => Spoiled(f)'
           /\ \A f \in Entries : Held(f)' = Held(f)
<1>1. target' = [target EXCEPT ![e] = dir.slot[e]] /\ dir' = [dir EXCEPT !.slot[e] = target[e]]
  BY DEF Exchange
<1>2. dir.slot \in [Entries -> Files]
  BY DEF Directories
<1>3. /\ dir' \in Directories /\ dir'.slot = [dir.slot EXCEPT ![e] = target[e]]
      /\ dir'.name = dir.name /\ dir'.committed = dir.committed
  BY <1>1, <1>2 DEF Directories
<1>4. target' \in [Entries -> Files]
  BY <1>1, <1>2
<1>5. /\ target'[e] = dir.slot[e] /\ dir'.slot[e] = target[e]
      /\ \A f \in Entries \ {e} : target'[f] = target[f] /\ dir'.slot[f] = dir.slot[f]
  BY <1>1, <1>2, <1>3
<1>6. \A f \in Entries : Spoiled(f) => Spoiled(f)'
  BY <1>5 DEF Spoiled
<1>7. dir # None /\ dir' # None
  BY <1>3, NoneAssumption
<1>8. \A f \in Entries : Held(f)' = Held(f)
  <2> TAKE f \in Entries
  <2>1. CASE f = e
    BY <1>5, <1>7, <2>1 DEF Held
  <2>2. CASE f # e
    BY <1>5, <1>7, <2>2 DEF Held
  <2> QED
    BY <2>1, <2>2
<1> QED
  BY <1>3, <1>4, <1>5, <1>6, <1>8

LEMMA ExchangeEntryInv ==
    ASSUME IInv, ExchangeEntry
    PROVE  IInv'
<1> USE DEF Preparing, Installing, Undoing, Cleaning, Marking, Emptying
<1>1. /\ TypeOK /\ run.pc = "exchange" /\ UNCHANGED <<marker, faults, touched>>
      /\ marker[TRUE] = None /\ marker[FALSE] = None /\ dir \in Directories
      /\ ~Unpublished /\ run.i \in Entries /\ target \in [Entries -> Files]
      /\ \A e \in Entries : dir.slot[e] # "new" \/ target[e] # "new"
  BY Types DEF IInv, ExchangeEntry, Placed, Recorded, Filled
<1>2. CASE CanExchange(run.i)
  <2>1. Exchange(run.i) /\ Goto("verify")
    BY <1>2 DEF ExchangeEntry
  <2>2. /\ target' \in [Entries -> Files] /\ dir' \in Directories /\ dir'.name = dir.name
        /\ \A e \in Entries : dir'.slot[e] # "new" \/ target'[e] # "new"
    <3>1. /\ target' \in [Entries -> Files] /\ dir' \in Directories
          /\ dir'.name = dir.name
          /\ target'[run.i] = dir.slot[run.i] /\ dir'.slot[run.i] = target[run.i]
          /\ \A f \in Entries \ {run.i} : target'[f] = target[f] /\ dir'.slot[f] = dir.slot[f]
      BY <1>1, <2>1, ExchangeFacts
    <3> QED
      BY <1>1, <3>1
  <2>3. "verify" \in Labels /\ 0 \in 0 .. N
    BY Numbers DEF Labels
  <2>4. run' \in Run /\ out' \in Reports /\ run'.pc = "verify" /\ run'.i = run.i
    BY <2>1, <2>3, GotoRun
  <2>5. dir' # None /\ ~Unpublished' /\ AllOrNothing' /\ Doomed'
    BY <1>1, <2>2, DirectoryThere, Undoomed, NoneAssumption DEF Unpublished
  <2>6. TypeOK'
    BY <1>1, <2>2, <2>4, Types
  <2>7. Placed' /\ Recorded' /\ Before'
    BY <1>1, <2>4, <2>5 DEF Placed, Recorded, Before
  <2>8. Filled'
    BY <2>2, <2>4, <2>5 DEF Filled
  <2> QED
    BY <2>5, <2>6, <2>7, <2>8 DEF IInv
<1>3. CASE ~CanExchange(run.i)
  BY <1>1, <1>3, RaiseInv, SameFaults DEF ExchangeEntry, files
<1> QED
  BY <1>2, <1>3

LEMMA CommitInv ==
    ASSUME IInv, Commit
    PROVE  IInv'
<1> USE DEF Preparing, Installing, Undoing, Cleaning, Marking, Emptying
<1>1. /\ TypeOK /\ run.pc = "commit" /\ UNCHANGED <<target, marker, faults, touched>>
      /\ marker[TRUE] = None /\ marker[FALSE] = None /\ dir \in Directories
      /\ ~Unpublished
      /\ \A e \in Entries : dir.slot[e] # "new" \/ target[e] # "new"
  BY Types DEF IInv, Commit, Placed, Recorded, Filled
<1>2. CASE AllTargetsMatch(TRUE)
  <2>1. dir' = [dir EXCEPT !.committed = TRUE] /\ Goto("commit_sync")
    BY <1>2 DEF Commit
  <2>2. dir' \in Directories /\ dir'.name = dir.name /\ dir'.slot = dir.slot
    BY <1>1, <2>1 DEF Directories
  <2>3. "commit_sync" \in Labels /\ 0 \in 0 .. N
    BY Numbers DEF Labels
  <2>4. run' \in Run /\ out' \in Reports /\ run'.pc = "commit_sync"
    BY <2>1, <2>3, GotoRun
  <2>5. dir' # None /\ ~Unpublished' /\ AllOrNothing' /\ Doomed'
    BY <1>1, <2>2, DirectoryThere, Undoomed, NoneAssumption DEF Unpublished
  <2>6. NoneNew'
    BY <1>1, <1>2, <2>2 DEF NoneNew, AllTargetsMatch
  <2>7. TypeOK'
    BY <1>1, <2>2, <2>4, Types
  <2>8. Placed' /\ Recorded' /\ Before' /\ Filled'
    BY <1>1, <2>2, <2>4, <2>5, <2>6 DEF Placed, Recorded, Before, Filled
  <2> QED
    BY <2>5, <2>7, <2>8 DEF IInv
<1>3. CASE ~AllTargetsMatch(TRUE)
  BY <1>1, <1>3, RaiseInv, SameFaults DEF Commit, files
<1> QED
  BY <1>2, <1>3

LEMMA UndoEntryInv ==
    ASSUME IInv, UndoEntry
    PROVE  IInv'
<1> USE DEF Preparing, Installing, Undoing, Cleaning, Marking, Emptying
<1>1. /\ TypeOK /\ run.pc = "undo" /\ UNCHANGED <<marker, faults, touched>>
      /\ marker[FALSE] = None /\ dir \in Directories
      /\ ~Unpublished /\ run.i \in Entries /\ target \in [Entries -> Files]
      /\ \A e \in Entries : dir.slot[e] # "new" \/ target[e] # "new"
  BY Types DEF IInv, UndoEntry, Placed, Recorded, Filled
<1>2. CASE target[run.i] = "absent"
  BY <1>1, <1>2, ExitInv, SameFaults DEF UndoEntry, Reports, files
<1>3. CASE target[run.i] # "absent"
  <2>1. Exchange(run.i) /\ GotoEntry(PcBelow(run.i), run.i - 1)
    BY <1>3 DEF UndoEntry
  <2>2. /\ target' \in [Entries -> Files] /\ dir' \in Directories
        /\ dir'.name = dir.name
        /\ target'[run.i] = dir.slot[run.i] /\ dir'.slot[run.i] = target[run.i]
        /\ \A f \in Entries \ {run.i} : target'[f] = target[f] /\ dir'.slot[f] = dir.slot[f]
        /\ \A f \in Entries : Spoiled(f) => Spoiled(f)'
    BY <1>1, <2>1, ExchangeFacts
  <2>3. \A e \in Entries : dir'.slot[e] # "new" \/ target'[e] # "new"
    BY <1>1, <2>2
  <2>4. PcBelow(run.i) \in Labels /\ run.i - 1 \in 0 .. N
    BY <1>1, Numbers DEF PcBelow, Labels, Entries
  <2>5. /\ run' \in Run /\ out' \in Reports /\ run'.pc = PcBelow(run.i)
        /\ run'.i = run.i - 1 /\ run'.bad = run.bad
    BY <2>1, <2>4, GotoRun
  <2>6. \/ run.i = 1 /\ run'.pc = "rolled"
        \/ run.i # 1 /\ run'.pc = "rollback" /\ run'.i \in Entries
    BY <1>1, <2>4, <2>5, Numbers DEF PcBelow, Entries
  <2>7. dir' # None /\ ~Unpublished' /\ AllOrNothing'
    BY <1>1, <2>2, DirectoryThere, NoneAssumption DEF Unpublished
  <2>8. TypeOK'
    BY <1>1, <2>2, <2>5, Types
  <2>9. Placed' /\ Recorded' /\ Before'
    BY <1>1, <2>6, <2>7 DEF Placed, Recorded, Before
  <2>10. Filled'
    BY <2>3, <2>6, <2>7 DEF Filled
  <2>11. Doomed'
    <3> SUFFICES ASSUME marker[TRUE] # None PROVE Doomed'
      BY <1>1 DEF Doomed
    <3>1. /\ \E e \in Entries : Spoiled(e)
          /\ run.bad \/ \E e \in Entries : Spoiled(e) /\ e < run.i
      BY <1>1, NoneAssumption DEF IInv, Doomed
    <3>2. \E e \in Entries : Spoiled(e)'
      BY <2>2, <3>1
    <3>3. CASE run.bad
      BY <2>5, <2>6, <3>2, <3>3 DEF Doomed
    <3>4. CASE \E e \in Entries : Spoiled(e) /\ e < run.i
      <4>1. PICK e \in Entries : Spoiled(e) /\ e < run.i
        BY <3>4
      <4>2. Spoiled(e)' /\ e <= run'.i /\ run'.pc = "rollback"
        BY <1>1, <2>2, <2>5, <2>6, <4>1 DEF Entries
      <4> QED
        BY <3>2, <4>2 DEF Doomed
    <3> QED
      BY <3>1, <3>3, <3>4
  <2> QED
    BY <2>7, <2>8, <2>9, <2>10, <2>11 DEF IInv
<1> QED
  BY <1>2, <1>3

----------------------------------------------------------------------------
(* Steps that clean up *)

\* What a cleanup knows: which outcome it records, and that no rollback can have
\* left new files in the slots if it is the new scaffold.
LEMMA CleaningFacts ==
    ASSUME IInv, run.pc \in Cleaning
    PROVE  /\ TypeOK /\ run \in Run /\ out \in Reports /\ run.new \in BOOLEAN
           /\ marker \in [BOOLEAN -> {None, "torn", "whole"}]
           /\ marker[~run.new] = None
           /\ run.new => marker[FALSE] = None
           /\ ~run.new => marker[TRUE] = None
           /\ run.pc # "unmark" => dir # None /\ ~Unpublished /\ dir \in Directories
           /\ dir # None /\ run.new => NoneNew
           /\ dir # None => \A e \in Entries : dir.slot[e] # "new" \/ target[e] # "new"
<1>1. /\ TypeOK /\ run \in Run /\ out \in Reports /\ run.new \in BOOLEAN
      /\ marker \in [BOOLEAN -> {None, "torn", "whole"}]
  BY Types DEF IInv, Run
<1>2. marker[~run.new] = None
  BY DEF IInv, Recorded
<1>3. /\ run.new => marker[FALSE] = None
      /\ ~run.new => marker[TRUE] = None
  BY <1>1, <1>2
<1>4. run.pc # "unmark" => dir # None /\ ~Unpublished /\ dir \in Directories
  BY <1>1, Types DEF IInv, Placed, Cleaning, Marking, Emptying, Unpublished
<1>5. /\ dir # None /\ run.new => NoneNew
      /\ dir # None => \A e \in Entries : dir.slot[e] # "new" \/ target[e] # "new"
  BY DEF IInv, Filled
<1> QED
  BY <1>1, <1>2, <1>3, <1>4, <1>5

\* The outcome is recorded.
LEMMA MarkerInv ==
    ASSUME IInv, run.pc \in {"mark", "fill"},
           NEW v \in {"torn", "whole"}, NEW pc \in {"fill", "rename"},
           v = "torn" <=> pc = "fill",
           marker' = [marker EXCEPT ![run.new] = v], Goto(pc),
           UNCHANGED <<target, dir, faults, touched>>
    PROVE  IInv'
<1> USE DEF Preparing, Installing, Undoing, Cleaning, Marking, Emptying
<1>1. /\ TypeOK /\ run.new \in BOOLEAN
      /\ marker \in [BOOLEAN -> {None, "torn", "whole"}]
      /\ run.new => marker[FALSE] = None
      /\ ~run.new => marker[TRUE] = None
      /\ dir # None /\ ~Unpublished
      /\ run.new => NoneNew
  BY CleaningFacts
<1>2. v # None
  BY NoneAssumption
<1>3. /\ marker' \in [BOOLEAN -> {None, "torn", "whole"}] /\ marker'[run.new] = v
      /\ marker'[~run.new] = marker[~run.new]
  BY <1>1
<1>4. /\ run.new => marker'[FALSE] = None /\ marker'[TRUE] = v
      /\ ~run.new => marker'[TRUE] = None /\ marker'[FALSE] = v
  BY <1>1, <1>3
<1>5. pc \in Labels /\ 0 \in 0 .. N
  BY Numbers DEF Labels
<1>6. run' \in Run /\ out' \in Reports /\ run'.pc = pc /\ run'.new = run.new
  BY <1>5, GotoRun
<1>7. TypeOK'
  BY <1>1, <1>3, <1>6, Types
<1>8. Placed' /\ Before'
  BY <1>1, <1>6 DEF Placed, Before, Unpublished
<1>9. Recorded'
  BY <1>1, <1>3, <1>4, <1>6 DEF Recorded, Unpublished
<1>10. Filled'
  BY <1>1, <1>6 DEF IInv, Filled, NoneNew, Unpublished
<1>11. Doomed'
  BY <1>1, <1>4, <1>6 DEF Doomed, NoneNew
<1>12. AllOrNothing'
  BY <1>1 DEF AllOrNothing, Quiet
<1> QED
  BY <1>7, <1>8, <1>9, <1>10, <1>11, <1>12 DEF IInv

LEMMA MarkInv ==
    ASSUME IInv, Mark \/ FillMarker
    PROVE  IInv'
<1>1. CASE FillMarker
  BY <1>1, MarkerInv DEF FillMarker
<1>2. CASE Mark /\ marker[run.new] = None
  <2>1. marker' = [marker EXCEPT ![run.new] = "torn"] /\ Goto("fill")
    BY <1>2, NoneAssumption DEF Mark
  <2> QED
    BY <1>2, <2>1, MarkerInv DEF Mark
<1>3. CASE Mark /\ marker[run.new] = "torn"
  BY <1>3, RaiseInv, SameFaults, NoneAssumption DEF Mark, files
<1>4. CASE Mark /\ marker[run.new] = "whole"
  <2> USE DEF Preparing, Installing, Undoing, Cleaning, Marking, Emptying
  <2>1. /\ Goto("rename") /\ UNCHANGED files /\ run.pc = "mark" /\ UNCHANGED faults
        /\ marker[run.new] = "whole"
    BY <1>4, NoneAssumption DEF Mark, files
  <2>2. "rename" \in Labels /\ 0 \in 0 .. N
    BY Numbers DEF Labels
  <2>3. run'.pc = "rename" /\ run'.new = run.new
    BY <2>1, <2>2, GotoRun
  <2>4. Placed' /\ Before' /\ Filled' /\ Doomed'
    BY <2>1, <2>3 DEF IInv, Placed, Before, Filled, Doomed, NoneNew, Spoiled, Unpublished,
                      Whole, files
  <2>5. Recorded'
    BY <2>1, <2>3 DEF IInv, Recorded, Unpublished, files
  <2> QED
    BY <2>1, <2>2, <2>4, <2>5, GotoInv, SameFaults
<1> QED
  BY <1>1, <1>2, <1>3, <1>4 DEF Mark

\* A step in the directory of a transaction whose outcome is recorded.
LEMMA EmptyingInv ==
    ASSUME IInv, run.pc \in Emptying \cup {"rename"},
           dir' \in Directories, dir'.name = "cleanup",
           \A e \in Entries : dir'.slot[e] \in {dir.slot[e], "absent"},
           UNCHANGED <<target, marker, faults, touched>>,
           run' \in Run, out' \in Reports, run'.new = run.new, run'.pc \in Emptying,
           run'.pc = "empty" => /\ run'.i \in Entries
                                /\ \A e \in Entries : e < run'.i => dir'.slot[e] = "absent",
           run'.pc # "empty" => \A e \in Entries : dir'.slot[e] = "absent"
    PROVE  IInv'
<1> USE DEF Preparing, Installing, Undoing, Cleaning, Marking, Emptying
<1>1. /\ TypeOK /\ run.new \in BOOLEAN /\ marker[~run.new] = None
      /\ ~run.new => marker[TRUE] = None
      /\ dir # None
      /\ run.new => NoneNew
      /\ \A e \in Entries : dir.slot[e] # "new" \/ target[e] # "new"
  BY CleaningFacts
<1>2. dir' # None /\ ~Unpublished' /\ AllOrNothing'
  BY DirectoryThere DEF Unpublished
<1>3. TypeOK'
  BY <1>1, Types
<1>4. Placed' /\ Before'
  BY <1>2 DEF Placed, Before
<1>5. Recorded'
  BY <1>2 DEF IInv, Recorded
<1>6. run.new => NoneNew'
  BY <1>1 DEF NoneNew
<1>7. Filled'
  BY <1>1, <1>2, <1>6 DEF Filled
<1>8. Doomed'
  BY <1>1, <1>6 DEF Doomed
<1> QED
  BY <1>2, <1>3, <1>4, <1>5, <1>7, <1>8 DEF IInv

LEMMA RenameTransactionInv ==
    ASSUME IInv, RenameTransaction
    PROVE  IInv'
<1>1. /\ run.pc = "rename" /\ UNCHANGED <<target, marker, faults, touched>>
      /\ dir \in Directories
  BY CleaningFacts DEF RenameTransaction, Cleaning, Marking
<1>2. CASE dir.name # "cleanup" /\ ~Validate
  BY <1>1, <1>2, RaiseInv, SameFaults DEF RenameTransaction, files
<1>3. CASE dir.name = "cleanup" \/ Validate
  <2>1. /\ GotoEntry("empty", 1)
        /\ (dir' = dir /\ dir.name = "cleanup") \/ dir' = [dir EXCEPT !.name = "cleanup"]
    BY <1>3 DEF RenameTransaction
  <2>2. dir' \in Directories /\ dir'.name = "cleanup" /\ dir'.slot = dir.slot
    BY <1>1, <2>1 DEF Directories
  <2>3. "empty" \in Labels /\ 1 \in 0 .. N
    BY Numbers DEF Labels, Entries
  <2>4. /\ run' \in Run /\ out' \in Reports /\ run'.pc = "empty" /\ run'.i = 1
        /\ run'.new = run.new
    BY <2>1, <2>3, GotoRun
  <2>5. \A e \in Entries : ~(e < run'.i)
    BY <2>4, Numbers DEF Entries
  <2> QED
    BY <1>1, <2>2, <2>4, <2>5, Numbers, EmptyingInv DEF Emptying
<1> QED
  BY <1>2, <1>3

LEMMA EmptySlotInv ==
    ASSUME IInv, EmptySlot
    PROVE  IInv'
<1>1. /\ run.pc = "empty" /\ UNCHANGED <<target, marker, faults, touched>>
      /\ dir \in Directories /\ dir.name = "cleanup" /\ run.i \in Entries
      /\ \A e \in Entries : e < run.i => dir.slot[e] = "absent"
  BY CleaningFacts DEF IInv, EmptySlot, Cleaning, Emptying, Placed, Filled
<1>2. CASE dir.slot[run.i] # "absent" /\ ~(Discardable(run.i) /\ Validate)
  BY <1>1, <1>2, RaiseInv, SameFaults DEF EmptySlot, files
<1>3. CASE ~(dir.slot[run.i] # "absent" /\ ~(Discardable(run.i) /\ Validate))
  <2>1. dir' = [dir EXCEPT !.slot[run.i] = "absent"]
    BY <1>3 DEF EmptySlot
  <2>2. /\ dir' \in Directories /\ dir'.name = "cleanup"
        /\ dir'.slot = [dir.slot EXCEPT ![run.i] = "absent"]
    BY <1>1, <2>1 DEF Directories, Files
  <2>3. dir.slot \in [Entries -> Files]
    BY <1>1 DEF Directories
  <2>4. \A e \in Entries : /\ dir'.slot[e] \in {dir.slot[e], "absent"}
                           /\ e <= run.i => dir'.slot[e] = "absent"
    <3> TAKE e \in Entries
    <3>1. CASE e = run.i
      BY <2>2, <2>3, <3>1
    <3>2. CASE e # run.i
      BY <1>1, <2>2, <2>3, <3>2 DEF Entries
    <3> QED
      BY <3>1, <3>2
  <2>5. CASE IsLast(run.i)
    <3>1. Goto("uncommit") /\ "uncommit" \in Labels /\ 0 \in 0 .. N
      BY <1>3, <2>5, Numbers DEF EmptySlot, Labels
    <3>2. /\ run' \in Run /\ out' \in Reports /\ run'.pc = "uncommit"
          /\ run'.new = run.new
      BY <3>1, GotoRun
    <3>3. \A e \in Entries : dir'.slot[e] = "absent"
      BY <1>1, <2>4, <2>5 DEF IsLast, Entries
    <3> QED
      BY <1>1, <2>2, <2>4, <3>2, <3>3, EmptyingInv DEF Emptying
  <2>6. CASE ~IsLast(run.i)
    <3>1. GotoEntry("empty", run.i + 1) /\ "empty" \in Labels
      BY <1>3, <2>6 DEF EmptySlot, Labels
    <3>2. run.i + 1 \in 0 .. N /\ run.i + 1 \in Entries
      BY <1>1, <2>6, Numbers DEF IsLast, Entries
    <3>3. /\ run' \in Run /\ out' \in Reports /\ run'.pc = "empty"
          /\ run'.new = run.new /\ run'.i = run.i + 1
      BY <3>1, <3>2, GotoRun
    <3>4. \A e \in Entries : e < run'.i => dir'.slot[e] = "absent"
      BY <1>1, <2>4, <3>3 DEF Entries
    <3> QED
      BY <1>1, <2>2, <2>4, <3>2, <3>3, <3>4, EmptyingInv DEF Emptying
  <2> QED
    BY <2>5, <2>6
<1> QED
  BY <1>2, <1>3

LEMMA RemoveRecordInv ==
    ASSUME IInv, RemoveCommitted \/ RemoveRecord
    PROVE  IInv'
<1>1. /\ run.pc \in {"uncommit", "unrecord"} /\ UNCHANGED <<target, marker, faults, touched>>
      /\ dir \in Directories /\ dir.name = "cleanup"
      /\ \A e \in Entries : dir.slot[e] = "absent"
  BY CleaningFacts DEF IInv, RemoveCommitted, RemoveRecord, Cleaning, Emptying, Placed, Filled
<1>2. CASE Raise /\ UNCHANGED dir
  BY <1>1, <1>2, RaiseInv, SameFaults DEF files
<1>3. ASSUME NEW pc \in {"unrecord", "rmdir"}, Goto(pc),
             \/ dir' = [dir EXCEPT !.committed = FALSE]
             \/ dir' = [dir EXCEPT !.record = FALSE]
      PROVE  IInv'
  <2>1. dir' \in Directories /\ dir'.name = "cleanup" /\ dir'.slot = dir.slot
    BY <1>1, <1>3 DEF Directories
  <2>2. pc \in Labels /\ 0 \in 0 .. N
    BY Numbers DEF Labels
  <2>3. /\ run' \in Run /\ out' \in Reports /\ run'.pc = pc /\ run'.new = run.new
    BY <1>3, <2>2, GotoRun
  <2> QED
    BY <1>1, <2>1, <2>3, EmptyingInv DEF Emptying
<1>4. CASE dir' = [dir EXCEPT !.committed = FALSE] /\ Goto("unrecord")
  BY <1>3, <1>4
<1>5. CASE dir' = [dir EXCEPT !.record = FALSE] /\ Goto("rmdir")
  BY <1>3, <1>5
<1> QED
  BY <1>2, <1>4, <1>5 DEF RemoveCommitted, RemoveRecord

\* The last that tells of the transaction is its record beside the directory.
LEMMA RemoveDirectoryInv ==
    ASSUME IInv, RemoveDirectory
    PROVE  IInv'
<1> USE DEF Preparing, Installing, Undoing, Cleaning, Marking, Emptying
<1>1. /\ TypeOK /\ run.pc = "rmdir" /\ UNCHANGED <<target, marker, faults, touched>>
      /\ run.new \in BOOLEAN /\ marker[~run.new] = None /\ marker[run.new] = "whole"
  BY CleaningFacts DEF IInv, Recorded, RemoveDirectory
<1>2. CASE ~Validate
  BY <1>1, <1>2, RaiseInv, SameFaults DEF RemoveDirectory, files
<1>3. CASE Validate
  <2>1. dir' = None /\ Goto("unmark") /\ "unmark" \in Labels /\ 0 \in 0 .. N
    BY <1>3, Numbers DEF RemoveDirectory, Labels
  <2>2. /\ run' \in Run /\ out' \in Reports /\ run'.pc = "unmark" /\ run'.new = run.new
    BY <2>1, GotoRun
  <2>3. TypeOK'
    BY <1>1, <2>1, <2>2, Types
  <2>4. Placed' /\ Filled' /\ Doomed' /\ Before'
    BY <2>1, <2>2 DEF Placed, Filled, Doomed, Before, Unpublished
  <2>5. Recorded'
    BY <1>1, <2>1, <2>2 DEF IInv, Recorded, Unpublished
  <2>6. AllOrNothing'
    BY <1>1, NoneAssumption DEF AllOrNothing, Quiet
  <2> QED
    BY <2>3, <2>4, <2>5, <2>6 DEF IInv
<1> QED
  BY <1>2, <1>3

\* Nothing is left: the files are those of the outcome, which was just checked.
LEMMA UnmarkInv ==
    ASSUME IInv, dir = None, NEW new \in BOOLEAN, marker[~new] = None,
           marker' = [marker EXCEPT ![new] = None], UNCHANGED <<target, dir, faults, touched>>,
           AllTargetsMatch(new), NEW code \in Reports, Exit(code)
    PROVE  IInv' /\ Quiet' /\ Whole(new)'
<1> USE DEF Preparing, Installing, Undoing, Cleaning, Marking, Emptying
<1>1. TypeOK /\ marker \in [BOOLEAN -> {None, "torn", "whole"}]
  BY Types DEF IInv
<1>2. /\ marker' \in [BOOLEAN -> {None, "torn", "whole"}]
      /\ marker'[new] = None /\ marker'[~new] = None
  BY <1>1
<1>3. marker'[TRUE] = None /\ marker'[FALSE] = None
  BY <1>2
<1>4. run' \in Run /\ out' \in Reports /\ run'.pc = "idle"
  BY IdleType DEF Exit
<1>5. TypeOK'
  BY <1>1, <1>2, <1>4, Types
<1>6. Whole(new)
  BY DEF AllTargetsMatch, Whole
<1>7. Quiet' /\ Whole(new)'
  BY <1>3, <1>6 DEF Quiet, Whole
<1>8. AllOrNothing'
  BY <1>7 DEF AllOrNothing, Whole
<1>9. Placed' /\ Recorded' /\ Filled' /\ Doomed' /\ Before'
  BY <1>3, <1>4 DEF Placed, Recorded, Filled, Doomed, Before, Unpublished
<1> QED
  BY <1>5, <1>7, <1>8, <1>9 DEF IInv

LEMMA OutcomeType ==
    ASSUME NEW new \in BOOLEAN, NEW by
    PROVE  /\ Outcome(new, by) \in {"complete", "rolled_back", "recovered"}
           /\ Outcome(new, by) \in {"already_current", "complete"} <=> new
BY DEF Outcome

\* What the reports that promise something promise.
Truthful(report) ==
    report \in Promising =>
        Quiet /\ IF report \in {"already_current", "complete"} THEN Whole(TRUE) ELSE Whole(FALSE)

LEMMA RemoveMarkerInv ==
    ASSUME IInv, RemoveMarker
    PROVE  IInv' /\ Truthful(out)'
<1>1. /\ run.pc = "unmark" /\ UNCHANGED <<target, dir, faults, touched>>
      /\ run.new \in BOOLEAN /\ marker[~run.new] = None /\ dir = None
  BY CleaningFacts DEF IInv, Placed, RemoveMarker, Cleaning
<1>2. CASE Validate
  <2>1. marker' = [marker EXCEPT ![run.new] = None] /\ Exit(Outcome(run.new, run.by))
    BY <1>2 DEF RemoveMarker
  <2>2. PICK new \in BOOLEAN : new = run.new
    BY <1>1
  <2>3. Outcome(new, run.by) \in Reports
    BY OutcomeType DEF Reports
  <2>4. IInv' /\ Quiet' /\ Whole(new)'
    BY <1>1, <1>2, <2>1, <2>2, <2>3, UnmarkInv DEF Validate
  <2>5. out' \in {"already_current", "complete"} <=> new
    BY <2>1, <2>2, OutcomeType DEF Exit
  <2>6. CASE new
    BY <2>4, <2>5, <2>6 DEF Truthful, Promising
  <2>7. CASE ~new
    BY <2>4, <2>5, <2>7 DEF Truthful, Promising
  <2> QED
    BY <2>6, <2>7
<1>3. CASE ~Validate
  <2>1. Raise /\ UNCHANGED marker
    BY <1>3 DEF RemoveMarker
  <2>2. out' \in {"required", "foreign", "failed"}
    BY <1>1, <2>1 DEF Raise, Exit, Failure, Preparing, Installing
  <2> QED
    BY <1>1, <2>1, <2>2, RaiseInv, SameFaults DEF files, Truthful, Promising
<1> QED
  BY <1>2, <1>3

LEMMA FinishMarkerInv ==
    ASSUME IInv, FinishMarker
    PROVE  IInv' /\ Truthful(out)'
<1>1. /\ TypeOK /\ run.pc = "finish" /\ UNCHANGED <<target, dir, faults, touched>>
      /\ dir = None /\ marker \in [BOOLEAN -> {None, "torn", "whole"}]
      /\ marker[TRUE] = None \/ marker[FALSE] = None
      /\ marker[TRUE] # None \/ marker[FALSE] # None
  BY Types DEF IInv, FinishMarker, Placed, Recorded
<1>2. PICK new \in BOOLEAN : new = (marker[TRUE] # None)
  OBVIOUS
<1>3. marker[~new] = None
  <2>1. CASE marker[TRUE] # None
    BY <1>1, <1>2, <2>1
  <2>2. CASE marker[TRUE] = None
    BY <1>1, <1>2, <2>2
  <2> QED
    BY <2>1, <2>2
<1>4. CASE marker[new] = "whole" /\ AllTargetsMatch(new)
  <2>1. marker' = [marker EXCEPT ![new] = None] /\ Exit(Outcome(new, "recover"))
    BY <1>2, <1>4 DEF FinishMarker
  <2>2. Outcome(new, "recover") \in Reports
    BY OutcomeType DEF Reports
  <2>3. IInv' /\ Quiet' /\ Whole(new)'
    BY <1>1, <1>3, <1>4, <2>1, <2>2, UnmarkInv
  <2>4. out' \in {"already_current", "complete"} <=> new
    BY <2>1, OutcomeType DEF Exit
  <2>5. CASE new
    BY <2>3, <2>4, <2>5 DEF Truthful, Promising
  <2>6. CASE ~new
    BY <2>3, <2>4, <2>6 DEF Truthful, Promising
  <2> QED
    BY <2>5, <2>6
<1>5. CASE ~(marker[new] = "whole" /\ AllTargetsMatch(new))
  <2>1. Exit("required") /\ UNCHANGED marker
    BY <1>2, <1>5 DEF FinishMarker
  <2>2. Truthful(out)'
    BY <2>1 DEF Exit, Truthful, Promising
  <2> QED
    BY <1>1, <2>1, <2>2, ExitInv, SameFaults DEF files, Reports
<1> QED
  BY <1>4, <1>5

LEMMA RemovePreparingInv ==
    ASSUME IInv, RemovePreparing
    PROVE  IInv' /\ (<<run, out>>' # <<run, out>> => Truthful(out)')
<1> USE DEF Preparing, Installing, Undoing, Cleaning, Marking, Emptying
<1>1. /\ TypeOK /\ run.pc = "unprepare" /\ UNCHANGED <<target, marker, faults, touched>>
      /\ dir \in Directories /\ Unpublished /\ Whole(FALSE)
      /\ marker[TRUE] = None /\ marker[FALSE] = None
  BY Types DEF IInv, RemovePreparing, Placed, Recorded, Before, Unpublished
<1>2. CASE dir.name = "preparing"
  <2>1. dir' = [dir EXCEPT !.name = "preparing_cleanup"] /\ UNCHANGED <<run, out>>
    BY <1>2 DEF RemovePreparing
  <2>2. dir' \in Directories /\ dir'.name = "preparing_cleanup" /\ dir'.slot = dir.slot
    BY <1>1, <2>1 DEF Directories
  <2>3. dir' # None /\ Unpublished' /\ AllOrNothing' /\ Doomed'
    BY <1>1, <2>2, DirectoryThere, Undoomed DEF Unpublished
  <2>4. TypeOK'
    BY <1>1, <2>1, <2>2, Types
  <2>5. Placed' /\ Recorded' /\ Before'
    BY <1>1, <2>1, <2>3 DEF Placed, Recorded, Before, Whole
  <2>6. Filled'
    BY <1>1, <2>1, <2>2, <2>3 DEF IInv, Filled, Unpublished
  <2> QED
    BY <2>1, <2>3, <2>4, <2>5, <2>6 DEF IInv
<1>3. CASE dir.name # "preparing"
  <2>1. dir' = None /\ Exit("recovered") /\ "recovered" \in Reports
    BY <1>3 DEF RemovePreparing, Reports
  <2>2. IInv'
    BY <1>1, <2>1, GoneInv
  <2>3. Quiet' /\ Whole(FALSE)' /\ out' = "recovered"
    BY <1>1, <2>1 DEF Quiet, Whole, Exit
  <2> QED
    BY <2>2, <2>3 DEF Truthful, Promising
<1> QED
  BY <1>2, <1>3

\* The owner writes or restores a file; no new file appears at its name.
LEMMA OwnerInv ==
    ASSUME IInv, NEW e \in Entries, Edit(e) \/ Restore(e)
    PROVE  IInv' /\ UNCHANGED <<run, out>>
<1> USE DEF Preparing, Installing, Undoing, Cleaning, Marking, Emptying
<1>1. PICK f \in Files \ {"new"} : target' = [target EXCEPT ![e] = f]
  <2>1. CASE Edit(e)
    BY <2>1 DEF Edit, Files
  <2>2. CASE Restore(e)
    BY <2>2 DEF Restore, Files
  <2> QED
    BY <2>1, <2>2
<1>2. /\ UNCHANGED <<dir, marker, run, out>> /\ e \in touched'
      /\ touched' \subseteq Entries /\ touched \subseteq touched'
      /\ TypeOK /\ target \in [Entries -> Files]
  BY Types DEF IInv, Edit, Restore
<1>3. faults' \in 0 .. MaxFaults
  BY <1>2, FaultType DEF Edit, Restore, IInv, TypeOK
<1>4. /\ target' \in [Entries -> Files] /\ target'[e] # "new"
      /\ \A d \in Entries \ {e} : target'[d] = target[d]
  BY <1>1, <1>2
<1>5. TypeOK'
  BY <1>2, <1>3, <1>4, Types
<1>6. Placed' /\ Recorded'
  BY <1>2 DEF IInv, Placed, Recorded, Unpublished
<1>7. Filled'
  BY <1>2, <1>4 DEF IInv, Filled, NoneNew, Unpublished
<1>8. \A d \in Entries : Spoiled(d) => Spoiled(d)'
  BY <1>2, <1>4 DEF Spoiled
<1>9. Doomed'
  BY <1>2, <1>8 DEF IInv, Doomed, NoneNew
<1>10. Whole(TRUE) => Whole(TRUE)'
  BY <1>2, <1>4 DEF Whole
<1>11. Whole(FALSE) => Whole(FALSE)'
  BY <1>2, <1>4 DEF Whole
<1>12. Before' /\ AllOrNothing'
  BY <1>2, <1>10, <1>11 DEF IInv, Before, AllOrNothing, Quiet, Unpublished
<1> QED
  BY <1>2, <1>5, <1>6, <1>7, <1>9, <1>12 DEF IInv

----------------------------------------------------------------------------
(* The theorems *)

LEMMA InitInv == Init => IInv
<1> SUFFICES ASSUME Init PROVE IInv
  OBVIOUS
<1>1. run.pc = "idle" /\ dir = None /\ marker[TRUE] = None /\ marker[FALSE] = None
  BY IdleType DEF Init
<1>2. TypeOK
  BY IdleType, EntryAssumption, Types DEF Init, Original, Files, Reports
<1>3. Placed /\ Recorded /\ Filled /\ Doomed /\ Before
  BY <1>1 DEF Placed, Recorded, Filled, Doomed, Before, Unpublished, Preparing, Installing,
              Undoing, Cleaning, Marking, Emptying
<1>4. AllOrNothing
  BY DEF Init, AllOrNothing, Whole
<1> QED
  BY <1>2, <1>3, <1>4 DEF IInv

LEMMA StepInv == IInv /\ [Next]_vars => IInv'
<1> SUFFICES ASSUME IInv, [Next]_vars PROVE IInv'
  OBVIOUS
<1>1. CASE Step
  BY <1>1, SnapshotInv, DiscardInv, WriteRecordInv, WriteSlotInv, PublishTransactionInv,
     CheckEntryInv, ExchangeEntryInv, VerifyEntryInv, CommitInv, CommitSyncedInv,
     RollbackEntryInv, UndoEntryInv, RolledBackInv, MarkInv, RenameTransactionInv,
     EmptySlotInv, RemoveRecordInv, RemoveDirectoryInv, RemoveMarkerInv, FinishMarkerInv,
     RemovePreparingInv DEF Step
<1>2. CASE UNCHANGED vars
  <2>1. UNCHANGED files /\ UNCHANGED <<run, out, faults>>
    BY <1>2 DEF vars, files
  <2>2. faults' \in 0 .. MaxFaults /\ run' \in Run /\ out' \in Reports
    BY <2>1, Types DEF IInv
  <2>3. Placed' /\ Recorded'
    BY <2>1 DEF IInv, Placed, Recorded, Unpublished, files
  <2>4. Filled'
    BY <2>1 DEF IInv, Filled, NoneNew, Unpublished, files
  <2>5. Doomed'
    BY <2>1 DEF IInv, Doomed, NoneNew, Spoiled, files
  <2>6. Before'
    BY <2>1 DEF IInv, Before, Unpublished, Whole, files
  <2> QED
    BY <2>1, <2>2, <2>3, <2>4, <2>5, <2>6, RunInv
<1> QED
  BY <1>1, <1>2, UpgradeInv, FaultInv, OwnerInv DEF Next

\* The inductive invariant holds, whatever fails and whatever the owner does
\* (lib/scaffold.ml, upgrade).
THEOREM ScaffoldInvariance == Spec => []IInv
BY InitInv, StepInv, PTL DEF Spec

\* The files, the transaction and the run of the command stay well formed.
THEOREM TypeCorrectness == Spec => []TypeOK
<1>1. IInv => TypeOK
  BY DEF IInv
<1> QED
  BY <1>1, ScaffoldInvariance, PTL

\* When nothing of a transaction is left, the generated files that the owner did
\* not write are all old or all new (perform, rollback, cleanup_transaction).
THEOREM Atomicity == Spec => []AllOrNothing
<1>1. IInv => AllOrNothing
  BY DEF IInv
<1> QED
  BY <1>1, ScaffoldInvariance, PTL

\* The end of a command that promises nothing.
LEMMA ExitSilent ==
    ASSUME NEW code \in Reports \ Promising, Exit(code)
    PROVE  Truthful(out)'
BY DEF Exit, Truthful, Promising

LEMMA RaiseSilent ==
    ASSUME IInv, Raise
    PROVE  Truthful(out)' \/ run'.pc # "idle"
<1>1. CASE GotoEntry("rollback", N)
  BY <1>1, GotoRun, Numbers DEF Labels
<1>2. CASE Exit("required") \/ Exit(Failure)
  BY <1>2, ExitSilent DEF Reports, Failure, Promising
<1> QED
  BY <1>1, <1>2 DEF Raise

LEMMA GotoSilent ==
    ASSUME IInv, NEW pc \in Labels \ {"idle"}, NEW i, Goto(pc) \/ GotoEntry(pc, i)
    PROVE  run'.pc # "idle"
BY Types DEF IInv, Run, Goto, GotoEntry

LEMMA CleanupSilent ==
    ASSUME NEW new, NEW by, StartCleanup(new, by)
    PROVE  run'.pc # "idle"
BY DEF StartCleanup, Idle

LEMMA StepTruthful ==
    ASSUME IInv, [Next]_vars, <<run, out>>' # <<run, out>>
    PROVE  Truthful(out)' \/ run'.pc # "idle"
<1> USE DEF Labels, Preparing, Installing, Reports, Promising
<1>1. CASE Upgrade
  <2>1. CASE Recover
    <3>1. run' = [Idle EXCEPT !.pc = "rollback", !.i = N, !.by = "recover"]
            => run'.pc # "idle"
      BY DEF Idle
    <3> QED
      BY <2>1, <3>1, ExitSilent, CleanupSilent DEF Recover
  <2>2. CASE dir = None /\ marker[TRUE] = None /\ marker[FALSE] = None /\ AllTargetsMatch(TRUE)
    <3>1. Quiet' /\ Whole(TRUE)' /\ Exit("already_current")
      BY <1>1, <2>2 DEF Upgrade, Quiet, Whole, AllTargetsMatch
    <3> QED
      BY <3>1 DEF Exit, Truthful, Promising
  <2> QED
    BY <1>1, <2>1, <2>2, ExitSilent, GotoSilent DEF Upgrade
<1>2. CASE \/ Snapshot \/ Discard \/ WriteRecord \/ WriteSlot \/ PublishTransaction
  BY <1>2, ExitSilent, GotoSilent
     DEF Snapshot, Discard, WriteRecord, WriteSlot, PublishTransaction
<1>3. CASE \/ CheckEntry \/ ExchangeEntry \/ VerifyEntry \/ Commit \/ CommitSynced
  BY <1>3, RaiseSilent, GotoSilent, CleanupSilent
     DEF CheckEntry, ExchangeEntry, VerifyEntry, Commit, CommitSynced
<1>4. CASE RollbackEntry
  <2>1. PcBelow(run.i) \in Labels \ {"idle"} /\ run \in Run
    BY Types DEF PcBelow, IInv
  <2>2. CASE Installed(run.i)
    BY <1>4, <2>2, GotoSilent DEF RollbackEntry
  <2>3. CASE ~Installed(run.i)
    BY <1>4, <2>1, <2>3 DEF RollbackEntry, Run
  <2> QED
    BY <2>2, <2>3
<1>5. CASE UndoEntry \/ RolledBack
  <2>1. PcBelow(run.i) \in Labels \ {"idle"}
    BY DEF PcBelow
  <2> QED
    BY <1>5, <2>1, ExitSilent, GotoSilent, CleanupSilent DEF UndoEntry, RolledBack
<1>6. CASE Mark \/ FillMarker \/ RenameTransaction \/ EmptySlot
  BY <1>6, RaiseSilent, GotoSilent DEF Mark, FillMarker, RenameTransaction, EmptySlot
<1>7. CASE RemoveCommitted \/ RemoveRecord \/ RemoveDirectory
  BY <1>7, RaiseSilent, GotoSilent DEF RemoveCommitted, RemoveRecord, RemoveDirectory
<1>8. CASE RemoveMarker \/ FinishMarker \/ RemovePreparing
  BY <1>8, RemoveMarkerInv, FinishMarkerInv, RemovePreparingInv
<1>9. CASE Crash \/ CallFails
  BY <1>9, ExitSilent, RaiseSilent DEF Crash, CallFails
<1>10. CASE \E e \in Entries : Edit(e) \/ Restore(e)
  BY <1>10, OwnerInv
<1>11. CASE UNCHANGED vars
  BY <1>11 DEF vars
<1> QED
  BY <1>1, <1>2, <1>3, <1>4, <1>5, <1>6, <1>7, <1>8, <1>9, <1>10, <1>11 DEF Next, Step

\* A command that reports "complete" has left all of the new scaffold, one that
\* reports "already_current" has found it, one that reports a rollback or a recovery
\* has left all of the old one, but for what the owner wrote, and none of them has
\* left anything of a transaction (upgrade, recover).
THEOREM Truthfulness == Spec => ReportsTrue
<1>1. IInv /\ [Next]_vars =>
        [run'.pc = "idle" /\ <<run, out>> # <<run, out>>' /\ out' \in Promising
           => Quiet' /\ IF out' \in {"already_current", "complete"}
                        THEN Whole(TRUE)' ELSE Whole(FALSE)']_vars
  BY StepTruthful DEF Truthful, Promising
<1> QED
  BY <1>1, ScaffoldInvariance, PTL DEF Spec, ReportsTrue

----------------------------------------------------------------------------
(* The files of the owner *)

\* A step that leaves the targets, and every slot in which there is a file of
\* the owner, destroys none.
LEMMA HeldInPlace ==
    ASSUME UNCHANGED target, NEW e \in Entries,
           dir # None /\ dir.slot[e] = "foreign" => dir' # None /\ dir'.slot[e] = "foreign"
    PROVE  Held(e)' >= Held(e)
BY DEF Held

\* The directory may go, or a slot be emptied, when none of them is in it.
LEMMA HeldWithout ==
    ASSUME UNCHANGED target, NEW e \in Entries, dir.slot[e] # "foreign"
    PROVE  Held(e)' >= Held(e)
BY HeldInPlace

LEMMA HeldUnmoved ==
    ASSUME UNCHANGED <<target, dir>>
    PROVE  \A e \in Entries : Held(e)' >= Held(e)
BY HeldInPlace

\* Another name, record or commit mark of the directory.
LEMMA HeldInSlots ==
    ASSUME UNCHANGED target, dir \in Directories, dir' \in Directories, dir'.slot = dir.slot
    PROVE  \A e \in Entries : Held(e)' >= Held(e)
BY HeldInPlace, NoneAssumption

\* The snapshot is taken of a tree with none of the owner's files.
LEMMA SnapshotKeeps ==
    ASSUME IInv, Snapshot
    PROVE  \A e \in Entries : Held(e)' >= Held(e)
<1>1. dir = None
  BY DEF IInv, Placed, Snapshot
<1>2. CASE Unmodified
  <2>1. \A e \in Entries : target[e] # "foreign"
    BY <1>2 DEF Unmodified
  <2>2. \A e \in Entries : Held(e) = 0
    BY <1>1, <2>1 DEF Held
  <2>3. \A e \in Entries : Held(e)' >= 0
    BY DEF Held
  <2> QED
    BY <2>2, <2>3
<1>3. CASE ~Unmodified
  BY <1>1, <1>3, HeldInPlace DEF Snapshot
<1> QED
  BY <1>2, <1>3

LEMMA PrepareKeeps ==
    ASSUME IInv, Discard \/ WriteRecord \/ WriteSlot \/ PublishTransaction \/ RemovePreparing
    PROVE  \A e \in Entries : Held(e)' >= Held(e)
<1> USE DEF Preparing, Installing, Undoing, Cleaning, Marking, Emptying
<1>1. /\ UNCHANGED target /\ dir \in Directories /\ dir.slot \in [Entries -> Files]
      /\ \A e \in Entries : dir.slot[e] # "foreign"
  <2>1. dir # None /\ UNCHANGED target
    BY DEF IInv, Placed, Unpublished, Discard, WriteRecord, WriteSlot, PublishTransaction,
           RemovePreparing
  <2>2. Unpublished \/ run.pc = "discarded"
    BY <2>1 DEF IInv, Placed, Unpublished, Discard, WriteRecord, WriteSlot,
                PublishTransaction, RemovePreparing
  <2>3. \A e \in Entries : dir.slot[e] \in {"absent", "new"}
    BY <2>1, <2>2 DEF IInv, Filled
  <2>4. dir \in Directories
    BY <2>1, Types DEF IInv
  <2> QED
    BY <2>1, <2>3, <2>4 DEF Directories
<1> QED
  BY <1>1, HeldWithout

\* A rename only moves a file between the target and its slot.
LEMMA RenameKeeps ==
    ASSUME IInv, ExchangeEntry \/ UndoEntry
    PROVE  \A e \in Entries : Held(e)' >= Held(e)
<1> USE DEF Preparing, Installing, Undoing, Cleaning, Marking, Emptying
<1>1. run.i \in Entries /\ dir \in Directories /\ target \in [Entries -> Files]
  BY Types DEF IInv, Placed, ExchangeEntry, UndoEntry
<1>2. CASE Exchange(run.i)
  <2>1. \A e \in Entries : Held(e)' = Held(e) /\ Held(e) \in Nat
    BY <1>1, <1>2, ExchangeFacts DEF Held
  <2> QED
    BY <2>1
<1>3. CASE UNCHANGED <<target, dir>>
  BY <1>3, HeldUnmoved
<1> QED
  BY <1>2, <1>3 DEF ExchangeEntry, UndoEntry

\* A cleanup empties the slots of the files that the outcome put aside alone.
LEMMA CleanupKeeps ==
    ASSUME IInv, EmptySlot \/ RemoveDirectory
    PROVE  \A e \in Entries : Held(e)' >= Held(e)
<1> USE DEF Preparing, Installing, Undoing, Cleaning, Marking, Emptying
<1>1. UNCHANGED target /\ dir \in Directories /\ dir.slot \in [Entries -> Files]
  <2>1. dir \in Directories
    BY CleaningFacts DEF EmptySlot, RemoveDirectory
  <2> QED
    BY <2>1 DEF EmptySlot, RemoveDirectory, Directories
<1>2. CASE UNCHANGED dir
  BY <1>1, <1>2, HeldUnmoved
<1>3. CASE EmptySlot /\ dir' # dir
  <2>1. /\ dir' = [dir EXCEPT !.slot[run.i] = "absent"]
        /\ dir.slot[run.i] = "absent" \/ Discardable(run.i)
    BY <1>3 DEF EmptySlot
  <2>2. /\ dir' \in Directories /\ dir'.slot = [dir.slot EXCEPT ![run.i] = "absent"]
        /\ dir.slot[run.i] # "foreign"
    BY <1>1, <2>1 DEF Directories, Files, Discardable
  <2>3. \A e \in Entries : dir.slot[e] = "foreign" => dir'.slot[e] = "foreign"
    BY <1>1, <2>2
  <2> QED
    BY <1>1, <2>2, <2>3, HeldInPlace, NoneAssumption
<1>4. CASE RemoveDirectory
  <2>1. \A e \in Entries : dir.slot[e] = "absent"
    BY <1>1, <1>4, NoneAssumption DEF IInv, Filled, RemoveDirectory
  <2> QED
    BY <1>1, <2>1, HeldWithout
<1> QED
  BY <1>2, <1>3, <1>4

\* The other steps leave the slots alone.
LEMMA RestKeeps ==
    ASSUME IInv, Commit \/ RenameTransaction \/ RemoveCommitted \/ RemoveRecord
    PROVE  \A e \in Entries : Held(e)' >= Held(e)
<1> USE DEF Preparing, Installing, Undoing, Cleaning, Marking, Emptying
<1>1. UNCHANGED target /\ dir \in Directories
  BY Types DEF IInv, Placed, Commit, RenameTransaction, RemoveCommitted, RemoveRecord
<1>2. CASE UNCHANGED dir
  BY <1>1, <1>2, HeldUnmoved
<1>3. CASE dir' # dir
  <2>1. \/ dir' = [dir EXCEPT !.committed = TRUE] \/ dir' = [dir EXCEPT !.name = "cleanup"]
        \/ dir' = [dir EXCEPT !.committed = FALSE] \/ dir' = [dir EXCEPT !.record = FALSE]
    BY <1>3 DEF Commit, RenameTransaction, RemoveCommitted, RemoveRecord
  <2>2. dir' \in Directories /\ dir'.slot = dir.slot
    BY <1>1, <2>1 DEF Directories
  <2> QED
    BY <1>1, <2>2, HeldInSlots
<1> QED
  BY <1>2, <1>3

LEMMA StepKeeps ==
    ASSUME IInv, [Next]_vars, run' # run
    PROVE  \A e \in Entries : Held(e)' >= Held(e)
<1>1. CASE \/ Upgrade \/ CheckEntry \/ VerifyEntry \/ CommitSynced \/ RollbackEntry \/ RolledBack
           \/ Mark \/ FillMarker \/ RemoveMarker \/ FinishMarker \/ Crash \/ CallFails
  BY <1>1, HeldUnmoved
     DEF Upgrade, CheckEntry, VerifyEntry, CommitSynced, RollbackEntry, RolledBack, Mark,
         FillMarker, RemoveMarker, FinishMarker, Crash, CallFails
<1>2. CASE \E e \in Entries : Edit(e) \/ Restore(e)
  BY <1>2, OwnerInv
<1>3. CASE UNCHANGED vars
  BY <1>3 DEF vars
<1> QED
  BY <1>1, <1>2, <1>3, SnapshotKeeps, PrepareKeeps, RenameKeeps, CleanupKeeps, RestKeeps
     DEF Next, Step

\* No step of the command destroys a file of the owner: it stays where it is, or
\* is put aside in a slot that no later command empties (rename_exchange_checked,
\* remove_recorded_file).
THEOREM OwnerFilesKept == Spec => ForeignKept
<1>1. IInv /\ [Next]_vars => [run' # run => \A e \in Entries : Held(e)' >= Held(e)]_vars
  BY StepKeeps
<1> QED
  BY <1>1, ScaffoldInvariance, PTL DEF Spec, ForeignKept
============================================================================
