------------------------------ MODULE Scaffold ------------------------------
(***************************************************************************)
(* `kb scaffold upgrade` (lib/scaffold.ml): the generated files of a       *)
(* repository are replaced one rename at a time, under a transaction kept  *)
(* in .clamp, which the next invocation completes or rolls back.           *)
(*                                                                         *)
(* Entries are numbered in the order of the record.  A file is what the    *)
(* recorded digest and inode tell about it: "old" and "new" are the files  *)
(* of the record, "copy" has the old contents in another inode, "foreign"  *)
(* is any other file.  Outside a transaction "old" and "copy" are alike.   *)
(* .clamp itself is private: only this program writes there.               *)
(***************************************************************************)
EXTENDS Naturals

CONSTANTS
  N,         \* the number of generated files
  Legacy,    \* those that replace a file of the old scaffold
  Hazards,   \* kinds of faults that happen
  MaxFaults, \* how many
  None

ASSUME EntryAssumption == N \in Nat \ {0} /\ Legacy \subseteq 1 .. N /\ MaxFaults \in Nat
VARIABLES
  target,  \* the generated files in the worktree
  dir,     \* the transaction directory in .clamp, or None
  marker,  \* the cleanup record (TRUE) and the rollback record (FALSE) in .clamp
  run,     \* the running command
  out,     \* what the last command reported
  faults,  \* faults that may still happen
  touched  \* history: entries the owner wrote since the transaction began

vars == <<target, dir, marker, run, out, faults, touched>>

----------------------------------------------------------------------------
(* Files *)

Entries == 1 .. N

Files == {"absent", "old", "copy", "new", "foreign"}

Directories ==
    [name : {"preparing", "preparing_cleanup", "transaction", "cleanup"},
     record : BOOLEAN, committed : BOOLEAN, slot : [Entries -> Files]]

ASSUME NoneAssumption == None \notin Directories \cup {"torn", "whole"}

Original(e) == IF e \in Legacy THEN "old" ELSE "absent"

\* Mutant of AllTargetsMatch: one file of the outcome is enough.
AnyTargetMatches(new) ==
    \E e \in Entries : target[e] = IF new THEN "new" ELSE Original(e)

\* all_targets_match
AllTargetsMatch(new) ==
    \A e \in Entries : target[e] = IF new THEN "new" ELSE Original(e)

\* legacy_conflicts, ensure_absent and the contents perform compares: the tree
\* holds the old scaffold.
Unmodified == \A e \in Entries :
    IF e \in Legacy THEN target[e] \in {"old", "copy"} ELSE target[e] = "absent"

----------------------------------------------------------------------------
(* The running command *)

Idle == [pc |-> "idle", i |-> 0, new |-> FALSE, by |-> "perform", bad |-> FALSE]

Goto(pc) == run' = [run EXCEPT !.pc = pc] /\ UNCHANGED out

GotoEntry(pc, i) == run' = [run EXCEPT !.pc = pc, !.i = i] /\ UNCHANGED out

Exit(code) == run' = Idle /\ out' = code

Fault(kind) == kind \in Hazards /\ faults > 0 /\ faults' = faults - 1

Preparing  == {"record", "slots", "publish"}
Installing == {"check", "exchange", "verify", "commit", "commit_sync"}

\* What recover and upgrade report of an exception, and perform after the commit.
Failure ==
    IF run.by = "perform" /\ run.new THEN "required"
    ELSE IF run.by = "recover_cleanup" \/ run.pc = "unprepare" THEN "foreign" ELSE "failed"

\* The exception handlers: of perform before and after the transaction is
\* published, and those after it is committed or rolled back.
Raise ==
    \/ run.pc \in Preparing  /\ Exit("required")
    \/ run.pc \in Installing /\ GotoEntry("rollback", N)
    \/ run.pc \notin Preparing \cup Installing /\ Exit(Failure)

StartCleanup(new, by) ==
    run' = [Idle EXCEPT !.pc = "mark", !.new = new, !.by = by] /\ UNCHANGED out

----------------------------------------------------------------------------
(* upgrade: dispatch on what an earlier command left in .clamp *)

\* Mutant of Committed: only the marker file counts, not the installed files.
MarkedCommitted == dir.committed

\* recover: COMMITTED is there, or every new file is.
Committed == dir.committed \/ AllTargetsMatch(TRUE)

\* recover: the record is in the transaction or, near the end of a cleanup,
\* beside it.
Recover ==
    IF ~dir.record /\ marker[TRUE] = None /\ marker[FALSE] = None THEN Exit("required")
    ELSE IF marker[FALSE] # None THEN
        IF AllTargetsMatch(FALSE) THEN StartCleanup(FALSE, "recover_cleanup") ELSE Exit("foreign")
    ELSE IF Committed THEN
        IF AllTargetsMatch(TRUE) THEN StartCleanup(TRUE, "recover_cleanup") ELSE Exit("foreign")
    ELSE run' = [Idle EXCEPT !.pc = "rollback", !.i = N, !.by = "recover"] /\ UNCHANGED out

\* upgrade takes the root lock, so that commands do not overlap.
Upgrade ==
    /\ run.pc = "idle"
    /\ IF dir # None THEN
           IF dir.name \in {"preparing", "preparing_cleanup"} THEN Goto("unprepare") ELSE Recover
       ELSE IF marker[TRUE] # None \/ marker[FALSE] # None THEN Goto("finish")
       ELSE IF AllTargetsMatch(TRUE) THEN Exit("already_current")
       ELSE IF Unmodified THEN Goto("snapshot")
       ELSE Exit("refused")
    /\ UNCHANGED <<target, dir, marker, faults, touched>>

----------------------------------------------------------------------------
(* perform: prepare *)

\* perform creates the directory and takes the snapshot that the record will
\* hold; files that changed since the dispatch make it give up.
Snapshot ==
    /\ run.pc = "snapshot"
    /\ dir' = [name |-> "preparing", record |-> FALSE, committed |-> FALSE,
               slot |-> [e \in Entries |-> "absent"]]
    /\ IF Unmodified
       THEN /\ target' = [e \in Entries |-> Original(e)]
            /\ touched' = {}
            /\ Goto("record")
       ELSE Goto("discard") /\ UNCHANGED <<target, touched>>
    /\ UNCHANGED <<marker, faults>>

\* The empty directory is renamed and removed.
Discard ==
    /\ run.pc \in {"discard", "discarded"}
    /\ IF run.pc = "discard"
       THEN dir' = [dir EXCEPT !.name = "cleanup"] /\ Goto("discarded")
       ELSE dir' = None /\ Exit("owner_modified")
    /\ UNCHANGED <<target, marker, faults, touched>>

WriteRecord ==
    /\ run.pc = "record"
    /\ dir' = [dir EXCEPT !.record = TRUE]
    /\ GotoEntry("slots", 1)
    /\ UNCHANGED <<target, marker, faults, touched>>

IsLast(i) == i = N

\* A slot is written and the record replaced by one with its inode.
WriteSlot ==
    /\ run.pc = "slots"
    /\ dir' = [dir EXCEPT !.slot[run.i] = "new"]
    /\ IF IsLast(run.i) THEN Goto("publish") ELSE GotoEntry("slots", run.i + 1)
    /\ UNCHANGED <<target, marker, faults, touched>>

PublishTransaction ==
    /\ run.pc = "publish"
    /\ dir' = [dir EXCEPT !.name = "transaction"]
    /\ GotoEntry("check", 1)
    /\ UNCHANGED <<target, marker, faults, touched>>

----------------------------------------------------------------------------
(* perform: install and commit *)

\* The validation of the checked rename, which can be out of date when the
\* rename happens.
CheckEntry ==
    /\ run.pc = "check"
    /\ IF target[run.i] = Original(run.i) /\ dir.slot[run.i] = "new"
       THEN Goto("exchange") ELSE Raise
    /\ UNCHANGED <<target, dir, marker, faults, touched>>

\* RENAME_EXCHANGE needs both files, RENAME_NOREPLACE a free name.
CanExchange(e) == IF e \in Legacy THEN target[e] # "absent" ELSE target[e] = "absent"

Exchange(e) ==
    /\ target' = [target EXCEPT ![e] = dir.slot[e]]
    /\ dir' = [dir EXCEPT !.slot[e] = target[e]]

ExchangeEntry ==
    /\ run.pc = "exchange"
    /\ IF CanExchange(run.i)
       THEN Exchange(run.i) /\ Goto("verify")
       ELSE Raise /\ UNCHANGED <<target, dir>>
    /\ UNCHANGED <<marker, faults, touched>>

Verified(e) == target[e] = "new" /\ (e \in Legacy => dir.slot[e] = "old")

VerifyEntry ==
    /\ run.pc = "verify"
    /\ IF ~Verified(run.i) THEN Raise
       ELSE IF IsLast(run.i) THEN Goto("commit") ELSE GotoEntry("check", run.i + 1)
    /\ UNCHANGED <<target, dir, marker, faults, touched>>

\* COMMITTED is created, then written and synced.
Commit ==
    /\ run.pc = "commit"
    /\ IF AllTargetsMatch(TRUE)
       THEN dir' = [dir EXCEPT !.committed = TRUE] /\ Goto("commit_sync")
       ELSE Raise /\ UNCHANGED dir
    /\ UNCHANGED <<target, marker, faults, touched>>

CommitSynced ==
    /\ run.pc = "commit_sync"
    /\ StartCleanup(TRUE, "perform")
    /\ UNCHANGED <<target, dir, marker, faults, touched>>
----------------------------------------------------------------------------
(* rollback, newest entry first *)

PcBelow(e) == IF e = 1 THEN "rolled" ELSE "rollback"

\* The entry holds exactly what the installation made of it, or what it was.
Installed(e) == target[e] = "new" /\ dir.slot[e] = Original(e)
Untouched(e) == target[e] = Original(e) /\ dir.slot[e] = "new"

RollbackEntry ==
    /\ run.pc = "rollback"
    /\ IF Installed(run.i) THEN Goto("undo")
       ELSE /\ run' = [run EXCEPT !.pc = PcBelow(run.i), !.i = run.i - 1,
                          !.bad = @ \/ ~Untouched(run.i)]
            /\ UNCHANGED out
    /\ UNCHANGED <<target, dir, marker, faults, touched>>

\* The rename after its validation: whatever is at the target moves.
UndoEntry ==
    /\ run.pc = "undo"
    /\ IF target[run.i] = "absent" THEN Exit("failed") /\ UNCHANGED <<target, dir>>
       ELSE Exchange(run.i) /\ GotoEntry(PcBelow(run.i), run.i - 1)
    /\ UNCHANGED <<marker, faults, touched>>

RolledBack ==
    /\ run.pc = "rolled"
    /\ IF ~run.bad /\ AllTargetsMatch(FALSE) THEN StartCleanup(FALSE, run.by) ELSE Exit("foreign")
    /\ UNCHANGED <<target, dir, marker, faults, touched>>

----------------------------------------------------------------------------
(* cleanup_transaction, after a commit (run.new) or a rollback *)

\* validate: the targets are those the outcome calls for.
Validate == AllTargetsMatch(run.new)

\* The record is copied beside the directory: the file is created, then filled.
Mark ==
    /\ run.pc = "mark"
    /\ \/ marker[run.new] = None /\ marker' = [marker EXCEPT ![run.new] = "torn"] /\ Goto("fill")
       \/ marker[run.new] = "whole" /\ Goto("rename") /\ UNCHANGED marker
       \/ marker[run.new] = "torn" /\ Raise /\ UNCHANGED marker
    /\ UNCHANGED <<target, dir, faults, touched>>

FillMarker ==
    /\ run.pc = "fill"
    /\ marker' = [marker EXCEPT ![run.new] = "whole"]
    /\ Goto("rename")
    /\ UNCHANGED <<target, dir, faults, touched>>

RenameTransaction ==
    /\ run.pc = "rename"
    /\ IF dir.name = "cleanup" THEN GotoEntry("empty", 1) /\ UNCHANGED dir
       ELSE IF Validate THEN dir' = [dir EXCEPT !.name = "cleanup"] /\ GotoEntry("empty", 1)
       ELSE Raise /\ UNCHANGED dir
    /\ UNCHANGED <<target, marker, faults, touched>>

\* Mutant of Discardable: a slot is emptied whatever it holds.
Anything(e) == TRUE

\* A slot is removed only if it holds the file that the outcome put aside.
Discardable(e) == dir.slot[e] = IF run.new /\ e \in Legacy THEN "old" ELSE "new"

EmptySlot ==
    /\ run.pc = "empty"
    /\ IF dir.slot[run.i] # "absent" /\ ~(Discardable(run.i) /\ Validate)
       THEN Raise /\ UNCHANGED dir
       ELSE /\ dir' = [dir EXCEPT !.slot[run.i] = "absent"]
            /\ IF IsLast(run.i) THEN Goto("uncommit") ELSE GotoEntry("empty", run.i + 1)
    /\ UNCHANGED <<target, marker, faults, touched>>

\* COMMITTED and then the record are removed, if an earlier cleanup left them.
RemoveCommitted ==
    /\ run.pc = "uncommit"
    /\ IF dir.committed /\ ~Validate THEN Raise /\ UNCHANGED dir
       ELSE dir' = [dir EXCEPT !.committed = FALSE] /\ Goto("unrecord")
    /\ UNCHANGED <<target, marker, faults, touched>>

RemoveRecord ==
    /\ run.pc = "unrecord"
    /\ IF dir.record /\ ~Validate THEN Raise /\ UNCHANGED dir
       ELSE dir' = [dir EXCEPT !.record = FALSE] /\ Goto("rmdir")
    /\ UNCHANGED <<target, marker, faults, touched>>

RemoveDirectory ==
    /\ run.pc = "rmdir"
    /\ IF Validate THEN dir' = None /\ Goto("unmark") ELSE Raise /\ UNCHANGED dir
    /\ UNCHANGED <<target, marker, faults, touched>>

\* Mutant of Outcome: what a recovery finished is taken for an upgrade.
OutcomeOfRerun(new, by) == IF by = "perform" /\ ~new THEN "rolled_back" ELSE "complete"

Outcome(new, by) ==
    IF new THEN "complete" ELSE IF by = "perform" THEN "rolled_back" ELSE "recovered"

RemoveMarker ==
    /\ run.pc = "unmark"
    /\ IF Validate THEN marker' = [marker EXCEPT ![run.new] = None] /\ Exit(Outcome(run.new, run.by))
       ELSE Raise /\ UNCHANGED marker
    /\ UNCHANGED <<target, dir, faults, touched>>

\* recover_cleanup_record: only the marker is left.
FinishMarker ==
    /\ run.pc = "finish"
    /\ LET new == marker[TRUE] # None IN
       IF marker[new] = "whole" /\ AllTargetsMatch(new)
       THEN marker' = [marker EXCEPT ![new] = None] /\ Exit(Outcome(new, "recover"))
       ELSE Exit("required") /\ UNCHANGED marker
    /\ UNCHANGED <<target, dir, faults, touched>>

\* recover_preparing: rename, then remove the tree.
RemovePreparing ==
    /\ run.pc = "unprepare"
    /\ IF dir.name = "preparing"
       THEN dir' = [dir EXCEPT !.name = "preparing_cleanup"] /\ UNCHANGED <<run, out>>
       ELSE dir' = None /\ Exit("recovered")
    /\ UNCHANGED <<target, marker, faults, touched>>

----------------------------------------------------------------------------
(* Faults and the owner *)

\* The process is killed; between the creation of a marker and its contents
\* this leaves a torn one.
Crash ==
    /\ run.pc # "idle"
    /\ Fault(IF run.pc = "fill" THEN "tear" ELSE "crash")
    /\ Exit("crashed")
    /\ UNCHANGED <<target, dir, marker, touched>>

\* A system call fails: of perform, of a rollback, of recover or of the cleanup.
CallFails ==
    /\ run.pc # "idle" /\ Fault("io")
    /\ Raise
    /\ UNCHANGED <<target, dir, marker, touched>>

\* The owner replaces or removes a generated file.
Edit(e) ==
    /\ Fault("edit")
    /\ \E f \in {"foreign", "absent"} \ {target[e]} : target' = [target EXCEPT ![e] = f]
    /\ touched' = touched \cup {e}
    /\ UNCHANGED <<dir, marker, run, out>>

\* The owner goes back to the committed file.
Restore(e) ==
    /\ run.pc = "idle" /\ e \in touched
    /\ LET f == IF e \in Legacy THEN "copy" ELSE "absent" IN
       target[e] # f /\ target' = [target EXCEPT ![e] = f]
    /\ UNCHANGED <<dir, marker, run, out, faults, touched>>

----------------------------------------------------------------------------
(* The specification *)

Init ==
    /\ target = [e \in Entries |-> Original(e)]
    /\ dir = None /\ marker = [new \in BOOLEAN |-> None]
    /\ run = Idle /\ out = "none"
    /\ faults = MaxFaults /\ touched = {}

Step ==
    \/ Snapshot \/ Discard \/ WriteRecord \/ WriteSlot \/ PublishTransaction
    \/ CheckEntry \/ ExchangeEntry \/ VerifyEntry \/ Commit \/ CommitSynced
    \/ RollbackEntry \/ UndoEntry \/ RolledBack
    \/ Mark \/ FillMarker \/ RenameTransaction \/ EmptySlot \/ RemoveCommitted
    \/ RemoveRecord \/ RemoveDirectory \/ RemoveMarker
    \/ FinishMarker \/ RemovePreparing

Next ==
    \/ Upgrade \/ Step \/ Crash \/ CallFails
    \/ \E e \in Entries : Edit(e) \/ Restore(e)

Spec == Init /\ [][Next]_vars

\* A started command proceeds, and the command is run again.
FairSpec == Spec /\ WF_vars(Step) /\ WF_vars(Upgrade)

----------------------------------------------------------------------------
(* Properties *)

Labels ==
    {"idle", "snapshot", "discard", "discarded", "rollback", "undo", "rolled", "mark",
     "fill", "rename", "empty", "uncommit", "unrecord", "rmdir", "unmark", "finish",
     "unprepare"} \cup Preparing \cup Installing

TypeOK ==
    /\ target \in [Entries -> Files]
    /\ dir \in Directories \cup {None}
    /\ marker \in [BOOLEAN -> {None, "torn", "whole"}]
    /\ run \in [pc : Labels, i : 0 .. N, new : BOOLEAN, bad : BOOLEAN,
                by : {"perform", "recover", "recover_cleanup"}]
    /\ out \in {"none", "crashed", "refused", "owner_modified", "required", "foreign",
                "failed", "already_current", "complete", "rolled_back", "recovered"}
    /\ faults \in 0 .. MaxFaults /\ touched \subseteq Entries

\* Nothing of a transaction is left for a later command.
Quiet == dir = None /\ \A new \in BOOLEAN : marker[new] = None

\* What is not the owner's doing is all new or all old.
Whole(new) ==
    \A e \in Entries \ touched : target[e] = IF new THEN "new" ELSE Original(e)

\* When nothing is left of a transaction, the generated files are all of the
\* new or all of the old scaffold (perform, rollback, cleanup_transaction),
\* but for those the owner wrote.
AllOrNothing == Quiet => Whole(TRUE) \/ Whole(FALSE)

\* The reports that promise something.
Promising == {"already_current", "complete", "rolled_back", "recovered"}

\* A report is true when it is made: "complete" and "already_current" of the new
\* scaffold, a rollback of the old one, and nothing of the transaction is left.
ReportsTrue ==
    [][run'.pc = "idle" /\ <<run, out>> # <<run, out>>' /\ out' \in Promising
         => Quiet' /\ IF out' \in {"already_current", "complete"}
                      THEN Whole(TRUE)' ELSE Whole(FALSE)']_vars

\* The copies of the owner's files that exist at a name.
Held(e) ==
    (IF target[e] = "foreign" THEN 1 ELSE 0)
    + (IF dir # None THEN IF dir.slot[e] = "foreign" THEN 1 ELSE 0 ELSE 0)

\* A file of the owner is never destroyed by the command: it stays, or is put
\* aside in a slot that no later command empties (rename_exchange_checked,
\* remove_recorded_file).
ForeignKept == [][run' # run => \A e \in Entries : Held(e)' >= Held(e)]_vars

\* Nobody else writes the files.
Undisturbed == [](touched = {})

\* No command was killed while it wrote a marker, and none had to roll back
\* because COMMITTED, which it had created, could not be synced.
Untorn ==
    /\ \A new \in BOOLEAN : marker[new] = "torn" => run.pc = "fill"
    /\ run.pc = "rollback" => ~dir.committed

\* An interrupted upgrade is completed or rolled back by rerunning the command,
\* wherever it was interrupted, but for the two places Untorn excludes.
RecoveryEnds == Undisturbed /\ []Untorn => []<>Quiet
=============================================================================
