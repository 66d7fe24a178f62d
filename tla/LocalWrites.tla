---------------------------- MODULE LocalWrites ----------------------------
(***************************************************************************)
(* The paired write of a task and of the generated TODO.md, and `kb todo`  *)
(* (lib/local.ml).  Files are prepared in a private transaction directory, *)
(* and installed one rename at a time over files that editors, which know  *)
(* nothing of Clamp's lock, may replace between any check and its rename.  *)
(*                                                                         *)
(* A file is what its inode tells the running command: "old" is the one it *)
(* took a snapshot of, "new" the one it prepared, "foreign" any other.     *)
(* The rest of knowledge/ and clamp.yaml is one input, which an editor     *)
(* moves.  The transaction directory is private to the program.            *)
(***************************************************************************)
EXTENDS Naturals, FiniteSets

CONSTANTS
  Hazards,   \* kinds of faults that happen
  MaxFaults  \* how many

ASSUME FaultAssumption == MaxFaults \in Nat

VARIABLES
  public,   \* the task file and TODO.md in the worktree
  held,     \* the private file of each target: prepared, or captured from its name
  aside,    \* what else was captured from it ("displaced-", "rollback-")
  run,      \* the running or the last command
  out,      \* its report
  moved,    \* the other inputs changed since the command captured them
  shows,    \* the task file whose tasks the old and the new TODO.md show
  strays,   \* foreign files in the directories that earlier commands left
  touched,  \* targets that an editor wrote since the command began
  faults    \* faults that may still happen

vars == <<public, held, aside, run, out, moved, shows, strays, touched, faults>>

worktree == <<public, held, aside>>
inputs   == <<moved, shows>>
history  == <<strays, touched, faults>>

Targets == {"task", "todo"}

\* TODO.md shows the tasks there are.
Agrees ==
    /\ ~moved /\ public["todo"] \in {"old", "new"}
    /\ public["task"] = shows[public["todo"]]

Fault(kind) == kind \in Hazards /\ faults > 0 /\ faults' = faults - 1

----------------------------------------------------------------------------
(* Checks and renames *)

\* register_semantic_read_set: clamp.yaml and the rest of knowledge/ are what
\* the command has read.
OthersMatch == ~moved

\* task_input_gate_matches, by the phase of the command, and what else was read.
\* A mismatch is remembered (input_sticky).
InputsMatch ==
    /\ ~run.sticky /\ OthersMatch
    /\ public["task"] \in
        CASE run.phase \in {"initial", "restored"} -> {run.expect}
          [] run.phase = "transition"              -> {run.expect, "new"}
          [] run.phase = "committed"               -> {"new"}
          [] run.phase = "rollback"                -> {run.expect, "new", "absent"}

\* final_public_gate: the inputs are checked first, then what the rename or
\* the removal is about.  What was checked can change before the rename.
Gated(exact, then, else) ==
    IF InputsMatch /\ exact THEN run' = then
    ELSE run' = [else EXCEPT !.sticky = @ \/ ~InputsMatch]

At(pc) == [run EXCEPT !.pc = pc]

Place(f, t, file) == [f EXCEPT ![t] = file]

\* Mutant of Free: a rename that replaces what is there.
Any(t) == TRUE

\* RENAME_NOREPLACE to the public name.
Free(t) == public[t] = "absent"

\* Mutant of Witnessed: the initial state is let go without a witness.
Unwitnessed(t, r) == r

\* register_initial_state_witness, register_install_rollback_witness: at the
\* end the public name must hold what it held at the start.
Witnessed(t, r) == [r EXCEPT !.witnessed = @ \cup {t}]

----------------------------------------------------------------------------
(* Commands: capturing the inputs *)

Idle ==
    [pc |-> "idle", cmd |-> "todo", t |-> "todo", orig |-> [t \in Targets |-> "absent"],
     expect |-> "absent", phase |-> "initial", sticky |-> FALSE, receipts |-> {},
     rest |-> "none", bad |-> FALSE, result |-> "error", witnessed |-> {}]

Installs(r) == IF r.cmd = "write" THEN Targets ELSE {"todo"}

Foreign(f) == Cardinality({t \in Targets : f[t] = "foreign"})

\* The files of earlier commands are old now.
Aged(file) == IF file = "new" THEN "old" ELSE file

\* create_transaction: a directory of the command's own; what an earlier one
\* retained stays where it is.
OwnDirectory ==
    /\ strays' = strays + Foreign(held) + Foreign(aside)
    /\ held' = [t \in Targets |-> "absent"] /\ aside' = [t \in Targets |-> "absent"]

\* mutate, transition and todo take the exclusive lock.
Begin(cmd) ==
    /\ run.pc = "idle"
    /\ run' = [Idle EXCEPT !.cmd = cmd, !.pc = IF cmd = "write" THEN "open" ELSE "capture"]
    /\ public' = [t \in Targets |-> Aged(public[t])]
    /\ shows' = [old |-> IF Agrees THEN Aged(public["task"]) ELSE "other", new |-> "other"]
    /\ moved' = FALSE /\ touched' = {}
    /\ OwnDirectory
    /\ out' = "running"
    /\ UNCHANGED faults

\* A file that an editor wrote counts as old once it is read.
Read(t) ==
    /\ public' = Place(public, t, IF public[t] = "absent" THEN "absent" ELSE "old")
    /\ shows' = IF public[t] = "foreign" THEN [shows EXCEPT !.old = "other"] ELSE shows

\* open_retained_concept: the snapshot of the task to be changed.
OpenTask ==
    /\ run.pc = "open"
    /\ Read("task")
    /\ run' = [At("capture") EXCEPT !.orig["task"] = public'["task"]]
    /\ UNCHANGED <<held, aside, out, moved, history>>

\* render_todo: the captured tasks, with the changed one in its new form.
Rendered(cmd, expect) == IF cmd = "write" THEN "new" ELSE expect

\* capture_task_input.  For a write the task file may differ from its snapshot.
CaptureInput ==
    /\ run.pc = "capture"
    /\ IF run.cmd = "write" THEN UNCHANGED <<public, moved>> ELSE
          /\ public' = Place(public, "task", IF public["task"] = "absent" THEN "absent" ELSE "old")
          /\ moved' = FALSE
    /\ shows' = [old |-> IF run.cmd = "todo" /\ (moved \/ public["task"] = "foreign")
                         THEN "other" ELSE shows.old,
                 new |-> Rendered(run.cmd, public'["task"])]
    /\ run' = [At("snapshot") EXCEPT !.expect = public'["task"]]
    /\ UNCHANGED <<held, aside, out, history>>

\* snapshot_private of TODO.md.
SnapshotTodo ==
    /\ run.pc = "snapshot"
    /\ Read("todo")
    /\ run' = [At(IF run.cmd = "write" THEN "prepare" ELSE "prepare_todo")
                  EXCEPT !.orig["todo"] = public'["todo"]]
    /\ UNCHANGED <<held, aside, out, moved, history>>

----------------------------------------------------------------------------
(* Undoing: what is left to do after a target failed *)

\* remove_transaction and the completion witnesses follow.
Conclude(r, result) ==
    [r EXCEPT !.pc = "close", !.result = IF r.bad THEN "uncertain" ELSE result]

NextJob(r) ==
    CASE r.rest = "none"      -> Conclude(r, "error")
      [] r.rest = "drop_todo" -> [r EXCEPT !.pc = "drop", !.t = "todo", !.rest = "none"]
      [] r.rest = "undo_task" -> [r EXCEPT !.pc = "undo", !.t = "task", !.rest = "none",
                                           !.phase = "rollback"]

Bad(r) == NextJob([r EXCEPT !.bad = TRUE])

\* Install_failed: the target is rolled back if it was installed, and only let
\* go otherwise; then a failed TODO.md takes the task back, and a failed task
\* drops the prepared TODO.md (fail_before_todo).
InstallFailed(r, installed) ==
    [r EXCEPT !.pc = IF installed THEN "undo" ELSE "drop",
              !.phase = IF installed /\ r.t = "task" THEN "rollback" ELSE @,
              !.rest = CASE r.cmd = "todo" -> "none"
                         [] r.t = "task"   -> "drop_todo"
                         [] OTHER          -> "undo_task"]

\* on_rollback
RolledBack(r) ==
    NextJob(Witnessed(r.t, [r EXCEPT !.phase = IF r.t = "task" THEN "restored" ELSE @]))

----------------------------------------------------------------------------
(* Preparing and installing *)

\* prepare_private_file, and validate_task_input before the next one.  Inputs
\* that moved make the removal of the private file fail as well.
PrepareTask ==
    /\ run.pc = "prepare"
    /\ held' = Place(held, "task", "new")
    /\ LET r == [run EXCEPT !.phase = "transition"] IN
       Gated(TRUE, [r EXCEPT !.pc = "prepare_todo"],
             Conclude([r EXCEPT !.bad = TRUE, !.witnessed = Targets], "error"))
    /\ UNCHANGED <<public, aside, out, inputs, history>>

PrepareTodo ==
    /\ run.pc = "prepare_todo"
    /\ held' = Place(held, "todo", "new")
    /\ run' = [At("gate") EXCEPT !.t = IF run.cmd = "write" THEN "task" ELSE "todo"]
    /\ UNCHANGED <<public, aside, out, inputs, history>>

\* install_private up to the validation of its rename.
GateInstall ==
    /\ run.pc = "gate"
    /\ Gated(public[run.t] = run.orig[run.t], At("rename"), InstallFailed(run, FALSE))
    /\ UNCHANGED <<worktree, out, inputs, history>>

\* The exchange leaves the file of the snapshot, or its successor, behind.
Receipt(t) == IF run.orig[t] = "old" THEN {t} ELSE {}

\* Mutant of Installable: every target is exchanged.
AlwaysExchanges(t) == public[t] # "absent"

\* RENAME_NOREPLACE for a file that is to be created, else RENAME_EXCHANGE.
Installable(t) == IF run.orig[t] = "absent" THEN Free(t) ELSE public[t] # "absent"

Install ==
    /\ run.pc = "rename"
    /\ LET t == run.t IN
       IF Installable(t)
       THEN /\ public' = Place(public, t, "new")
            /\ held' = Place(held, t, IF run.orig[t] = "absent" THEN "absent" ELSE public[t])
            /\ run' = [At("verify") EXCEPT !.receipts = @ \cup Receipt(t)]
       ELSE run' = InstallFailed(run, FALSE) /\ UNCHANGED <<public, held>>
    /\ UNCHANGED <<aside, out, inputs, history>>

\* Mutant of Installed: the receipt of the task is removed before the TODO.md
\* is installed.
ClearedEarly(r) ==
    IF r.t = "task" THEN [r EXCEPT !.pc = "clear", !.phase = "committed"]
    ELSE [r EXCEPT !.pc = IF r.cmd = "write" THEN "confirm" ELSE "clear"]

\* Install_ok
Installed(r) ==
    IF r.t = "task" THEN [r EXCEPT !.t = "todo", !.pc = "gate", !.phase = "committed"]
    ELSE [r EXCEPT !.pc = IF r.cmd = "write" THEN "confirm" ELSE "clear"]

\* The checks after the rename: the requested file is public and the captured
\* one is that of the snapshot.
VerifyInstall ==
    /\ run.pc = "verify"
    /\ LET t == run.t IN
       run' = IF public[t] # "new" THEN InstallFailed(run, TRUE)
              ELSE IF held[t] = run.orig[t] THEN Installed(run) ELSE At("displace")
    /\ UNCHANGED <<worktree, out, inputs, history>>

----------------------------------------------------------------------------
(* install_private: the exchange captured a file that nobody had read *)

\* The captured file makes room for the requested one, within the directory.
Displace ==
    /\ run.pc = "displace"
    /\ Gated(TRUE, At("recapture"), InstallFailed(run, TRUE))
    /\ IF run'.pc = "recapture"
       THEN aside' = Place(aside, run.t, held[run.t]) /\ held' = Place(held, run.t, "absent")
       ELSE UNCHANGED <<aside, held>>
    /\ UNCHANGED <<public, out, inputs, history>>

GateRecapture ==
    /\ run.pc = "recapture"
    /\ Gated(public[run.t] = "new", At("take"), InstallFailed(run, TRUE))
    /\ UNCHANGED <<worktree, out, inputs, history>>

\* Whatever has the public name by now is captured.
Recapture ==
    /\ run.pc = "take"
    /\ IF public[run.t] = "absent"
       THEN run' = InstallFailed(run, TRUE) /\ UNCHANGED <<public, held>>
       ELSE /\ held' = Place(held, run.t, public[run.t])
            /\ public' = Place(public, run.t, "absent")
            /\ run' = [At("return") EXCEPT !.receipts = @ \ {run.t}]
    /\ UNCHANGED <<aside, out, inputs, history>>

GateReturn ==
    /\ run.pc = "return"
    /\ Gated(Free(run.t), At("replace"), InstallFailed(run, TRUE))
    /\ UNCHANGED <<worktree, out, inputs, history>>

\* The newest foreign file goes back, unless the name is taken again.
Return ==
    /\ run.pc = "replace"
    /\ LET t == run.t IN
       IF ~Free(t) THEN UNCHANGED worktree
       ELSE IF held[t] = "new"
       THEN public' = Place(public, t, aside[t]) /\ aside' = Place(aside, t, "absent") /\ UNCHANGED held
       ELSE public' = Place(public, t, held[t]) /\ held' = Place(held, t, "absent") /\ UNCHANGED aside
    /\ run' = InstallFailed(run, TRUE)
    /\ UNCHANGED <<out, inputs, history>>

----------------------------------------------------------------------------
(* Letting go of what was not installed, and rollback_install *)

\* release_initial_state and remove_private of the prepared file.
Drop ==
    /\ run.pc = "drop"
    /\ LET r == Witnessed(run.t, run) IN Gated(TRUE, NextJob(r), Bad(r))
    /\ held' = IF InputsMatch THEN Place(held, run.t, "absent") ELSE held
    /\ UNCHANGED <<public, aside, out, inputs, history>>

\* What was installed is still there, and so is what it replaced.
Undoable(t) ==
    /\ public[t] = "new"
    /\ run.orig[t] = "old" => t \in run.receipts /\ held[t] = "old"

GateUndo ==
    /\ run.pc = "undo"
    /\ IF Undoable(run.t) THEN Gated(TRUE, At("undo_take"), Bad(run)) ELSE run' = Bad(run)
    /\ UNCHANGED <<worktree, out, inputs, history>>

\* The rename after its validation: whatever is at the public name is taken.
UndoTake ==
    /\ run.pc = "undo_take"
    /\ LET t == run.t IN
       IF public[t] = "absent" THEN run' = Bad(run) /\ UNCHANGED worktree
       ELSE /\ public' = Place(public, t, "absent")
            /\ IF run.orig[t] = "absent"
               THEN held' = Place(held, t, public[t]) /\ UNCHANGED aside
               ELSE aside' = Place(aside, t, public[t]) /\ UNCHANGED held
            /\ run' = At("undo_check")
    /\ UNCHANGED <<out, inputs, history>>

\* A created file is removed, or put back by restore_foreign_capture if it is
\* not the one that was created.
UndoCreated ==
    /\ run.pc = "undo_check" /\ run.orig[run.t] = "absent"
    /\ IF held[run.t] = "new"
       THEN /\ Gated(TRUE, IF Free(run.t) THEN RolledBack(run) ELSE Bad(run), Bad(run))
            /\ held' = IF InputsMatch THEN Place(held, run.t, "absent") ELSE held
       ELSE Gated(Free(run.t), At("undo_return"), Bad(run)) /\ UNCHANGED held
    /\ UNCHANGED <<public, aside, out, inputs, history>>

UndoReturn ==
    /\ run.pc = "undo_return"
    /\ IF Free(run.t)
       THEN public' = Place(public, run.t, held[run.t]) /\ held' = Place(held, run.t, "absent")
       ELSE UNCHANGED <<public, held>>
    /\ run' = Bad(run)
    /\ UNCHANGED <<aside, out, inputs, history>>

\* The snapshot goes back to the name that the installed file was taken from.
\* If another file was taken, the rename that is to put it back asks whether
\* it is the installed one, and is not made.
UndoReplaced ==
    /\ run.pc = "undo_check" /\ run.orig[run.t] = "old"
    /\ Gated(aside[run.t] = "new" /\ Free(run.t), At("undo_restore"), Bad(run))
    /\ UNCHANGED <<worktree, out, inputs, history>>

UndoRestore ==
    /\ run.pc = "undo_restore"
    /\ IF Free(run.t)
       THEN /\ public' = Place(public, run.t, held[run.t])
            /\ held' = Place(held, run.t, "absent")
            /\ run' = [At("undo_clean") EXCEPT !.receipts = @ \ {run.t}]
       ELSE run' = Bad(run) /\ UNCHANGED <<public, held>>
    /\ UNCHANGED <<aside, out, inputs, history>>

UndoClean ==
    /\ run.pc = "undo_clean"
    /\ Gated(TRUE, IF public[run.t] = "old" THEN RolledBack(run) ELSE Bad(run), Bad(run))
    /\ aside' = IF InputsMatch THEN Place(aside, run.t, "absent") ELSE aside
    /\ UNCHANGED <<public, held, out, inputs, history>>

----------------------------------------------------------------------------
(* Both installed *)

AllNew == \A t \in Installs(run) : public[t] = "new"

\* installed_valid; the witnesses for a success are implied by the result.
Confirm ==
    /\ run.pc = "confirm"
    /\ Gated(AllNew, [At("clear") EXCEPT !.t = "task"], InstallFailed(run, TRUE))
    /\ UNCHANGED <<worktree, out, inputs, history>>

AfterClear(r) == IF r.t = "task" THEN [r EXCEPT !.t = "todo"] ELSE [r EXCEPT !.pc = "settle"]

\* remove_snapshot_receipt of one target and then of the other.
Clear ==
    /\ run.pc = "clear"
    /\ IF run.orig[run.t] = "old"
       THEN /\ Gated(held[run.t] = "old", AfterClear(run), AfterClear(run))
            /\ held' = IF InputsMatch THEN Place(held, run.t, "absent") ELSE held
       ELSE run' = AfterClear(run) /\ UNCHANGED held
    /\ UNCHANGED <<public, aside, out, inputs, history>>

\* The end of paired_task_write_private, and of finish_install, which rolls
\* back where the paired write gives up.
Settle ==
    /\ run.pc = "settle"
    /\ LET settled == AllNew /\ \A t \in Targets : held[t] = "absent" IN
       IF run.cmd = "write"
       THEN run' = IF settled THEN Conclude(run, "ok") ELSE Conclude(run, "uncertain")
       ELSE Gated(settled, Conclude(run, "ok"), InstallFailed(run, TRUE))
    /\ UNCHANGED <<worktree, out, inputs, history>>

----------------------------------------------------------------------------
(* with_transaction: removal of the directory, witnesses, report *)

Exit(report) == run' = At("idle") /\ out' = report

\* remove_transaction; its parts check the inputs again.
Close ==
    /\ run.pc \in {"close", "rmdir"}
    /\ IF InputsMatch /\ \A t \in Targets : held[t] = "absent" /\ aside[t] = "absent"
       THEN run' = At(IF run.pc = "close" THEN "rmdir" ELSE "report") /\ UNCHANGED out
       ELSE Exit("uncertain")
    /\ UNCHANGED <<worktree, inputs, history>>

\* The completion witnesses: those of the result, of the inputs and of what
\* was rolled back or let go.
WitnessesHold ==
    /\ ~run.sticky /\ OthersMatch
    /\ public["task"] = IF run.phase = "committed" THEN "new" ELSE run.expect
    /\ run.result = "ok" => AllNew
    /\ \A t \in run.witnessed : public[t] = run.orig[t]

Report ==
    /\ run.pc = "report"
    /\ Exit(IF WitnessesHold THEN run.result ELSE "uncertain")
    /\ UNCHANGED <<worktree, inputs, history>>

----------------------------------------------------------------------------
(* Faults and editors *)

\* A system call fails, and fails again when it is retried.
CallFails ==
    /\ Fault("io")
    /\ \/ /\ run.pc = "prepare"
          /\ run' = Conclude([run EXCEPT !.witnessed = Targets], "error")
       \/ /\ run.pc = "prepare_todo"
          /\ run' = IF run.cmd = "write"
                    THEN [At("drop") EXCEPT !.t = "task", !.witnessed = Targets]
                    ELSE Conclude(Witnessed("todo", run), "error")
       \/ run.pc = "rename" /\ run' = InstallFailed(run, FALSE)
       \/ run.pc \in {"verify", "displace", "take", "replace"} /\ run' = InstallFailed(run, TRUE)
       \/ run.pc \in {"drop", "undo_take", "undo_return", "undo_restore", "undo_clean"}
            /\ run' = Bad(IF run.pc = "drop" THEN Witnessed(run.t, run) ELSE run)
       \/ run.pc = "clear" /\ run.orig[run.t] = "old" /\ run' = AfterClear(run)
       \/ run.pc = "rmdir" /\ run' = At("idle")
    /\ out' = IF run.pc = "rmdir" THEN "uncertain" ELSE out
    /\ UNCHANGED <<worktree, inputs, strays, touched>>

\* The process is killed; there is no recovery, the directory stays.
Crash ==
    /\ run.pc # "idle" /\ Fault("crash")
    /\ Exit("crashed")
    /\ UNCHANGED <<worktree, inputs, strays, touched>>

\* An editor replaces or removes a target.
Edit(t) ==
    /\ Fault("edit")
    /\ \E f \in {"foreign", "absent"} \ {public[t]} : public' = Place(public, t, f)
    /\ touched' = touched \cup {t}
    /\ UNCHANGED <<held, aside, run, out, inputs, strays>>

\* Another task, a directory or clamp.yaml changes.
EditOther ==
    /\ Fault("edit") /\ ~moved
    /\ moved' = TRUE
    /\ UNCHANGED <<worktree, run, out, shows, strays, touched>>

----------------------------------------------------------------------------
(* The specification *)

Init ==
    /\ public \in [Targets -> {"absent", "old"}]
    /\ held = [t \in Targets |-> "absent"] /\ aside = [t \in Targets |-> "absent"]
    /\ run = Idle /\ out = "none" /\ moved = FALSE
    /\ shows \in {[old |-> f, new |-> "other"] : f \in {public["task"], "other"}}
    /\ strays = 0 /\ touched = {} /\ faults = MaxFaults

Step ==
    \/ OpenTask \/ CaptureInput \/ SnapshotTodo \/ PrepareTask \/ PrepareTodo
    \/ GateInstall \/ Install \/ VerifyInstall
    \/ Displace \/ GateRecapture \/ Recapture \/ GateReturn \/ Return
    \/ Drop \/ GateUndo \/ UndoTake \/ UndoCreated \/ UndoReturn
    \/ UndoReplaced \/ UndoRestore \/ UndoClean
    \/ Confirm \/ Clear \/ Settle \/ Close \/ Report

Next ==
    \/ \E cmd \in {"write", "todo"} : Begin(cmd)
    \/ Step \/ CallFails \/ Crash \/ EditOther
    \/ \E t \in Targets : Edit(t)

Spec == Init /\ [][Next]_vars

\* A started command proceeds, and somebody runs `kb todo` now and then.
FairSpec == Spec /\ WF_vars(Step) /\ SF_vars(Begin("todo"))

----------------------------------------------------------------------------
(* Properties *)

Files == {"absent", "old", "new", "foreign"}

Labels ==
    {"idle", "open", "capture", "snapshot", "prepare", "prepare_todo", "gate", "rename",
     "verify", "displace", "recapture", "take", "return", "replace", "drop", "undo",
     "undo_take", "undo_check", "undo_return", "undo_restore", "undo_clean", "confirm",
     "clear", "settle", "close", "rmdir", "report"}

\* Types; a receipt is kept only for a file that had a snapshot.
TypeOK ==
    /\ public \in [Targets -> Files] /\ held \in [Targets -> Files]
    /\ aside \in [Targets -> Files]
    /\ run \in [pc : Labels, cmd : {"write", "todo"}, t : Targets,
                orig : [Targets -> {"absent", "old"}], expect : Files,
                phase : {"initial", "transition", "committed", "rollback", "restored"},
                sticky : BOOLEAN, receipts : SUBSET Targets, bad : BOOLEAN,
                rest : {"none", "drop_todo", "undo_task"},
                result : {"ok", "error", "uncertain"}, witnessed : SUBSET Targets]
    /\ out \in {"none", "running", "ok", "error", "uncertain", "crashed"}
    /\ moved \in BOOLEAN /\ strays \in 0 .. MaxFaults /\ faults \in 0 .. MaxFaults
    /\ shows \in [old : Files \cup {"other"}, new : Files \cup {"other"}]
    /\ touched \subseteq Targets
    /\ \A t \in run.receipts : run.orig[t] = "old"

\* A command ends.
Ends == run.pc # "idle" /\ run'.pc = "idle"

\* A report is true when it is made: a success has installed every target and
\* TODO.md shows the tasks, an error that is not "uncertain" has left every
\* target as it was; either has removed its directory (with_transaction).
ReportsTrue ==
    [][Ends /\ out' \in {"ok", "error"} =>
         /\ \A t \in Targets : held'[t] = "absent" /\ aside'[t] = "absent"
         /\ out' = "ok" => AllNew /\ Agrees
         /\ out' = "error" => \A t \in Installs(run) : public'[t] = run.orig[t]]_vars

\* Where editors stay away, and whatever fails or is killed, all targets are
\* installed, or every file that the command replaced still exists, under its
\* name or in the directory of the command (install_private, rollback_install,
\* remove_snapshot_receipt).
AllOrRecoverable ==
    touched = {} =>
        \/ AllNew
        \/ \A t \in Installs(run) : run.orig[t] = "old" => "old" \in {public[t], held[t]}

\* No file of an editor is overwritten or removed by a command once it is not
\* the one the command read: it is at its name or kept in a directory.
ForeignKept ==
    [][run' # run /\ run.pc \notin {"open", "capture", "snapshot"} =>
         Foreign(public)' + Foreign(held)' + Foreign(aside)' + strays'
            >= Foreign(public) + Foreign(held) + Foreign(aside) + strays]_vars

\* Once nothing fails any more, `kb todo` makes TODO.md show the tasks, also
\* after a crash between the two renames or within a rollback.
TodoRepaired == []<>Agrees

=============================================================================
