------------------------------ MODULE Upgrade ------------------------------
(***************************************************************************)
(* `kb upgrade` (lib/upgrade.ml): the directory of an installed release is *)
(* exchanged for that of another one, and the old one is removed.  A       *)
(* release comes with a manifest and is copied to the stage (kind          *)
(* "prepared"), or it is an older archive, extracted beside the            *)
(* installation and moved to the stage (kind "archive").                   *)
(*                                                                         *)
(* `names` is the directory that holds the installation.  Changes of it    *)
(* reach the disk at the latest with the next fsync of that directory;     *)
(* until then a power failure goes back to any state since the last one.   *)
(***************************************************************************)
EXTENDS Naturals, FiniteSets

CONSTANTS
  Files,     \* the files of a release
  Hazards,   \* kinds of faults that happen
  MaxFaults, \* how many
  None

ASSUME FaultAssumption == MaxFaults \in Nat
ASSUME NoneAssumption == None \notin {"old", "new", "temp", "foreign"}

VARIABLES
  names,   \* the trees in the parent directory, by name
  unsynced,\* what `names` was since the last fsync, now included
  trees,   \* the trees of the running or the last command
  run,     \* the running command
  out,     \* its report, or that of the last one
  litter,  \* foreign trees at the private names of earlier commands
  touched, \* an editor has replaced or changed a tree
  faults   \* faults that may still happen

vars == <<names, unsynced, trees, run, out, litter, touched, faults>>

history == <<litter, touched, faults>>

----------------------------------------------------------------------------
(* Trees and names *)

\* The names of the stage and of the temporary directory have a random token;
\* "gone" is the name, random too, that a tree gets before it is removed.
Private == {"stage", "temp"}
Gone(n) == IF n = "stage" THEN "gone_stage" ELSE "gone_temp"
Names == {"target"} \cup Private \cup {Gone(n) : n \in Private}

Trees == {"old", "new", "temp"}

Foreign(ns) == Cardinality({n \in Names : ns[n] = "foreign"})

Tree(files, synced) == [files |-> files, synced |-> synced, dirty |-> FALSE]

\* Mutant of Fresh: the name of the stage does not change.
Reused(ns) == [ns EXCEPT !["target"] = IF @ = None THEN None ELSE "old"]

\* What has the name of the installation is the old release, and the private
\* names of a command are names that nobody has.
Fresh(ns) == [n \in Names |-> IF n = "target" /\ ns[n] # None THEN "old" ELSE None]

Rename(ns) == names' = ns /\ unsynced' = unsynced \cup {ns}

\* Mutant of Synced: the parent directory is not flushed.
NotSynced(us, ns) == us \cup {ns}

\* fsync of the parent directory.
Synced(us, ns) == {ns}

SyncParent == unsynced' = Synced(unsynced, names)

Fault(kind) == kind \in Hazards /\ faults > 0 /\ faults' = faults - 1

----------------------------------------------------------------------------
(* The running command *)

Idle ==
    [pc |-> "idle", kind |-> "prepared", sound |-> FALSE, goal |-> "ok", owned |-> {}, exchanged |-> FALSE,
     name |-> "stage", why |-> "finish"]

Goto(pc) == run' = [run EXCEPT !.pc = pc] /\ UNCHANGED out

Exit(report) == run' = Idle /\ out' = report

\* finish: what the command owns is removed before it reports.
Failing(report) == [run EXCEPT !.pc = "finish", !.goal = report]

Finish(report) == run' = Failing(report) /\ UNCHANGED out

\* The exception handlers of install_prepared and install_archive.
Raise == Finish("internal")

\* run and resolve; the installation has another version than the requested
\* one and is not managed by setup.
Begin(kind) ==
    /\ run.pc = "idle"
    /\ run' = [Idle EXCEPT !.pc = "fetch", !.kind = kind]
    /\ out' = "running"
    /\ UNCHANGED <<names, unsynced, trees, history>>

\* fetch, runtime_download: a release arrives, sound or not.
Fetch(sound) ==
    /\ run.pc = "fetch"
    /\ run' = [run EXCEPT !.sound = sound, !.pc = IF run.kind = "prepared" THEN "verify" ELSE "lock"]
    /\ UNCHANGED <<names, unsynced, trees, out, history>>

\* Mutant of Sound: nothing is verified.
Trusted == TRUE

\* The digests, the layout, the markers and the version that the executable
\* of the release reports.
Sound == run.sound

\* with_manifest_release, in a directory of its own that is removed.
Verify ==
    /\ run.pc = "verify"
    /\ IF Sound THEN Goto("lock") ELSE Exit("invalid")
    /\ UNCHANGED <<names, unsynced, trees, history>>

\* flock of the parent directory serialises the installers; `original` is
\* whatever has the name of the installation from here on.  What an earlier
\* command did to the directory is on the disk by then.
Lock ==
    /\ run.pc = "lock" /\ unsynced = {names}
    /\ names' = Fresh(names) /\ unsynced' = {names'}
    /\ trees' = [id \in Trees |->
                   IF id = "old"
                   THEN Tree(IF names["target"] \in Trees THEN trees[names["target"]].files ELSE Files, TRUE)
                   ELSE Tree({}, FALSE)]
    /\ litter' = litter + Foreign(names) - IF names["target"] = "foreign" THEN 1 ELSE 0
    /\ touched' = (names["target"] = None)
    /\ IF names["target"] = None THEN Exit("internal")
       ELSE Goto(IF run.kind = "prepared" THEN "make_stage" ELSE "make_temp")
    /\ UNCHANGED faults

----------------------------------------------------------------------------
(* install_prepared, up to the exchange *)

MakeStage ==
    /\ run.pc = "make_stage"
    /\ IF names["stage"] = None
       THEN /\ Rename([names EXCEPT !["stage"] = "new"])
            /\ run' = [run EXCEPT !.pc = "copy", !.owned = {"stage"}]
            /\ UNCHANGED out
       ELSE Raise /\ UNCHANGED <<names, unsynced>>
    /\ UNCHANGED <<trees, history>>

\* copy_release_tree_into opens the stage by its path.
Copy ==
    /\ run.pc = "copy"
    /\ IF names["stage"] = None THEN Raise /\ UNCHANGED trees
       ELSE IF trees["new"].files = Files THEN Goto("sync") /\ UNCHANGED trees
       ELSE /\ \E f \in Files \ trees["new"].files : trees' = [trees EXCEPT !["new"].files = @ \cup {f}]
            /\ UNCHANGED <<run, out>>
    /\ UNCHANGED <<names, unsynced, history>>

Original == names["target"] = "old"

\* Mutant of SyncTree: the candidate stays in the page cache.
SnapshotOnly(tree) == tree

\* sync_tree: every file and directory is flushed, and the entries recorded.
SyncTree(tree) == [tree EXCEPT !.synced = TRUE]

SyncStage ==
    /\ run.pc = "sync"
    /\ trees' = [trees EXCEPT !["new"] = SyncTree(@)]
    /\ IF names["stage"] = "new" /\ Original THEN Goto("guard") ELSE Finish("changed")
    /\ UNCHANGED <<names, unsynced, history>>

----------------------------------------------------------------------------
(* install_archive, up to the exchange *)

MakeTemp ==
    /\ run.pc = "make_temp"
    /\ Rename([names EXCEPT !["temp"] = "temp"])
    /\ run' = [run EXCEPT !.pc = "extract", !.owned = {"temp"}] /\ UNCHANGED out
    /\ UNCHANGED <<trees, history>>

\* tar, the checks of the archive and of the package, sync_tree.
Extract ==
    /\ run.pc = "extract"
    /\ IF Sound
       THEN trees' = [trees EXCEPT !["new"] = SyncTree([@ EXCEPT !.files = Files])] /\ Goto("move")
       ELSE Finish("invalid") /\ UNCHANGED trees
    /\ UNCHANGED <<names, unsynced, history>>

\* RENAME_NOREPLACE from the temporary directory to the stage.
Move ==
    /\ run.pc = "move"
    /\ IF trees["new"].dirty \/ names["stage"] # None
       THEN Raise /\ UNCHANGED <<names, unsynced>>
       ELSE /\ Rename([names EXCEPT !["stage"] = "new"])
            /\ run' = [run EXCEPT !.pc = "moved", !.owned = @ \cup {"stage"}] /\ UNCHANGED out
    /\ UNCHANGED <<trees, history>>

\* Starts cleanup_expected of the tree at a name.
Removing(n, why) == [run EXCEPT !.pc = "rm", !.name = n, !.why = why]

Remove(n, why) == run' = Removing(n, why) /\ UNCHANGED out

Moved ==
    /\ run.pc = "moved"
    /\ IF Original THEN Remove("temp", "before") ELSE Finish("changed")
    /\ UNCHANGED <<names, unsynced, trees, history>>

----------------------------------------------------------------------------
(* The exchange and its finalisation *)

\* tree_matches of the snapshot that sync_tree has made.
Matches == ~trees["new"].dirty

\* forward_guard and restored_guard
Forward  == names["target"] = "new" /\ names["stage"] = "old" /\ Matches
Restored == names["target"] = "old" /\ names["stage"] = "new"

\* pre_exchange_guard
Guard ==
    /\ run.pc = "guard"
    /\ IF Restored /\ Matches THEN Goto("exchange") ELSE Raise
    /\ UNCHANGED <<names, unsynced, trees, history>>

Swapped == [names EXCEPT !["target"] = names["stage"], !["stage"] = names["target"]]

\* RENAME_EXCHANGE of whatever has the two names by now.
BothThere == names["target"] # None /\ names["stage"] # None

Exchange ==
    /\ run.pc = "exchange"
    /\ IF BothThere
       THEN /\ Rename(Swapped)
            /\ run' = [run EXCEPT !.pc = "fsync", !.exchanged = TRUE] /\ UNCHANGED out
       ELSE Raise /\ UNCHANGED <<names, unsynced>>
    /\ UNCHANGED <<trees, history>>

\* finalize_exchange: the parent directory is flushed before the old release
\* is removed, or the exchange is taken back.
Fsync ==
    /\ run.pc = "fsync"
    /\ \/ SyncParent /\ Goto("forward") /\ UNCHANGED faults
       \/ Fault("io") /\ Goto("reverse") /\ UNCHANGED unsynced
    /\ UNCHANGED <<names, trees, litter, touched>>

CleanOld ==
    /\ run.pc = "forward"
    /\ IF Forward THEN Remove("stage", "forward") ELSE Finish("uncertain")
    /\ UNCHANGED <<names, unsynced, trees, history>>

Reverse ==
    /\ run.pc = "reverse"
    /\ IF Forward THEN Goto("reverse_rename") ELSE Finish("uncertain")
    /\ UNCHANGED <<names, unsynced, trees, history>>

ExchangeBack ==
    /\ run.pc = "reverse_rename"
    /\ IF BothThere THEN Rename(Swapped) /\ Goto("restored")
       ELSE Finish("uncertain") /\ UNCHANGED <<names, unsynced>>
    /\ UNCHANGED <<trees, history>>

CheckRestored ==
    /\ run.pc = "restored"
    /\ IF Restored THEN SyncParent /\ Remove("stage", "restored")
       ELSE Finish("uncertain") /\ UNCHANGED unsynced
    /\ UNCHANGED <<names, trees, history>>

----------------------------------------------------------------------------
(* cleanup_expected and remove_tree_at *)

\* Which tree is to be removed, and what has to hold all along.
Expected == CASE run.name = "temp" -> "temp" [] run.why = "forward" -> "old" [] OTHER -> "new"

Validate ==
    CASE run.why = "forward"  -> names["target"] = "new" /\ Matches
      [] run.why = "restored" -> Original
      [] OTHER                -> TRUE

Disown(r) == [r EXCEPT !.owned = @ \ {r.name}]

\* The result of cleanup_expected, to its caller.
Removed(ok) ==
    /\ UNCHANGED out
    /\ run' =
         CASE run.why = "before"   -> IF ok THEN [Disown(run) EXCEPT !.pc = "guard"]
                                      ELSE Failing("internal")
           [] run.why = "forward"  -> Failing(IF ok THEN "ok" ELSE "uncertain")
           [] run.why = "restored" -> Failing(IF ok THEN "restored" ELSE "uncertain")
           [] OTHER                -> [Disown(run) EXCEPT !.pc = "finish",
                                          !.goal = IF ok THEN @ ELSE "uncertain"]

CheckTree ==
    /\ run.pc = "rm"
    /\ IF names[run.name] = Expected /\ Validate THEN Goto("rm_take") ELSE Removed(FALSE)
    /\ UNCHANGED <<names, unsynced, trees, history>>

\* The tree is renamed to its quarantine; the name may be another one's now.
TakeTree ==
    /\ run.pc = "rm_take"
    /\ IF names[run.name] = None THEN Removed(FALSE) /\ UNCHANGED <<names, unsynced>>
       ELSE /\ Rename([names EXCEPT ![run.name] = None, ![Gone(run.name)] = names[run.name]])
            /\ Goto("rm_files")
    /\ UNCHANGED <<trees, history>>

\* Mutant of Taken: what was taken is not looked at.
NotLookedAt == names[run.name] = None

Taken == names[run.name] = None /\ names[Gone(run.name)] = Expected

RemoveFiles ==
    /\ run.pc = "rm_files"
    /\ LET id == names[Gone(run.name)] IN
       IF ~(Taken /\ Validate) THEN Removed(FALSE) /\ UNCHANGED <<names, unsynced, trees>>
       ELSE IF id \in Trees /\ trees[id].files # {}
       THEN /\ \E f \in trees[id].files : trees' = [trees EXCEPT ![id].files = @ \ {f}]
            /\ UNCHANGED <<names, unsynced, run, out>>
       ELSE /\ Rename([names EXCEPT ![Gone(run.name)] = None])
            /\ Goto("rm_sync") /\ UNCHANGED trees
    /\ UNCHANGED history

RemoveDone ==
    /\ run.pc = "rm_sync"
    /\ SyncParent
    /\ Removed(Validate /\ names[run.name] = None)
    /\ UNCHANGED <<names, trees, history>>

\* finish: the temporary directory, then a stage that was not exchanged.
FinishRun ==
    /\ run.pc = "finish"
    /\ IF "temp" \in run.owned THEN Remove("temp", "finish")
       ELSE IF "stage" \in run.owned /\ ~run.exchanged THEN Remove("stage", "finish")
       ELSE Exit(run.goal)
    /\ UNCHANGED <<names, unsynced, trees, history>>

----------------------------------------------------------------------------
(* Faults and editors *)

\* A system call or a download fails.
CallFails ==
    /\ Fault("io")
    /\ \/ run.pc = "fetch" /\ Exit("transient")
       \/ run.pc = "lock" /\ Exit("internal")
       \/ run.pc \in {"make_stage", "copy", "sync", "make_temp", "extract", "move",
                      "exchange"} /\ Raise
       \/ run.pc \in {"reverse_rename", "restored"} /\ Finish("uncertain")
       \/ run.pc \in {"rm_take", "rm_files", "rm_sync"} /\ Removed(FALSE)
    /\ UNCHANGED <<names, unsynced, trees, litter, touched>>

\* The process is killed; the lock goes with it.
Crash ==
    /\ run.pc # "idle" /\ Fault("crash")
    /\ Exit("crashed")
    /\ UNCHANGED <<names, unsynced, trees, litter, touched>>

\* Files that were not flushed may be lost.
Lost(tree) == {tree} \cup IF tree.synced THEN {} ELSE {[tree EXCEPT !.files = {}]}

PowerFails ==
    /\ Fault("power")
    /\ names' \in unsynced /\ unsynced' = {names'}
    /\ \E tree \in Lost(trees["new"]) : trees' = [trees EXCEPT !["new"] = tree]
    /\ IF run.pc = "idle" THEN UNCHANGED <<run, out>> ELSE Exit("crashed")
    /\ UNCHANGED <<litter, touched>>

\* The system writes the directory back in time.
Writeback ==
    /\ run.pc \in {"idle", "lock"} /\ unsynced # {names}
    /\ unsynced' = {names}
    /\ UNCHANGED <<names, trees, run, out, history>>

\* An editor replaces or removes a tree, or changes a file of the candidate.
Edit(n) ==
    /\ Fault("edit")
    /\ \E id \in {"foreign", None} \ {names[n]} : Rename([names EXCEPT ![n] = id])
    /\ touched' = TRUE
    /\ UNCHANGED <<trees, run, out, litter>>

Tamper ==
    /\ Matches /\ trees["new"].synced /\ run.pc # "idle" /\ Fault("edit")
    /\ trees' = [trees EXCEPT !["new"].dirty = TRUE]
    /\ touched' = TRUE
    /\ UNCHANGED <<names, unsynced, run, out, litter>>

----------------------------------------------------------------------------
(* The specification *)

Init ==
    /\ names = [n \in Names |-> IF n = "target" THEN "old" ELSE None] /\ unsynced = {names}
    /\ trees = [id \in Trees |-> IF id = "old" THEN Tree(Files, TRUE) ELSE Tree({}, FALSE)]
    /\ run = Idle /\ out = "none"
    /\ litter = 0 /\ touched = FALSE /\ faults = MaxFaults

Step ==
    \/ Verify \/ Lock \/ Writeback \/ \E sound \in BOOLEAN : Fetch(sound)
    \/ MakeStage \/ Copy \/ SyncStage
    \/ MakeTemp \/ Extract \/ Move \/ Moved
    \/ Guard \/ Exchange \/ Fsync \/ CleanOld \/ Reverse \/ ExchangeBack \/ CheckRestored
    \/ CheckTree \/ TakeTree \/ RemoveFiles \/ RemoveDone \/ FinishRun

Next ==
    \/ \E kind \in {"prepared", "archive"} : Begin(kind)
    \/ Step
    \/ CallFails \/ Crash \/ PowerFails \/ Tamper
    \/ \E n \in {"target", "stage"} : Edit(n)

Spec == Init /\ [][Next]_vars

\* A started command proceeds, another one follows, and sound releases arrive.
FairSpec ==
    /\ Spec /\ WF_vars(Step) /\ WF_vars(\E kind \in {"prepared", "archive"} : Begin(kind))
    /\ SF_vars(Fetch(TRUE))

----------------------------------------------------------------------------
(* Properties *)

Labels ==
    {"idle", "fetch", "verify", "lock", "make_stage", "copy", "sync", "make_temp", "extract",
     "move", "moved", "guard", "exchange", "fsync", "forward", "reverse", "reverse_rename",
     "restored", "rm", "rm_take", "rm_files", "rm_sync", "finish"}

Errors == {"transient", "invalid", "internal", "changed", "restored"}

\* Types; at the exchange the temporary directory is gone.
TypeOK ==
    /\ run.exchanged => run.owned = {"stage"}
    /\ names \in [Names -> Trees \cup {"foreign", None}] /\ names \in unsynced
    /\ trees \in [Trees -> [files : SUBSET Files, synced : BOOLEAN, dirty : BOOLEAN]]
    /\ run \in [pc : Labels, kind : {"prepared", "archive"}, sound : BOOLEAN,
                goal : Errors \cup {"ok", "uncertain"}, owned : SUBSET Private,
                exchanged : BOOLEAN, name : Private,
                why : {"before", "forward", "restored", "finish"}]
    /\ out \in Errors \cup {"none", "running", "ok", "uncertain", "crashed"}
    /\ litter \in 0 .. MaxFaults /\ touched \in BOOLEAN /\ faults \in 0 .. MaxFaults

\* Where editors stay away, the installation is a complete release at every
\* moment: whatever fails, also when the power does (finalize_exchange).
TargetWhole ==
    ~touched => names["target"] \in Trees /\ trees[names["target"]].files = Files

\* A command that has come as far as the lock ends with a report.
Ends == run.pc \notin {"idle", "fetch", "verify", "lock"} /\ run'.pc = "idle" /\ out' # "crashed"

Residue(ns) == \E n \in Names \ {"target"} : ns[n] \in Trees

\* A report is true when it is made.  A success has installed the release and
\* removed the old one, on the disk; an error that is not "uncertain" has left
\* the old release and nothing else, except for what editors did.
ReportsTrue ==
    [][Ends /\ out' # "uncertain" =>
         /\ ~Residue(names')
         /\ out' = "ok" => run.sound /\ names'["target"] # "old"
         /\ out' # "ok" => names'["target"] # "new"
         /\ ~touched => unsynced' = {names'} /\ names'["target"] = IF out' = "ok" THEN "new" ELSE "old"]_vars

\* No tree of an editor is removed: it stays where it is, or is kept under a
\* private name (remove_tree_at, finalize_exchange).
ForeignKept ==
    [][run' # run /\ out' # "crashed" =>
         Foreign(names)' + litter' + (IF run.pc = "lock" /\ names["target"] = "foreign" THEN 1 ELSE 0)
            >= Foreign(names) + litter]_vars

\* Whatever an interrupted command left behind, a later one succeeds.
Upgraded == []~touched => []<>(out = "ok")
=============================================================================
