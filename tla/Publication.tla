---------------------------- MODULE Publication ----------------------------
(***************************************************************************)
(* One clone of a knowledge repository and the remote it publishes to:     *)
(* `kb publish`, lib/publication.ml, one step per durable effect.          *)
(*                                                                         *)
(* A commit is the sequence of the entries of its history after the        *)
(* initial commit, so "is an ancestor of" is "is a prefix of".  An entry   *)
(* is one owner's change, with a flag that says whether TODO.md agrees     *)
(* with the task files of that commit.  The other publishers of the same   *)
(* remote are the environment: they only ever append to main.              *)
(*                                                                         *)
(* A run of the command holds the exclusive repository lock, so runs of    *)
(* one clone never interleave; what interleaves with a run is the remote,  *)
(* the fetch of a concurrent `kb sync` and a crash after any step.         *)
(***************************************************************************)
EXTENDS Integers, Sequences, FiniteSets, SequencesExt

CONSTANTS
    Own,        \* the changes the owner of this clone makes
    Foreign,    \* the changes other publishers push
    Clash,      \* the foreign changes that conflict with every change of Own
    Threads,    \* Amp threads that run the command
    Stamps,     \* UTC seconds a preserved branch can be named after
    RaceLimit,  \* counted clean races before the recovery branch, 3 in the code
    Hazards,    \* which faults this instance admits
    MaxFaults,  \* bound: how many of them happen
    None

ASSUME ChangesAssumption == Own \cap Foreign = {} /\ Clash \subseteq Foreign

ASSUME BoundAssumption == MaxFaults \in Nat /\ RaceLimit \in Nat \ {0}

Entry  == [change : Own \cup Foreign, todo : BOOLEAN]
Commit == Seq(Entry)
Branch == {"conflicts", "recovery"} \X Threads \X Stamps
MainRef == <<"main">>

\* What git keeps of a rebase that has not finished: the commit it replays,
\* the one it replays it on, and whether HEAD was main when it began.
Rebases == [from : Commit, onto : Commit, attached : BOOLEAN,
            unmerged : {"genuine", "todo", "resolved", "unstarted"}]

\* The retained state of a publication.
States == [thread : Threads, original : Commit, races : 0 .. RaceLimit,
           conflicts : BOOLEAN, strayBase : BOOLEAN,
           pres : {"none", "push_pending", "proven"}, branch : Branch \cup {None}]

ASSUME NoneAssumption ==
    /\ None \notin Own \cup Foreign \cup Threads
    /\ None \notin Commit
    /\ None \notin Rebases /\ None \notin States

VARIABLES
    origin,     \* refs/heads/main of the remote
    side,       \* the conflicts/ and recovery/ branches of the remote
    flight,     \* push requests whose client has gone but that may still land
    tracking,   \* refs/remotes/origin/main
    main,       \* refs/heads/main of the clone
    head,       \* the commit HEAD resolves to
    attached,   \* HEAD is the symbolic ref of main
    rb,         \* the rebase in progress, or None
    st,         \* refs/clamp/publish/<thread>/{original,state}, or None
    work,       \* the owner's uncommitted managed change, or None
    unwritten,  \* changes of Own the owner has not made yet
    stray,      \* the owner edited a tracked file outside the change
    run,        \* the running command
    out,        \* what the last finished command reported
    faults,     \* faults that may still happen
    durable     \* history: changes that have been on the remote

remote == <<origin, side, flight, durable>>
refs   == <<tracking, main>>
tree   == <<head, attached, rb>>
owner  == <<work, unwritten, stray>>
vars   == <<remote, refs, tree, st, owner, run, out, faults>>

----------------------------------------------------------------------------
(* Commits and rebases *)

Changes(c) == {c[i].change : i \in DOMAIN c}

Fresh(c) == c = <<>> \/ Last(c).todo

\* The commit that replays the newest commit of `from` on `onto`.
Replayed(onto, from, fresh) ==
    Append(onto, [change |-> Last(from).change, todo |-> fresh])

\* The commits of `onto` that `from` was not made on touch what it touches.
Conflicting(onto, from) ==
    \E i \in Len(from) .. Len(onto) : onto[i].change \in Clash

\* Mutant of Amended: the drifted TODO.md is left as the rebase merged it.
LeftDrifted(c) == c

\* `commit --amend` of a regenerated TODO.md.
Amended(c) == Replayed(Front(c), c, TRUE)

\* Mutant of Accepts: every push is a force push.
ForcePushed(old, new) == TRUE

\* The non-force push rule of the remote.
Accepts(old, new) == old # None => IsPrefix(old, new)

----------------------------------------------------------------------------
(* The running command *)

Idle == [pc |-> "idle", thread |-> None, count |-> FALSE,
         then |-> "attempt", before |-> <<>>]

\* The change the retained state is about.
Subject == IF st = None THEN None ELSE Last(st.original).change

Goto(pc) == run' = [run EXCEPT !.pc = pc] /\ UNCHANGED out

Exit(code) ==
    /\ run' = Idle
    /\ out' = [code |-> code, change |-> Subject]

Fault(kind) == kind \in Hazards /\ faults > 0 /\ faults' = faults - 1

\* HEAD moves to c, and takes main along when it is attached.
MoveHead(c) ==
    /\ head' = c
    /\ main' = IF attached THEN c ELSE main

NewState(t, original) ==
    [thread |-> t, original |-> original, races |-> 0, conflicts |-> FALSE,
     strayBase |-> FALSE, pres |-> "none", branch |-> None]

\* Mutant of SetConflicts: a resolved conflict is never cleared.
NeverCleared(s, recorded, strayBase) ==
    IF recorded THEN [s EXCEPT !.conflicts = TRUE, !.strayBase = strayBase] ELSE s

\* update_state: the conflict paths, and whether the worktree fingerprinted
\* with them held an edit outside the change.
SetConflicts(s, recorded, strayBase) ==
    [s EXCEPT !.conflicts = recorded, !.strayBase = strayBase]

\* update_state after a clean race.
Counted(s) == [SetConflicts(s, FALSE, FALSE) EXCEPT !.races = @ + 1]

\* record_conflicts keeps the first record.
RecordConflicts(s) == IF s.conflicts THEN s ELSE SetConflicts(s, TRUE, stray)

\* ensure_conflict_worktree: outside the conflict paths the worktree is what
\* it was when the conflict was recorded.
ConflictWorktreeKept == stray = st.strayBase

\* verify_post_abort_state
PostAbortVerified ==
    /\ ~st.strayBase /\ ~stray /\ work = None
    /\ rb = None /\ attached
    /\ head = st.original /\ main = st.original

\* git_flow and the dispatch of resume: the step an invocation starts at, or
\* the refusal it reports before it changes anything.
Route(t, preserve) ==
    IF st = None THEN
        IF ~preserve /\ rb = None /\ attached THEN "start" ELSE "refused"
    ELSE IF st.thread # t THEN "refused"
    ELSE IF st.pres # "none" THEN
        IF preserve /\ rb = None THEN "query" ELSE "refused"
    ELSE IF rb # None THEN
        IF preserve THEN "abort" ELSE "continue"
    ELSE IF st.conflicts THEN
        IF ~preserve THEN "post_abort_required"
        ELSE IF PostAbortVerified THEN "alloc" ELSE "post_abort_unverified"
    ELSE IF preserve \/ stray \/ work # None THEN "refused"
    ELSE "fetch"

\* load_source, repository_preflight and ensure_managed_worktree refuse as well,
\* and likewise change nothing.
Refusals == {"refused", "post_abort_required", "post_abort_unverified"}

Invoke(t, preserve) ==
    /\ run.pc = "idle"
    /\ LET at == Route(t, preserve) IN
       IF at \in Refusals
       THEN Exit(at)
       ELSE /\ run' = [Idle EXCEPT !.pc = at, !.thread = t,
                          !.then = IF at = "continue" THEN "fetch" ELSE "attempt"]
            /\ UNCHANGED out
    /\ UNCHANGED <<remote, refs, tree, st, owner, faults>>

----------------------------------------------------------------------------
(* start: commit the managed changes and record the publication *)

\* unpublished_preflight: no commit of main is missing from origin/main.
NothingUnpublished == IsPrefix(head, tracking)

\* unpublished_preflight and commit_managed; TODO.md is regenerated first.
CommitManaged ==
    /\ run.pc = "start"
    /\ IF stray \/ work = None \/ ~NothingUnpublished
       THEN Exit("refused") /\ UNCHANGED <<main, head, work>>
       ELSE /\ MoveHead(Append(head, [change |-> work, todo |-> TRUE]))
            /\ work' = None
            /\ Goto("create")
    /\ UNCHANGED <<remote, tracking, attached, rb, st, unwritten, stray, faults>>

CreateState ==
    /\ run.pc = "create"
    /\ st' = NewState(run.thread, head)
    /\ Goto("detach")
    /\ UNCHANGED <<remote, refs, tree, owner, faults>>

DetachPublication ==
    /\ run.pc = "detach"
    /\ attached' = FALSE
    /\ Goto("fetch")
    /\ UNCHANGED <<remote, refs, head, rb, st, owner, faults>>

----------------------------------------------------------------------------
(* Fetch, rebase, finalize *)

Fetch ==
    /\ run.pc = "fetch"
    /\ tracking' = origin
    /\ run' = [run EXCEPT !.pc = "rebase", !.count = FALSE, !.then = "attempt"]
    /\ UNCHANGED <<remote, main, tree, st, owner, out, faults>>

RebaseStopped(unmerged) ==
    /\ rb' = [from |-> head, onto |-> tracking, attached |-> attached,
              unmerged |-> unmerged]
    /\ head' = tracking
    /\ attached' = FALSE
    /\ UNCHANGED main

Diverged == ~IsPrefix(head, tracking) /\ ~IsPrefix(tracking, head)

\* rebase_onto_origin: fast-forward, nothing to do, or one replayed commit,
\* whose TODO.md merges (right or wrong) or conflicts.
RebaseOntoOrigin ==
    /\ run.pc = "rebase"
    /\ \/ /\ IsPrefix(head, tracking)
          /\ MoveHead(tracking)
          /\ Goto("finalize")
          /\ UNCHANGED <<attached, rb>>
       \/ /\ IsPrefix(tracking, head) /\ head # tracking
          /\ Goto("finalize")
          /\ UNCHANGED <<main, tree>>
       \/ /\ Diverged /\ ~Conflicting(tracking, head)
          /\ \E fresh \in BOOLEAN : MoveHead(Replayed(tracking, head, fresh))
          /\ Goto("finalize")
          /\ UNCHANGED <<attached, rb>>
       \/ /\ Diverged
          /\ RebaseStopped(IF Conflicting(tracking, head) THEN "genuine" ELSE "todo")
          /\ Goto("continue")
    /\ UNCHANGED <<remote, tracking, st, owner, faults>>

\* The process dies while git rebases: the pick has not run.
RebaseKilled ==
    /\ run.pc = "rebase" /\ Diverged
    /\ Fault("crash")
    /\ RebaseStopped("unstarted")
    /\ Exit("crashed")
    /\ UNCHANGED <<remote, tracking, st, owner>>

\* continue_rebase with genuine unmerged paths: record them and stop.
ReportConflict ==
    /\ run.pc = "continue" /\ rb.unmerged = "genuine"
    /\ st' = RecordConflicts(st)
    /\ Exit(IF st.conflicts /\ ~ConflictWorktreeKept THEN "refused" ELSE "conflict")
    /\ UNCHANGED <<remote, refs, tree, owner, faults>>

\* Mutant of FinishRebase: `rebase --skip`, which drops the pick.
SkipRebase(fresh) ==
    /\ rb' = None
    /\ attached' = rb.attached
    /\ head' = rb.onto
    /\ main' = IF rb.attached THEN rb.onto ELSE main
    /\ Goto("finalize")
    /\ UNCHANGED st

\* rebase --continue: the pick is committed, and HEAD is attached as before.
FinishRebase(fresh) ==
    LET c == Replayed(rb.onto, rb.from, fresh) IN
    /\ rb' = None
    /\ attached' = rb.attached
    /\ head' = c
    /\ main' = IF rb.attached THEN c ELSE main
    /\ Goto("finalize")
    /\ UNCHANGED st

\* continue_rebase with every path merged but perhaps TODO.md, which is
\* regenerated: `rebase --continue`.
ContinueRebase ==
    /\ run.pc = "continue" /\ rb.unmerged # "genuine"
    /\ \/ /\ stray \/ (st.conflicts /\ ~ConflictWorktreeKept)
          /\ Exit("refused")
          /\ UNCHANGED <<main, tree, st>>
       \/ /\ ~stray /\ (st.conflicts => ConflictWorktreeKept)
          /\ \/ rb.unmerged \in {"todo", "resolved"} /\ FinishRebase(TRUE)
             \/ /\ rb.unmerged = "unstarted" /\ ~Conflicting(rb.onto, rb.from)
                /\ \E fresh \in BOOLEAN : FinishRebase(fresh)
             \/ /\ rb.unmerged = "unstarted"
                /\ IF Conflicting(rb.onto, rb.from)
                   THEN /\ rb' = [rb EXCEPT !.unmerged = "genuine"]
                        /\ st' = RecordConflicts(st)
                        /\ Exit("conflict")
                   ELSE /\ rb' = [rb EXCEPT !.unmerged = "todo"]
                        /\ Exit("failed") /\ UNCHANGED st
                /\ UNCHANGED <<main, head, attached>>
    /\ UNCHANGED <<remote, tracking, owner, faults>>

\* finalize_rebased_commit: amend with a regenerated TODO.md if it drifted.
FinalizeRebasedCommit ==
    /\ run.pc = "finalize"
    /\ MoveHead(IF Fresh(head) THEN head ELSE Amended(head))
    /\ Goto(IF st.conflicts THEN "clear" ELSE IF run.count THEN "count" ELSE run.then)
    /\ UNCHANGED <<remote, tracking, attached, rb, st, owner, faults>>

ClearConflicts ==
    /\ run.pc = "clear"
    /\ st' = SetConflicts(st, FALSE, FALSE)
    /\ Goto(IF run.count THEN "count" ELSE run.then)
    /\ UNCHANGED <<remote, refs, tree, owner, faults>>

CountCleanRace ==
    /\ run.pc = "count"
    /\ st' = Counted(st)
    /\ Goto(run.then)
    /\ UNCHANGED <<remote, refs, tree, owner, faults>>

----------------------------------------------------------------------------
(* publish_attempts *)

\* Mutant of AlreadyPublished: the arguments of the ancestor test are swapped.
BasedOnPublished == IsPrefix(tracking, head)

AlreadyPublished == IsPrefix(head, tracking)

PublishAttempt ==
    /\ run.pc = "attempt"
    /\ run' = [run EXCEPT !.before = tracking,
                  !.pc = IF AlreadyPublished THEN "attach"
                         ELSE IF st.races >= RaceLimit THEN "recover" ELSE "push"]
    /\ UNCHANGED <<remote, refs, tree, st, owner, out, faults>>

LandOnMain(c) ==
    /\ origin' = c
    /\ durable' = durable \cup Changes(c)
    /\ UNCHANGED <<side, flight>>

LandOnBranch(b, c) ==
    /\ side' = [side EXCEPT ![b] = c]
    /\ durable' = durable \cup Changes(c)
    /\ UNCHANGED <<origin, flight>>

LeaveInFlight(ref, c) ==
    /\ flight' = flight \cup {[ref |-> ref, commit |-> c]}
    /\ UNCHANGED <<origin, side, durable>>

\* The push is accepted, or refused because another publisher won the race.
PushMain ==
    /\ run.pc = "push"
    /\ IF Accepts(origin, head)
       THEN LandOnMain(head) /\ Goto("attach")
       ELSE Goto("refetch") /\ UNCHANGED remote
    /\ UNCHANGED <<refs, tree, st, owner, faults>>

\* The push fails for its client; the remote may have it, or get it later if
\* the client was killed by its deadline.
PushMainUncertain ==
    /\ run.pc = "push"
    /\ Fault("network")
    /\ \/ /\ Goto("refetch") \/ Exit("failed")
          /\ \/ Accepts(origin, head) /\ LandOnMain(head)
             \/ UNCHANGED remote
       \/ Exit("failed") /\ LeaveInFlight(MainRef, head)
    /\ UNCHANGED <<refs, tree, st, owner>>

\* After a failed push: a remote that did not move means that the push itself
\* is at fault, otherwise the race was lost.
FetchAfterPush ==
    /\ run.pc = "refetch"
    /\ tracking' = origin
    /\ IF origin = run.before
       THEN Exit("push_failed")
       ELSE /\ run' = [run EXCEPT !.pc = "rebase", !.count = TRUE, !.then = "attempt"]
            /\ UNCHANGED out
    /\ UNCHANGED <<remote, main, tree, st, owner, faults>>

\* attach_published_main, first the ref, then the checkout.
AttachMain ==
    /\ run.pc = "attach"
    /\ IF main \in {head, st.original}
       THEN main' = head /\ Goto("switch")
       ELSE Exit("main_changed") /\ UNCHANGED main
    /\ UNCHANGED <<remote, tracking, tree, st, owner, faults>>

SwitchToMain ==
    /\ run.pc = "switch"
    /\ attached' = TRUE
    /\ head' = main
    /\ Goto("cleanup")
    /\ UNCHANGED <<remote, refs, rb, st, owner, faults>>

\* cleanup_state after the outcome it belongs to.
CleanupAs(pc, code) ==
    /\ run.pc = pc
    /\ st' = None
    /\ Exit(code)
    /\ UNCHANGED <<remote, refs, tree, owner, faults>>

CleanupPublished == CleanupAs("cleanup", "published")
CleanupExhausted == CleanupAs("cleanup_exhausted", "exhausted")
CleanupPreserved == CleanupAs("cleanup_preserved", "preserved")

\* Three counted races: the rebased commit goes to a recovery branch.
PushRecovery ==
    /\ run.pc = "recover"
    /\ \E s \in Stamps :
          LET b == <<"recovery", st.thread, s>> IN
          \/ /\ Accepts(side[b], head) /\ LandOnBranch(b, head)
             /\ \/ Goto("cleanup_exhausted") /\ UNCHANGED faults
                \/ Fault("network") /\ Exit("failed")
          \/ ~Accepts(side[b], head) /\ Exit("failed") /\ UNCHANGED <<remote, faults>>
          \/ Fault("network") /\ Exit("failed")
             /\ (UNCHANGED remote \/ LeaveInFlight(b, head))
    /\ UNCHANGED <<refs, tree, st, owner>>

----------------------------------------------------------------------------
(* resume --preserve-conflict *)

\* preserve_conflict: the rebase is aborted, which restores every tracked file.
AbortRebase ==
    /\ run.pc = "abort"
    /\ IF st.conflicts /\ ConflictWorktreeKept
       THEN /\ rb' = None
            /\ head' = rb.from
            /\ attached' = rb.attached
            /\ stray' = FALSE
            /\ Goto("restore")
       ELSE Exit("refused") /\ UNCHANGED <<tree, stray>>
    /\ UNCHANGED <<remote, refs, st, work, unwritten, faults>>

RestoreMain ==
    /\ run.pc = "restore"
    /\ attached' = TRUE
    /\ head' = main
    /\ Goto("verify")
    /\ UNCHANGED <<remote, refs, rb, st, owner, faults>>

VerifyAbort ==
    /\ run.pc = "verify"
    /\ IF head = st.original /\ ~stray THEN Goto("alloc") ELSE Exit("abort_failed")
    /\ UNCHANGED <<remote, refs, tree, st, owner, faults>>

\* allocate_pending_preservation: the branch is recorded before it is pushed.
AllocatePending ==
    /\ run.pc = "alloc"
    /\ \E s \in Stamps :
          st' = [st EXCEPT !.pres = "push_pending",
                           !.branch = <<"conflicts", st.thread, s>>]
    /\ Goto("preserve")
    /\ UNCHANGED <<remote, refs, tree, owner, faults>>

PushPending ==
    /\ run.pc = "preserve"
    /\ IF Accepts(side[st.branch], st.original)
       THEN LandOnBranch(st.branch, st.original) /\ Goto("prove")
       ELSE Exit("preservation_pending") /\ UNCHANGED remote
    /\ UNCHANGED <<refs, tree, st, owner, faults>>

PushPendingUncertain ==
    /\ run.pc = "preserve"
    /\ Fault("network")
    /\ Exit("preservation_pending")
    /\ \/ Accepts(side[st.branch], st.original) /\ LandOnBranch(st.branch, st.original)
       \/ UNCHANGED remote
       \/ LeaveInFlight(st.branch, st.original)
    /\ UNCHANGED <<refs, tree, st, owner>>

\* Mutant of RemoteBranch: a recorded branch is taken to be there.
TrustedBranch == "same"

\* remote_branch_status of the recorded branch.
RemoteBranch ==
    CASE side[st.branch] = None        -> "absent"
      [] side[st.branch] = st.original -> "same"
      [] OTHER                         -> "different"

Unproven == st.pres = "push_pending"

\* retry_pending_preservation and retry_proven_cleanup ask the remote what the
\* recorded branch is before they do anything.
QueryBranch ==
    /\ run.pc = "query"
    /\ CASE RemoteBranch = "same" ->
               Goto(IF Unproven THEN "prove" ELSE "cleanup_preserved")
         [] RemoteBranch = "absent" /\ Unproven -> Goto("preserve")
         [] OTHER -> Exit("preservation_changed")
    /\ UNCHANGED <<remote, refs, tree, st, owner, faults>>

MarkProven ==
    /\ run.pc = "prove"
    /\ st' = [st EXCEPT !.pres = "proven"]
    /\ Goto("cleanup_preserved")
    /\ UNCHANGED <<remote, refs, tree, owner, faults>>

----------------------------------------------------------------------------
(* Faults of the process and the network *)

\* The process dies, or a local Git command fails and its error is returned:
\* every step before is durable, none after it happens.
Interrupt ==
    /\ run.pc # "idle"
    /\ Fault("crash")
    /\ Exit("crashed")
    /\ UNCHANGED <<remote, refs, tree, st, owner>>

RemoteUnavailable ==
    /\ run.pc \in {"fetch", "refetch", "query"}
    /\ Fault("network")
    /\ Exit("failed")
    /\ UNCHANGED <<remote, refs, tree, st, owner>>

\* A request left in flight lands by the non-force rule, or is lost.
FlightEnds(f, lands) ==
    /\ flight' = flight \ {f}
    /\ LET old == IF f.ref = MainRef THEN origin ELSE side[f.ref] IN
       IF lands /\ Accepts(old, f.commit)
       THEN /\ durable' = durable \cup Changes(f.commit)
            /\ IF f.ref = MainRef
               THEN origin' = f.commit /\ UNCHANGED side
               ELSE side' = [side EXCEPT ![f.ref] = f.commit] /\ UNCHANGED origin
       ELSE UNCHANGED <<origin, side, durable>>
    /\ UNCHANGED <<refs, tree, st, owner, run, out, faults>>

----------------------------------------------------------------------------
(* The environment: other publishers, `kb sync`, the owner and the agent *)

ForeignPush(c) ==
    /\ c \notin Changes(origin)
    /\ LandOnMain(Append(origin, [change |-> c, todo |-> TRUE]))
    /\ UNCHANGED <<refs, tree, st, owner, run, out, faults>>

\* Somebody deletes a preserved branch, or resolves the conflict on top of it.
ForeignBranch(b) ==
    /\ side[b] # None
    /\ Fault("branch")
    /\ \E new \in {None} \cup {Append(side[b], [change |-> c, todo |-> TRUE]) :
                                   c \in Foreign} :
          side' = [side EXCEPT ![b] = new]
    /\ UNCHANGED <<origin, flight, durable, refs, tree, st, owner, run, out>>

\* fetch_target of a sync, which does not take the repository lock.
SyncFetch ==
    /\ tracking # origin
    /\ tracking' = origin
    /\ UNCHANGED <<remote, main, tree, st, owner, run, out, faults>>

\* A concept write leaves a managed change in a clone with nothing pending.
WriteChange(x) ==
    /\ run.pc = "idle" /\ st = None /\ rb = None
    /\ x \in unwritten /\ work = None
    /\ work' = x
    /\ unwritten' = unwritten \ {x}
    /\ UNCHANGED <<remote, refs, tree, st, stray, run, out, faults>>

ResolveConflict ==
    /\ run.pc = "idle" /\ rb # None /\ rb.unmerged = "genuine"
    /\ rb' = [rb EXCEPT !.unmerged = "resolved"]
    /\ UNCHANGED <<remote, refs, head, attached, st, owner, run, out, faults>>

StrayEdit ==
    /\ run.pc = "idle" /\ ~stray
    /\ Fault("stray")
    /\ stray' = TRUE
    /\ UNCHANGED <<remote, refs, tree, st, work, unwritten, run, out>>

UndoStray ==
    /\ run.pc = "idle" /\ stray
    /\ stray' = FALSE
    /\ UNCHANGED <<remote, refs, tree, st, work, unwritten, run, out, faults>>

\* After an outcome that leaves the change off main the owner goes back to
\* origin/main, once what main holds is on the remote.
ResetToOrigin ==
    /\ run.pc = "idle" /\ st = None /\ rb = None /\ work = None /\ ~stray
    /\ Changes(main) \subseteq durable
    /\ ~attached \/ main # tracking
    /\ attached' = TRUE
    /\ head' = tracking
    /\ main' = tracking
    /\ UNCHANGED <<remote, tracking, rb, st, owner, run, out, faults>>

----------------------------------------------------------------------------
(* The specification *)

Init ==
    /\ origin = <<>> /\ side = [b \in Branch |-> None]
    /\ flight = {} /\ durable = {}
    /\ tracking = <<>> /\ main = <<>> /\ head = <<>>
    /\ attached = TRUE /\ rb = None /\ st = None
    /\ work = None /\ unwritten = Own /\ stray = FALSE
    /\ run = Idle /\ out = [code |-> "none", change |-> None]
    /\ faults = MaxFaults

\* The steps of a run, which the process takes without waiting for anybody.
Step ==
    \/ CommitManaged \/ CreateState \/ DetachPublication
    \/ Fetch \/ RebaseOntoOrigin \/ ReportConflict \/ ContinueRebase
    \/ FinalizeRebasedCommit \/ ClearConflicts \/ CountCleanRace
    \/ PublishAttempt \/ PushMain \/ FetchAfterPush \/ PushRecovery
    \/ AttachMain \/ SwitchToMain
    \/ CleanupPublished \/ CleanupExhausted \/ CleanupPreserved
    \/ AbortRebase \/ RestoreMain \/ VerifyAbort \/ AllocatePending
    \/ PushPending \/ QueryBranch \/ MarkProven

Failure ==
    \/ Interrupt \/ RebaseKilled
    \/ RemoteUnavailable \/ PushMainUncertain \/ PushPendingUncertain

Environment ==
    \/ \E f \in flight, lands \in BOOLEAN : FlightEnds(f, lands)
    \/ \E c \in Foreign : ForeignPush(c)
    \/ \E b \in Branch : ForeignBranch(b)
    \/ SyncFetch
    \/ \E x \in Own : WriteChange(x)
    \/ ResolveConflict \/ StrayEdit \/ UndoStray \/ ResetToOrigin

Next ==
    \/ \E t \in Threads, preserve \in BOOLEAN : Invoke(t, preserve)
    \/ Step \/ Failure \/ Environment

Spec == Init /\ [][Next]_vars

\* A started run proceeds; the agent reruns the command, in the form the last
\* report asks for, and resolves a conflict sooner or later; the repair sync
\* and the owner's return to origin/main happen.
Fairness ==
    /\ WF_vars(Step)
    /\ \A t \in Threads : \A preserve \in BOOLEAN : SF_vars(Invoke(t, preserve))
    /\ SF_vars(ResolveConflict)
    /\ WF_vars(SyncFetch)
    /\ SF_vars(ResetToOrigin)
    /\ \A x \in Own : SF_vars(WriteChange(x))
    /\ WF_vars(\E f \in flight, lands \in BOOLEAN : FlightEnds(f, lands))

FairSpec == Spec /\ Fairness

----------------------------------------------------------------------------
(* Properties *)

Labels ==
    {"idle", "start", "create", "detach", "fetch", "rebase", "continue", "finalize",
     "clear", "count", "attempt", "push", "refetch", "attach", "switch", "cleanup",
     "recover", "cleanup_exhausted", "abort", "restore", "verify", "alloc",
     "preserve", "query", "prove", "cleanup_preserved"}

Codes ==
    {"none", "crashed", "failed", "push_failed", "conflict", "published",
     "main_changed", "exhausted", "abort_failed", "preserved",
     "preservation_pending", "preservation_changed"} \cup Refusals

Runs == [pc : Labels, thread : Threads \cup {None}, count : BOOLEAN,
         then : {"attempt", "fetch"}, before : Commit]

Outs == [code : Codes, change : Own \cup {None}]

TypeOK ==
    /\ origin \in Commit /\ tracking \in Commit /\ main \in Commit /\ head \in Commit
    /\ side \in [Branch -> Commit \cup {None}]
    /\ flight \subseteq [ref : Branch \cup {MainRef}, commit : Commit]
    /\ durable \subseteq Own \cup Foreign
    /\ attached \in BOOLEAN
    /\ rb \in Rebases \cup {None}
    /\ st \in States \cup {None}
    /\ work \in Own \cup {None} /\ unwritten \subseteq Own /\ stray \in BOOLEAN
    /\ run \in Runs
    /\ out \in Outs
    /\ faults \in 0 .. MaxFaults

\* A change the owner committed is on the remote, in the retained publication
\* or still on local main, however the runs were cut short (create_state,
\* cleanup_state, allocate_pending_preservation).
NothingLost ==
    \A x \in Own \ (unwritten \cup {work}) :
        \/ x \in durable
        \/ st # None /\ x \in Changes(st.original)
        \/ x \in Changes(main)

\* cleanup_state forgets a publication only after its change reached the
\* remote, on main, a recovery/ branch or a conflicts/ branch.
ForgottenOnlyWhenDurable ==
    [][st # None /\ st' = None => Subject \in durable']_vars

\* "proven" is recorded only once the original has been on the remote
\* (mark_preservation_proven).
ProvenWasPushed ==
    st # None /\ st.pres = "proven" => Subject \in durable

\* What a run reports is so: a published change is on main, a preserved one
\* has reached the remote, and one that exhausted its races is kept off main
\* (published_success, preserved_outcome, publish_attempts).
TruthfulReport ==
    /\ out.code \in {"published", "main_changed"} => out.change \in Changes(origin)
    /\ out.code = "preserved" => out.change \in durable
    /\ out.code = "exhausted" => out.change \in durable \ Changes(origin)

\* Every commit of the remote main branch holds the TODO.md of its own tasks,
\* although a rebase merges that generated file as text
\* (finalize_rebased_commit, continue_rebase).
TodoAgreesOnMain == \A i \in DOMAIN origin : origin[i].todo

\* HEAD is never more than the owner's one commit ahead of what is known of
\* main, so a rebase replays, and a push publishes, that commit and no other
\* (unpublished_preflight).
OneCommitAhead ==
    st # None => IsPrefix(head, tracking) \/ IsPrefix(Front(head), tracking)

\* After proof a retry verifies and cleans up, and never pushes again, even
\* when the branch is gone (retry_proven_cleanup).
ProvenNeverRepushed ==
    [][st # None /\ st.pres = "proven" /\ run' # run
           => UNCHANGED <<origin, side, flight>>]_vars

Durable == INSTANCE KnowledgeLog
    WITH Change <- Own \cup Foreign,
         log <- [i \in DOMAIN origin |-> origin[i].change],
         kept <- durable

\* Publication implements the abstract log of durable knowledge.
ImplementsKnowledgeLog == Durable!Spec

\* If only the network fails, and finitely often, every publication that was
\* started is settled and its change ends up on the remote (resume,
\* publish_attempts, push_pending_preservation).
EverySettled ==
    /\ st # None ~> st = None
    /\ \A x \in Own : x \notin unwritten \cup {work} ~> x \in durable
============================================================================
