-------------------------- MODULE LocalWritesProofs --------------------------
(***************************************************************************)
(* What the paired write of a task and TODO.md, and `kb todo`, guarantee   *)
(* with any number of editors, failing calls and crashes: reports are      *)
(* true, what a command replaces can be recovered, and no file of an       *)
(* editor is overwritten or removed.                                       *)
(***************************************************************************)
EXTENDS LocalWrites, FiniteSetTheorems, TLAPS

----------------------------------------------------------------------------
(* The inductive invariant *)

Reading    == {"open", "capture", "snapshot"}
Exchanging == {"verify", "displace", "recapture", "take", "return", "replace"}
Installing == {"gate", "rename"} \cup Exchanging
Undoing    == {"drop", "undo", "undo_take", "undo_check", "undo_return", "undo_restore",
               "undo_clean"}
Closing    == {"close", "rmdir", "report"}

\* A target is prepared, or installed with what it replaced at hand.
Ready(t)  == held[t] = "new" /\ aside[t] = "absent"
Stored(t) == held[t] = run.orig[t] /\ aside[t] = "absent"
Empty(t)  == held[t] = "absent" /\ aside[t] = "absent"

\* The order in which a command goes through its targets.
Ordered ==
    /\ run.cmd = "todo" => run.t = "todo" /\ run.phase = "initial" /\ run.rest = "none"
    /\ run.pc = "confirm" => run.cmd = "write" /\ run.t = "todo"
    /\ run.pc \in {"open", "prepare"} => run.cmd = "write"
    /\ run.pc \in Undoing /\ run.rest # "none" =>
          run.t = IF run.rest = "drop_todo" THEN "task" ELSE "todo"
    /\ run.pc \in Reading => run.receipts = {} /\ run.orig["todo"] = "absent"
    /\ run.pc \in Reading \cup {"prepare", "prepare_todo"} => run.rest = "none"
    /\ run.pc = "open" => run.orig["task"] = "absent"

\* What is in the directory of the command.
Sorted ==
    /\ run.pc \in Reading \cup {"prepare", "rmdir", "report"} => \A t \in Targets : Empty(t)
    /\ run.pc = "prepare_todo" =>
          Empty("todo") /\ IF run.cmd = "write" THEN Ready("task") ELSE Empty("task")
    /\ run.pc \in {"gate", "rename"} => Ready(run.t)
    /\ run.pc \in Installing /\ run.t = "task" => Ready("todo")
    /\ run.pc \in Installing /\ run.t = "todo" /\ run.cmd = "write" => Stored("task")
    /\ run.pc \in {"verify", "displace"} =>
          aside[run.t] = "absent" /\ (run.orig[run.t] = "absent" => held[run.t] = "absent")
    /\ run.pc \in Exchanging \ {"verify"} => run.orig[run.t] = "old" /\ touched # {}
    /\ run.pc = "displace" => held[run.t] # "old"
    /\ run.pc \in {"recapture", "take"} => held[run.t] = "absent"
    /\ run.pc \in {"return", "replace"} => run.t \notin run.receipts
    /\ run.pc = "confirm" => \A t \in Targets : Stored(t)
    /\ run.pc = "clear" => Stored(run.t) /\ (run.t = "task" => Stored("todo"))
    /\ run.pc = "settle" =>
          aside["todo"] = "absent" /\ (run.orig["todo"] = "absent" => held["todo"] = "absent")

\* What is in the directory while targets are taken back.
Undone ==
    /\ run.pc = "drop" => held[run.t] = "new"
    /\ run.pc \in Undoing /\ run.rest = "drop_todo" => Ready("todo")
    /\ run.pc \in Undoing /\ run.rest = "undo_task" => Stored("task")
    /\ run.pc \in {"undo", "undo_take"} =>
          /\ run.orig[run.t] = "absent" => held[run.t] = "absent"
          /\ held[run.t] = "old" /\ run.t \in run.receipts => aside[run.t] = "absent"
    /\ run.pc = "undo_take" /\ run.orig[run.t] = "old" => run.t \in run.receipts
    /\ run.pc \in {"undo_take", "undo_check"} /\ run.orig[run.t] = "old" => held[run.t] = "old"
    /\ run.pc = "undo_restore" => held[run.t] = "old"
    /\ run.pc \in {"undo_restore", "undo_clean"} => aside[run.t] = "new" /\ run.orig[run.t] = "old"

\* What a command replaces is there, until everything is installed.
Kept == \A t \in Installs(run) : run.orig[t] = "old" => "old" \in {public[t], held[t]}

Recoverable ==
    touched = {} =>
        /\ run.pc = "rename" => public[run.t] = run.orig[run.t]
        /\ run.pc = "verify" /\ run.orig[run.t] = "old" => held[run.t] = "old"
        /\ run.pc \in {"clear", "settle"} => AllNew
        /\ \/ Kept
           \/ AllNew /\ ( \/ run.pc \in {"clear", "settle", "idle"} \cup Closing
                          \/ run.pc = "undo" /\ run.cmd = "todo" )

\* Every target of a command that reports an error has a witness.
Left(r) ==
    CASE r = "drop_todo" -> {"todo"} [] r = "undo_task" -> {"task"} [] OTHER -> {}

Accounted ==
    /\ run.pc \in Undoing /\ ~run.bad => Installs(run) \subseteq run.witnessed \cup {run.t} \cup Left(run.rest)
    /\ run.pc \in Closing /\ run.result = "error" => Installs(run) \subseteq run.witnessed

\* The prepared TODO.md shows the tasks that the command has captured.
Shown == run.pc \notin {"idle", "open", "capture"} => shows.new = Rendered(run.cmd, run.expect)

\* An editor makes one foreign file with each fault.
Total(p, h, a, s) == Foreign(p) + Foreign(h) + Foreign(a) + s

Counted == Total(public, held, aside, strays) + faults <= MaxFaults

IInv ==
    TypeOK /\ Ordered /\ Sorted /\ Undone /\ Recoverable /\ Accounted /\ Shown /\ Counted

----------------------------------------------------------------------------
(* The run of a command *)

Commands == {"write", "todo"}
Phases   == {"initial", "transition", "committed", "rollback", "restored"}
Rests    == {"none", "drop_todo", "undo_task"}
Results  == {"ok", "error", "uncertain"}
Reports  == {"none", "running", "ok", "error", "uncertain", "crashed"}
FileType == [Targets -> Files]
ShowType == [old : Files \cup {"other"}, new : Files \cup {"other"}]

Run == [pc : Labels, cmd : Commands, t : Targets, orig : [Targets -> {"absent", "old"}],
        expect : Files, phase : Phases, sticky : BOOLEAN, receipts : SUBSET Targets,
        bad : BOOLEAN, rest : Rests, result : Results, witnessed : SUBSET Targets]

LEMMA RunType == TypeOK => run \in Run
BY DEF TypeOK, Run, Commands, Phases, Rests, Results

LEMMA IdleType ==
    /\ Idle \in Run /\ Idle.pc = "idle" /\ Idle.t = "todo" /\ Idle.phase = "initial"
    /\ Idle.rest = "none" /\ Idle.receipts = {} /\ \A t \in Targets : Idle.orig[t] = "absent"
BY DEF Idle, Run, Labels, Commands, Targets, Files, Phases, Rests, Results

\* The next run is r, except perhaps for the mismatch that it remembers.
Like(r) ==
    /\ run' \in Run /\ run'.pc = r.pc /\ run'.cmd = r.cmd /\ run'.t = r.t /\ run'.orig = r.orig
    /\ run'.expect = r.expect /\ run'.phase = r.phase /\ run'.receipts = r.receipts
    /\ run'.bad = r.bad /\ run'.rest = r.rest /\ run'.result = r.result
    /\ run'.witnessed = r.witnessed

LEMMA Gating ==
    ASSUME NEW exact, NEW then \in Run, NEW else \in Run, Gated(exact, then, else)
    PROVE  \/ InputsMatch /\ exact /\ Like(then)
           \/ ~(InputsMatch /\ exact) /\ Like(else)
<1>1. CASE InputsMatch /\ exact
  BY <1>1 DEF Gated, Like
<1>2. CASE ~(InputsMatch /\ exact)
  <2>1. (else.sticky \/ ~InputsMatch) \in BOOLEAN
    OBVIOUS
  <2>2. run' = [else EXCEPT !.sticky = else.sticky \/ ~InputsMatch]
    BY <1>2 DEF Gated
  <2>. QED BY <1>2, <2>1, <2>2 DEF Like, Run
<1>. QED BY <1>1, <1>2

LEMMA AtIs ==
    ASSUME TypeOK, NEW pc \in Labels
    PROVE  /\ At(pc) \in Run /\ At(pc).pc = pc /\ At(pc).cmd = run.cmd /\ At(pc).t = run.t
           /\ At(pc).orig = run.orig /\ At(pc).expect = run.expect /\ At(pc).phase = run.phase
           /\ At(pc).receipts = run.receipts /\ At(pc).bad = run.bad /\ At(pc).rest = run.rest
           /\ At(pc).result = run.result /\ At(pc).witnessed = run.witnessed
BY RunType DEF At, Run

LEMMA ConcludeIs ==
    ASSUME NEW r \in Run, NEW result \in Results
    PROVE  LET c == Conclude(r, result) IN
           /\ c \in Run /\ c.pc = "close" /\ c.cmd = r.cmd /\ c.t = r.t /\ c.orig = r.orig
           /\ c.expect = r.expect /\ c.phase = r.phase /\ c.receipts = r.receipts
           /\ c.bad = r.bad /\ c.rest = r.rest /\ c.witnessed = r.witnessed
           /\ c.result = IF r.bad THEN "uncertain" ELSE result
BY DEF Conclude, Run, Labels, Results

LEMMA WitnessedIs ==
    ASSUME NEW r \in Run, NEW t \in Targets
    PROVE  LET w == Witnessed(t, r) IN
           /\ w \in Run /\ w.pc = r.pc /\ w.cmd = r.cmd /\ w.t = r.t /\ w.orig = r.orig
           /\ w.expect = r.expect /\ w.phase = r.phase /\ w.receipts = r.receipts
           /\ w.bad = r.bad /\ w.rest = r.rest /\ w.result = r.result
           /\ w.witnessed = r.witnessed \cup {t}
BY DEF Witnessed, Run

LEMMA NextJobIs ==
    ASSUME NEW r \in Run
    PROVE  LET n == NextJob(r) IN
           /\ n \in Run /\ n.cmd = r.cmd /\ n.orig = r.orig /\ n.expect = r.expect
           /\ n.receipts = r.receipts /\ n.bad = r.bad /\ n.witnessed = r.witnessed
           /\ n.rest = "none"
           /\ r.rest = "none" => /\ n.pc = "close" /\ n.t = r.t /\ n.phase = r.phase
                                 /\ n.result = IF r.bad THEN "uncertain" ELSE "error"
           /\ r.rest = "drop_todo" => n.pc = "drop" /\ n.t = "todo" /\ n.phase = r.phase
           /\ r.rest = "undo_task" => n.pc = "undo" /\ n.t = "task"
<1>1. CASE r.rest = "none"
  <2>1. NextJob(r) = Conclude(r, "error")
    BY <1>1 DEF NextJob
  <2>2. "error" \in Results
    BY DEF Results
  <2>. QED BY <1>1, <2>1, <2>2, ConcludeIs
<1>2. CASE r.rest = "drop_todo"
  BY <1>2 DEF NextJob, Run, Labels, Targets, Rests
<1>3. CASE r.rest = "undo_task"
  BY <1>3 DEF NextJob, Run, Labels, Targets, Rests, Phases
<1>. QED BY <1>1, <1>2, <1>3 DEF Run, Rests

LEMMA InstallFailedIs ==
    ASSUME NEW r \in Run, NEW installed \in BOOLEAN, r.cmd = "todo" => r.t = "todo"
    PROVE  LET f == InstallFailed(r, installed) IN
           /\ f \in Run /\ f.pc = (IF installed THEN "undo" ELSE "drop")
           /\ f.cmd = r.cmd /\ f.t = r.t /\ f.orig = r.orig /\ f.expect = r.expect
           /\ f.receipts = r.receipts /\ f.bad = r.bad /\ f.result = r.result
           /\ f.witnessed = r.witnessed
           /\ f.phase = IF installed /\ r.t = "task" THEN "rollback" ELSE r.phase
           /\ f.rest = IF r.cmd = "todo" THEN "none"
                       ELSE IF r.t = "task" THEN "drop_todo" ELSE "undo_task"
<1>. DEFINE pc    == IF installed THEN "undo" ELSE "drop"
            phase == IF installed /\ r.t = "task" THEN "rollback" ELSE r.phase
            rest  == IF r.cmd = "todo" THEN "none"
                     ELSE IF r.t = "task" THEN "drop_todo" ELSE "undo_task"
<1>1. InstallFailed(r, installed) = [r EXCEPT !.pc = pc, !.phase = phase, !.rest = rest]
  <2>1. CASE r.cmd = "todo"
    BY <2>1 DEF InstallFailed
  <2>2. CASE r.cmd # "todo" /\ r.t = "task"
    BY <2>2 DEF InstallFailed
  <2>3. CASE r.cmd # "todo" /\ r.t # "task"
    BY <2>3 DEF InstallFailed
  <2>. QED BY <2>1, <2>2, <2>3
<1>2. pc \in Labels /\ phase \in Phases /\ rest \in Rests
  BY DEF Labels, Phases, Rests, Run
<1>. HIDE DEF pc, phase, rest
<1>3. [r EXCEPT !.pc = pc, !.phase = phase, !.rest = rest] \in Run
  BY <1>2 DEF Run
<1>4. LET f == [r EXCEPT !.pc = pc, !.phase = phase, !.rest = rest] IN
      /\ f.pc = pc /\ f.cmd = r.cmd /\ f.t = r.t /\ f.orig = r.orig /\ f.expect = r.expect
      /\ f.receipts = r.receipts /\ f.bad = r.bad /\ f.result = r.result
      /\ f.witnessed = r.witnessed /\ f.phase = phase /\ f.rest = rest
  BY <1>2 DEF Run
<1>. QED BY <1>1, <1>3, <1>4 DEF pc, phase, rest

----------------------------------------------------------------------------
(* Foreign files *)

One(x) == IF x = "foreign" THEN 1 ELSE 0

\* The foreign files of one target.
Of(p, h, a, t) == One(p[t]) + One(h[t]) + One(a[t])

Balanced == Total(public', held', aside', strays') = Total(public, held, aside, strays)

LEMMA ForeignSum ==
    ASSUME NEW f
    PROVE  Foreign(f) = One(f["task"]) + One(f["todo"]) /\ Foreign(f) \in Nat
<1>. DEFINE F == {t \in Targets : f[t] = "foreign"}
<1>1. CASE f["task"] = "foreign" /\ f["todo"] = "foreign"
  <2>1. F = {"task"} \cup {"todo"}
    BY <1>1 DEF Targets
  <2>2. "todo" \notin {"task"} /\ IsFiniteSet({"task"}) /\ Cardinality({"task"}) = 1
    BY FS_Singleton
  <2>3. Cardinality({"task"} \cup {"todo"}) = 2
    BY <2>2, FS_AddElement
  <2>4. Foreign(f) = 2
    BY <2>1, <2>3 DEF Foreign
  <2>. QED BY <1>1, <2>4 DEF One
<1>2. CASE f["task"] = "foreign" /\ f["todo"] # "foreign"
  <2>1. F = {"task"}
    BY <1>2 DEF Targets
  <2>2. Foreign(f) = 1
    BY <2>1, FS_Singleton DEF Foreign
  <2>. QED BY <1>2, <2>2 DEF One
<1>3. CASE f["task"] # "foreign" /\ f["todo"] = "foreign"
  <2>1. F = {"todo"}
    BY <1>3 DEF Targets
  <2>2. Foreign(f) = 1
    BY <2>1, FS_Singleton DEF Foreign
  <2>. QED BY <1>3, <2>2 DEF One
<1>4. CASE f["task"] # "foreign" /\ f["todo"] # "foreign"
  <2>1. F = {}
    BY <1>4 DEF Targets
  <2>2. Foreign(f) = 0
    BY <2>1, FS_EmptySet DEF Foreign
  <2>. QED BY <1>4, <2>2 DEF One
<1>. QED BY <1>1, <1>2, <1>3, <1>4

LEMMA TotalIs ==
    ASSUME NEW p, NEW h, NEW a, NEW s \in Nat
    PROVE  /\ Total(p, h, a, s) = Of(p, h, a, "task") + Of(p, h, a, "todo") + s
           /\ Total(p, h, a, s) \in Nat
           /\ Of(p, h, a, "task") \in Nat /\ Of(p, h, a, "todo") \in Nat
<1>1. \A x : One(x) \in Nat
  BY DEF One
<1>2. /\ One(p["task"]) \in Nat /\ One(h["task"]) \in Nat /\ One(a["task"]) \in Nat
      /\ One(p["todo"]) \in Nat /\ One(h["todo"]) \in Nat /\ One(a["todo"]) \in Nat
  BY <1>1
<1>3. /\ Foreign(p) = One(p["task"]) + One(p["todo"])
      /\ Foreign(h) = One(h["task"]) + One(h["todo"])
      /\ Foreign(a) = One(a["task"]) + One(a["todo"])
  BY ForeignSum
<1>. QED BY <1>2, <1>3 DEF Total, Of

\* A step that moves the files of one target loses and makes no foreign file.
LEMMA Even ==
    ASSUME TypeOK, NEW t \in Targets, strays' = strays,
           \A u \in Targets \ {t} :
              public'[u] = public[u] /\ held'[u] = held[u] /\ aside'[u] = aside[u],
           Of(public', held', aside', t) = Of(public, held, aside, t)
    PROVE  Balanced
<1>0. strays \in Nat /\ strays' \in Nat
  BY FaultAssumption DEF TypeOK
<1>1. \A u \in Targets : Of(public', held', aside', u) = Of(public, held, aside, u)
  BY DEF Of
<1>2. /\ Of(public', held', aside', "task") = Of(public, held, aside, "task")
      /\ Of(public', held', aside', "todo") = Of(public, held, aside, "todo")
  BY <1>1 DEF Targets
<1>3. /\ Total(public, held, aside, strays)
           = Of(public, held, aside, "task") + Of(public, held, aside, "todo") + strays
      /\ Total(public', held', aside', strays')
           = Of(public', held', aside', "task") + Of(public', held', aside', "todo") + strays'
  BY <1>0, TotalIs
<1>. QED BY <1>2, <1>3 DEF Balanced

LEMMA Still ==
    ASSUME UNCHANGED <<worktree, strays>>
    PROVE  Balanced
BY DEF Balanced, worktree

\* The parts of the invariant, and the types of a step.
LEMMA Assembled ==
    ASSUME IInv, run' \in Run, \A t \in run'.receipts : run'.orig[t] = "old",
           public' \in FileType, held' \in FileType, aside' \in FileType, out' \in Reports,
           moved' \in BOOLEAN, strays' \in Nat, shows' \in ShowType, touched' \subseteq Targets,
           faults' \in 0 .. faults,
           Total(public', held', aside', strays') <= Total(public, held, aside, strays),
           Ordered', Sorted', Undone', Recoverable', Accounted', Shown'
    PROVE  IInv'
<1>0. strays \in Nat /\ faults \in Nat /\ faults' \in Nat /\ faults' <= faults
  BY FaultAssumption DEF IInv, TypeOK
<1>1. /\ Total(public, held, aside, strays) \in Nat
      /\ Total(public', held', aside', strays') \in Nat
      /\ strays' <= Total(public', held', aside', strays')
  <2>1. /\ Foreign(public') \in Nat /\ Foreign(held') \in Nat /\ Foreign(aside') \in Nat
        /\ Foreign(public) \in Nat /\ Foreign(held) \in Nat /\ Foreign(aside) \in Nat
    BY ForeignSum
  <2>. QED BY <1>0, <2>1 DEF Total
<1>2. Total(public', held', aside', strays') + faults' <= MaxFaults
  <2>1. Total(public, held, aside, strays) + faults <= MaxFaults
    BY DEF IInv, Counted
  <2>. QED BY <1>0, <1>1, <2>1, FaultAssumption
<1>3. strays' \in 0 .. MaxFaults /\ faults' \in 0 .. MaxFaults
  BY <1>0, <1>1, <1>2, FaultAssumption
<1>4. Counted'
  BY <1>2 DEF Counted
<1>5. TypeOK'
  <2>1. run' \in [pc : Labels, cmd : {"write", "todo"}, t : Targets,
                  orig : [Targets -> {"absent", "old"}], expect : Files,
                  phase : {"initial", "transition", "committed", "rollback", "restored"},
                  sticky : BOOLEAN, receipts : SUBSET Targets, bad : BOOLEAN,
                  rest : {"none", "drop_todo", "undo_task"},
                  result : {"ok", "error", "uncertain"}, witnessed : SUBSET Targets]
    BY DEF Run, Commands, Phases, Rests, Results
  <2>. QED BY <1>3, <2>1 DEF TypeOK, FileType, Reports, ShowType
<1>. QED BY <1>4, <1>5 DEF IInv

\* A step of a command that changes files and its run only.
LEMMA RunStep ==
    ASSUME IInv, run' \in Run, run'.orig = run.orig, run'.receipts \subseteq run.receipts,
           public' \in FileType, held' \in FileType, aside' \in FileType,
           UNCHANGED <<out, inputs, strays, touched>>, faults' \in 0 .. faults, Balanced,
           Ordered', Sorted', Undone', Recoverable', Accounted', Shown'
    PROVE  IInv'
<1>1. /\ \A t \in run'.receipts : run'.orig[t] = "old"
      /\ out' \in Reports /\ moved' \in BOOLEAN /\ strays' \in Nat /\ shows' \in ShowType
      /\ touched' \subseteq Targets
  BY FaultAssumption DEF IInv, TypeOK, Reports, ShowType, inputs
<1>2. Total(public', held', aside', strays') <= Total(public, held, aside, strays)
  <2>1. Total(public, held, aside, strays) \in Nat
    BY TotalIs, FaultAssumption DEF IInv, TypeOK
  <2>. QED BY <2>1 DEF Balanced
<1>. QED BY <1>1, <1>2, Assembled

Later == run.pc \notin {"idle", "open", "capture"}

LEMMA InstallsIn == ASSUME NEW r PROVE Installs(r) \subseteq Targets /\ "todo" \in Installs(r)
BY DEF Installs, Targets

\* Where a failed installation goes on.
LEMMA Failing ==
    ASSUME IInv, Later, shows' = shows, NEW b \in BOOLEAN, Like(InstallFailed(run, b)),
           run.cmd = "write" /\ run.t = "task" => held'["todo"] = "new" /\ aside'["todo"] = "absent",
           run.cmd = "write" /\ run.t = "todo" =>
              held'["task"] = run.orig["task"] /\ aside'["task"] = "absent",
           b \/ held'[run.t] = "new",
           b => /\ run.orig[run.t] = "absent" => held'[run.t] = "absent"
                /\ held'[run.t] = "old" /\ run.t \in run.receipts => aside'[run.t] = "absent"
    PROVE  Ordered' /\ Sorted' /\ Undone' /\ Accounted' /\ Shown'
<1>0. /\ run \in Run /\ (run.cmd = "todo" => run.t = "todo" /\ run.phase = "initial")
      /\ run.cmd \in {"write", "todo"} /\ run.t \in {"task", "todo"}
  BY RunType DEF IInv, TypeOK, Ordered, Targets
<1>1. /\ run' \in Run /\ run'.pc = (IF b THEN "undo" ELSE "drop")
      /\ run'.cmd = run.cmd /\ run'.t = run.t /\ run'.orig = run.orig /\ run'.expect = run.expect
      /\ run'.receipts = run.receipts /\ run'.bad = run.bad /\ run'.witnessed = run.witnessed
      /\ run'.phase = IF b /\ run.t = "task" THEN "rollback" ELSE run.phase
      /\ run'.rest = IF run.cmd = "todo" THEN "none"
                     ELSE IF run.t = "task" THEN "drop_todo" ELSE "undo_task"
  BY <1>0, InstallFailedIs DEF Like
<1>2. run'.pc \in {"undo", "drop"}
  BY <1>1
<1>3. Ordered'
  BY <1>0, <1>1, <1>2 DEF Ordered, Reading, Undoing
<1>4. Sorted'
  BY <1>2 DEF Sorted, Reading, Installing, Exchanging
<1>5. Undone'
  BY <1>0, <1>1 DEF Undone, Undoing, Ready, Stored
<1>6. Accounted'
  <2>1. CASE run.cmd = "todo"
    BY <1>0, <1>1, <2>1 DEF Accounted, Installs, Closing
  <2>2. CASE run.cmd = "write" /\ run.t = "task"
    BY <1>1, <2>2 DEF Accounted, Installs, Closing, Targets, Left
  <2>3. CASE run.cmd = "write" /\ run.t = "todo"
    BY <1>1, <2>3 DEF Accounted, Installs, Closing, Targets, Left
  <2>. QED BY <1>0, <2>1, <2>2, <2>3
<1>7. Shown'
  BY <1>1 DEF IInv, Shown, Later
<1>. QED BY <1>3, <1>4, <1>5, <1>6, <1>7

\* Where the next target goes on, or the command concludes.
LEMMA Landing ==
    ASSUME IInv, Later, shows' = shows, NEW r \in Run, Like(NextJob(r)), r.cmd = run.cmd,
           r.orig = run.orig, r.expect = run.expect,
           r.cmd = "todo" => r.t = "todo" /\ r.phase = "initial" /\ r.rest = "none",
           r.rest = "drop_todo" => held'["todo"] = "new" /\ aside'["todo"] = "absent",
           r.rest = "undo_task" => held'["task"] = run.orig["task"] /\ aside'["task"] = "absent",
           r.bad \/ Installs(r) \subseteq r.witnessed \cup Left(r.rest)
    PROVE  Ordered' /\ Sorted' /\ Undone' /\ Accounted' /\ Shown'
<1>1. /\ run' \in Run /\ run'.cmd = run.cmd /\ run'.orig = run.orig /\ run'.expect = run.expect
      /\ run'.bad = r.bad /\ run'.witnessed = r.witnessed /\ run'.rest = "none"
      /\ r.rest = "none" => /\ run'.pc = "close" /\ run'.t = r.t /\ run'.phase = r.phase
                            /\ run'.result = IF r.bad THEN "uncertain" ELSE "error"
      /\ r.rest = "drop_todo" => run'.pc = "drop" /\ run'.t = "todo" /\ run'.phase = r.phase
      /\ r.rest = "undo_task" => run'.pc = "undo" /\ run'.t = "task"
      /\ r.rest \in {"none", "drop_todo", "undo_task"} /\ r.bad \in BOOLEAN
  BY NextJobIs DEF Like, Run, Rests
<1>2. run'.pc \in {"close", "drop", "undo"}
  BY <1>1
<1>3. Ordered'
  BY <1>1, <1>2 DEF Ordered, Reading, Undoing
<1>4. Sorted'
  BY <1>2 DEF Sorted, Reading, Installing, Exchanging
<1>5. Undone'
  BY <1>1 DEF Undone, Undoing, Ready, Stored
<1>6. Accounted'
  <2>1. CASE r.rest = "none"
    BY <1>1, <2>1 DEF Accounted, Installs, Undoing, Left
  <2>2. CASE r.rest = "drop_todo"
    BY <1>1, <2>2 DEF Accounted, Installs, Closing, Left
  <2>3. CASE r.rest = "undo_task"
    BY <1>1, <2>3 DEF Accounted, Installs, Closing, Left
  <2>. QED BY <1>1, <2>1, <2>2, <2>3
<1>7. Shown'
  BY <1>1 DEF IInv, Shown, Later
<1>. QED BY <1>3, <1>4, <1>5, <1>6, <1>7

\* Where editors stay away, what a command replaces stays there.
LEMMA Keeping ==
    ASSUME run'.pc \notin {"rename", "verify", "clear", "settle"}, Installs(run') = Installs(run),
           run'.orig = run.orig, touched' = touched,
           touched = {} => \A t \in Installs(run) :
                              run.orig[t] = "old" => "old" \in {public'[t], held'[t]}
    PROVE  Recoverable'
BY DEF Recoverable, Kept

----------------------------------------------------------------------------
(* Capturing the inputs *)

LEMMA BeginInv ==
    ASSUME IInv, NEW cmd \in Commands, Begin(cmd)
    PROVE  IInv' /\ Balanced
<1>0. TypeOK /\ strays \in Nat /\ faults' \in 0 .. faults
  BY FaultAssumption DEF IInv, TypeOK, Begin
<1>1. /\ run' \in Run /\ run'.cmd = cmd /\ run'.t = "todo" /\ run'.phase = "initial"
      /\ run'.rest = "none" /\ run'.receipts = {} /\ \A t \in Targets : run'.orig[t] = "absent"
      /\ run'.pc = (IF cmd = "write" THEN "open" ELSE "capture")
  BY IdleType DEF Begin, Run, Labels
<1>2. /\ public' \in FileType /\ held' \in FileType /\ aside' \in FileType
      /\ \A t \in Targets : held'[t] = "absent" /\ aside'[t] = "absent"
      /\ \A t \in Targets : public'[t] = "foreign" <=> public[t] = "foreign"
  BY <1>0 DEF Begin, OwnDirectory, Aged, FileType, Files, TypeOK
<1>3. Balanced
  <2>1. Foreign(held') = 0 /\ Foreign(aside') = 0 /\ Foreign(public') = Foreign(public)
    BY <1>2, ForeignSum DEF One, Targets
  <2>2. strays' = strays + Foreign(held) + Foreign(aside)
    BY DEF Begin, OwnDirectory
  <2>. QED BY <1>0, <2>1, <2>2, ForeignSum DEF Balanced, Total
<1>4. shows' \in ShowType
  BY <1>0 DEF Begin, Aged, ShowType, TypeOK, Files, Targets
<1>5. Ordered' /\ Sorted' /\ Undone' /\ Accounted' /\ Shown'
  <2>1. run'.pc \in {"open", "capture"} /\ (run'.pc = "open" => run'.cmd = "write")
    BY <1>1
  <2>2. Ordered'
    BY <1>1, <2>1 DEF Ordered, Undoing, Reading, Targets
  <2>3. Sorted'
    BY <1>2, <2>1 DEF Sorted, Empty, Installing, Exchanging
  <2>. QED BY <2>1, <2>2, <2>3 DEF Undone, Accounted, Shown, Undoing, Closing
<1>6. Recoverable'
  <2>1. run'.pc \in {"open", "capture"}
    BY <1>1
  <2>2. Kept'
    BY <1>1, InstallsIn DEF Kept
  <2>. QED BY <2>1, <2>2 DEF Recoverable
<1>7. /\ out' \in Reports /\ moved' \in BOOLEAN /\ touched' \subseteq Targets /\ strays' \in Nat
      /\ \A t \in run'.receipts : run'.orig[t] = "old"
  <2>1. Foreign(held) \in Nat /\ Foreign(aside) \in Nat
    BY ForeignSum
  <2>2. strays' \in Nat
    BY <1>0, <2>1 DEF Begin, OwnDirectory
  <2>. QED BY <1>1, <2>2 DEF Begin, Reports
<1>8. Total(public', held', aside', strays') <= Total(public, held, aside, strays)
  BY <1>0, <1>3, TotalIs DEF Balanced
<1>. QED BY <1>0, <1>1, <1>2, <1>3, <1>4, <1>5, <1>6, <1>7, <1>8, Assembled

\* Reading a file makes it the old one: no foreign file more.
LEMMA Fewer ==
    ASSUME TypeOK, UNCHANGED <<held, aside, strays>>, \A t \in Targets : public'[t] = "foreign" => public[t] = "foreign"
    PROVE  Total(public', held', aside', strays') <= Total(public, held, aside, strays)
<1>1. Foreign(public') <= Foreign(public)
  BY ForeignSum DEF One, Targets
<1>2. strays \in Nat
  BY FaultAssumption DEF TypeOK
<1>3. Foreign(held) \in Nat /\ Foreign(aside) \in Nat /\ Foreign(public) \in Nat /\ Foreign(public') \in Nat
  BY ForeignSum
<1>. QED BY <1>1, <1>2, <1>3 DEF Total

\* The file that was read, and what TODO.md shows.
LEMMA Reads ==
    ASSUME TypeOK, NEW t \in Targets, Read(t)
    PROVE  /\ public' \in FileType /\ shows' \in ShowType /\ shows'.new = shows.new
           /\ public'[t] = (IF public[t] = "absent" THEN "absent" ELSE "old")
           /\ \A u \in Targets \ {t} : public'[u] = public[u]
           /\ \A u \in Targets : public'[u] = "foreign" => public[u] = "foreign"
BY DEF TypeOK, Read, Place, FileType, Files, ShowType

LEMMA OpenTaskInv ==
    ASSUME IInv, OpenTask
    PROVE  IInv'
<1>0. /\ TypeOK /\ run \in Run /\ run.pc = "open" /\ Read("task") /\ "task" \in Targets
      /\ UNCHANGED <<held, aside, out, moved, history>> /\ faults' \in 0 .. faults
  BY RunType, FaultAssumption DEF IInv, TypeOK, OpenTask, history, Targets
<1>1. /\ public' \in FileType /\ shows' \in ShowType
      /\ public'["task"] = (IF public["task"] = "absent" THEN "absent" ELSE "old")
      /\ \A u \in Targets : public'[u] = "foreign" => public[u] = "foreign"
  BY <1>0, Reads
<1>2. /\ run' \in Run /\ run'.pc = "capture" /\ run'.cmd = run.cmd /\ run'.t = run.t
      /\ run'.phase = run.phase /\ run'.rest = run.rest /\ run'.receipts = run.receipts
      /\ run'.orig = [run.orig EXCEPT !["task"] = public'["task"]]
  BY <1>0, <1>1 DEF OpenTask, At, Run, Labels
<1>3. /\ run.receipts = {} /\ run.orig["todo"] = "absent" /\ \A t \in Targets : Empty(t)
      /\ run.cmd = "write" /\ run'.orig["task"] = public'["task"] /\ run'.orig["todo"] = "absent"
  BY <1>0, <1>1, <1>2 DEF IInv, Ordered, Sorted, Reading, Run, Targets
<1>4. Ordered' /\ Sorted' /\ Undone' /\ Accounted' /\ Shown'
  <2>1. Ordered'
    BY <1>0, <1>2, <1>3 DEF IInv, Ordered, Undoing, Reading
  <2>2. Sorted'
    BY <1>0, <1>2, <1>3 DEF Sorted, Empty, Installing, Exchanging
  <2>. QED BY <1>2, <2>1, <2>2 DEF Undone, Accounted, Shown, Undoing, Closing
<1>5. Recoverable'
  BY <1>2, <1>3 DEF Recoverable, Kept, Installs, Targets
<1>6. /\ \A t \in run'.receipts : run'.orig[t] = "old"
      /\ held' \in FileType /\ aside' \in FileType /\ out' \in Reports
      /\ moved' \in BOOLEAN /\ strays' \in Nat /\ touched' \subseteq Targets
  BY <1>0, <1>2, <1>3, FaultAssumption DEF TypeOK, FileType, Reports, history
<1>7. Total(public', held', aside', strays') <= Total(public, held, aside, strays)
  BY <1>0, <1>1, Fewer DEF history
<1>. QED BY <1>0, <1>1, <1>2, <1>4, <1>5, <1>6, <1>7, Assembled

LEMMA CaptureInputInv ==
    ASSUME IInv, CaptureInput
    PROVE  IInv'
<1>0. /\ TypeOK /\ run \in Run /\ run.pc = "capture" /\ run.cmd \in {"write", "todo"}
      /\ UNCHANGED <<held, aside, out, history>> /\ faults' \in 0 .. faults
  BY RunType, FaultAssumption DEF IInv, TypeOK, CaptureInput, history
<1>1. /\ public' \in FileType /\ moved' \in BOOLEAN
      /\ run.cmd = "write" => public' = public
      /\ \A u \in Targets : public'[u] = "foreign" => public[u] = "foreign"
  <2>1. CASE run.cmd = "write"
    BY <1>0, <2>1 DEF CaptureInput, TypeOK, FileType
  <2>2. CASE run.cmd = "todo"
    <3>1. /\ public' = Place(public, "task", IF public["task"] = "absent" THEN "absent" ELSE "old")
          /\ moved' = FALSE
      BY <2>2 DEF CaptureInput
    <3>. QED BY <1>0, <2>2, <3>1 DEF TypeOK, FileType, Place, Files
  <2>. QED BY <1>0, <2>1, <2>2
<1>2. /\ run' \in Run /\ run'.pc = "snapshot" /\ run'.cmd = run.cmd /\ run'.t = run.t
      /\ run'.phase = run.phase /\ run'.rest = run.rest /\ run'.receipts = run.receipts
      /\ run'.orig = run.orig /\ run'.expect = public'["task"]
  BY <1>0, <1>1 DEF CaptureInput, At, Run, Labels, FileType, Targets
<1>3. shows' \in ShowType /\ shows'.new = Rendered(run'.cmd, run'.expect)
  BY <1>0, <1>1, <1>2 DEF CaptureInput, Rendered, ShowType, TypeOK, FileType, Files, Targets
<1>4. /\ run.receipts = {} /\ run.orig["todo"] = "absent" /\ \A t \in Targets : Empty(t)
  BY <1>0 DEF IInv, Ordered, Sorted, Reading
<1>5. Ordered' /\ Sorted' /\ Undone' /\ Accounted' /\ Shown'
  <2>1. Ordered'
    BY <1>0, <1>2, <1>4 DEF IInv, Ordered, Undoing, Reading
  <2>2. Sorted'
    BY <1>0, <1>2, <1>4 DEF Sorted, Empty, Installing, Exchanging
  <2>. QED BY <1>2, <1>3, <2>1, <2>2 DEF Undone, Accounted, Shown, Undoing, Closing
<1>6. Recoverable'
  <2>1. CASE run.cmd = "todo"
    BY <1>2, <1>4, <2>1 DEF Recoverable, Kept, Installs
  <2>2. CASE run.cmd = "write"
    BY <1>0, <1>1, <1>2, <1>4, <2>2 DEF IInv, Recoverable, Kept, Installs, Closing, history
  <2>. QED BY <1>0, <2>1, <2>2
<1>7. /\ \A t \in run'.receipts : run'.orig[t] = "old"
      /\ held' \in FileType /\ aside' \in FileType /\ out' \in Reports
      /\ strays' \in Nat /\ touched' \subseteq Targets
  BY <1>0, <1>2, <1>4, FaultAssumption DEF TypeOK, FileType, Reports, history
<1>8. Total(public', held', aside', strays') <= Total(public, held, aside, strays)
  BY <1>0, <1>1, Fewer DEF history
<1>. QED BY <1>0, <1>1, <1>2, <1>3, <1>5, <1>6, <1>7, <1>8, Assembled

LEMMA SnapshotTodoInv ==
    ASSUME IInv, SnapshotTodo
    PROVE  IInv'
<1>0. /\ TypeOK /\ run \in Run /\ run.pc = "snapshot" /\ Read("todo") /\ "todo" \in Targets
      /\ UNCHANGED <<held, aside, out, moved, history>> /\ faults' \in 0 .. faults
      /\ run.cmd \in {"write", "todo"}
  BY RunType, FaultAssumption DEF IInv, TypeOK, SnapshotTodo, history, Targets
<1>1. /\ public' \in FileType /\ shows' \in ShowType /\ shows'.new = shows.new
      /\ public'["todo"] = (IF public["todo"] = "absent" THEN "absent" ELSE "old")
      /\ public'["task"] = public["task"]
      /\ \A u \in Targets : public'[u] = "foreign" => public[u] = "foreign"
  BY <1>0, Reads DEF Targets
<1>2. /\ run' \in Run /\ run'.cmd = run.cmd /\ run'.t = run.t /\ run'.expect = run.expect
      /\ run'.pc = (IF run.cmd = "write" THEN "prepare" ELSE "prepare_todo")
      /\ run'.phase = run.phase /\ run'.rest = run.rest /\ run'.receipts = run.receipts
      /\ run'.orig = [run.orig EXCEPT !["todo"] = public'["todo"]]
  BY <1>0, <1>1 DEF SnapshotTodo, At, Run, Labels
<1>3. /\ run.receipts = {} /\ \A t \in Targets : Empty(t)
      /\ run'.orig["task"] = run.orig["task"] /\ run'.orig["todo"] = public'["todo"]
  BY <1>0, <1>2 DEF IInv, Ordered, Sorted, Reading, Run, Targets
<1>a. run'.pc \in {"prepare", "prepare_todo"}
  BY <1>2
<1>4. Ordered' /\ Sorted' /\ Undone' /\ Accounted' /\ Shown'
  <2>1. Ordered'
    BY <1>0, <1>2, <1>a DEF IInv, Ordered, Undoing, Reading
  <2>2. Sorted'
    BY <1>0, <1>2, <1>3, <1>a DEF Sorted, Empty, Installing, Exchanging, Reading, Targets
  <2>3. Shown'
    BY <1>0, <1>1, <1>2 DEF IInv, Shown
  <2>. QED BY <1>a, <2>1, <2>2, <2>3 DEF Undone, Accounted, Undoing, Closing
<1>5. Recoverable'
  BY <1>0, <1>1, <1>2, <1>3, <1>a DEF IInv, Recoverable, Kept, Installs, Targets, Closing, history
<1>6. /\ \A t \in run'.receipts : run'.orig[t] = "old"
      /\ held' \in FileType /\ aside' \in FileType /\ out' \in Reports
      /\ moved' \in BOOLEAN /\ strays' \in Nat /\ touched' \subseteq Targets
  BY <1>0, <1>2, <1>3, FaultAssumption DEF TypeOK, FileType, Reports, history
<1>7. Total(public', held', aside', strays') <= Total(public, held, aside, strays)
  BY <1>0, <1>1, Fewer DEF history
<1>. QED BY <1>0, <1>1, <1>2, <1>4, <1>5, <1>6, <1>7, Assembled

----------------------------------------------------------------------------
(* Preparing and installing *)

\* The types of a step, and the files of one target that it changes.
LEMMA OneTarget ==
    ASSUME TypeOK, NEW t \in Targets, NEW p \in Files, NEW h \in Files, NEW a \in Files,
           public' = Place(public, t, p), held' = Place(held, t, h), aside' = Place(aside, t, a),
           strays' = strays, One(p) + One(h) + One(a) = Of(public, held, aside, t)
    PROVE  /\ public' \in FileType /\ held' \in FileType /\ aside' \in FileType
           /\ public'[t] = p /\ held'[t] = h /\ aside'[t] = a
           /\ \A u \in Targets \ {t} :
                 public'[u] = public[u] /\ held'[u] = held[u] /\ aside'[u] = aside[u]
           /\ Balanced
<1>1. /\ public' \in FileType /\ held' \in FileType /\ aside' \in FileType
      /\ public'[t] = p /\ held'[t] = h /\ aside'[t] = a
      /\ \A u \in Targets \ {t} :
            public'[u] = public[u] /\ held'[u] = held[u] /\ aside'[u] = aside[u]
  BY DEF TypeOK, FileType, Place
<1>2. Of(public', held', aside', t) = Of(public, held, aside, t)
  BY <1>1 DEF Of
<1>. QED BY <1>1, <1>2, Even

LEMMA Same ==
    ASSUME TypeOK, NEW t \in Targets
    PROVE  /\ Place(public, t, public[t]) = public /\ Place(held, t, held[t]) = held
           /\ Place(aside, t, aside[t]) = aside
           /\ public[t] \in Files /\ held[t] \in Files /\ aside[t] \in Files
BY DEF TypeOK, Place

LEMMA KeptBefore ==
    ASSUME IInv, touched = {}, Later,
           run.pc \notin {"clear", "settle"} \cup Closing, ~(run.pc = "undo" /\ run.cmd = "todo")
    PROVE  Kept
BY DEF IInv, Recoverable, Later

LEMMA PrepareTaskInv ==
    ASSUME IInv, PrepareTask
    PROVE  IInv' /\ Balanced
<1>0. /\ TypeOK /\ run \in Run /\ run.pc = "prepare" /\ "task" \in Targets /\ Later
      /\ UNCHANGED <<public, aside, out, inputs, history>> /\ faults' \in 0 .. faults
      /\ run.cmd = "write" /\ \A t \in Targets : Empty(t)
  BY RunType, FaultAssumption
     DEF IInv, TypeOK, PrepareTask, history, Targets, Ordered, Sorted, Later
<1>1. /\ public' \in FileType /\ held' \in FileType /\ aside' \in FileType
      /\ held'["task"] = "new" /\ aside'["task"] = "absent"
      /\ held'["todo"] = "absent" /\ aside'["todo"] = "absent" /\ Balanced
  <2>1. held["task"] = "absent" /\ aside["task"] = "absent" /\ Empty("todo")
    BY <1>0 DEF Empty, Targets
  <2>2. One(public["task"]) + One("new") + One(aside["task"]) = Of(public, held, aside, "task")
    BY <2>1 DEF Of, One
  <2>3. /\ public' = Place(public, "task", public["task"]) /\ held' = Place(held, "task", "new")
        /\ aside' = Place(aside, "task", aside["task"]) /\ strays' = strays /\ "new" \in Files
    BY <1>0, Same DEF PrepareTask, history, Files
  <2>. HIDE DEF Of
  <2>. QED BY <1>0, <2>1, <2>2, <2>3, Same, OneTarget DEF Empty, Targets
<1>. DEFINE r == [run EXCEPT !.phase = "transition"]
            u == [r EXCEPT !.bad = TRUE, !.witnessed = Targets]
<1>2. r \in Run /\ u \in Run /\ [r EXCEPT !.pc = "prepare_todo"] \in Run /\ "error" \in Results
  BY <1>0 DEF Run, Phases, Labels, Results
<1>3. Conclude(u, "error") \in Run
  BY <1>2, ConcludeIs
<1>4. \/ Like([r EXCEPT !.pc = "prepare_todo"])
      \/ Like(Conclude(u, "error"))
  BY <1>2, <1>3, Gating DEF PrepareTask
<1>5. /\ run' \in Run /\ run'.cmd = "write" /\ run'.orig = run.orig
      /\ run'.expect = run.expect /\ run'.receipts = run.receipts /\ run'.pc \in {"prepare_todo", "close"}
      /\ run'.pc = "close" => run'.result = "uncertain"
      /\ run'.rest = run.rest
  <2>1. CASE Like([r EXCEPT !.pc = "prepare_todo"])
    BY <1>0, <2>1 DEF Like, Run
  <2>2. CASE Like(Conclude(u, "error"))
    <3>1. /\ u.cmd = "write" /\ u.orig = run.orig /\ u.expect = run.expect
          /\ u.receipts = run.receipts /\ u.bad /\ u.rest = run.rest
      BY <1>0 DEF Run
    <3>. HIDE DEF u
    <3>. QED BY <1>2, <2>2, <3>1, ConcludeIs DEF Like
  <2>. QED BY <1>4, <2>1, <2>2
<1>6. Ordered' /\ Sorted' /\ Undone' /\ Accounted' /\ Shown'
  <2>1. Ordered'
    BY <1>0, <1>5 DEF IInv, Ordered, Undoing, Reading
  <2>2. Sorted'
    BY <1>1, <1>5 DEF Sorted, Ready, Empty, Reading, Installing, Exchanging
  <2>3. Shown'
    BY <1>0, <1>5 DEF IInv, Shown, inputs
  <2>. QED BY <1>5, <2>1, <2>2, <2>3 DEF Undone, Accounted, Undoing, Closing
<1>7. Recoverable'
  <2>1. Installs(run') = Installs(run) /\ Installs(run) = Targets
    BY <1>0, <1>5 DEF Installs
  <2>2. touched = {} => Kept
    BY <1>0, KeptBefore DEF Closing
  <2>3. touched = {} => \A t \in Targets : run.orig[t] = "old" => public[t] = "old"
    BY <1>0, <2>1, <2>2 DEF Kept, Empty
  <2>. QED BY <1>0, <1>5, <2>1, <2>3, Keeping DEF history
<1>. HIDE DEF r, u
<1>. QED BY <1>0, <1>1, <1>5, <1>6, <1>7, RunStep DEF history

LEMMA PrepareTodoInv ==
    ASSUME IInv, PrepareTodo
    PROVE  IInv' /\ Balanced
<1>0. /\ TypeOK /\ run \in Run /\ run.pc = "prepare_todo" /\ "todo" \in Targets /\ Later
      /\ UNCHANGED <<public, aside, out, inputs, history>> /\ faults' \in 0 .. faults
      /\ Empty("todo") /\ (run.cmd = "write" => Ready("task")) /\ run.cmd \in {"write", "todo"}
  BY RunType, FaultAssumption
     DEF IInv, TypeOK, PrepareTodo, history, Targets, Sorted, Later
<1>1. /\ public' \in FileType /\ held' \in FileType /\ aside' \in FileType
      /\ held'["todo"] = "new" /\ aside'["todo"] = "absent"
      /\ held'["task"] = held["task"] /\ aside'["task"] = aside["task"] /\ Balanced
  <2>1. One(public["todo"]) + One("new") + One(aside["todo"]) = Of(public, held, aside, "todo")
    BY <1>0 DEF Of, One, Empty
  <2>2. /\ public' = Place(public, "todo", public["todo"]) /\ held' = Place(held, "todo", "new")
        /\ aside' = Place(aside, "todo", aside["todo"]) /\ strays' = strays /\ "new" \in Files
    BY <1>0, Same DEF PrepareTodo, history, Files
  <2>. HIDE DEF Of
  <2>. QED BY <1>0, <2>1, <2>2, Same, OneTarget DEF Empty, Targets
<1>2. /\ run' \in Run /\ run'.pc = "gate" /\ run'.cmd = run.cmd /\ run'.orig = run.orig
      /\ run'.t = (IF run.cmd = "write" THEN "task" ELSE "todo") /\ run'.phase = run.phase
      /\ run'.rest = run.rest /\ run'.expect = run.expect /\ run'.receipts = run.receipts
  BY <1>0 DEF PrepareTodo, At, Run, Labels, Targets
<1>3. Ordered' /\ Sorted' /\ Undone' /\ Accounted' /\ Shown'
  <2>1. Ordered'
    BY <1>0, <1>2 DEF IInv, Ordered, Undoing, Reading
  <2>2. Sorted'
    BY <1>0, <1>1, <1>2 DEF Sorted, Ready, Empty, Reading, Installing, Exchanging
  <2>3. Shown'
    BY <1>0, <1>2 DEF IInv, Shown, inputs
  <2>. QED BY <1>2, <2>1, <2>2, <2>3 DEF Undone, Accounted, Undoing, Closing
<1>4. Recoverable'
  <2>1. Installs(run') = Installs(run) /\ Installs(run) \subseteq Targets
    BY <1>2, InstallsIn DEF Installs
  <2>2. touched = {} => Kept
    BY <1>0, KeptBefore DEF Closing
  <2>3. touched = {} => \A t \in Installs(run) :
                           run.orig[t] = "old" => "old" \in {public'[t], held'[t]}
    BY <1>0, <1>1, <2>1, <2>2 DEF Kept, Empty, Targets
  <2>. QED BY <1>0, <1>2, <2>1, <2>3, Keeping DEF history
<1>. QED BY <1>0, <1>1, <1>2, <1>3, <1>4, RunStep DEF history

\* What was there to recover is there after a step.
StillKept ==
    touched = {} =>
       \A t \in Installs(run) : run.orig[t] = "old" => "old" \in {public'[t], held'[t]}

LEMMA KeptStill ==
    ASSUME IInv, Later, run.pc \notin {"clear", "settle"} \cup Closing,
           ~(run.pc = "undo" /\ run.cmd = "todo"), UNCHANGED <<public, held>>
    PROVE  StillKept
BY KeptBefore DEF StillKept, Kept

\* An installation fails.
LEMMA FailStep ==
    ASSUME IInv, Later, UNCHANGED <<out, inputs, strays, touched>>, faults' \in 0 .. faults,
           public' \in FileType, held' \in FileType, aside' \in FileType, Balanced,
           NEW b \in BOOLEAN, Like(InstallFailed(run, b)), StillKept,
           run.cmd = "write" /\ run.t = "task" => held'["todo"] = "new" /\ aside'["todo"] = "absent",
           run.cmd = "write" /\ run.t = "todo" =>
              held'["task"] = run.orig["task"] /\ aside'["task"] = "absent",
           b \/ held'[run.t] = "new",
           b => /\ run.orig[run.t] = "absent" => held'[run.t] = "absent"
                /\ held'[run.t] = "old" /\ run.t \in run.receipts => aside'[run.t] = "absent"
    PROVE  IInv'
<1>1. run \in Run /\ (run.cmd = "todo" => run.t = "todo")
  BY RunType DEF IInv, Ordered
<1>2. /\ run' \in Run /\ run'.pc \in {"undo", "drop"} /\ run'.cmd = run.cmd
      /\ run'.orig = run.orig /\ run'.receipts = run.receipts
  BY <1>1, InstallFailedIs DEF Like
<1>3. Ordered' /\ Sorted' /\ Undone' /\ Accounted' /\ Shown'
  BY Failing DEF inputs
<1>4. Recoverable'
  BY <1>2, Keeping DEF StillKept, Installs
<1>. QED BY <1>2, <1>3, <1>4, RunStep

\* The check before a rename, and the rename.
LEMMA GateInstallInv ==
    ASSUME IInv, GateInstall
    PROVE  IInv' /\ Balanced
<1>0. /\ TypeOK /\ run \in Run /\ run.pc = "gate" /\ Later /\ run.t \in Targets
      /\ UNCHANGED <<worktree, out, inputs, history>> /\ faults' \in 0 .. faults
      /\ Ready(run.t) /\ (run.cmd = "todo" => run.t = "todo")
  BY RunType, FaultAssumption
     DEF IInv, TypeOK, GateInstall, history, Sorted, Ordered, Later
<1>1. /\ public' \in FileType /\ held' \in FileType /\ aside' \in FileType
      /\ UNCHANGED <<public, held, aside, strays, touched, moved, shows>> /\ Balanced
  BY <1>0, Still DEF TypeOK, FileType, worktree, history, inputs
<1>2. At("rename") \in Run /\ InstallFailed(run, FALSE) \in Run
  BY <1>0, AtIs, InstallFailedIs DEF Labels
<1>3. CASE Like(InstallFailed(run, FALSE))
  <2>1. StillKept
    BY <1>0, <1>1, KeptStill DEF Closing
  <2>2. /\ run.cmd = "write" /\ run.t = "task" => Ready("todo")
        /\ run.cmd = "write" /\ run.t = "todo" => Stored("task")
    BY <1>0 DEF IInv, Sorted, Installing
  <2>. QED BY <1>0, <1>1, <1>3, <2>1, <2>2, FailStep DEF Ready, Stored
<1>4. CASE public[run.t] = run.orig[run.t] /\ Like(At("rename"))
  <2>1. /\ run' \in Run /\ run'.pc = "rename" /\ run'.cmd = run.cmd /\ run'.t = run.t
        /\ run'.orig = run.orig /\ run'.expect = run.expect /\ run'.phase = run.phase
        /\ run'.receipts = run.receipts /\ run'.rest = run.rest
    BY <1>0, <1>4, AtIs DEF Like, Labels
  <2>2. Ordered'
    BY <1>0, <2>1 DEF IInv, Ordered, Undoing, Reading
  <2>3. Sorted'
    BY <1>0, <1>1, <2>1 DEF IInv, Sorted, Ready, Stored, Reading, Installing, Exchanging
  <2>4. Shown' /\ Undone' /\ Accounted'
    BY <1>0, <1>1, <2>1 DEF IInv, Shown, Undone, Accounted, Undoing, Closing
  <2>5. Recoverable'
    <3>1. touched = {} => Kept
      BY <1>0, KeptBefore DEF Closing
    <3>. QED BY <1>1, <1>4, <2>1, <3>1 DEF Recoverable, Kept, Installs
  <2>. QED BY <1>0, <1>1, <2>1, <2>2, <2>3, <2>4, <2>5, RunStep
<1>5. \/ public[run.t] = run.orig[run.t] /\ Like(At("rename"))
      \/ Like(InstallFailed(run, FALSE))
  BY <1>2, Gating DEF GateInstall
<1>. QED BY <1>1, <1>3, <1>4, <1>5

LEMMA InstallInv ==
    ASSUME IInv, Install
    PROVE  IInv' /\ Balanced
<1>0. /\ TypeOK /\ run \in Run /\ run.pc = "rename" /\ Later /\ run.t \in Targets
      /\ UNCHANGED <<aside, out, inputs, history>> /\ faults' \in 0 .. faults
      /\ Ready(run.t) /\ (run.cmd = "todo" => run.t = "todo")
      /\ UNCHANGED <<strays, touched, moved, shows>> /\ run.orig[run.t] \in {"absent", "old"}
  BY RunType, FaultAssumption
     DEF IInv, TypeOK, Install, history, inputs, Sorted, Ordered, Later
<1>a. /\ run.cmd = "write" /\ run.t = "task" => Ready("todo")
      /\ run.cmd = "write" /\ run.t = "todo" => Stored("task")
  BY <1>0 DEF IInv, Sorted, Installing
<1>1. CASE run' = InstallFailed(run, FALSE) /\ UNCHANGED <<public, held>>
  <2>1. /\ public' \in FileType /\ held' \in FileType /\ aside' \in FileType /\ Balanced
    BY <1>0, <1>1, Still DEF TypeOK, FileType, worktree
  <2>2. Like(InstallFailed(run, FALSE)) /\ StillKept
    BY <1>0, <1>1, InstallFailedIs, KeptStill DEF Like, Closing
  <2>. QED BY <1>0, <1>a, <1>1, <2>1, <2>2, FailStep DEF Ready, Stored
<1>2. CASE /\ Installable(run.t) /\ public' = Place(public, run.t, "new")
           /\ held' = Place(held, run.t, IF run.orig[run.t] = "absent" THEN "absent" ELSE public[run.t])
           /\ run' = [At("verify") EXCEPT !.receipts = @ \cup Receipt(run.t)]
  <2>. DEFINE h == IF run.orig[run.t] = "absent" THEN "absent" ELSE public[run.t]
  <2>0. h \in Files /\ "new" \in Files /\ aside[run.t] = "absent" /\ held[run.t] = "new"
    BY <1>0 DEF TypeOK, Files, Ready
  <2>1. One("new") + One(h) + One("absent") = Of(public, held, aside, run.t)
    <3>1. CASE run.orig[run.t] = "absent"
      BY <1>2, <2>0, <3>1 DEF Installable, Free, Of, One
    <3>2. CASE run.orig[run.t] # "absent"
      <4>1. One("new") = 0 /\ One("absent") = 0 /\ h = public[run.t]
        BY <3>2 DEF One
      <4>2. Of(public, held, aside, run.t) = One(h) + 0 + 0 /\ One(h) \in Nat
        BY <2>0, <4>1 DEF Of, One
      <4>. HIDE DEF h
      <4>. QED BY <4>1, <4>2
    <3>. QED BY <3>1, <3>2
  <2>2. /\ public' = Place(public, run.t, "new") /\ held' = Place(held, run.t, h)
        /\ aside' = Place(aside, run.t, "absent") /\ "absent" \in Files
    BY <1>0, <1>2, <2>0, Same DEF Files
  <2>. HIDE DEF h, Of
  <2>3. /\ public' \in FileType /\ held' \in FileType /\ aside' \in FileType
        /\ public'[run.t] = "new" /\ held'[run.t] = h /\ aside'[run.t] = "absent"
        /\ \A u \in Targets \ {run.t} :
              public'[u] = public[u] /\ held'[u] = held[u] /\ aside'[u] = aside[u]
        /\ Balanced
    BY <1>0, <2>0, <2>1, <2>2, OneTarget
  <2>4. /\ run' \in Run /\ run'.pc = "verify" /\ run'.cmd = run.cmd /\ run'.t = run.t
        /\ run'.orig = run.orig /\ run'.expect = run.expect /\ run'.phase = run.phase
        /\ run'.rest = run.rest /\ run'.receipts = run.receipts \cup Receipt(run.t)
    <3>. DEFINE v == At("verify")
    <3>1. /\ v \in Run /\ v.pc = "verify" /\ v.cmd = run.cmd /\ v.t = run.t
          /\ v.orig = run.orig /\ v.expect = run.expect /\ v.phase = run.phase
          /\ v.rest = run.rest /\ v.receipts = run.receipts
      BY <1>0, AtIs DEF Labels
    <3>2. Receipt(run.t) \subseteq Targets /\ run' = [v EXCEPT !.receipts = @ \cup Receipt(run.t)]
      BY <1>0, <1>2 DEF Receipt
    <3>. HIDE DEF v
    <3>. QED BY <3>1, <3>2 DEF Run
  <2>5. h = IF run.orig[run.t] = "absent" THEN "absent" ELSE public[run.t]
    BY DEF h
  <2>6. Ordered'
    BY <1>0, <2>4 DEF IInv, Ordered, Undoing, Reading
  <2>7. Sorted'
    <3>1. CASE run.t = "task"
      BY <1>0, <1>a, <2>3, <2>4, <2>5, <3>1
         DEF IInv, Ordered, Sorted, Ready, Stored, Reading, Installing, Exchanging, Targets
    <3>2. CASE run.t = "todo"
      BY <1>0, <1>a, <2>3, <2>4, <2>5, <3>2
         DEF IInv, Ordered, Sorted, Ready, Stored, Reading, Installing, Exchanging, Targets
    <3>. QED BY <1>0, <3>1, <3>2 DEF Targets
  <2>8. Shown' /\ Undone' /\ Accounted'
    BY <1>0, <2>4 DEF IInv, Shown, Undone, Accounted, Undoing, Closing
  <2>9. Recoverable'
    <3>. SUFFICES ASSUME touched' = {} PROVE Kept' /\ (run.orig[run.t] = "old" => held'[run.t] = "old")
      BY <2>4 DEF Recoverable
    <3>1. public[run.t] = run.orig[run.t] /\ Kept
      BY <1>0, KeptBefore DEF IInv, Recoverable, Closing
    <3>2. run.orig[run.t] = "old" => held'[run.t] = "old"
      BY <2>3, <2>5, <3>1
    <3>3. \A t \in Installs(run) : run.orig[t] = "old" => "old" \in {public'[t], held'[t]}
      BY <2>3, <3>1, <3>2, InstallsIn DEF Kept
    <3>. QED BY <2>4, <3>2, <3>3 DEF Kept, Installs
  <2>10. \A t \in run'.receipts : run'.orig[t] = "old"
    BY <1>0, <2>4 DEF Receipt, TypeOK
  <2>11. /\ out' \in Reports /\ moved' \in BOOLEAN /\ strays' \in Nat /\ shows' \in ShowType
         /\ touched' \subseteq Targets
    BY <1>0, FaultAssumption DEF TypeOK, Reports, ShowType
  <2>12. Total(public', held', aside', strays') <= Total(public, held, aside, strays)
    <3>1. Total(public, held, aside, strays) \in Nat
      BY <1>0, TotalIs, FaultAssumption DEF TypeOK
    <3>. QED BY <2>3, <3>1 DEF Balanced
  <2>. QED BY <1>0, <2>3, <2>4, <2>6, <2>7, <2>8, <2>9, <2>10, <2>11, <2>12, Assembled
<1>. QED BY <1>1, <1>2 DEF Install

LEMMA VerifyInstallInv ==
    ASSUME IInv, VerifyInstall
    PROVE  IInv' /\ Balanced
<1>0. /\ TypeOK /\ run \in Run /\ run.pc = "verify" /\ Later /\ run.t \in Targets
      /\ UNCHANGED <<worktree, out, inputs, history>> /\ faults' \in 0 .. faults
      /\ (run.cmd = "todo" => run.t = "todo") /\ run.cmd \in {"write", "todo"}
      /\ run.orig[run.t] \in {"absent", "old"}
  BY RunType, FaultAssumption
     DEF IInv, TypeOK, VerifyInstall, history, Ordered, Later
<1>a. /\ run.cmd = "write" /\ run.t = "task" => Ready("todo")
      /\ run.cmd = "write" /\ run.t = "todo" => Stored("task")
      /\ aside[run.t] = "absent" /\ (run.orig[run.t] = "absent" => held[run.t] = "absent")
  BY <1>0 DEF IInv, Sorted, Installing, Exchanging
<1>b. /\ public' \in FileType /\ held' \in FileType /\ aside' \in FileType /\ Balanced
      /\ UNCHANGED <<public, held, aside, strays, touched, moved, shows>>
  BY <1>0, Still DEF TypeOK, FileType, worktree, history, inputs
<1>c. touched = {} => Kept
  BY <1>0, KeptBefore DEF Closing
<1>1. CASE run' = InstallFailed(run, TRUE)
  <2>1. Like(InstallFailed(run, TRUE)) /\ StillKept
    BY <1>0, <1>b, <1>1, InstallFailedIs, KeptStill DEF Like, Closing
  <2>. QED BY <1>0, <1>a, <1>b, <1>1, <2>1, FailStep DEF Ready, Stored
<1>2. CASE /\ public[run.t] = "new" /\ held[run.t] = run.orig[run.t]
           /\ run' = Installed(run)
  <2>1. CASE run.t = "task"
    <3>1. /\ run' \in Run /\ run'.pc = "gate" /\ run'.cmd = run.cmd /\ run'.t = "todo"
          /\ run'.orig = run.orig /\ run'.expect = run.expect /\ run'.receipts = run.receipts
          /\ run'.rest = run.rest /\ run.cmd = "write"
      BY <1>0, <1>2, <2>1 DEF Installed, Run, Labels, Targets, Phases
    <3>2. Ordered'
      BY <1>0, <3>1 DEF IInv, Ordered, Undoing, Reading
    <3>3. Sorted'
      BY <1>0, <1>a, <1>b, <1>2, <2>1, <3>1
         DEF Sorted, Ready, Stored, Reading, Installing, Exchanging
    <3>4. Shown' /\ Undone' /\ Accounted'
      BY <1>0, <1>b, <3>1 DEF IInv, Shown, Undone, Accounted, Undoing, Closing
    <3>5. Recoverable'
      BY <1>b, <1>c, <3>1 DEF Recoverable, Kept, Installs
    <3>. QED BY <1>0, <1>b, <3>1, <3>2, <3>3, <3>4, <3>5, RunStep
  <2>2. CASE run.t # "task"
    <3>0. run.t = "todo"
      BY <1>0, <2>2 DEF Targets
    <3>1. /\ run' \in Run /\ run'.cmd = run.cmd /\ run'.t = "todo"
          /\ run'.pc = (IF run.cmd = "write" THEN "confirm" ELSE "clear")
          /\ run'.orig = run.orig /\ run'.expect = run.expect /\ run'.receipts = run.receipts
          /\ run'.rest = run.rest /\ run'.phase = run.phase
      BY <1>0, <1>2, <2>2, <3>0 DEF Installed, Run, Labels, Targets
    <3>2. Ordered'
      BY <1>0, <3>1 DEF IInv, Ordered, Undoing, Reading
    <3>3. Sorted'
      BY <1>0, <1>a, <1>b, <1>2, <3>0, <3>1
         DEF Sorted, Ready, Stored, Reading, Installing, Exchanging, Targets
    <3>4. Shown' /\ Undone' /\ Accounted'
      BY <1>0, <1>b, <3>1 DEF IInv, Shown, Undone, Accounted, Undoing, Closing
    <3>5. Recoverable'
      <4>1. run'.pc = "clear" => AllNew'
        BY <1>0, <1>b, <1>2, <3>0, <3>1 DEF AllNew, Installs
      <4>2. run'.pc \in {"confirm", "clear"}
        BY <3>1
      <4>. QED BY <1>b, <1>c, <3>1, <4>1, <4>2 DEF Recoverable, Kept, Installs
    <3>. QED BY <1>0, <1>b, <3>1, <3>2, <3>3, <3>4, <3>5, RunStep
  <2>. QED BY <2>1, <2>2
<1>3. CASE held[run.t] # run.orig[run.t] /\ run' = At("displace")
  <2>0. run.orig[run.t] = "old" /\ touched # {} /\ held[run.t] # "old"
    BY <1>0, <1>a, <1>3 DEF IInv, Recoverable
  <2>1. /\ run' \in Run /\ run'.pc = "displace" /\ run'.cmd = run.cmd /\ run'.t = run.t
        /\ run'.orig = run.orig /\ run'.expect = run.expect /\ run'.receipts = run.receipts
        /\ run'.rest = run.rest /\ run'.phase = run.phase
    BY <1>0, <1>3, AtIs DEF Labels
  <2>2. Ordered'
    BY <1>0, <2>1 DEF IInv, Ordered, Undoing, Reading
  <2>3. Sorted'
    BY <1>0, <1>a, <1>b, <2>0, <2>1
       DEF IInv, Ordered, Sorted, Ready, Stored, Reading, Installing, Exchanging
  <2>4. Shown' /\ Undone' /\ Accounted' /\ Recoverable'
    BY <1>0, <1>b, <2>0, <2>1 DEF IInv, Shown, Undone, Accounted, Recoverable, Undoing, Closing
  <2>. QED BY <1>0, <1>b, <2>1, <2>2, <2>3, <2>4, RunStep
<1>. QED BY <1>1, <1>2, <1>3 DEF VerifyInstall

\* A step of install_private after the exchange captured a file of an editor.
LEMMA GoingOn ==
    ASSUME IInv, run.pc \in {"displace", "recapture", "take", "return"}, run' \in Run,
           run'.pc \in {"recapture", "take", "return", "replace"}, run'.cmd = run.cmd,
           run'.t = run.t, run'.orig = run.orig, run'.expect = run.expect,
           run'.phase = run.phase, run'.rest = run.rest, UNCHANGED <<touched, shows>>,
           \A u \in Targets \ {run.t} : held'[u] = held[u] /\ aside'[u] = aside[u],
           run'.pc \in {"recapture", "take"} => held'[run.t] = "absent",
           run'.pc \in {"return", "replace"} => run.t \notin run'.receipts
    PROVE  Ordered' /\ Sorted' /\ Undone' /\ Accounted' /\ Shown' /\ Recoverable'
<1>0. /\ run.orig[run.t] = "old" /\ touched # {} /\ run.t \in {"task", "todo"}
      /\ run.t = "task" => Ready("todo")
      /\ run.t = "todo" /\ run.cmd = "write" => Stored("task")
      /\ run.cmd = "todo" => run.t = "todo"
  BY RunType DEF IInv, Ordered, Sorted, Installing, Exchanging, Run, Targets
<1>1. Ordered'
  BY DEF IInv, Ordered, Undoing, Reading
<1>2. Sorted'
  BY <1>0 DEF Sorted, Ready, Stored, Reading, Installing, Exchanging, Targets
<1>3. Undone' /\ Accounted' /\ Recoverable'
  BY <1>0 DEF Undone, Accounted, Recoverable, Undoing, Closing
<1>4. Shown'
  BY DEF IInv, Shown
<1>. QED BY <1>1, <1>2, <1>3, <1>4

\* The other target, while one is being installed.
LEMMA Other ==
    ASSUME IInv, run.pc \in Installing
    PROVE  /\ run.cmd = "write" /\ run.t = "task" => held["todo"] = "new" /\ aside["todo"] = "absent"
           /\ run.cmd = "write" /\ run.t = "todo" =>
                 held["task"] = run.orig["task"] /\ aside["task"] = "absent"
           /\ run.t \in Targets /\ run \in Run /\ (run.cmd = "todo" => run.t = "todo") /\ Later
           /\ run.pc \in Exchanging \ {"verify"} =>
                 run.orig[run.t] = "old" /\ touched # {} /\ InstallFailed(run, TRUE) \in Run
BY RunType, InstallFailedIs
   DEF IInv, TypeOK, Sorted, Ordered, Installing, Exchanging, Ready, Stored, Later

\* The installation of a target that an editor has changed fails.
LEMMA FailTouched ==
    ASSUME IInv, run.pc \in {"displace", "recapture", "take", "return", "replace"},
           UNCHANGED <<out, inputs, strays, touched>>, faults' \in 0 .. faults,
           public' \in FileType, held' \in FileType, aside' \in FileType, Balanced,
           Like(InstallFailed(run, TRUE)),
           \A u \in Targets \ {run.t} : held'[u] = held[u] /\ aside'[u] = aside[u],
           held'[run.t] # "old" \/ run.t \notin run.receipts
    PROVE  IInv'
<1>1. run.pc \in Installing /\ run.pc \in Exchanging \ {"verify"}
  BY DEF Installing, Exchanging
<1>2. StillKept
  BY <1>1, Other DEF StillKept
<1>3. /\ run.t = "task" => held'["todo"] = held["todo"] /\ aside'["todo"] = aside["todo"]
      /\ run.t = "todo" => held'["task"] = held["task"] /\ aside'["task"] = aside["task"]
  BY DEF Targets
<1>. QED BY <1>1, <1>2, <1>3, Other, FailStep

LEMMA DisplaceInv ==
    ASSUME IInv, Displace
    PROVE  IInv' /\ Balanced
<1>0. /\ TypeOK /\ run \in Run /\ run.pc = "displace" /\ run.t \in Targets
      /\ UNCHANGED <<public, out, inputs, strays, touched, shows>> /\ faults' \in 0 .. faults
      /\ aside[run.t] = "absent" /\ held[run.t] # "old"
  BY RunType, FaultAssumption DEF IInv, TypeOK, Displace, history, inputs, Sorted
<1>1. At("recapture") \in Run /\ InstallFailed(run, TRUE) \in Run
  BY <1>0, AtIs, Other DEF Labels, Installing, Exchanging
<1>2. Like(At("recapture")) \/ Like(InstallFailed(run, TRUE))
  BY <1>1, Gating DEF Displace
<1>3. CASE Like(At("recapture"))
  <2>1. /\ run' \in Run /\ run'.pc = "recapture" /\ run'.cmd = run.cmd /\ run'.t = run.t
        /\ run'.orig = run.orig /\ run'.expect = run.expect /\ run'.receipts = run.receipts
        /\ run'.rest = run.rest /\ run'.phase = run.phase
    BY <1>0, <1>3, AtIs DEF Like, Labels
  <2>2. /\ public' \in FileType /\ held' \in FileType /\ aside' \in FileType
        /\ public'[run.t] = public[run.t] /\ held'[run.t] = "absent" /\ aside'[run.t] = held[run.t]
        /\ \A u \in Targets \ {run.t} :
              public'[u] = public[u] /\ held'[u] = held[u] /\ aside'[u] = aside[u]
        /\ Balanced
    <3>1. /\ public' = Place(public, run.t, public[run.t]) /\ held' = Place(held, run.t, "absent")
          /\ aside' = Place(aside, run.t, held[run.t]) /\ "absent" \in Files
      BY <1>0, <2>1, Same DEF Displace, Files
    <3>2. One(public[run.t]) + One("absent") + One(held[run.t]) = Of(public, held, aside, run.t)
      BY <1>0 DEF Of, One
    <3>. HIDE DEF Of
    <3>. QED BY <1>0, <3>1, <3>2, Same, OneTarget
  <2>3. Ordered' /\ Sorted' /\ Undone' /\ Accounted' /\ Shown' /\ Recoverable'
    BY <1>0, <2>1, <2>2, GoingOn
  <2>. QED BY <1>0, <2>1, <2>2, <2>3, RunStep
<1>4. CASE Like(InstallFailed(run, TRUE))
  <2>1. run'.pc = "undo"
    BY <1>0, <1>4, InstallFailedIs, Other DEF Like, Installing, Exchanging
  <2>2. UNCHANGED <<aside, held, public>>
    BY <1>0, <2>1 DEF Displace
  <2>3. /\ public' \in FileType /\ held' \in FileType /\ aside' \in FileType /\ Balanced
    BY <1>0, <2>2, Still DEF TypeOK, FileType, worktree
  <2>. QED BY <1>0, <1>4, <2>2, <2>3, FailTouched
<1>. QED BY <1>2, <1>3, <1>4

LEMMA GateRecaptureInv ==
    ASSUME IInv, GateRecapture
    PROVE  IInv' /\ Balanced
<1>0. /\ TypeOK /\ run \in Run /\ run.pc = "recapture" /\ run.t \in Targets
      /\ UNCHANGED <<worktree, out, inputs, strays, touched, shows>> /\ faults' \in 0 .. faults
      /\ held[run.t] = "absent" /\ UNCHANGED <<public, held, aside>>
  BY RunType, FaultAssumption
     DEF IInv, TypeOK, GateRecapture, history, inputs, worktree, Sorted
<1>1. /\ public' \in FileType /\ held' \in FileType /\ aside' \in FileType /\ Balanced
  BY <1>0, Still DEF TypeOK, FileType
<1>2. At("take") \in Run /\ InstallFailed(run, TRUE) \in Run
  BY <1>0, AtIs, Other DEF Labels, Installing, Exchanging
<1>3. Like(At("take")) \/ Like(InstallFailed(run, TRUE))
  BY <1>2, Gating DEF GateRecapture
<1>4. CASE Like(At("take"))
  <2>1. /\ run' \in Run /\ run'.pc = "take" /\ run'.cmd = run.cmd /\ run'.t = run.t
        /\ run'.orig = run.orig /\ run'.expect = run.expect /\ run'.receipts = run.receipts
        /\ run'.rest = run.rest /\ run'.phase = run.phase
    BY <1>0, <1>4, AtIs DEF Like, Labels
  <2>2. Ordered' /\ Sorted' /\ Undone' /\ Accounted' /\ Shown' /\ Recoverable'
    BY <1>0, <2>1, GoingOn
  <2>. QED BY <1>0, <1>1, <2>1, <2>2, RunStep
<1>5. CASE Like(InstallFailed(run, TRUE))
  BY <1>0, <1>1, <1>5, FailTouched
<1>. QED BY <1>1, <1>3, <1>4, <1>5

LEMMA RecaptureInv ==
    ASSUME IInv, Recapture
    PROVE  IInv' /\ Balanced
<1>0. /\ TypeOK /\ run \in Run /\ run.pc = "take" /\ run.t \in Targets
      /\ UNCHANGED <<aside, out, inputs, strays, touched, shows>> /\ faults' \in 0 .. faults
      /\ held[run.t] = "absent"
  BY RunType, FaultAssumption DEF IInv, TypeOK, Recapture, history, inputs, Sorted
<1>1. CASE run' = InstallFailed(run, TRUE) /\ UNCHANGED <<public, held>>
  <2>1. /\ public' \in FileType /\ held' \in FileType /\ aside' \in FileType /\ Balanced
    BY <1>0, <1>1, Still DEF TypeOK, FileType, worktree
  <2>2. Like(InstallFailed(run, TRUE))
    BY <1>0, <1>1, Other DEF Like, Installing, Exchanging
  <2>. QED BY <1>0, <1>1, <2>1, <2>2, FailTouched
<1>2. CASE /\ held' = Place(held, run.t, public[run.t]) /\ public' = Place(public, run.t, "absent")
           /\ run' = [At("return") EXCEPT !.receipts = @ \ {run.t}]
  <2>1. /\ run' \in Run /\ run'.pc = "return" /\ run'.cmd = run.cmd /\ run'.t = run.t
        /\ run'.orig = run.orig /\ run'.expect = run.expect /\ run'.rest = run.rest
        /\ run'.phase = run.phase /\ run'.receipts = run.receipts \ {run.t}
    <3>. DEFINE v == At("return")
    <3>1. /\ v \in Run /\ v.pc = "return" /\ v.cmd = run.cmd /\ v.t = run.t
          /\ v.orig = run.orig /\ v.expect = run.expect /\ v.phase = run.phase
          /\ v.rest = run.rest /\ v.receipts = run.receipts
      BY <1>0, AtIs DEF Labels
    <3>2. run' = [v EXCEPT !.receipts = @ \ {run.t}]
      BY <1>2
    <3>. HIDE DEF v
    <3>. QED BY <3>1, <3>2 DEF Run
  <2>2. /\ public' \in FileType /\ held' \in FileType /\ aside' \in FileType
        /\ \A u \in Targets \ {run.t} :
              public'[u] = public[u] /\ held'[u] = held[u] /\ aside'[u] = aside[u]
        /\ Balanced
    <3>1. aside' = Place(aside, run.t, aside[run.t]) /\ "absent" \in Files
      BY <1>0, Same DEF Files
    <3>2. One("absent") + One(public[run.t]) + One(aside[run.t]) = Of(public, held, aside, run.t)
      BY <1>0 DEF Of, One
    <3>. HIDE DEF Of
    <3>. QED BY <1>0, <1>2, <3>1, <3>2, Same, OneTarget
  <2>3. Ordered' /\ Sorted' /\ Undone' /\ Accounted' /\ Shown' /\ Recoverable'
    BY <1>0, <2>1, <2>2, GoingOn
  <2>. QED BY <1>0, <2>1, <2>2, <2>3, RunStep
<1>. QED BY <1>1, <1>2 DEF Recapture

LEMMA GateReturnInv ==
    ASSUME IInv, GateReturn
    PROVE  IInv' /\ Balanced
<1>0. /\ TypeOK /\ run \in Run /\ run.pc = "return" /\ run.t \in Targets
      /\ UNCHANGED <<worktree, out, inputs, strays, touched, shows>> /\ faults' \in 0 .. faults
      /\ run.t \notin run.receipts /\ UNCHANGED <<public, held, aside>>
  BY RunType, FaultAssumption
     DEF IInv, TypeOK, GateReturn, history, inputs, worktree, Sorted
<1>1. /\ public' \in FileType /\ held' \in FileType /\ aside' \in FileType /\ Balanced
  BY <1>0, Still DEF TypeOK, FileType
<1>2. At("replace") \in Run /\ InstallFailed(run, TRUE) \in Run
  BY <1>0, AtIs, Other DEF Labels, Installing, Exchanging
<1>3. Like(At("replace")) \/ Like(InstallFailed(run, TRUE))
  BY <1>2, Gating DEF GateReturn
<1>4. CASE Like(At("replace"))
  <2>1. /\ run' \in Run /\ run'.pc = "replace" /\ run'.cmd = run.cmd /\ run'.t = run.t
        /\ run'.orig = run.orig /\ run'.expect = run.expect /\ run'.receipts = run.receipts
        /\ run'.rest = run.rest /\ run'.phase = run.phase
    BY <1>0, <1>4, AtIs DEF Like, Labels
  <2>2. Ordered' /\ Sorted' /\ Undone' /\ Accounted' /\ Shown' /\ Recoverable'
    BY <1>0, <2>1, GoingOn
  <2>. QED BY <1>0, <1>1, <2>1, <2>2, RunStep
<1>5. CASE Like(InstallFailed(run, TRUE))
  BY <1>0, <1>1, <1>5, FailTouched
<1>. QED BY <1>1, <1>3, <1>4, <1>5

\* The newest foreign file goes back to a name that is free.
LEMMA ReturnInv ==
    ASSUME IInv, Return
    PROVE  IInv' /\ Balanced
<1>0. /\ TypeOK /\ run \in Run /\ run.pc = "replace" /\ run.t \in Targets
      /\ UNCHANGED <<out, inputs, strays, touched, shows>> /\ faults' \in 0 .. faults
      /\ run.t \notin run.receipts /\ run' = InstallFailed(run, TRUE)
  BY RunType, FaultAssumption DEF IInv, TypeOK, Return, history, inputs, Sorted
<1>1. Like(InstallFailed(run, TRUE))
  BY <1>0, Other DEF Like, Installing, Exchanging
<1>2. /\ public' \in FileType /\ held' \in FileType /\ aside' \in FileType
      /\ \A u \in Targets \ {run.t} :
            public'[u] = public[u] /\ held'[u] = held[u] /\ aside'[u] = aside[u]
      /\ Balanced
  <2>0. "absent" \in Files /\ One("absent") = 0 /\ \A x : One(x) \in Nat
    BY DEF Files, One
  <2>1. CASE UNCHANGED worktree
    BY <1>0, <2>1, Still DEF TypeOK, FileType, worktree
  <2>2. CASE /\ Free(run.t) /\ public' = Place(public, run.t, aside[run.t])
             /\ aside' = Place(aside, run.t, "absent") /\ UNCHANGED held
    <3>1. held' = Place(held, run.t, held[run.t])
      BY <1>0, <2>2, Same
    <3>2. One(aside[run.t]) + One(held[run.t]) + One("absent") = Of(public, held, aside, run.t)
      <4>1. public[run.t] = "absent"
        BY <2>2 DEF Free
      <4>2. One(aside[run.t]) \in Nat /\ One(held[run.t]) \in Nat
        BY <2>0
      <4>. QED BY <2>0, <4>1, <4>2 DEF Of
    <3>. HIDE DEF Of
    <3>. QED BY <1>0, <2>0, <2>2, <3>1, <3>2, Same, OneTarget
  <2>3. CASE /\ Free(run.t) /\ public' = Place(public, run.t, held[run.t])
             /\ held' = Place(held, run.t, "absent") /\ UNCHANGED aside
    <3>1. aside' = Place(aside, run.t, aside[run.t])
      BY <1>0, <2>3, Same
    <3>2. One(held[run.t]) + One("absent") + One(aside[run.t]) = Of(public, held, aside, run.t)
      <4>1. public[run.t] = "absent"
        BY <2>3 DEF Free
      <4>2. One(aside[run.t]) \in Nat /\ One(held[run.t]) \in Nat
        BY <2>0
      <4>. QED BY <2>0, <4>1, <4>2 DEF Of
    <3>. HIDE DEF Of
    <3>. QED BY <1>0, <2>0, <2>3, <3>1, <3>2, Same, OneTarget
  <2>. QED BY <2>1, <2>2, <2>3 DEF Return
<1>. QED BY <1>0, <1>1, <1>2, FailTouched

----------------------------------------------------------------------------
(* Letting go and taking back *)

\* What holds of a target that is let go of or taken back.
LEMMA Back ==
    ASSUME IInv, run.pc \in Undoing
    PROVE  /\ run \in Run /\ run.t \in Targets /\ Later /\ run.orig[run.t] \in {"absent", "old"}
           /\ run.cmd = "todo" => run.t = "todo" /\ run.phase = "initial" /\ run.rest = "none"
           /\ run.rest = "drop_todo" =>
                run.t = "task" /\ held["todo"] = "new" /\ aside["todo"] = "absent"
           /\ run.rest = "undo_task" =>
                /\ run.t = "todo" /\ held["task"] = run.orig["task"] /\ aside["task"] = "absent"
           /\ run.bad \/ Installs(run) \subseteq run.witnessed \cup {run.t} \cup Left(run.rest)
           /\ run.rest \in {"none", "drop_todo", "undo_task"} /\ run.cmd \in {"write", "todo"}
BY RunType DEF IInv, TypeOK, Ordered, Undone, Ready, Stored, Accounted, Undoing, Later

\* A step that ends the work on a target.
LEMMA Concluding ==
    ASSUME IInv, run.pc \in Undoing, UNCHANGED <<out, inputs, strays, touched>>,
           faults' \in 0 .. faults,
           public' \in FileType, held' \in FileType, aside' \in FileType, Balanced, Recoverable',
           \A u \in Targets \ {run.t} : held'[u] = held[u] /\ aside'[u] = aside[u],
           NEW r \in Run, r.cmd = run.cmd, r.orig = run.orig, r.expect = run.expect, r.t = run.t,
           r.receipts = run.receipts, r.rest = run.rest, run.cmd = "todo" => r.phase = "initial",
           Like(NextJob(r)),
           r.bad \/ (run.t \in r.witnessed /\ run.witnessed \subseteq r.witnessed /\ r.bad = run.bad)
    PROVE  IInv'
<1>1. /\ r.rest = "drop_todo" => held'["todo"] = "new" /\ aside'["todo"] = "absent"
      /\ r.rest = "undo_task" => held'["task"] = run.orig["task"] /\ aside'["task"] = "absent"
  BY Back DEF Targets
<1>2. r.bad \/ Installs(r) \subseteq r.witnessed \cup Left(r.rest)
  <2>1. Installs(r) = Installs(run)
    BY DEF Installs
  <2>. QED BY <2>1, Back
<1>3. r.cmd = "todo" => r.t = "todo" /\ r.phase = "initial" /\ r.rest = "none"
  BY Back
<1>4. Ordered' /\ Sorted' /\ Undone' /\ Accounted' /\ Shown'
  BY <1>1, <1>2, <1>3, Back, Landing DEF inputs
<1>5. run' \in Run /\ run'.orig = run.orig /\ run'.receipts = run.receipts
  BY NextJobIs DEF Like
<1>. QED BY <1>4, <1>5, RunStep

\* What a next job does not change of the run, and where it goes.
LEMMA Next3 ==
    ASSUME NEW r \in Run, Like(NextJob(r))
    PROVE  run'.pc \in {"close", "drop", "undo"} /\ run'.cmd = r.cmd /\ run'.orig = r.orig
BY NextJobIs DEF Like, Run, Rests

LEMMA BadIs ==
    ASSUME NEW r \in Run
    PROVE  /\ Bad(r) = NextJob([r EXCEPT !.bad = TRUE]) /\ Bad(r) \in Run
           /\ LET b == [r EXCEPT !.bad = TRUE] IN
              /\ b \in Run /\ b.cmd = r.cmd /\ b.orig = r.orig /\ b.expect = r.expect /\ b.t = r.t
              /\ b.receipts = r.receipts /\ b.rest = r.rest /\ b.phase = r.phase /\ b.bad
              /\ b.witnessed = r.witnessed
<1>1. [r EXCEPT !.bad = TRUE] \in Run
  BY DEF Run
<1>2. NextJob([r EXCEPT !.bad = TRUE]) \in Run
  BY <1>1, NextJobIs
<1>. QED BY <1>1, <1>2 DEF Bad, Run

\* The parts of a step of a rollback that do not depend on where it goes.
Backing ==
    /\ IInv /\ run.pc \in Undoing /\ UNCHANGED <<out, inputs, strays, touched>>
    /\ faults' \in 0 .. faults
    /\ public' \in FileType /\ held' \in FileType /\ aside' \in FileType /\ Balanced
    /\ \A u \in Targets \ {run.t} : held'[u] = held[u] /\ aside'[u] = aside[u]

\* The target cannot be let go of or taken back.
LEMMA EndBad ==
    ASSUME Backing, NEW r \in Run, r.cmd = run.cmd, r.orig = run.orig, r.expect = run.expect,
           r.t = run.t, r.receipts = run.receipts, r.rest = run.rest, r.phase = run.phase,
           Like(Bad(r)),
           StillKept \/ (run.cmd = "todo" /\ AllNew /\ public' = public)
    PROVE  IInv'
<1>. DEFINE b == [r EXCEPT !.bad = TRUE]
<1>1. /\ b \in Run /\ b.cmd = run.cmd /\ b.orig = run.orig /\ b.expect = run.expect
      /\ b.t = run.t /\ b.receipts = run.receipts /\ b.rest = run.rest /\ b.phase = run.phase
      /\ b.bad /\ Like(NextJob(b))
  BY BadIs
<1>. HIDE DEF b
<1>2. run'.pc \in {"close", "drop", "undo"} /\ run'.cmd = run.cmd /\ run'.orig = run.orig
  BY <1>1, Next3
<1>3. run.cmd = "todo" => run.phase = "initial" /\ run.rest = "none"
  BY Back DEF Backing
<1>4. Recoverable'
  <2>1. Installs(run') = Installs(run) /\ touched' = touched
    BY <1>2 DEF Installs, Backing
  <2>2. CASE StillKept
    BY <1>2, <2>1, <2>2, Keeping DEF StillKept
  <2>3. CASE run.cmd = "todo" /\ AllNew /\ public' = public
    <3>1. run'.pc = "close"
      BY <1>1, <1>3, <2>3, NextJobIs DEF Like
    <3>2. AllNew'
      BY <2>1, <2>3 DEF AllNew
    <3>. QED BY <3>1, <3>2 DEF Recoverable, Closing
  <2>. QED BY <2>2, <2>3
<1>. QED BY <1>1, <1>3, <1>4, Concluding DEF Backing

\* The target is let go of, or taken back.
LEMMA EndWell ==
    ASSUME Backing, NEW r \in Run, r.cmd = run.cmd, r.orig = run.orig, r.expect = run.expect,
           r.t = run.t, r.receipts = run.receipts, r.rest = run.rest, r.bad = run.bad,
           r.witnessed = run.witnessed, run.cmd = "todo" => r.phase = "initial",
           Like(NextJob(Witnessed(run.t, r))), StillKept
    PROVE  IInv'
<1>0. run.t \in Targets
  BY Back DEF Backing
<1>. DEFINE w == Witnessed(run.t, r)
<1>1. /\ w \in Run /\ w.cmd = run.cmd /\ w.orig = run.orig /\ w.expect = run.expect
      /\ w.t = run.t /\ w.receipts = run.receipts /\ w.rest = run.rest /\ w.phase = r.phase
      /\ w.bad = run.bad /\ w.witnessed = run.witnessed \cup {run.t}
  BY <1>0, WitnessedIs
<1>2. Like(NextJob(w))
  OBVIOUS
<1>. HIDE DEF w
<1>3. run'.pc \in {"close", "drop", "undo"} /\ run'.cmd = run.cmd /\ run'.orig = run.orig
  BY <1>1, <1>2, Next3
<1>4. Recoverable'
  BY <1>3, Keeping DEF StillKept, Installs, Backing
<1>5. run.t \in w.witnessed /\ run.witnessed \subseteq w.witnessed
  BY <1>1
<1>. QED BY <1>1, <1>2, <1>4, <1>5, Concluding DEF Backing

\* The rollback goes on.
LEMMA GoingBack ==
    ASSUME Backing, StillKept, run' \in Run,
           run'.pc \in {"undo_take", "undo_check", "undo_return", "undo_restore", "undo_clean"},
           run'.cmd = run.cmd, run'.t = run.t, run'.orig = run.orig, run'.expect = run.expect,
           run'.rest = run.rest, run'.phase = run.phase, run'.bad = run.bad,
           run'.witnessed = run.witnessed, run'.receipts \subseteq run.receipts,
           run'.pc = "undo_take" =>
              /\ run.orig[run.t] = "absent" => held'[run.t] = "absent"
              /\ run.orig[run.t] = "old" => run.t \in run'.receipts /\ aside'[run.t] = "absent",
           run'.pc \in {"undo_take", "undo_check"} /\ run.orig[run.t] = "old" => held'[run.t] = "old",
           run'.pc = "undo_restore" => held'[run.t] = "old",
           run'.pc \in {"undo_restore", "undo_clean"} => aside'[run.t] = "new" /\ run.orig[run.t] = "old"
    PROVE  IInv'
<1>0. /\ IInv /\ run.pc \in Undoing /\ Later /\ shows' = shows /\ touched' = touched
      /\ run.orig[run.t] \in {"absent", "old"}
  BY Back DEF Backing, inputs
<1>1. Ordered'
  BY <1>0 DEF IInv, Ordered, Undoing, Reading
<1>2. Sorted'
  BY DEF Sorted, Reading, Installing, Exchanging
<1>3. Undone'
  <2>1. /\ run.rest = "drop_todo" => held'["todo"] = "new" /\ aside'["todo"] = "absent"
        /\ run.rest = "undo_task" => held'["task"] = run.orig["task"] /\ aside'["task"] = "absent"
    BY <1>0, Back DEF Backing, Targets
  <2>. QED BY <1>0, <2>1 DEF Undone, Ready, Stored
<1>4. Accounted'
  <2>1. run'.pc \in Undoing /\ run'.pc \notin Closing /\ Installs(run') = Installs(run)
    BY DEF Undoing, Closing, Installs
  <2>. QED BY <1>0, <2>1 DEF IInv, Accounted
<1>5. Shown'
  BY <1>0 DEF IInv, Shown, Later
<1>6. Recoverable'
  BY <1>0, Keeping DEF StillKept, Installs
<1>. QED BY <1>1, <1>2, <1>3, <1>4, <1>5, <1>6, RunStep DEF Backing

LEMMA DropInv ==
    ASSUME IInv, Drop
    PROVE  IInv' /\ Balanced
<1>0. /\ TypeOK /\ run \in Run /\ run.pc = "drop" /\ run.t \in Targets /\ run.pc \in Undoing
      /\ UNCHANGED <<public, aside, out, inputs, strays, touched>> /\ faults' \in 0 .. faults
      /\ held[run.t] = "new" /\ Later
  BY RunType, FaultAssumption DEF IInv, TypeOK, Drop, history, Undone, Undoing, Later
<1>1. /\ public' \in FileType /\ held' \in FileType /\ aside' \in FileType
      /\ \A u \in Targets \ {run.t} : held'[u] = held[u] /\ aside'[u] = aside[u]
      /\ Balanced /\ held'[run.t] \in {"new", "absent"}
  <2>1. CASE InputsMatch
    <3>1. /\ held' = Place(held, run.t, "absent") /\ "absent" \in Files
          /\ public' = Place(public, run.t, public[run.t])
          /\ aside' = Place(aside, run.t, aside[run.t])
      BY <1>0, <2>1, Same DEF Drop, Files
    <3>2. One(public[run.t]) + One("absent") + One(aside[run.t]) = Of(public, held, aside, run.t)
      BY <1>0 DEF Of, One
    <3>. HIDE DEF Of
    <3>. QED BY <1>0, <3>1, <3>2, Same, OneTarget
  <2>2. CASE ~InputsMatch
    BY <1>0, <2>2, Still DEF Drop, TypeOK, FileType, worktree
  <2>. QED BY <2>1, <2>2
<1>2. StillKept
  <2>1. \A t \in Targets : held[t] = "old" => held'[t] = "old"
    BY <1>0, <1>1
  <2>2. touched = {} => Kept
    BY <1>0, KeptBefore DEF Closing
  <2>. QED BY <1>0, <2>1, <2>2, InstallsIn DEF StillKept, Kept
<1>3. Backing
  BY <1>0, <1>1 DEF Backing
<1>. DEFINE r == Witnessed(run.t, run)
<1>4. /\ r \in Run /\ r.cmd = run.cmd /\ r.orig = run.orig /\ r.expect = run.expect
      /\ r.t = run.t /\ r.receipts = run.receipts /\ r.rest = run.rest /\ r.phase = run.phase
  BY <1>0, WitnessedIs
<1>5. Like(NextJob(r)) \/ Like(Bad(r))
  <2>1. Gated(TRUE, NextJob(r), Bad(r))
    BY DEF Drop
  <2>2. NextJob(r) \in Run /\ Bad(r) \in Run
    BY <1>4, NextJobIs, BadIs
  <2>. HIDE DEF r
  <2>. QED BY <2>1, <2>2, Gating
<1>6. CASE Like(NextJob(r))
  BY <1>0, <1>1, <1>2, <1>3, <1>6, Back, EndWell
<1>7. CASE Like(Bad(r))
  <2>. HIDE DEF r
  <2>. QED BY <1>1, <1>2, <1>3, <1>4, <1>7, EndBad
<1>. QED BY <1>1, <1>5, <1>6, <1>7

LEMMA GateUndoInv ==
    ASSUME IInv, GateUndo
    PROVE  IInv' /\ Balanced
<1>0. /\ TypeOK /\ run \in Run /\ run.pc = "undo" /\ run.pc \in Undoing /\ Later
      /\ UNCHANGED <<public, held, aside, out, inputs, strays, touched>> /\ faults' \in 0 .. faults
  BY RunType, FaultAssumption
     DEF IInv, TypeOK, GateUndo, history, worktree, Undoing, Later
<1>1. /\ public' \in FileType /\ held' \in FileType /\ aside' \in FileType /\ Balanced
  BY <1>0, Still DEF TypeOK, FileType, worktree
<1>2. Backing
  BY <1>0, <1>1 DEF Backing
<1>3. At("undo_take") \in Run /\ Bad(run) \in Run
  BY <1>0, AtIs, BadIs DEF Labels
<1>4. StillKept \/ (run.cmd = "todo" /\ AllNew /\ public' = public)
  BY <1>0 DEF IInv, Recoverable, StillKept, Kept, Closing
<1>5. \/ Undoable(run.t) /\ Like(At("undo_take"))
      \/ Like(Bad(run))
  <2>1. CASE Undoable(run.t)
    <3>1. Gated(TRUE, At("undo_take"), Bad(run))
      BY <2>1 DEF GateUndo
    <3>. QED BY <1>3, <2>1, <3>1, Gating
  <2>2. CASE ~Undoable(run.t)
    BY <1>3, <2>2 DEF GateUndo, Like
  <2>. QED BY <2>1, <2>2
<1>6. CASE Undoable(run.t) /\ Like(At("undo_take"))
  <2>1. /\ run' \in Run /\ run'.pc = "undo_take" /\ run'.cmd = run.cmd /\ run'.t = run.t
        /\ run'.orig = run.orig /\ run'.expect = run.expect /\ run'.receipts = run.receipts
        /\ run'.rest = run.rest /\ run'.phase = run.phase /\ run'.bad = run.bad
        /\ run'.witnessed = run.witnessed
    BY <1>0, <1>6, AtIs DEF Like, Labels
  <2>2. /\ run.orig[run.t] = "absent" => held[run.t] = "absent"
        /\ run.orig[run.t] = "old" =>
              run.t \in run.receipts /\ held[run.t] = "old" /\ aside[run.t] = "absent"
    BY <1>0, <1>6 DEF IInv, Undone, Undoable
  <2>3. StillKept
    <3>1. CASE StillKept
      BY <3>1
    <3>2. CASE run.cmd = "todo" /\ AllNew /\ public' = public
      BY <1>0, <2>2, <3>2, Back DEF StillKept, Installs
    <3>. QED BY <1>4, <3>1, <3>2
  <2>. QED BY <1>0, <1>1, <1>2, <2>1, <2>2, <2>3, GoingBack
<1>7. CASE Like(Bad(run))
  BY <1>0, <1>1, <1>2, <1>4, <1>7, EndBad
<1>. QED BY <1>1, <1>5, <1>6, <1>7

\* The facts about a step of a rollback after the check of what was installed.
LEMMA Undo ==
    ASSUME IInv, run.pc \in Undoing, run.pc # "undo"
    PROVE  /\ TypeOK /\ run \in Run /\ run.t \in Targets /\ Later
           /\ run.orig[run.t] \in {"absent", "old"}
           /\ touched = {} => Kept
           /\ Bad(run) \in Run /\ public[run.t] \in Files /\ held[run.t] \in Files
           /\ aside[run.t] \in Files /\ "absent" \in Files /\ One("absent") = 0 /\ One("new") = 0
           /\ One("old") = 0 /\ \A x : One(x) \in Nat
           /\ Of(public, held, aside, run.t) = One(public[run.t]) + One(held[run.t]) + One(aside[run.t])
           /\ Place(public, run.t, public[run.t]) = public
           /\ Place(held, run.t, held[run.t]) = held /\ Place(aside, run.t, aside[run.t]) = aside
<1>1. TypeOK /\ run \in Run /\ run.t \in Targets /\ Later /\ run.orig[run.t] \in {"absent", "old"}
  BY Back DEF IInv
<1>2. touched = {} => Kept
  BY <1>1, KeptBefore DEF Closing, Undoing
<1>. QED BY <1>1, <1>2, BadIs, Same DEF One, Of, Files

\* A step of a rollback that moves no file.
LEMMA Unmoved ==
    ASSUME IInv, run.pc \in Undoing, run.pc # "undo", UNCHANGED <<worktree, out, inputs, history>>
    PROVE  Backing /\ StillKept /\ UNCHANGED <<public, held, aside, touched>>
<1>1. /\ UNCHANGED <<public, held, aside, out, inputs, strays, touched>> /\ faults' = faults
      /\ faults \in Nat
  BY FaultAssumption DEF worktree, history, IInv, TypeOK
<1>2. /\ public' \in FileType /\ held' \in FileType /\ aside' \in FileType /\ Balanced
  BY <1>1, Still, Undo DEF TypeOK, FileType, worktree
<1>. QED BY <1>1, <1>2, Undo DEF Backing, StillKept, Kept

\* A step of a rollback that moves files of its target, and keeps the old one.
LEMMA Moves ==
    ASSUME IInv, run.pc \in Undoing, run.pc # "undo", UNCHANGED <<out, inputs, history>>,
           NEW p \in Files, NEW h \in Files, NEW a \in Files, public' = Place(public, run.t, p),
           held' = Place(held, run.t, h), aside' = Place(aside, run.t, a),
           One(p) + One(h) + One(a) = Of(public, held, aside, run.t),
           run.orig[run.t] = "old" /\ touched = {} /\ "old" \in {public[run.t], held[run.t]} => "old" \in {p, h}
    PROVE  /\ Backing /\ StillKept /\ touched' = touched
           /\ public'[run.t] = p /\ held'[run.t] = h /\ aside'[run.t] = a
<1>1. /\ UNCHANGED <<out, inputs, strays, touched>> /\ faults' = faults /\ faults \in Nat
      /\ TypeOK /\ run.t \in Targets
  BY FaultAssumption, Undo DEF history, IInv, TypeOK
<1>2. /\ public' \in FileType /\ held' \in FileType /\ aside' \in FileType /\ Balanced
      /\ public'[run.t] = p /\ held'[run.t] = h /\ aside'[run.t] = a
      /\ \A u \in Targets \ {run.t} :
            public'[u] = public[u] /\ held'[u] = held[u] /\ aside'[u] = aside[u]
  BY <1>1, OneTarget
<1>3. StillKept
  <2>1. touched = {} => Kept
    BY Undo
  <2>. QED BY <1>2, <2>1, InstallsIn DEF StillKept, Kept
<1>4. faults' \in 0 .. faults
  BY <1>1
<1>. QED BY <1>1, <1>2, <1>3, <1>4 DEF Backing

LEMMA UndoTakeInv ==
    ASSUME IInv, UndoTake
    PROVE  IInv' /\ Balanced
<1>0. run.pc = "undo_take" /\ run.pc \in Undoing /\ run.pc # "undo" /\ UNCHANGED <<out, inputs, history>>
  BY DEF UndoTake, Undoing
<1>a. /\ TypeOK /\ run \in Run /\ run.orig[run.t] \in {"absent", "old"} /\ Bad(run) \in Run
      /\ run.orig[run.t] = "absent" => held[run.t] = "absent"
      /\ run.orig[run.t] = "old" => held[run.t] = "old" /\ aside[run.t] = "absent"
  BY <1>0, Undo DEF IInv, Undone
<1>1. CASE public[run.t] = "absent"
  <2>1. run' = Bad(run) /\ UNCHANGED worktree
    BY <1>1 DEF UndoTake
  <2>2. Backing /\ StillKept /\ Like(Bad(run))
    BY <1>0, <1>a, <2>1, Unmoved DEF Like
  <2>. QED BY <1>a, <2>2, EndBad DEF Backing
<1>2. CASE public[run.t] # "absent"
  <2>1. /\ public' = Place(public, run.t, "absent") /\ run' = At("undo_check")
        /\ IF run.orig[run.t] = "absent"
           THEN held' = Place(held, run.t, public[run.t]) /\ UNCHANGED aside
           ELSE aside' = Place(aside, run.t, public[run.t]) /\ UNCHANGED held
    BY <1>2 DEF UndoTake
  <2>2. Backing /\ StillKept /\ (run.orig[run.t] = "old" => held'[run.t] = "old")
    <3>1. CASE run.orig[run.t] = "absent"
      <4>1. /\ held' = Place(held, run.t, public[run.t])
            /\ aside' = Place(aside, run.t, aside[run.t])
        BY <1>0, <2>1, <3>1, Undo
      <4>2. One("absent") + One(public[run.t]) + One(aside[run.t]) = Of(public, held, aside, run.t)
        <5>1. One(held[run.t]) = 0
          BY <1>a, <3>1 DEF One
        <5>2. One(public[run.t]) \in Nat /\ One(aside[run.t]) \in Nat
          BY <1>0, Undo
        <5>. QED BY <1>0, <5>1, <5>2, Undo
      <4>. QED BY <1>0, <2>1, <3>1, <4>1, <4>2, Undo, Moves
    <3>2. CASE run.orig[run.t] = "old"
      <4>1. /\ aside' = Place(aside, run.t, public[run.t])
            /\ held' = Place(held, run.t, held[run.t])
        BY <1>0, <2>1, <3>2, Undo
      <4>2. One("absent") + One(held[run.t]) + One(public[run.t]) = Of(public, held, aside, run.t)
        <5>1. One(aside[run.t]) = 0
          BY <1>a, <3>2 DEF One
        <5>2. One(public[run.t]) \in Nat /\ One(held[run.t]) \in Nat
          BY <1>0, Undo
        <5>. QED BY <1>0, <5>1, <5>2, Undo
      <4>. QED BY <1>0, <1>a, <2>1, <3>2, <4>1, <4>2, Undo, Moves
    <3>. QED BY <1>a, <3>1, <3>2
  <2>3. /\ run' \in Run /\ run'.pc = "undo_check" /\ run'.cmd = run.cmd /\ run'.t = run.t
        /\ run'.orig = run.orig /\ run'.expect = run.expect /\ run'.receipts = run.receipts
        /\ run'.rest = run.rest /\ run'.phase = run.phase /\ run'.bad = run.bad
        /\ run'.witnessed = run.witnessed
    BY <1>a, <2>1, AtIs DEF Labels
  <2>. QED BY <2>2, <2>3, GoingBack DEF Backing
<1>. QED BY <1>1, <1>2

LEMMA UndoCreatedInv ==
    ASSUME IInv, UndoCreated
    PROVE  IInv' /\ Balanced
<1>0. /\ run.pc = "undo_check" /\ run.pc \in Undoing /\ run.pc # "undo"
      /\ UNCHANGED <<public, aside, out, inputs, history>> /\ run.orig[run.t] = "absent"
  BY DEF UndoCreated, Undoing
<1>a. /\ TypeOK /\ run \in Run /\ Bad(run) \in Run /\ run.t \in Targets
      /\ run.cmd = "todo" => run.t = "todo" /\ run.phase = "initial"
  BY <1>0, Undo, Back
<1>1. CASE held[run.t] = "new"
  <2>. DEFINE r == [run EXCEPT !.phase = IF run.t = "task" THEN "restored" ELSE @]
  <2>0. /\ r \in Run /\ r.cmd = run.cmd /\ r.orig = run.orig /\ r.expect = run.expect
        /\ r.t = run.t /\ r.receipts = run.receipts /\ r.rest = run.rest /\ r.bad = run.bad
        /\ r.witnessed = run.witnessed /\ (run.cmd = "todo" => r.phase = "initial")
    BY <1>a DEF Run, Phases
  <2>1. RolledBack(run) = NextJob(Witnessed(run.t, r))
    BY <2>0 DEF RolledBack
  <2>. HIDE DEF r
  <2>2. RolledBack(run) \in Run
    BY <1>a, <2>0, <2>1, WitnessedIs, NextJobIs
  <2>3. Like(NextJob(Witnessed(run.t, r))) \/ Like(Bad(run))
    <3>1. Gated(TRUE, IF Free(run.t) THEN RolledBack(run) ELSE Bad(run), Bad(run))
      BY <1>1 DEF UndoCreated
    <3>2. CASE Free(run.t)
      <4>1. Gated(TRUE, RolledBack(run), Bad(run))
        BY <3>1, <3>2
      <4>. QED BY <1>a, <2>1, <2>2, <4>1, Gating
    <3>3. CASE ~Free(run.t)
      <4>1. Gated(TRUE, Bad(run), Bad(run))
        BY <3>1, <3>3
      <4>. QED BY <1>a, <4>1, Gating
    <3>. QED BY <3>2, <3>3
  <2>4. Backing /\ StillKept
    <3>1. CASE InputsMatch
      <4>1. /\ held' = Place(held, run.t, "absent") /\ public' = Place(public, run.t, public[run.t])
            /\ aside' = Place(aside, run.t, aside[run.t])
        BY <1>0, <1>1, <3>1, Undo DEF UndoCreated
      <4>2. One(public[run.t]) + One("absent") + One(aside[run.t]) = Of(public, held, aside, run.t)
        <5>1. One(held[run.t]) = 0
          BY <1>1 DEF One
        <5>2. One(public[run.t]) \in Nat /\ One(aside[run.t]) \in Nat
          BY <1>0, Undo
        <5>. QED BY <1>0, <5>1, <5>2, Undo
      <4>. QED BY <1>0, <4>1, <4>2, Undo, Moves
    <3>2. CASE ~InputsMatch
      BY <1>0, <1>1, <3>2, Unmoved DEF UndoCreated, worktree
    <3>. QED BY <3>1, <3>2
  <2>5. CASE Like(NextJob(Witnessed(run.t, r)))
    BY <2>0, <2>4, <2>5, EndWell DEF Backing
  <2>6. CASE Like(Bad(run))
    BY <1>a, <2>4, <2>6, EndBad DEF Backing
  <2>. QED BY <2>3, <2>5, <2>6
<1>2. CASE held[run.t] # "new"
  <2>1. Gated(Free(run.t), At("undo_return"), Bad(run)) /\ UNCHANGED held
    BY <1>2 DEF UndoCreated
  <2>2. At("undo_return") \in Run
    BY <1>a, AtIs DEF Labels
  <2>3. Like(At("undo_return")) \/ Like(Bad(run))
    BY <1>a, <2>1, <2>2, Gating
  <2>4. Backing /\ StillKept
    BY <1>0, <2>1, Unmoved DEF worktree
  <2>5. CASE Like(At("undo_return"))
    <3>1. /\ run' \in Run /\ run'.pc = "undo_return" /\ run'.cmd = run.cmd /\ run'.t = run.t
          /\ run'.orig = run.orig /\ run'.expect = run.expect /\ run'.receipts = run.receipts
          /\ run'.rest = run.rest /\ run'.phase = run.phase /\ run'.bad = run.bad
          /\ run'.witnessed = run.witnessed
      BY <1>a, <2>5, AtIs DEF Like, Labels
    <3>. QED BY <2>4, <3>1, GoingBack DEF Backing
  <2>6. CASE Like(Bad(run))
    BY <1>a, <2>4, <2>6, EndBad DEF Backing
  <2>. QED BY <2>3, <2>5, <2>6
<1>. QED BY <1>1, <1>2

LEMMA UndoReturnInv ==
    ASSUME IInv, UndoReturn
    PROVE  IInv' /\ Balanced
<1>0. /\ run.pc = "undo_return" /\ run.pc \in Undoing /\ run.pc # "undo"
      /\ UNCHANGED <<aside, out, inputs, history>> /\ run' = Bad(run)
  BY DEF UndoReturn, Undoing
<1>1. run \in Run /\ Like(Bad(run))
  BY <1>0, Undo DEF Like
<1>2. Backing /\ StillKept
  <2>1. CASE Free(run.t)
    <3>1. /\ public' = Place(public, run.t, held[run.t]) /\ held' = Place(held, run.t, "absent")
          /\ aside' = Place(aside, run.t, aside[run.t])
      BY <1>0, <2>1, Undo DEF UndoReturn
    <3>2. public[run.t] = "absent"
      BY <2>1 DEF Free
    <3>3. One(held[run.t]) + One("absent") + One(aside[run.t]) = Of(public, held, aside, run.t)
      <4>1. One(held[run.t]) \in Nat /\ One(aside[run.t]) \in Nat
        BY <1>0, Undo
      <4>. QED BY <1>0, <3>2, <4>1, Undo
    <3>. QED BY <1>0, <3>1, <3>2, <3>3, Undo, Moves
  <2>2. CASE ~Free(run.t)
    BY <1>0, <2>2, Unmoved DEF UndoReturn, worktree
  <2>. QED BY <2>1, <2>2
<1>. QED BY <1>1, <1>2, EndBad DEF Backing

LEMMA UndoReplacedInv ==
    ASSUME IInv, UndoReplaced
    PROVE  IInv' /\ Balanced
<1>0. /\ run.pc = "undo_check" /\ run.pc \in Undoing /\ run.pc # "undo"
      /\ UNCHANGED <<worktree, out, inputs, history>> /\ run.orig[run.t] = "old"
  BY DEF UndoReplaced, Undoing
<1>1. /\ TypeOK /\ run \in Run /\ Bad(run) \in Run /\ held[run.t] = "old"
      /\ Backing /\ StillKept /\ UNCHANGED <<held, aside>>
  BY <1>0, Undo, Unmoved DEF IInv, Undone
<1>2. At("undo_restore") \in Run
  BY <1>1, AtIs DEF Labels
<1>3. \/ aside[run.t] = "new" /\ Like(At("undo_restore"))
      \/ Like(Bad(run))
  BY <1>1, <1>2, Gating DEF UndoReplaced
<1>4. CASE aside[run.t] = "new" /\ Like(At("undo_restore"))
  <2>1. /\ run' \in Run /\ run'.pc = "undo_restore" /\ run'.cmd = run.cmd /\ run'.t = run.t
        /\ run'.orig = run.orig /\ run'.expect = run.expect /\ run'.receipts = run.receipts
        /\ run'.rest = run.rest /\ run'.phase = run.phase /\ run'.bad = run.bad
        /\ run'.witnessed = run.witnessed
    BY <1>1, <1>4, AtIs DEF Like, Labels
  <2>. QED BY <1>0, <1>1, <1>4, <2>1, GoingBack DEF Backing
<1>5. CASE Like(Bad(run))
  BY <1>1, <1>5, EndBad DEF Backing
<1>. QED BY <1>3, <1>4, <1>5

LEMMA UndoRestoreInv ==
    ASSUME IInv, UndoRestore
    PROVE  IInv' /\ Balanced
<1>0. /\ run.pc = "undo_restore" /\ run.pc \in Undoing /\ run.pc # "undo"
      /\ UNCHANGED <<aside, out, inputs, history>>
  BY DEF UndoRestore, Undoing
<1>a. /\ TypeOK /\ run \in Run /\ Bad(run) \in Run /\ held[run.t] = "old"
      /\ aside[run.t] = "new" /\ run.orig[run.t] = "old"
  BY <1>0, Undo DEF IInv, Undone
<1>1. CASE Free(run.t)
  <2>1. /\ public' = Place(public, run.t, held[run.t]) /\ held' = Place(held, run.t, "absent")
        /\ aside' = Place(aside, run.t, aside[run.t])
        /\ run' = [At("undo_clean") EXCEPT !.receipts = @ \ {run.t}]
    BY <1>0, <1>1, Undo DEF UndoRestore
  <2>2. public[run.t] = "absent"
    BY <1>1 DEF Free
  <2>3. One(held[run.t]) + One("absent") + One(aside[run.t]) = Of(public, held, aside, run.t)
    <3>1. One(held[run.t]) \in Nat /\ One(aside[run.t]) \in Nat
      BY <1>0, Undo
    <3>. QED BY <1>0, <2>2, <3>1, Undo
  <2>4. Backing /\ StillKept /\ aside'[run.t] = aside[run.t]
    BY <1>0, <2>1, <2>2, <2>3, Undo, Moves
  <2>5. /\ run' \in Run /\ run'.pc = "undo_clean" /\ run'.cmd = run.cmd /\ run'.t = run.t
        /\ run'.orig = run.orig /\ run'.expect = run.expect /\ run'.rest = run.rest
        /\ run'.phase = run.phase /\ run'.bad = run.bad /\ run'.witnessed = run.witnessed
        /\ run'.receipts = run.receipts \ {run.t}
    <3>. DEFINE v == At("undo_clean")
    <3>1. /\ v \in Run /\ v.pc = "undo_clean" /\ v.cmd = run.cmd /\ v.t = run.t
          /\ v.orig = run.orig /\ v.expect = run.expect /\ v.phase = run.phase
          /\ v.rest = run.rest /\ v.receipts = run.receipts /\ v.bad = run.bad
          /\ v.witnessed = run.witnessed
      BY <1>a, AtIs DEF Labels
    <3>2. run' = [v EXCEPT !.receipts = @ \ {run.t}]
      BY <2>1
    <3>. HIDE DEF v
    <3>. QED BY <3>1, <3>2 DEF Run
  <2>. QED BY <1>a, <2>4, <2>5, GoingBack DEF Backing
<1>2. CASE ~Free(run.t)
  <2>1. run' = Bad(run) /\ UNCHANGED worktree
    BY <1>0, <1>2 DEF UndoRestore, worktree
  <2>2. Backing /\ StillKept /\ Like(Bad(run))
    BY <1>0, <1>a, <2>1, Unmoved DEF Like
  <2>. QED BY <1>a, <2>2, EndBad DEF Backing
<1>. QED BY <1>1, <1>2

LEMMA UndoCleanInv ==
    ASSUME IInv, UndoClean
    PROVE  IInv' /\ Balanced
<1>0. /\ run.pc = "undo_clean" /\ run.pc \in Undoing /\ run.pc # "undo"
      /\ UNCHANGED <<public, held, out, inputs, history>>
  BY DEF UndoClean, Undoing
<1>a. /\ TypeOK /\ run \in Run /\ Bad(run) \in Run /\ aside[run.t] = "new" /\ run.t \in Targets
      /\ run.cmd = "todo" => run.t = "todo" /\ run.phase = "initial"
  BY <1>0, Undo, Back DEF IInv, Undone
<1>. DEFINE r == [run EXCEPT !.phase = IF run.t = "task" THEN "restored" ELSE @]
<1>1. /\ r \in Run /\ r.cmd = run.cmd /\ r.orig = run.orig /\ r.expect = run.expect
      /\ r.t = run.t /\ r.receipts = run.receipts /\ r.rest = run.rest /\ r.bad = run.bad
      /\ r.witnessed = run.witnessed /\ (run.cmd = "todo" => r.phase = "initial")
  BY <1>a DEF Run, Phases
<1>2. RolledBack(run) = NextJob(Witnessed(run.t, r))
  BY <1>1 DEF RolledBack
<1>. HIDE DEF r
<1>3. RolledBack(run) \in Run
  BY <1>a, <1>1, <1>2, WitnessedIs, NextJobIs
<1>4. Like(NextJob(Witnessed(run.t, r))) \/ Like(Bad(run))
  <2>1. Gated(TRUE, IF public[run.t] = "old" THEN RolledBack(run) ELSE Bad(run), Bad(run))
    BY DEF UndoClean
  <2>2. CASE public[run.t] = "old"
    <3>1. Gated(TRUE, RolledBack(run), Bad(run))
      BY <2>1, <2>2
    <3>. QED BY <1>a, <1>2, <1>3, <3>1, Gating
  <2>3. CASE public[run.t] # "old"
    <3>1. Gated(TRUE, Bad(run), Bad(run))
      BY <2>1, <2>3
    <3>. QED BY <1>a, <3>1, Gating
  <2>. QED BY <2>2, <2>3
<1>5. Backing /\ StillKept
  <2>1. CASE InputsMatch
    <3>1. /\ aside' = Place(aside, run.t, "absent") /\ public' = Place(public, run.t, public[run.t])
          /\ held' = Place(held, run.t, held[run.t])
      BY <1>0, <2>1, Undo DEF UndoClean
    <3>2. One(public[run.t]) + One(held[run.t]) + One("absent") = Of(public, held, aside, run.t)
      <4>1. One(aside[run.t]) = 0
        BY <1>a DEF One
      <4>2. One(public[run.t]) \in Nat /\ One(held[run.t]) \in Nat
        BY <1>0, Undo
      <4>. QED BY <1>0, <4>1, <4>2, Undo
    <3>. QED BY <1>0, <3>1, <3>2, Undo, Moves
  <2>2. CASE ~InputsMatch
    BY <1>0, <2>2, Unmoved DEF UndoClean, worktree
  <2>. QED BY <2>1, <2>2
<1>6. CASE Like(NextJob(Witnessed(run.t, r)))
  BY <1>1, <1>5, <1>6, EndWell DEF Backing
<1>7. CASE Like(Bad(run))
  BY <1>a, <1>5, <1>7, EndBad DEF Backing
<1>. QED BY <1>4, <1>6, <1>7

----------------------------------------------------------------------------
(* Both installed, and the end of a command *)

LEMMA ConfirmInv ==
    ASSUME IInv, Confirm
    PROVE  IInv' /\ Balanced
<1>0. /\ TypeOK /\ run \in Run /\ run.pc = "confirm" /\ Later /\ run.cmd = "write" /\ run.t = "todo"
      /\ UNCHANGED <<worktree, out, inputs, strays, touched>> /\ faults' \in 0 .. faults
      /\ Stored("task") /\ Stored("todo") /\ UNCHANGED <<public, held, aside>> /\ shows' = shows
  BY RunType, FaultAssumption
     DEF IInv, TypeOK, Confirm, history, inputs, worktree, Ordered, Sorted, Later, Targets
<1>1. /\ public' \in FileType /\ held' \in FileType /\ aside' \in FileType /\ Balanced
  BY <1>0, Still DEF TypeOK, FileType
<1>. DEFINE c == [At("clear") EXCEPT !.t = "task"]
<1>2. /\ c \in Run /\ c.pc = "clear" /\ c.cmd = run.cmd /\ c.t = "task" /\ c.orig = run.orig
      /\ c.expect = run.expect /\ c.receipts = run.receipts /\ c.rest = run.rest /\ c.phase = run.phase
  BY <1>0 DEF At, Run, Labels, Targets
<1>3. InstallFailed(run, TRUE) \in Run
  BY <1>0, InstallFailedIs
<1>4. \/ AllNew /\ Like(c)
      \/ Like(InstallFailed(run, TRUE))
  BY <1>2, <1>3, Gating DEF Confirm
<1>. HIDE DEF c
<1>5. CASE AllNew /\ Like(c)
  <2>1. /\ run' \in Run /\ run'.pc = "clear" /\ run'.cmd = "write" /\ run'.t = "task"
        /\ run'.orig = run.orig /\ run'.expect = run.expect /\ run'.receipts = run.receipts
    BY <1>0, <1>2, <1>5 DEF Like
  <2>2. Ordered' /\ Undone' /\ Accounted'
    BY <2>1 DEF Ordered, Undone, Accounted, Undoing, Closing, Reading
  <2>3. Sorted'
    BY <1>0, <2>1 DEF Sorted, Stored, Reading, Installing, Exchanging
  <2>4. Shown'
    BY <1>0, <2>1 DEF IInv, Shown
  <2>5. Recoverable'
    <3>1. AllNew'
      BY <1>0, <1>5, <2>1 DEF AllNew, Installs
    <3>. QED BY <2>1, <3>1 DEF Recoverable
  <2>. QED BY <1>0, <1>1, <2>1, <2>2, <2>3, <2>4, <2>5, RunStep
<1>6. CASE Like(InstallFailed(run, TRUE))
  <2>1. StillKept
    BY <1>0, KeptStill DEF Closing
  <2>. QED BY <1>0, <1>1, <1>6, <2>1, FailStep DEF Stored
<1>. QED BY <1>1, <1>4, <1>5, <1>6

\* The receipt of a target is removed, or stays where its removal fails.
LEMMA Clearing ==
    ASSUME IInv, run.pc = "clear", UNCHANGED <<public, aside, out, inputs, strays, touched>>,
           faults' \in 0 .. faults, Like(AfterClear(run)),
           \/ UNCHANGED held
           \/ run.orig[run.t] = "old" /\ held' = Place(held, run.t, "absent")
    PROVE  IInv' /\ Balanced
<1>0. /\ TypeOK /\ run \in Run /\ Later /\ run.t \in Targets /\ (run.cmd = "todo" => run.t = "todo")
      /\ Stored(run.t) /\ (run.t = "task" => Stored("todo"))
  BY RunType DEF IInv, TypeOK, Ordered, Sorted, Later
<1>1. /\ public' \in FileType /\ held' \in FileType /\ aside' \in FileType /\ Balanced
      /\ \A u \in Targets \ {run.t} : held'[u] = held[u]
  <2>1. CASE UNCHANGED held
    BY <1>0, <2>1, Still DEF TypeOK, FileType, worktree
  <2>2. CASE run.orig[run.t] = "old" /\ held' = Place(held, run.t, "absent")
    <3>1. /\ public' = Place(public, run.t, public[run.t]) /\ aside' = Place(aside, run.t, aside[run.t])
          /\ "absent" \in Files
      BY <1>0, Same DEF Files
    <3>2. One(public[run.t]) + One("absent") + One(aside[run.t]) = Of(public, held, aside, run.t)
      BY <1>0, <2>2 DEF Of, One, Stored
    <3>. HIDE DEF Of
    <3>. QED BY <1>0, <2>2, <3>1, <3>2, Same, OneTarget
  <2>. QED BY <2>1, <2>2
<1>2. /\ run' \in Run /\ run'.cmd = run.cmd /\ run'.t = "todo" /\ run'.orig = run.orig
      /\ run'.expect = run.expect /\ run'.receipts = run.receipts /\ run'.phase = run.phase
      /\ run'.rest = run.rest
      /\ run'.pc = (IF run.t = "task" THEN "clear" ELSE "settle")
  BY <1>0 DEF Like, AfterClear, Run, Targets
<1>3. Ordered'
  BY <1>0, <1>2 DEF IInv, Ordered, Undoing, Reading
<1>4. Sorted'
  <2>1. CASE run.t = "task"
    <3>1. held'["todo"] = held["todo"] /\ Stored("todo")
      BY <1>0, <1>1, <2>1 DEF Targets
    <3>. QED BY <1>2, <2>1, <3>1 DEF Sorted, Stored, Reading, Installing, Exchanging
  <2>2. CASE run.t = "todo"
    <3>1. aside["todo"] = "absent" /\ (run.orig["todo"] = "absent" => held'["todo"] = "absent")
      BY <1>0, <2>2 DEF Stored
    <3>. QED BY <1>2, <2>2, <3>1 DEF Sorted, Stored, Reading, Installing, Exchanging
  <2>. QED BY <1>0, <2>1, <2>2 DEF Targets
<1>5. Undone' /\ Accounted' /\ Shown'
  BY <1>0, <1>2 DEF IInv, Undone, Accounted, Shown, Undoing, Closing, inputs
<1>6. Recoverable'
  <2>1. touched = {} => AllNew'
    BY <1>2 DEF IInv, Recoverable, AllNew, Installs
  <2>. QED BY <1>2, <2>1 DEF Recoverable
<1>. QED BY <1>1, <1>2, <1>3, <1>4, <1>5, <1>6, RunStep

LEMMA ClearInv ==
    ASSUME IInv, Clear
    PROVE  IInv' /\ Balanced
<1>0. /\ run \in Run /\ run.pc = "clear" /\ UNCHANGED <<public, aside, out, inputs, strays, touched>>
      /\ faults' \in 0 .. faults
  BY RunType, FaultAssumption DEF IInv, TypeOK, Clear, history
<1>1. AfterClear(run) \in Run
  BY <1>0 DEF AfterClear, Run, Targets, Labels
<1>2. CASE run.orig[run.t] = "old"
  <2>1. /\ Gated(held[run.t] = "old", AfterClear(run), AfterClear(run))
        /\ held' = IF InputsMatch THEN Place(held, run.t, "absent") ELSE held
    BY <1>2 DEF Clear
  <2>2. Like(AfterClear(run))
    BY <1>1, <2>1, Gating
  <2>. QED BY <1>0, <1>2, <2>1, <2>2, Clearing
<1>3. CASE run.orig[run.t] # "old"
  BY <1>0, <1>1, <1>3, Clearing DEF Clear, Like
<1>. QED BY <1>2, <1>3

\* A command comes to its end, or has ended.
LEMMA Closed ==
    ASSUME IInv, run' \in Run, run'.pc \in Closing \cup {"idle"}, run'.cmd = run.cmd,
           run'.orig = run.orig, run'.expect = run.expect, run'.t = run.t,
           run'.phase = run.phase, run'.rest = run.rest, run'.receipts = run.receipts,
           UNCHANGED <<worktree, inputs, strays, touched>>, out' \in Reports,
           faults' \in 0 .. faults, Later \/ run'.pc = "idle",
           run'.pc \in {"rmdir", "report"} => \A t \in Targets : Empty(t),
           run'.pc \in Closing /\ run'.result = "error" => Installs(run) \subseteq run'.witnessed
    PROVE  IInv' /\ Balanced
<1>0. UNCHANGED <<public, held, aside, moved, shows>> /\ TypeOK
  BY DEF worktree, inputs, IInv
<1>1. /\ public' \in FileType /\ held' \in FileType /\ aside' \in FileType /\ Balanced
  BY <1>0, Still DEF TypeOK, FileType
<1>2. Ordered'
  BY DEF IInv, Ordered, Undoing, Reading, Closing
<1>3. Sorted'
  BY <1>0 DEF Sorted, Reading, Installing, Exchanging, Closing, Empty
<1>4. Undone' /\ Accounted'
  BY DEF Undone, Accounted, Undoing, Closing, Installs
<1>5. Shown'
  BY <1>0 DEF IInv, Shown, Later, Closing
<1>6. Recoverable'
  <2>1. touched = {} => Kept \/ AllNew
    BY DEF IInv, Recoverable
  <2>2. (Kept => Kept') /\ (AllNew => AllNew')
    BY <1>0 DEF Kept, AllNew, Installs
  <2>. QED BY <2>1, <2>2 DEF Recoverable, Closing
<1>7. /\ \A t \in run'.receipts : run'.orig[t] = "old"
      /\ moved' \in BOOLEAN /\ strays' \in Nat /\ shows' \in ShowType /\ touched' \subseteq Targets
  BY <1>0, FaultAssumption DEF TypeOK, ShowType
<1>8. Total(public', held', aside', strays') <= Total(public, held, aside, strays)
  <2>1. Total(public, held, aside, strays) \in Nat
    BY <1>0, TotalIs, FaultAssumption DEF TypeOK
  <2>. QED BY <1>1, <2>1 DEF Balanced
<1>. QED BY <1>1, <1>2, <1>3, <1>4, <1>5, <1>6, <1>7, <1>8, Assembled

LEMMA SettleInv ==
    ASSUME IInv, Settle
    PROVE  IInv' /\ Balanced
<1>0. /\ TypeOK /\ run \in Run /\ run.pc = "settle" /\ Later /\ run.cmd \in {"write", "todo"}
      /\ UNCHANGED <<worktree, out, inputs, strays, touched>> /\ faults' \in 0 .. faults
      /\ run.cmd = "todo" => run.t = "todo" /\ run.phase = "initial" /\ run.rest = "none"
      /\ out \in Reports
  BY RunType, FaultAssumption
     DEF IInv, TypeOK, Settle, history, Ordered, Later, Reports
<1>1. \A result \in {"ok", "uncertain"} :
        LET c == Conclude(run, result) IN
        /\ c \in Run /\ c.pc = "close" /\ c.cmd = run.cmd /\ c.t = run.t /\ c.orig = run.orig
        /\ c.expect = run.expect /\ c.phase = run.phase /\ c.receipts = run.receipts
        /\ c.rest = run.rest /\ c.witnessed = run.witnessed /\ c.result # "error"
  BY <1>0, ConcludeIs DEF Results
<1>2. ASSUME NEW result \in {"ok", "uncertain"}, Like(Conclude(run, result))
      PROVE  IInv' /\ Balanced
  <2>. DEFINE c == Conclude(run, result)
  <2>1. /\ c \in Run /\ c.pc = "close" /\ c.cmd = run.cmd /\ c.t = run.t /\ c.orig = run.orig
        /\ c.expect = run.expect /\ c.phase = run.phase /\ c.receipts = run.receipts
        /\ c.rest = run.rest /\ c.witnessed = run.witnessed /\ c.result # "error" /\ Like(c)
    BY <1>1, <1>2
  <2>. HIDE DEF c
  <2>2. /\ run' \in Run /\ run'.pc = "close" /\ run'.cmd = run.cmd /\ run'.t = run.t
        /\ run'.orig = run.orig /\ run'.expect = run.expect /\ run'.phase = run.phase
        /\ run'.receipts = run.receipts /\ run'.rest = run.rest /\ run'.result # "error"
    BY <2>1 DEF Like
  <2>. QED BY <1>0, <2>2, Closed DEF Closing
<1>3. CASE run.cmd = "write"
  <2>1. run' = Conclude(run, "ok") \/ run' = Conclude(run, "uncertain")
    BY <1>3 DEF Settle
  <2>2. Like(Conclude(run, "ok")) \/ Like(Conclude(run, "uncertain"))
    BY <1>1, <2>1 DEF Like
  <2>. QED BY <1>2, <2>2
<1>4. CASE run.cmd = "todo"
  <2>1. Like(Conclude(run, "ok")) \/ Like(InstallFailed(run, TRUE))
    <3>1. InstallFailed(run, TRUE) \in Run
      BY <1>0, InstallFailedIs
    <3>2. Gated(AllNew /\ \A t \in Targets : held[t] = "absent",
                Conclude(run, "ok"), InstallFailed(run, TRUE))
      BY <1>4 DEF Settle
    <3>. QED BY <1>1, <3>1, <3>2, Gating
  <2>2. CASE Like(InstallFailed(run, TRUE))
    <3>1. /\ public' \in FileType /\ held' \in FileType /\ aside' \in FileType /\ Balanced
          /\ UNCHANGED <<public, held, aside, shows>>
      BY <1>0, Still DEF TypeOK, FileType, worktree, inputs
    <3>2. /\ run' \in Run /\ run'.pc = "undo" /\ run'.cmd = "todo" /\ run'.orig = run.orig
          /\ run'.receipts = run.receipts
      <4>1. run \in Run /\ (run.cmd = "todo" => run.t = "todo")
        BY <1>0
      <4>. DEFINE f == InstallFailed(run, TRUE)
      <4>2. /\ f \in Run /\ f.pc = "undo" /\ f.cmd = run.cmd /\ f.orig = run.orig
            /\ f.receipts = run.receipts
        BY <4>1, InstallFailedIs
      <4>3. Like(f)
        BY <2>2
      <4>. HIDE DEF f
      <4>. QED BY <1>4, <4>2, <4>3 DEF Like
    <3>3. aside["todo"] = "absent" /\ (run.orig["todo"] = "absent" => held["todo"] = "absent")
      BY <1>0 DEF IInv, Sorted
    <3>4. Ordered' /\ Sorted' /\ Undone' /\ Accounted' /\ Shown'
      BY <1>0, <1>4, <2>2, <3>1, <3>3, Failing
    <3>5. Recoverable'
      <4>1. touched = {} => AllNew'
        BY <1>0, <1>4, <3>1, <3>2 DEF IInv, Recoverable, AllNew, Installs
      <4>. QED BY <1>0, <3>2, <4>1 DEF Recoverable
    <3>. QED BY <1>0, <3>1, <3>2, <3>4, <3>5, RunStep
  <2>. QED BY <1>2, <2>1, <2>2
<1>. QED BY <1>0, <1>3, <1>4

LEMMA CloseInv ==
    ASSUME IInv, Close
    PROVE  IInv' /\ Balanced
<1>0. /\ TypeOK /\ run \in Run /\ run.pc \in {"close", "rmdir"} /\ Later
      /\ UNCHANGED <<worktree, inputs, strays, touched>> /\ faults' \in 0 .. faults
      /\ out \in Reports
  BY RunType, FaultAssumption DEF IInv, TypeOK, Close, history, Later, Reports
<1>1. /\ run' = At("idle") \/ run' = At("rmdir") \/ run' = At("report")
      /\ run' # At("idle") => UNCHANGED out /\ \A t \in Targets : Empty(t)
      /\ run' = At("idle") => out' \in {out, "uncertain"}
  BY DEF Close, Exit, Empty
<1>2. /\ run' \in Run /\ run'.pc \in {"idle", "rmdir", "report"} /\ run'.cmd = run.cmd
      /\ run'.orig = run.orig /\ run'.expect = run.expect /\ run'.t = run.t
      /\ run'.phase = run.phase /\ run'.rest = run.rest /\ run'.receipts = run.receipts
      /\ run'.result = run.result /\ run'.witnessed = run.witnessed
      /\ run'.pc # "idle" => run' # At("idle")
  BY <1>0, <1>1, AtIs DEF Labels
<1>3. run.result = "error" => Installs(run) \subseteq run.witnessed
  BY <1>0 DEF IInv, Accounted, Closing
<1>4. out' \in Reports
  BY <1>0, <1>1 DEF Reports
<1>. QED BY <1>0, <1>1, <1>2, <1>3, <1>4, Closed DEF Closing

\* A command ends with a report.
LEMMA Exits ==
    ASSUME IInv, run' = At("idle"), out' \in Reports,
           UNCHANGED <<worktree, inputs, strays, touched>>, faults' \in 0 .. faults
    PROVE  IInv' /\ Balanced
<1>1. /\ run' \in Run /\ run'.pc = "idle" /\ run'.cmd = run.cmd /\ run'.orig = run.orig
      /\ run'.expect = run.expect /\ run'.t = run.t /\ run'.phase = run.phase
      /\ run'.rest = run.rest /\ run'.receipts = run.receipts
  BY AtIs DEF IInv, Labels
<1>. QED BY <1>1, Closed DEF Closing

LEMMA ReportInv ==
    ASSUME IInv, Report
    PROVE  IInv' /\ Balanced
<1>1. run.result \in Reports /\ "uncertain" \in Reports
  BY RunType DEF IInv, Run, Results, Reports
<1>2. UNCHANGED <<worktree, inputs, strays, touched>> /\ faults' \in 0 .. faults
  BY FaultAssumption DEF IInv, TypeOK, Report, history
<1>. QED BY <1>1, <1>2, Exits DEF Report, Exit

----------------------------------------------------------------------------
(* Faults and editors *)

\* A call fails while a target is prepared, installed or taken back.
LEMMA CallFailsInv ==
    ASSUME IInv, CallFails
    PROVE  IInv' /\ Balanced
<1>0. /\ TypeOK /\ run \in Run /\ UNCHANGED <<worktree, inputs, strays, touched>>
      /\ faults' \in 0 .. faults /\ out \in Reports
      /\ run.pc # "rmdir" => out' = out
      /\ run.pc = "rmdir" => out' = "uncertain"
  BY RunType, FaultAssumption DEF IInv, TypeOK, CallFails, Fault, Reports
<1>a. /\ UNCHANGED <<public, held, aside, shows>>
      /\ public' \in FileType /\ held' \in FileType /\ aside' \in FileType /\ Balanced
  BY <1>0, Still DEF TypeOK, FileType, worktree, inputs
<1>1. CASE /\ run.pc = "prepare"
           /\ run' = Conclude([run EXCEPT !.witnessed = Targets], "error")
  <2>. DEFINE u == [run EXCEPT !.witnessed = Targets]
  <2>1. /\ u \in Run /\ u.cmd = run.cmd /\ u.t = run.t /\ u.orig = run.orig
        /\ u.expect = run.expect /\ u.phase = run.phase /\ u.receipts = run.receipts
        /\ u.rest = run.rest /\ u.witnessed = Targets /\ run' = Conclude(u, "error")
    BY <1>0, <1>1 DEF Run
  <2>. HIDE DEF u
  <2>2. /\ run' \in Run /\ run'.pc = "close" /\ run'.cmd = run.cmd /\ run'.t = run.t
        /\ run'.orig = run.orig /\ run'.expect = run.expect /\ run'.phase = run.phase
        /\ run'.receipts = run.receipts /\ run'.rest = run.rest /\ run'.witnessed = Targets
    BY <2>1, ConcludeIs DEF Results
  <2>. QED BY <1>0, <1>1, <2>2, InstallsIn, Closed DEF Closing, Later
<1>2. CASE run.pc = "prepare_todo" /\ run.cmd = "todo" /\ run' = Conclude(Witnessed("todo", run), "error")
  <2>. DEFINE u == Witnessed("todo", run)
  <2>1. /\ u \in Run /\ u.cmd = run.cmd /\ u.t = run.t /\ u.orig = run.orig
        /\ u.expect = run.expect /\ u.phase = run.phase /\ u.receipts = run.receipts
        /\ u.rest = run.rest /\ "todo" \in u.witnessed /\ run' = Conclude(u, "error")
    BY <1>0, <1>2, WitnessedIs DEF Targets
  <2>. HIDE DEF u
  <2>2. /\ run' \in Run /\ run'.pc = "close" /\ run'.cmd = run.cmd /\ run'.t = run.t
        /\ run'.orig = run.orig /\ run'.expect = run.expect /\ run'.phase = run.phase
        /\ run'.receipts = run.receipts /\ run'.rest = run.rest /\ "todo" \in run'.witnessed
    BY <2>1, ConcludeIs DEF Results
  <2>3. Installs(run) = {"todo"}
    BY <1>2 DEF Installs
  <2>. QED BY <1>0, <1>2, <2>2, <2>3, Closed DEF Closing, Later
<1>3. CASE /\ run.pc = "prepare_todo" /\ run.cmd = "write"
           /\ run' = [At("drop") EXCEPT !.t = "task", !.witnessed = Targets]
  <2>1. /\ run' \in Run /\ run'.pc = "drop" /\ run'.cmd = "write" /\ run'.t = "task"
        /\ run'.orig = run.orig /\ run'.expect = run.expect /\ run'.receipts = run.receipts
        /\ run'.rest = run.rest /\ run'.witnessed = Targets
    BY <1>0, <1>3 DEF At, Run, Labels, Targets
  <2>2. run.rest = "none" /\ Ready("task") /\ Later
    BY <1>3 DEF IInv, Ordered, Sorted, Later
  <2>3. Ordered'
    BY <2>1, <2>2 DEF Ordered, Reading
  <2>4. Sorted'
    BY <2>1 DEF Sorted, Reading, Installing, Exchanging
  <2>5. Undone'
    BY <1>a, <2>1, <2>2 DEF Undone, Ready
  <2>6. Accounted' /\ Shown'
    BY <1>3, <1>a, <2>1, <2>2, InstallsIn DEF IInv, Accounted, Shown, Closing
  <2>7. Recoverable'
    <3>1. StillKept
      BY <1>3, <1>a, <2>2, KeptStill DEF Closing
    <3>. QED BY <1>0, <1>3, <2>1, <3>1, Keeping DEF StillKept, Installs
  <2>. QED BY <1>0, <1>3, <1>a, <2>1, <2>3, <2>4, <2>5, <2>6, <2>7, RunStep
<1>4. CASE run.pc \in {"rename", "verify"} /\ run' = InstallFailed(run, run.pc = "verify")
  <2>1. run.pc \in Installing /\ run.pc # "rmdir"
    BY <1>4 DEF Installing, Exchanging
  <2>2. /\ run.cmd = "write" /\ run.t = "task" => held["todo"] = "new" /\ aside["todo"] = "absent"
        /\ run.cmd = "write" /\ run.t = "todo" =>
              held["task"] = run.orig["task"] /\ aside["task"] = "absent"
        /\ Later /\ (run.cmd = "todo" => run.t = "todo")
    BY <2>1, Other
  <2>3. StillKept
    BY <1>4, <1>a, <2>2, KeptStill DEF Closing
  <2>4. \E b \in BOOLEAN : b = (run.pc = "verify")
    OBVIOUS
  <2>5. PICK b \in BOOLEAN : b = (run.pc = "verify")
    BY <2>4
  <2>6. Like(InstallFailed(run, b))
    BY <1>0, <1>4, <2>2, <2>5, InstallFailedIs DEF Like
  <2>7. /\ b \/ held[run.t] = "new"
        /\ b => /\ run.orig[run.t] = "absent" => held[run.t] = "absent"
                /\ aside[run.t] = "absent"
    BY <1>4, <2>5 DEF IInv, Sorted, Ready
  <2>. QED BY <1>0, <1>a, <2>1, <2>2, <2>3, <2>6, <2>7, FailStep
<1>5. CASE run.pc \in {"displace", "take", "replace"} /\ run' = InstallFailed(run, TRUE)
  <2>1. Like(InstallFailed(run, TRUE))
    BY <1>5, Other DEF Like, Installing, Exchanging
  <2>2. held[run.t] # "old" \/ run.t \notin run.receipts
    BY <1>5 DEF IInv, Sorted
  <2>. QED BY <1>0, <1>5, <1>a, <2>1, <2>2, FailTouched
<1>6. CASE run.pc = "drop" /\ run' = Bad(Witnessed(run.t, run))
  <2>1. run.pc \in Undoing /\ run.pc # "undo" /\ run.pc # "rmdir"
    BY <1>6 DEF Undoing
  <2>. DEFINE r == Witnessed(run.t, run)
  <2>2. /\ r \in Run /\ r.cmd = run.cmd /\ r.orig = run.orig /\ r.expect = run.expect
        /\ r.t = run.t /\ r.receipts = run.receipts /\ r.rest = run.rest /\ r.phase = run.phase
    BY <1>0, <2>1, Back, WitnessedIs
  <2>3. run' = Bad(r)
    BY <1>6
  <2>. HIDE DEF r
  <2>4. Like(Bad(r))
    BY <2>2, <2>3, BadIs DEF Like
  <2>5. Backing /\ StillKept
    <3>1. touched = {} => Kept
      BY <2>1, Undo
    <3>. QED BY <1>0, <1>a, <2>1, <3>1 DEF Backing, StillKept, Kept
  <2>. QED BY <1>a, <2>2, <2>4, <2>5, EndBad
<1>7. CASE /\ run.pc \in {"undo_take", "undo_return", "undo_restore", "undo_clean"}
           /\ run' = Bad(run)
  <2>1. run.pc \in Undoing /\ run.pc # "undo" /\ run.pc # "rmdir"
    BY <1>7 DEF Undoing
  <2>2. Like(Bad(run))
    BY <1>0, <1>7, BadIs DEF Like
  <2>3. Backing /\ StillKept
    <3>1. touched = {} => Kept
      BY <2>1, Undo
    <3>. QED BY <1>0, <1>a, <2>1, <3>1 DEF Backing, StillKept, Kept
  <2>. QED BY <1>0, <1>a, <2>2, <2>3, EndBad
<1>8. CASE run.pc = "clear" /\ run' = AfterClear(run)
  <2>1. Like(AfterClear(run))
    BY <1>0, <1>8 DEF Like, AfterClear, Run, Targets, Labels
  <2>. QED BY <1>0, <1>8, <1>a, <2>1, Clearing
<1>9. CASE run.pc = "rmdir" /\ run' = At("idle")
  BY <1>0, <1>9, Exits DEF Reports
<1>10. run.cmd \in {"write", "todo"}
  BY <1>0 DEF Run, Commands
<1>. QED BY <1>1, <1>2, <1>3, <1>4, <1>5, <1>6, <1>7, <1>8, <1>9, <1>10 DEF CallFails

LEMMA CrashInv ==
    ASSUME IInv, Crash
    PROVE  IInv' /\ Balanced
<1>1. "crashed" \in Reports /\ faults' \in 0 .. faults
  BY FaultAssumption DEF Reports, IInv, TypeOK, Crash, Fault
<1>. QED BY <1>1, Exits DEF Crash, Exit

\* The invariant where only a fault is used up, or nothing changes but what
\* editors do outside of the targets.
LEMMA Elsewhere ==
    ASSUME IInv, UNCHANGED <<worktree, run, out, shows, strays, touched>>,
           moved' \in BOOLEAN, faults' \in 0 .. faults
    PROVE  IInv' /\ Balanced
<1>0. UNCHANGED <<public, held, aside>> /\ TypeOK /\ run \in Run
  BY RunType DEF worktree, IInv
<1>1. Balanced
  BY <1>0, Still DEF worktree
<1>2. Ordered' /\ Sorted' /\ Undone' /\ Accounted' /\ Shown'
  BY <1>0 DEF IInv, Ordered, Sorted, Undone, Accounted, Shown, Ready, Stored, Empty
<1>3. Recoverable'
  BY <1>0 DEF IInv, Recoverable, Kept, AllNew
<1>4. /\ run' \in Run /\ \A t \in run'.receipts : run'.orig[t] = "old"
      /\ public' \in FileType /\ held' \in FileType /\ aside' \in FileType /\ out' \in Reports
      /\ strays' \in Nat /\ shows' \in ShowType /\ touched' \subseteq Targets
  BY <1>0, FaultAssumption DEF TypeOK, FileType, Reports, ShowType
<1>5. Total(public', held', aside', strays') <= Total(public, held, aside, strays)
  <2>1. Total(public, held, aside, strays) \in Nat
    BY <1>0, TotalIs, FaultAssumption DEF TypeOK
  <2>. QED BY <1>1, <2>1 DEF Balanced
<1>. QED BY <1>1, <1>2, <1>3, <1>4, <1>5, Assembled

LEMMA EditOtherInv ==
    ASSUME IInv, EditOther
    PROVE  IInv'
<1>1. moved' \in BOOLEAN /\ faults' \in 0 .. faults
  BY FaultAssumption DEF EditOther, Fault, IInv, TypeOK
<1>. QED BY <1>1, Elsewhere DEF EditOther

LEMMA EditInv ==
    ASSUME IInv, NEW t \in Targets, Edit(t)
    PROVE  IInv'
<1>0. /\ TypeOK /\ UNCHANGED <<held, aside, run, out, moved, shows, strays>>
      /\ touched' = touched \cup {t} /\ faults > 0 /\ faults' = faults - 1
  BY DEF IInv, Edit, inputs, Fault
<1>1. PICK f \in {"foreign", "absent"} \ {public[t]} : public' = Place(public, t, f)
  BY DEF Edit
<1>2. public' \in FileType /\ public'[t] = f /\ \A u \in Targets \ {t} : public'[u] = public[u]
  BY <1>0, <1>1 DEF TypeOK, FileType, Files, Place
<1>3. Ordered' /\ Sorted' /\ Undone' /\ Accounted' /\ Shown'
  BY <1>0 DEF IInv, Ordered, Sorted, Undone, Accounted, Shown, Ready, Stored, Empty
<1>4. Recoverable'
  BY <1>0 DEF Recoverable
<1>5. Foreign(public') <= Foreign(public) + 1
  <2>1. One(public'[t]) <= 1 /\ One(public[t]) \in Nat /\ \A x : One(x) \in Nat
    BY DEF One
  <2>2. /\ Foreign(public) = One(public["task"]) + One(public["todo"])
        /\ Foreign(public') = One(public'["task"]) + One(public'["todo"])
    BY ForeignSum
  <2>3. CASE t = "task"
    <3>1. public'["todo"] = public["todo"]
      BY <1>2, <2>3 DEF Targets
    <3>2. One(public["task"]) \in Nat /\ One(public["todo"]) \in Nat /\ One(public'["task"]) \in Nat
      BY <2>1
    <3>. HIDE DEF One
    <3>. QED BY <2>1, <2>2, <2>3, <3>1, <3>2
  <2>4. CASE t = "todo"
    <3>1. public'["task"] = public["task"]
      BY <1>2, <2>4 DEF Targets
    <3>2. One(public["task"]) \in Nat /\ One(public["todo"]) \in Nat /\ One(public'["todo"]) \in Nat
      BY <2>1
    <3>. HIDE DEF One
    <3>. QED BY <2>1, <2>2, <2>4, <3>1, <3>2
  <2>. QED BY <2>3, <2>4 DEF Targets
<1>6. Counted'
  <2>1. /\ Foreign(public) \in Nat /\ Foreign(public') \in Nat /\ Foreign(held) \in Nat
        /\ Foreign(aside) \in Nat /\ strays \in Nat /\ faults \in Nat
    BY <1>0, ForeignSum, FaultAssumption DEF TypeOK
  <2>2. Foreign(public) + Foreign(held) + Foreign(aside) + strays + faults <= MaxFaults
    BY DEF IInv, Counted, Total
  <2>3. Foreign(public') + Foreign(held) + Foreign(aside) + strays + faults' <= MaxFaults
    BY <1>0, <1>5, <2>1, <2>2, FaultAssumption
  <2>. QED BY <1>0, <2>3 DEF Counted, Total
<1>7. TypeOK'
  <2>1. faults' \in 0 .. MaxFaults
    BY <1>0, FaultAssumption DEF TypeOK
  <2>. QED BY <1>0, <1>2, <2>1 DEF TypeOK, FileType
<1>. QED BY <1>3, <1>4, <1>6, <1>7 DEF IInv

----------------------------------------------------------------------------
(* The specification *)

LEMMA InitInv == Init => IInv
<1>. SUFFICES ASSUME Init PROVE IInv
  OBVIOUS
<1>1. /\ run \in Run /\ run.pc = "idle" /\ run.t = "todo" /\ run.phase = "initial"
      /\ run.rest = "none" /\ run.receipts = {} /\ \A t \in Targets : run.orig[t] = "absent"
  BY IdleType DEF Init
<1>2. /\ public \in [Targets -> {"absent", "old"}] /\ held \in FileType /\ aside \in FileType
      /\ \A t \in Targets : held[t] = "absent" /\ aside[t] = "absent"
      /\ strays = 0 /\ faults = MaxFaults
  BY DEF Init, FileType, Files
<1>3. TypeOK
  <2>1. run \in [pc : Labels, cmd : {"write", "todo"}, t : Targets,
                 orig : [Targets -> {"absent", "old"}], expect : Files,
                 phase : {"initial", "transition", "committed", "rollback", "restored"},
                 sticky : BOOLEAN, receipts : SUBSET Targets, bad : BOOLEAN,
                 rest : {"none", "drop_todo", "undo_task"},
                 result : {"ok", "error", "uncertain"}, witnessed : SUBSET Targets]
    BY <1>1 DEF Run, Commands, Phases, Rests, Results
  <2>2. public \in FileType /\ shows \in ShowType
    BY DEF Init, FileType, ShowType, Files, Targets
  <2>3. strays \in 0 .. MaxFaults /\ faults \in 0 .. MaxFaults
    BY <1>2, FaultAssumption
  <2>. QED BY <1>1, <1>2, <2>1, <2>2, <2>3 DEF Init, TypeOK, FileType, ShowType
<1>4. Ordered /\ Sorted /\ Undone /\ Accounted /\ Shown
  BY <1>1 DEF Ordered, Sorted, Undone, Accounted, Shown, Reading, Installing, Exchanging,
              Undoing, Closing
<1>5. Recoverable
  BY <1>1, InstallsIn DEF Recoverable, Kept
<1>6. Counted
  <2>1. \A t \in Targets : public[t] # "foreign" /\ held[t] # "foreign" /\ aside[t] # "foreign"
    BY <1>2
  <2>2. Foreign(public) = 0 /\ Foreign(held) = 0 /\ Foreign(aside) = 0
    BY <2>1, ForeignSum DEF One, Targets
  <2>. QED BY <1>2, <2>2, FaultAssumption DEF Counted, Total
<1>. QED BY <1>3, <1>4, <1>5, <1>6 DEF IInv

LEMMA StepInv ==
    ASSUME IInv, Step
    PROVE  IInv' /\ (run.pc \notin Reading => Balanced)
<1>1. CASE OpenTask
  BY <1>1, OpenTaskInv DEF OpenTask, Reading
<1>2. CASE CaptureInput
  BY <1>2, CaptureInputInv DEF CaptureInput, Reading
<1>3. CASE SnapshotTodo
  BY <1>3, SnapshotTodoInv DEF SnapshotTodo, Reading
<1>4. CASE PrepareTask
  BY <1>4, PrepareTaskInv
<1>5. CASE PrepareTodo
  BY <1>5, PrepareTodoInv
<1>6. CASE GateInstall
  BY <1>6, GateInstallInv
<1>7. CASE Install
  BY <1>7, InstallInv
<1>8. CASE VerifyInstall
  BY <1>8, VerifyInstallInv
<1>9. CASE Displace
  BY <1>9, DisplaceInv
<1>10. CASE GateRecapture
  BY <1>10, GateRecaptureInv
<1>11. CASE Recapture
  BY <1>11, RecaptureInv
<1>12. CASE GateReturn
  BY <1>12, GateReturnInv
<1>13. CASE Return
  BY <1>13, ReturnInv
<1>14. CASE Drop
  BY <1>14, DropInv
<1>15. CASE GateUndo
  BY <1>15, GateUndoInv
<1>16. CASE UndoTake
  BY <1>16, UndoTakeInv
<1>17. CASE UndoCreated
  BY <1>17, UndoCreatedInv
<1>18. CASE UndoReturn
  BY <1>18, UndoReturnInv
<1>19. CASE UndoReplaced
  BY <1>19, UndoReplacedInv
<1>20. CASE UndoRestore
  BY <1>20, UndoRestoreInv
<1>21. CASE UndoClean
  BY <1>21, UndoCleanInv
<1>22. CASE Confirm
  BY <1>22, ConfirmInv
<1>23. CASE Clear
  BY <1>23, ClearInv
<1>24. CASE Settle
  BY <1>24, SettleInv
<1>25. CASE Close
  BY <1>25, CloseInv
<1>26. CASE Report
  BY <1>26, ReportInv
<1>. QED BY <1>1, <1>2, <1>3, <1>4, <1>5, <1>6, <1>7, <1>8, <1>9, <1>10, <1>11, <1>12, <1>13,
            <1>14, <1>15, <1>16, <1>17, <1>18, <1>19, <1>20, <1>21, <1>22, <1>23, <1>24,
            <1>25, <1>26 DEF Step

\* Every step keeps the invariant, and the foreign files once all is captured.
LEMMA NextInv ==
    ASSUME IInv, [Next]_vars
    PROVE  IInv' /\ (run' # run /\ run.pc \notin Reading => Balanced)
<1>1. ASSUME NEW cmd \in {"write", "todo"}, Begin(cmd)
      PROVE  IInv' /\ Balanced
  BY <1>1, BeginInv DEF Commands
<1>2. CASE Step
  BY <1>2, StepInv
<1>3. CASE CallFails
  BY <1>3, CallFailsInv
<1>4. CASE Crash
  BY <1>4, CrashInv
<1>5. CASE EditOther
  BY <1>5, EditOtherInv DEF EditOther
<1>6. ASSUME NEW t \in Targets, Edit(t)
      PROVE  IInv' /\ run' = run
  BY <1>6, EditInv DEF Edit
<1>7. CASE UNCHANGED vars
  <2>1. UNCHANGED <<worktree, run, out, shows, strays, touched, moved, faults>>
    BY <1>7 DEF vars, worktree
  <2>2. moved' \in BOOLEAN /\ faults' \in 0 .. faults
    BY <2>1, FaultAssumption DEF IInv, TypeOK
  <2>. QED BY <2>1, <2>2, Elsewhere
<1>. QED BY <1>1, <1>2, <1>3, <1>4, <1>5, <1>6, <1>7 DEF Next

\* The invariant of the paired write.
THEOREM WritesInvariance == Spec => []IInv
BY InitInv, NextInv, PTL DEF Spec

\* Types; a receipt is kept only for a file that had a snapshot.
THEOREM WritesTypes == Spec => []TypeOK
BY WritesInvariance, PTL DEF IInv

\* Where editors stay away, both targets are installed or what was replaced is
\* there, whatever call fails and wherever the process is killed.
THEOREM WritesRecoverable == Spec => []AllOrRecoverable
<1>1. IInv => AllOrRecoverable
  BY DEF IInv, Recoverable, AllOrRecoverable, Kept
<1>. QED BY <1>1, WritesInvariance, PTL

\* A command that has not ended has not reported.
Unreported == run.pc # "idle" => out = "running"

LEMMA Quiet ==
    ASSUME Step, ~Close, ~Report
    PROVE  run.pc # "idle" /\ out' = out
<1>1. /\ OpenTask => run.pc # "idle" /\ out' = out
      /\ CaptureInput => run.pc # "idle" /\ out' = out
      /\ SnapshotTodo => run.pc # "idle" /\ out' = out
      /\ PrepareTask => run.pc # "idle" /\ out' = out
      /\ PrepareTodo => run.pc # "idle" /\ out' = out
  BY DEF OpenTask, CaptureInput, SnapshotTodo, PrepareTask, PrepareTodo
<1>2. /\ GateInstall => run.pc # "idle" /\ out' = out
      /\ Install => run.pc # "idle" /\ out' = out
      /\ VerifyInstall => run.pc # "idle" /\ out' = out
      /\ Displace => run.pc # "idle" /\ out' = out
      /\ GateRecapture => run.pc # "idle" /\ out' = out
      /\ Recapture => run.pc # "idle" /\ out' = out
      /\ GateReturn => run.pc # "idle" /\ out' = out
      /\ Return => run.pc # "idle" /\ out' = out
  BY DEF GateInstall, Install, VerifyInstall, Displace, GateRecapture, Recapture, GateReturn, Return
<1>3. /\ Drop => run.pc # "idle" /\ out' = out
      /\ GateUndo => run.pc # "idle" /\ out' = out
      /\ UndoTake => run.pc # "idle" /\ out' = out
      /\ UndoCreated => run.pc # "idle" /\ out' = out
      /\ UndoReturn => run.pc # "idle" /\ out' = out
      /\ UndoReplaced => run.pc # "idle" /\ out' = out
      /\ UndoRestore => run.pc # "idle" /\ out' = out
      /\ UndoClean => run.pc # "idle" /\ out' = out
  BY DEF Drop, GateUndo, UndoTake, UndoCreated, UndoReturn, UndoReplaced, UndoRestore, UndoClean
<1>4. /\ Confirm => run.pc # "idle" /\ out' = out
      /\ Clear => run.pc # "idle" /\ out' = out
      /\ Settle => run.pc # "idle" /\ out' = out
  BY DEF Confirm, Clear, Settle
<1>. QED BY <1>1, <1>2, <1>3, <1>4 DEF Step

LEMMA UnreportedStep ==
    ASSUME IInv, Unreported, [Next]_vars
    PROVE  Unreported' /\ (Ends /\ out' \in {"ok", "error"} => Report)
<1>0. At("idle").pc = "idle"
  BY AtIs DEF IInv, Labels
<1>1. CASE \E cmd \in {"write", "todo"} : Begin(cmd)
  BY <1>1 DEF Begin, Unreported, Ends
<1>2. CASE Step /\ ~Close /\ ~Report
  BY <1>2, Quiet DEF Unreported, Ends
<1>3. CASE Close
  <2>1. \/ out' = out /\ run.pc # "idle"
        \/ run'.pc = "idle" /\ out' \in {out, "uncertain"} /\ run.pc # "idle"
    BY <1>0, <1>3 DEF Close, Exit
  <2>. QED BY <2>1 DEF Unreported, Ends
<1>4. CASE Report
  BY <1>0, <1>4 DEF Report, Exit, Unreported
<1>5. CASE CallFails
  <2>1. run.pc # "idle" /\ out' \in {out, "uncertain"}
    BY <1>5 DEF CallFails
  <2>2. run.pc = "rmdir" => run'.pc = "idle"
    BY <1>0, <1>5 DEF CallFails
  <2>3. run.pc # "rmdir" => out' = out
    BY <1>5 DEF CallFails
  <2>. QED BY <2>1, <2>2, <2>3 DEF Unreported, Ends
<1>6. CASE Crash
  BY <1>0, <1>6 DEF Crash, Exit, Unreported
<1>7. CASE run' = run /\ out' = out
  BY <1>7 DEF Unreported, Ends
<1>8. (EditOther \/ (\E t \in Targets : Edit(t)) \/ UNCHANGED vars) => run' = run /\ out' = out
  BY DEF EditOther, Edit, vars
<1>. QED BY <1>1, <1>2, <1>3, <1>4, <1>5, <1>6, <1>7, <1>8 DEF Next

LEMMA ReportIsTrue ==
    ASSUME IInv, Report, out' \in {"ok", "error"}
    PROVE  /\ \A t \in Targets : held'[t] = "absent" /\ aside'[t] = "absent"
           /\ out' = "ok" => AllNew /\ Agrees
           /\ out' = "error" => \A t \in Installs(run) : public'[t] = run.orig[t]
<1>1. /\ WitnessesHold /\ out' = run.result /\ run.pc = "report"
      /\ UNCHANGED <<public, held, aside>>
  BY DEF Report, Exit, worktree
<1>2. \A t \in Targets : held[t] = "absent" /\ aside[t] = "absent"
  BY <1>1 DEF IInv, Sorted, Empty
<1>3. ASSUME out' = "ok" PROVE AllNew /\ Agrees
  <2>1. /\ AllNew /\ ~moved /\ public["todo"] = "new"
        /\ public["task"] = IF run.phase = "committed" THEN "new" ELSE run.expect
    BY <1>1, <1>3, InstallsIn DEF WitnessesHold, OthersMatch, AllNew
  <2>2. public["task"] = shows.new
    <3>1. shows.new = Rendered(run.cmd, run.expect) /\ run.cmd \in {"write", "todo"}
      BY <1>1, RunType DEF IInv, Shown, Run, Commands
    <3>2. CASE run.cmd = "write"
      BY <2>1, <3>1, <3>2 DEF AllNew, Installs, Rendered, Targets
    <3>3. CASE run.cmd = "todo"
      BY <2>1, <3>1, <3>3 DEF IInv, Ordered, Rendered
    <3>. QED BY <3>1, <3>2, <3>3
  <2>. QED BY <2>1, <2>2 DEF Agrees
<1>4. ASSUME out' = "error" PROVE \A t \in Installs(run) : public'[t] = run.orig[t]
  BY <1>1, <1>4 DEF IInv, Accounted, Closing, WitnessesHold
<1>. QED BY <1>1, <1>2, <1>3, <1>4

\* A success has installed every target and TODO.md shows the tasks, an error
\* that is not "uncertain" has left every target as it was.
THEOREM WritesReports == Spec => ReportsTrue
<1>1. Init => Unreported
  BY DEF Init, Unreported, Idle
<1>2. ASSUME IInv, Unreported, [Next]_vars
      PROVE  /\ Unreported'
             /\ [Ends /\ out' \in {"ok", "error"} =>
                   /\ \A t \in Targets : held'[t] = "absent" /\ aside'[t] = "absent"
                   /\ out' = "ok" => AllNew /\ Agrees
                   /\ out' = "error" => \A t \in Installs(run) : public'[t] = run.orig[t]]_vars
  BY <1>2, UnreportedStep, ReportIsTrue
<1>. QED BY <1>1, <1>2, WritesInvariance, PTL DEF Spec, ReportsTrue

\* No file of an editor is overwritten or removed by a command once it is not
\* the one the command read.
THEOREM WritesForeign == Spec => ForeignKept
<1>1. ASSUME IInv, [Next]_vars
      PROVE  [run' # run /\ run.pc \notin {"open", "capture", "snapshot"} =>
                Foreign(public)' + Foreign(held)' + Foreign(aside)' + strays'
                   >= Foreign(public) + Foreign(held) + Foreign(aside) + strays]_vars
  <2>. SUFFICES ASSUME run' # run, run.pc \notin Reading
                PROVE  Foreign(public)' + Foreign(held)' + Foreign(aside)' + strays'
                          >= Foreign(public) + Foreign(held) + Foreign(aside) + strays
    BY DEF Reading
  <2>1. Foreign(public)' = Foreign(public') /\ Foreign(held)' = Foreign(held') /\ Foreign(aside)' = Foreign(aside')
    BY DEF Foreign
  <2>2. /\ Foreign(public) \in Nat /\ Foreign(held) \in Nat /\ Foreign(aside) \in Nat
        /\ strays \in Nat
    <3>1. strays \in 0 .. MaxFaults
      BY <1>1 DEF IInv, TypeOK
    <3>. QED BY <3>1, ForeignSum, FaultAssumption
  <2>3. Foreign(public') + Foreign(held') + Foreign(aside') + strays'
          = Foreign(public) + Foreign(held) + Foreign(aside) + strays
    BY <1>1, NextInv DEF Balanced, Total
  <2>4. Foreign(public') + Foreign(held') + Foreign(aside') + strays'
          >= Foreign(public) + Foreign(held) + Foreign(aside) + strays
    BY <2>2, <2>3
  <2>. QED BY <2>1, <2>4
<1>. QED BY <1>1, WritesInvariance, PTL DEF Spec, ForeignKept

=============================================================================
