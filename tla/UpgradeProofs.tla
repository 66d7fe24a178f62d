---------------------------- MODULE UpgradeProofs ----------------------------
(***************************************************************************)
(* What `kb upgrade` guarantees, for every set of files of a release,      *)
(* wherever it is killed, fails or loses power, and whatever editors do to *)
(* its trees: the installation is whole, reports are true, and no tree of  *)
(* an editor is removed.                                                   *)
(***************************************************************************)
EXTENDS Upgrade, FiniteSetTheorems, TLAPS

----------------------------------------------------------------------------
(* The inductive invariant *)

Early   == {"idle", "fetch", "verify", "lock"}
Settled == {"fsync", "forward", "reverse", "reverse_rename", "restored"}
Rm      == {"rm", "rm_take", "rm_files", "rm_sync"}

\* A removal is under way, and why.
For(why) == run.pc \in Rm /\ run.why = why

\* What the command owns where it is, and which tree it removes.
Owned ==
    /\ run.pc \in Early \cup {"make_stage", "make_temp"} => run.owned = {}
    /\ run.pc \in {"copy", "sync", "guard", "exchange"} => run.owned = {"stage"}
    /\ run.pc \in {"extract", "move"} => run.owned = {"temp"}
    /\ run.pc = "moved" \/ For("before") => run.owned = Private
    /\ For("before") => run.name = "temp"
    /\ (For("forward") \/ For("restored")) => run.name = "stage" /\ run.exchanged
    /\ For("finish") => run.name \in run.owned /\ (run.name = "stage" => run.owned = {"stage"})
    /\ For("before") \/ For("finish") \/ run.pc \notin Settled \cup Rm \cup {"finish"}
         => ~run.exchanged
    /\ run.pc \in Settled => run.exchanged

\* The goal of a run that removes what it owns, and what it has verified.
Aimed ==
    /\ run.pc \notin Rm \cup {"finish"} \/ For("before") \/ For("forward") \/ For("restored")
         => run.goal = "ok"
    /\ run.pc = "finish" /\ run.exchanged => run.goal \in {"ok", "restored", "uncertain"}
    /\ (run.pc = "finish" /\ ~run.exchanged) \/ For("finish") => run.goal \notin {"ok", "restored"}
    /\ run.pc \notin {"idle", "fetch", "verify"} /\ run.kind = "prepared" => run.sound
    /\ run.pc \in {"make_stage", "copy", "sync", "move", "moved", "guard", "exchange"}
          \/ For("before") \/ run.exchanged => run.sound

Nowhere(id) == \A n \in Names : names[n] # id

\* Where the trees of a command are.
Located ==
    run.pc \notin Early =>
        /\ names["temp"] \in {"temp", None} /\ names["gone_temp"] \in {"temp", None}
        /\ "temp" \notin {names["target"], names["stage"], names["gone_stage"]}
        /\ \A n, m \in Names : names[n] = names[m] /\ names[n] \in Trees => n = m
        /\ ~run.exchanged => names["target"] # "new" /\ "old" \notin {names["stage"], names["gone_stage"]}
        /\ "temp" \notin run.owned /\ run.goal # "uncertain" => Nowhere("temp")
        /\ "stage" \notin run.owned /\ run.goal # "uncertain" => Nowhere("new")
        /\ names["gone_stage"] # None =>
              \/ run.pc = "rm_files" /\ run.name = "stage"
              \/ run.pc = "finish" /\ run.goal = "uncertain" /\ (run.exchanged \/ run.owned = {})
        /\ run.pc = "rm_take" /\ run.name = "temp" => names["temp"] = "temp"
        /\ run.pc = "rm_sync" => Nowhere(Expected)
        /\ run.pc = "finish" /\ run.exchanged =>
              /\ run.goal = "ok" => Nowhere("old") /\ "new" \notin {names["stage"], names["gone_stage"]}
              /\ run.goal = "restored" => Nowhere("new") /\ "old" \notin {names["stage"], names["gone_stage"]}

Durable(tree) == tree.files = Files /\ tree.synced

\* Every tree that has the name of the installation, now or after a power
\* failure, is complete on the disk; no file of it is removed.
Whole ==
    /\ \A ns \in unsynced :
          /\ ns["target"] # "temp" /\ (ns["target"] \in Trees => Durable(trees[ns["target"]]))
          /\ ~touched => ns["target"] \in Trees
    /\ (run.pc \notin Early /\ ~run.exchanged) \/ For("restored") => \A ns \in unsynced : ns["target"] # "new"
    /\ run.pc = "forward" \/ For("forward") => \A ns \in unsynced : ns["target"] # "old"
    /\ run.pc = "fsync" => names["target"] # "old"
    /\ run.pc = "sync" => trees["new"].files = Files
    /\ run.pc \in {"move", "moved", "guard", "exchange"} \cup Settled \/ For("before")
         => Durable(trees["new"])
    /\ run.pc \notin Early /\ ~For("forward") /\ ~(run.pc = "finish" /\ run.exchanged)
         => Durable(trees["old"])

\* Where editors stay away, the trees are where the command has put them, and
\* what a report will be about is on the disk.
Undisturbed ==
    ~touched =>
        /\ run.pc \notin Early /\ ~run.exchanged => names["target"] = "old"
        /\ run.pc = "restored" \/ For("restored") => names["target"] = "old"
        /\ run.pc \in Settled \ {"restored"} \/ For("forward") => names["target"] = "new"
        /\ run.pc = "finish" /\ run.exchanged =>
              /\ run.goal = "ok" => names["target"] = "new"
              /\ run.goal = "restored" => names["target"] = "old"
        /\ run.pc \in {"copy", "sync", "moved", "guard", "exchange"} \/ For("before")
             => names["stage"] = "new"
        /\ run.pc \in Settled \ {"restored"} => names["stage"] = "old"
        /\ run.pc \in {"make_stage", "make_temp"} => unsynced = {names}
        /\ run.pc = "finish" /\ run.goal # "uncertain" /\ (run.owned = {} \/ run.exchanged)
             => unsynced = {names}

\* An editor makes one foreign tree with each fault.
Counted ==
    /\ unsynced \subseteq [Names -> Trees \cup {"foreign", None}]
    /\ \A ns \in unsynced : Foreign(ns) + litter + faults <= MaxFaults

IInv == TypeOK /\ Owned /\ Aimed /\ Located /\ Whole /\ Undisturbed /\ Counted

----------------------------------------------------------------------------
(* The run of a command *)

Kinds == {"prepared", "archive"}
Goals == Errors \cup {"ok", "uncertain"}
Whys  == {"before", "forward", "restored", "finish"}

Run == [pc : Labels, kind : Kinds, sound : BOOLEAN, goal : Goals, owned : SUBSET Private,
        exchanged : BOOLEAN, name : Private, why : Whys]

Reports == Errors \cup {"none", "running", "ok", "uncertain", "crashed"}

LEMMA RunType == TypeOK => run \in Run
BY DEF TypeOK, Run, Kinds, Goals, Whys

LEMMA RunIn ==
    ASSUME run' \in Run
    PROVE  run' \in [pc : Labels, kind : {"prepared", "archive"}, sound : BOOLEAN,
                     goal : Errors \cup {"ok", "uncertain"}, owned : SUBSET Private,
                     exchanged : BOOLEAN, name : Private,
                     why : {"before", "forward", "restored", "finish"}]
BY DEF Run, Kinds, Goals, Whys

LEMMA IdleType ==
    /\ Idle \in Run /\ Idle.pc = "idle" /\ Idle.owned = {} /\ ~Idle.exchanged
    /\ Idle.why = "finish" /\ Idle.goal = "ok"
BY DEF Idle, Run, Labels, Kinds, Goals, Whys, Private

LEMMA Going ==
    ASSUME TypeOK, NEW pc \in Labels, Goto(pc)
    PROVE  /\ run' \in Run /\ out' = out /\ run'.pc = pc
           /\ run'.kind = run.kind /\ run'.sound = run.sound /\ run'.goal = run.goal
           /\ run'.owned = run.owned /\ run'.exchanged = run.exchanged
           /\ run'.name = run.name /\ run'.why = run.why
BY RunType DEF Goto, Run

LEMMA Finishing ==
    ASSUME TypeOK, NEW r \in Goals, run' = Failing(r)
    PROVE  /\ run' \in Run /\ run'.pc = "finish"
           /\ run'.kind = run.kind /\ run'.sound = run.sound /\ run'.goal = r
           /\ run'.owned = run.owned /\ run'.exchanged = run.exchanged
           /\ run'.name = run.name /\ run'.why = run.why
BY RunType DEF Failing, Run, Labels

LEMMA StartingRemoval ==
    ASSUME TypeOK, NEW n \in Private, NEW why \in Whys, Remove(n, why)
    PROVE  /\ run' \in Run /\ out' = out /\ run'.pc = "rm"
           /\ run'.kind = run.kind /\ run'.sound = run.sound /\ run'.goal = run.goal
           /\ run'.owned = run.owned /\ run'.exchanged = run.exchanged
           /\ run'.name = n /\ run'.why = why
BY RunType DEF Remove, Removing, Run, Labels

\* The end of a removal, as its caller goes on.
LEMMA Removal ==
    ASSUME TypeOK, NEW ok \in BOOLEAN, Removed(ok)
    PROVE  /\ run' \in Run /\ out' = out
           /\ run'.kind = run.kind /\ run'.sound = run.sound
           /\ run'.exchanged = run.exchanged /\ run'.name = run.name /\ run'.why = run.why
           /\ run.why = "before" /\ ok =>
                run'.pc = "guard" /\ run'.goal = run.goal /\ run'.owned = run.owned \ {run.name}
           /\ run.why = "before" /\ ~ok =>
                run'.pc = "finish" /\ run'.goal = "internal" /\ run'.owned = run.owned
           /\ run.why = "forward" =>
                /\ run'.pc = "finish" /\ run'.owned = run.owned
                /\ run'.goal = IF ok THEN "ok" ELSE "uncertain"
           /\ run.why = "restored" =>
                /\ run'.pc = "finish" /\ run'.owned = run.owned
                /\ run'.goal = IF ok THEN "restored" ELSE "uncertain"
           /\ run.why = "finish" =>
                /\ run'.pc = "finish" /\ run'.owned = run.owned \ {run.name}
                /\ run'.goal = IF ok THEN run.goal ELSE "uncertain"
<1>0. run \in Run
  BY RunType
<1>1. CASE run.why = "before"
  BY <1>0, <1>1 DEF Removed, Disown, Failing, Run, Labels, Goals, Errors
<1>2. CASE run.why = "forward"
  BY <1>0, <1>2 DEF Removed, Disown, Failing, Run, Labels, Goals, Errors
<1>3. CASE run.why = "restored"
  BY <1>0, <1>3 DEF Removed, Disown, Failing, Run, Labels, Goals, Errors
<1>4. CASE run.why = "finish"
  BY <1>0, <1>4 DEF Removed, Disown, Failing, Run, Labels, Goals, Errors
<1>. QED BY <1>0, <1>1, <1>2, <1>3, <1>4 DEF Run, Whys

----------------------------------------------------------------------------
(* Foreign trees *)

Places == {"target", "stage", "temp", "gone_stage", "gone_temp"}

One(x) == IF x = "foreign" THEN 1 ELSE 0

LEMMA NamesAre == Names = Places
BY DEF Names, Places, Private, Gone

LEMMA OneMore ==
    ASSUME NEW ns, NEW S, IsFiniteSet(S), NEW n, n \notin S
    PROVE  /\ IsFiniteSet({m \in S : ns[m] = "foreign"})
           /\ Cardinality({m \in S \cup {n} : ns[m] = "foreign"})
                = Cardinality({m \in S : ns[m] = "foreign"}) + One(ns[n])
<1>. DEFINE F == {m \in S : ns[m] = "foreign"}
<1>1. IsFiniteSet(F) /\ n \notin F /\ Cardinality(F) \in Nat
  BY FS_Subset, FS_CardinalityType
<1>2. CASE ns[n] = "foreign"
  <2>1. {m \in S \cup {n} : ns[m] = "foreign"} = F \cup {n}
    BY <1>2
  <2>. QED BY <1>1, <1>2, <2>1, FS_AddElement DEF One
<1>3. CASE ns[n] # "foreign"
  <2>1. ASSUME NEW m PROVE m \in S \cup {n} /\ ns[m] = "foreign" <=> m \in S /\ ns[m] = "foreign"
    BY <1>3
  <2>2. {m \in S \cup {n} : ns[m] = "foreign"} = F
    BY <2>1
  <2>3. Cardinality({m \in S \cup {n} : ns[m] = "foreign"}) = Cardinality(F)
    BY <2>2
  <2>4. One(ns[n]) = 0
    BY <1>3 DEF One
  <2>. HIDE DEF F
  <2>5. Cardinality(F) = Cardinality(F) + One(ns[n])
    BY <1>1, <2>4
  <2>. QED BY <1>1, <2>3, <2>5 DEF F
<1>. QED BY <1>1, <1>2, <1>3

LEMMA ForeignSum ==
    ASSUME NEW ns
    PROVE  Foreign(ns) = One(ns["target"]) + One(ns["stage"]) + One(ns["temp"])
                         + One(ns["gone_stage"]) + One(ns["gone_temp"])
<1>. DEFINE C(S) == Cardinality({m \in S : ns[m] = "foreign"})
            A == {"target"}
            B == A \cup {"stage"}
            D == B \cup {"temp"}
            E == D \cup {"gone_stage"}
<1>0. IsFiniteSet({}) /\ C({}) = 0
  <2>1. {m \in {} : ns[m] = "foreign"} = {}
    OBVIOUS
  <2>. QED BY <2>1, FS_EmptySet
<1>a. ASSUME NEW S, IsFiniteSet(S), NEW n, n \notin S
      PROVE  IsFiniteSet(S \cup {n}) /\ C(S \cup {n}) = C(S) + One(ns[n])
  BY <1>a, OneMore, FS_AddElement
<1>. HIDE DEF C
<1>1. IsFiniteSet(A) /\ C(A) = One(ns["target"])
  <2>1. A = {} \cup {"target"}
    OBVIOUS
  <2>. QED BY <1>0, <1>a, <2>1 DEF One
<1>2. IsFiniteSet(B) /\ C(B) = C(A) + One(ns["stage"])
  BY <1>1, <1>a
<1>3. IsFiniteSet(D) /\ C(D) = C(B) + One(ns["temp"])
  BY <1>2, <1>a
<1>4. IsFiniteSet(E) /\ C(E) = C(D) + One(ns["gone_stage"])
  BY <1>3, <1>a
<1>5. C(E \cup {"gone_temp"}) = C(E) + One(ns["gone_temp"])
  BY <1>4, <1>a
<1>6. Names = E \cup {"gone_temp"}
  BY NamesAre DEF Places
<1>7. Foreign(ns) = C(Names)
  BY DEF Foreign, C
<1>. QED BY <1>1, <1>2, <1>3, <1>4, <1>5, <1>6, <1>7 DEF One

----------------------------------------------------------------------------
(* Steps of the run alone *)

disk == <<names, unsynced, trees, litter, touched>>

LEMMA FaultType ==
    ASSUME TypeOK, NEW kind, Fault(kind)
    PROVE  faults' \in 0 .. faults
BY FaultAssumption DEF TypeOK, Fault

LEMMA RunStep ==
    ASSUME IInv, UNCHANGED disk, faults' \in 0 .. faults, run' \in Run, out' \in Reports,
           Owned', Aimed', Located', Whole', Undisturbed',
           run'.exchanged => run'.owned = {"stage"}
    PROVE  IInv'
<1>1. TypeOK'
  BY RunIn, FaultAssumption DEF IInv, TypeOK, disk, Reports
<1>2. Counted'
  <2>1. ASSUME NEW ns \in unsynced PROVE Foreign(ns)' + litter' + faults' <= MaxFaults
    <3>1. Foreign(ns) \in Nat
      BY ForeignSum DEF One
    <3>2. Foreign(ns) + litter + faults <= MaxFaults
      BY DEF IInv, Counted
    <3>. QED BY <3>1, <3>2, FaultAssumption DEF IInv, TypeOK, disk
  <2>. QED BY <2>1 DEF IInv, Counted, disk
<1>. QED BY <1>1, <1>2 DEF IInv

\* A command may end, or be killed, anywhere.
LEMMA Exiting ==
    ASSUME IInv, UNCHANGED disk, faults' \in 0 .. faults, NEW report \in Reports, Exit(report)
    PROVE  IInv'
<1>1. /\ run' \in Run /\ out' \in Reports /\ run'.pc = "idle" /\ run'.owned = {}
      /\ ~run'.exchanged
  BY IdleType DEF Exit
<1>2. Owned'
  BY <1>1 DEF Owned, For, Rm, Settled, Early
<1>3. Aimed'
  BY <1>1, IdleType DEF Exit, Aimed, For, Rm
<1>4. Located'
  BY <1>1 DEF Located, Early
<1>5. Whole'
  BY <1>1 DEF IInv, Whole, For, Rm, Early, Settled, disk, Durable
<1>6. Undisturbed'
  BY <1>1 DEF IInv, Undisturbed, For, Rm, Early, Settled
<1>. QED BY <1>1, <1>2, <1>3, <1>4, <1>5, <1>6, RunStep

\* A failure before the exchange: what is owned is removed.
LEMMA FailingBefore ==
    ASSUME IInv, UNCHANGED disk, faults' \in 0 .. faults, out' = out,
           run.pc \in {"make_stage", "copy", "sync", "make_temp", "extract", "move", "moved",
                       "guard", "exchange"},
           NEW r \in {"internal", "changed", "invalid"}, run' = Failing(r)
    PROVE  IInv'
<1>0. TypeOK /\ r \in Goals
  BY DEF IInv, Goals, Errors
<1>1. /\ run' \in Run /\ run'.pc = "finish"
      /\ run'.kind = run.kind /\ run'.sound = run.sound /\ run'.goal = r
      /\ run'.owned = run.owned /\ run'.exchanged = run.exchanged
      /\ run'.name = run.name /\ run'.why = run.why
  BY <1>0, Finishing
<1>2. Owned' /\ ~run.exchanged
  BY <1>1 DEF IInv, Owned, For, Rm, Settled, Early
<1>3. Aimed'
  BY <1>1, <1>2 DEF IInv, Aimed, For, Rm
<1>4. Located'
  BY <1>1, <1>2 DEF IInv, Located, Aimed, Early, Rm, disk, Nowhere
<1>5. Whole'
  BY <1>1, <1>2 DEF IInv, Whole, For, Rm, Early, Settled, disk, Durable
<1>6. Undisturbed'
  BY <1>1, <1>2 DEF IInv, Undisturbed, For, Rm, Early, Settled, disk, Owned, Private
<1>7. out' \in Reports
  BY DEF IInv, TypeOK, Reports
<1>. QED BY <1>1, <1>2, <1>3, <1>4, <1>5, <1>6, <1>7, RunStep

\* The exchange was made and cannot be settled.
LEMMA FailingAfter ==
    ASSUME IInv, UNCHANGED disk, faults' \in 0 .. faults, out' = out,
           run.pc \in {"forward", "reverse", "reverse_rename", "restored"},
           run' = Failing("uncertain")
    PROVE  IInv'
<1>0. TypeOK /\ "uncertain" \in Goals
  BY DEF IInv, Goals, Errors
<1>1. /\ run' \in Run /\ run'.pc = "finish"
      /\ run'.kind = run.kind /\ run'.sound = run.sound /\ run'.goal = "uncertain"
      /\ run'.owned = run.owned /\ run'.exchanged = run.exchanged
      /\ run'.name = run.name /\ run'.why = run.why
  BY <1>0, Finishing
<1>2. Owned' /\ run.exchanged /\ run.owned = {"stage"}
  BY <1>1 DEF IInv, Owned, For, Rm, Settled, Early, TypeOK
<1>3. Aimed'
  BY <1>1, <1>2 DEF IInv, Aimed, For, Rm
<1>4. Located'
  BY <1>1, <1>2 DEF IInv, Located, Early, disk, Nowhere
<1>5. Whole'
  BY <1>1, <1>2 DEF IInv, Whole, For, Rm, Early, Settled, disk, Durable
<1>6. Undisturbed'
  BY <1>1, <1>2 DEF IInv, Undisturbed, For, Rm, Early, Settled, disk
<1>7. out' \in Reports
  BY DEF IInv, TypeOK, Reports
<1>. QED BY <1>1, <1>2, <1>3, <1>4, <1>5, <1>6, <1>7, RunStep

\* A removal fails.
LEMMA RemovalFails ==
    ASSUME IInv, UNCHANGED disk, faults' \in 0 .. faults, run.pc \in Rm, Removed(FALSE)
    PROVE  IInv'
<1>0. TypeOK /\ run \in Run
  BY RunType DEF IInv
<1>1. /\ run' \in Run /\ out' = out /\ run'.pc = "finish"
      /\ run'.kind = run.kind /\ run'.sound = run.sound
      /\ run'.exchanged = run.exchanged /\ run'.name = run.name /\ run'.why = run.why
      /\ run.why = "before" => run'.goal = "internal" /\ run'.owned = run.owned
      /\ run.why \in {"forward", "restored"} => run'.goal = "uncertain" /\ run'.owned = run.owned
      /\ run.why = "finish" => run'.goal = "uncertain" /\ run'.owned = run.owned \ {run.name}
  BY <1>0, Removal DEF Run, Whys
<1>. USE DEF Rm, For, Run, Whys, Private
<1>2. Owned'
  BY <1>1 DEF IInv, Owned, Settled, Early
<1>3. Aimed'
  BY <1>0, <1>1 DEF IInv, Aimed, Owned
<1>4. Located'
  BY <1>0, <1>1 DEF IInv, Located, Owned, Early, disk, Nowhere
<1>5. Whole'
  BY <1>0, <1>1 DEF IInv, Whole, Owned, Early, Settled, disk, Durable
<1>6. Undisturbed'
  BY <1>0, <1>1 DEF IInv, Undisturbed, For, Rm, Early, Settled, disk, Owned
<1>7. out' \in Reports /\ (run'.exchanged => run'.owned = {"stage"})
  BY <1>0, <1>1 DEF IInv, TypeOK, Reports, Owned
<1>. QED BY <1>1, <1>2, <1>3, <1>4, <1>5, <1>6, <1>7, RunStep

----------------------------------------------------------------------------
(* The steps up to the stage *)

TreeType == [files : SUBSET Files, synced : BOOLEAN, dirty : BOOLEAN]
NameType == [Names -> Trees \cup {"foreign", None}]

LEMMA ForeignType == ASSUME NEW ns PROVE Foreign(ns) \in Nat
BY ForeignSum DEF One

\* The types of a step that changes names or trees.
LEMMA Typed ==
    ASSUME IInv, run' \in Run, out' \in Reports, run'.exchanged => run'.owned = {"stage"},
           names' \in unsynced', unsynced' \subseteq NameType, trees' \in [Trees -> TreeType],
           touched' \in BOOLEAN, litter' \in Nat, faults' \in 0 .. faults,
           \A ns \in unsynced' : Foreign(ns) + litter' + faults' <= MaxFaults
    PROVE  TypeOK' /\ Counted'
<1>1. Counted'
  <2>1. ASSUME NEW ns \in unsynced' PROVE Foreign(ns)' + litter' + faults' <= MaxFaults
    BY <2>1
  <2>. QED BY <2>1 DEF Counted, NameType
<1>2. litter' \in 0 .. MaxFaults /\ faults' \in 0 .. MaxFaults
  BY ForeignType, FaultAssumption DEF IInv, TypeOK
<1>. QED BY <1>1, <1>2, RunIn DEF TypeOK, NameType, TreeType, Reports

\* A rename that makes no foreign tree.
LEMMA Renamed ==
    ASSUME IInv, run' \in Run, out' \in Reports, run'.exchanged => run'.owned = {"stage"},
           NEW ns \in NameType, Rename(ns), Foreign(ns) <= Foreign(names),
           UNCHANGED <<trees, history>>
    PROVE  TypeOK' /\ Counted'
<1>1. unsynced' \subseteq NameType /\ names' \in unsynced'
  BY DEF Rename, IInv, Counted, NameType
<1>2. ASSUME NEW m \in unsynced' PROVE Foreign(m) + litter' + faults' <= MaxFaults
  <2>1. names \in unsynced /\ Foreign(names) + litter + faults <= MaxFaults
    BY DEF IInv, TypeOK, Counted
  <2>2. m \in unsynced => Foreign(m) + litter + faults <= MaxFaults
    BY DEF IInv, Counted
  <2>3. m \in unsynced \/ m = ns
    BY DEF Rename
  <2>. QED BY <2>1, <2>2, <2>3, ForeignType, FaultAssumption DEF IInv, TypeOK, history
<1>3. faults' \in 0 .. faults /\ litter' \in Nat
  BY FaultAssumption DEF IInv, TypeOK, history
<1>. QED BY <1>1, <1>2, <1>3, Typed DEF IInv, TypeOK, TreeType, history

\* A step that changes the run, and the trees or what is on the disk.
LEMMA TreesTyped ==
    ASSUME IInv, run' \in Run, out' \in Reports, run'.exchanged => run'.owned = {"stage"},
           trees' \in [Trees -> TreeType], names' = names,
           unsynced' \subseteq unsynced, names \in unsynced', UNCHANGED <<litter, touched>>,
           faults' \in 0 .. faults
    PROVE  TypeOK' /\ Counted'
<1>1. ASSUME NEW m \in unsynced' PROVE Foreign(m) + litter' + faults' <= MaxFaults
  <2>1. Foreign(m) + litter + faults <= MaxFaults
    BY DEF IInv, Counted
  <2>. QED BY <2>1, ForeignType, FaultAssumption DEF IInv, TypeOK
<1>. QED BY <1>1, Typed, FaultAssumption DEF IInv, TypeOK, NameType, Counted

LEMMA BeginInv ==
    ASSUME IInv, NEW kind \in Kinds, Begin(kind)
    PROVE  IInv'
<1>1. /\ run' \in Run /\ run'.pc = "fetch" /\ run'.owned = {} /\ ~run'.exchanged
      /\ run'.goal = "ok"
  BY IdleType DEF Begin, Idle, Run, Labels, Kinds
<1>2. UNCHANGED disk /\ faults' \in 0 .. faults /\ out' \in Reports
  BY FaultAssumption DEF Begin, disk, history, IInv, TypeOK, Reports
<1>3. Owned'
  BY <1>1 DEF Owned, For, Rm, Settled, Early
<1>4. Aimed'
  BY <1>1 DEF Aimed, For, Rm
<1>5. Located'
  BY <1>1 DEF Located, Early
<1>6. Whole'
  BY <1>1, <1>2 DEF IInv, Whole, For, Rm, Early, Settled, disk, Durable
<1>7. Undisturbed'
  BY <1>1 DEF IInv, Undisturbed, For, Rm, Early, Settled
<1>. QED BY <1>1, <1>2, <1>3, <1>4, <1>5, <1>6, <1>7, RunStep

LEMMA EarlyGoes ==
    ASSUME IInv, run.pc \in Early, run' \in Run, run'.pc \in Early, run'.owned = run.owned,
           run'.exchanged = run.exchanged, run'.goal = run.goal,
           run'.kind = run.kind, UNCHANGED <<disk, faults, out>>,
           run'.pc = "lock" /\ run.kind = "prepared" => run'.sound
    PROVE  IInv'
<1>1. faults' \in 0 .. faults /\ out' \in Reports /\ (run'.exchanged => run'.owned = {"stage"})
  BY FaultAssumption DEF IInv, TypeOK, Reports
<1>2. Owned' /\ ~run.exchanged
  BY DEF IInv, Owned, For, Rm, Settled, Early
<1>3. Aimed'
  BY <1>2 DEF IInv, Aimed, For, Rm, Early
<1>4. Located'
  BY DEF Located
<1>5. Whole'
  BY DEF IInv, Whole, For, Rm, Early, Settled, disk, Durable
<1>6. Undisturbed'
  BY DEF IInv, Undisturbed, For, Rm, Early, Settled, disk
<1>. QED BY <1>1, <1>2, <1>3, <1>4, <1>5, <1>6, RunStep DEF disk

LEMMA FetchInv ==
    ASSUME IInv, NEW sound \in BOOLEAN, Fetch(sound)
    PROVE  IInv'
<1>0. run \in Run
  BY RunType DEF IInv
<1>1. /\ run' \in Run /\ run'.owned = run.owned /\ run'.exchanged = run.exchanged
      /\ run'.goal = run.goal /\ run'.kind = run.kind
      /\ run'.pc = IF run.kind = "prepared" THEN "verify" ELSE "lock"
  BY <1>0 DEF Fetch, Run, Labels
<1>2. run.pc \in Early /\ run'.pc \in Early
  BY <1>1 DEF Fetch, Early
<1>. QED BY <1>1, <1>2, EarlyGoes DEF Fetch, disk, history

LEMMA VerifyInv ==
    ASSUME IInv, Verify
    PROVE  IInv'
<1>1. UNCHANGED disk /\ faults' \in 0 .. faults /\ faults' = faults
  BY FaultAssumption DEF Verify, disk, history, IInv, TypeOK
<1>2. CASE Exit("invalid")
  BY <1>1, <1>2, Exiting DEF Reports, Errors
<1>3. CASE Sound /\ Goto("lock")
  <2>1. /\ run' \in Run /\ out' = out /\ run'.pc = "lock"
        /\ run'.kind = run.kind /\ run'.sound = run.sound /\ run'.goal = run.goal
        /\ run'.owned = run.owned /\ run'.exchanged = run.exchanged
    BY <1>3, Going DEF IInv, Labels
  <2>. QED BY <1>1, <1>3, <2>1, EarlyGoes DEF Verify, Sound, Early
<1>. QED BY <1>2, <1>3 DEF Verify

\* The tree at the name of the installation becomes the old one.
LEMMA LockInv ==
    ASSUME IInv, Lock
    PROVE  IInv'
<1>0. TypeOK /\ run \in Run /\ run.pc = "lock" /\ unsynced = {names} /\ unsynced' = {names'}
  BY RunType DEF IInv, Lock
<1>1. /\ names' \in NameType
      /\ names'["target"] = IF names["target"] # None THEN "old" ELSE None
      /\ \A n \in Names \ {"target"} : names'[n] = None
      /\ {"target", "stage", "temp", "gone_stage", "gone_temp"} = Names
  BY <1>0, NamesAre DEF Lock, Fresh, NameType, Trees, Places
<1>2. /\ trees' \in [Trees -> TreeType]
      /\ trees'["old"].files = Files /\ trees'["old"].synced
  <2>1. names["target"] \in Trees => trees[names["target"]].files = Files
    BY <1>0 DEF IInv, Whole, Durable
  <2>. QED BY <1>0, <2>1 DEF Lock, Tree, TreeType, Trees
<1>3. /\ run' \in Run /\ out' \in Reports /\ run'.owned = {} /\ ~run'.exchanged
      /\ run'.goal = "ok"
      /\ run'.pc = IF names["target"] = None THEN "idle"
                   ELSE IF run.kind = "prepared" THEN "make_stage" ELSE "make_temp"
      /\ names["target"] # None => run'.kind = run.kind /\ run'.sound = run.sound
  <2>1. CASE names["target"] = None
    BY <2>1, IdleType DEF Lock, Exit, Reports, Errors
  <2>2. CASE names["target"] # None
    <3>1. run.owned = {} /\ ~run.exchanged /\ run.goal = "ok"
      BY <1>0 DEF IInv, Owned, Aimed, Early, Rm, Settled
    <3>. QED BY <1>0, <2>2, <3>1 DEF Lock, Goto, Run, Labels, Reports, TypeOK
  <2>. QED BY <2>1, <2>2
<1>4. TypeOK' /\ Counted'
  <2>1. Foreign(names') = 0
    BY <1>1, ForeignSum, NoneAssumption DEF One
  <2>2. litter' \in Nat /\ litter' <= litter + Foreign(names)
    <3>1. Foreign(names) >= One(names["target"])
      BY ForeignSum DEF One
    <3>. QED BY <1>0, <3>1, ForeignType, FaultAssumption DEF Lock, One, TypeOK
  <2>3. Foreign(names) + litter + faults <= MaxFaults
    BY <1>0 DEF IInv, Counted
  <2>4. faults' = faults /\ faults' \in 0 .. faults
    BY <1>0, FaultAssumption DEF Lock, TypeOK
  <2>5. Foreign(names') + litter' + faults' <= MaxFaults
    BY <2>1, <2>2, <2>3, <2>4, ForeignType, FaultAssumption, <1>0 DEF TypeOK
  <2>6. touched' \in BOOLEAN
    BY DEF Lock
  <2>. QED BY <1>0, <1>1, <1>2, <1>3, <2>2, <2>4, <2>5, <2>6, Typed
<1>5. Owned'
  BY <1>3 DEF Owned, For, Rm, Settled, Early
<1>6. Aimed'
  <2>1. run.kind = "prepared" => run.sound
    BY <1>0 DEF IInv, Aimed
  <2>. QED BY <1>0, <1>3, <2>1 DEF Aimed, For, Rm, Run, Kinds
<1>7. Located'
  <2>1. names' ["target"] # "temp" /\ None # "temp" /\ None # "new" /\ None # "old"
    BY <1>1, NoneAssumption
  <2>2. \A n \in Names : names'[n] \in Trees => n = "target" /\ names'[n] = "old"
    BY <1>1, NoneAssumption DEF Trees
  <2>. QED BY <1>1, <1>3, <2>1, <2>2 DEF Located, Early, Nowhere, Trees
<1>8. Whole'
  <2>1. touched' = (names["target"] = None)
    BY DEF Lock
  <2>2. /\ names'["target"] \notin {"temp", "new"}
        /\ names'["target"] \in Trees => names'["target"] = "old"
        /\ ~touched' => names'["target"] \in Trees
    BY <1>1, <2>1, NoneAssumption DEF Trees
  <2>. QED BY <1>0, <1>2, <1>3, <2>2 DEF Whole, For, Rm, Early, Settled, Durable
<1>9. Undisturbed'
  BY <1>0, <1>1, <1>3 DEF IInv, Undisturbed, For, Rm, Early, Settled
<1>. QED BY <1>4, <1>5, <1>6, <1>7, <1>8, <1>9 DEF IInv

LEMMA MakeStageInv ==
    ASSUME IInv, MakeStage
    PROVE  IInv'
<1>0. TypeOK /\ run \in Run /\ run.pc = "make_stage" /\ names \in NameType
  BY RunType DEF IInv, MakeStage, TypeOK, NameType
<1>1. CASE names["stage"] # None
  <2>1. UNCHANGED disk /\ faults' \in 0 .. faults /\ out' = out /\ run' = Failing("internal")
    BY <1>0, <1>1, FaultAssumption DEF MakeStage, Raise, Finish, disk, history, TypeOK
  <2>. QED BY <1>0, <2>1, FailingBefore
<1>2. CASE names["stage"] = None
  <2>0. /\ Rename([names EXCEPT !["stage"] = "new"]) /\ UNCHANGED <<trees, history, out>>
        /\ run' = [run EXCEPT !.pc = "copy", !.owned = {"stage"}]
    BY <1>2 DEF MakeStage
  <2>1. /\ run' \in Run /\ run'.pc = "copy" /\ run'.owned = {"stage"}
        /\ run'.kind = run.kind /\ run'.sound = run.sound /\ run'.goal = run.goal
        /\ run'.exchanged = run.exchanged /\ run'.why = run.why
    BY <1>0, <2>0 DEF Run, Labels, Private
  <2>2. /\ names' \in NameType /\ names'["stage"] = "new"
        /\ \A n \in Names \ {"stage"} : names'[n] = names[n]
        /\ unsynced' = unsynced \cup {names'} /\ "stage" \in Names
    BY <1>0, <2>0, NamesAre DEF Rename, NameType, Trees, Places
  <2>3. TypeOK' /\ Counted'
    <3>1. Foreign(names') <= Foreign(names)
      BY <1>0, <2>2, <1>2, ForeignSum, NamesAre DEF One, Places
    <3>2. Rename(names')
      BY <2>0 DEF Rename
    <3>. QED BY <2>0, <2>1, <2>2, <3>1, <3>2, Renamed DEF IInv, TypeOK, Reports
  <2>4. Owned' /\ ~run.exchanged
    BY <1>0, <2>1 DEF IInv, Owned, For, Rm, Settled, Early
  <2>5. Aimed'
    BY <1>0, <2>1, <2>4 DEF IInv, Aimed, For, Rm
  <2>6. Located'
    <3>1. run.owned = {} /\ run.goal = "ok"
      BY <1>0 DEF IInv, Owned, Aimed, Rm
    <3>2. Nowhere("new") /\ Nowhere("temp")
      BY <1>0, <3>1 DEF IInv, Located, Early
    <3>. QED BY <1>0, <2>1, <2>2, <2>4, <3>1, <3>2, NamesAre DEF IInv, Located, Early, Nowhere, Places
  <2>7. Whole'
    BY <1>0, <2>0, <2>1, <2>2, <2>4, NamesAre
       DEF IInv, Whole, For, Rm, Early, Settled, Durable, history, TypeOK, Places
  <2>8. Undisturbed'
    BY <1>0, <2>0, <2>1, <2>2, <2>4, NamesAre DEF IInv, Undisturbed, For, Rm, Early, Settled, history, Places
  <2>. QED BY <2>3, <2>4, <2>5, <2>6, <2>7, <2>8 DEF IInv
<1>. QED BY <1>1, <1>2

LEMMA CopyInv ==
    ASSUME IInv, Copy
    PROVE  IInv'
<1>0. TypeOK /\ run \in Run /\ run.pc = "copy" /\ faults' \in 0 .. faults
      /\ UNCHANGED <<names, unsynced, history>>
  BY RunType, FaultAssumption DEF IInv, Copy, TypeOK, history
<1>1. CASE Raise /\ UNCHANGED trees
  BY <1>0, <1>1, FailingBefore DEF Raise, Finish, disk, history
<1>2. CASE trees["new"].files = Files /\ Goto("sync") /\ UNCHANGED trees
  <2>1. /\ run' \in Run /\ out' = out /\ run'.pc = "sync"
        /\ run'.kind = run.kind /\ run'.sound = run.sound /\ run'.goal = run.goal
        /\ run'.owned = run.owned /\ run'.exchanged = run.exchanged
        /\ run'.name = run.name /\ run'.why = run.why
    BY <1>0, <1>2, Going DEF Labels
  <2>2. Owned' /\ ~run.exchanged
    BY <1>0, <2>1 DEF IInv, Owned, For, Rm, Settled, Early
  <2>3. Aimed'
    BY <1>0, <2>1, <2>2 DEF IInv, Aimed, For, Rm
  <2>4. Located'
    BY <1>0, <2>1, <2>2 DEF IInv, Located, Early, Nowhere
  <2>5. Whole'
    BY <1>0, <1>2, <2>1, <2>2 DEF IInv, Whole, For, Rm, Early, Settled, Durable, history
  <2>6. Undisturbed'
    BY <1>0, <2>1, <2>2 DEF IInv, Undisturbed, For, Rm, Early, Settled, history
  <2>7. UNCHANGED disk /\ out' \in Reports
    BY <1>0, <1>2, <2>1 DEF disk, history, TypeOK, Reports
  <2>. QED BY <1>0, <2>1, <2>2, <2>3, <2>4, <2>5, <2>6, <2>7, RunStep
<1>3. CASE UNCHANGED <<run, out>> /\ \E f \in Files \ trees["new"].files :
                                        trees' = [trees EXCEPT !["new"].files = @ \cup {f}]
  <2>1. /\ trees' \in [Trees -> TreeType] /\ trees'["old"] = trees["old"]
        /\ trees'["temp"] = trees["temp"]
    BY <1>0, <1>3 DEF TypeOK, TreeType, Trees
  <2>2. TypeOK' /\ Counted'
    <3>1. out' \in Reports /\ (run'.exchanged => run'.owned = {"stage"}) /\ run' \in Run
      BY <1>0, <1>3 DEF TypeOK, Reports
    <3>. QED BY <1>0, <2>1, <3>1, TreesTyped DEF history, TypeOK
  <2>3. Owned' /\ ~run.exchanged
    BY <1>0, <1>3 DEF IInv, Owned, For, Rm, Settled, Early
  <2>4. Aimed' /\ Located' /\ Undisturbed'
    BY <1>0, <1>3 DEF IInv, Aimed, For, Rm, Located, Nowhere, Expected, Undisturbed, history
  <2>5. Whole'
    <3>1. \A ns \in unsynced : ns["target"] # "new"
      BY <1>0, <2>3 DEF IInv, Whole, Early
    <3>2. \A ns \in unsynced : ns["target"] \in Trees => trees'[ns["target"]] = trees[ns["target"]]
      BY <2>1, <3>1 DEF Trees
    <3>. QED BY <1>0, <1>3, <2>1, <2>3, <3>1, <3>2
         DEF IInv, Whole, For, Rm, Early, Settled, Durable, history
  <2>. QED BY <2>2, <2>3, <2>4, <2>5 DEF IInv
<1>. QED BY <1>1, <1>2, <1>3 DEF Copy

LEMMA SyncStageInv ==
    ASSUME IInv, SyncStage
    PROVE  IInv'
<1>0. TypeOK /\ run \in Run /\ run.pc = "sync" /\ faults' \in 0 .. faults
      /\ UNCHANGED <<names, unsynced, history>>
  BY RunType, FaultAssumption DEF IInv, SyncStage, TypeOK, history
<1>1. /\ trees' \in [Trees -> TreeType] /\ trees'["old"] = trees["old"]
      /\ trees'["temp"] = trees["temp"]
      /\ trees'["new"].files = trees["new"].files /\ trees'["new"].synced
  BY <1>0 DEF SyncStage, SyncTree, TypeOK, TreeType, Trees
<1>2. /\ run' \in Run /\ run'.pc \in {"guard", "finish"}
      /\ run'.goal = IF run'.pc = "guard" THEN run.goal ELSE "changed"
      /\ run'.kind = run.kind /\ run'.sound = run.sound
      /\ run'.owned = run.owned /\ run'.exchanged = run.exchanged
      /\ run'.name = run.name /\ run'.why = run.why /\ out' = out
  <2>1. CASE Goto("guard")
    BY <1>0, <2>1, Going DEF Labels
  <2>2. CASE Finish("changed")
    BY <1>0, <2>2, Finishing DEF Goals, Errors, Finish
  <2>. QED BY <2>1, <2>2 DEF SyncStage
<1>3. Owned' /\ ~run.exchanged /\ run.owned = {"stage"}
  BY <1>0, <1>2 DEF IInv, Owned, For, Rm, Settled, Early
<1>4. TypeOK' /\ Counted'
  <2>1. out' \in Reports
    BY <1>0, <1>2 DEF TypeOK, Reports
  <2>. QED BY <1>0, <1>1, <1>2, <1>3, <2>1, TreesTyped DEF history, TypeOK
<1>5. Aimed'
  BY <1>0, <1>2, <1>3 DEF IInv, Aimed, For, Rm
<1>6. Located'
  BY <1>0, <1>2, <1>3 DEF IInv, Located, Aimed, Rm, Early, Nowhere
<1>7. Whole'
  <2>1. \A ns \in unsynced : ns["target"] # "new"
    BY <1>0, <1>3 DEF IInv, Whole, Early
  <2>2. \A ns \in unsynced : ns["target"] \in Trees => trees'[ns["target"]] = trees[ns["target"]]
    BY <1>1, <2>1 DEF Trees
  <2>. QED BY <1>0, <1>1, <1>2, <1>3, <2>1, <2>2
       DEF IInv, Whole, For, Rm, Early, Settled, Durable, history
<1>8. Undisturbed'
  BY <1>0, <1>1, <1>2, <1>3 DEF IInv, Undisturbed, For, Rm, Early, Settled, history
<1>. QED BY <1>3, <1>4, <1>5, <1>6, <1>7, <1>8 DEF IInv

LEMMA MakeTempInv ==
    ASSUME IInv, MakeTemp
    PROVE  IInv'
<1>0. TypeOK /\ run \in Run /\ run.pc = "make_temp" /\ names \in NameType
  BY RunType DEF IInv, MakeTemp, TypeOK, NameType
<1>1. /\ run' \in Run /\ run'.pc = "extract" /\ run'.owned = {"temp"}
      /\ run'.kind = run.kind /\ run'.sound = run.sound /\ run'.goal = run.goal
      /\ run'.exchanged = run.exchanged /\ run'.why = run.why
  BY <1>0 DEF MakeTemp, Run, Labels, Private
<1>2. /\ names' \in NameType /\ names'["temp"] = "temp"
      /\ \A n \in Names \ {"temp"} : names'[n] = names[n]
      /\ unsynced' = unsynced \cup {names'} /\ "temp" \in Names
  BY <1>0, NamesAre DEF MakeTemp, Rename, NameType, Trees, Places
<1>3. Owned' /\ ~run.exchanged
  BY <1>0, <1>1 DEF IInv, Owned, For, Rm, Settled, Early
<1>4. TypeOK' /\ Counted'
  <2>1. Foreign(names') <= Foreign(names)
    <3>1. names["temp"] \in {"temp", None}
      BY <1>0 DEF IInv, Located, Early
    <3>. QED BY <1>2, <3>1, ForeignSum, NamesAre, NoneAssumption DEF One, Places
  <2>2. Rename(names')
    BY DEF MakeTemp, Rename
  <2>. QED BY <1>0, <1>1, <1>2, <1>3, <2>1, <2>2, Renamed DEF MakeTemp, TypeOK, Reports
<1>5. Aimed'
  BY <1>0, <1>1, <1>3 DEF IInv, Aimed, For, Rm
<1>6. Located'
  <2>1. run.owned = {} /\ run.goal = "ok"
    BY <1>0 DEF IInv, Owned, Aimed, Rm
  <2>2. Nowhere("new") /\ Nowhere("temp")
    BY <1>0, <2>1 DEF IInv, Located, Early
  <2>. QED BY <1>0, <1>1, <1>2, <1>3, <2>1, <2>2, NamesAre DEF IInv, Located, Early, Nowhere, Places
<1>7. Whole'
  BY <1>0, <1>1, <1>2, <1>3, NamesAre
     DEF MakeTemp, IInv, Whole, For, Rm, Early, Settled, Durable, history, TypeOK, Places
<1>8. Undisturbed'
  BY <1>0, <1>1, <1>2, <1>3, NamesAre DEF IInv, Undisturbed, For, Rm, Early, Settled, history, MakeTemp, Places
<1>. QED BY <1>3, <1>4, <1>5, <1>6, <1>7, <1>8 DEF IInv

LEMMA ExtractInv ==
    ASSUME IInv, Extract
    PROVE  IInv'
<1>0. TypeOK /\ run \in Run /\ run.pc = "extract" /\ faults' \in 0 .. faults
      /\ UNCHANGED <<names, unsynced, history>>
  BY RunType, FaultAssumption DEF IInv, Extract, TypeOK, history
<1>1. CASE Finish("invalid") /\ UNCHANGED trees
  BY <1>0, <1>1, FailingBefore DEF Finish, disk, history
<1>2. CASE Sound /\ Goto("move")
           /\ trees' = [trees EXCEPT !["new"] = SyncTree([@ EXCEPT !.files = Files])]
  <2>1. /\ trees' \in [Trees -> TreeType] /\ trees'["old"] = trees["old"]
        /\ trees'["temp"] = trees["temp"] /\ Durable(trees'["new"])
    BY <1>0, <1>2 DEF SyncTree, TypeOK, TreeType, Trees, Durable
  <2>2. /\ run' \in Run /\ out' = out /\ run'.pc = "move"
        /\ run'.kind = run.kind /\ run'.sound = run.sound /\ run'.goal = run.goal
        /\ run'.owned = run.owned /\ run'.exchanged = run.exchanged
        /\ run'.name = run.name /\ run'.why = run.why
    BY <1>0, <1>2, Going DEF Labels
  <2>3. Owned' /\ ~run.exchanged
    BY <1>0, <2>2 DEF IInv, Owned, For, Rm, Settled, Early
  <2>4. TypeOK' /\ Counted'
    <3>1. out' \in Reports
      BY <1>0, <2>2 DEF TypeOK, Reports
    <3>. QED BY <1>0, <2>1, <2>2, <2>3, <3>1, TreesTyped DEF history, TypeOK
  <2>5. Aimed'
    BY <1>0, <1>2, <2>2, <2>3 DEF IInv, Aimed, For, Rm, Sound
  <2>6. Located'
    BY <1>0, <2>2, <2>3 DEF IInv, Located, Early, Nowhere
  <2>7. Whole'
    <3>1. \A ns \in unsynced : ns["target"] # "new"
      BY <1>0, <2>3 DEF IInv, Whole, Early
    <3>2. \A ns \in unsynced : ns["target"] \in Trees => trees'[ns["target"]] = trees[ns["target"]]
      BY <2>1, <3>1 DEF Trees
    <3>. QED BY <1>0, <2>1, <2>2, <2>3, <3>1, <3>2
         DEF IInv, Whole, For, Rm, Early, Settled, Durable, history
  <2>8. Undisturbed'
    BY <1>0, <2>2, <2>3 DEF IInv, Undisturbed, For, Rm, Early, Settled, history
  <2>. QED BY <2>3, <2>4, <2>5, <2>6, <2>7, <2>8 DEF IInv
<1>. QED BY <1>1, <1>2 DEF Extract

LEMMA MoveInv ==
    ASSUME IInv, Move
    PROVE  IInv'
<1>0. TypeOK /\ run \in Run /\ run.pc = "move" /\ names \in NameType
  BY RunType DEF IInv, Move, TypeOK, NameType
<1>1. CASE Raise /\ UNCHANGED <<names, unsynced>>
  <2>1. UNCHANGED disk /\ faults' \in 0 .. faults /\ out' = out /\ run' = Failing("internal")
    BY <1>0, <1>1, FaultAssumption DEF Move, Raise, Finish, disk, history, TypeOK
  <2>. QED BY <1>0, <2>1, FailingBefore
<1>2. CASE /\ names["stage"] = None /\ Rename([names EXCEPT !["stage"] = "new"])
           /\ run' = [run EXCEPT !.pc = "moved", !.owned = @ \cup {"stage"}] /\ UNCHANGED out
  <2>0. UNCHANGED <<trees, history>>
    BY DEF Move
  <2>1. /\ run' \in Run /\ run'.pc = "moved" /\ run'.owned = run.owned \cup {"stage"}
        /\ run'.kind = run.kind /\ run'.sound = run.sound /\ run'.goal = run.goal
        /\ run'.exchanged = run.exchanged /\ run'.why = run.why
    BY <1>0, <1>2 DEF Run, Labels, Private
  <2>2. /\ names' \in NameType /\ names'["stage"] = "new"
        /\ \A n \in Names \ {"stage"} : names'[n] = names[n]
        /\ unsynced' = unsynced \cup {names'} /\ "stage" \in Names
    BY <1>0, <1>2, NamesAre DEF Rename, NameType, Trees, Places
  <2>3. Owned' /\ ~run.exchanged /\ run.owned = {"temp"}
    BY <1>0, <2>1 DEF IInv, Owned, For, Rm, Settled, Early, Private
  <2>4. TypeOK' /\ Counted'
    <3>1. Foreign(names') <= Foreign(names)
      BY <1>0, <2>2, <1>2, ForeignSum, NamesAre DEF One, Places
    <3>2. Rename(names') /\ out' \in Reports
      BY <1>0, <1>2 DEF Rename, TypeOK, Reports
    <3>. QED BY <2>0, <2>1, <2>2, <2>3, <3>1, <3>2, Renamed
  <2>5. Aimed'
    BY <1>0, <2>1, <2>3 DEF IInv, Aimed, For, Rm
  <2>6. Located'
    <3>1. Nowhere("new")
      BY <1>0, <2>3 DEF IInv, Located, Early, Aimed, Rm
    <3>. QED BY <1>0, <2>1, <2>2, <2>3, <3>1, NamesAre DEF IInv, Located, Early, Nowhere, Places
  <2>7. Whole'
    BY <1>0, <2>0, <2>1, <2>2, <2>3, NamesAre
       DEF IInv, Whole, For, Rm, Early, Settled, Durable, history, TypeOK, Places
  <2>8. Undisturbed'
    BY <1>0, <2>0, <2>1, <2>2, <2>3, NamesAre DEF IInv, Undisturbed, For, Rm, Early, Settled, history, Places
  <2>. QED BY <2>3, <2>4, <2>5, <2>6, <2>7, <2>8 DEF IInv
<1>. QED BY <1>1, <1>2 DEF Move

LEMMA MovedInv ==
    ASSUME IInv, Moved
    PROVE  IInv'
<1>0. TypeOK /\ run \in Run /\ run.pc = "moved" /\ UNCHANGED disk /\ faults' \in 0 .. faults
  BY RunType, FaultAssumption DEF IInv, Moved, TypeOK, disk, history
<1>1. CASE Finish("changed")
  BY <1>0, <1>1, FailingBefore DEF Finish
<1>2. CASE Remove("temp", "before")
  <2>1. /\ run' \in Run /\ out' = out /\ run'.pc = "rm"
        /\ run'.kind = run.kind /\ run'.sound = run.sound /\ run'.goal = run.goal
        /\ run'.owned = run.owned /\ run'.exchanged = run.exchanged
        /\ run'.name = "temp" /\ run'.why = "before"
    BY <1>0, <1>2, StartingRemoval DEF Private, Whys
  <2>2. Owned' /\ ~run.exchanged /\ run.owned = Private
    BY <1>0, <2>1 DEF IInv, Owned, For, Rm, Settled, Early
  <2>3. Aimed'
    BY <1>0, <2>1, <2>2 DEF IInv, Aimed, For, Rm
  <2>4. Located'
    BY <1>0, <2>1, <2>2 DEF IInv, Located, Early, Nowhere, disk, Private
  <2>5. Whole'
    BY <1>0, <2>1, <2>2 DEF IInv, Whole, For, Rm, Early, Settled, disk, Durable
  <2>6. Undisturbed' /\ out' \in Reports
    BY <1>0, <2>1, <2>2 DEF IInv, Undisturbed, For, Rm, Early, Settled, disk, TypeOK, Reports
  <2>. QED BY <1>0, <2>1, <2>2, <2>3, <2>4, <2>5, <2>6, RunStep
<1>. QED BY <1>1, <1>2 DEF Moved

LEMMA GuardInv ==
    ASSUME IInv, Guard
    PROVE  IInv'
<1>0. TypeOK /\ run \in Run /\ run.pc = "guard" /\ UNCHANGED disk /\ faults' \in 0 .. faults
  BY RunType, FaultAssumption DEF IInv, Guard, TypeOK, disk, history
<1>1. CASE Raise
  BY <1>0, <1>1, FailingBefore DEF Raise, Finish
<1>2. CASE Goto("exchange")
  <2>1. /\ run' \in Run /\ out' = out /\ run'.pc = "exchange"
        /\ run'.kind = run.kind /\ run'.sound = run.sound /\ run'.goal = run.goal
        /\ run'.owned = run.owned /\ run'.exchanged = run.exchanged
        /\ run'.name = run.name /\ run'.why = run.why
    BY <1>0, <1>2, Going DEF Labels
  <2>2. Owned' /\ ~run.exchanged /\ run.owned = {"stage"}
    BY <1>0, <2>1 DEF IInv, Owned, For, Rm, Settled, Early
  <2>3. Aimed'
    BY <1>0, <2>1, <2>2 DEF IInv, Aimed, For, Rm
  <2>4. Located'
    BY <1>0, <2>1, <2>2 DEF IInv, Located, Early, Nowhere, disk
  <2>5. Whole'
    BY <1>0, <2>1, <2>2 DEF IInv, Whole, For, Rm, Early, Settled, disk, Durable
  <2>6. Undisturbed' /\ out' \in Reports
    BY <1>0, <2>1, <2>2 DEF IInv, Undisturbed, For, Rm, Early, Settled, disk, TypeOK, Reports
  <2>. QED BY <1>0, <2>1, <2>2, <2>3, <2>4, <2>5, <2>6, RunStep
<1>. QED BY <1>1, <1>2 DEF Guard

----------------------------------------------------------------------------
(* The exchange and its finalisation *)

\* An exchange of the installation and the stage.
LEMMA Swapping ==
    ASSUME TypeOK, Rename(Swapped)
    PROVE  /\ names' \in NameType /\ unsynced' = unsynced \cup {names'}
           /\ names'["target"] = names["stage"] /\ names'["stage"] = names["target"]
           /\ \A n \in Names \ {"target", "stage"} : names'[n] = names[n]
           /\ Foreign(names') = Foreign(names)
           /\ Names = Places
<1>1. /\ names' \in NameType /\ unsynced' = unsynced \cup {names'}
      /\ names'["target"] = names["stage"] /\ names'["stage"] = names["target"]
      /\ \A n \in Names \ {"target", "stage"} : names'[n] = names[n]
  BY NamesAre DEF Rename, Swapped, NameType, Trees, Places, TypeOK
<1>2. Foreign(names') = Foreign(names)
  <2>1. /\ names'["temp"] = names["temp"] /\ names'["gone_stage"] = names["gone_stage"]
        /\ names'["gone_temp"] = names["gone_temp"]
    BY <1>1, NamesAre DEF Places
  <2>. QED BY <1>1, <2>1, ForeignSum DEF One
<1>. QED BY <1>1, <1>2, NamesAre

LEMMA ExchangeInv ==
    ASSUME IInv, Exchange
    PROVE  IInv'
<1>0. TypeOK /\ run \in Run /\ run.pc = "exchange" /\ UNCHANGED <<trees, history>>
  BY RunType DEF IInv, Exchange
<1>1. CASE Raise /\ UNCHANGED <<names, unsynced>>
  <2>1. UNCHANGED disk /\ faults' \in 0 .. faults /\ out' = out /\ run' = Failing("internal")
    BY <1>0, <1>1, FaultAssumption DEF Raise, Finish, disk, history, TypeOK
  <2>. QED BY <1>0, <2>1, FailingBefore
<1>2. CASE /\ BothThere /\ Rename(Swapped)
           /\ run' = [run EXCEPT !.pc = "fsync", !.exchanged = TRUE] /\ UNCHANGED out
  <2>1. /\ run' \in Run /\ run'.pc = "fsync" /\ run'.exchanged
        /\ run'.kind = run.kind /\ run'.sound = run.sound /\ run'.goal = run.goal
        /\ run'.owned = run.owned /\ run'.name = run.name /\ run'.why = run.why
    BY <1>0, <1>2 DEF Run, Labels
  <2>2. /\ names' \in NameType /\ unsynced' = unsynced \cup {names'}
        /\ names'["target"] = names["stage"] /\ names'["stage"] = names["target"]
        /\ \A n \in Names \ {"target", "stage"} : names'[n] = names[n]
        /\ Foreign(names') = Foreign(names) /\ Names = Places
    BY <1>0, <1>2, Swapping
  <2>3. Owned' /\ ~run.exchanged /\ run.owned = {"stage"} /\ run.goal = "ok" /\ run.sound
    BY <1>0, <2>1 DEF IInv, Owned, Aimed, For, Rm, Settled, Early
  <2>4. TypeOK' /\ Counted'
    <3>1. Foreign(names') <= Foreign(names) /\ Rename(names') /\ out' \in Reports
      BY <1>0, <1>2, <2>2, ForeignType DEF Rename, TypeOK, Reports
    <3>. QED BY <1>0, <2>1, <2>2, <2>3, <3>1, Renamed
  <2>5. Aimed'
    BY <1>0, <2>1, <2>3 DEF IInv, Aimed, For, Rm
  <2>6. Located'
    BY <1>0, <2>1, <2>2, <2>3 DEF IInv, Located, Early, Nowhere, Places
  <2>7. Whole'
    <3>1. /\ names["stage"] # "temp" /\ names["stage"] # "old" /\ Durable(trees["new"])
          /\ Durable(trees["old"])
      BY <1>0, <2>3 DEF IInv, Located, Whole, Early, For, Rm
    <3>2. ~touched => names["stage"] \in Trees
      BY <1>0, <2>3 DEF IInv, Undisturbed, Trees
    <3>. QED BY <1>0, <2>1, <2>2, <2>3, <3>1, <3>2
         DEF IInv, Whole, For, Rm, Early, Settled, Durable, history, TypeOK, Trees
  <2>8. Undisturbed'
    BY <1>0, <2>1, <2>2, <2>3 DEF IInv, Undisturbed, For, Rm, Early, Settled, history
  <2>. QED BY <2>3, <2>4, <2>5, <2>6, <2>7, <2>8 DEF IInv
<1>. QED BY <1>1, <1>2 DEF Exchange

LEMMA FsyncInv ==
    ASSUME IInv, Fsync
    PROVE  IInv'
<1>0. /\ TypeOK /\ run \in Run /\ run.pc = "fsync" /\ UNCHANGED <<names, trees, litter, touched>>
      /\ run.exchanged /\ run.owned = {"stage"} /\ faults' \in 0 .. faults
  <2>1. TypeOK /\ run.pc = "fsync" /\ UNCHANGED <<names, trees, litter, touched>>
    BY DEF IInv, Fsync
  <2>2. faults' = faults \/ \E kind \in {"io"} : Fault(kind)
    BY DEF Fsync
  <2>. QED BY <2>1, <2>2, RunType, FaultType, FaultAssumption DEF IInv, TypeOK, Owned, Settled
<1>1. PICK pc \in {"forward", "reverse"} :
          Goto(pc) /\ IF pc = "forward" THEN unsynced' = {names} ELSE unsynced' = unsynced
  BY DEF Fsync, SyncParent, Synced
<1>2. /\ run' \in Run /\ out' = out /\ run'.pc = pc
      /\ run'.kind = run.kind /\ run'.sound = run.sound /\ run'.goal = run.goal
      /\ run'.owned = run.owned /\ run'.exchanged = run.exchanged
      /\ run'.name = run.name /\ run'.why = run.why
  BY <1>0, <1>1, Going DEF Labels
<1>3. Owned'
  BY <1>0, <1>2 DEF IInv, Owned, For, Rm, Settled, Early
<1>4. unsynced' \subseteq unsynced /\ names \in unsynced'
  BY <1>0, <1>1 DEF TypeOK
<1>5. TypeOK' /\ Counted'
  <2>1. out' \in Reports /\ trees' \in [Trees -> TreeType]
    BY <1>0, <1>2 DEF TypeOK, Reports, TreeType
  <2>. QED BY <1>0, <1>2, <1>4, <2>1, TreesTyped
<1>6. Aimed'
  BY <1>0, <1>2 DEF IInv, Aimed, For, Rm
<1>7. Located'
  BY <1>0, <1>2 DEF IInv, Located, Early, Nowhere
<1>8. Whole'
  BY <1>0, <1>1, <1>2, <1>4 DEF IInv, Whole, For, Rm, Early, Settled, Durable
<1>9. Undisturbed'
  BY <1>0, <1>2 DEF IInv, Undisturbed, For, Rm, Early, Settled
<1>. QED BY <1>3, <1>5, <1>6, <1>7, <1>8, <1>9 DEF IInv

LEMMA CleanOldInv ==
    ASSUME IInv, CleanOld
    PROVE  IInv'
<1>0. TypeOK /\ run \in Run /\ run.pc = "forward" /\ UNCHANGED disk /\ faults' \in 0 .. faults
  BY RunType, FaultAssumption DEF IInv, CleanOld, TypeOK, disk, history
<1>1. CASE Finish("uncertain")
  BY <1>0, <1>1, FailingAfter DEF Finish
<1>2. CASE Forward /\ Remove("stage", "forward")
  <2>1. /\ run' \in Run /\ out' = out /\ run'.pc = "rm"
        /\ run'.kind = run.kind /\ run'.sound = run.sound /\ run'.goal = run.goal
        /\ run'.owned = run.owned /\ run'.exchanged = run.exchanged
        /\ run'.name = "stage" /\ run'.why = "forward"
    BY <1>0, <1>2, StartingRemoval DEF Private, Whys
  <2>2. Owned' /\ run.exchanged /\ run.owned = {"stage"}
    BY <1>0, <2>1 DEF IInv, Owned, For, Rm, Settled, Early, TypeOK
  <2>3. Aimed'
    BY <1>0, <2>1, <2>2 DEF IInv, Aimed, For, Rm
  <2>4. Located'
    BY <1>0, <2>1, <2>2 DEF IInv, Located, Early, Nowhere, disk
  <2>5. Whole'
    BY <1>0, <2>1, <2>2 DEF IInv, Whole, For, Rm, Early, Settled, disk, Durable
  <2>6. Undisturbed' /\ out' \in Reports
    BY <1>0, <2>1, <2>2 DEF IInv, Undisturbed, For, Rm, Early, Settled, disk, TypeOK, Reports
  <2>. QED BY <1>0, <2>1, <2>2, <2>3, <2>4, <2>5, <2>6, RunStep
<1>. QED BY <1>1, <1>2 DEF CleanOld

LEMMA ReverseInv ==
    ASSUME IInv, Reverse
    PROVE  IInv'
<1>0. TypeOK /\ run \in Run /\ run.pc = "reverse" /\ UNCHANGED disk /\ faults' \in 0 .. faults
  BY RunType, FaultAssumption DEF IInv, Reverse, TypeOK, disk, history
<1>1. CASE Finish("uncertain")
  BY <1>0, <1>1, FailingAfter DEF Finish
<1>2. CASE Goto("reverse_rename")
  <2>1. /\ run' \in Run /\ out' = out /\ run'.pc = "reverse_rename"
        /\ run'.kind = run.kind /\ run'.sound = run.sound /\ run'.goal = run.goal
        /\ run'.owned = run.owned /\ run'.exchanged = run.exchanged
        /\ run'.name = run.name /\ run'.why = run.why
    BY <1>0, <1>2, Going DEF Labels
  <2>2. Owned' /\ run.exchanged /\ run.owned = {"stage"}
    BY <1>0, <2>1 DEF IInv, Owned, For, Rm, Settled, Early, TypeOK
  <2>3. Aimed'
    BY <1>0, <2>1, <2>2 DEF IInv, Aimed, For, Rm
  <2>4. Located'
    BY <1>0, <2>1, <2>2 DEF IInv, Located, Early, Nowhere, disk
  <2>5. Whole'
    BY <1>0, <2>1, <2>2 DEF IInv, Whole, For, Rm, Early, Settled, disk, Durable
  <2>6. Undisturbed' /\ out' \in Reports
    BY <1>0, <2>1, <2>2 DEF IInv, Undisturbed, For, Rm, Early, Settled, disk, TypeOK, Reports
  <2>. QED BY <1>0, <2>1, <2>2, <2>3, <2>4, <2>5, <2>6, RunStep
<1>. QED BY <1>1, <1>2 DEF Reverse

LEMMA ExchangeBackInv ==
    ASSUME IInv, ExchangeBack
    PROVE  IInv'
<1>0. TypeOK /\ run \in Run /\ run.pc = "reverse_rename" /\ UNCHANGED <<trees, history>>
  BY RunType DEF IInv, ExchangeBack
<1>1. CASE Finish("uncertain") /\ UNCHANGED <<names, unsynced>>
  <2>1. /\ UNCHANGED disk /\ faults' \in 0 .. faults /\ out' = out
        /\ run' = Failing("uncertain")
    BY <1>0, <1>1, FaultAssumption DEF Finish, disk, history, TypeOK
  <2>. QED BY <1>0, <2>1, FailingAfter
<1>2. CASE BothThere /\ Rename(Swapped) /\ Goto("restored")
  <2>1. /\ run' \in Run /\ out' = out /\ run'.pc = "restored"
        /\ run'.kind = run.kind /\ run'.sound = run.sound /\ run'.goal = run.goal
        /\ run'.owned = run.owned /\ run'.exchanged = run.exchanged
        /\ run'.name = run.name /\ run'.why = run.why
    BY <1>0, <1>2, Going DEF Labels
  <2>2. /\ names' \in NameType /\ unsynced' = unsynced \cup {names'}
        /\ names'["target"] = names["stage"] /\ names'["stage"] = names["target"]
        /\ \A n \in Names \ {"target", "stage"} : names'[n] = names[n]
        /\ Foreign(names') = Foreign(names) /\ Names = Places
    BY <1>0, <1>2, Swapping
  <2>3. Owned' /\ run.exchanged /\ run.owned = {"stage"} /\ run.goal = "ok"
    BY <1>0, <2>1 DEF IInv, Owned, Aimed, For, Rm, Settled, Early, TypeOK
  <2>4. TypeOK' /\ Counted'
    <3>1. Foreign(names') <= Foreign(names) /\ Rename(names') /\ out' \in Reports
      BY <1>0, <1>2, <2>1, <2>2, ForeignType DEF Rename, TypeOK, Reports
    <3>. QED BY <1>0, <2>1, <2>2, <2>3, <3>1, Renamed
  <2>5. Aimed'
    BY <1>0, <2>1, <2>3 DEF IInv, Aimed, For, Rm
  <2>6. Located'
    BY <1>0, <2>1, <2>2, <2>3 DEF IInv, Located, Early, Nowhere, Places
  <2>7. Whole'
    <3>1. /\ names["stage"] # "temp" /\ Durable(trees["new"]) /\ Durable(trees["old"])
      BY <1>0, <2>3 DEF IInv, Located, Whole, Early, For, Rm, Settled
    <3>2. ~touched => names["stage"] \in Trees
      BY <1>0, <2>3 DEF IInv, Undisturbed, Trees, Settled
    <3>. QED BY <1>0, <2>1, <2>2, <2>3, <3>1, <3>2
         DEF IInv, Whole, For, Rm, Early, Settled, Durable, history, TypeOK, Trees
  <2>8. Undisturbed'
    BY <1>0, <2>1, <2>2, <2>3 DEF IInv, Undisturbed, For, Rm, Early, Settled, history
  <2>. QED BY <2>3, <2>4, <2>5, <2>6, <2>7, <2>8 DEF IInv
<1>. QED BY <1>1, <1>2 DEF ExchangeBack

LEMMA CheckRestoredInv ==
    ASSUME IInv, CheckRestored
    PROVE  IInv'
<1>0. /\ TypeOK /\ run \in Run /\ run.pc = "restored" /\ UNCHANGED <<names, trees, history>>
      /\ run.exchanged /\ run.owned = {"stage"} /\ faults' \in 0 .. faults
  BY RunType, FaultAssumption DEF IInv, CheckRestored, TypeOK, Owned, Settled, history
<1>1. CASE Finish("uncertain") /\ UNCHANGED unsynced
  BY <1>0, <1>1, FailingAfter DEF Finish, disk, history
<1>2. CASE Restored /\ SyncParent /\ Remove("stage", "restored")
  <2>1. /\ run' \in Run /\ out' = out /\ run'.pc = "rm"
        /\ run'.kind = run.kind /\ run'.sound = run.sound /\ run'.goal = run.goal
        /\ run'.owned = run.owned /\ run'.exchanged = run.exchanged
        /\ run'.name = "stage" /\ run'.why = "restored"
    BY <1>0, <1>2, StartingRemoval DEF Private, Whys
  <2>2. unsynced' = {names} /\ names["target"] = "old"
    BY <1>2 DEF SyncParent, Synced, Restored
  <2>3. Owned'
    BY <1>0, <2>1 DEF IInv, Owned, For, Rm, Settled, Early
  <2>4. TypeOK' /\ Counted'
    <3>1. out' \in Reports /\ trees' \in [Trees -> TreeType] /\ unsynced' \subseteq unsynced
      BY <1>0, <2>1, <2>2 DEF TypeOK, Reports, TreeType
    <3>. QED BY <1>0, <2>1, <2>2, <3>1, TreesTyped DEF history
  <2>5. Aimed'
    BY <1>0, <2>1 DEF IInv, Aimed, For, Rm
  <2>6. Located'
    BY <1>0, <2>1 DEF IInv, Located, Early, Nowhere
  <2>7. Whole'
    <3>1. unsynced' \subseteq unsynced
      BY <1>0, <2>2 DEF TypeOK
    <3>. QED BY <1>0, <2>1, <2>2, <3>1 DEF IInv, Whole, For, Rm, Early, Settled, Durable, history
  <2>8. Undisturbed'
    BY <1>0, <2>1, <2>2 DEF IInv, Undisturbed, For, Rm, Early, Settled, history
  <2>. QED BY <2>3, <2>4, <2>5, <2>6, <2>7, <2>8 DEF IInv
<1>. QED BY <1>1, <1>2 DEF CheckRestored

----------------------------------------------------------------------------
(* The removal of a tree *)

LEMMA ExpectedIs ==
    ASSUME IInv, run.pc \in Rm
    PROVE  /\ run.name = "temp" => Expected = "temp"
           /\ run.name # "temp" /\ run.why = "forward" => Expected = "old"
           /\ run.name # "temp" /\ run.why # "forward" => Expected = "new"
<1>0. run.name = "temp" => run.why # "forward"
  BY DEF IInv, Owned, For
<1>1. CASE run.name = "temp"
  BY <1>0, <1>1 DEF Expected
<1>2. CASE run.name # "temp" /\ run.why = "forward"
  BY <1>2 DEF Expected
<1>3. CASE run.name # "temp" /\ run.why # "forward"
  BY <1>3 DEF Expected
<1>. QED BY <1>1, <1>2, <1>3

\* A step of a removal that goes on.
LEMMA StillRemoving ==
    ASSUME IInv, run.pc \in Rm, run'.pc \in Rm, run' \in Run,
           run'.kind = run.kind, run'.sound = run.sound, run'.goal = run.goal,
           run'.owned = run.owned, run'.exchanged = run.exchanged,
           run'.name = run.name, run'.why = run.why
    PROVE  Owned' /\ Aimed' /\ (run'.exchanged => run'.owned = {"stage"})
<1>1. Owned'
  BY DEF IInv, Owned, For, Rm, Settled, Early
<1>2. Aimed'
  BY DEF IInv, Aimed, For, Rm
<1>. QED BY <1>1, <1>2 DEF IInv, TypeOK

LEMMA CheckTreeInv ==
    ASSUME IInv, CheckTree
    PROVE  IInv'
<1>0. TypeOK /\ run \in Run /\ run.pc = "rm" /\ UNCHANGED disk /\ faults' \in 0 .. faults
  BY RunType, FaultAssumption DEF IInv, CheckTree, TypeOK, disk, history
<1>1. CASE Removed(FALSE)
  BY <1>0, <1>1, RemovalFails DEF Rm
<1>2. CASE names[run.name] = Expected /\ Goto("rm_take")
  <2>1. /\ run' \in Run /\ out' = out /\ run'.pc = "rm_take"
        /\ run'.kind = run.kind /\ run'.sound = run.sound /\ run'.goal = run.goal
        /\ run'.owned = run.owned /\ run'.exchanged = run.exchanged
        /\ run'.name = run.name /\ run'.why = run.why
    BY <1>0, <1>2, Going DEF Labels
  <2>2. Owned' /\ Aimed' /\ (run'.exchanged => run'.owned = {"stage"})
    BY <1>0, <2>1, StillRemoving DEF Rm
  <2>3. Located'
    <3>1. run.name = "temp" => names["temp"] = "temp"
      BY <1>0, <1>2, ExpectedIs DEF Rm
    <3>. QED BY <1>0, <2>1, <3>1 DEF IInv, Located, Early, Nowhere, disk
  <2>4. Whole'
    BY <1>0, <2>1 DEF IInv, Whole, For, Rm, Early, Settled, disk, Durable
  <2>5. Undisturbed' /\ out' \in Reports
    BY <1>0, <2>1 DEF IInv, Undisturbed, For, Rm, Early, Settled, disk, TypeOK, Reports
  <2>. QED BY <1>0, <2>1, <2>2, <2>3, <2>4, <2>5, RunStep
<1>. QED BY <1>1, <1>2 DEF CheckTree

\* What a removal takes goes to a private name that nothing has.
LEMMA Taking ==
    ASSUME IInv, run.pc = "rm_take",
           Rename([names EXCEPT ![run.name] = None, ![Gone(run.name)] = names[run.name]])
    PROVE  /\ names' \in NameType /\ unsynced' = unsynced \cup {names'}
           /\ names'[run.name] = None /\ names'[Gone(run.name)] = names[run.name]
           /\ \A n \in Names \ {run.name, Gone(run.name)} : names'[n] = names[n]
           /\ names[Gone(run.name)] = None
           /\ Foreign(names') = Foreign(names)
           /\ Names = Places /\ run.name \in Private
<1>0. run.name \in Private /\ names \in NameType
  BY DEF IInv, TypeOK, NameType
<1>1. names[Gone(run.name)] = None
  BY <1>0, NamesAre DEF IInv, Located, Early, Private, Gone, Places, Trees
<1>2. CASE run.name = "stage"
  <2>1. /\ names' \in NameType /\ names'["stage"] = None /\ names'["gone_stage"] = names["stage"]
        /\ names'["target"] = names["target"] /\ names'["temp"] = names["temp"]
        /\ names'["gone_temp"] = names["gone_temp"]
    BY <1>0, <1>2, NamesAre DEF Rename, NameType, Gone, Places
  <2>2. Foreign(names') = Foreign(names)
    BY <1>1, <1>2, <2>1, ForeignSum, NoneAssumption DEF One, Gone
  <2>. QED BY <1>0, <1>1, <1>2, <2>1, <2>2, NamesAre DEF Gone, Places, Rename
<1>3. CASE run.name = "temp"
  <2>1. /\ names' \in NameType /\ names'["temp"] = None /\ names'["gone_temp"] = names["temp"]
        /\ names'["target"] = names["target"] /\ names'["stage"] = names["stage"]
        /\ names'["gone_stage"] = names["gone_stage"]
    BY <1>0, <1>3, NamesAre DEF Rename, NameType, Gone, Places
  <2>2. Foreign(names') = Foreign(names)
    BY <1>1, <1>3, <2>1, ForeignSum, NoneAssumption DEF One, Gone
  <2>. QED BY <1>0, <1>1, <1>3, <2>1, <2>2, NamesAre DEF Gone, Places, Rename
<1>. QED BY <1>0, <1>2, <1>3 DEF Private

LEMMA TakeTreeInv ==
    ASSUME IInv, TakeTree
    PROVE  IInv'
<1>0. /\ TypeOK /\ run \in Run /\ run.pc = "rm_take" /\ UNCHANGED <<trees, history>>
      /\ faults' \in 0 .. faults
  BY RunType, FaultAssumption DEF IInv, TakeTree, TypeOK, history
<1>1. CASE Removed(FALSE) /\ UNCHANGED <<names, unsynced>>
  BY <1>0, <1>1, RemovalFails DEF Rm, disk, history
<1>2. CASE /\ Rename([names EXCEPT ![run.name] = None, ![Gone(run.name)] = names[run.name]])
           /\ Goto("rm_files")
  <2>1. /\ run' \in Run /\ out' = out /\ run'.pc = "rm_files"
        /\ run'.kind = run.kind /\ run'.sound = run.sound /\ run'.goal = run.goal
        /\ run'.owned = run.owned /\ run'.exchanged = run.exchanged
        /\ run'.name = run.name /\ run'.why = run.why
    BY <1>0, <1>2, Going DEF Labels
  <2>2. /\ names' \in NameType /\ unsynced' = unsynced \cup {names'}
        /\ names'[run.name] = None /\ names'[Gone(run.name)] = names[run.name]
        /\ \A n \in Names \ {run.name, Gone(run.name)} : names'[n] = names[n]
        /\ names[Gone(run.name)] = None /\ Foreign(names') = Foreign(names)
        /\ Names = Places /\ run.name \in Private
    BY <1>0, <1>2, Taking
  <2>3. Owned' /\ Aimed' /\ (run'.exchanged => run'.owned = {"stage"})
    BY <1>0, <2>1, StillRemoving DEF Rm
  <2>4. TypeOK' /\ Counted'
    <3>1. Foreign(names') <= Foreign(names) /\ Rename(names') /\ out' \in Reports
      BY <1>0, <1>2, <2>1, <2>2, ForeignType DEF Rename, TypeOK, Reports
    <3>. QED BY <1>0, <2>1, <2>2, <2>3, <3>1, Renamed
  <2>5. names'["target"] = names["target"]
    BY <2>2 DEF Gone, Private, Places
  <2>6. Located'
    <3>1. CASE run.name = "stage"
      <4>1. /\ names'["stage"] = None /\ names'["gone_stage"] = names["stage"]
            /\ names'["temp"] = names["temp"] /\ names'["gone_temp"] = names["gone_temp"]
        BY <2>2, <3>1 DEF Gone, Places
      <4>. QED BY <1>0, <2>1, <2>2, <2>5, <3>1, <4>1, NoneAssumption
           DEF IInv, Located, Early, Nowhere, Places, Trees
    <3>2. CASE run.name = "temp"
      <4>1. /\ names'["temp"] = None /\ names'["gone_temp"] = names["temp"]
            /\ names'["stage"] = names["stage"] /\ names'["gone_stage"] = names["gone_stage"]
        BY <2>2, <3>2 DEF Gone, Places
      <4>. QED BY <1>0, <2>1, <2>2, <2>5, <3>2, <4>1, NoneAssumption
           DEF IInv, Located, Early, Nowhere, Places, Trees
    <3>. QED BY <2>2, <3>1, <3>2 DEF Private
  <2>7. Whole'
    BY <1>0, <2>1, <2>2, <2>5
       DEF IInv, Whole, For, Rm, Early, Settled, Durable, history, TypeOK
  <2>8. Undisturbed'
    <3>1. For("before") => names'["stage"] = names["stage"]
      BY <1>0, <2>2 DEF IInv, Owned, Gone, Places
    <3>. QED BY <1>0, <2>1, <2>5, <3>1 DEF IInv, Undisturbed, For, Rm, Early, Settled, history
  <2>. QED BY <2>3, <2>4, <2>6, <2>7, <2>8 DEF IInv
<1>. QED BY <1>1, <1>2 DEF TakeTree

\* The tree that a removal has taken is no installation, before or after a
\* power failure.
LEMMA NotInstalled ==
    ASSUME IInv, run.pc = "rm_files"
    PROVE  /\ \A ns \in unsynced : ns["target"] # Expected
           /\ Expected \in Trees
           /\ For("before") => Expected = "temp"
           /\ Expected = "old" => For("forward")
<1>0. run.name \in Private /\ run.why \in Whys
  BY DEF IInv, TypeOK, Whys
<1>1. /\ run.name = "temp" => Expected = "temp"
      /\ run.name # "temp" /\ run.why = "forward" => Expected = "old"
      /\ run.name # "temp" /\ run.why # "forward" => Expected = "new"
  BY ExpectedIs DEF Rm
<1>2. CASE run.name = "temp"
  BY <1>1, <1>2 DEF IInv, Whole, Trees
<1>3. CASE run.name # "temp" /\ run.why = "forward"
  BY <1>1, <1>3 DEF IInv, Whole, For, Rm, Trees
<1>4. CASE run.name # "temp" /\ run.why # "forward"
  <2>1. run.why # "before"
    BY <1>4 DEF IInv, Owned, For, Rm
  <2>2. CASE run.why = "finish"
    <3>1. ~run.exchanged
      BY <2>2 DEF IInv, Owned, For, Rm
    <3>. QED BY <1>1, <1>4, <2>2, <3>1 DEF IInv, Whole, For, Rm, Early, Trees
  <2>3. CASE run.why = "restored"
    BY <1>1, <1>4, <2>3 DEF IInv, Whole, For, Rm, Trees
  <2>. QED BY <1>0, <1>4, <2>1, <2>2, <2>3 DEF Whys
<1>. QED BY <1>2, <1>3, <1>4

LEMMA RemoveFilesInv ==
    ASSUME IInv, RemoveFiles
    PROVE  IInv'
<1>0. /\ TypeOK /\ run \in Run /\ run.pc = "rm_files" /\ UNCHANGED history
      /\ faults' \in 0 .. faults /\ run.name \in Private
  BY RunType, FaultAssumption DEF IInv, RemoveFiles, TypeOK, history
<1>a. /\ \A ns \in unsynced : ns["target"] # Expected
      /\ Expected \in Trees /\ (For("before") => Expected = "temp")
      /\ (Expected = "old" => For("forward"))
  BY <1>0, NotInstalled
<1>1. CASE Removed(FALSE) /\ UNCHANGED <<names, unsynced, trees>>
  BY <1>0, <1>1, RemovalFails DEF Rm, disk, history
<1>2. CASE /\ UNCHANGED <<names, unsynced, run, out>>
           /\ \E f \in trees[Expected].files : trees' = [trees EXCEPT ![Expected].files = @ \ {f}]
  <2>1. /\ trees' \in [Trees -> TreeType]
        /\ \A id \in Trees \ {Expected} : trees'[id] = trees[id]
    BY <1>0, <1>2, <1>a DEF TypeOK, TreeType
  <2>2. Owned' /\ Aimed' /\ (run'.exchanged => run'.owned = {"stage"}) /\ run' \in Run
    BY <1>0, <1>2, StillRemoving DEF Rm
  <2>3. TypeOK' /\ Counted'
    <3>1. out' \in Reports /\ names \in unsynced'
      BY <1>0, <1>2 DEF TypeOK, Reports
    <3>. QED BY <1>0, <1>2, <2>1, <2>2, <3>1, TreesTyped DEF history
  <2>4. Located' /\ Undisturbed'
    BY <1>0, <1>2 DEF IInv, Located, Undisturbed, Nowhere, Expected, For, Rm, history
  <2>5. Whole'
    <3>1. \A ns \in unsynced : ns["target"] \in Trees => trees'[ns["target"]] = trees[ns["target"]]
      BY <1>a, <2>1
    <3>2. For("before") => trees'["new"] = trees["new"]
      BY <1>a, <2>1 DEF Trees
    <3>3. ~For("forward") => trees'["old"] = trees["old"]
      BY <1>a, <2>1 DEF Trees
    <3>. QED BY <1>0, <1>2, <3>1, <3>2, <3>3
         DEF IInv, Whole, For, Rm, Early, Settled, Durable, history
  <2>. QED BY <2>2, <2>3, <2>4, <2>5 DEF IInv
<1>3. CASE /\ names[Gone(run.name)] = Expected /\ Goto("rm_sync") /\ UNCHANGED trees
           /\ Rename([names EXCEPT ![Gone(run.name)] = None])
  <2>1. /\ run' \in Run /\ out' = out /\ run'.pc = "rm_sync"
        /\ run'.kind = run.kind /\ run'.sound = run.sound /\ run'.goal = run.goal
        /\ run'.owned = run.owned /\ run'.exchanged = run.exchanged
        /\ run'.name = run.name /\ run'.why = run.why
    BY <1>0, <1>3, Going DEF Labels
  <2>2. /\ names' \in NameType /\ unsynced' = unsynced \cup {names'} /\ Names = Places
        /\ \A n \in Names \ {Gone(run.name)} : names'[n] = names[n]
        /\ Gone(run.name) \in {"gone_stage", "gone_temp"} /\ names'[Gone(run.name)] = None
    BY <1>0, <1>3, NamesAre DEF Rename, NameType, Gone, Places, TypeOK, Private
  <2>3. Owned' /\ Aimed' /\ (run'.exchanged => run'.owned = {"stage"})
    BY <1>0, <2>1, StillRemoving DEF Rm
  <2>4. TypeOK' /\ Counted'
    <3>1. Foreign(names') <= Foreign(names)
      <4>1. names[Gone(run.name)] # "foreign" /\ None # "foreign"
        BY <1>3, <1>a, NoneAssumption DEF Trees
      <4>. QED BY <2>2, <4>1, ForeignSum DEF One, Places
    <3>2. Rename(names') /\ out' \in Reports
      BY <1>0, <1>3, <2>1 DEF Rename, TypeOK, Reports
    <3>. QED BY <1>0, <1>3, <2>1, <2>2, <2>3, <3>1, <3>2, Renamed
  <2>5. /\ names'["target"] = names["target"] /\ names'["stage"] = names["stage"]
        /\ names'["temp"] = names["temp"]
    BY <2>2 DEF Places
  <2>6. Located'
    <3>1. Expected' = Expected
      BY <2>1 DEF Expected
    <3>2. \A n \in Names : names'[n] # Expected
      <4>1. \A n \in Names \ {Gone(run.name)} : names[n] # Expected
        BY <1>0, <1>3, <1>a, <2>2 DEF IInv, Located, Early, Places
      <4>. QED BY <1>a, <2>2, <4>1, NoneAssumption DEF Trees
    <3>3. \A n \in Names : names'[n] = names[n] \/ names'[n] = None
      BY <2>2
    <3>4. None \notin Trees /\ None # "temp" /\ None # "new" /\ None # "old"
      BY NoneAssumption DEF Trees
    <3>5. \A n \in {"target", "stage", "temp", "gone_stage", "gone_temp"} :
             names'[n] = names[n] \/ names'[n] = None
      BY <2>2, <3>3 DEF Places
    <3>6. names'["gone_stage"] # None => FALSE
      <4>1. CASE run.name = "stage"
        BY <2>2, <4>1 DEF Gone
      <4>2. CASE run.name = "temp"
        BY <1>0, <2>2, <4>2 DEF IInv, Located, Early, Gone, Places
      <4>. QED BY <1>0, <4>1, <4>2 DEF Private
    <3>7. \A n, m \in Names : names'[n] = names'[m] /\ names'[n] \in Trees => n = m
      BY <1>0, <3>3, <3>4 DEF IInv, Located, Early
    <3>8. \A id \in Trees : Nowhere(id) => Nowhere(id)'
      BY <3>3, <3>4 DEF Nowhere, Trees
    <3>. QED BY <1>0, <2>1, <2>5, <3>1, <3>2, <3>4, <3>5, <3>6, <3>7, <3>8
         DEF IInv, Located, Early, Nowhere, Trees
  <2>7. Whole'
    BY <1>0, <1>3, <2>1, <2>2, <2>5
       DEF IInv, Whole, For, Rm, Early, Settled, Durable, history, TypeOK
  <2>8. Undisturbed'
    BY <1>0, <2>1, <2>5 DEF IInv, Undisturbed, For, Rm, Early, Settled, history
  <2>. QED BY <2>3, <2>4, <2>6, <2>7, <2>8 DEF IInv
<1>. QED
  <2>1. CASE ~(Taken /\ Validate)
    BY <1>1, <2>1 DEF RemoveFiles
  <2>2. CASE Taken /\ Validate
    <3>1. names[Gone(run.name)] = Expected
      BY <2>2 DEF Taken
    <3>. QED BY <1>2, <1>3, <2>2, <3>1 DEF RemoveFiles
  <2>. QED BY <2>1, <2>2

LEMMA RemoveDoneInv ==
    ASSUME IInv, RemoveDone
    PROVE  IInv'
<1>0. /\ TypeOK /\ run \in Run /\ run.pc = "rm_sync" /\ UNCHANGED <<names, trees, history>>
      /\ faults' \in 0 .. faults /\ run.name \in Private /\ run.why \in Whys
      /\ unsynced' = {names} /\ names \in unsynced
  BY RunType, FaultAssumption DEF IInv, RemoveDone, TypeOK, history, SyncParent, Synced, Whys
<1>. DEFINE ok == Validate /\ names[run.name] = None
<1>1. /\ run' \in Run /\ out' = out
      /\ run'.kind = run.kind /\ run'.sound = run.sound
      /\ run'.exchanged = run.exchanged /\ run'.name = run.name /\ run'.why = run.why
      /\ run.why = "before" /\ ok =>
           run'.pc = "guard" /\ run'.goal = run.goal /\ run'.owned = run.owned \ {run.name}
      /\ run.why = "before" /\ ~ok =>
           run'.pc = "finish" /\ run'.goal = "internal" /\ run'.owned = run.owned
      /\ run.why = "forward" =>
           /\ run'.pc = "finish" /\ run'.owned = run.owned
           /\ run'.goal = IF ok THEN "ok" ELSE "uncertain"
      /\ run.why = "restored" =>
           /\ run'.pc = "finish" /\ run'.owned = run.owned
           /\ run'.goal = IF ok THEN "restored" ELSE "uncertain"
      /\ run.why = "finish" =>
           /\ run'.pc = "finish" /\ run'.owned = run.owned \ {run.name}
           /\ run'.goal = IF ok THEN run.goal ELSE "uncertain"
  <2>1. ok \in BOOLEAN /\ Removed(ok)
    BY DEF RemoveDone
  <2>. HIDE DEF ok
  <2>. QED BY <1>0, <2>1, Removal
<1>2. /\ run.why = "forward" /\ ok => names["target"] = "new"
      /\ run.why = "restored" /\ ok => names["target"] = "old"
  <2>1. run.why = "forward" => (Validate <=> names["target"] = "new" /\ Matches)
    BY DEF Validate
  <2>2. run.why = "restored" => (Validate <=> Original)
    BY DEF Validate
  <2>. QED BY <2>1, <2>2 DEF Original
<1>3. Nowhere(Expected) /\ names["gone_stage"] = None
  BY <1>0 DEF IInv, Located, Early
<1>4. /\ run.name = "temp" => Nowhere("temp")
      /\ run.name # "temp" /\ run.why = "forward" => Nowhere("old")
      /\ run.name # "temp" /\ run.why # "forward" => Nowhere("new")
  BY <1>0, <1>3, ExpectedIs DEF Rm
<1>. HIDE DEF ok
<1>5. Owned' /\ (run'.exchanged => run'.owned = {"stage"})
  <2>1. CASE run.why = "before"
    BY <1>0, <1>1, <2>1 DEF IInv, Owned, For, Rm, Settled, Early, Private
  <2>2. CASE run.why \in {"forward", "restored"}
    BY <1>0, <1>1, <2>2 DEF IInv, Owned, For, Rm, Settled, Early, TypeOK
  <2>3. CASE run.why = "finish"
    BY <1>0, <1>1, <2>3 DEF IInv, Owned, For, Rm, Settled, Early
  <2>. QED BY <1>0, <2>1, <2>2, <2>3 DEF Whys
<1>6. TypeOK' /\ Counted'
  <2>1. out' \in Reports /\ trees' \in [Trees -> TreeType]
    BY <1>0, <1>1 DEF TypeOK, Reports, TreeType
  <2>. QED BY <1>0, <1>1, <1>5, <2>1, TreesTyped DEF history
<1>7. Aimed'
  <2>1. CASE run.why = "before"
    BY <1>0, <1>1, <2>1 DEF IInv, Aimed, Owned, For, Rm
  <2>2. CASE run.why \in {"forward", "restored"}
    BY <1>0, <1>1, <2>2 DEF IInv, Aimed, Owned, For, Rm
  <2>3. CASE run.why = "finish"
    BY <1>0, <1>1, <2>3 DEF IInv, Aimed, Owned, For, Rm
  <2>. QED BY <1>0, <2>1, <2>2, <2>3 DEF Whys
<1>8. Located'
  <2>0. names \in NameType /\ Names = Places
    BY <1>0, NamesAre DEF TypeOK, NameType
  <2>1. CASE run.why = "before"
    BY <1>0, <1>1, <1>3, <1>4, <2>1 DEF IInv, Located, Owned, For, Rm, Early, Nowhere, Private
  <2>2. CASE run.why = "forward"
    <3>1. run.name = "stage" /\ run.exchanged /\ run.owned = {"stage"} /\ run.goal = "ok"
      BY <1>0, <2>2 DEF IInv, Owned, Aimed, For, Rm, TypeOK
    <3>2. ok => "new" \notin {names["stage"], names["gone_stage"]}
      BY <1>0, <1>2, <2>0, <2>2 DEF IInv, Located, Early, Places, Trees
    <3>. QED BY <1>0, <1>1, <1>3, <1>4, <2>2, <3>1, <3>2 DEF IInv, Located, Early, Nowhere
  <2>3. CASE run.why = "restored"
    <3>1. run.name = "stage" /\ run.exchanged /\ run.owned = {"stage"} /\ run.goal = "ok"
      BY <1>0, <2>3 DEF IInv, Owned, Aimed, For, Rm, TypeOK
    <3>2. ok => "old" \notin {names["stage"], names["gone_stage"]}
      BY <1>0, <1>2, <2>0, <2>3 DEF IInv, Located, Early, Places, Trees
    <3>. QED BY <1>0, <1>1, <1>3, <1>4, <2>3, <3>1, <3>2 DEF IInv, Located, Early, Nowhere
  <2>4. CASE run.why = "finish"
    BY <1>0, <1>1, <1>3, <1>4, <2>4 DEF IInv, Located, Owned, For, Rm, Early, Nowhere, Private
  <2>. QED BY <1>0, <2>1, <2>2, <2>3, <2>4 DEF Whys
<1>9. Whole'
  <2>1. CASE run.why = "before"
    BY <1>0, <1>1, <2>1 DEF IInv, Whole, Owned, For, Rm, Early, Settled, Durable, history
  <2>2. CASE run.why \in {"forward", "restored"}
    BY <1>0, <1>1, <2>2 DEF IInv, Whole, Owned, For, Rm, Early, Settled, Durable, history
  <2>3. CASE run.why = "finish"
    BY <1>0, <1>1, <2>3 DEF IInv, Whole, Owned, For, Rm, Early, Settled, Durable, history
  <2>. QED BY <1>0, <2>1, <2>2, <2>3 DEF Whys
<1>10. Undisturbed'
  <2>1. CASE run.why = "before"
    BY <1>0, <1>1, <2>1 DEF IInv, Undisturbed, Owned, For, Rm, Early, Settled, history
  <2>2. CASE run.why \in {"forward", "restored"}
    BY <1>0, <1>1, <1>2, <2>2 DEF IInv, Undisturbed, Owned, For, Rm, Early, Settled, history
  <2>3. CASE run.why = "finish"
    BY <1>0, <1>1, <2>3 DEF IInv, Undisturbed, Owned, For, Rm, Early, Settled, history
  <2>. QED BY <1>0, <2>1, <2>2, <2>3 DEF Whys
<1>. QED BY <1>5, <1>6, <1>7, <1>8, <1>9, <1>10 DEF IInv

\* The removal of what is left before a report.
LEMMA FinishRunInv ==
    ASSUME IInv, FinishRun
    PROVE  IInv'
<1>0. TypeOK /\ run \in Run /\ run.pc = "finish" /\ UNCHANGED disk /\ faults' \in 0 .. faults
  BY RunType, FaultAssumption DEF IInv, FinishRun, TypeOK, disk, history
<1>1. CASE Exit(run.goal)
  <2>1. run.goal \in Reports
    BY <1>0 DEF Run, Goals, Reports
  <2>. QED BY <1>0, <1>1, <2>1, Exiting
<1>2. ASSUME NEW n \in Private, n \in run.owned, n = "stage" => "temp" \notin run.owned,
             n = "stage" => ~run.exchanged, Remove(n, "finish")
      PROVE  IInv'
  <2>1. /\ run' \in Run /\ out' = out /\ run'.pc = "rm"
        /\ run'.kind = run.kind /\ run'.sound = run.sound /\ run'.goal = run.goal
        /\ run'.owned = run.owned /\ run'.exchanged = run.exchanged
        /\ run'.name = n /\ run'.why = "finish"
    BY <1>0, <1>2, StartingRemoval DEF Whys
  <2>2. ~run.exchanged /\ run.owned \in SUBSET Private
    BY <1>0, <1>2 DEF TypeOK, Private
  <2>3. Owned'
    BY <1>0, <1>2, <2>1, <2>2 DEF IInv, Owned, For, Rm, Settled, Early, Private
  <2>4. Aimed'
    BY <1>0, <2>1, <2>2 DEF IInv, Aimed, For, Rm
  <2>5. Located'
    BY <1>0, <1>2, <2>1, <2>2 DEF IInv, Located, Early, Nowhere, disk
  <2>6. Whole'
    <3>1. run.pc \notin Early
      BY <1>0 DEF Early
    <3>2. Durable(trees["old"])
      BY <1>0, <2>2 DEF IInv, Whole, For, Rm, Early
    <3>. QED BY <1>0, <2>1, <2>2, <3>1, <3>2
         DEF IInv, Whole, For, Rm, Early, Settled, disk, Durable
  <2>7. Undisturbed' /\ out' \in Reports
    BY <1>0, <2>1, <2>2 DEF IInv, Undisturbed, For, Rm, Early, Settled, disk, TypeOK, Reports
  <2>. QED BY <1>0, <2>1, <2>2, <2>3, <2>4, <2>5, <2>6, <2>7, RunStep
<1>3. CASE "temp" \in run.owned
  BY <1>2, <1>3 DEF FinishRun, Private
<1>4. CASE "temp" \notin run.owned /\ "stage" \in run.owned /\ ~run.exchanged
  BY <1>2, <1>4 DEF FinishRun, Private
<1>. QED BY <1>1, <1>3, <1>4 DEF FinishRun

----------------------------------------------------------------------------
(* Faults and editors *)

LEMMA CallFailsInv ==
    ASSUME IInv, CallFails
    PROVE  IInv'
<1>0. TypeOK /\ UNCHANGED disk /\ faults' \in 0 .. faults
  BY FaultType DEF IInv, CallFails, disk
<1>1. CASE run.pc = "fetch" /\ Exit("transient")
  BY <1>0, <1>1, Exiting DEF Reports, Errors
<1>2. CASE run.pc = "lock" /\ Exit("internal")
  BY <1>0, <1>2, Exiting DEF Reports, Errors
<1>3. CASE /\ run.pc \in {"make_stage", "copy", "sync", "make_temp", "extract", "move", "exchange"}
           /\ Raise
  BY <1>0, <1>3, FailingBefore DEF Raise, Finish
<1>4. CASE run.pc \in {"reverse_rename", "restored"} /\ Finish("uncertain")
  BY <1>0, <1>4, FailingAfter DEF Finish
<1>5. CASE run.pc \in {"rm_take", "rm_files", "rm_sync"} /\ Removed(FALSE)
  BY <1>0, <1>5, RemovalFails DEF Rm
<1>. QED BY <1>1, <1>2, <1>3, <1>4, <1>5 DEF CallFails

LEMMA CrashInv ==
    ASSUME IInv, Crash
    PROVE  IInv'
<1>1. UNCHANGED disk /\ faults' \in 0 .. faults /\ Exit("crashed")
  BY FaultType DEF IInv, Crash, disk
<1>. QED BY <1>1, Exiting DEF Reports

\* What a power failure goes back to, and may lose, is no complete release.
LEMMA PowerFailsInv ==
    ASSUME IInv, PowerFails
    PROVE  IInv'
<1>0. /\ TypeOK /\ UNCHANGED <<litter, touched>> /\ faults' \in 0 .. faults
      /\ names' \in unsynced /\ unsynced' = {names'}
  BY FaultType DEF IInv, PowerFails
<1>1. /\ run' \in Run /\ out' \in Reports /\ run'.pc = "idle" /\ run'.owned = {}
      /\ ~run'.exchanged /\ run'.goal = "ok"
  <2>1. CASE run.pc = "idle" /\ UNCHANGED <<run, out>>
    BY <1>0, <2>1, RunType DEF IInv, TypeOK, Owned, Aimed, Reports, Early, Rm, Settled
  <2>2. CASE Exit("crashed")
    BY <2>2, IdleType DEF Exit, Reports
  <2>. QED BY <2>1, <2>2 DEF PowerFails
<1>2. PICK tree \in Lost(trees["new"]) : trees' = [trees EXCEPT !["new"] = tree]
  BY DEF PowerFails
<1>3. /\ trees' \in [Trees -> TreeType]
      /\ \A id \in Trees : Durable(trees[id]) => trees'[id] = trees[id]
  <2>1. tree \in TreeType /\ (trees["new"].synced => tree = trees["new"])
    BY <1>0, <1>2 DEF Lost, TypeOK, TreeType, Trees
  <2>2. trees \in [Trees -> TreeType]
    BY <1>0 DEF TypeOK, TreeType
  <2>. QED BY <1>2, <2>1, <2>2 DEF Durable, Trees
<1>4. TypeOK' /\ Counted'
  <2>1. unsynced' \subseteq NameType
    BY <1>0 DEF IInv, Counted, NameType
  <2>2. Foreign(names') + litter' + faults' <= MaxFaults
    <3>1. Foreign(names') + litter + faults <= MaxFaults
      BY <1>0 DEF IInv, Counted
    <3>. QED BY <1>0, <3>1, ForeignType, FaultAssumption DEF TypeOK
  <2>3. touched' \in BOOLEAN /\ litter' \in Nat
    BY <1>0, FaultAssumption DEF TypeOK
  <2>. QED BY <1>0, <1>1, <1>3, <2>1, <2>2, <2>3, Typed
<1>5. Owned' /\ Aimed' /\ Located' /\ Undisturbed'
  BY <1>1 DEF Owned, Aimed, Located, Undisturbed, For, Rm, Early, Settled
<1>6. Whole'
  BY <1>0, <1>1, <1>3 DEF IInv, Whole, For, Rm, Early, Settled, Durable
<1>. QED BY <1>4, <1>5, <1>6 DEF IInv

LEMMA WritebackInv ==
    ASSUME IInv, Writeback
    PROVE  IInv'
<1>0. /\ TypeOK /\ run.pc \in {"idle", "lock"} /\ unsynced' = {names} /\ names \in unsynced
      /\ UNCHANGED <<names, trees, run, out, history>> /\ run' \in Run /\ faults' \in 0 .. faults
  BY RunType, FaultAssumption DEF IInv, Writeback, TypeOK, history
<1>1. TypeOK' /\ Counted'
  <2>1. out' \in Reports /\ trees' \in [Trees -> TreeType] /\ (run'.exchanged => run'.owned = {"stage"})
    BY <1>0 DEF TypeOK, Reports, TreeType
  <2>. QED BY <1>0, <2>1, TreesTyped DEF history
<1>2. Owned' /\ Aimed' /\ Located'
  BY <1>0 DEF IInv, Owned, Aimed, Located, For, Rm, Early, Settled
<1>3. Whole'
  BY <1>0 DEF IInv, Whole, For, Rm, Early, Settled, Durable, history
<1>4. Undisturbed'
  BY <1>0 DEF IInv, Undisturbed, For, Rm, Early, Settled, history
<1>. QED BY <1>1, <1>2, <1>3, <1>4 DEF IInv

LEMMA EditInv ==
    ASSUME IInv, NEW n \in {"target", "stage"}, Edit(n)
    PROVE  IInv'
<1>0. TypeOK /\ UNCHANGED <<trees, run, out, litter>> /\ touched' = TRUE /\ run' \in Run
  BY RunType DEF IInv, Edit
<1>1. PICK id \in {"foreign", None} \ {names[n]} : Rename([names EXCEPT ![n] = id])
  BY DEF Edit
<1>2. /\ names' \in NameType /\ unsynced' = unsynced \cup {names'} /\ names'[n] = id
      /\ \A m \in Names \ {n} : names'[m] = names[m]
      /\ Names = Places
  BY <1>0, <1>1, NamesAre DEF Rename, NameType, Places, TypeOK
<1>3. faults' = faults - 1 /\ faults > 0 /\ faults' \in 0 .. faults
  BY <1>0, FaultAssumption DEF Edit, Fault, TypeOK
<1>4. TypeOK' /\ Counted'
  <2>1. Foreign(names') <= Foreign(names) + 1
    BY <1>2, ForeignSum DEF One, Places
  <2>2. \A ns \in unsynced : Foreign(ns) + litter + faults <= MaxFaults
    BY DEF IInv, Counted
  <2>3. ASSUME NEW ns \in unsynced' PROVE Foreign(ns) + litter' + faults' <= MaxFaults
    <3>1. CASE ns \in unsynced
      BY <1>0, <1>3, <2>2, <3>1, ForeignType, FaultAssumption DEF TypeOK
    <3>2. CASE ns = names'
      <4>1. Foreign(names) + litter + faults <= MaxFaults
        BY <1>0, <2>2 DEF TypeOK
      <4>. QED BY <1>0, <1>3, <2>1, <3>2, <4>1, ForeignType, FaultAssumption DEF TypeOK
    <3>. QED BY <1>2, <3>1, <3>2
  <2>4. unsynced' \subseteq NameType /\ names' \in unsynced'
    BY <1>2 DEF IInv, Counted, NameType
  <2>5. /\ out' \in Reports /\ (run'.exchanged => run'.owned = {"stage"}) /\ touched' \in BOOLEAN
        /\ trees' \in [Trees -> TreeType] /\ litter' \in Nat
    BY <1>0, FaultAssumption DEF TypeOK, Reports, TreeType
  <2>. QED BY <1>0, <1>3, <2>3, <2>4, <2>5, Typed
<1>5. Owned' /\ Aimed' /\ Undisturbed'
  BY <1>0 DEF IInv, Owned, Aimed, Undisturbed, For, Rm, Early, Settled
<1>6. id \notin Trees
  BY NoneAssumption DEF Trees
<1>7. Located'
  <2>1. Expected' = Expected
    BY <1>0 DEF Expected
  <2>2. \A m, k \in Names : names'[m] = names'[k] /\ names'[m] \in Trees
                              => names[m] = names[k] /\ names[m] \in Trees
    BY <1>2, <1>6
  <2>3. \A t \in Trees : Nowhere(t) => Nowhere(t)'
    BY <1>2, <1>6 DEF Nowhere
  <2>4. /\ names'["temp"] = names["temp"] /\ names'["gone_temp"] = names["gone_temp"]
        /\ names'["gone_stage"] = names["gone_stage"]
        /\ names'["target"] = names["target"] \/ names'["target"] \notin Trees
        /\ names'["stage"] = names["stage"] \/ names'["stage"] \notin Trees
    BY <1>2, <1>6 DEF Places
  <2>5. run.pc = "rm_sync" => Expected \in Trees
    BY ExpectedIs DEF Rm, Trees
  <2>. QED BY <1>0, <2>1, <2>2, <2>3, <2>4, <2>5 DEF IInv, Located, Early, Nowhere, Trees
<1>8. Whole'
  <2>1. names'["target"] = names["target"] \/ names'["target"] \notin Trees
    BY <1>2, <1>6 DEF Places
  <2>. QED BY <1>0, <1>2, <2>1 DEF IInv, Whole, For, Rm, Early, Settled, Durable, TypeOK, Trees
<1>. QED BY <1>4, <1>5, <1>7, <1>8 DEF IInv

LEMMA TamperInv ==
    ASSUME IInv, Tamper
    PROVE  IInv'
<1>0. /\ TypeOK /\ UNCHANGED <<names, unsynced, run, out, litter>> /\ run' \in Run
      /\ touched' = TRUE /\ faults' \in 0 .. faults
  BY RunType, FaultType DEF IInv, Tamper
<1>1. /\ trees' \in [Trees -> TreeType]
      /\ \A id \in Trees : trees'[id].files = trees[id].files /\ trees'[id].synced = trees[id].synced
  BY <1>0 DEF Tamper, TypeOK, TreeType, Trees
<1>2. TypeOK' /\ Counted'
  <2>1. unsynced' \subseteq NameType /\ names' \in unsynced'
    BY <1>0 DEF IInv, Counted, NameType, TypeOK
  <2>2. ASSUME NEW ns \in unsynced' PROVE Foreign(ns) + litter' + faults' <= MaxFaults
    <3>1. Foreign(ns) + litter + faults <= MaxFaults
      BY <1>0 DEF IInv, Counted
    <3>. QED BY <1>0, <3>1, ForeignType, FaultAssumption DEF TypeOK
  <2>3. /\ out' \in Reports /\ (run'.exchanged => run'.owned = {"stage"}) /\ touched' \in BOOLEAN
        /\ litter' \in Nat
    BY <1>0, FaultAssumption DEF TypeOK, Reports
  <2>. QED BY <1>0, <1>1, <2>1, <2>2, <2>3, Typed
<1>3. Owned' /\ Aimed' /\ Undisturbed'
  BY <1>0 DEF IInv, Owned, Aimed, Undisturbed, For, Rm, Early, Settled
<1>4. Located'
  BY <1>0 DEF IInv, Located, Early, Nowhere, Expected
<1>5. Whole'
  BY <1>0, <1>1 DEF IInv, Whole, For, Rm, Early, Settled, Durable, Trees
<1>. QED BY <1>2, <1>3, <1>4, <1>5 DEF IInv

----------------------------------------------------------------------------
(* The theorems *)

LEMMA InitInv == Init => IInv
<1>. SUFFICES ASSUME Init PROVE IInv
  OBVIOUS
<1>0. /\ names \in NameType /\ unsynced = {names} /\ names["target"] = "old"
      /\ \A n \in Names \ {"target"} : names[n] = None
      /\ trees \in [Trees -> TreeType] /\ Durable(trees["old"]) /\ Names = Places
      /\ litter = 0 /\ touched = FALSE /\ faults = MaxFaults /\ out = "none"
  BY NamesAre DEF Init, NameType, Trees, Places, TreeType, Tree, Durable
<1>1. /\ run \in Run /\ run.pc = "idle" /\ run.owned = {} /\ ~run.exchanged /\ run.goal = "ok"
  BY IdleType DEF Init
<1>2. TypeOK
  <2>1. 0 \in 0 .. MaxFaults /\ MaxFaults \in 0 .. MaxFaults
    BY FaultAssumption
  <2>2. run \in [pc : Labels, kind : {"prepared", "archive"}, sound : BOOLEAN,
                 goal : Errors \cup {"ok", "uncertain"}, owned : SUBSET Private,
                 exchanged : BOOLEAN, name : Private,
                 why : {"before", "forward", "restored", "finish"}]
    BY <1>1 DEF Run, Kinds, Goals, Whys
  <2>. QED BY <1>0, <1>1, <2>1, <2>2 DEF TypeOK, NameType, TreeType
<1>3. Counted
  <2>1. Foreign(names) = 0
    BY <1>0, ForeignSum, NoneAssumption DEF One, Places
  <2>2. Foreign(names) + litter + faults <= MaxFaults
    BY <1>0, <2>1, FaultAssumption
  <2>. QED BY <1>0, <2>2 DEF Counted, NameType
<1>4. Owned /\ Aimed /\ Located /\ Undisturbed
  BY <1>1 DEF Owned, Aimed, Located, Undisturbed, For, Rm, Early, Settled
<1>5. Whole
  BY <1>0, <1>1 DEF Whole, For, Rm, Early, Settled, Trees
<1>. QED BY <1>2, <1>3, <1>4, <1>5 DEF IInv

LEMMA StutterInv ==
    ASSUME IInv, UNCHANGED vars
    PROVE  IInv'
<1>1. TypeOK'
  BY DEF IInv, TypeOK, vars
<1>2. Owned' /\ Aimed'
  BY DEF IInv, Owned, Aimed, For, vars
<1>3. Located' /\ Undisturbed'
  BY DEF IInv, Located, Undisturbed, For, Nowhere, Expected, vars
<1>4. Whole'
  BY DEF IInv, Whole, For, Durable, vars
<1>5. Counted'
  BY DEF IInv, Counted, vars, Foreign
<1>. QED BY <1>1, <1>2, <1>3, <1>4, <1>5 DEF IInv

LEMMA NextInv == IInv /\ [Next]_vars => IInv'
<1>. SUFFICES ASSUME IInv, [Next]_vars PROVE IInv'
  OBVIOUS
<1>1. CASE \E kind \in Kinds : Begin(kind)
  BY <1>1, BeginInv
<1>2. CASE Step
  BY <1>2, FetchInv, VerifyInv, LockInv, WritebackInv, MakeStageInv, CopyInv, SyncStageInv,
     MakeTempInv, ExtractInv, MoveInv, MovedInv, GuardInv, ExchangeInv, FsyncInv, CleanOldInv,
     ReverseInv, ExchangeBackInv, CheckRestoredInv, CheckTreeInv, TakeTreeInv, RemoveFilesInv,
     RemoveDoneInv, FinishRunInv DEF Step
<1>3. CASE CallFails \/ Crash \/ PowerFails \/ Tamper
  BY <1>3, CallFailsInv, CrashInv, PowerFailsInv, TamperInv
<1>4. CASE \E n \in {"target", "stage"} : Edit(n)
  BY <1>4, EditInv
<1>5. CASE UNCHANGED vars
  BY <1>5, StutterInv
<1>. QED BY <1>1, <1>2, <1>3, <1>4, <1>5 DEF Next, Kinds

\* The inductive invariant of an upgrade.
THEOREM UpgradeInvariance == Spec => []IInv
<1>. QED BY InitInv, NextInv, PTL DEF Spec

\* TypeOK holds in every state of an upgrade.
THEOREM UpgradeTypes == Spec => []TypeOK
<1>1. IInv => TypeOK
  BY DEF IInv
<1>. QED BY <1>1, UpgradeInvariance, PTL

\* TargetWhole: the installation is a complete release at every moment, also
\* after a power failure at any point of an upgrade.
THEOREM InstallationWhole == Spec => []TargetWhole
<1>1. IInv => TargetWhole
  BY DEF IInv, TypeOK, Whole, Durable, TargetWhole
<1>. QED BY <1>1, UpgradeInvariance, PTL

----------------------------------------------------------------------------
(* Reports *)

\* A command comes to its report only when nothing is left to remove.
LEMMA Ending ==
    ASSUME IInv, Next, Ends
    PROVE  /\ FinishRun /\ run.pc = "finish" /\ out' = run.goal
           /\ UNCHANGED <<names, unsynced, trees, history>>
           /\ "temp" \notin run.owned /\ ("stage" \in run.owned => run.exchanged)
<1>0. TypeOK /\ run \in Run /\ run.pc \notin Early /\ run'.pc = "idle" /\ out' # "crashed"
  BY RunType DEF IInv, Ends, Early
<1>a. ASSUME NEW ok \in BOOLEAN, Removed(ok) PROVE FALSE
  BY <1>0, <1>a, Removal DEF Run, Whys
<1>b. ASSUME NEW pc \in Labels, pc # "idle", Goto(pc) PROVE FALSE
  BY <1>0, <1>b, Going
<1>c. ASSUME NEW r \in Goals, Finish(r) PROVE FALSE
  BY <1>0, <1>c, Finishing DEF Finish
<1>d. ASSUME NEW n \in Private, NEW why \in Whys, Remove(n, why) PROVE FALSE
  BY <1>0, <1>d, StartingRemoval
<1>e. run' # run /\ run.pc # "idle"
  BY <1>0 DEF Early
<1>f. ASSUME Raise PROVE FALSE
  BY <1>c, <1>f DEF Raise, Goals, Errors
<1>1. CASE \E kind \in Kinds : Begin(kind)
  BY <1>0, <1>1 DEF Begin, Early
<1>2. CASE Verify \/ Lock \/ Writeback \/ \E sound \in BOOLEAN : Fetch(sound)
  BY <1>0, <1>2, <1>e DEF Verify, Lock, Writeback, Fetch, Early
<1>3. CASE MakeStage
  BY <1>0, <1>3, <1>f DEF MakeStage, Run
<1>4. CASE Copy
  BY <1>b, <1>4, <1>e, <1>f DEF Copy, Labels
<1>5. CASE SyncStage
  BY <1>b, <1>c, <1>5 DEF SyncStage, Labels, Goals, Errors
<1>6. CASE MakeTemp
  BY <1>0, <1>6 DEF MakeTemp, Run
<1>7. CASE Extract
  BY <1>b, <1>c, <1>7 DEF Extract, Labels, Goals, Errors
<1>8. CASE Move
  BY <1>0, <1>8, <1>f DEF Move, Run
<1>9. CASE Moved
  BY <1>c, <1>d, <1>9 DEF Moved, Goals, Errors, Private, Whys
<1>10. CASE Guard
  BY <1>b, <1>f, <1>10 DEF Guard, Labels
<1>11. CASE Exchange
  BY <1>0, <1>11, <1>f DEF Exchange, Run
<1>12. CASE Fsync
  BY <1>b, <1>12 DEF Fsync, Labels
<1>13. CASE CleanOld
  BY <1>c, <1>d, <1>13 DEF CleanOld, Goals, Private, Whys
<1>14. CASE Reverse \/ ExchangeBack
  BY <1>b, <1>c, <1>14 DEF Reverse, ExchangeBack, Goals, Labels
<1>15. CASE CheckRestored
  BY <1>c, <1>d, <1>15 DEF CheckRestored, Goals, Private, Whys
<1>16. CASE CheckTree \/ TakeTree
  BY <1>a, <1>b, <1>16 DEF CheckTree, TakeTree, Labels
<1>17. CASE RemoveFiles
  BY <1>a, <1>b, <1>e, <1>17 DEF RemoveFiles, Labels
<1>18. CASE RemoveDone
  <2>1. Removed(Validate /\ names[run.name] = None) /\ (Validate /\ names[run.name] = None) \in BOOLEAN
    BY <1>18 DEF RemoveDone
  <2>. QED BY <1>a, <2>1
<1>19. CASE FinishRun
  <2>1. "temp" \notin run.owned /\ ~("stage" \in run.owned /\ ~run.exchanged)
    BY <1>d, <1>19 DEF FinishRun, Private, Whys
  <2>. QED BY <1>19, <2>1 DEF FinishRun, Exit
<1>20. CASE CallFails
  <2>1. run.pc \notin {"fetch", "lock"}
    BY <1>0 DEF Early
  <2>. QED BY <1>a, <1>c, <1>f, <1>20, <2>1 DEF CallFails, Goals
<1>21. CASE Crash
  BY <1>0, <1>21 DEF Crash, Exit
<1>22. CASE PowerFails
  BY <1>0, <1>e, <1>22 DEF PowerFails, Exit
<1>23. CASE Tamper \/ \E n \in {"target", "stage"} : Edit(n)
  BY <1>e, <1>23 DEF Tamper, Edit
<1>. QED
  BY <1>1, <1>2, <1>3, <1>4, <1>5, <1>6, <1>7, <1>8, <1>9, <1>10, <1>11, <1>12, <1>13, <1>14,
     <1>15, <1>16, <1>17, <1>18, <1>19, <1>20, <1>21, <1>22, <1>23 DEF Next, Step, Kinds

\* ReportsTrue: a success has the new release on the disk and nothing of the
\* old one; every other certain report leaves the old release alone.
THEOREM UpgradeReports == Spec => ReportsTrue
<1>. DEFINE Report ==
       Ends /\ out' # "uncertain" =>
         /\ ~Residue(names')
         /\ out' = "ok" => run.sound /\ names'["target"] # "old"
         /\ out' # "ok" => names'["target"] # "new"
         /\ ~touched => unsynced' = {names'} /\ names'["target"] = IF out' = "ok" THEN "new" ELSE "old"
<1>1. IInv /\ Next => Report
  <2>. SUFFICES ASSUME IInv, Next, Ends, out' # "uncertain"
                PROVE  /\ ~Residue(names')
                       /\ out' = "ok" => run.sound /\ names'["target"] # "old"
                       /\ out' # "ok" => names'["target"] # "new"
                       /\ ~touched => /\ unsynced' = {names'}
                                      /\ names'["target"] = IF out' = "ok" THEN "new" ELSE "old"
    OBVIOUS
  <2>0. /\ run.pc = "finish" /\ run.goal # "uncertain" /\ out' = run.goal
        /\ "temp" \notin run.owned /\ ("stage" \in run.owned => run.exchanged)
        /\ names' = names /\ unsynced' = unsynced
    BY Ending
  <2>1. /\ Nowhere("temp") /\ Names = Places
        /\ run.goal = "ok" => run.exchanged
    BY <2>0, NamesAre DEF IInv, Located, Early, Aimed, For, Rm, TypeOK, Private
  <2>2. CASE run.exchanged
    <3>1. run.goal \in {"ok", "restored"} /\ run.sound
      BY <2>0, <2>2 DEF IInv, Aimed
    <3>2. CASE run.goal = "ok"
      <4>1. Nowhere("old") /\ "new" \notin {names["stage"], names["gone_stage"]}
        BY <2>0, <2>2, <3>2 DEF IInv, Located, Early
      <4>2. names["temp"] # "new" /\ names["gone_temp"] # "new"
        BY <2>0, NoneAssumption DEF IInv, Located, Early
      <4>3. ~Residue(names)
        BY <2>1, <4>1, <4>2 DEF Residue, Nowhere, Places, Trees
      <4>4. ~touched => unsynced = {names} /\ names["target"] = "new"
        BY <2>0, <2>2, <3>2 DEF IInv, Undisturbed
      <4>. QED BY <2>0, <2>1, <3>1, <3>2, <4>1, <4>3, <4>4 DEF Nowhere, Places
    <3>3. CASE run.goal = "restored"
      <4>1. Nowhere("new") /\ "old" \notin {names["stage"], names["gone_stage"]}
        BY <2>0, <2>2, <3>3 DEF IInv, Located, Early
      <4>2. names["temp"] # "old" /\ names["gone_temp"] # "old"
        BY <2>0, NoneAssumption DEF IInv, Located, Early
      <4>3. ~Residue(names)
        BY <2>1, <4>1, <4>2 DEF Residue, Nowhere, Places, Trees
      <4>4. ~touched => unsynced = {names} /\ names["target"] = "old"
        BY <2>0, <2>2, <3>3 DEF IInv, Undisturbed
      <4>. QED BY <2>0, <2>1, <3>3, <4>1, <4>3, <4>4 DEF Nowhere, Places
    <3>. QED BY <3>1, <3>2, <3>3
  <2>3. CASE ~run.exchanged
    <3>1. run.goal # "ok" /\ run.owned = {}
      BY <2>0, <2>1, <2>3 DEF IInv, TypeOK, Private
    <3>2. Nowhere("new") /\ "old" \notin {names["stage"], names["gone_stage"]}
      BY <2>0, <2>3, <3>1 DEF IInv, Located, Early
    <3>3. names["temp"] # "old" /\ names["gone_temp"] # "old"
      BY <2>0, NoneAssumption DEF IInv, Located, Early
    <3>4. ~Residue(names)
      BY <2>1, <3>2, <3>3 DEF Residue, Nowhere, Places, Trees
    <3>5. ~touched => unsynced = {names} /\ names["target"] = "old"
      BY <2>0, <2>3, <3>1 DEF IInv, Undisturbed, Early
    <3>. QED BY <2>0, <2>1, <3>1, <3>2, <3>4, <3>5 DEF Nowhere, Places
  <2>. QED BY <2>2, <2>3
<1>2. UNCHANGED vars => Report
  BY DEF Ends, vars
<1>3. IInv /\ [Next]_vars => [Report]_vars
  BY <1>1, <1>2
<1>4. [][Report]_vars <=> ReportsTrue
  BY PTL DEF ReportsTrue
<1>. HIDE DEF Report
<1>. QED BY <1>3, <1>4, UpgradeInvariance, PTL DEF Spec

----------------------------------------------------------------------------
(* Foreign trees are kept *)

Tally(ns, l) == Foreign(ns) + l

\* A rename of a name that is not foreign keeps the foreign trees.
LEMMA Replacing ==
    ASSUME TypeOK, NEW n \in Names, NEW id, names[n] # "foreign",
           names' = [names EXCEPT ![n] = id], litter' = litter
    PROVE  Tally(names', litter') >= Tally(names, litter)
<1>1. /\ n \in Places /\ names'[n] = id /\ \A m \in Places \ {n} : names'[m] = names[m]
  BY NamesAre DEF TypeOK
<1>2. Foreign(names') >= Foreign(names)
  <2>1. \A m \in Places : One(names'[m]) >= One(names[m])
    BY <1>1 DEF One
  <2>2. \A x : One(x) \in Nat
    BY DEF One
  <2>3. \A m \in Places : One(names'[m]) \in Nat /\ One(names[m]) \in Nat
    BY <2>2
  <2>. DEFINE A(m) == One(names[m])
              B(m) == One(names'[m])
  <2>4. /\ B("target") >= A("target") /\ B("stage") >= A("stage") /\ B("temp") >= A("temp")
        /\ B("gone_stage") >= A("gone_stage") /\ B("gone_temp") >= A("gone_temp")
        /\ \A m \in Places : A(m) \in Nat /\ B(m) \in Nat
    BY <2>1, <2>3 DEF Places
  <2>5. /\ Foreign(names) = A("target") + A("stage") + A("temp") + A("gone_stage") + A("gone_temp")
        /\ Foreign(names') = B("target") + B("stage") + B("temp") + B("gone_stage") + B("gone_temp")
    BY ForeignSum
  <2>. HIDE DEF A, B
  <2>. QED BY <2>4, <2>5 DEF Places
<1>3. litter \in Nat /\ Foreign(names) \in Nat /\ Foreign(names') \in Nat
  BY ForeignType, FaultAssumption DEF TypeOK
<1>. QED BY <1>2, <1>3 DEF Tally

LEMMA LockForeign ==
    ASSUME IInv, Lock
    PROVE  Tally(names', litter') + (IF names["target"] = "foreign" THEN 1 ELSE 0)
               = Tally(names, litter)
<1>0. TypeOK /\ Foreign(names) \in Nat /\ litter \in Nat
  BY ForeignType, FaultAssumption DEF IInv, TypeOK
<1>1. names'["target"] # "foreign" /\ \A n \in Names \ {"target"} : names'[n] = None
  BY NamesAre, NoneAssumption DEF Lock, Fresh, Places
<1>2. Foreign(names') = 0
  BY <1>1, NamesAre, ForeignSum, NoneAssumption DEF One, Places
<1>3. CASE names["target"] = "foreign"
  <2>1. litter' = litter + Foreign(names) - 1 /\ run.pc = "lock"
    BY <1>3 DEF Lock
  <2>. QED BY <1>0, <1>2, <1>3, <2>1 DEF Tally
<1>4. CASE names["target"] # "foreign"
  <2>1. litter' = litter + Foreign(names) - 0
    BY <1>4 DEF Lock
  <2>. QED BY <1>0, <1>2, <1>4, <2>1 DEF Tally
<1>. QED BY <1>3, <1>4

LEMMA ForeignStep ==
    ASSUME IInv, Next, run' # run, out' # "crashed", ~Lock
    PROVE  Tally(names', litter') >= Tally(names, litter)
<1>0. TypeOK /\ Foreign(names) \in Nat /\ litter \in Nat
  BY ForeignType, FaultAssumption DEF IInv, TypeOK
<1>a. ASSUME UNCHANGED <<names, litter>> PROVE Tally(names', litter') >= Tally(names, litter)
  BY <1>0, <1>a DEF Tally
<1>b. ASSUME TypeOK, Rename(Swapped), litter' = litter PROVE Tally(names', litter') >= Tally(names, litter)
  <2>1. Foreign(names') = Foreign(names)
    BY <1>b, Swapping
  <2>. QED BY <1>0, <1>b, <2>1 DEF Tally
<1>1. CASE \E kind \in Kinds : Begin(kind)
  BY <1>1, <1>a DEF Begin, history
<1>2. CASE Verify \/ Copy \/ SyncStage \/ Extract \/ Moved \/ Guard
  BY <1>2, <1>a DEF Verify, Copy, SyncStage, Extract, Moved, Guard, history
<1>3. CASE Fsync \/ CleanOld \/ Reverse \/ CheckRestored \/ CheckTree \/ RemoveDone \/ FinishRun
  BY <1>3, <1>a DEF Fsync, CleanOld, Reverse, CheckRestored, CheckTree, RemoveDone, FinishRun, history
<1>4. CASE \E sound \in BOOLEAN : Fetch(sound)
  BY <1>4, <1>a DEF Fetch, history
<1>6. CASE MakeStage \/ Move
  <2>1. UNCHANGED names \/ ("stage" \in Names /\ names["stage"] # "foreign")
    BY <1>6, NamesAre, NoneAssumption DEF MakeStage, Move, Places
  <2>2. litter' = litter /\ (UNCHANGED names \/ names' = [names EXCEPT !["stage"] = "new"])
    BY <1>6 DEF MakeStage, Move, Rename, history
  <2>. QED BY <1>0, <1>a, <2>1, <2>2, Replacing
<1>7. CASE MakeTemp
  <2>1. "temp" \in Names /\ names["temp"] # "foreign"
    BY <1>7, NamesAre, NoneAssumption DEF MakeTemp, IInv, Located, Early, Places
  <2>. QED BY <1>0, <1>7, <2>1, Replacing DEF MakeTemp, Rename, history
<1>8. CASE Exchange
  BY <1>0, <1>8, <1>a, <1>b DEF Exchange, history
<1>9. CASE ExchangeBack
  BY <1>0, <1>9, <1>a, <1>b DEF ExchangeBack, history
<1>10. CASE TakeTree
  <2>1. CASE UNCHANGED names
    BY <1>10, <1>a, <2>1 DEF TakeTree, history
  <2>2. CASE Rename([names EXCEPT ![run.name] = None, ![Gone(run.name)] = names[run.name]])
    <3>1. Foreign(names') = Foreign(names)
      BY <1>10, <2>2, Taking DEF TakeTree
    <3>. QED BY <1>0, <1>10, <3>1 DEF Tally, TakeTree, history
  <2>. QED BY <1>10, <2>1, <2>2 DEF TakeTree
<1>11. CASE RemoveFiles
  <2>1. CASE UNCHANGED names
    BY <1>11, <1>a, <2>1 DEF RemoveFiles, history
  <2>2. CASE Taken /\ Rename([names EXCEPT ![Gone(run.name)] = None])
    <3>1. Gone(run.name) \in Names /\ names[Gone(run.name)] # "foreign"
      BY <1>0, <1>11, <2>2, NamesAre, NotInstalled
         DEF Taken, Gone, RemoveFiles, Places, Trees
    <3>. QED BY <1>0, <1>11, <2>2, <3>1, Replacing DEF Rename, RemoveFiles, history
  <2>. QED BY <1>11, <2>1, <2>2 DEF RemoveFiles
<1>12. CASE CallFails
  BY <1>12, <1>a DEF CallFails
<1>13. CASE Crash
  BY <1>13 DEF Crash, Exit
<1>14. CASE PowerFails
  BY <1>14 DEF PowerFails, Exit
<1>15. CASE Writeback \/ Tamper \/ \E n \in {"target", "stage"} : Edit(n)
  BY <1>15 DEF Writeback, Tamper, Edit
<1>. QED
  BY <1>1, <1>2, <1>3, <1>4, <1>6, <1>7, <1>8, <1>9, <1>10, <1>11, <1>12, <1>13, <1>14, <1>15
     DEF Next, Step, Kinds

\* ForeignKept: no step of a command removes the tree of an editor.
THEOREM UpgradeForeign == Spec => ForeignKept
<1>. DEFINE Keeps ==
       run' # run /\ out' # "crashed" =>
         Foreign(names)' + litter' + (IF run.pc = "lock" /\ names["target"] = "foreign" THEN 1 ELSE 0)
            >= Foreign(names) + litter
<1>1. IInv /\ [Next]_vars => [Keeps]_vars
  <2>. SUFFICES ASSUME IInv, Next, run' # run, out' # "crashed" PROVE Keeps
    BY DEF vars
  <2>1. /\ Tally(names', litter') = Foreign(names)' + litter'
        /\ Tally(names, litter) = Foreign(names) + litter
        /\ Tally(names', litter') \in Nat /\ Tally(names, litter) \in Nat
    <3>1. IInv'
      BY NextInv
    <3>2. litter \in Nat /\ litter' \in Nat
      BY <3>1, FaultAssumption DEF IInv, TypeOK
    <3>3. Foreign(names) \in Nat /\ Foreign(names') \in Nat
      BY ForeignType
    <3>. QED BY <3>2, <3>3 DEF Tally
  <2>2. CASE Lock
    <3>1. run.pc = "lock"
      BY <2>2 DEF Lock
    <3>. QED BY <2>1, <2>2, <3>1, LockForeign
  <2>3. CASE ~Lock
    BY <2>1, <2>3, ForeignStep
  <2>. QED BY <2>2, <2>3
<1>2. [][Keeps]_vars <=> ForeignKept
  BY PTL DEF ForeignKept
<1>. HIDE DEF Keeps
<1>. QED BY <1>1, <1>2, UpgradeInvariance, PTL DEF Spec

=============================================================================
