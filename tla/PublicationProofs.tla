------------------------- MODULE PublicationProofs -------------------------
(***************************************************************************)
(* What Publication guarantees for every set of changes, threads and       *)
(* stamps and every number of faults.  A first inductive invariant, IInv,  *)
(* follows a change from its commit to the remote; a second one, LogInv,   *)
(* adds what can still land on main, from which follow what a report may   *)
(* say and the refinement of KnowledgeLog.                                 *)
(***************************************************************************)
EXTENDS Publication, TLAPS

----------------------------------------------------------------------------
(* Lemmas about commits *)

\* What "is an ancestor of" says of single entries.
LEMMA PrefixEntries ==
    ASSUME NEW c \in Commit, NEW d \in Commit
    PROVE  IsPrefix(c, d) <=> /\ Len(c) <= Len(d)
                              /\ \A i \in 1 .. Len(c) : c[i] = d[i]
<1>1. Len(c) \in Nat /\ Len(d) \in Nat
  BY DEF Commit
<1>2. SubSeq(c, 1, Len(c)) = [i \in 1 .. Len(c) |-> c[i]]
  BY <1>1 DEF Commit
<1>3. ASSUME Len(c) <= Len(d)
      PROVE  SubSeq(d, 1, Len(c)) = [i \in 1 .. Len(c) |-> d[i]]
  BY <1>1, <1>3 DEF Commit
<1>4. ASSUME IsPrefix(c, d)
      PROVE  Len(c) <= Len(d) /\ \A i \in 1 .. Len(c) : c[i] = d[i]
  BY <1>1, <1>2, <1>3, <1>4 DEF IsPrefix
<1>5. ASSUME Len(c) <= Len(d), \A i \in 1 .. Len(c) : c[i] = d[i]
      PROVE  IsPrefix(c, d)
  BY <1>1, <1>2, <1>3, <1>5 DEF IsPrefix
<1>. QED BY <1>4, <1>5

LEMMA PrefixReflexive == \A c \in Commit : IsPrefix(c, c)
BY PrefixEntries DEF Commit

LEMMA PrefixTransitive ==
    \A c, d, e \in Commit : IsPrefix(c, d) /\ IsPrefix(d, e) => IsPrefix(c, e)
<1>. SUFFICES ASSUME NEW c \in Commit, NEW d \in Commit, NEW e \in Commit,
                     IsPrefix(c, d), IsPrefix(d, e)
              PROVE  IsPrefix(c, e)
  OBVIOUS
<1>1. Len(c) \in Nat /\ Len(d) \in Nat /\ Len(e) \in Nat
  BY DEF Commit
<1>2. Len(c) <= Len(d) /\ \A i \in 1 .. Len(c) : c[i] = d[i]
  BY PrefixEntries
<1>3. Len(d) <= Len(e) /\ \A i \in 1 .. Len(d) : d[i] = e[i]
  BY PrefixEntries
<1>4. Len(c) <= Len(e) /\ \A i \in 1 .. Len(c) : c[i] = e[i]
  BY <1>1, <1>2, <1>3
<1>. QED BY <1>4, PrefixEntries

\* An ancestor holds no change its descendant lacks.
LEMMA PrefixChanges ==
    \A c, d \in Commit : IsPrefix(c, d) => Changes(c) \subseteq Changes(d)
<1>. SUFFICES ASSUME NEW c \in Commit, NEW d \in Commit, IsPrefix(c, d),
                     NEW i \in DOMAIN c
              PROVE  c[i].change \in Changes(d)
  BY DEF Changes
<1>1. Len(c) \in Nat /\ Len(d) \in Nat /\ DOMAIN c = 1 .. Len(c) /\ DOMAIN d = 1 .. Len(d)
  BY DEF Commit
<1>2. Len(c) <= Len(d) /\ \A j \in 1 .. Len(c) : c[j] = d[j]
  BY PrefixEntries
<1>. QED BY <1>1, <1>2 DEF Changes

\* A commit on top of c.
LEMMA AppendedCommit ==
    ASSUME NEW c \in Commit, NEW e \in Entry
    PROVE  /\ Append(c, e) \in Commit
           /\ Append(c, e) # <<>>
           /\ IsPrefix(c, Append(c, e))
           /\ Front(Append(c, e)) = c
           /\ Last(Append(c, e)) = e
           /\ Changes(Append(c, e)) = Changes(c) \cup {e.change}
<1>1. PICK d : d = Append(c, e)
  OBVIOUS
<1>2. /\ d \in Commit /\ Len(d) = Len(c) + 1 /\ Len(c) \in Nat
      /\ \A i \in 1 .. Len(c) : d[i] = c[i]
      /\ d[Len(c) + 1] = e
      /\ DOMAIN c = 1 .. Len(c) /\ DOMAIN d = 1 .. Len(c) + 1
  BY <1>1 DEF Commit
<1>3. d # <<>>
  BY <1>2
<1>4. IsPrefix(c, d)
  <2>1. Len(c) <= Len(d) /\ \A i \in 1 .. Len(c) : c[i] = d[i]
    BY <1>2
  <2>. QED BY <1>2, <2>1, PrefixEntries
<1>5. Front(d) = c
  <2>1. Front(d) = [i \in 1 .. Len(c) |-> d[i]]
    BY <1>2 DEF Front, Commit
  <2>2. c = [i \in 1 .. Len(c) |-> c[i]]
    BY DEF Commit
  <2>. QED BY <1>2, <2>1, <2>2
<1>6. Last(d) = e
  BY <1>2 DEF Last
<1>7. Changes(d) = Changes(c) \cup {e.change}
  <2>1. ASSUME NEW x
        PROVE  x \in Changes(d) <=> x \in Changes(c) \cup {e.change}
    <3>1. x \in Changes(d) <=> \E i \in 1 .. Len(c) + 1 : d[i].change = x
      BY <1>2 DEF Changes
    <3>2. x \in Changes(c) <=> \E i \in 1 .. Len(c) : c[i].change = x
      BY <1>2 DEF Changes
    <3>3. ASSUME NEW i \in 1 .. Len(c) + 1 PROVE i \in 1 .. Len(c) \/ i = Len(c) + 1
      BY <1>2
    <3>4. \A i \in 1 .. Len(c) : i \in 1 .. Len(c) + 1
      BY <1>2
    <3>5. Len(c) + 1 \in 1 .. Len(c) + 1
      BY <1>2
    <3>. QED BY <1>2, <3>1, <3>2, <3>3, <3>4, <3>5
  <2>. QED BY <2>1
<1>. QED BY <1>1, <1>2, <1>3, <1>4, <1>5, <1>6, <1>7

LEMMA EmptyCommit ==
    <<>> \in Commit /\ Changes(<<>>) = {} /\ \A i \in DOMAIN <<>> : FALSE
BY DEF Commit, Changes

\* A commit with a parent.
LEMMA SplitCommit ==
    ASSUME NEW c \in Commit, c # <<>>
    PROVE  /\ Front(c) \in Commit
           /\ Last(c) \in Entry
           /\ c = Append(Front(c), Last(c))
<1>1. PICK n \in Nat : n = Len(c) /\ n # 0 /\ DOMAIN c = 1 .. n
  BY DEF Commit
<1>2. n \in 1 .. n /\ n - 1 \in Nat /\ \A i \in 1 .. n : i \in 1 .. n - 1 \/ i = n
  BY <1>1
<1>3. Last(c) \in Entry
  BY <1>1, <1>2 DEF Commit, Last
<1>4. PICK f : f = Front(c)
  OBVIOUS
<1>5. f \in Commit /\ Len(f) = n - 1 /\ \A i \in 1 .. n - 1 : f[i] = c[i]
  BY <1>1, <1>2, <1>4 DEF Front, Commit
<1>6. PICK d : d = Append(f, Last(c))
  OBVIOUS
<1>7. d \in Commit /\ Len(d) = n
  BY <1>2, <1>3, <1>5, <1>6 DEF Commit
<1>8. (\A i \in 1 .. n - 1 : d[i] = c[i]) /\ d[n] = Last(c)
  BY <1>2, <1>3, <1>5, <1>6 DEF Commit
<1>9. \A i \in 1 .. n : d[i] = c[i]
  BY <1>1, <1>2, <1>8 DEF Last
<1>10. c = [i \in 1 .. n |-> c[i]] /\ d = [i \in 1 .. n |-> d[i]]
  BY <1>1, <1>7 DEF Commit
<1>. QED BY <1>3, <1>4, <1>5, <1>6, <1>9, <1>10

\* The newest entry of a commit is one of its changes.
LEMMA NewestChange == \A c \in Commit : c # <<>> => Last(c).change \in Changes(c)
<1>. SUFFICES ASSUME NEW c \in Commit, c # <<>> PROVE Last(c).change \in Changes(c)
  OBVIOUS
<1>1. Front(c) \in Commit /\ Last(c) \in Entry /\ c = Append(Front(c), Last(c))
  BY SplitCommit
<1>2. Changes(c) = Changes(Front(c)) \cup {Last(c).change}
  BY <1>1, AppendedCommit
<1>. QED BY <1>2

LEMMA ReplayedCommit ==
    ASSUME NEW onto \in Commit, NEW from \in Commit, from # <<>>, NEW fresh \in BOOLEAN
    PROVE  /\ Replayed(onto, from, fresh) \in Commit
           /\ Replayed(onto, from, fresh) # <<>>
           /\ Front(Replayed(onto, from, fresh)) = onto
           /\ Last(Replayed(onto, from, fresh)) =
                  [change |-> Last(from).change, todo |-> fresh]
           /\ Last(from).change \in Changes(Replayed(onto, from, fresh))
<1>1. [change |-> Last(from).change, todo |-> fresh] \in Entry
  BY SplitCommit DEF Entry
<1>. QED BY <1>1, AppendedCommit DEF Replayed

\* Amending changes nothing but the flag of the newest entry.
LEMMA AmendedCommit ==
    ASSUME NEW c \in Commit, c # <<>>
    PROVE  /\ Amended(c) \in Commit
           /\ Amended(c) # <<>>
           /\ Front(Amended(c)) = Front(c)
           /\ Last(Amended(c)) = [change |-> Last(c).change, todo |-> TRUE]
           /\ Changes(Amended(c)) = Changes(c)
<1>1. Front(c) \in Commit /\ Last(c) \in Entry /\ c = Append(Front(c), Last(c))
  BY SplitCommit
<1>2. [change |-> Last(c).change, todo |-> TRUE] \in Entry
  BY <1>1 DEF Entry
<1>3. Changes(c) = Changes(Front(c)) \cup {Last(c).change}
  BY <1>1, AppendedCommit
<1>. QED BY <1>1, <1>2, <1>3, AppendedCommit DEF Amended, Replayed

AllFresh(c) == \A i \in DOMAIN c : c[i].todo

\* An ancestor of a commit that agrees with its TODO.md all along does too.
LEMMA FreshPrefix ==
    \A c, d \in Commit : IsPrefix(c, d) /\ AllFresh(d) => AllFresh(c) /\ Fresh(c)
<1>. SUFFICES ASSUME NEW c \in Commit, NEW d \in Commit, IsPrefix(c, d), AllFresh(d)
              PROVE  AllFresh(c) /\ Fresh(c)
  OBVIOUS
<1>1. Len(c) \in Nat /\ Len(d) \in Nat /\ DOMAIN c = 1 .. Len(c) /\ DOMAIN d = 1 .. Len(d)
  BY DEF Commit
<1>2. Len(c) <= Len(d) /\ \A i \in 1 .. Len(c) : c[i] = d[i]
  BY PrefixEntries
<1>3. AllFresh(c)
  BY <1>1, <1>2 DEF AllFresh
<1>4. c # <<>> => Len(c) \in DOMAIN c
  BY <1>1 DEF Commit
<1>. QED BY <1>3, <1>4 DEF Fresh, Last, AllFresh

LEMMA FreshAppend ==
    ASSUME NEW c \in Commit, AllFresh(c), NEW e \in Entry, e.todo
    PROVE  AllFresh(Append(c, e))
<1>1. PICK d : d = Append(c, e)
  OBVIOUS
<1>2. /\ Len(c) \in Nat /\ DOMAIN d = 1 .. Len(c) + 1 /\ DOMAIN c = 1 .. Len(c)
      /\ \A i \in 1 .. Len(c) : d[i] = c[i]
      /\ d[Len(c) + 1] = e
  BY <1>1 DEF Commit
<1>3. ASSUME NEW i \in 1 .. Len(c) + 1 PROVE d[i].todo
  <2>1. i \in 1 .. Len(c) \/ i = Len(c) + 1
    BY <1>2
  <2>. QED BY <1>2, <2>1 DEF AllFresh
<1>. QED BY <1>1, <1>2, <1>3 DEF AllFresh

LEMMA FreshOnTop ==
    ASSUME NEW c \in Commit, c # <<>>, AllFresh(Front(c)), Fresh(c)
    PROVE  AllFresh(c)
BY SplitCommit, FreshAppend DEF Fresh

----------------------------------------------------------------------------
(* The inductive invariant *)

\* Where a run can be, given what is retained of the publication.
Staged ==
    /\ run.pc # "idle" => run.thread \in Threads
    /\ run.pc \notin {"idle", "start", "create"} => st # None
    /\ run.pc \in {"start", "create"} => st = None /\ attached
    /\ run.pc \in {"continue", "abort"} => rb # None
    /\ run.pc \notin {"idle", "continue", "abort"} => rb = None
    /\ rb # None => st # None
    /\ run.pc \in {"push", "refetch"} => st.races < RaceLimit
    /\ run.pc \in {"rebase", "continue", "finalize", "clear", "count"} /\ run.count
           => st.races < RaceLimit
    /\ run.pc = "count" => run.count
    /\ st # None /\ st.pres # "none" => st.branch \in Branch
    /\ run.pc \in {"preserve", "query", "prove", "cleanup_preserved"} => st.pres # "none"
    /\ st # None /\ st.pres # "none"
           => run.pc \in {"idle", "preserve", "query", "prove", "cleanup_preserved"}
    /\ st # None /\ st.pres = "proven"
           => run.pc \in {"idle", "query", "cleanup_preserved"}

\* origin/main never runs ahead of main, and what is on the remote is durable.
Following ==
    /\ IsPrefix(tracking, origin)
    /\ Changes(origin) \subseteq durable
    /\ \A b \in Branch : side[b] # None => Own \cap Changes(side[b]) \subseteq durable

\* HEAD and main, and what a rebase in progress has put aside.
CheckedOut ==
    /\ attached => head = main
    /\ rb # None => /\ ~attached
                    /\ rb.attached => rb.from = main
                    /\ rb.onto = head
                    /\ IsPrefix(head, tracking)

\* c holds x, and nothing but x that t lacks.
Holds(c, t, x) ==
    /\ x \in Changes(c)
    /\ IsPrefix(c, t) \/ (c # <<>> /\ Last(c).change = x /\ IsPrefix(Front(c), t))

Carries(c) == Holds(c, tracking, Subject)

\* What a run can publish.
Carrying ==
    /\ run.pc = "create" => /\ head # <<>> /\ Last(head).change \in Own
                            /\ IsPrefix(Front(head), tracking)
    /\ st # None => /\ st.original # <<>> /\ Subject \in Own
                    /\ Carries(main)
                    /\ rb = None => Carries(head)
                    /\ rb # None => Carries(rb.from) /\ rb.from # <<>>
                                    /\ Last(rb.from).change = Subject

\* The steps a run reaches only with its change on the remote.
Landed ==
    /\ run.pc \in {"attach", "switch", "cleanup", "cleanup_exhausted", "prove",
                   "cleanup_preserved"} => Subject \in durable
    /\ st # None /\ st.pres = "proven" => Subject \in durable

\* What is on main, may land on it, or is about to be pushed to it agrees with
\* its own TODO.md.
Agreeing ==
    /\ AllFresh(origin)
    /\ \A f \in flight : f.ref = MainRef => AllFresh(f.commit)
    /\ run.pc \in {"clear", "count", "attempt", "push"} => Fresh(head)

Committed == Own \ (unwritten \cup {work})

\* Where a change that is not yet on the remote is.
Accounted ==
    \A x \in Committed \ durable :
        IF st # None THEN x = Subject
        ELSE IF run.pc = "create" THEN x = Last(head).change
        ELSE x \in Changes(main)

IInv ==
    /\ TypeOK /\ Staged /\ Following /\ CheckedOut /\ Carrying
    /\ Landed /\ Agreeing /\ Accounted

----------------------------------------------------------------------------
(* Lemmas about a step of a run *)

\* Where a run stands after Goto and Exit.
LEMMA Going ==
    ASSUME run \in Runs, out \in Outs, NEW pc \in Labels, Goto(pc)
    PROVE  /\ run' \in Runs /\ out' \in Outs /\ out' = out
           /\ run'.pc = pc /\ run'.count = run.count /\ run'.then = run.then
           /\ run'.thread = run.thread
BY DEF Goto, Runs

LEMMA IdleRun == Idle \in Runs /\ Idle.pc = "idle" /\ Idle.count = FALSE /\ Idle.then = "attempt"
BY EmptyCommit DEF Idle, Runs, Labels

\* The subject of a publication is a change of the owner.
LEMMA SubjectTyped == IInv => Subject \in Own \cup {None}
BY DEF IInv, Carrying, Subject

LEMMA Exiting ==
    ASSUME IInv, NEW code \in Codes, Exit(code)
    PROVE  /\ run' \in Runs /\ out' \in Outs
           /\ run'.pc = "idle" /\ ~run'.count
BY IdleRun, SubjectTyped DEF Exit, Outs

\* What the updates of the retained state leave alone.
LEMMA UpdatedState ==
    ASSUME NEW s \in States
    PROVE  /\ \A recorded, strayBase \in BOOLEAN :
                 LET u == SetConflicts(s, recorded, strayBase) IN
                 /\ u \in States /\ u.original = s.original /\ u.races = s.races
                 /\ u.pres = s.pres /\ u.branch = s.branch
           /\ stray \in BOOLEAN =>
                 LET u == RecordConflicts(s) IN
                 /\ u \in States /\ u.original = s.original /\ u.races = s.races
                 /\ u.pres = s.pres /\ u.branch = s.branch
BY DEF States, SetConflicts, RecordConflicts

LEMMA StartedState ==
    ASSUME NEW t \in Threads, NEW c \in Commit
    PROVE  /\ NewState(t, c) \in States /\ NewState(t, c).original = c
           /\ NewState(t, c).races = 0 /\ NewState(t, c).pres = "none"
BY BoundAssumption DEF States, NewState

----------------------------------------------------------------------------
(* Type correctness *)

LEMMA CountedState ==
    ASSUME NEW s \in States, s.races < RaceLimit
    PROVE  LET u == Counted(s) IN
           /\ u \in States /\ u.original = s.original /\ u.races = s.races + 1
           /\ u.pres = s.pres /\ u.branch = s.branch
<1>1. PICK v \in States : /\ v = SetConflicts(s, FALSE, FALSE)
                          /\ v.original = s.original /\ v.races = s.races
                          /\ v.pres = s.pres /\ v.branch = s.branch
  BY UpdatedState
<1>2. v.races + 1 \in 0 .. RaceLimit
  <2>1. s.races \in 0 .. RaceLimit /\ s.races < RaceLimit
    BY DEF States
  <2>2. s.races + 1 \in 0 .. RaceLimit
    BY <2>1, BoundAssumption
  <2>. QED BY <1>1, <2>2
<1>. QED BY <1>1, <1>2 DEF States, Counted

LEMMA TypedChanges == \A c \in Commit : Changes(c) \subseteq Own \cup Foreign
<1>1. \A c \in Commit : \A i \in DOMAIN c : c[i] \in Entry
  BY DEF Commit
<1>2. \A e \in Entry : e.change \in Own \cup Foreign
  BY DEF Entry
<1>. QED BY <1>1, <1>2 DEF Changes

LEMMA EmptyPrefix == \A c \in Commit : IsPrefix(<<>>, c)
<1>. SUFFICES ASSUME NEW c \in Commit PROVE IsPrefix(<<>>, c)
  OBVIOUS
<1>1. Len(<<>>) = 0 /\ Len(c) \in Nat /\ Len(<<>>) <= Len(c) /\ \A i \in 1 .. Len(<<>>) : <<>>[i] = c[i]
  BY DEF Commit
<1>. QED BY <1>1, EmptyCommit, PrefixEntries

LEMMA TypeStep == IInv /\ [Next]_vars => TypeOK'
<1>. SUFFICES ASSUME IInv, [Next]_vars PROVE TypeOK'
  OBVIOUS
<1>t. TypeOK /\ Staged
  BY DEF IInv
<1>s. /\ run.pc \in {"continue", "abort"} => rb \in Rebases
      /\ run.pc \notin {"idle", "start", "create"} => st \in States
      /\ run.pc = "count" => st.races < RaceLimit
      /\ run.pc = "finalize" => head # <<>> \/ Fresh(head)
      /\ rb # None => rb \in Rebases /\ rb.from # <<>>
      /\ st # None => st \in States /\ st.original # <<>>
      /\ run.pc \in {"preserve", "query", "prove", "cleanup_preserved"} => st.branch \in Branch
  BY <1>t DEF IInv, TypeOK, Staged, Carrying, Fresh
<1>g. \A pc \in Labels : Goto(pc) => run' \in Runs /\ out' \in Outs
  BY <1>t, Going DEF TypeOK
<1>e. \A code \in Codes : Exit(code) => run' \in Runs /\ out' \in Outs
  BY Exiting
<1>r. run.then \in Labels
  BY <1>t DEF TypeOK, Runs, Labels
<1>p. run.pc # "idle" => run.thread \in Threads
  BY <1>t DEF Staged
<1>b. faults > 0 => faults - 1 \in 0 .. MaxFaults
  BY <1>t, BoundAssumption DEF TypeOK
<1>1. CASE CommitManaged
  <2>1. run' \in Runs /\ out' \in Outs
    BY <1>1, <1>g, <1>e DEF CommitManaged, Labels, Codes, Refusals
  <2>. QED BY <1>1, <1>t, <1>s, <2>1, AppendedCommit DEF CommitManaged, MoveHead, Entry, TypeOK, remote, refs, tree, owner
<1>2. CASE CreateState
  <2>1. run' \in Runs /\ out' \in Outs
    BY <1>2, <1>g DEF CreateState, Labels, Codes, Refusals
  <2>. QED BY <1>2, <1>t, <1>s, <2>1, <1>p, StartedState DEF CreateState, TypeOK, remote, refs, tree, owner
<1>3. CASE DetachPublication
  <2>1. run' \in Runs /\ out' \in Outs
    BY <1>3, <1>g DEF DetachPublication, Labels, Codes, Refusals
  <2>. QED BY <1>3, <1>t, <1>s, <2>1 DEF DetachPublication, TypeOK, remote, refs, tree, owner
<1>4. CASE Fetch
  <2>1. run' \in Runs /\ out' \in Outs
    BY <1>4, <1>t DEF Fetch, Labels, Codes, Refusals, Runs, TypeOK
  <2>. QED BY <1>4, <1>t, <1>s, <2>1 DEF Fetch, TypeOK, remote, refs, tree, owner
<1>5. CASE RebaseOntoOrigin
  <2>1. run' \in Runs /\ out' \in Outs
    BY <1>5, <1>g DEF RebaseOntoOrigin, Labels
  <2>2. head \in Commit /\ tracking \in Commit /\ main \in Commit /\ attached \in BOOLEAN
    BY <1>t DEF TypeOK
  <2>3. Diverged => head # <<>>
    BY <2>2, EmptyPrefix DEF Diverged
  <2>4. \/ (head' = head \/ head' \in Commit) /\ (main' \in {main, head'}) /\ UNCHANGED <<attached, rb>>
        \/ Diverged /\ \E u \in {"genuine", "todo"} : RebaseStopped(u)
    <3>1. ASSUME Diverged, NEW fresh \in BOOLEAN
          PROVE  Replayed(tracking, head, fresh) \in Commit
      BY <2>2, <2>3, <3>1, ReplayedCommit
    <3>. QED BY <1>5, <2>2, <3>1 DEF RebaseOntoOrigin, MoveHead, tree
  <2>5. head' \in Commit /\ main' \in Commit /\ attached' \in BOOLEAN /\ rb' \in Rebases \cup {None}
    <3>1. rb \in Rebases \cup {None}
      BY <1>t DEF TypeOK
    <3>2. ASSUME NEW u \in {"genuine", "todo"}, RebaseStopped(u)
          PROVE  head' \in Commit /\ main' \in Commit /\ attached' \in BOOLEAN /\ rb' \in Rebases
      BY <2>2, <3>2 DEF RebaseStopped, Rebases
    <3>. QED BY <2>2, <2>4, <3>1, <3>2
  <2>. QED BY <1>5, <1>t, <2>1, <2>5 DEF RebaseOntoOrigin, TypeOK, remote, owner
<1>6. CASE ReportConflict
  <2>1. run' \in Runs /\ out' \in Outs
    BY <1>6, <1>e DEF ReportConflict, Labels, Codes, Refusals
  <2>. QED BY <1>6, <1>t, <1>s, <2>1, UpdatedState DEF ReportConflict, TypeOK, remote, refs, tree, owner
<1>7. CASE ContinueRebase
  <2>1. run' \in Runs /\ out' \in Outs
    BY <1>7, <1>g, <1>e DEF ContinueRebase, FinishRebase, Labels, Codes, Refusals
  <2>2. /\ rb \in Rebases /\ rb.from # <<>> /\ st \in States /\ stray \in BOOLEAN
        /\ rb.onto \in Commit /\ rb.from \in Commit /\ rb.attached \in BOOLEAN
        /\ head \in Commit /\ main \in Commit /\ attached \in BOOLEAN
    <3>1. rb \in Rebases /\ rb.from # <<>> /\ st \in States
      BY <1>7, <1>t, <1>s DEF ContinueRebase, Staged
    <3>. QED BY <1>t, <3>1 DEF TypeOK, Rebases
  <2>3. rb' \in Rebases \cup {None}
    BY <1>7, <2>2 DEF ContinueRebase, FinishRebase, Rebases, tree
  <2>4. st' \in States
    BY <1>7, <2>2, UpdatedState DEF ContinueRebase, FinishRebase
  <2>5. \A fresh \in BOOLEAN :
            FinishRebase(fresh) => head' \in Commit /\ main' \in Commit /\ attached' \in BOOLEAN
    <3>1. \A fresh \in BOOLEAN : Replayed(rb.onto, rb.from, fresh) \in Commit
      BY <2>2, ReplayedCommit
    <3>. QED BY <2>2, <3>1 DEF FinishRebase
  <2>6. head' \in Commit /\ main' \in Commit /\ attached' \in BOOLEAN
    BY <1>7, <2>2, <2>5 DEF ContinueRebase, tree
  <2>. QED BY <1>7, <1>t, <2>1, <2>3, <2>4, <2>6 DEF ContinueRebase, TypeOK, remote, owner
<1>8. CASE FinalizeRebasedCommit
  <2>1. run' \in Runs /\ out' \in Outs
    BY <1>8, <1>g, <1>r DEF FinalizeRebasedCommit, Labels, Codes, Refusals
  <2>. QED BY <1>8, <1>t, <1>s, <2>1, AmendedCommit DEF FinalizeRebasedCommit, MoveHead, Fresh, TypeOK, remote, refs, tree, owner
<1>9. CASE ClearConflicts
  <2>1. run' \in Runs /\ out' \in Outs
    BY <1>9, <1>g, <1>r DEF ClearConflicts, Labels, Codes, Refusals
  <2>. QED BY <1>9, <1>t, <1>s, <2>1, UpdatedState DEF ClearConflicts, TypeOK, remote, refs, tree, owner
<1>10. CASE CountCleanRace
  <2>1. run' \in Runs /\ out' \in Outs
    BY <1>10, <1>g, <1>r DEF CountCleanRace, Labels, Codes, Refusals
  <2>. QED BY <1>10, <1>t, <1>s, <2>1, CountedState DEF CountCleanRace, TypeOK, remote, refs, tree, owner
<1>11. CASE PublishAttempt
  <2>1. run' \in Runs /\ out' \in Outs
    BY <1>11, <1>t DEF PublishAttempt, Labels, Codes, Refusals, Runs, TypeOK
  <2>. QED BY <1>11, <1>t, <1>s, <2>1 DEF PublishAttempt, TypeOK, remote, refs, tree, owner
<1>12. CASE PushMain
  <2>1. run' \in Runs /\ out' \in Outs
    BY <1>12, <1>g DEF PushMain, Labels, Codes, Refusals
  <2>. QED BY <1>12, <1>t, <1>s, <2>1, TypedChanges DEF PushMain, LandOnMain, TypeOK, remote, refs, tree, owner
<1>13. CASE FetchAfterPush
  <2>1. run' \in Runs /\ out' \in Outs
    <3>1. CASE Exit("push_failed")
      BY <1>e, <3>1 DEF Codes
    <3>2. CASE /\ run' = [run EXCEPT !.pc = "rebase", !.count = TRUE, !.then = "attempt"]
               /\ UNCHANGED out
      BY <1>t, <3>2 DEF TypeOK, Runs, Labels
    <3>. QED BY <1>13, <3>1, <3>2 DEF FetchAfterPush
  <2>. QED BY <1>13, <1>t, <2>1 DEF FetchAfterPush, TypeOK, remote, refs, tree, owner
<1>14. CASE PushRecovery
  <2>1. run' \in Runs /\ out' \in Outs
    BY <1>14, <1>g, <1>e DEF PushRecovery, Labels, Codes, Refusals
  <2>. QED BY <1>14, <1>t, <1>s, <2>1, TypedChanges, <1>b DEF PushRecovery, LandOnBranch, LeaveInFlight, Fault, Branch, States, TypeOK, remote, refs, tree, owner
<1>15. CASE AttachMain
  <2>1. run' \in Runs /\ out' \in Outs
    BY <1>15, <1>g, <1>e DEF AttachMain, Labels, Codes, Refusals
  <2>. QED BY <1>15, <1>t, <1>s, <2>1 DEF AttachMain, TypeOK, remote, refs, tree, owner
<1>16. CASE SwitchToMain
  <2>1. run' \in Runs /\ out' \in Outs
    BY <1>16, <1>g DEF SwitchToMain, Labels, Codes, Refusals
  <2>. QED BY <1>16, <1>t, <1>s, <2>1 DEF SwitchToMain, TypeOK, remote, refs, tree, owner
<1>17. CASE CleanupPublished
  <2>1. run' \in Runs /\ out' \in Outs
    BY <1>17, <1>e DEF CleanupPublished, CleanupAs, Labels, Codes, Refusals
  <2>. QED BY <1>17, <1>t, <1>s, <2>1 DEF CleanupPublished, CleanupAs, TypeOK, remote, refs, tree, owner
<1>18. CASE CleanupExhausted
  <2>1. run' \in Runs /\ out' \in Outs
    BY <1>18, <1>e DEF CleanupExhausted, CleanupAs, Labels, Codes, Refusals
  <2>. QED BY <1>18, <1>t, <1>s, <2>1 DEF CleanupExhausted, CleanupAs, TypeOK, remote, refs, tree, owner
<1>19. CASE CleanupPreserved
  <2>1. run' \in Runs /\ out' \in Outs
    BY <1>19, <1>e DEF CleanupPreserved, CleanupAs, Labels, Codes, Refusals
  <2>. QED BY <1>19, <1>t, <1>s, <2>1 DEF CleanupPreserved, CleanupAs, TypeOK, remote, refs, tree, owner
<1>20. CASE AbortRebase
  <2>1. run' \in Runs /\ out' \in Outs
    BY <1>20, <1>g, <1>e DEF AbortRebase, Labels, Codes, Refusals
  <2>. QED BY <1>20, <1>t, <1>s, <2>1 DEF AbortRebase, Rebases, TypeOK, remote, refs, tree, owner
<1>21. CASE RestoreMain
  <2>1. run' \in Runs /\ out' \in Outs
    BY <1>21, <1>g DEF RestoreMain, Labels, Codes, Refusals
  <2>. QED BY <1>21, <1>t, <1>s, <2>1 DEF RestoreMain, TypeOK, remote, refs, tree, owner
<1>22. CASE VerifyAbort
  <2>1. run' \in Runs /\ out' \in Outs
    BY <1>22, <1>g, <1>e DEF VerifyAbort, Labels, Codes, Refusals
  <2>. QED BY <1>22, <1>t, <1>s, <2>1 DEF VerifyAbort, TypeOK, remote, refs, tree, owner
<1>23. CASE AllocatePending
  <2>1. run' \in Runs /\ out' \in Outs
    BY <1>23, <1>g DEF AllocatePending, Labels
  <2>2. st \in States
    BY <1>23, <1>s DEF AllocatePending
  <2>3. \A s \in Stamps : <<"conflicts", st.thread, s>> \in Branch
    BY <2>2 DEF States, Branch
  <2>4. st' \in States
    BY <1>23, <2>2, <2>3 DEF AllocatePending, States
  <2>. QED BY <1>23, <1>t, <2>1, <2>4 DEF AllocatePending, TypeOK, remote, refs, tree, owner
<1>24. CASE PushPending
  <2>1. run' \in Runs /\ out' \in Outs
    BY <1>24, <1>g, <1>e DEF PushPending, Labels, Codes, Refusals
  <2>. QED BY <1>24, <1>t, <1>s, <2>1, TypedChanges DEF PushPending, LandOnBranch, States, TypeOK, remote, refs, tree, owner
<1>25. CASE QueryBranch
  <2>1. run' \in Runs /\ out' \in Outs
    BY <1>25, <1>g, <1>e DEF QueryBranch, Labels, Codes, Refusals
  <2>. QED BY <1>25, <1>t, <1>s, <2>1 DEF QueryBranch, TypeOK, remote, refs, tree, owner
<1>26. CASE MarkProven
  <2>1. run' \in Runs /\ out' \in Outs
    BY <1>26, <1>g DEF MarkProven, Labels, Codes, Refusals
  <2>. QED BY <1>26, <1>t, <1>s, <2>1 DEF MarkProven, States, TypeOK, remote, refs, tree, owner
<1>27. CASE Interrupt
  <2>1. run' \in Runs /\ out' \in Outs
    BY <1>27, <1>e DEF Interrupt, Labels, Codes, Refusals
  <2>. QED BY <1>27, <1>t, <1>s, <2>1, <1>b DEF Interrupt, Fault, TypeOK, remote, refs, tree, owner
<1>28. CASE RebaseKilled
  <2>1. run' \in Runs /\ out' \in Outs
    BY <1>28, <1>e DEF RebaseKilled, RebaseStopped, Labels, Codes, Refusals
  <2>. QED BY <1>28, <1>t, <1>s, <2>1, <1>b DEF RebaseKilled, RebaseStopped, Fault, Rebases, TypeOK, remote, refs, tree, owner
<1>29. CASE RemoteUnavailable
  <2>1. run' \in Runs /\ out' \in Outs
    BY <1>29, <1>e DEF RemoteUnavailable, Labels, Codes, Refusals
  <2>. QED BY <1>29, <1>t, <1>s, <2>1, <1>b DEF RemoteUnavailable, Fault, TypeOK, remote, refs, tree, owner
<1>30. CASE PushMainUncertain
  <2>1. run' \in Runs /\ out' \in Outs
    BY <1>30, <1>g, <1>e DEF PushMainUncertain, Labels, Codes, Refusals
  <2>. QED BY <1>30, <1>t, <1>s, <2>1, TypedChanges, <1>b DEF PushMainUncertain, LandOnMain, LeaveInFlight, Fault, TypeOK, remote, refs, tree, owner
<1>31. CASE PushPendingUncertain
  <2>1. run' \in Runs /\ out' \in Outs
    BY <1>31, <1>e DEF PushPendingUncertain, Labels, Codes, Refusals
  <2>. QED BY <1>31, <1>t, <1>s, <2>1, TypedChanges, <1>b DEF PushPendingUncertain, LandOnBranch, LeaveInFlight, Fault, States, TypeOK, remote, refs, tree, owner
<1>32. ASSUME NEW t \in Threads, NEW preserve \in BOOLEAN, Invoke(t, preserve)
       PROVE  TypeOK'
  <2>1. Route(t, preserve) \in Labels \cup Refusals
    BY DEF Route, Labels, Refusals
  <2>2. CASE Route(t, preserve) \in Refusals
    <3>1. Exit(Route(t, preserve))
      BY <1>32, <2>2 DEF Invoke
    <3>. QED BY <1>32, <1>t, <1>e, <2>2, <3>1 DEF Invoke, Codes, TypeOK, remote, refs, tree, owner
  <2>3. CASE Route(t, preserve) \notin Refusals
    <3>1. run' \in Runs /\ out' = out
      BY <1>32, <2>1, <2>3, IdleRun DEF Invoke, Runs
    <3>. QED BY <1>32, <1>t, <3>1 DEF Invoke, TypeOK, remote, refs, tree, owner
  <2>. QED BY <2>2, <2>3
<1>33. ASSUME NEW f \in flight, NEW lands \in BOOLEAN, FlightEnds(f, lands) PROVE TypeOK'
  <2>1. f.commit \in Commit /\ f.ref \in Branch \cup {MainRef}
    BY <1>t DEF TypeOK
  <2>2. f.ref # MainRef => f.ref \in Branch
    BY <2>1
  <2>3. durable' \subseteq Own \cup Foreign
    BY <1>33, <1>t, <2>1, TypedChanges DEF FlightEnds, TypeOK
  <2>4. origin' \in Commit /\ side' \in [Branch -> Commit \cup {None}]
    BY <1>33, <1>t, <2>1, <2>2 DEF FlightEnds, TypeOK
  <2>. QED BY <1>33, <1>t, <2>3, <2>4 DEF FlightEnds, TypeOK, refs, tree, owner
<1>34. ASSUME NEW c \in Foreign, ForeignPush(c) PROVE TypeOK'
  <2>1. [change |-> c, todo |-> TRUE] \in Entry
    BY DEF Entry
  <2>2. origin' \in Commit
    BY <1>34, <1>t, <2>1, AppendedCommit DEF ForeignPush, LandOnMain, TypeOK
  <2>. QED BY <1>34, <1>t, <2>2, TypedChanges DEF ForeignPush, LandOnMain, TypeOK, refs, tree, owner
<1>35. ASSUME NEW b \in Branch, ForeignBranch(b) PROVE TypeOK'
  <2>1. PICK new \in {None} \cup {Append(side[b], [change |-> c, todo |-> TRUE]) : c \in Foreign} :
            side' = [side EXCEPT ![b] = new]
    BY <1>35 DEF ForeignBranch
  <2>2. side[b] \in Commit
    BY <1>35, <1>t DEF ForeignBranch, TypeOK
  <2>3. \A c \in Foreign : [change |-> c, todo |-> TRUE] \in Entry
    BY DEF Entry
  <2>4. new \in Commit \cup {None}
    <3>1. \A c \in Foreign : Append(side[b], [change |-> c, todo |-> TRUE]) \in Commit
      BY <2>2, <2>3, AppendedCommit
    <3>. QED BY <3>1
  <2>. QED BY <1>35, <1>t, <1>b, <2>1, <2>4 DEF ForeignBranch, Fault, TypeOK, refs, tree, owner
<1>36. CASE SyncFetch
  BY <1>36, <1>t DEF SyncFetch, TypeOK, remote, tree, owner
<1>37. ASSUME NEW x \in Own, WriteChange(x) PROVE TypeOK'
  BY <1>37, <1>t DEF WriteChange, TypeOK, remote, refs, tree
<1>38. CASE ResolveConflict
  <2>1. rb' \in Rebases
    BY <1>38, <1>s DEF ResolveConflict, Rebases
  <2>. QED BY <1>38, <1>t, <2>1 DEF ResolveConflict, TypeOK, remote, refs, owner
<1>39. CASE StrayEdit
  BY <1>39, <1>t, <1>b DEF StrayEdit, Fault, TypeOK, remote, refs, tree
<1>40. CASE UndoStray
  BY <1>40, <1>t DEF UndoStray, TypeOK, remote, refs, tree
<1>41. CASE ResetToOrigin
  BY <1>41, <1>t DEF ResetToOrigin, TypeOK, remote, owner
<1>42. CASE UNCHANGED vars
  BY <1>42, <1>t DEF vars, TypeOK, remote, refs, tree, owner
<1>. QED
  BY <1>1, <1>2, <1>3, <1>4, <1>5, <1>6, <1>7, <1>8, <1>9, <1>10, <1>11, <1>12, <1>13, <1>14, <1>15, <1>16, <1>17, <1>18, <1>19, <1>20, <1>21, <1>22, <1>23, <1>24, <1>25, <1>26, <1>27, <1>28, <1>29, <1>30, <1>31, <1>32, <1>33, <1>34, <1>35, <1>36, <1>37, <1>38, <1>39, <1>40, <1>41, <1>42 DEF Next, Step, Failure, Environment

----------------------------------------------------------------------------
(* Where a run can be *)

LEMMA StagedStep == IInv /\ [Next]_vars => Staged'
<1>. SUFFICES ASSUME IInv, [Next]_vars PROVE Staged'
  OBVIOUS
<1>t. /\ run \in Runs /\ out \in Outs /\ run.then \in {"attempt", "fetch"}
      /\ st # None => st \in States /\ st.pres \in {"none", "push_pending", "proven"}
      /\ rb # None => rb \in Rebases
      /\ stray \in BOOLEAN /\ head \in Commit /\ tracking \in Commit /\ attached \in BOOLEAN
  BY DEF IInv, TypeOK, Runs, States
<1>s. Staged
  BY DEF IInv
<1>f. rb # None => ~attached
  BY DEF IInv, CheckedOut
<1>k. \A r : (r \in States => r # None) /\ (r \in Rebases => r # None)
  BY NoneAssumption
<1>g. \A pc \in Labels : Goto(pc) =>
          /\ run'.pc = pc /\ run'.count = run.count /\ run'.then = run.then
          /\ run'.thread = run.thread
  BY <1>t, Going
<1>e. \A code \in Codes : Exit(code) => run'.pc = "idle" /\ ~run'.count
  BY Exiting
<1>1. CASE CommitManaged
  BY <1>1, <1>t, <1>s, <1>f, <1>g, <1>e
  DEF CommitManaged, MoveHead, Staged, Labels, Codes, Refusals, tree, refs
<1>2. CASE CreateState
  <2>1. /\ st' \in States /\ st'.races = 0 /\ st'.pres = "none"
        /\ run'.pc = "detach" /\ run'.thread \in Threads /\ rb' = None
    BY <1>2, <1>t, <1>s, <1>g, StartedState DEF CreateState, Staged, Labels, tree
  <2>. QED BY <1>k, <2>1, BoundAssumption DEF Staged
<1>3. CASE DetachPublication
  BY <1>3, <1>t, <1>s, <1>f, <1>g
  DEF DetachPublication, Staged, Labels, Codes, Refusals, tree, refs
<1>4. CASE Fetch
  BY <1>4, <1>t, <1>s, <1>f
  DEF Fetch, Runs, Staged, Labels, Codes, Refusals, tree, refs
<1>5. CASE RebaseOntoOrigin
  <2>1. \/ run'.pc = "finalize" /\ rb' = None
        \/ run'.pc = "continue" /\ rb' \in Rebases
    BY <1>5, <1>t, <1>s, <1>g DEF RebaseOntoOrigin, RebaseStopped, Rebases, Staged, Labels, tree
  <2>2. st' = st /\ st # None /\ run'.count = run.count /\ run'.thread \in Threads /\ run.pc = "rebase"
    BY <1>5, <1>s, <1>g DEF RebaseOntoOrigin, Staged, Labels
  <2>. QED BY <1>s, <1>k, <2>1, <2>2 DEF Staged
<1>6. CASE ReportConflict
  BY <1>6, <1>t, <1>s, <1>f, <1>e, <1>k, UpdatedState
  DEF ReportConflict, Staged, Labels, Codes, Refusals, tree, refs
<1>7. CASE ContinueRebase
  <2>1. \/ run'.pc = "finalize" /\ rb' = None
        \/ run'.pc = "idle"
    BY <1>7, <1>g, <1>e DEF ContinueRebase, FinishRebase, Labels, Codes, Refusals
  <2>2. run'.pc = "finalize" => run'.count = run.count /\ run'.thread = run.thread
    BY <1>7, <1>g, <1>e DEF ContinueRebase, FinishRebase, Labels, Codes, Refusals
  <2>3. st \in States /\ run.pc = "continue"
    BY <1>7, <1>t, <1>s DEF ContinueRebase, Staged
  <2>4. st' \in {st, RecordConflicts(st)}
    BY <1>7 DEF ContinueRebase, FinishRebase
  <2>5. st' \in States /\ st'.pres = st.pres /\ st'.branch = st.branch /\ st'.races = st.races
    BY <1>t, <2>3, <2>4, UpdatedState
  <2>. QED BY <1>s, <1>k, <2>1, <2>2, <2>3, <2>5 DEF Staged
<1>8. CASE FinalizeRebasedCommit
  BY <1>8, <1>t, <1>s, <1>f, <1>g
  DEF FinalizeRebasedCommit, MoveHead, Staged, Labels, Codes, Refusals, tree, refs
<1>9. CASE ClearConflicts
  <2>1. /\ st \in States /\ st # None /\ run.pc = "clear" /\ run.thread \in Threads
        /\ rb' = None /\ st.pres = "none"
    BY <1>9, <1>t, <1>s DEF ClearConflicts, Staged, tree
  <2>2. st' \in States /\ st'.pres = "none" /\ st'.races = st.races
    BY <1>9, <2>1, UpdatedState DEF ClearConflicts
  <2>3. /\ run'.pc \in {"count", "attempt", "fetch"} /\ run'.thread = run.thread
        /\ run'.count = run.count /\ (run'.pc = "count" => run.count)
    BY <1>9, <1>t, <1>g DEF ClearConflicts, Labels
  <2>. QED BY <1>s, <1>k, <2>1, <2>2, <2>3 DEF Staged
<1>10. CASE CountCleanRace
  BY <1>10, <1>t, <1>s, <1>f, <1>g, <1>k, CountedState
  DEF CountCleanRace, Staged, Labels, Codes, Refusals, tree, refs
<1>11. CASE PublishAttempt
  <2>1. run'.pc \in {"attach", "recover", "push"} /\ run'.thread = run.thread
    BY <1>11, <1>t DEF PublishAttempt, Runs
  <2>2. run'.pc = "push" => ~(st.races >= RaceLimit)
    BY <1>11, <1>t DEF PublishAttempt, Runs
  <2>3. st # None /\ st.races \in 0 .. RaceLimit /\ st' = st /\ rb = None /\ rb' = None
    BY <1>11, <1>t, <1>s DEF PublishAttempt, Staged, States, tree
  <2>4. run'.pc = "push" => st.races < RaceLimit
    BY <2>2, <2>3, BoundAssumption
  <2>. QED BY <1>11, <1>s, <2>1, <2>3, <2>4 DEF PublishAttempt, Staged
<1>12. CASE PushMain
  BY <1>12, <1>t, <1>s, <1>f, <1>g
  DEF PushMain, Staged, Labels, Codes, Refusals, tree, refs
<1>13. CASE FetchAfterPush
  <2>1. /\ st # None /\ st.races < RaceLimit /\ st.pres = "none" /\ st' = st
        /\ rb' = None /\ run.thread \in Threads
    BY <1>13, <1>s DEF FetchAfterPush, Staged, tree
  <2>2. run'.pc = "idle" \/ (run'.pc = "rebase" /\ run'.thread = run.thread)
    <3>1. CASE Exit("push_failed")
      BY <1>e, <3>1 DEF Codes
    <3>2. CASE run' = [run EXCEPT !.pc = "rebase", !.count = TRUE, !.then = "attempt"]
      BY <1>t, <3>2 DEF Runs
    <3>. QED BY <1>13, <3>1, <3>2 DEF FetchAfterPush
  <2>. QED BY <1>s, <2>1, <2>2 DEF Staged
<1>14. CASE PushRecovery
  BY <1>14, <1>t, <1>s, <1>f, <1>g, <1>e
  DEF PushRecovery, Staged, Labels, Codes, Refusals, tree, refs
<1>15. CASE AttachMain
  BY <1>15, <1>t, <1>s, <1>f, <1>g, <1>e
  DEF AttachMain, Staged, Labels, Codes, Refusals, tree, refs
<1>16. CASE SwitchToMain
  BY <1>16, <1>t, <1>s, <1>f, <1>g
  DEF SwitchToMain, Staged, Labels, Codes, Refusals, tree, refs
<1>17. CASE CleanupPublished
  BY <1>17, <1>t, <1>s, <1>f, <1>e
  DEF CleanupPublished, CleanupAs, Staged, Labels, Codes, Refusals, tree, refs
<1>18. CASE CleanupExhausted
  BY <1>18, <1>t, <1>s, <1>f, <1>e
  DEF CleanupExhausted, CleanupAs, Staged, Labels, Codes, Refusals, tree, refs
<1>19. CASE CleanupPreserved
  BY <1>19, <1>t, <1>s, <1>f, <1>e
  DEF CleanupPreserved, CleanupAs, Staged, Labels, Codes, Refusals, tree, refs
<1>20. CASE AbortRebase
  BY <1>20, <1>t, <1>s, <1>f, <1>g, <1>e
  DEF AbortRebase, Staged, Labels, Codes, Refusals, tree, refs
<1>21. CASE RestoreMain
  BY <1>21, <1>t, <1>s, <1>f, <1>g
  DEF RestoreMain, Staged, Labels, Codes, Refusals, tree, refs
<1>22. CASE VerifyAbort
  BY <1>22, <1>t, <1>s, <1>f, <1>g, <1>e
  DEF VerifyAbort, Staged, Labels, Codes, Refusals, tree, refs
<1>23. CASE AllocatePending
  <2>1. st \in States /\ run'.pc = "preserve" /\ run'.thread \in Threads /\ rb' = None
    BY <1>23, <1>t, <1>s, <1>g DEF AllocatePending, Staged, Labels, tree
  <2>2. PICK s \in Stamps : st' = [st EXCEPT !.pres = "push_pending",
                                             !.branch = <<"conflicts", st.thread, s>>]
    BY <1>23 DEF AllocatePending
  <2>3. <<"conflicts", st.thread, s>> \in Branch
    BY <2>1 DEF States, Branch
  <2>4. st' \in States /\ st'.pres = "push_pending" /\ st'.branch \in Branch
    BY <2>1, <2>2, <2>3 DEF States
  <2>. QED BY <1>k, <2>1, <2>4 DEF Staged
<1>24. CASE PushPending
  BY <1>24, <1>t, <1>s, <1>f, <1>g, <1>e
  DEF PushPending, Staged, Labels, Codes, Refusals, tree, refs
<1>25. CASE QueryBranch
  BY <1>25, <1>t, <1>s, <1>f, <1>g, <1>e
  DEF QueryBranch, Unproven, Staged, Labels, Codes, Refusals, tree, refs
<1>26. CASE MarkProven
  BY <1>26, <1>t, <1>s, <1>f, <1>g, <1>k
  DEF MarkProven, States, Staged, Labels, Codes, Refusals, tree, refs
<1>27. CASE Interrupt
  BY <1>27, <1>t, <1>s, <1>f, <1>e
  DEF Interrupt, Staged, Labels, Codes, Refusals, tree, refs
<1>28. CASE RebaseKilled
  BY <1>28, <1>t, <1>s, <1>f, <1>e, <1>k
  DEF RebaseKilled, RebaseStopped, Staged, Labels, Codes, Refusals, tree, refs
<1>29. CASE RemoteUnavailable
  BY <1>29, <1>t, <1>s, <1>f, <1>e
  DEF RemoteUnavailable, Staged, Labels, Codes, Refusals, tree, refs
<1>30. CASE PushMainUncertain
  BY <1>30, <1>t, <1>s, <1>f, <1>g, <1>e
  DEF PushMainUncertain, Staged, Labels, Codes, Refusals, tree, refs
<1>31. CASE PushPendingUncertain
  BY <1>31, <1>t, <1>s, <1>f, <1>e
  DEF PushPendingUncertain, Staged, Labels, Codes, Refusals, tree, refs
<1>32. ASSUME NEW t \in Threads, NEW preserve \in BOOLEAN, Invoke(t, preserve)
       PROVE  Staged'
  <2>1. CASE Route(t, preserve) \in Refusals
    <3>1. Exit(Route(t, preserve))
      BY <1>32, <2>1 DEF Invoke
    <3>. QED BY <1>32, <1>s, <1>e, <2>1, <3>1 DEF Invoke, Codes, Staged, tree
  <2>2. CASE Route(t, preserve) \notin Refusals
    <3>1. run'.pc = Route(t, preserve) /\ run'.thread = t /\ ~run'.count
      BY <1>32, <2>2, IdleRun DEF Invoke, Idle
    <3>. QED BY <1>32, <1>s, <2>2, <3>1
         DEF Invoke, Route, PostAbortVerified, Refusals, Staged, tree
  <2>. QED BY <2>1, <2>2
<1>33. ASSUME NEW f \in flight, NEW lands \in BOOLEAN, FlightEnds(f, lands) PROVE Staged'
  BY <1>33, <1>s DEF FlightEnds, Staged, tree
<1>34. ASSUME NEW c \in Foreign, ForeignPush(c) PROVE Staged'
  BY <1>34, <1>s DEF ForeignPush, Staged, tree
<1>35. ASSUME NEW b \in Branch, ForeignBranch(b) PROVE Staged'
  BY <1>35, <1>s DEF ForeignBranch, Staged, tree
<1>36. CASE SyncFetch
  BY <1>36, <1>s DEF SyncFetch, Staged, tree
<1>37. ASSUME NEW x \in Own, WriteChange(x) PROVE Staged'
  BY <1>37, <1>s DEF WriteChange, Staged, tree
<1>38. CASE ResolveConflict
  BY <1>38, <1>s DEF ResolveConflict, Staged
<1>39. CASE StrayEdit
  BY <1>39, <1>s DEF StrayEdit, Staged, tree
<1>40. CASE UndoStray
  BY <1>40, <1>s DEF UndoStray, Staged, tree
<1>41. CASE ResetToOrigin
  BY <1>41, <1>s DEF ResetToOrigin, Staged
<1>42. CASE UNCHANGED vars
  BY <1>42, <1>s DEF vars, Staged, tree
<1>. QED
  BY <1>1, <1>2, <1>3, <1>4, <1>5, <1>6, <1>7, <1>8, <1>9, <1>10, <1>11, <1>12, <1>13, <1>14, <1>15, <1>16, <1>17, <1>18, <1>19, <1>20, <1>21, <1>22, <1>23, <1>24, <1>25, <1>26, <1>27, <1>28, <1>29, <1>30, <1>31, <1>32, <1>33, <1>34, <1>35, <1>36, <1>37, <1>38, <1>39, <1>40, <1>41, <1>42 DEF Next, Step, Failure, Environment

----------------------------------------------------------------------------
(* The remote and what is known of it *)

\* The steps of a run that leave the remote and origin/main as they are.
LocalStep ==
    \/ CommitManaged \/ CreateState \/ DetachPublication
    \/ RebaseOntoOrigin \/ ReportConflict \/ ContinueRebase
    \/ FinalizeRebasedCommit \/ ClearConflicts \/ CountCleanRace
    \/ PublishAttempt \/ AttachMain \/ SwitchToMain
    \/ CleanupPublished \/ CleanupExhausted \/ CleanupPreserved
    \/ AbortRebase \/ RestoreMain \/ VerifyAbort \/ AllocatePending
    \/ QueryBranch \/ MarkProven
    \/ Interrupt \/ RebaseKilled \/ RemoteUnavailable
    \/ ResolveConflict \/ StrayEdit \/ UndoStray \/ ResetToOrigin

LEMMA LocalStepKeepsRemote == LocalStep => UNCHANGED <<remote, tracking>>
BY DEF LocalStep, CommitManaged, CreateState, DetachPublication, RebaseOntoOrigin,
       ReportConflict, ContinueRebase, FinalizeRebasedCommit, ClearConflicts, CountCleanRace,
       PublishAttempt, AttachMain, SwitchToMain, CleanupPublished, CleanupExhausted,
       CleanupPreserved, CleanupAs, AbortRebase, RestoreMain, VerifyAbort, AllocatePending,
       QueryBranch, MarkProven, Interrupt, RebaseKilled, RemoteUnavailable,
       ResolveConflict, StrayEdit, UndoStray, ResetToOrigin, remote, refs

\* main of the remote only grows, and so does what the clone knows of it.
LEMMA RemoteStep ==
    IInv /\ [Next]_vars =>
        /\ Following'
        /\ IsPrefix(tracking, tracking') /\ IsPrefix(origin, origin')
        /\ durable \subseteq durable'
<1>. DEFINE Goal == /\ Following'
                    /\ IsPrefix(tracking, tracking') /\ IsPrefix(origin, origin')
                    /\ durable \subseteq durable'
<1>. SUFFICES ASSUME IInv, [Next]_vars PROVE Goal
  OBVIOUS
<1>t. /\ origin \in Commit /\ tracking \in Commit /\ head \in Commit
      /\ side \in [Branch -> Commit \cup {None}]
      /\ st # None => st.original \in Commit
      /\ \A f \in flight : f.commit \in Commit /\ (f.ref # MainRef => f.ref \in Branch)
  BY DEF IInv, TypeOK, States
<1>f. Following
  BY DEF IInv
<1>c. None \notin Commit
  BY NoneAssumption
<1>1. ASSUME UNCHANGED <<remote, tracking>> PROVE Goal
  BY <1>1, <1>t, <1>f, PrefixReflexive DEF Following, remote
<1>2. ASSUME tracking' = origin, UNCHANGED remote PROVE Goal
  BY <1>2, <1>t, <1>f, PrefixReflexive DEF Following, remote
<1>3. ASSUME NEW c \in Commit, IsPrefix(origin, c), LandOnMain(c), UNCHANGED tracking
      PROVE  Goal
  <2>1. IsPrefix(tracking, c)
    BY <1>3, <1>t, <1>f, PrefixTransitive DEF Following
  <2>. QED BY <1>3, <1>t, <1>f, <2>1, PrefixReflexive DEF Following, LandOnMain
<1>4. ASSUME NEW c \in Commit, NEW b \in Branch, LandOnBranch(b, c), UNCHANGED tracking
      PROVE  Goal
  <2>1. \A a \in Branch : side'[a] = IF a = b THEN c ELSE side[a]
    BY <1>4, <1>t DEF LandOnBranch
  <2>. QED BY <1>4, <1>t, <1>f, <2>1, PrefixReflexive DEF Following, LandOnBranch
<1>5. ASSUME NEW ref, NEW c, LeaveInFlight(ref, c), UNCHANGED tracking PROVE Goal
  BY <1>5, <1>t, <1>f, PrefixReflexive DEF Following, LeaveInFlight
<1>6. IsPrefix(origin, head) \/ ~Accepts(origin, head)
  BY <1>t, <1>c DEF Accepts
<1>7. CASE Fetch
  BY <1>7, <1>2 DEF Fetch
<1>8. CASE PushMain
  BY <1>8, <1>1, <1>3, <1>6, <1>t DEF PushMain, refs
<1>9. CASE PushMainUncertain
  BY <1>9, <1>1, <1>3, <1>5, <1>6, <1>t DEF PushMainUncertain, refs
<1>10. CASE FetchAfterPush
  BY <1>10, <1>2 DEF FetchAfterPush
<1>11. CASE PushRecovery
  <2>1. \A s \in Stamps : <<"recovery", st.thread, s>> \in Branch
    BY <1>11 DEF PushRecovery, IInv, Staged, TypeOK, States, Branch
  <2>. QED BY <1>11, <1>1, <1>4, <1>5, <1>t, <2>1 DEF PushRecovery, refs
<1>12. CASE PushPending
  <2>1. st.branch \in Branch /\ st.original \in Commit
    BY <1>12, <1>t DEF PushPending, IInv, Staged
  <2>. QED BY <1>12, <1>1, <1>4, <2>1 DEF PushPending, refs
<1>13. CASE PushPendingUncertain
  <2>1. st.branch \in Branch /\ st.original \in Commit
    BY <1>13, <1>t DEF PushPendingUncertain, IInv, Staged
  <2>. QED BY <1>13, <1>1, <1>4, <1>5, <2>1 DEF PushPendingUncertain, refs
<1>14. CASE LocalStep
  BY <1>14, <1>1, LocalStepKeepsRemote
<1>15. ASSUME NEW t \in Threads, NEW preserve \in BOOLEAN, Invoke(t, preserve) PROVE Goal
  BY <1>15, <1>1 DEF Invoke, refs
<1>16. ASSUME NEW f \in flight, NEW lands \in BOOLEAN, FlightEnds(f, lands) PROVE Goal
  <2>1. CASE UNCHANGED <<origin, side, durable>>
    BY <1>16, <1>t, <1>f, <2>1, PrefixReflexive DEF FlightEnds, Following, refs
  <2>2. CASE f.ref = MainRef /\ ~UNCHANGED <<origin, side, durable>>
    <3>1. /\ IsPrefix(origin, f.commit) /\ origin' = f.commit /\ side' = side
          /\ durable' = durable \cup Changes(f.commit) /\ tracking' = tracking
      BY <1>16, <1>t, <1>c, <2>2 DEF FlightEnds, Accepts, refs
    <3>2. IsPrefix(tracking, f.commit)
      BY <1>t, <1>f, <3>1, PrefixTransitive DEF Following
    <3>. QED BY <1>t, <1>f, <3>1, <3>2, PrefixReflexive DEF Following
  <2>3. CASE f.ref # MainRef /\ ~UNCHANGED <<origin, side, durable>>
    <3>1. /\ origin' = origin /\ side' = [side EXCEPT ![f.ref] = f.commit]
          /\ durable' = durable \cup Changes(f.commit) /\ tracking' = tracking
      BY <1>16, <2>3 DEF FlightEnds, refs
    <3>2. \A a \in Branch : side'[a] = IF a = f.ref THEN f.commit ELSE side[a]
      BY <1>t, <3>1
    <3>. QED BY <1>t, <1>f, <3>1, <3>2, PrefixReflexive DEF Following
  <2>. QED BY <2>1, <2>2, <2>3
<1>17. ASSUME NEW c \in Foreign, ForeignPush(c) PROVE Goal
  <2>1. [change |-> c, todo |-> TRUE] \in Entry
    BY DEF Entry
  <2>. QED BY <1>17, <1>3, <1>t, <2>1, AppendedCommit DEF ForeignPush, refs
<1>18. ASSUME NEW b \in Branch, ForeignBranch(b) PROVE Goal
  <2>1. PICK new \in {None} \cup {Append(side[b], [change |-> c, todo |-> TRUE]) : c \in Foreign} :
            side' = [side EXCEPT ![b] = new]
    BY <1>18 DEF ForeignBranch
  <2>2. \A a \in Branch : side'[a] = IF a = b THEN new ELSE side[a]
    BY <1>t, <2>1
  <2>3. new # None => Own \cap Changes(new) \subseteq durable
    <3>1. SUFFICES ASSUME NEW c \in Foreign, new = Append(side[b], [change |-> c, todo |-> TRUE])
                   PROVE  Own \cap Changes(new) \subseteq durable
      BY <2>1
    <3>2. side[b] \in Commit /\ side[b] # None /\ [change |-> c, todo |-> TRUE] \in Entry
      BY <1>18, <1>t DEF ForeignBranch, Entry
    <3>3. Changes(new) = Changes(side[b]) \cup {c}
      BY <3>1, <3>2, AppendedCommit
    <3>. QED BY <1>f, <3>2, <3>3, ChangesAssumption DEF Following
  <2>. QED BY <1>18, <1>t, <1>f, <2>2, <2>3, PrefixReflexive DEF ForeignBranch, Following, refs
<1>19. CASE SyncFetch
  BY <1>19, <1>2 DEF SyncFetch
<1>20. ASSUME NEW x \in Own, WriteChange(x) PROVE Goal
  BY <1>20, <1>1 DEF WriteChange, refs
<1>21. CASE UNCHANGED vars
  BY <1>21, <1>1 DEF vars, refs
<1>. QED
  BY <1>7, <1>8, <1>9, <1>10, <1>11, <1>12, <1>13, <1>14, <1>15, <1>16, <1>17, <1>18, <1>19,
     <1>20, <1>21
  DEF Next, Step, Failure, Environment, LocalStep

----------------------------------------------------------------------------
(* HEAD, main and the rebase in progress *)

\* The steps that move neither HEAD nor main and touch no rebase.
StillStep ==
    \/ CreateState \/ Fetch \/ ReportConflict \/ ClearConflicts \/ CountCleanRace
    \/ PublishAttempt \/ PushMain \/ FetchAfterPush \/ PushRecovery
    \/ CleanupPublished \/ CleanupExhausted \/ CleanupPreserved
    \/ VerifyAbort \/ AllocatePending \/ PushPending \/ QueryBranch \/ MarkProven
    \/ Interrupt \/ RemoteUnavailable \/ PushMainUncertain \/ PushPendingUncertain
    \/ SyncFetch \/ StrayEdit \/ UndoStray \/ UNCHANGED vars
    \/ \E t \in Threads, preserve \in BOOLEAN : Invoke(t, preserve)
    \/ \E f \in flight, lands \in BOOLEAN : FlightEnds(f, lands)
    \/ \E c \in Foreign : ForeignPush(c)
    \/ \E b \in Branch : ForeignBranch(b)
    \/ \E x \in Own : WriteChange(x)

LEMMA StillStepKeepsTree == StillStep => UNCHANGED <<main, tree>>
BY DEF StillStep, CreateState, Fetch, ReportConflict, ClearConflicts, CountCleanRace,
       PublishAttempt, PushMain, FetchAfterPush, PushRecovery, CleanupPublished,
       CleanupExhausted, CleanupPreserved, CleanupAs, VerifyAbort, AllocatePending,
       PushPending, QueryBranch, MarkProven, Interrupt, RemoteUnavailable,
       PushMainUncertain, PushPendingUncertain, SyncFetch, StrayEdit, UndoStray, Invoke,
       FlightEnds, ForeignPush, ForeignBranch, WriteChange, vars, refs

LEMMA CheckoutStep == IInv /\ [Next]_vars => CheckedOut'
<1>. SUFFICES ASSUME IInv, [Next]_vars PROVE CheckedOut'
  OBVIOUS
<1>t. /\ tracking \in Commit /\ head \in Commit /\ main \in Commit
      /\ attached \in BOOLEAN
      /\ rb # None => rb \in Rebases /\ rb.onto \in Commit /\ rb.from \in Commit
      /\ tracking' \in Commit
  BY TypeStep DEF IInv, TypeOK, Rebases
<1>c. CheckedOut
  BY DEF IInv
<1>r. run.pc \notin {"idle", "continue", "abort"} => rb = None
  BY DEF IInv, Staged
<1>g. IsPrefix(tracking, tracking')
  BY RemoteStep
<1>1. CASE StillStep
  <2>1. rb # None => IsPrefix(head, tracking')
    BY <1>t, <1>c, <1>g, PrefixTransitive DEF CheckedOut
  <2>. QED BY <1>1, <1>c, <2>1, StillStepKeepsTree DEF CheckedOut, tree
<1>2. CASE CommitManaged
  BY <1>2, <1>c, <1>r DEF CommitManaged, MoveHead, CheckedOut
<1>3. CASE DetachPublication
  BY <1>3, <1>r DEF DetachPublication, CheckedOut
<1>4. ASSUME NEW u, RebaseStopped(u), tracking' = tracking PROVE CheckedOut'
  BY <1>4, <1>t, <1>c, PrefixReflexive DEF RebaseStopped, CheckedOut
<1>5. CASE RebaseOntoOrigin
  <2>1. CASE rb' = None
    BY <1>5, <1>c, <1>r, <2>1 DEF RebaseOntoOrigin, MoveHead, RebaseStopped, CheckedOut, tree
  <2>2. CASE \E u : RebaseStopped(u)
    BY <1>5, <1>4, <2>2 DEF RebaseOntoOrigin
  <2>. QED BY <1>5, <1>r, <2>1, <2>2 DEF RebaseOntoOrigin, tree
<1>6. CASE RebaseKilled
  BY <1>6, <1>4 DEF RebaseKilled
<1>7. CASE ContinueRebase
  <2>1. CASE \E fresh \in BOOLEAN : FinishRebase(fresh)
    BY <2>1, NoneAssumption DEF FinishRebase, CheckedOut
  <2>2. CASE UNCHANGED tree /\ main' = main
    BY <1>7, <1>c, <2>2 DEF ContinueRebase, CheckedOut, tree
  <2>3. CASE /\ rb' = [rb EXCEPT !.unmerged = "genuine"] \/ rb' = [rb EXCEPT !.unmerged = "todo"]
             /\ UNCHANGED <<main, head, attached>>
    <3>1. rb # None /\ rb'.attached = rb.attached /\ rb'.from = rb.from /\ rb'.onto = rb.onto
      BY <1>7, <1>t, <2>3 DEF ContinueRebase, Rebases, IInv, Staged
    <3>. QED BY <1>7, <1>c, <2>3, <3>1 DEF ContinueRebase, CheckedOut
  <2>. QED BY <1>7, <2>1, <2>2, <2>3 DEF ContinueRebase
<1>8. CASE FinalizeRebasedCommit
  BY <1>8, <1>c, <1>r DEF FinalizeRebasedCommit, MoveHead, CheckedOut
<1>9. CASE AttachMain
  BY <1>9, <1>c, <1>r DEF AttachMain, CheckedOut, tree
<1>10. CASE SwitchToMain
  BY <1>10, <1>r DEF SwitchToMain, CheckedOut, refs
<1>11. CASE AbortRebase
  <2>1. CASE UNCHANGED tree
    BY <1>11, <1>c, <2>1 DEF AbortRebase, CheckedOut, tree, refs
  <2>2. CASE rb' = None /\ head' = rb.from /\ attached' = rb.attached
    BY <1>11, <1>c, <2>2 DEF AbortRebase, CheckedOut, refs, IInv, Staged
  <2>. QED BY <1>11, <2>1, <2>2 DEF AbortRebase
<1>12. CASE RestoreMain
  BY <1>12, <1>r DEF RestoreMain, CheckedOut, refs
<1>13. CASE ResolveConflict
  <2>1. rb # None /\ rb'.attached = rb.attached /\ rb'.from = rb.from /\ rb'.onto = rb.onto
    BY <1>13, <1>t DEF ResolveConflict, Rebases
  <2>. QED BY <1>13, <1>c, <2>1 DEF ResolveConflict, CheckedOut, refs
<1>14. CASE ResetToOrigin
  BY <1>14 DEF ResetToOrigin, CheckedOut
<1>. QED
  BY <1>1, <1>2, <1>3, <1>5, <1>6, <1>7, <1>8, <1>9, <1>10, <1>11, <1>12, <1>13, <1>14
  DEF Next, Step, Failure, Environment, StillStep

----------------------------------------------------------------------------
(* Which steps lead where *)

\* The publication a run is about stays the same until it is forgotten, and a
\* run reaches a step that counts for the invariant only by these actions.
SameSubject == st # None /\ st' # None => st'.original = st.original

Arrival ==
    /\ st = None /\ st' # None => CreateState
    /\ st # None /\ st' = None => CleanupPublished \/ CleanupExhausted \/ CleanupPreserved
    /\ st # None /\ st' # None /\ st'.pres = "proven" => st.pres = "proven" \/ MarkProven
    /\ run'.pc = "create" => run' = run \/ CommitManaged
    /\ run'.pc \in {"clear", "count", "attempt", "push"} =>
           \/ run' = run
           \/ FinalizeRebasedCommit \/ ClearConflicts \/ CountCleanRace \/ PublishAttempt
    /\ run'.pc = "attach" => run' = run \/ PublishAttempt \/ PushMain
    /\ run'.pc \in {"switch", "cleanup"} => run' = run \/ AttachMain \/ SwitchToMain
    /\ run'.pc = "cleanup_exhausted" => run' = run \/ PushRecovery
    /\ run'.pc = "prove" => run' = run \/ PushPending \/ QueryBranch
    /\ run'.pc = "cleanup_preserved" => run' = run \/ QueryBranch \/ MarkProven

LEMMA ArrivalStep == IInv /\ [Next]_vars => SameSubject /\ Arrival
<1>. SUFFICES ASSUME IInv, [Next]_vars PROVE SameSubject /\ Arrival
  OBVIOUS
<1>t. /\ run \in Runs /\ out \in Outs /\ run.then \in {"attempt", "fetch"}
      /\ st # None => st \in States
      /\ stray \in BOOLEAN
  BY DEF IInv, TypeOK, Runs
<1>s. /\ run.pc \notin {"idle", "start", "create"} => st # None
      /\ run.pc = "create" => st = None
      /\ run.pc = "count" => st.races < RaceLimit
  BY DEF IInv, Staged
<1>n. \A s \in States : s # None
  BY NoneAssumption
<1>u. ASSUME st # None
      PROVE  /\ LET u == RecordConflicts(st) IN
                u # None /\ u.original = st.original /\ u.pres = st.pres
             /\ LET u == SetConflicts(st, FALSE, FALSE) IN
                u # None /\ u.original = st.original /\ u.pres = st.pres
             /\ st.races < RaceLimit =>
                   LET u == Counted(st) IN
                   u # None /\ u.original = st.original /\ u.pres = st.pres
  BY <1>t, <1>n, <1>u, UpdatedState, CountedState
<1>p. ASSUME st # None
      PROVE  /\ \A b \in Branch :
                   LET u == [st EXCEPT !.pres = "push_pending", !.branch = b] IN
                   u # None /\ u.original = st.original /\ u.pres = "push_pending"
             /\ LET u == [st EXCEPT !.pres = "proven"] IN u # None /\ u.original = st.original
  <2>1. ASSUME NEW b \in Branch, NEW u, u = [st EXCEPT !.pres = "push_pending", !.branch = b]
        PROVE  u \in States /\ u.original = st.original /\ u.pres = "push_pending"
    BY <1>t, <1>p, <2>1 DEF States
  <2>2. ASSUME NEW u, u = [st EXCEPT !.pres = "proven"]
        PROVE  u \in States /\ u.original = st.original
    BY <1>t, <1>p, <2>2 DEF States
  <2>. QED BY <1>n, <2>1, <2>2
<1>b. st # None => \A s \in Stamps : <<"conflicts", st.thread, s>> \in Branch
  BY <1>t DEF States, Branch
<1>g. \A pc \in Labels : Goto(pc) => run'.pc = pc
  BY <1>t, Going
<1>e. \A code \in Codes : Exit(code) => run'.pc = "idle"
  BY Exiting
<1>1. CASE CommitManaged
  BY <1>1, <1>t, <1>s, <1>g, <1>e
  DEF CommitManaged, SameSubject, Arrival, Labels, Codes, Refusals
<1>2. CASE CreateState
  BY <1>2, <1>t, <1>s, <1>g
  DEF CreateState, SameSubject, Arrival, Labels, Codes, Refusals
<1>3. CASE DetachPublication
  BY <1>3, <1>t, <1>s, <1>g
  DEF DetachPublication, SameSubject, Arrival, Labels, Codes, Refusals
<1>4. CASE Fetch
  BY <1>4, <1>t, <1>s
  DEF Fetch, Runs, SameSubject, Arrival, Labels, Codes, Refusals
<1>5. CASE RebaseOntoOrigin
  BY <1>5, <1>t, <1>s, <1>g
  DEF RebaseOntoOrigin, SameSubject, Arrival, Labels, Codes, Refusals
<1>6. CASE ReportConflict
  BY <1>6, <1>t, <1>s, <1>e, <1>u
  DEF ReportConflict, SameSubject, Arrival, Labels, Codes, Refusals
<1>7. CASE ContinueRebase
  BY <1>7, <1>t, <1>s, <1>g, <1>e, <1>u
  DEF ContinueRebase, FinishRebase, SameSubject, Arrival, Labels, Codes, Refusals
<1>8. CASE FinalizeRebasedCommit
  BY <1>8, <1>t, <1>s, <1>g
  DEF FinalizeRebasedCommit, SameSubject, Arrival, Labels, Codes, Refusals
<1>9. CASE ClearConflicts
  BY <1>9, <1>t, <1>s, <1>g, <1>u
  DEF ClearConflicts, SameSubject, Arrival, Labels, Codes, Refusals
<1>10. CASE CountCleanRace
  BY <1>10, <1>t, <1>s, <1>g, <1>u
  DEF CountCleanRace, SameSubject, Arrival, Labels, Codes, Refusals
<1>11. CASE PublishAttempt
  BY <1>11, <1>t, <1>s
  DEF PublishAttempt, Runs, SameSubject, Arrival, Labels, Codes, Refusals
<1>12. CASE PushMain
  BY <1>12, <1>t, <1>s, <1>g
  DEF PushMain, SameSubject, Arrival, Labels, Codes, Refusals
<1>13. CASE FetchAfterPush
  BY <1>13, <1>t, <1>s, <1>e
  DEF FetchAfterPush, Runs, SameSubject, Arrival, Labels, Codes, Refusals
<1>14. CASE PushRecovery
  BY <1>14, <1>t, <1>s, <1>g, <1>e
  DEF PushRecovery, SameSubject, Arrival, Labels, Codes, Refusals
<1>15. CASE AttachMain
  BY <1>15, <1>t, <1>s, <1>g, <1>e
  DEF AttachMain, SameSubject, Arrival, Labels, Codes, Refusals
<1>16. CASE SwitchToMain
  BY <1>16, <1>t, <1>s, <1>g
  DEF SwitchToMain, SameSubject, Arrival, Labels, Codes, Refusals
<1>17. CASE CleanupPublished
  BY <1>17, <1>t, <1>s, <1>e
  DEF CleanupPublished, CleanupAs, SameSubject, Arrival, Labels, Codes, Refusals
<1>18. CASE CleanupExhausted
  BY <1>18, <1>t, <1>s, <1>e
  DEF CleanupExhausted, CleanupAs, SameSubject, Arrival, Labels, Codes, Refusals
<1>19. CASE CleanupPreserved
  BY <1>19, <1>t, <1>s, <1>e
  DEF CleanupPreserved, CleanupAs, SameSubject, Arrival, Labels, Codes, Refusals
<1>20. CASE AbortRebase
  BY <1>20, <1>t, <1>s, <1>g, <1>e
  DEF AbortRebase, SameSubject, Arrival, Labels, Codes, Refusals
<1>21. CASE RestoreMain
  BY <1>21, <1>t, <1>s, <1>g
  DEF RestoreMain, SameSubject, Arrival, Labels, Codes, Refusals
<1>22. CASE VerifyAbort
  BY <1>22, <1>t, <1>s, <1>g, <1>e
  DEF VerifyAbort, SameSubject, Arrival, Labels, Codes, Refusals
<1>23. CASE AllocatePending
  <2>1. run'.pc = "preserve" /\ st # None
    BY <1>23, <1>s, <1>g DEF AllocatePending, Labels
  <2>2. PICK s \in Stamps : st' = [st EXCEPT !.pres = "push_pending",
                                             !.branch = <<"conflicts", st.thread, s>>]
    BY <1>23 DEF AllocatePending
  <2>3. st' # None /\ st'.original = st.original /\ st'.pres = "push_pending"
    BY <1>p, <1>b, <2>1, <2>2
  <2>. QED BY <2>1, <2>3 DEF SameSubject, Arrival
<1>24. CASE PushPending
  BY <1>24, <1>t, <1>s, <1>g, <1>e
  DEF PushPending, SameSubject, Arrival, Labels, Codes, Refusals
<1>25. CASE QueryBranch
  BY <1>25, <1>t, <1>s, <1>g, <1>e
  DEF QueryBranch, SameSubject, Arrival, Labels, Codes, Refusals
<1>26. CASE MarkProven
  BY <1>26, <1>t, <1>s, <1>g, <1>p, <1>b
  DEF MarkProven, SameSubject, Arrival, Labels, Codes, Refusals
<1>27. CASE Interrupt
  BY <1>27, <1>t, <1>s, <1>e
  DEF Interrupt, SameSubject, Arrival, Labels, Codes, Refusals
<1>28. CASE RebaseKilled
  BY <1>28, <1>t, <1>s, <1>e
  DEF RebaseKilled, SameSubject, Arrival, Labels, Codes, Refusals
<1>29. CASE RemoteUnavailable
  BY <1>29, <1>t, <1>s, <1>e
  DEF RemoteUnavailable, SameSubject, Arrival, Labels, Codes, Refusals
<1>30. CASE PushMainUncertain
  BY <1>30, <1>t, <1>s, <1>g, <1>e
  DEF PushMainUncertain, SameSubject, Arrival, Labels, Codes, Refusals
<1>31. CASE PushPendingUncertain
  BY <1>31, <1>t, <1>s, <1>e
  DEF PushPendingUncertain, SameSubject, Arrival, Labels, Codes, Refusals
<1>32. ASSUME NEW t \in Threads, NEW preserve \in BOOLEAN, Invoke(t, preserve)
       PROVE  SameSubject /\ Arrival
  <2>1. run'.pc \in {"idle", "start", "query", "abort", "continue", "alloc", "fetch"}
    <3>1. CASE Route(t, preserve) \in Refusals
      BY <1>32, <1>e, <3>1 DEF Invoke, Codes
    <3>2. CASE Route(t, preserve) \notin Refusals
      BY <1>32, <3>2, IdleRun DEF Invoke, Route, Refusals, Idle
    <3>. QED BY <3>1, <3>2
  <2>. QED BY <1>32, <2>1 DEF Invoke, SameSubject, Arrival
<1>33. CASE Environment \/ UNCHANGED vars
  BY <1>33 DEF Environment, FlightEnds, ForeignPush, ForeignBranch, SyncFetch, WriteChange,
              ResolveConflict, StrayEdit, UndoStray, ResetToOrigin, vars, SameSubject, Arrival
<1>. QED
  BY <1>1, <1>2, <1>3, <1>4, <1>5, <1>6, <1>7, <1>8, <1>9, <1>10, <1>11, <1>12, <1>13, <1>14, <1>15, <1>16, <1>17, <1>18, <1>19, <1>20, <1>21, <1>22, <1>23, <1>24, <1>25, <1>26, <1>27, <1>28, <1>29, <1>30, <1>31, <1>32, <1>33 DEF Next, Step, Failure

----------------------------------------------------------------------------
(* What a run can publish *)

LEMMA HoldsGrows ==
    ASSUME NEW c \in Commit, NEW t \in Commit, NEW u \in Commit, NEW x,
           IsPrefix(t, u), Holds(c, t, x)
    PROVE  Holds(c, u, x)
BY PrefixTransitive, SplitCommit DEF Holds

LEMMA HoldsForwarded ==
    ASSUME NEW c \in Commit, NEW t \in Commit, NEW x, IsPrefix(c, t), Holds(c, t, x)
    PROVE  Holds(t, t, x)
BY PrefixReflexive, PrefixChanges DEF Holds

\* Off main, the newest entry is the one that is carried.
LEMMA HoldsOnTop ==
    ASSUME NEW c \in Commit, NEW t \in Commit, NEW x, Holds(c, t, x), ~IsPrefix(c, t)
    PROVE  c # <<>> /\ Last(c).change = x /\ IsPrefix(Front(c), t)
BY DEF Holds

LEMMA HoldsReplayed ==
    ASSUME NEW from \in Commit, NEW onto \in Commit, NEW t \in Commit, NEW fresh \in BOOLEAN,
           from # <<>>, IsPrefix(onto, t)
    PROVE  Holds(Replayed(onto, from, fresh), t, Last(from).change)
<1>1. PICK c : c = Replayed(onto, from, fresh)
  OBVIOUS
<1>2. /\ c # <<>> /\ Front(c) = onto /\ Last(from).change \in Changes(c)
      /\ Last(c) = [change |-> Last(from).change, todo |-> fresh]
  BY <1>1, ReplayedCommit
<1>. QED BY <1>1, <1>2 DEF Holds

LEMMA HoldsAmended ==
    ASSUME NEW c \in Commit, NEW t \in Commit, NEW x,
           c # <<>>, Holds(c, t, x), ~IsPrefix(c, t)
    PROVE  Holds(Amended(c), t, x)
BY AmendedCommit DEF Holds

LEMMA CarryStep == IInv /\ [Next]_vars => Carrying'
<1>. SUFFICES ASSUME IInv, [Next]_vars PROVE Carrying'
  OBVIOUS
<1>t. /\ tracking \in Commit /\ head \in Commit /\ main \in Commit /\ origin \in Commit
      /\ tracking' \in Commit /\ head' \in Commit /\ main' \in Commit
      /\ st # None => st \in States /\ st.original \in Commit
      /\ rb # None => rb.from \in Commit /\ rb.onto \in Commit /\ rb \in Rebases
      /\ attached \in BOOLEAN
  BY TypeStep DEF IInv, TypeOK, States, Rebases
<1>c. CheckedOut /\ Carrying /\ Staged
  BY DEF IInv
<1>g. IsPrefix(tracking, tracking')
  BY RemoteStep
<1>a. SameSubject /\ Arrival
  BY ArrivalStep
<1>f. \A c \in Commit : \A x : Holds(c, tracking, x) => Holds(c, tracking', x)
  BY <1>t, <1>g, HoldsGrows
<1>s. st # None /\ st' # None => Subject' = Subject
  BY <1>a DEF SameSubject, Subject
<1>h. st # None => Holds(main, tracking', Subject) /\ (rb = None => Holds(head, tracking', Subject))
  BY <1>t, <1>c, <1>f DEF Carrying, Carries
<1> DEFINE Rest ==
      /\ Holds(main', tracking', Subject)
      /\ rb' = None => Holds(head', tracking', Subject)
      /\ rb' # None => /\ Holds(rb'.from, tracking', Subject)
                       /\ rb'.from # <<>> /\ Last(rb'.from).change = Subject
<1>r. ASSUME Rest, st # None, run.pc # "create", ~CommitManaged PROVE Carrying'
  <2>1. run'.pc # "create"
    BY <1>r, <1>a DEF Arrival
  <2>2. st' # None => st'.original # <<>> /\ Subject' = Subject /\ Subject \in Own
    BY <1>r, <1>a, <1>c, <1>s DEF SameSubject, Carrying
  <2>. QED BY <1>r, <2>1, <2>2 DEF Carrying, Carries
<1> HIDE DEF Rest
<1>1. CASE CommitManaged
  <2>1. st' = None /\ tracking' = tracking
    BY <1>1, <1>c DEF CommitManaged, Staged
  <2>2. CASE Exit("refused")
    BY <2>1, <2>2, IdleRun DEF Exit, Carrying
  <2>3. CASE ~(stray \/ work = None \/ ~NothingUnpublished)
    <3>1. head' = Append(head, [change |-> work, todo |-> TRUE])
      BY <1>1, <2>3 DEF CommitManaged, MoveHead
    <3>2. work \in Own /\ [change |-> work, todo |-> TRUE] \in Entry
      BY <2>3 DEF IInv, TypeOK, Entry
    <3>3. head' # <<>> /\ Last(head') = [change |-> work, todo |-> TRUE] /\ Front(head') = head
      BY <1>t, <3>1, <3>2, AppendedCommit
    <3>. QED BY <2>1, <2>3, <3>2, <3>3 DEF Carrying, NothingUnpublished
  <2>. QED BY <1>1, <2>2, <2>3 DEF CommitManaged
<1>2. CASE CreateState
  <2>1. /\ run.pc = "create" /\ attached /\ head = main /\ rb = None
        /\ head' = head /\ main' = main /\ rb' = None
    BY <1>2, <1>c DEF CreateState, Staged, CheckedOut, tree, refs
  <2>2. run' # run
    BY <2>1, <1>2, Going DEF CreateState, Labels, IInv, TypeOK
  <2>3. run'.pc # "create"
    BY <1>a, <2>1, <2>2, <1>2 DEF Arrival, CommitManaged
  <2>4. head # <<>> /\ Last(head).change \in Own /\ IsPrefix(Front(head), tracking)
    BY <1>c, <2>1 DEF Carrying
  <2>5. st'.original = head /\ Subject' = Last(head).change
    <3>1. run.thread \in Threads
      BY <1>c, <2>1 DEF Staged
    <3>2. st' \in States /\ st'.original = head
      BY <1>2, <1>t, <3>1, StartedState DEF CreateState
    <3>. QED BY <3>2, NoneAssumption DEF Subject
  <2>6. Last(head).change \in Changes(head)
    BY <1>t, <2>4, NewestChange
  <2>7. Holds(head, tracking, Last(head).change)
    BY <2>4, <2>6 DEF Holds
  <2>8. Holds(head, tracking', Last(head).change)
    BY <1>t, <1>f, <2>7
  <2>. QED BY <2>1, <2>3, <2>4, <2>5, <2>8 DEF Carrying, Carries
<1>3. CASE StillStep /\ ~CreateState
  <2>1. UNCHANGED <<head, main, rb>>
    BY <1>3, StillStepKeepsTree DEF tree
  <2>2. CASE st = None
    <3>1. st' = None
      BY <1>3, <1>a, <2>2 DEF Arrival
    <3>2. run'.pc = "create" => run.pc = "create" \/ CommitManaged
      BY <1>a DEF Arrival
    <3>3. run.pc = "create" => IsPrefix(Front(head), tracking')
      <4>1. run.pc = "create" => Front(head) \in Commit /\ IsPrefix(Front(head), tracking)
        BY <1>t, <1>c, SplitCommit DEF Carrying
      <4>. QED BY <1>t, <1>g, <4>1, PrefixTransitive
    <3>. QED BY <1>1, <1>c, <2>1, <3>1, <3>2, <3>3 DEF Carrying
  <2>3. CASE st # None
    <3>1. Rest
      BY <1>t, <1>c, <1>f, <1>h, <2>1, <2>3 DEF Rest, Carrying, Carries
    <3>2. run.pc # "create"
      BY <1>c, <2>3 DEF Staged
    <3>. QED BY <1>1, <1>r, <2>3, <3>1, <3>2
  <2>. QED BY <2>2, <2>3
<1>4. CASE DetachPublication
  <2>1. st # None /\ rb = None /\ run.pc = "detach" /\ UNCHANGED <<head, main, rb>>
    BY <1>4, <1>c DEF DetachPublication, Staged, refs
  <2>2. Rest
    BY <1>h, <2>1 DEF Rest
  <2>. QED BY <1>1, <1>r, <2>1, <2>2
<1>5. ASSUME NEW u \in {"genuine", "todo", "unstarted"}, RebaseStopped(u), Diverged, st # None, rb = None, tracking' = tracking
      PROVE  Rest
  <2>1. /\ Holds(head, tracking, Subject) /\ head # <<>>
        /\ Last(head).change = Subject
    BY <1>5, <1>t, <1>c, HoldsOnTop DEF Diverged, Carrying, Carries
  <2>2. main' = main /\ rb' # None /\ rb'.from = head
    <3>1. rb' = [from |-> head, onto |-> tracking, attached |-> attached, unmerged |-> u]
      BY <1>5 DEF RebaseStopped
    <3>2. main' = main
      BY <1>5 DEF RebaseStopped
    <3>3. rb' \in Rebases
      BY <1>t, <1>5, <3>1 DEF Rebases
    <3>. QED BY <3>1, <3>2, <3>3, NoneAssumption
  <2>. QED BY <1>5, <1>h, <2>1, <2>2 DEF Rest
<1>6. CASE RebaseOntoOrigin
  <2>1. /\ st # None /\ rb = None /\ run.pc = "rebase" /\ tracking' = tracking
        /\ Holds(head, tracking, Subject) /\ Holds(main, tracking, Subject)
    BY <1>6, <1>c DEF RebaseOntoOrigin, Staged, Carrying, Carries
  <2>2. CASE IsPrefix(head, tracking) /\ MoveHead(tracking) /\ UNCHANGED rb
    <3>1. Holds(tracking, tracking, Subject)
      BY <1>t, <2>1, <2>2, HoldsForwarded
    <3>. QED BY <1>1, <1>r, <2>1, <2>2, <3>1 DEF MoveHead, Rest
  <2>3. CASE UNCHANGED <<main, head, rb>>
    BY <1>1, <1>r, <2>1, <2>3 DEF Rest
  <2>4. CASE Diverged /\ UNCHANGED rb /\
             \E fresh \in BOOLEAN : MoveHead(Replayed(tracking, head, fresh))
    <3>1. PICK fresh \in BOOLEAN : MoveHead(Replayed(tracking, head, fresh))
      BY <2>4
    <3>2. head # <<>> /\ Last(head).change = Subject
      BY <1>t, <2>1, <2>4, HoldsOnTop DEF Diverged
    <3>3. Holds(Replayed(tracking, head, fresh), tracking, Subject)
      BY <1>t, <3>2, HoldsReplayed, PrefixReflexive
    <3>. QED BY <1>1, <1>r, <2>1, <2>4, <3>1, <3>3 DEF MoveHead, Rest
  <2>5. CASE Diverged /\ \E u \in {"genuine", "todo"} : RebaseStopped(u)
    BY <1>1, <1>5, <1>r, <2>1, <2>5
  <2>. QED BY <1>6, <2>2, <2>3, <2>4, <2>5 DEF RebaseOntoOrigin, tree
<1>7. CASE RebaseKilled
  <2>1. st # None /\ rb = None /\ run.pc = "rebase" /\ tracking' = tracking
    BY <1>7, <1>c DEF RebaseKilled, Staged
  <2>. QED BY <1>1, <1>5, <1>7, <1>r, <2>1 DEF RebaseKilled
<1>8. CASE ContinueRebase
  <2>1. /\ st # None /\ rb # None /\ run.pc = "continue" /\ tracking' = tracking
        /\ rb.from # <<>> /\ Last(rb.from).change = Subject /\ Holds(rb.from, tracking, Subject)
        /\ IsPrefix(rb.onto, tracking) /\ Holds(main, tracking, Subject)
    BY <1>8, <1>c DEF ContinueRebase, Staged, Carrying, Carries, CheckedOut
  <2>2. CASE \E fresh \in BOOLEAN : FinishRebase(fresh)
    <3>1. PICK fresh \in BOOLEAN : FinishRebase(fresh)
      BY <2>2
    <3>2. Holds(Replayed(rb.onto, rb.from, fresh), tracking, Subject)
      BY <1>t, <2>1, HoldsReplayed
    <3>. QED BY <1>1, <1>r, <2>1, <3>1, <3>2 DEF FinishRebase, Rest
  <2>3. CASE UNCHANGED <<main, rb>>
    BY <1>1, <1>r, <2>1, <2>3 DEF Rest
  <2>4. CASE main' = main /\ \E u \in {"genuine", "todo"} : rb' = [rb EXCEPT !.unmerged = u]
    <3>1. rb'.from = rb.from /\ rb' # None
      <4>1. PICK u \in {"genuine", "todo"} : rb' = [rb EXCEPT !.unmerged = u]
        BY <2>4
      <4>2. rb'.from = rb.from
        BY <1>t, <2>1, <4>1 DEF Rebases
      <4>3. rb' # None
        BY <1>t, <2>1, <4>1, NoneAssumption DEF Rebases
      <4>. QED BY <4>2, <4>3
    <3>. QED BY <1>1, <1>r, <2>1, <2>4, <3>1 DEF Rest
  <2>. QED BY <1>8, <2>2, <2>3, <2>4 DEF ContinueRebase, tree
<1>9. CASE FinalizeRebasedCommit
  <2>1. /\ st # None /\ rb = None /\ rb' = None /\ run.pc = "finalize" /\ tracking' = tracking
        /\ Holds(head, tracking, Subject) /\ Holds(main, tracking, Subject)
    BY <1>9, <1>c DEF FinalizeRebasedCommit, Staged, Carrying, Carries
  <2>2. CASE Fresh(head)
    BY <1>1, <1>9, <1>r, <2>1, <2>2 DEF FinalizeRebasedCommit, MoveHead, Rest
  <2>3. CASE ~Fresh(head)
    <3>1. ~IsPrefix(head, tracking)
      <4>1. IsPrefix(head, tracking) => IsPrefix(head, origin)
        BY <1>t, PrefixTransitive DEF IInv, Following
      <4>. QED BY <1>t, <2>3, <4>1, FreshPrefix DEF IInv, Agreeing
    <3>2. Holds(Amended(head), tracking, Subject)
      BY <1>t, <2>1, <2>3, <3>1, HoldsAmended DEF Fresh
    <3>. QED BY <1>1, <1>9, <1>r, <2>1, <2>3, <3>2 DEF FinalizeRebasedCommit, MoveHead, Rest
  <2>. QED BY <2>2, <2>3
<1>10. CASE AttachMain
  <2>1. /\ st # None /\ rb = None /\ rb' = None /\ run.pc = "attach"
        /\ head' = head /\ main' \in {main, head}
    BY <1>10, <1>c DEF AttachMain, Staged, tree
  <2>. QED BY <1>1, <1>h, <1>r, <2>1 DEF Rest
<1>11. CASE SwitchToMain \/ RestoreMain
  <2>1. /\ st # None /\ rb = None /\ rb' = None /\ run.pc \in {"switch", "restore"}
        /\ head' = main /\ main' = main
    BY <1>11, <1>c DEF SwitchToMain, RestoreMain, Staged, refs
  <2>. QED BY <1>1, <1>h, <1>r, <2>1 DEF Rest
<1>12. CASE AbortRebase
  <2>1. /\ st # None /\ rb # None /\ run.pc = "abort" /\ main' = main
        /\ rb.from # <<>> /\ Last(rb.from).change = Subject
        /\ Holds(rb.from, tracking', Subject)
    BY <1>12, <1>c, <1>t, <1>f DEF AbortRebase, Staged, Carrying, Carries, refs
  <2>2. UNCHANGED rb \/ (rb' = None /\ head' = rb.from)
    BY <1>12 DEF AbortRebase, tree
  <2>. QED BY <1>1, <1>h, <1>r, <2>1, <2>2 DEF Rest
<1>13. CASE ResolveConflict
  <2>1. rb # None /\ st # None /\ run.pc = "idle" /\ main' = main
    BY <1>13, <1>c DEF ResolveConflict, Staged, refs
  <2>2. rb' # None /\ rb'.from = rb.from
    BY <1>13, <1>t, <2>1, NoneAssumption DEF ResolveConflict, Rebases
  <2>. QED BY <1>1, <1>c, <1>h, <1>r, <1>t, <1>f, <2>1, <2>2 DEF Rest, Carrying, Carries
<1>14. CASE ResetToOrigin
  <2>1. st' = None /\ run'.pc = "idle"
    BY <1>14 DEF ResetToOrigin
  <2>. QED BY <2>1 DEF Carrying
<1>. QED
  BY <1>1, <1>2, <1>3, <1>4, <1>6, <1>7, <1>8, <1>9, <1>10, <1>11, <1>12, <1>13, <1>14
  DEF Next, Step, Failure, Environment, StillStep

----------------------------------------------------------------------------
(* What has landed, what agrees with its TODO.md, and where every change is *)

LEMMA LandedStep == IInv /\ [Next]_vars => Landed'
<1>. SUFFICES ASSUME IInv, [Next]_vars PROVE Landed'
  OBVIOUS
<1>t. /\ origin \in Commit /\ tracking \in Commit /\ head \in Commit
      /\ st # None => st \in States /\ st.original \in Commit
      /\ side \in [Branch -> Commit \cup {None}]
  BY DEF IInv, TypeOK, States
<1>c. Landed /\ Carrying /\ Staged /\ Following
  BY DEF IInv
<1>g. durable \subseteq durable'
  BY RemoteStep
<1>a. SameSubject /\ Arrival
  BY ArrivalStep
<1>s. st # None /\ st' # None => Subject' = Subject
  BY <1>a DEF SameSubject, Subject
<1>1. CASE st' = None
  BY <1>1, StagedStep DEF Landed, Staged
<1>2. CASE st = None /\ st' # None
  <2>1. CreateState /\ run.thread \in Threads
    BY <1>2, <1>a, <1>c DEF Arrival, Staged, CreateState
  <2>2. run'.pc = "detach" /\ st'.pres = "none"
    BY <1>t, <2>1, Going, StartedState DEF CreateState, Labels, IInv, TypeOK
  <2>. QED BY <2>2 DEF Landed
<1>3. CASE st # None /\ st' # None /\ Subject \in durable
  BY <1>g, <1>s, <1>3 DEF Landed
<1>4. CASE st # None /\ st' # None /\ Subject \notin durable
  <2>1. /\ st.pres # "proven"
        /\ run.pc \notin {"attach", "switch", "cleanup", "cleanup_exhausted", "prove",
                          "cleanup_preserved"}
    BY <1>4, <1>c DEF Landed
  <2>2. st'.pres # "proven"
    BY <1>4, <1>a, <2>1 DEF Arrival, MarkProven
  <2>3. Subject \in Changes(st.original)
    BY <1>4, <1>t, <1>c, NewestChange DEF Carrying, Subject
  <2>4. ASSUME PushMain, run'.pc = "attach" PROVE Subject \in durable'
    <3>1. Subject \in Changes(head)
      BY <1>4, <1>c, <2>4 DEF PushMain, Staged, Carrying, Carries, Holds
    <3>2. ~Goto("refetch")
      BY <2>4, Going DEF Labels, IInv, TypeOK
    <3>. QED BY <2>4, <3>1, <3>2 DEF PushMain, LandOnMain
  <2>5. ASSUME PublishAttempt, run'.pc = "attach" PROVE Subject \in durable
    <3>1. Subject \in Changes(head)
      BY <1>4, <1>c, <2>5 DEF PublishAttempt, Staged, Carrying, Carries, Holds
    <3>2. IsPrefix(head, tracking)
      BY <2>5 DEF PublishAttempt, AlreadyPublished, IInv, TypeOK, Runs
    <3>. QED BY <1>t, <1>c, <3>1, <3>2, PrefixChanges DEF Following
  <2>6. ASSUME PushRecovery, run'.pc = "cleanup_exhausted" PROVE Subject \in durable'
    <3>1. Subject \in Changes(head)
      BY <1>4, <1>c, <2>6 DEF PushRecovery, Staged, Carrying, Carries, Holds
    <3>2. ~Exit("failed")
      BY <2>6, Exiting DEF Codes
    <3>. QED BY <2>6, <3>1, <3>2 DEF PushRecovery, LandOnBranch
  <2>7. ASSUME PushPending, run'.pc = "prove" PROVE Subject \in durable'
    <3>1. ~Exit("preservation_pending")
      BY <2>7, Exiting DEF Codes
    <3>. QED BY <2>3, <2>7, <3>1 DEF PushPending, LandOnBranch
  <2>8. ASSUME QueryBranch, run'.pc \in {"prove", "cleanup_preserved"} PROVE Subject \in durable
    <3>1. st.branch \in Branch
      BY <1>4, <1>c, <2>8 DEF QueryBranch, Staged
    <3>2. side[st.branch] = st.original
      BY <2>8, Going, Exiting DEF QueryBranch, RemoteBranch, Labels, Codes, IInv, TypeOK
    <3>3. Own \cap Changes(st.original) \subseteq durable
      BY <1>4, <1>t, <1>c, <3>1, <3>2, NoneAssumption DEF Following
    <3>. QED BY <1>4, <1>c, <2>3, <3>3 DEF Carrying
  <2>9. run'.pc \notin {"switch", "cleanup"}
    BY <1>a, <2>1 DEF Arrival, AttachMain, SwitchToMain
  <2>10. ~MarkProven
    BY <2>1 DEF MarkProven
  <2>. QED
    BY <1>a, <1>g, <1>s, <1>4, <2>1, <2>2, <2>4, <2>5, <2>6, <2>7, <2>8, <2>9, <2>10
    DEF Arrival, Landed
<1>. QED BY <1>1, <1>2, <1>3, <1>4

LEMMA AgreeStep == IInv /\ [Next]_vars => Agreeing'
<1>. SUFFICES ASSUME IInv, [Next]_vars PROVE Agreeing'
  OBVIOUS
<1>t. /\ origin \in Commit /\ tracking \in Commit /\ head \in Commit
      /\ \A f \in flight : f.commit \in Commit
  BY DEF IInv, TypeOK
<1>c. Agreeing /\ Staged /\ Following
  BY DEF IInv
<1>a. Arrival
  BY ArrivalStep
<1>h. run.pc = "push" => AllFresh(head)
  <2>. SUFFICES ASSUME run.pc = "push" PROVE AllFresh(head)
    OBVIOUS
  <2>1. Holds(head, tracking, Subject) /\ Fresh(head)
    BY <1>c DEF Staged, IInv, Carrying, Carries, Agreeing
  <2>2. CASE IsPrefix(head, tracking)
    BY <1>t, <1>c, <2>2, PrefixTransitive, FreshPrefix DEF Following, Agreeing
  <2>3. CASE ~IsPrefix(head, tracking)
    <3>1. head # <<>> /\ Front(head) \in Commit /\ IsPrefix(Front(head), tracking)
      BY <1>t, <2>1, <2>3, HoldsOnTop, SplitCommit
    <3>2. AllFresh(Front(head))
      BY <1>t, <1>c, <3>1, PrefixTransitive, FreshPrefix DEF Following, Agreeing
    <3>. QED BY <1>t, <2>1, <3>1, <3>2, FreshOnTop
  <2>. QED BY <2>2, <2>3
<1>b. \A b \in Branch : b # MainRef
  BY DEF Branch, MainRef
<1>1. AllFresh(origin') /\ \A f \in flight' : f.ref = MainRef => AllFresh(f.commit)
  <2>. DEFINE Goal == AllFresh(origin') /\ \A f \in flight' : f.ref = MainRef => AllFresh(f.commit)
  <2>1. ASSUME UNCHANGED remote PROVE Goal
    BY <1>c, <2>1 DEF remote, Agreeing
  <2>2. ASSUME UNCHANGED <<origin, flight>> PROVE Goal
    BY <1>c, <2>2 DEF Agreeing
  <2>3. ASSUME NEW b \in Branch, NEW c, LeaveInFlight(b, c) PROVE Goal
    BY <1>b, <1>c, <2>3 DEF LeaveInFlight, Agreeing
  <2>4. ASSUME NEW c, AllFresh(c), LandOnMain(c) PROVE Goal
    BY <1>c, <2>4 DEF LandOnMain, Agreeing
  <2>5. CASE PushMain
    BY <1>h, <2>1, <2>4, <2>5 DEF PushMain
  <2>6. CASE PushMainUncertain
    <3>1. ASSUME LeaveInFlight(MainRef, head), AllFresh(head) PROVE Goal
      BY <1>c, <3>1 DEF LeaveInFlight, Agreeing
    <3>. QED BY <1>h, <2>1, <2>4, <2>6, <3>1 DEF PushMainUncertain
  <2>7. CASE PushRecovery
    <3>1. \A s \in Stamps : <<"recovery", st.thread, s>> \in Branch
      BY <1>c, <2>7 DEF PushRecovery, IInv, Staged, TypeOK, States, Branch
    <3>. QED BY <2>1, <2>2, <2>3, <2>7, <3>1 DEF PushRecovery, LandOnBranch
  <2>8. CASE PushPending \/ PushPendingUncertain
    <3>1. st.branch \in Branch
      BY <1>c, <2>8 DEF PushPending, PushPendingUncertain, Staged
    <3>. QED BY <2>1, <2>2, <2>3, <2>8, <3>1
         DEF PushPending, PushPendingUncertain, LandOnBranch
  <2>9. CASE LocalStep \/ Fetch \/ FetchAfterPush
    BY <2>1, <2>9, LocalStepKeepsRemote DEF Fetch, FetchAfterPush, remote
  <2>10. ASSUME NEW f \in flight, NEW lands \in BOOLEAN, FlightEnds(f, lands) PROVE Goal
    BY <1>c, <2>10 DEF FlightEnds, Agreeing
  <2>11. ASSUME NEW c \in Foreign, ForeignPush(c) PROVE Goal
    <3>1. [change |-> c, todo |-> TRUE] \in Entry
      BY DEF Entry
    <3>2. AllFresh(Append(origin, [change |-> c, todo |-> TRUE]))
      BY <1>t, <1>c, <3>1, FreshAppend DEF Agreeing
    <3>. QED BY <2>4, <2>11, <3>2 DEF ForeignPush
  <2>12. ASSUME NEW b \in Branch, ForeignBranch(b) PROVE Goal
    BY <2>2, <2>12 DEF ForeignBranch
  <2>13. CASE \/ SyncFetch \/ UNCHANGED vars
              \/ \E t \in Threads, preserve \in BOOLEAN : Invoke(t, preserve)
              \/ \E x \in Own : WriteChange(x)
    BY <2>1, <2>13 DEF SyncFetch, vars, Invoke, WriteChange
  <2>. QED
    BY <2>5, <2>6, <2>7, <2>8, <2>9, <2>10, <2>11, <2>12, <2>13
    DEF Next, Step, Failure, Environment, LocalStep
<1>2. ASSUME run'.pc \in {"clear", "count", "attempt", "push"} PROVE Fresh(head')
  <2>1. CASE FinalizeRebasedCommit
    <3>1. Fresh(head) \/ Fresh(Amended(head))
      BY <1>t, AmendedCommit DEF Fresh
    <3>. QED BY <2>1, <3>1 DEF FinalizeRebasedCommit, MoveHead
  <2>2. CASE ClearConflicts \/ CountCleanRace \/ PublishAttempt
    BY <1>c, <2>2 DEF ClearConflicts, CountCleanRace, PublishAttempt, Agreeing, tree
  <2>3. CASE run' = run
    <3>1. Fresh(head) /\ run.pc \in {"clear", "count", "attempt", "push"}
      BY <1>2, <1>c, <2>3 DEF Agreeing
    <3>2. StillStep \/ FinalizeRebasedCommit
      BY <3>1
      DEF Next, Step, Failure, Environment, StillStep, CommitManaged, DetachPublication,
          RebaseOntoOrigin, RebaseKilled, ContinueRebase, AttachMain, SwitchToMain,
          AbortRebase, RestoreMain, ResolveConflict, ResetToOrigin
    <3>. QED BY <2>1, <3>1, <3>2, StillStepKeepsTree DEF tree
  <2>. QED BY <1>2, <1>a, <2>1, <2>2, <2>3 DEF Arrival
<1>. QED BY <1>1, <1>2 DEF Agreeing

LEMMA AccountStep == IInv /\ [Next]_vars => Accounted'
<1>. SUFFICES ASSUME IInv, [Next]_vars PROVE Accounted'
  OBVIOUS
<1>t. /\ origin \in Commit /\ tracking \in Commit /\ head \in Commit /\ main \in Commit
      /\ work \in Own \cup {None}
  BY DEF IInv, TypeOK
<1>c. Accounted /\ Carrying /\ Staged /\ Following /\ Landed /\ CheckedOut
  BY DEF IInv
<1>g. durable \subseteq durable'
  BY RemoteStep
<1>a. SameSubject /\ Arrival
  BY ArrivalStep
<1>k. ~CommitManaged => Committed' = Committed
  <2>1. ASSUME UNCHANGED <<work, unwritten>> PROVE Committed' = Committed
    BY <2>1 DEF Committed
  <2>2. ASSUME NEW x \in Own, WriteChange(x) PROVE Committed' = Committed
    BY <2>2, NoneAssumption DEF WriteChange, Committed
  <2>. QED
    BY <2>1, <2>2
    DEF Next, Step, Failure, Environment, CreateState, DetachPublication, Fetch,
        RebaseOntoOrigin, ReportConflict, ContinueRebase, FinalizeRebasedCommit, ClearConflicts,
        CountCleanRace, PublishAttempt, PushMain, FetchAfterPush, PushRecovery, AttachMain,
        SwitchToMain, CleanupPublished, CleanupExhausted, CleanupPreserved, CleanupAs,
        AbortRebase, RestoreMain, VerifyAbort, AllocatePending, PushPending, QueryBranch,
        MarkProven, Interrupt, RebaseKilled, RemoteUnavailable, PushMainUncertain,
        PushPendingUncertain, FlightEnds, ForeignPush, ForeignBranch, SyncFetch,
        ResolveConflict, StrayEdit, UndoStray, ResetToOrigin, Invoke, owner, vars
<1>1. CASE CommitManaged
  <2>1. st = None /\ st' = None /\ run.pc = "start" /\ attached /\ head = main /\ durable' = durable
    BY <1>1, <1>c DEF CommitManaged, Staged, CheckedOut, remote
  <2>2. CASE Exit("refused") /\ UNCHANGED <<main, head, work>>
    <3>1. run'.pc = "idle" /\ Committed' = Committed
      BY <1>1, <2>2, IdleRun DEF Exit, Committed, CommitManaged
    <3>. QED BY <1>c, <2>1, <2>2, <3>1 DEF Accounted
  <2>3. CASE ~(stray \/ work = None \/ ~NothingUnpublished)
    <3>1. /\ head' = Append(head, [change |-> work, todo |-> TRUE]) /\ Committed' \subseteq Committed \cup {work}
          /\ run'.pc = "create"
      BY <1>1, <2>3, Going DEF CommitManaged, MoveHead, Committed, Labels, IInv, TypeOK
    <3>2. Last(head').change = work
      <4>1. work \in Own /\ [change |-> work, todo |-> TRUE] \in Entry
        BY <1>t, <2>3 DEF Entry
      <4>2. Last(head') = [change |-> work, todo |-> TRUE]
        BY <1>t, <3>1, <4>1, AppendedCommit
      <4>. QED BY <4>2
    <3>3. Committed \subseteq durable
      <4>1. Changes(main) \subseteq durable
        BY <1>t, <1>c, <2>1, <2>3, PrefixChanges DEF Following, NothingUnpublished
      <4>. QED BY <1>c, <2>1, <4>1 DEF Accounted
    <3>. QED BY <2>1, <3>1, <3>2, <3>3 DEF Accounted
  <2>. QED BY <1>1, <2>2, <2>3 DEF CommitManaged
<1>2. CASE st = None /\ st' # None
  <2>1. CreateState
    BY <1>2, <1>a DEF Arrival
  <2>2. run.thread \in Threads /\ run.pc = "create"
    BY <1>c, <2>1 DEF CreateState, Staged
  <2>3. Subject' = Last(head).change
    BY <1>2, <1>t, <2>1, <2>2, StartedState DEF CreateState, Subject
  <2>. QED BY <1>2, <1>c, <1>g, <1>k, <2>2, <2>3 DEF Accounted, CommitManaged
<1>3. CASE st # None /\ st' # None
  <2>1. Subject' = Subject /\ ~CommitManaged
    BY <1>3, <1>a, <1>c DEF SameSubject, Subject, CommitManaged, Staged
  <2>. QED BY <1>3, <1>c, <1>g, <1>k, <2>1 DEF Accounted
<1>4. CASE st # None /\ st' = None
  <2>1. Subject \in durable /\ ~CommitManaged
    BY <1>4, <1>a, <1>c
    DEF Arrival, CleanupPublished, CleanupExhausted, CleanupPreserved, CleanupAs, Landed,
        CommitManaged, Staged
  <2>. QED BY <1>4, <1>c, <1>g, <1>k, <2>1 DEF Accounted
<1>5. CASE st = None /\ st' = None /\ ~CommitManaged
  <2>1. StillStep \/ ResetToOrigin
    BY <1>5, <1>c
    DEF Next, Step, Failure, Environment, StillStep, DetachPublication, RebaseOntoOrigin,
        RebaseKilled, ContinueRebase, FinalizeRebasedCommit, AttachMain, SwitchToMain,
        AbortRebase, RestoreMain, ResolveConflict, Staged
  <2>2. CASE ResetToOrigin
    <3>1. run.pc = "idle" /\ Changes(main) \subseteq durable
      BY <2>2 DEF ResetToOrigin
    <3>. QED BY <1>5, <1>c, <1>g, <1>k, <3>1 DEF Accounted
  <2>3. CASE StillStep
    <3>1. head' = head /\ main' = main
      BY <2>3, StillStepKeepsTree DEF tree
    <3>2. run'.pc = "create" => run.pc = "create"
      BY <1>5, <1>a DEF Arrival
    <3>3. run.pc = "create" => Last(head).change \in Changes(main)
      BY <1>t, <1>c, NewestChange DEF Staged, CheckedOut, Carrying
    <3>. QED BY <1>5, <1>c, <1>g, <1>k, <3>1, <3>2, <3>3 DEF Accounted
  <2>. QED BY <2>1, <2>2, <2>3
<1>. QED BY <1>1, <1>2, <1>3, <1>4, <1>5

----------------------------------------------------------------------------
(* The theorems *)

LEMMA InitIInv == Init => IInv
<1>. SUFFICES ASSUME Init PROVE IInv
  OBVIOUS
<1>1. TypeOK
  <2>1. out \in Outs /\ run \in Runs /\ faults \in 0 .. MaxFaults
    BY IdleRun, BoundAssumption DEF Init, Outs, Codes
  <2>. QED BY <2>1, EmptyCommit DEF Init, TypeOK
<1>2. Staged /\ CheckedOut /\ Carrying /\ Landed
  BY NoneAssumption, IdleRun DEF Init, Staged, CheckedOut, Carrying, Landed
<1>3. Following
  BY EmptyCommit, PrefixReflexive DEF Init, Following
<1>4. Agreeing
  BY EmptyCommit, IdleRun DEF Init, Agreeing, AllFresh
<1>5. Accounted
  BY DEF Init, Accounted, Committed
<1>. QED BY <1>1, <1>2, <1>3, <1>4, <1>5 DEF IInv

LEMMA Inductive == IInv /\ [Next]_vars => IInv'
BY TypeStep, StagedStep, RemoteStep, CheckoutStep, CarryStep, LandedStep, AgreeStep, AccountStep
DEF IInv

\* The inductive invariant holds in every state of every behaviour.
THEOREM Invariance == Spec => []IInv
BY InitIInv, Inductive, PTL DEF Spec

\* Every variable stays in its domain, the races counted for one publication
\* and the branch recorded for it among them.
THEOREM TypeCorrectness == Spec => []TypeOK
<1>1. IInv => TypeOK
  BY DEF IInv
<1>. QED BY <1>1, Invariance, PTL

\* A committed change is never lost, whatever interrupts the runs.
THEOREM NeverLost == Spec => []NothingLost
<1>1. IInv => NothingLost
  <2>. SUFFICES ASSUME IInv, NEW x \in Committed, x \notin durable
                PROVE  \/ st # None /\ x \in Changes(st.original)
                       \/ x \in Changes(main)
    BY DEF NothingLost, Committed
  <2>1. IF st # None THEN x = Subject
        ELSE IF run.pc = "create" THEN x = Last(head).change
        ELSE x \in Changes(main)
    BY DEF IInv, Accounted
  <2>2. CASE st # None
    <3>1. st.original \in Commit /\ st.original # <<>>
      BY <2>2 DEF IInv, TypeOK, States, Carrying
    <3>. QED BY <2>1, <2>2, <3>1, NewestChange DEF Subject
  <2>3. CASE st = None /\ run.pc = "create"
    <3>1. head = main /\ head # <<>> /\ head \in Commit
      BY <2>3 DEF IInv, TypeOK, Staged, CheckedOut, Carrying
    <3>. QED BY <2>1, <2>3, <3>1, NewestChange
  <2>. QED BY <2>1, <2>2, <2>3
<1>. QED BY <1>1, Invariance, PTL

\* A preservation is recorded as proven only after the remote had it.
THEOREM ProvenOnlyAfterPush == Spec => []ProvenWasPushed
<1>1. IInv => ProvenWasPushed
  BY DEF IInv, Landed, ProvenWasPushed
<1>. QED BY <1>1, Invariance, PTL

\* A run never publishes more than the one commit it is about.
THEOREM PublishesOneCommit == Spec => []OneCommitAhead
<1>1. IInv => OneCommitAhead
  BY DEF IInv, CheckedOut, Carrying, Carries, Holds, OneCommitAhead
<1>. QED BY <1>1, Invariance, PTL

\* Every commit of the remote main branch agrees with its TODO.md.
THEOREM TodoAgrees == Spec => []TodoAgreesOnMain
<1>1. IInv => TodoAgreesOnMain
  BY DEF IInv, Agreeing, AllFresh, TodoAgreesOnMain
<1>. QED BY <1>1, Invariance, PTL

\* The record of a publication is removed only once its change is durable.
THEOREM ForgetsOnlyDurable == Spec => ForgottenOnlyWhenDurable
<1>1. IInv /\ [Next]_vars => [st # None /\ st' = None => Subject \in durable']_vars
  <2>. SUFFICES ASSUME IInv, [Next]_vars, st # None, st' = None PROVE Subject \in durable'
    OBVIOUS
  <2>1. CleanupPublished \/ CleanupExhausted \/ CleanupPreserved
    BY ArrivalStep DEF Arrival
  <2>2. Subject \in durable
    BY <2>1 DEF CleanupPublished, CleanupExhausted, CleanupPreserved, CleanupAs, IInv, Landed
  <2>. QED BY <2>2, RemoteStep
<1>. QED BY <1>1, Invariance, PTL DEF Spec, ForgottenOnlyWhenDurable

\* Once a preservation is proven, no run pushes for it again.
THEOREM NeverRepushes == Spec => ProvenNeverRepushed
<1>1. IInv /\ [Next]_vars
          => [st # None /\ st.pres = "proven" /\ run' # run
                  => UNCHANGED <<origin, side, flight>>]_vars
  <2>. SUFFICES ASSUME IInv, [Next]_vars, st # None, st.pres = "proven", run' # run
                PROVE  UNCHANGED remote
    BY DEF remote
  <2>1. run.pc \in {"idle", "query", "cleanup_preserved"}
    BY DEF IInv, Staged
  <2>2. LocalStep \/ \E t \in Threads, preserve \in BOOLEAN : Invoke(t, preserve)
    BY <2>1
    DEF Next, Step, Failure, Environment, LocalStep, Fetch, PushMain, FetchAfterPush,
        PushRecovery, PushPending, PushMainUncertain, PushPendingUncertain, FlightEnds,
        ForeignPush, ForeignBranch, SyncFetch, WriteChange, vars
  <2>. QED BY <2>2, LocalStepKeepsRemote DEF Invoke
<1>. QED BY <1>1, Invariance, PTL DEF Spec, ProvenNeverRepushed

----------------------------------------------------------------------------
(* What can still land on main *)

Distinct(c) == \A i, j \in DOMAIN c : c[i].change = c[j].change => i = j

\* The commit a run is about to publish.
Carried == IF rb = None THEN head ELSE rb.from

\* A request that would still change main.
Live(f) == f.ref = MainRef /\ IsPrefix(origin, f.commit) /\ f.commit # origin

NoneLive == \A f \in flight : ~Live(f)

\* The change is not on main, and only a new push could bring it there.
Beaten == NoneLive /\ Subject \notin Changes(origin)

\* Changes the owner has not committed are unknown to the remote.
Pending ==
    /\ work \notin unwritten
    /\ durable \cap Own \subseteq Committed
    /\ run.pc = "create" => /\ Last(head).change \in Committed
                            /\ Last(head).change \notin Changes(origin)
    /\ st # None => Subject \in Committed /\ Carries(st.original)
    /\ \A f \in flight : \E x \in Committed : Holds(f.commit, tracking, x)

\* What is carried is the only commit that can land, and if its change is on
\* main, so is that commit.
Single ==
    /\ \A f \in flight : Live(f) => st # None /\ f.commit = Carried
    /\ st # None /\ Subject \in Changes(origin) => IsPrefix(Carried, origin)

\* A publication that met a conflict cannot land before it is rebased.
Conflicted ==
    /\ rb # None => ~IsPrefix(rb.from, rb.onto) /\ ~IsPrefix(rb.onto, rb.from)
    /\ st # None /\ st.conflicts => Beaten
    /\ st # None /\ st.pres # "none" => st.conflicts
    /\ run.pc \in {"restore", "verify", "alloc"} => st.conflicts
    /\ run.pc \in {"detach", "fetch", "rebase", "count", "attempt", "push", "refetch",
                   "attach", "switch", "cleanup", "recover", "cleanup_exhausted"}
           => ~st.conflicts

Counting ==
    \/ st # None /\ st.races >= RaceLimit
    \/ run.count /\ run.pc \in {"rebase", "continue", "finalize", "clear", "count"}

\* A counted race was lost for good.
Raced ==
    /\ run.pc \in {"push", "refetch"} =>
           /\ head # <<>> /\ IsPrefix(Front(head), run.before)
           /\ IsPrefix(run.before, origin)
    /\ Counting => /\ NoneLive
                   /\ Subject \in Changes(origin) => Subject \in Changes(tracking)
    /\ run.pc \in {"recover", "cleanup_exhausted"} =>
           st.races >= RaceLimit /\ Subject \notin Changes(origin)

\* What the last steps of a run rest on.
Arrived ==
    /\ run.pc \in {"attach", "switch", "cleanup"} => IsPrefix(head, origin)
    /\ run.pc = "switch" => main = head

Reported ==
    /\ TruthfulReport
    /\ out.code = "exhausted" =>
           /\ st # None => Subject # out.change
           /\ run.pc = "create" => Last(head).change # out.change

LogInv ==
    /\ IInv
    /\ Distinct(origin) /\ Pending /\ Single /\ Conflicted /\ Raced
    /\ Arrived /\ Reported

----------------------------------------------------------------------------
(* More lemmas about ancestors *)

LEMMA SameCommit ==
    ASSUME NEW c \in Commit, NEW d \in Commit, Len(c) = Len(d),
           \A i \in 1 .. Len(c) : c[i] = d[i]
    PROVE  c = d
<1>1. c = [i \in 1 .. Len(c) |-> c[i]] /\ d = [i \in 1 .. Len(d) |-> d[i]]
  BY DEF Commit
<1>. QED BY <1>1

LEMMA PrefixAntisymmetric ==
    \A c, d \in Commit : IsPrefix(c, d) /\ IsPrefix(d, c) => c = d
<1>. SUFFICES ASSUME NEW c \in Commit, NEW d \in Commit, IsPrefix(c, d), IsPrefix(d, c)
              PROVE  c = d
  OBVIOUS
<1>1. Len(c) \in Nat /\ Len(d) \in Nat
  BY DEF Commit
<1>2. Len(c) <= Len(d) /\ Len(d) <= Len(c) /\ \A i \in 1 .. Len(c) : c[i] = d[i]
  BY PrefixEntries
<1>3. Len(c) = Len(d)
  BY <1>1, <1>2
<1>. QED BY <1>2, <1>3, SameCommit

\* The ancestors of a commit are on one line.
LEMMA OneLine ==
    \A c, d, e \in Commit : IsPrefix(c, e) /\ IsPrefix(d, e) => IsPrefix(c, d) \/ IsPrefix(d, c)
<1>. SUFFICES ASSUME NEW c \in Commit, NEW d \in Commit, NEW e \in Commit,
                     IsPrefix(c, e), IsPrefix(d, e)
              PROVE  IsPrefix(c, d) \/ IsPrefix(d, c)
  OBVIOUS
<1>1. Len(c) \in Nat /\ Len(d) \in Nat /\ Len(e) \in Nat
  BY DEF Commit
<1>2. /\ Len(c) <= Len(e) /\ \A i \in 1 .. Len(c) : c[i] = e[i]
      /\ Len(d) <= Len(e) /\ \A i \in 1 .. Len(d) : d[i] = e[i]
  BY PrefixEntries
<1>3. CASE Len(c) <= Len(d)
  <2>1. \A i \in 1 .. Len(c) : c[i] = d[i]
    BY <1>1, <1>2, <1>3
  <2>. QED BY <1>3, <2>1, PrefixEntries
<1>4. CASE Len(d) <= Len(c)
  <2>1. \A i \in 1 .. Len(d) : d[i] = c[i]
    BY <1>1, <1>2, <1>4
  <2>. QED BY <1>4, <2>1, PrefixEntries
<1>. QED BY <1>1, <1>3, <1>4

\* Between a commit and its parent there is nothing.
LEMMA NoneBetween ==
    ASSUME NEW c \in Commit, c # <<>>, NEW d \in Commit,
           IsPrefix(Front(c), d), IsPrefix(d, c), d # c
    PROVE  d = Front(c)
<1>1. PICK f : f = Front(c)
  OBVIOUS
<1>2. f \in Commit /\ Last(c) \in Entry /\ c = Append(f, Last(c))
  BY <1>1, SplitCommit
<1>3. /\ Len(f) \in Nat /\ Len(d) \in Nat /\ Len(c) = Len(f) + 1
  BY <1>2 DEF Commit
<1>4. /\ Len(f) <= Len(d) /\ \A i \in 1 .. Len(f) : f[i] = d[i]
      /\ Len(d) <= Len(c) /\ \A i \in 1 .. Len(d) : d[i] = c[i]
  BY <1>1, <1>2, PrefixEntries
<1>5. Len(d) # Len(c)
  BY <1>4, SameCommit
<1>6. Len(d) = Len(f)
  BY <1>3, <1>4, <1>5
<1>. QED BY <1>1, <1>2, <1>4, <1>6, SameCommit

\* A commit whose changes are all different.
LEMMA DistinctAppended ==
    ASSUME NEW c \in Commit, Distinct(c), NEW e \in Entry, e.change \notin Changes(c)
    PROVE  Distinct(Append(c, e))
<1>1. PICK d : d = Append(c, e)
  OBVIOUS
<1>2. /\ Len(c) \in Nat /\ DOMAIN c = 1 .. Len(c) /\ DOMAIN d = 1 .. Len(c) + 1
      /\ \A i \in 1 .. Len(c) : d[i] = c[i]
      /\ d[Len(c) + 1] = e
  BY <1>1 DEF Commit
<1>3. \A i \in DOMAIN c : d[i].change # e.change
  BY <1>2 DEF Changes
<1>4. \A i \in DOMAIN d : i \in DOMAIN c \/ i = Len(c) + 1
  BY <1>2
<1>5. \A i, j \in DOMAIN c : d[i].change = d[j].change => i = j
  BY <1>2 DEF Distinct
<1>6. \A i, j \in DOMAIN d : d[i].change = d[j].change => i = j
  BY <1>2, <1>3, <1>4, <1>5
<1>. QED BY <1>1, <1>6 DEF Distinct

LEMMA DistinctAncestor ==
    \A c, d \in Commit : IsPrefix(c, d) /\ Distinct(d) => Distinct(c)
<1>. SUFFICES ASSUME NEW c \in Commit, NEW d \in Commit, IsPrefix(c, d), Distinct(d)
              PROVE  Distinct(c)
  OBVIOUS
<1>1. Len(c) \in Nat /\ Len(d) \in Nat /\ DOMAIN c = 1 .. Len(c) /\ DOMAIN d = 1 .. Len(d)
  BY DEF Commit
<1>2. Len(c) <= Len(d) /\ \A i \in 1 .. Len(c) : c[i] = d[i]
  BY PrefixEntries
<1>3. \A i \in DOMAIN c : i \in DOMAIN d /\ c[i] = d[i]
  BY <1>1, <1>2
<1>. QED BY <1>3 DEF Distinct

LEMMA NewestIsNew ==
    ASSUME NEW c \in Commit, c # <<>>, Distinct(c)
    PROVE  Last(c).change \notin Changes(Front(c))
<1>1. PICK f : f = Front(c)
  OBVIOUS
<1>2. f \in Commit /\ Last(c) \in Entry /\ c = Append(f, Last(c))
  BY <1>1, SplitCommit
<1>3. /\ Len(f) \in Nat /\ DOMAIN f = 1 .. Len(f) /\ DOMAIN c = 1 .. Len(f) + 1
      /\ \A i \in 1 .. Len(f) : c[i] = f[i]
      /\ c[Len(f) + 1] = Last(c)
  BY <1>2 DEF Commit
<1>4. Len(f) + 1 \in DOMAIN c /\ \A i \in DOMAIN f : i \in DOMAIN c /\ i # Len(f) + 1
  BY <1>3
<1>5. ASSUME NEW i \in DOMAIN f, f[i].change = Last(c).change PROVE FALSE
  BY <1>3, <1>4, <1>5 DEF Distinct
<1>. QED BY <1>1, <1>5 DEF Changes

\* What a commit holds that holds x and nothing else that is not on t.
LEMMA HeldChanges ==
    ASSUME NEW c \in Commit, NEW t \in Commit, NEW x, Holds(c, t, x)
    PROVE  x \in Changes(c) /\ Changes(c) \subseteq Changes(t) \cup {x}
<1>1. CASE IsPrefix(c, t)
  BY <1>1, PrefixChanges DEF Holds
<1>2. CASE ~IsPrefix(c, t)
  <2>1. c # <<>> /\ Last(c).change = x /\ IsPrefix(Front(c), t)
    BY <1>2, HoldsOnTop
  <2>2. /\ Front(c) \in Commit /\ Last(c) \in Entry
        /\ Changes(c) = Changes(Front(c)) \cup {Last(c).change}
    BY <2>1, SplitCommit, AppendedCommit
  <2>. QED BY <2>1, <2>2, PrefixChanges DEF Holds
<1>. QED BY <1>1, <1>2

----------------------------------------------------------------------------
(* What the invariant says of a publication *)

LEMMA CommitTypes ==
    ASSUME IInv
    PROVE  /\ origin \in Commit /\ tracking \in Commit /\ head \in Commit /\ main \in Commit
           /\ \A f \in flight : f.commit \in Commit /\ f.ref \in Branch \cup {MainRef}
           /\ rb # None => rb.from \in Commit /\ rb.onto \in Commit
           /\ st # None => st \in States /\ st.original \in Commit /\ st.thread \in Threads
           /\ Carried \in Commit
           /\ IsPrefix(tracking, origin)
           /\ run \in Runs /\ out \in Outs /\ attached \in BOOLEAN /\ stray \in BOOLEAN
           /\ durable \subseteq Own \cup Foreign
BY DEF IInv, TypeOK, Rebases, States, Carried, Following

LEMMA CarriedHolds ==
    ASSUME IInv, st # None
    PROVE  Carries(Carried) /\ Subject \in Own /\ Subject \in Changes(Carried)
BY DEF IInv, Carrying, Carries, Holds, Carried

\* A commit that can land on main is the next one there, with a new change.
LEMMA NextOnMain ==
    ASSUME LogInv, st # None, IsPrefix(origin, Carried), Carried # origin
    PROVE  /\ Carried # <<>> /\ Front(Carried) = origin /\ Last(Carried).change = Subject
           /\ Last(Carried) \in Entry /\ Carried = Append(origin, Last(Carried))
           /\ Subject \notin Changes(origin)
           /\ Changes(Carried) = Changes(origin) \cup {Subject}
<1>. DEFINE c == Carried
<1>0. IInv /\ Single
  BY DEF LogInv
<1>t. c \in Commit /\ origin \in Commit /\ tracking \in Commit /\ IsPrefix(tracking, origin)
  BY <1>0, CommitTypes
<1>1. ~IsPrefix(c, origin)
  BY <1>t, PrefixAntisymmetric
<1>2. ~IsPrefix(c, tracking)
  BY <1>t, <1>1, PrefixTransitive
<1>3. c # <<>> /\ Last(c).change = Subject /\ IsPrefix(Front(c), tracking)
  BY <1>0, <1>2, CarriedHolds DEF Carries, Holds
<1>4. Front(c) \in Commit /\ Last(c) \in Entry /\ c = Append(Front(c), Last(c))
  BY <1>t, <1>3, SplitCommit
<1>5. IsPrefix(Front(c), origin)
  BY <1>t, <1>3, <1>4, PrefixTransitive
<1>6. Front(c) = origin
  BY <1>t, <1>3, <1>5, NoneBetween
<1>7. Subject \notin Changes(origin)
  BY <1>0, <1>1 DEF Single
<1>8. Changes(c) = Changes(origin) \cup {Subject}
  BY <1>3, <1>4, <1>6, AppendedCommit
<1>. QED BY <1>3, <1>4, <1>6, <1>7, <1>8

\* Neither side of a divergence is on the line of main, or about to be.
LEMMA DivergedBeaten ==
    ASSUME LogInv, st # None, NEW d \in Commit, IsPrefix(d, tracking),
           ~IsPrefix(Carried, d), ~IsPrefix(d, Carried)
    PROVE  Beaten
<1>0. IInv /\ Single
  BY DEF LogInv
<1>t. Carried \in Commit /\ origin \in Commit /\ tracking \in Commit /\ IsPrefix(tracking, origin)
  BY <1>0, CommitTypes
<1>1. IsPrefix(d, origin)
  BY <1>t, PrefixTransitive
<1>2. ~IsPrefix(Carried, origin)
  BY <1>t, <1>1, OneLine
<1>3. ~IsPrefix(origin, Carried)
  BY <1>t, <1>1, PrefixTransitive
<1>. QED BY <1>0, <1>2, <1>3 DEF Single, Beaten, NoneLive, Live

LEMMA StoppedBeaten ==
    ASSUME LogInv, rb # None
    PROVE  Beaten
<1>1. st # None /\ IsPrefix(rb.onto, tracking)
  BY DEF LogInv, IInv, Staged, CheckedOut
<1>2. rb.onto \in Commit /\ Carried = rb.from
  BY CommitTypes DEF LogInv, Carried
<1>. QED BY <1>1, <1>2, DivergedBeaten DEF LogInv, Conflicted

\* What has been pushed has a TODO.md that agrees, and is amended no more.
LEMMA DriftedBeaten ==
    ASSUME LogInv, st # None, ~Fresh(Carried)
    PROVE  Beaten
<1>0. IInv /\ Single /\ Agreeing
  BY DEF LogInv, IInv
<1>t. Carried \in Commit /\ origin \in Commit
  BY <1>0, CommitTypes
<1>1. ~AllFresh(Carried)
  BY <1>t, PrefixReflexive, FreshPrefix
<1>2. ~IsPrefix(Carried, origin)
  BY <1>0, <1>t, FreshPrefix DEF Agreeing
<1>. QED BY <1>0, <1>1, <1>2 DEF Single, Agreeing, Beaten, NoneLive, Live

\* A change that has arrived leaves nothing behind that could still land.
LEMMA ArrivedAlone ==
    ASSUME LogInv, IsPrefix(Carried, origin)
    PROVE  NoneLive
<1>1. Carried \in Commit /\ origin \in Commit
  BY CommitTypes DEF LogInv
<1>2. ASSUME NEW f \in flight, Live(f) PROVE FALSE
  BY <1>1, <1>2, PrefixAntisymmetric DEF LogInv, Single, Live
<1>. QED BY <1>2 DEF NoneLive

\* Every request holds a committed change, and is no news of any other.
LEMMA FlightChanges ==
    ASSUME LogInv, NEW f \in flight
    PROVE  \E x \in Committed : /\ x \in Own
                                /\ x \in Changes(f.commit)
                                /\ Changes(f.commit) \subseteq durable \cup {x}
<1>1. PICK x \in Committed : Holds(f.commit, tracking, x)
  BY DEF LogInv, Pending
<1>2. f.commit \in Commit /\ tracking \in Commit /\ origin \in Commit /\ IsPrefix(tracking, origin)
  BY CommitTypes DEF LogInv
<1>3. x \in Changes(f.commit) /\ Changes(f.commit) \subseteq Changes(tracking) \cup {x}
  BY <1>1, <1>2, HeldChanges
<1>4. Changes(tracking) \subseteq durable
  BY <1>2, PrefixChanges DEF LogInv, IInv, Following
<1>. QED BY <1>3, <1>4 DEF Committed

----------------------------------------------------------------------------
(* What reaches the remote *)

\* The steps that neither push nor let a request end.
QuietStep ==
    \/ LocalStep \/ Fetch \/ FetchAfterPush \/ SyncFetch \/ UNCHANGED vars
    \/ \E t \in Threads, preserve \in BOOLEAN : Invoke(t, preserve)
    \/ \E b \in Branch : ForeignBranch(b)
    \/ \E x \in Own : WriteChange(x)

LEMMA QuietStepKeeps == QuietStep => UNCHANGED <<origin, flight, durable>>
BY LocalStepKeepsRemote
DEF QuietStep, Fetch, FetchAfterPush, SyncFetch, Invoke, ForeignBranch, WriteChange, vars, remote

PushStep ==
    \/ PushMain \/ PushMainUncertain \/ PushRecovery \/ PushPending \/ PushPendingUncertain

LEMMA StepKinds ==
    [Next]_vars => \/ QuietStep \/ PushStep
                   \/ \E f \in flight, lands \in BOOLEAN : FlightEnds(f, lands)
                   \/ \E c \in Foreign : ForeignPush(c)
BY DEF Next, Step, Failure, Environment, QuietStep, PushStep, LocalStep

\* A push is made for the retained publication, and changes nothing but the
\* remote, the run and its report.
LEMMA PushFacts ==
    ASSUME IInv, PushStep
    PROVE  /\ st # None /\ rb = None
           /\ UNCHANGED <<refs, tree, st, owner>>
           /\ run.pc \in {"push", "recover", "preserve"}
           /\ run.pc = "preserve" => st.branch \in Branch
           /\ \A s \in Stamps : <<"recovery", st.thread, s>> \in Branch
<1>1. run.pc \in {"push", "recover", "preserve"} /\ UNCHANGED <<refs, tree, st, owner>>
  BY DEF PushStep, PushMain, PushMainUncertain, PushRecovery, PushPending, PushPendingUncertain
<1>2. st # None /\ rb = None /\ st \in States
  BY <1>1 DEF IInv, TypeOK, Staged
<1>3. run.pc = "preserve" => st.branch \in Branch
  BY <1>1, <1>2 DEF IInv, Staged
<1>4. \A s \in Stamps : <<"recovery", st.thread, s>> \in Branch
  BY <1>2 DEF States, Branch
<1>. QED BY <1>1, <1>2, <1>3, <1>4

LEMMA BranchIsNotMain == MainRef \notin Branch
BY DEF MainRef, Branch

NothingArrives == UNCHANGED <<origin, durable>>

ForeignArrives ==
    \E c \in Foreign \ Changes(origin) :
        /\ origin' = Append(origin, [change |-> c, todo |-> TRUE])
        /\ durable' = durable \cup {c}
        /\ UNCHANGED <<tracking, head, main, rb, st, run, out, flight>>

\* The commit of the retained publication becomes the newest of main.
OwnArrives ==
    /\ st # None /\ IsPrefix(origin, Carried) /\ Carried # origin
    /\ origin' = Carried
    /\ durable' = durable \cup {Subject}
    /\ UNCHANGED <<tracking, head, main, rb, st>>
    /\ flight' \subseteq flight
    /\ run.pc = "push" \/ (~NoneLive /\ UNCHANGED <<run, out>>)

IsPutAside ==
    /\ origin' = origin
    /\ \E x \in Committed : durable' = durable \cup {x}

LEMMA Arriving ==
    LogInv /\ [Next]_vars => NothingArrives \/ ForeignArrives \/ OwnArrives \/ IsPutAside
<1>. SUFFICES ASSUME LogInv, [Next]_vars
              PROVE  NothingArrives \/ ForeignArrives \/ OwnArrives \/ IsPutAside
  OBVIOUS
<1>0. IInv /\ Pending /\ Single
  BY DEF LogInv
<1>t. /\ origin \in Commit /\ Carried \in Commit /\ tracking \in Commit /\ IsPrefix(tracking, origin)
      /\ \A f \in flight : f.commit \in Commit /\ f.ref \in Branch \cup {MainRef}
      /\ st # None => st.original \in Commit
  BY <1>0, CommitTypes
<1>d. Changes(origin) \subseteq durable /\ Changes(tracking) \subseteq durable
  BY <1>0, <1>t, PrefixChanges DEF IInv, Following
<1>n. None \notin Commit
  BY NoneAssumption
<1>1. CASE QuietStep
  BY <1>1, QuietStepKeeps DEF NothingArrives
<1>2. CASE PushStep
  <2>0. /\ st # None /\ rb = None /\ UNCHANGED <<refs, tree, st, owner>>
        /\ Carried = head
    BY <1>0, <1>2, PushFacts DEF Carried
  <2>1. Carries(head) /\ Carries(st.original) /\ Subject \in Committed
    BY <1>0, <2>0, CarriedHolds DEF Pending
  <2>2. ASSUME run.pc = "push", Accepts(origin, head), LandOnMain(head)
        PROVE  NothingArrives \/ OwnArrives
    <3>1. IsPrefix(origin, head) /\ origin' = head /\ durable' = durable \cup Changes(head)
          /\ flight' = flight
      BY <1>n, <1>t, <2>2 DEF Accepts, LandOnMain
    <3>2. CASE head = origin
      BY <1>d, <3>1, <3>2 DEF NothingArrives
    <3>3. CASE head # origin
      <4>1. Changes(head) = Changes(origin) \cup {Subject}
        BY <2>0, <3>1, <3>3, NextOnMain
      <4>2. durable' = durable \cup {Subject}
        BY <1>d, <3>1, <4>1
      <4>. QED BY <2>0, <2>2, <3>1, <3>3, <4>2 DEF OwnArrives, refs, tree
    <3>. QED BY <3>2, <3>3
  <2>3. ASSUME NEW b \in Branch, NEW c \in {head, st.original}, LandOnBranch(b, c)
        PROVE  IsPutAside
    <3>1. c \in Commit /\ Carries(c)
      BY <1>t, <2>0, <2>1
    <3>2. Subject \in Changes(c) /\ Changes(c) \subseteq Changes(tracking) \cup {Subject}
      BY <1>t, <3>1, HeldChanges DEF Carries
    <3>3. durable' = durable \cup {Subject}
      BY <1>d, <2>3, <3>2 DEF LandOnBranch
    <3>. QED BY <2>1, <2>3, <3>3 DEF IsPutAside, LandOnBranch
  <2>4. ASSUME UNCHANGED remote \/ \E ref, c : LeaveInFlight(ref, c)
        PROVE  NothingArrives
    BY <2>4 DEF NothingArrives, LeaveInFlight, remote
  <2>5. CASE PushMain
    BY <2>5, <2>2, <2>4 DEF PushMain
  <2>6. CASE PushMainUncertain
    BY <2>6, <2>2, <2>4 DEF PushMainUncertain
  <2>7. CASE PushRecovery
    BY <1>0, <1>2, <2>7, <2>3, <2>4, PushFacts DEF PushRecovery
  <2>8. CASE PushPending
    BY <1>0, <1>2, <2>8, <2>3, <2>4, PushFacts DEF PushPending
  <2>9. CASE PushPendingUncertain
    BY <1>0, <1>2, <2>9, <2>3, <2>4, PushFacts DEF PushPendingUncertain
  <2>. QED BY <1>2, <2>5, <2>6, <2>7, <2>8, <2>9 DEF PushStep
<1>3. ASSUME NEW f \in flight, NEW lands \in BOOLEAN, FlightEnds(f, lands)
      PROVE  NothingArrives \/ OwnArrives \/ IsPutAside
  <2>0. UNCHANGED <<refs, tree, st, owner, run, out>> /\ flight' = flight \ {f}
    BY <1>3 DEF FlightEnds
  <2>1. CASE UNCHANGED <<origin, side, durable>>
    BY <2>1 DEF NothingArrives
  <2>2. CASE f.ref = MainRef /\ ~UNCHANGED <<origin, side, durable>>
    <3>1. IsPrefix(origin, f.commit) /\ origin' = f.commit /\ durable' = durable \cup Changes(f.commit)
      BY <1>3, <1>n, <1>t, <2>2 DEF FlightEnds, Accepts
    <3>2. CASE f.commit = origin
      BY <1>d, <3>1, <3>2 DEF NothingArrives
    <3>3. CASE f.commit # origin
      <4>1. st # None /\ f.commit = Carried
        BY <1>0, <2>2, <3>1, <3>3 DEF Single, Live
      <4>2. Changes(Carried) = Changes(origin) \cup {Subject}
        BY <3>1, <3>3, <4>1, NextOnMain
      <4>3. durable' = durable \cup {Subject}
        BY <1>d, <3>1, <4>1, <4>2
      <4>4. ~NoneLive
        BY <2>2, <3>1, <3>3 DEF NoneLive, Live
      <4>. QED BY <2>0, <3>1, <3>3, <4>1, <4>3, <4>4 DEF OwnArrives, refs, tree
    <3>. QED BY <3>2, <3>3
  <2>3. CASE f.ref # MainRef /\ ~UNCHANGED <<origin, side, durable>>
    <3>1. origin' = origin /\ durable' = durable \cup Changes(f.commit)
      BY <1>3, <2>3 DEF FlightEnds
    <3>2. PICK x \in Committed : x \in Changes(f.commit) /\ Changes(f.commit) \subseteq durable \cup {x}
      BY FlightChanges
    <3>3. durable' = durable \cup {x}
      BY <3>1, <3>2
    <3>. QED BY <3>1, <3>3 DEF IsPutAside
  <2>. QED BY <2>1, <2>2, <2>3
<1>4. ASSUME NEW c \in Foreign, ForeignPush(c)
      PROVE  ForeignArrives
  <2>1. [change |-> c, todo |-> TRUE] \in Entry /\ [change |-> c, todo |-> TRUE].change = c
    BY DEF Entry
  <2>2. Changes(Append(origin, [change |-> c, todo |-> TRUE])) = Changes(origin) \cup {c}
    BY <1>t, <2>1, AppendedCommit
  <2>. QED BY <1>4, <1>d, <2>2 DEF ForeignPush, ForeignArrives, LandOnMain, refs, tree
<1>. QED BY <1>1, <1>2, <1>3, <1>4, StepKinds

\* Requests are only added by a push of the retained publication.
LEMMA Requesting ==
    LogInv /\ [Next]_vars =>
        \A f \in flight' : \/ f \in flight
                           \/ /\ PushStep /\ f.commit \in Commit /\ Carries(f.commit)
                              /\ origin' = origin
                              /\ f.ref = MainRef => run.pc = "push" /\ f.commit = head
<1>. SUFFICES ASSUME LogInv, [Next]_vars, NEW f \in flight', f \notin flight
              PROVE  /\ PushStep /\ f.commit \in Commit /\ Carries(f.commit)
                     /\ origin' = origin
                     /\ f.ref = MainRef => run.pc = "push" /\ f.commit = head
  OBVIOUS
<1>1. ~QuietStep
  BY QuietStepKeeps
<1>2. \A g \in flight, lands \in BOOLEAN : ~FlightEnds(g, lands)
  BY DEF FlightEnds
<1>3. \A c \in Foreign : ~ForeignPush(c)
  BY DEF ForeignPush, LandOnMain
<1>4. PushStep
  BY <1>1, <1>2, <1>3, StepKinds
<1>5. \/ run.pc = "push" /\ LeaveInFlight(MainRef, head)
      \/ \E s \in Stamps : LeaveInFlight(<<"recovery", st.thread, s>>, head)
      \/ run.pc = "preserve" /\ LeaveInFlight(st.branch, st.original)
  BY <1>4 DEF PushStep, PushMain, PushMainUncertain, PushRecovery, PushPending,
              PushPendingUncertain, LandOnMain, LandOnBranch, remote
<1>6. /\ st # None /\ rb = None
      /\ run.pc = "preserve" => st.branch \in Branch
      /\ \A s \in Stamps : <<"recovery", st.thread, s>> \in Branch
  BY <1>4, PushFacts DEF LogInv
<1>7. /\ head \in Commit /\ st.original \in Commit /\ Carries(head) /\ Carries(st.original)
  BY <1>6, CommitTypes, CarriedHolds DEF LogInv, Pending, Carried
<1>8. CASE run.pc = "push" /\ LeaveInFlight(MainRef, head)
  <2>1. f = [ref |-> MainRef, commit |-> head] /\ origin' = origin
    BY <1>8 DEF LeaveInFlight
  <2>. QED BY <1>4, <1>7, <1>8, <2>1
<1>9. ASSUME NEW b \in Branch, NEW c \in {head, st.original}, LeaveInFlight(b, c)
      PROVE  /\ f.commit \in Commit /\ Carries(f.commit) /\ origin' = origin /\ f.ref # MainRef
  <2>1. f = [ref |-> b, commit |-> c] /\ origin' = origin
    BY <1>9 DEF LeaveInFlight
  <2>2. f.ref = b /\ f.commit = c
    BY <2>1
  <2>. QED BY <1>7, <2>1, <2>2, BranchIsNotMain
<1>. QED BY <1>4, <1>5, <1>6, <1>8, <1>9

LEMMA OriginTyped == LogInv /\ [Next]_vars => origin' \in Commit /\ IsPrefix(origin, origin')
BY TypeStep, RemoteStep DEF LogInv, TypeOK

\* A request that can land could land before.
LEMMA LiveBefore ==
    ASSUME LogInv, [Next]_vars, NEW f \in flight, Live(f)'
    PROVE  Live(f)
<1>1. /\ origin \in Commit /\ origin' \in Commit /\ IsPrefix(origin, origin')
      /\ f.commit \in Commit
  BY CommitTypes, OriginTyped DEF LogInv
<1>2. f.ref = MainRef /\ IsPrefix(origin', f.commit) /\ f.commit # origin'
  BY DEF Live
<1>3. IsPrefix(origin, f.commit)
  BY <1>1, <1>2, PrefixTransitive
<1>4. f.commit # origin
  BY <1>1, <1>2, PrefixAntisymmetric
<1>. QED BY <1>2, <1>3, <1>4 DEF Live

----------------------------------------------------------------------------
(* What the owner has committed *)

LEMMA CommitsOne ==
    ASSUME LogInv, CommitManaged
    PROVE  /\ st = None /\ st' = None /\ UNCHANGED remote /\ UNCHANGED tracking
           /\ \/ run'.pc = "idle" /\ UNCHANGED <<work, unwritten>>
              \/ /\ run'.pc = "create" /\ work \in Own /\ work' = None
                 /\ unwritten' = unwritten /\ Last(head').change = work
                 /\ out' = out
<1>1. st = None /\ st' = None /\ UNCHANGED remote /\ UNCHANGED tracking
  BY DEF CommitManaged, LogInv, IInv, Staged
<1>2. CASE Exit("refused") /\ UNCHANGED work
  BY <1>1, <1>2, IdleRun DEF Exit, CommitManaged
<1>3. CASE ~(stray \/ work = None \/ ~NothingUnpublished)
  <2>1. /\ head' = Append(head, [change |-> work, todo |-> TRUE])
        /\ work' = None /\ unwritten' = unwritten /\ run'.pc = "create" /\ out' = out
    BY <1>3, Going DEF CommitManaged, MoveHead, Labels, LogInv, IInv, TypeOK
  <2>2. work \in Own /\ head \in Commit /\ [change |-> work, todo |-> TRUE] \in Entry
    BY <1>3 DEF LogInv, IInv, TypeOK, Entry
  <2>3. Last(head') = [change |-> work, todo |-> TRUE]
    BY <2>1, <2>2, AppendedCommit
  <2>. QED BY <1>1, <2>1, <2>2, <2>3
<1>. QED BY <1>2, <1>3 DEF CommitManaged

LEMMA OwnerStep ==
    LogInv /\ [Next]_vars =>
        /\ work' \notin unwritten' /\ Committed \subseteq Committed'
        /\ ~CommitManaged => Committed' = Committed
<1>. SUFFICES ASSUME LogInv, [Next]_vars
              PROVE  /\ work' \notin unwritten' /\ Committed \subseteq Committed'
                     /\ ~CommitManaged => Committed' = Committed
  OBVIOUS
<1>1. work \notin unwritten /\ None \notin Own /\ unwritten \subseteq Own
  BY NoneAssumption DEF LogInv, IInv, TypeOK, Pending
<1>2. ASSUME UNCHANGED <<work, unwritten>>
      PROVE  work' \notin unwritten' /\ Committed' = Committed
  BY <1>1, <1>2 DEF Committed
<1>3. ASSUME NEW x \in Own, WriteChange(x)
      PROVE  work' \notin unwritten' /\ Committed' = Committed
  BY <1>1, <1>3 DEF WriteChange, Committed
<1>4. CASE CommitManaged
  BY <1>1, <1>2, <1>4, CommitsOne DEF Committed
<1>. QED
  BY <1>2, <1>3, <1>4
  DEF Next, Step, Failure, Environment, CreateState, DetachPublication, Fetch,
      RebaseOntoOrigin, ReportConflict, ContinueRebase, FinalizeRebasedCommit, ClearConflicts,
      CountCleanRace, PublishAttempt, PushMain, FetchAfterPush, PushRecovery, AttachMain,
      SwitchToMain, CleanupPublished, CleanupExhausted, CleanupPreserved, CleanupAs,
      AbortRebase, RestoreMain, VerifyAbort, AllocatePending, PushPending, QueryBranch,
      MarkProven, Interrupt, RebaseKilled, RemoteUnavailable, PushMainUncertain,
      PushPendingUncertain, FlightEnds, ForeignPush, ForeignBranch, SyncFetch,
      ResolveConflict, StrayEdit, UndoStray, ResetToOrigin, Invoke, owner, vars

\* A publication begins with the commit that was made for it.
LEMMA Created ==
    ASSUME LogInv, CreateState
    PROVE  /\ st = None /\ rb = None /\ rb' = None /\ run.pc = "create"
           /\ st' \in States /\ st' # None /\ st'.original = head /\ Subject' = Last(head).change
           /\ ~st'.conflicts /\ st'.races = 0 /\ st'.pres = "none"
           /\ UNCHANGED <<remote, tracking, main, head>>
           /\ run'.pc = "detach" /\ out' = out
<1>1. run.pc = "create" /\ st = None /\ rb = None /\ run.thread \in Threads /\ head \in Commit
  BY CommitTypes DEF CreateState, LogInv, IInv, Staged
<1>2. st' = NewState(run.thread, head) /\ UNCHANGED <<remote, refs, tree>>
  BY DEF CreateState
<1>3. st' \in States /\ st'.original = head /\ st'.races = 0 /\ st'.pres = "none"
  BY <1>1, <1>2, StartedState
<1>4. ~st'.conflicts
  BY <1>2 DEF NewState
<1>5. st' # None
  BY <1>3, NoneAssumption
<1>6. run'.pc = "detach" /\ out' = out
  BY Going DEF CreateState, LogInv, IInv, TypeOK, Labels
<1>. QED BY <1>1, <1>2, <1>3, <1>4, <1>5, <1>6 DEF Subject, refs, tree

LEMMA SubjectKept ==
    LogInv /\ [Next]_vars =>
        /\ st # None /\ st' # None => Subject' = Subject /\ st'.original = st.original
        /\ st = None /\ st' # None => CreateState
        /\ st # None /\ st' = None => CleanupPublished \/ CleanupExhausted \/ CleanupPreserved
BY ArrivalStep DEF LogInv, SameSubject, Arrival, Subject

LEMMA DistinctStep == LogInv /\ [Next]_vars => Distinct(origin')
<1>. SUFFICES ASSUME LogInv, [Next]_vars PROVE Distinct(origin')
  OBVIOUS
<1>0. Distinct(origin) /\ origin \in Commit
  BY CommitTypes DEF LogInv
<1>1. CASE origin' = origin
  BY <1>0, <1>1
<1>2. CASE ForeignArrives
  <2>1. PICK c \in Foreign \ Changes(origin) : origin' = Append(origin, [change |-> c, todo |-> TRUE])
    BY <1>2 DEF ForeignArrives
  <2>2. [change |-> c, todo |-> TRUE] \in Entry /\ [change |-> c, todo |-> TRUE].change \notin Changes(origin)
    BY DEF Entry
  <2>. QED BY <1>0, <2>1, <2>2, DistinctAppended
<1>3. CASE OwnArrives
  <2>1. st # None /\ IsPrefix(origin, Carried) /\ Carried # origin /\ origin' = Carried
    BY <1>3 DEF OwnArrives
  <2>2. /\ Last(Carried) \in Entry /\ Last(Carried).change = Subject
        /\ Carried = Append(origin, Last(Carried)) /\ Subject \notin Changes(origin)
    BY <2>1, NextOnMain
  <2>. QED BY <1>0, <2>1, <2>2, DistinctAppended
<1>. QED BY <1>1, <1>2, <1>3, Arriving DEF NothingArrives, IsPutAside

\* Between the commit and its record only others move.
LEMMA StillCreating ==
    ASSUME LogInv, [Next]_vars, run'.pc = "create", ~CommitManaged
    PROVE  run.pc = "create" /\ head' = head
<1>1. run.pc = "create" /\ run' = run
  BY ArrivalStep DEF Arrival, LogInv
<1>2. StillStep
  BY <1>1
  DEF Next, Step, Failure, Environment, StillStep, CommitManaged, DetachPublication,
      RebaseOntoOrigin, RebaseKilled, ContinueRebase, FinalizeRebasedCommit, AttachMain,
      SwitchToMain, AbortRebase, RestoreMain, ResolveConflict, ResetToOrigin
<1>. QED BY <1>1, <1>2, StillStepKeepsTree DEF tree

LEMMA PendingStep == LogInv /\ [Next]_vars => Pending'
<1>. SUFFICES ASSUME LogInv, [Next]_vars PROVE Pending'
  OBVIOUS
<1>0. IInv /\ Pending /\ Single
  BY DEF LogInv
<1>t. /\ origin \in Commit /\ tracking \in Commit /\ IsPrefix(tracking, origin)
      /\ tracking' \in Commit /\ IsPrefix(tracking, tracking') /\ head \in Commit
      /\ \A f \in flight : f.commit \in Commit
      /\ st # None => st.original \in Commit
      /\ Foreign \cap Own = {}
  BY <1>0, CommitTypes, RemoteStep, TypeStep, ChangesAssumption DEF TypeOK
<1>w. work' \notin unwritten' /\ Committed \subseteq Committed'
  BY OwnerStep
<1>1. durable' \cap Own \subseteq Committed'
  <2>1. st # None => Subject \in Committed
    BY <1>0 DEF Pending
  <2>. QED BY <1>0, <1>t, <1>w, <2>1, Arriving
       DEF Pending, NothingArrives, ForeignArrives, OwnArrives, IsPutAside
<1>2. ASSUME run'.pc = "create"
      PROVE  Last(head').change \in Committed' /\ Last(head').change \notin Changes(origin')
  <2>1. CASE CommitManaged
    <3>1. work \in Own /\ work' = None /\ unwritten' = unwritten /\ Last(head').change = work
          /\ UNCHANGED remote
      BY <1>2, <2>1, CommitsOne
    <3>2. work \in Committed'
      BY <1>0, <3>1, NoneAssumption DEF Pending, Committed
    <3>3. work \notin durable
      BY <1>0, <3>1 DEF Pending, Committed
    <3>4. Changes(origin) \subseteq durable
      BY <1>0 DEF IInv, Following
    <3>. QED BY <3>1, <3>2, <3>3, <3>4 DEF remote
  <2>2. CASE ~CommitManaged
    <3>1. run.pc = "create" /\ head' = head
      BY <1>2, <2>2, StillCreating
    <3>2. st = None /\ Last(head).change \in Committed /\ Last(head).change \notin Changes(origin)
          /\ Last(head).change \in Own
      BY <1>0, <3>1 DEF Pending, IInv, Staged, Carrying
    <3>5. Changes(origin') \subseteq Changes(origin) \cup Foreign
      <4>1. CASE origin' = origin
        BY <4>1
      <4>2. CASE ForeignArrives
        <5>1. PICK c \in Foreign : origin' = Append(origin, [change |-> c, todo |-> TRUE])
          BY <4>2 DEF ForeignArrives
        <5>2. [change |-> c, todo |-> TRUE] \in Entry /\ [change |-> c, todo |-> TRUE].change = c
          BY DEF Entry
        <5>. QED BY <1>t, <5>1, <5>2, AppendedCommit
      <4>. QED BY <3>2, <4>1, <4>2, Arriving DEF NothingArrives, OwnArrives, IsPutAside
    <3>. QED BY <1>t, <1>w, <3>1, <3>2, <3>5
  <2>. QED BY <2>1, <2>2
<1>3. ASSUME st' # None
      PROVE  Subject' \in Committed' /\ Carries(st.original)'
  <2>1. CASE st # None
    <3>1. Subject' = Subject /\ st'.original = st.original
      BY <1>3, <2>1, SubjectKept
    <3>2. Subject \in Committed /\ Holds(st.original, tracking, Subject)
      BY <1>0, <2>1 DEF Pending, Carries
    <3>3. Holds(st.original, tracking', Subject)
      BY <1>t, <2>1, <3>2, HoldsGrows
    <3>. QED BY <1>w, <3>1, <3>2, <3>3 DEF Carries
  <2>2. CASE st = None
    <3>1. /\ run.pc = "create" /\ st'.original = head /\ Subject' = Last(head).change
          /\ tracking' = tracking
      BY <1>3, <2>2, SubjectKept, Created
    <3>2. Last(head).change \in Committed /\ head # <<>> /\ IsPrefix(Front(head), tracking)
      BY <1>0, <3>1 DEF Pending, IInv, Carrying
    <3>3. Holds(head, tracking, Last(head).change)
      BY <1>t, <3>2, NewestChange DEF Holds
    <3>. QED BY <1>w, <3>1, <3>2, <3>3 DEF Carries
  <2>. QED BY <2>1, <2>2
<1>4. ASSUME NEW f \in flight'
      PROVE  \E x \in Committed' : Holds(f.commit, tracking', x)
  <2>1. CASE f \in flight
    <3>1. PICK x \in Committed : Holds(f.commit, tracking, x)
      BY <1>0, <2>1 DEF Pending
    <3>2. Holds(f.commit, tracking', x)
      BY <1>t, <2>1, <3>1, HoldsGrows
    <3>. QED BY <1>w, <3>1, <3>2
  <2>2. CASE f \notin flight
    <3>1. PushStep /\ f.commit \in Commit /\ Holds(f.commit, tracking, Subject)
      BY <1>4, <2>2, Requesting DEF Carries
    <3>2. st # None
      BY <1>0, <3>1, PushFacts
    <3>3. Subject \in Committed
      BY <1>0, <3>2 DEF Pending
    <3>4. Holds(f.commit, tracking', Subject)
      BY <1>t, <3>1, HoldsGrows
    <3>. QED BY <1>w, <3>3, <3>4
  <2>. QED BY <2>1, <2>2
<1>. QED BY <1>w, <1>1, <1>2, <1>3, <1>4 DEF Pending

----------------------------------------------------------------------------
(* The commit that is carried *)

\* The carried commit is replaced only while nothing of the publication can land.
Replaced ==
    /\ UNCHANGED <<origin, flight, tracking>>
    /\ Beaten \/ (NoneLive /\ IsPrefix(Carried', origin))

LEMMA CarriedStep ==
    LogInv /\ [Next]_vars /\ st # None /\ st' # None => Carried' = Carried \/ Replaced
<1>. SUFFICES ASSUME LogInv, [Next]_vars, st # None, st' # None
              PROVE  Carried' = Carried \/ Replaced
  OBVIOUS
<1>0. IInv /\ Conflicted /\ Arrived /\ Staged
  BY DEF LogInv, IInv
<1>t. /\ origin \in Commit /\ tracking \in Commit /\ head \in Commit /\ IsPrefix(tracking, origin)
      /\ rb # None => rb \in Rebases /\ rb.from \in Commit
  BY <1>0, CommitTypes DEF IInv, TypeOK
<1>r. run.pc \notin {"idle", "continue", "abort"} => rb = None
  BY <1>0 DEF Staged
<1>l. \/ ~LocalStep
      \/ UNCHANGED <<origin, flight, tracking>>
  BY LocalStepKeepsRemote DEF remote
<1>1. CASE StillStep \/ DetachPublication
  BY <1>1, StillStepKeepsTree DEF tree, Carried, DetachPublication
<1>2. ASSUME NEW u, RebaseStopped(u), u \in {"genuine", "todo", "unstarted"}, rb = None
      PROVE  Carried' = Carried
  <2>1. rb' = [from |-> head, onto |-> tracking, attached |-> attached, unmerged |-> u]
    BY <1>2 DEF RebaseStopped
  <2>2. rb' \in Rebases
    BY <1>0, <1>t, <1>2, <2>1, CommitTypes DEF Rebases
  <2>. QED BY <1>2, <2>1, <2>2, NoneAssumption DEF Carried
<1>3. CASE RebaseOntoOrigin
  <2>0. rb = None /\ Carried = head /\ UNCHANGED <<origin, flight, tracking>>
    BY <1>3, <1>r, <1>l DEF RebaseOntoOrigin, Carried, LocalStep
  <2>1. CASE IsPrefix(head, tracking) /\ MoveHead(tracking) /\ UNCHANGED rb
    <3>1. Carried' = tracking
      BY <2>0, <2>1 DEF MoveHead, Carried
    <3>2. NoneLive
      BY <1>t, <2>0, <2>1, PrefixTransitive, ArrivedAlone
    <3>. QED BY <1>t, <2>0, <3>1, <3>2 DEF Replaced
  <2>2. CASE UNCHANGED tree
    BY <2>2 DEF tree, Carried
  <2>3. CASE Diverged
    BY <1>t, <2>0, <2>3, PrefixReflexive, DivergedBeaten DEF Diverged, Replaced
  <2>. QED BY <1>3, <2>1, <2>2, <2>3 DEF RebaseOntoOrigin
<1>4. CASE RebaseKilled
  BY <1>2, <1>4, <1>r DEF RebaseKilled
<1>5. CASE ContinueRebase
  <2>1. rb # None
    BY <1>0, <1>5 DEF ContinueRebase, Staged
  <2>. QED BY <1>5, <1>l, <2>1, StoppedBeaten DEF LocalStep, Replaced
<1>6. CASE FinalizeRebasedCommit
  <2>1. rb = None /\ rb' = None /\ head' = (IF Fresh(head) THEN head ELSE Amended(head))
        /\ Carried = head /\ Carried' = head'
    BY <1>6, <1>r DEF FinalizeRebasedCommit, MoveHead, Carried
  <2>2. CASE Fresh(head)
    BY <2>1, <2>2
  <2>3. CASE ~Fresh(head)
    BY <1>6, <1>l, <2>1, <2>3, DriftedBeaten DEF LocalStep, Replaced
  <2>. QED BY <2>2, <2>3
<1>7. CASE AttachMain
  BY <1>7 DEF AttachMain, tree, Carried
<1>8. CASE SwitchToMain
  BY <1>0, <1>8, <1>r DEF SwitchToMain, Arrived, Carried
<1>9. CASE AbortRebase
  <2>1. rb # None
    BY <1>0, <1>9 DEF AbortRebase, Staged
  <2>. QED BY <1>9, <1>l, <2>1, StoppedBeaten DEF LocalStep, Replaced
<1>10. CASE RestoreMain
  <2>1. Beaten
    BY <1>0, <1>10 DEF RestoreMain, Conflicted
  <2>. QED BY <1>10, <1>l, <2>1 DEF LocalStep, Replaced
<1>11. CASE ResolveConflict
  <2>1. rb # None
    BY <1>11 DEF ResolveConflict
  <2>. QED BY <1>11, <1>l, <2>1, StoppedBeaten DEF LocalStep, Replaced
<1>. QED
  BY <1>0, <1>1, <1>3, <1>4, <1>5, <1>6, <1>7, <1>8, <1>9, <1>10, <1>11
  DEF Next, Step, Failure, Environment, StillStep, CommitManaged, ResetToOrigin, Staged

\* What is forgotten leaves no request behind that could land on main.
LEMMA ForgottenAlone ==
    ASSUME LogInv, CleanupPublished \/ CleanupExhausted \/ CleanupPreserved
    PROVE  NoneLive /\ UNCHANGED <<origin, flight, tracking>>
<1>0. IInv /\ Conflicted /\ Arrived /\ Raced /\ Staged
  BY DEF LogInv, IInv
<1>1. UNCHANGED <<origin, flight, tracking>>
  BY LocalStepKeepsRemote DEF LocalStep, remote
<1>2. CASE CleanupPublished
  <2>1. rb = None /\ IsPrefix(head, origin)
    BY <1>0, <1>2 DEF CleanupPublished, CleanupAs, Staged, Arrived
  <2>. QED BY <1>1, <2>1, ArrivedAlone DEF Carried
<1>3. CASE CleanupExhausted
  BY <1>0, <1>1, <1>3 DEF CleanupExhausted, CleanupAs, Staged, Raced, Counting
<1>4. CASE CleanupPreserved
  BY <1>0, <1>1, <1>4 DEF CleanupPreserved, CleanupAs, Staged, Conflicted, Beaten
<1>. QED BY <1>2, <1>3, <1>4

\* A change of the owner comes to main only by its own commit.
LEMMA ArrivesOnce ==
    ASSUME LogInv, [Next]_vars, NEW x \in Own, x \in Changes(origin'), x \notin Changes(origin)
    PROVE  OwnArrives /\ x = Subject
<1>t. origin \in Commit /\ Foreign \cap Own = {}
  BY CommitTypes, ChangesAssumption DEF LogInv
<1>1. ~ForeignArrives
  <2>. SUFFICES ASSUME NEW c \in Foreign, origin' = Append(origin, [change |-> c, todo |-> TRUE])
                PROVE  FALSE
    BY DEF ForeignArrives
  <2>1. [change |-> c, todo |-> TRUE] \in Entry /\ [change |-> c, todo |-> TRUE].change = c
    BY DEF Entry
  <2>2. Changes(origin') = Changes(origin) \cup {c}
    BY <1>t, <2>1, AppendedCommit
  <2>. QED BY <1>t, <2>2
<1>2. OwnArrives
  BY <1>1, Arriving DEF NothingArrives, IsPutAside
<1>3. x = Subject
  BY <1>2, NextOnMain DEF OwnArrives
<1>. QED BY <1>2, <1>3

\* The requests that can land stay alone, and stay none if there were none.
LEMMA LiveStep ==
    LogInv /\ [Next]_vars =>
        \A f \in flight' : Live(f)' => (f \in flight /\ Live(f)) \/ (run.pc = "push" /\ f.commit = head)
BY LiveBefore, Requesting DEF Live

LEMMA StaysNone ==
    LogInv /\ [Next]_vars /\ NoneLive /\ run.pc # "push" => NoneLive'
BY LiveStep DEF NoneLive

LEMMA StaysBeaten ==
    ASSUME LogInv, [Next]_vars, Beaten, run.pc # "push", st # None, st' # None
    PROVE  Beaten'
<1>1. NoneLive' /\ Subject' = Subject /\ Subject \in Own
  BY StaysNone, SubjectKept, CarriedHolds DEF Beaten, LogInv
<1>2. ~OwnArrives
  BY DEF OwnArrives, Beaten
<1>. QED BY <1>1, <1>2, ArrivesOnce DEF Beaten

LEMMA SingleStep == LogInv /\ [Next]_vars => Single'
<1>. SUFFICES ASSUME LogInv, [Next]_vars PROVE Single'
  OBVIOUS
<1>0. IInv /\ Single
  BY DEF LogInv
<1>t. /\ origin \in Commit /\ origin' \in Commit /\ IsPrefix(origin, origin')
      /\ Carried \in Commit
  BY <1>0, CommitTypes, OriginTyped
<1>1. ASSUME NEW f \in flight', Live(f)'
      PROVE  st' # None /\ f.commit = Carried'
  <2>1. CASE f \in flight
    <3>1. st # None /\ f.commit = Carried /\ ~NoneLive
      BY <1>0, <1>1, <2>1, LiveBefore DEF Single, NoneLive
    <3>2. st' # None
      BY <3>1, SubjectKept, ForgottenAlone
    <3>. QED BY <3>1, <3>2, CarriedStep DEF Replaced, Beaten
  <2>2. CASE f \notin flight
    <3>1. PushStep /\ f.commit = head
      BY <1>1, <2>2, Requesting DEF Live
    <3>. QED BY <1>0, <3>1, PushFacts DEF Carried, tree
  <2>. QED BY <2>1, <2>2
<1>2. ASSUME st' # None, Subject' \in Changes(origin')
      PROVE  IsPrefix(Carried', origin')
  <2>1. st # None
    BY <1>0, <1>2, SubjectKept, Created DEF Pending, LogInv, remote
  <2>2. Subject' = Subject /\ Subject \in Own
    BY <1>0, <1>2, <2>1, SubjectKept, CarriedHolds
  <2>3. CASE Subject \in Changes(origin)
    <3>1. IsPrefix(Carried, origin)
      BY <1>0, <2>1, <2>3 DEF Single
    <3>2. Carried' = Carried \/ (IsPrefix(Carried', origin) /\ origin' = origin)
      BY <1>2, <2>1, <2>3, CarriedStep DEF Replaced, Beaten
    <3>. QED BY <1>t, <3>1, <3>2, PrefixTransitive
  <2>4. CASE Subject \notin Changes(origin)
    <3>1. origin' = Carried /\ UNCHANGED <<head, rb>>
      BY <1>2, <2>2, <2>4, ArrivesOnce DEF OwnArrives
    <3>2. Carried' = Carried
      BY <3>1 DEF Carried
    <3>. QED BY <1>t, <3>1, <3>2, PrefixReflexive
  <2>. QED BY <2>3, <2>4
<1>. QED BY <1>1, <1>2 DEF Single

----------------------------------------------------------------------------
(* Where a run goes *)

LEMMA GoingOn ==
    ASSUME IInv, NEW pc \in Labels, Goto(pc)
    PROVE  /\ run'.pc = pc /\ run'.count = run.count /\ run'.then = run.then
           /\ run'.before = run.before /\ out' = out
BY DEF Goto, Runs, IInv, TypeOK

Outside == (Environment \/ UNCHANGED vars) /\ UNCHANGED <<run, out, st>>

Stays == run'.before = run.before /\ run'.count = run.count /\ out' = out

\* The steps that lead a run on, and where to.
Onward ==
    \/ CommitManaged /\ run'.pc = "create"
    \/ CreateState /\ run'.pc = "detach"
    \/ DetachPublication /\ run'.pc = "fetch"
    \/ Fetch /\ run'.pc = "rebase" /\ ~run'.count
    \/ RebaseOntoOrigin /\ run'.pc \in {"finalize", "continue"} /\ Stays
    \/ ContinueRebase /\ run'.pc = "finalize" /\ Stays
    \/ /\ FinalizeRebasedCommit /\ Stays
       /\ run'.pc = IF st.conflicts THEN "clear" ELSE IF run.count THEN "count" ELSE run.then
    \/ ClearConflicts /\ run'.pc = (IF run.count THEN "count" ELSE run.then) /\ Stays
    \/ CountCleanRace /\ run'.pc = run.then
    \/ /\ PublishAttempt
       /\ run'.pc = IF AlreadyPublished THEN "attach"
                    ELSE IF st.races >= RaceLimit THEN "recover" ELSE "push"
       /\ run'.before = tracking
    \/ PushMain /\ run'.pc = "attach" /\ Accepts(origin, head) /\ LandOnMain(head)
    \/ (PushMain \/ PushMainUncertain) /\ run'.pc = "refetch" /\ Stays
    \/ FetchAfterPush /\ run'.pc = "rebase" /\ run'.count /\ origin # run.before
    \/ PushRecovery /\ run'.pc = "cleanup_exhausted"
    \/ AttachMain /\ run'.pc = "switch" /\ main' = head
    \/ SwitchToMain /\ run'.pc = "cleanup"
    \/ AbortRebase /\ run'.pc = "restore" /\ st.conflicts
    \/ RestoreMain /\ run'.pc = "verify"
    \/ VerifyAbort /\ run'.pc = "alloc"
    \/ AllocatePending /\ run'.pc = "preserve"
    \/ (PushPending \/ QueryBranch \/ MarkProven)
          /\ run'.pc \in {"preserve", "prove", "cleanup_preserved"}

Begun ==
    \E t \in Threads, preserve \in BOOLEAN :
        Invoke(t, preserve) /\ run'.pc = Route(t, preserve) /\ ~run'.count /\ out' = out

LEMMA Moving ==
    LogInv /\ [Next]_vars =>
        Outside \/ Begun \/ run'.pc = "idle" \/ (Onward /\ run'.pc # "idle" /\ out' = out)
<1>. SUFFICES ASSUME LogInv, [Next]_vars
              PROVE  \/ Outside \/ Begun \/ run'.pc = "idle"
                     \/ (Onward /\ run'.pc # "idle" /\ out' = out)
  OBVIOUS
<1>t. run \in Runs /\ run.then \in {"attempt", "fetch"}
  BY DEF LogInv, IInv, TypeOK, Runs
<1>g. \A pc \in Labels : Goto(pc) => /\ run'.pc = pc /\ run'.count = run.count
                                     /\ run'.before = run.before /\ out' = out
  BY GoingOn DEF LogInv
<1>e. \A code \in Codes : Exit(code) => run'.pc = "idle"
  BY Exiting DEF LogInv
<1>1. CASE CommitManaged
  BY <1>1, <1>g, <1>t, <1>e DEF CommitManaged, Onward, Stays, Labels, Codes, Refusals
<1>2. CASE CreateState
  BY <1>2, <1>g, <1>t, <1>e DEF CreateState, Onward, Stays, Labels, Codes, Refusals
<1>3. CASE DetachPublication
  BY <1>3, <1>g, <1>t, <1>e DEF DetachPublication, Onward, Stays, Labels, Codes, Refusals
<1>4. CASE Fetch
  BY <1>4, <1>g, <1>t, <1>e DEF Fetch, Runs, Onward, Stays, Labels, Codes, Refusals
<1>5. CASE RebaseOntoOrigin
  BY <1>5, <1>g, <1>t, <1>e DEF RebaseOntoOrigin, Onward, Stays, Labels, Codes, Refusals
<1>6. CASE ReportConflict
  BY <1>6, <1>g, <1>t, <1>e DEF ReportConflict, Onward, Stays, Labels, Codes, Refusals
<1>7. CASE ContinueRebase
  BY <1>7, <1>g, <1>t, <1>e DEF ContinueRebase, FinishRebase, Onward, Stays, Labels, Codes, Refusals
<1>8. CASE FinalizeRebasedCommit
  BY <1>8, <1>g, <1>t, <1>e DEF FinalizeRebasedCommit, Onward, Stays, Labels, Codes, Refusals
<1>9. CASE ClearConflicts
  BY <1>9, <1>g, <1>t, <1>e DEF ClearConflicts, Onward, Stays, Labels, Codes, Refusals
<1>10. CASE CountCleanRace
  BY <1>10, <1>g, <1>t, <1>e DEF CountCleanRace, Onward, Stays, Labels, Codes, Refusals
<1>11. CASE PublishAttempt
  BY <1>11, <1>g, <1>t, <1>e DEF PublishAttempt, Runs, Onward, Stays, Labels, Codes, Refusals
<1>12. CASE PushMain
  BY <1>12, <1>g, <1>t, <1>e DEF PushMain, Onward, Stays, Labels, Codes, Refusals
<1>13. CASE FetchAfterPush
  BY <1>13, <1>g, <1>t, <1>e DEF FetchAfterPush, Runs, Onward, Stays, Labels, Codes, Refusals
<1>14. CASE PushRecovery
  BY <1>14, <1>g, <1>t, <1>e DEF PushRecovery, Onward, Stays, Labels, Codes, Refusals
<1>15. CASE AttachMain
  BY <1>15, <1>g, <1>t, <1>e DEF AttachMain, Onward, Stays, Labels, Codes, Refusals
<1>16. CASE SwitchToMain
  BY <1>16, <1>g, <1>t, <1>e DEF SwitchToMain, Onward, Stays, Labels, Codes, Refusals
<1>17. CASE CleanupPublished
  BY <1>17, <1>g, <1>t, <1>e DEF CleanupPublished, CleanupAs, Onward, Stays, Labels, Codes, Refusals
<1>18. CASE CleanupExhausted
  BY <1>18, <1>g, <1>t, <1>e DEF CleanupExhausted, CleanupAs, Onward, Stays, Labels, Codes, Refusals
<1>19. CASE CleanupPreserved
  BY <1>19, <1>g, <1>t, <1>e DEF CleanupPreserved, CleanupAs, Onward, Stays, Labels, Codes, Refusals
<1>20. CASE AbortRebase
  BY <1>20, <1>g, <1>t, <1>e DEF AbortRebase, Onward, Stays, Labels, Codes, Refusals
<1>21. CASE RestoreMain
  BY <1>21, <1>g, <1>t, <1>e DEF RestoreMain, Onward, Stays, Labels, Codes, Refusals
<1>22. CASE VerifyAbort
  BY <1>22, <1>g, <1>t, <1>e DEF VerifyAbort, Onward, Stays, Labels, Codes, Refusals
<1>23. CASE AllocatePending
  BY <1>23, <1>g, <1>t, <1>e DEF AllocatePending, Onward, Stays, Labels, Codes, Refusals
<1>24. CASE PushPending
  BY <1>24, <1>g, <1>t, <1>e DEF PushPending, Onward, Stays, Labels, Codes, Refusals
<1>25. CASE QueryBranch
  BY <1>25, <1>g, <1>t, <1>e DEF QueryBranch, Onward, Stays, Labels, Codes, Refusals
<1>26. CASE MarkProven
  BY <1>26, <1>g, <1>t, <1>e DEF MarkProven, Onward, Stays, Labels, Codes, Refusals
<1>27. CASE Interrupt
  BY <1>27, <1>g, <1>t, <1>e DEF Interrupt, Onward, Stays, Labels, Codes, Refusals
<1>28. CASE RebaseKilled
  BY <1>28, <1>g, <1>t, <1>e DEF RebaseKilled, Onward, Stays, Labels, Codes, Refusals
<1>29. CASE RemoteUnavailable
  BY <1>29, <1>g, <1>t, <1>e DEF RemoteUnavailable, Onward, Stays, Labels, Codes, Refusals
<1>30. CASE PushMainUncertain
  BY <1>30, <1>g, <1>t, <1>e DEF PushMainUncertain, Onward, Stays, Labels, Codes, Refusals
<1>31. CASE PushPendingUncertain
  BY <1>31, <1>g, <1>t, <1>e DEF PushPendingUncertain, Onward, Stays, Labels, Codes, Refusals
<1>32. ASSUME NEW t \in Threads, NEW preserve \in BOOLEAN, Invoke(t, preserve)
       PROVE  Begun \/ run'.pc = "idle"
  <2>1. CASE Route(t, preserve) \in Refusals
    BY <1>32, <1>e, <2>1 DEF Invoke, Codes
  <2>2. CASE Route(t, preserve) \notin Refusals
    BY <1>32, <2>2, IdleRun DEF Invoke, Idle, Begun
  <2>. QED BY <2>1, <2>2
<1>33. CASE Environment \/ UNCHANGED vars
  BY <1>33 DEF Environment, FlightEnds, ForeignPush, ForeignBranch, SyncFetch, WriteChange,
              ResolveConflict, StrayEdit, UndoStray, ResetToOrigin, vars, Outside
<1>. QED
  BY <1>1, <1>2, <1>3, <1>4, <1>5, <1>6, <1>7, <1>8, <1>9, <1>10, <1>11, <1>12, <1>13, <1>14, <1>15, <1>16, <1>17, <1>18, <1>19, <1>20, <1>21, <1>22, <1>23, <1>24, <1>25, <1>26, <1>27, <1>28, <1>29, <1>30, <1>31, <1>32, <1>33
  DEF Next, Step, Failure

----------------------------------------------------------------------------
(* Conflicts and races *)

\* How the retained state changes while it is retained.
Recorded ==
    /\ rb # None /\ run.pc = "continue" /\ (ReportConflict \/ ContinueRebase)
    /\ st' = RecordConflicts(st)

LEMMA StateStep ==
    LogInv /\ [Next]_vars /\ st # None /\ st' # None =>
        \/ st' = st
        \/ Recorded
        \/ ClearConflicts /\ st' = SetConflicts(st, FALSE, FALSE)
        \/ CountCleanRace /\ st' = Counted(st) /\ st.races < RaceLimit
        \/ AllocatePending /\ st.conflicts /\ st'.conflicts = st.conflicts /\ st'.races = st.races
        \/ MarkProven /\ st'.conflicts = st.conflicts /\ st'.races = st.races /\ st.pres # "none"
<1>. SUFFICES ASSUME LogInv, [Next]_vars, st # None, st' # None
              PROVE  \/ st' = st
                     \/ Recorded
                     \/ ClearConflicts /\ st' = SetConflicts(st, FALSE, FALSE)
                     \/ CountCleanRace /\ st' = Counted(st) /\ st.races < RaceLimit
                     \/ AllocatePending /\ st.conflicts /\ st'.conflicts = st.conflicts /\ st'.races = st.races
                     \/ MarkProven /\ st'.conflicts = st.conflicts /\ st'.races = st.races /\ st.pres # "none"
  OBVIOUS
<1>0. IInv /\ Conflicted /\ Staged /\ st \in States
  BY DEF LogInv, IInv, TypeOK
<1>1. CASE ClearConflicts
  BY <1>1 DEF ClearConflicts
<1>2. CASE CountCleanRace
  BY <1>0, <1>2 DEF CountCleanRace, Staged
<1>3. CASE AllocatePending
  <2>1. PICK s \in Stamps : st' = [st EXCEPT !.pres = "push_pending",
                                             !.branch = <<"conflicts", st.thread, s>>]
    BY <1>3 DEF AllocatePending
  <2>2. st'.conflicts = st.conflicts /\ st'.races = st.races
    BY <1>0, <2>1 DEF States
  <2>. QED BY <1>0, <1>3, <2>2 DEF AllocatePending, Conflicted
<1>4. CASE MarkProven
  BY <1>0, <1>4 DEF MarkProven, Staged, States
<1>5. CASE ReportConflict \/ ContinueRebase
  BY <1>0, <1>5 DEF ReportConflict, ContinueRebase, FinishRebase, Recorded, Staged
<1>6. CASE CreateState
  BY <1>6, Created
<1>7. CASE CleanupPublished \/ CleanupExhausted \/ CleanupPreserved
  BY <1>7 DEF CleanupPublished, CleanupExhausted, CleanupPreserved, CleanupAs
<1>8. CASE Outside
  BY <1>8 DEF Outside
<1>. QED
  BY <1>1, <1>2, <1>3, <1>4, <1>5, <1>6, <1>7, <1>8
  DEF Next, Step, Failure, Environment, Outside, vars, CommitManaged, DetachPublication, Fetch,
      RebaseOntoOrigin, FinalizeRebasedCommit,
      PublishAttempt, PushMain, FetchAfterPush, PushRecovery, AttachMain,
      SwitchToMain, AbortRebase, RestoreMain, VerifyAbort, PushPending, QueryBranch,
      Interrupt, RebaseKilled, RemoteUnavailable, PushMainUncertain,
      PushPendingUncertain, FlightEnds, ForeignPush, ForeignBranch, SyncFetch, WriteChange,
      ResolveConflict, StrayEdit, UndoStray, ResetToOrigin, Invoke

LEMMA UpdatedFlags ==
    ASSUME NEW s \in States, stray \in BOOLEAN
    PROVE  /\ RecordConflicts(s) \in States /\ RecordConflicts(s).conflicts
           /\ RecordConflicts(s).races = s.races /\ RecordConflicts(s).pres = s.pres
           /\ SetConflicts(s, FALSE, FALSE).races = s.races
           /\ SetConflicts(s, FALSE, FALSE).pres = s.pres
           /\ ~SetConflicts(s, FALSE, FALSE).conflicts
           /\ s.races < RaceLimit => /\ ~Counted(s).conflicts /\ Counted(s).pres = s.pres
                                     /\ Counted(s).races = s.races + 1
<1>1. /\ ~SetConflicts(s, FALSE, FALSE).conflicts /\ SetConflicts(s, TRUE, stray).conflicts
      /\ s.conflicts \in BOOLEAN
  BY DEF SetConflicts, States
<1>2. RecordConflicts(s).conflicts
  BY <1>1 DEF RecordConflicts
<1>3. SetConflicts(s, FALSE, FALSE) \in States
  BY UpdatedState
<1>4. ~Counted(s).conflicts
  BY <1>1, <1>3 DEF Counted, States
<1>. QED BY <1>1, <1>2, <1>4, UpdatedState, CountedState

\* A rebase that stops has two sides, which it keeps until it is finished.
LEMMA RebaseKept ==
    LogInv /\ [Next]_vars /\ rb' # None =>
        \/ rb # None /\ rb'.from = rb.from /\ rb'.onto = rb.onto
        \/ Diverged /\ rb'.from = head /\ rb'.onto = tracking
<1>. SUFFICES ASSUME LogInv, [Next]_vars, rb' # None
              PROVE  \/ rb # None /\ rb'.from = rb.from /\ rb'.onto = rb.onto
                     \/ Diverged /\ rb'.from = head /\ rb'.onto = tracking
  OBVIOUS
<1>0. rb # None => rb \in Rebases
  BY DEF LogInv, IInv, TypeOK
<1>1. ASSUME NEW u, RebaseStopped(u) PROVE rb'.from = head /\ rb'.onto = tracking
  BY <1>1 DEF RebaseStopped
<1>2. ASSUME NEW u, rb # None, rb' = [rb EXCEPT !.unmerged = u]
      PROVE  rb'.from = rb.from /\ rb'.onto = rb.onto
  BY <1>0, <1>2 DEF Rebases
<1>3. CASE StillStep
  BY <1>3, StillStepKeepsTree DEF tree
<1>4. CASE RebaseOntoOrigin \/ RebaseKilled
  BY <1>1, <1>4 DEF RebaseOntoOrigin, RebaseKilled, tree
<1>5. CASE ContinueRebase
  <2>1. rb # None
    BY <1>5 DEF ContinueRebase, LogInv, IInv, Staged
  <2>. QED BY <1>2, <1>5, <2>1 DEF ContinueRebase, FinishRebase, tree
<1>6. CASE ResolveConflict
  BY <1>2, <1>6 DEF ResolveConflict
<1>7. CASE AbortRebase
  BY <1>7 DEF AbortRebase, tree
<1>. QED
  BY <1>3, <1>4, <1>5, <1>6, <1>7
  DEF Next, Step, Failure, Environment, StillStep, CommitManaged, DetachPublication,
      FinalizeRebasedCommit, AttachMain, SwitchToMain, RestoreMain, ResetToOrigin, tree

LEMMA OutsideKeeps == Outside /\ run.pc # "idle" => UNCHANGED <<main, tree>>
BY DEF Outside, Environment, FlightEnds, ForeignPush, ForeignBranch, SyncFetch, WriteChange,
       ResolveConflict, StrayEdit, UndoStray, ResetToOrigin, refs, tree, vars

LEMMA ConflictedStep == LogInv /\ [Next]_vars => Conflicted'
<1>. SUFFICES ASSUME LogInv, [Next]_vars PROVE Conflicted'
  OBVIOUS
<1>0. IInv /\ Conflicted /\ Staged /\ stray \in BOOLEAN /\ run.then \in {"attempt", "fetch"}
  BY DEF LogInv, IInv, TypeOK, Runs
<1>1. rb' # None => ~IsPrefix(rb'.from, rb'.onto) /\ ~IsPrefix(rb'.onto, rb'.from)
  BY <1>0, RebaseKept DEF Conflicted, Diverged
<1>s. st # None => st \in States
  BY <1>0, CommitTypes
<1>2. ASSUME st' # None, st'.conflicts
      PROVE  Beaten'
  <2>1. st # None
    BY <1>2, SubjectKept, Created
  <2>2. CASE st.conflicts
    <3>1. Beaten /\ run.pc # "push"
      BY <1>0, <2>1, <2>2 DEF Conflicted
    <3>. QED BY <1>2, <2>1, <3>1, StaysBeaten
  <2>3. CASE Recorded
    <3>1. Beaten /\ run.pc # "push"
      BY <2>3, StoppedBeaten DEF Recorded
    <3>. QED BY <1>2, <2>1, <3>1, StaysBeaten
  <2>. QED BY <1>s, <1>0, <1>2, <2>1, <2>2, <2>3, StateStep, UpdatedFlags
<1>3. ASSUME st' # None, st'.pres # "none"
      PROVE  st'.conflicts
  <2>1. st # None
    BY <1>3, SubjectKept, Created
  <2>2. st.pres # "none" => st.conflicts
    BY <1>0, <2>1 DEF Conflicted
  <2>3. st.pres # "none" => run.pc \notin {"clear", "count"}
    BY <1>0, <2>1 DEF Staged
  <2>. QED BY <1>s, <1>0, <1>3, <2>1, <2>2, <2>3, StateStep, UpdatedFlags
           DEF Recorded, ClearConflicts, CountCleanRace
<1>4. ASSUME run'.pc \in {"restore", "verify", "alloc"}
      PROVE  st'.conflicts
  <2>1. CASE Outside
    BY <1>0, <1>4, <2>1 DEF Outside, Conflicted
  <2>2. CASE Begun
    BY <1>4, <2>2 DEF Begun, Invoke, Route
  <2>3. CASE Onward
    BY <1>0, <1>4, <2>3
    DEF Onward, Conflicted, AbortRebase, RestoreMain, VerifyAbort
  <2>. QED BY <1>4, <2>1, <2>2, <2>3, Moving
<1>5. ASSUME run'.pc \in {"detach", "fetch", "rebase", "count", "attempt", "push", "refetch",
                          "attach", "switch", "cleanup", "recover", "cleanup_exhausted"}
      PROVE  ~st'.conflicts
  <2>1. CASE Outside
    BY <1>0, <1>5, <2>1 DEF Outside, Conflicted
  <2>2. CASE Begun
    BY <1>5, <2>2 DEF Begun, Invoke, Route
  <2>3. CASE CreateState \/ ClearConflicts \/ CountCleanRace
    <3>1. CASE CreateState
      BY <3>1, Created
    <3>2. CASE ClearConflicts
      BY <1>s, <1>0, <3>2, UpdatedFlags DEF ClearConflicts, Staged
    <3>3. CASE CountCleanRace
      BY <1>s, <1>0, <3>3, UpdatedFlags DEF CountCleanRace, Staged
    <3>. QED BY <2>3, <3>1, <3>2, <3>3
  <2>4. CASE Onward /\ ~(CreateState \/ ClearConflicts \/ CountCleanRace)
    BY <1>0, <1>5, <2>4
    DEF Onward, Conflicted, DetachPublication, Fetch, FinalizeRebasedCommit, PublishAttempt,
        PushMain, PushMainUncertain, FetchAfterPush, PushRecovery, AttachMain, SwitchToMain
  <2>. QED BY <1>5, <2>1, <2>2, <2>3, <2>4, Moving
<1>. QED BY <1>1, <1>2, <1>3, <1>4, <1>5 DEF Conflicted

LEMMA ArrivedStep == LogInv /\ [Next]_vars => Arrived'
<1>. SUFFICES ASSUME LogInv, [Next]_vars, run'.pc \in {"attach", "switch", "cleanup"}
              PROVE  IsPrefix(head', origin') /\ (run'.pc = "switch" => main' = head')
  BY DEF Arrived
<1>0. IInv /\ Arrived
  BY DEF LogInv
<1>t. /\ head \in Commit /\ tracking \in Commit /\ origin \in Commit /\ IsPrefix(tracking, origin)
      /\ origin' \in Commit /\ IsPrefix(origin, origin') /\ run.then \in {"attempt", "fetch"}
  BY <1>0, CommitTypes, OriginTyped DEF Runs
<1>a. IsPrefix(head, origin) => IsPrefix(head, origin')
  BY <1>t, PrefixTransitive
<1>g. \A pc \in Labels : Goto(pc) => run'.pc = pc
  BY <1>0, GoingOn
<1>1. CASE Outside
  BY <1>0, <1>a, <1>1, OutsideKeeps DEF Outside, Arrived, tree
<1>2. CASE Begun
  BY <1>2 DEF Begun, Route
<1>3. CASE PublishAttempt
  BY <1>t, <1>a, <1>3, PrefixTransitive, Moving DEF PublishAttempt, AlreadyPublished, Runs, tree
<1>4. CASE PushMain /\ LandOnMain(head)
  BY <1>t, <1>g, <1>4, PrefixReflexive DEF PushMain, LandOnMain, tree, Labels
<1>5. CASE AttachMain /\ main' = head
  BY <1>0, <1>a, <1>5 DEF AttachMain, Arrived, tree
<1>6. CASE SwitchToMain
  BY <1>0, <1>a, <1>6 DEF SwitchToMain, Arrived, refs, Goto
<1>. QED BY <1>t, <1>1, <1>2, <1>3, <1>4, <1>5, <1>6, Moving DEF Onward

\* A run begins to count a race after the fetch that showed it.
LEMMA CountingStep ==
    LogInv /\ [Next]_vars /\ Counting' =>
        /\ st # None /\ st' # None
        /\ Counting \/ (FetchAfterPush /\ origin # run.before)
<1>. SUFFICES ASSUME LogInv, [Next]_vars, Counting'
              PROVE  /\ st # None /\ st' # None
                     /\ Counting \/ (FetchAfterPush /\ origin # run.before)
  OBVIOUS
<1>0. IInv /\ Staged /\ Staged' /\ stray \in BOOLEAN /\ RaceLimit \in Nat \ {0}
      /\ run.then \in {"attempt", "fetch"}
  BY StagedStep, BoundAssumption DEF LogInv, IInv, TypeOK, Runs
<1>s. st # None => st \in States /\ st.races \in Nat
  BY <1>0, CommitTypes DEF States
<1>1. st' # None
  BY <1>0 DEF Counting, Staged
<1>2. CASE st'.races >= RaceLimit
  <2>1. st # None
    BY <1>0, <1>1, <1>2, SubjectKept, Created
  <2>2. CASE CountCleanRace
    BY <1>0, <2>2 DEF CountCleanRace, Staged, Counting
  <2>3. CASE ~CountCleanRace
    <3>1. /\ RecordConflicts(st).races = st.races
          /\ SetConflicts(st, FALSE, FALSE).races = st.races
      BY <1>0, <1>s, <2>1, UpdatedFlags
    <3>2. st'.races = st.races
      BY <1>1, <2>1, <2>3, <3>1, StateStep DEF Recorded
    <3>. QED BY <1>1, <1>2, <2>1, <3>2 DEF Counting
  <2>. QED BY <2>1, <2>2, <2>3
<1>3. CASE run'.count /\ run'.pc \in {"rebase", "continue", "finalize", "clear", "count"}
  <2>1. CASE Outside
    BY <1>0, <1>3, <2>1 DEF Outside, Counting, Staged
  <2>2. CASE Begun
    BY <1>3, <2>2 DEF Begun
  <2>3. CASE Onward
    BY <1>0, <1>3, <2>3
    DEF Onward, Stays, Counting, Staged, RebaseOntoOrigin, ContinueRebase, FinalizeRebasedCommit,
        ClearConflicts, FetchAfterPush
  <2>. QED BY <1>1, <1>3, <2>1, <2>2, <2>3, Moving
<1>. QED BY <1>1, <1>2, <1>3 DEF Counting

\* A publication that counts its races does not come to main by itself.
LEMMA StaysOff ==
    ASSUME LogInv, [Next]_vars, Counting, st # None, st' # None
    PROVE  /\ NoneLive' /\ Subject' = Subject
           /\ Subject' \in Changes(origin') => Subject \in Changes(origin)
<1>0. IInv /\ Staged /\ NoneLive
  BY DEF LogInv, IInv, Raced
<1>1. run.pc # "push"
  <2>1. st \in States /\ st.races \in Nat /\ RaceLimit \in Nat
    BY <1>0, CommitTypes, BoundAssumption DEF States
  <2>. QED BY <1>0, <2>1 DEF Staged, Counting
<1>2. NoneLive' /\ Subject' = Subject /\ Subject \in Own
  BY <1>0, <1>1, StaysNone, SubjectKept, CarriedHolds
<1>. QED BY <1>0, <1>1, <1>2, ArrivesOnce DEF OwnArrives

LEMMA RacedStep == LogInv /\ [Next]_vars => Raced'
<1>. SUFFICES ASSUME LogInv, [Next]_vars PROVE Raced'
  OBVIOUS
<1>0. IInv /\ Raced /\ Single /\ Staged /\ Distinct(origin) /\ run.then \in {"attempt", "fetch"}
  BY DEF LogInv, IInv, TypeOK, Runs
<1>t. /\ head \in Commit /\ tracking \in Commit /\ origin \in Commit /\ IsPrefix(tracking, origin)
      /\ origin' \in Commit /\ IsPrefix(origin, origin') /\ run.before \in Commit
      /\ tracking' \in Commit /\ IsPrefix(tracking, tracking')
  BY <1>0, CommitTypes, OriginTyped, TypeStep, RemoteStep DEF Runs, TypeOK
<1>1. ASSUME run'.pc \in {"push", "refetch"}
      PROVE  /\ head' # <<>> /\ IsPrefix(Front(head'), run'.before)
             /\ IsPrefix(run'.before, origin')
  <2>1. CASE Outside
    BY <1>0, <1>t, <1>1, <2>1, OutsideKeeps, PrefixTransitive DEF Outside, Raced, tree
  <2>2. CASE Begun
    BY <1>1, <2>2 DEF Begun, Route
  <2>3. CASE PublishAttempt /\ run'.before = tracking /\ ~AlreadyPublished
    <3>1. st # None /\ rb = None /\ head' = head /\ origin' = origin
      BY <1>0, <2>3 DEF PublishAttempt, Staged, tree, remote
    <3>2. Carries(head)
      BY <1>0, <3>1, CarriedHolds DEF Carried
    <3>. QED BY <1>t, <2>3, <3>1, <3>2 DEF AlreadyPublished, Carries, Holds
  <2>4. CASE (PushMain \/ PushMainUncertain) /\ run'.pc = "refetch" /\ Stays
    <3>1. run.pc = "push" /\ head' = head
      BY <2>4 DEF PushMain, PushMainUncertain, tree
    <3>. QED BY <1>0, <1>t, <2>4, <3>1, PrefixTransitive DEF Raced, Stays
  <2>. QED BY <1>0, <1>1, <2>1, <2>2, <2>3, <2>4, Moving DEF Onward
<1>2. ASSUME Counting'
      PROVE  NoneLive' /\ (Subject' \in Changes(origin') => Subject' \in Changes(tracking'))
  <2>0. st # None /\ st' # None
    BY <1>2, CountingStep
  <2>1. CASE Counting
    BY <1>0, <1>t, <2>0, <2>1, StaysOff, PrefixChanges DEF Raced
  <2>2. CASE FetchAfterPush /\ origin # run.before
    <3>1. /\ run.pc = "refetch" /\ rb = None /\ Carried = head
          /\ tracking' = origin /\ origin' = origin
      BY <1>0, <2>2 DEF FetchAfterPush, Staged, Carried, remote
    <3>2. ASSUME NEW f \in flight, Live(f) PROVE FALSE
      <4>1. f.commit = head /\ IsPrefix(origin, head) /\ head # origin
        BY <1>0, <3>1, <3>2 DEF Single, Live
      <4>2. Front(head) = origin
        BY <2>0, <3>1, <4>1, NextOnMain
      <4>. QED BY <1>0, <1>t, <2>2, <3>1, <4>2, PrefixAntisymmetric DEF Raced
    <3>3. NoneLive'
      BY <3>1, <3>2, StaysNone DEF NoneLive
    <3>. QED BY <3>1, <3>3
  <2>. QED BY <1>2, <2>1, <2>2, CountingStep
<1>3. ASSUME run'.pc \in {"recover", "cleanup_exhausted"}
      PROVE  st'.races >= RaceLimit /\ Subject' \notin Changes(origin')
  <2>1. CASE Outside \/ PushRecovery
    <3>1. run.pc \in {"recover", "cleanup_exhausted"} /\ st' = st
      BY <1>3, <2>1 DEF Outside, PushRecovery
    <3>2. st # None
      BY <1>0, <3>1 DEF Staged
    <3>. QED BY <1>0, <3>1, <3>2, StaysOff DEF Raced, Counting
  <2>2. CASE Begun
    BY <1>3, <2>2 DEF Begun, Route
  <2>3. CASE PublishAttempt /\ ~AlreadyPublished /\ st.races >= RaceLimit
    <3>1. /\ st # None /\ rb = None /\ Carried = head /\ st' = st
          /\ origin' = origin /\ tracking' = tracking
      BY <1>0, <2>3 DEF PublishAttempt, Staged, Carried, remote, refs
    <3>2. ASSUME Subject \in Changes(origin) PROVE FALSE
      <4>1. Subject \in Changes(tracking) /\ IsPrefix(head, origin)
        BY <1>0, <2>3, <3>1, <3>2 DEF Raced, Counting, Single
      <4>2. ~IsPrefix(head, tracking) /\ IsPrefix(tracking, head) /\ tracking # head
        BY <1>t, <2>3, <4>1, OneLine, PrefixReflexive DEF AlreadyPublished
      <4>3. head # <<>> /\ Last(head).change = Subject /\ IsPrefix(Front(head), tracking)
        BY <1>0, <3>1, <4>2, CarriedHolds DEF Carries, Holds
      <4>4. tracking = Front(head)
        BY <1>t, <4>2, <4>3, NoneBetween
      <4>5. Distinct(head)
        BY <1>0, <1>t, <4>1, DistinctAncestor
      <4>. QED BY <1>t, <4>1, <4>3, <4>4, <4>5, NewestIsNew
    <3>. QED BY <2>3, <3>1, <3>2 DEF Subject
  <2>. QED BY <1>0, <1>3, <2>1, <2>2, <2>3, Moving DEF Onward
<1>. QED BY <1>1, <1>2, <1>3 DEF Raced

\* The reports that say where a change is, and the steps that make them.
Reporting ==
    /\ out'.change = Subject
    /\ \/ out'.code = "published" /\ CleanupPublished
       \/ out'.code = "main_changed" /\ AttachMain
       \/ out'.code = "preserved" /\ CleanupPreserved
       \/ out'.code = "exhausted" /\ CleanupExhausted
       \/ out'.code \notin {"published", "main_changed", "preserved", "exhausted"}

LEMMA ReportStep == LogInv /\ [Next]_vars => out' = out \/ Reporting
<1>. SUFFICES ASSUME LogInv, [Next]_vars PROVE out' = out \/ Reporting
  OBVIOUS
<1>1. \A code : Exit(code) => out'.code = code /\ out'.change = Subject
  BY DEF Exit
<1>2. \A pc : Goto(pc) => out' = out
  BY DEF Goto
<1>3. CASE CleanupPublished \/ CleanupExhausted \/ CleanupPreserved
  BY <1>1, <1>3 DEF CleanupPublished, CleanupExhausted, CleanupPreserved, CleanupAs, Reporting
<1>4. CASE AttachMain
  BY <1>1, <1>2, <1>4 DEF AttachMain, Reporting
<1>5. CASE \E t \in Threads, preserve \in BOOLEAN : Invoke(t, preserve)
  BY <1>1, <1>5 DEF Invoke, Reporting, Refusals
<1>6. CASE Failure
  BY <1>1, <1>2, <1>6
  DEF Failure, Interrupt, RebaseKilled, RemoteUnavailable, PushMainUncertain,
      PushPendingUncertain, Reporting
<1>7. CASE CommitManaged \/ ReportConflict \/ ContinueRebase \/ FetchAfterPush \/ PushRecovery
  <2>1. CASE ContinueRebase
    <3>1. \/ Goto("finalize") \/ Exit("refused") \/ Exit("conflict") \/ Exit("failed")
      BY <2>1 DEF ContinueRebase, FinishRebase
    <3>. QED BY <1>1, <1>2, <3>1 DEF Reporting
  <2>2. CASE ReportConflict
    <3>1. PICK code \in {"refused", "conflict"} : Exit(code)
      BY <2>2 DEF ReportConflict
    <3>. QED BY <1>1, <3>1 DEF Reporting
  <2>3. CASE CommitManaged \/ PushRecovery
    <3>1. Exit("refused") \/ Exit("failed") \/ Goto("create") \/ Goto("cleanup_exhausted")
      BY <2>3 DEF CommitManaged, PushRecovery
    <3>. QED BY <1>1, <1>2, <3>1 DEF Reporting
  <2>4. CASE FetchAfterPush
    BY <1>1, <2>4 DEF FetchAfterPush, Reporting
  <2>. QED BY <1>7, <2>1, <2>2, <2>3, <2>4
<1>8. CASE AbortRebase \/ VerifyAbort \/ PushPending \/ QueryBranch
  BY <1>1, <1>2, <1>8 DEF AbortRebase, VerifyAbort, PushPending, QueryBranch, Reporting
<1>. QED
  BY <1>2, <1>3, <1>4, <1>5, <1>6, <1>7, <1>8
  DEF Next, Step, Environment, CreateState, DetachPublication, Fetch, RebaseOntoOrigin,
      FinalizeRebasedCommit, ClearConflicts, CountCleanRace, PublishAttempt, PushMain,
      SwitchToMain, RestoreMain, AllocatePending, MarkProven, FlightEnds, ForeignPush,
      ForeignBranch, SyncFetch, WriteChange, ResolveConflict, StrayEdit, UndoStray,
      ResetToOrigin, vars

LEMMA ReportedStep == LogInv /\ [Next]_vars => Reported'
<1>. SUFFICES ASSUME LogInv, [Next]_vars PROVE Reported'
  OBVIOUS
<1>0. IInv /\ Reported /\ Arrived /\ Raced /\ Landed /\ Staged /\ Pending /\ out \in Outs
  BY CommitTypes DEF LogInv, IInv
<1>t. /\ origin \in Commit /\ origin' \in Commit /\ IsPrefix(origin, origin') /\ head \in Commit
      /\ Changes(origin) \subseteq Changes(origin') /\ durable \subseteq durable'
      /\ durable \subseteq Own \cup Foreign /\ None \notin Own \cup Foreign
  BY <1>0, CommitTypes, OriginTyped, RemoteStep, PrefixChanges, NoneAssumption
<1>1. ASSUME out' = out
      PROVE  Reported'
  <2>1. ASSUME out.code = "exhausted"
        PROVE  /\ out.change \notin Changes(origin')
               /\ st' # None => Subject' # out.change
               /\ run'.pc = "create" => Last(head').change # out.change
    <3>1. out.change \in durable \cap Own /\ out.change \notin Changes(origin)
      BY <1>0, <1>t, <2>1 DEF Reported, TruthfulReport, Outs
    <3>2. out.change \notin Changes(origin')
      BY <1>0, <2>1, <3>1, ArrivesOnce DEF OwnArrives, Reported
    <3>3. st' # None => Subject' # out.change
      BY <1>0, <2>1, SubjectKept, Created DEF Reported
    <3>4. ASSUME run'.pc = "create" PROVE Last(head').change # out.change
      <4>1. CASE CommitManaged
        BY <1>0, <3>1, <3>4, <4>1, CommitsOne DEF Pending, Committed
      <4>2. CASE ~CommitManaged
        BY <1>0, <2>1, <3>4, <4>2, StillCreating DEF Reported
      <4>. QED BY <4>1, <4>2
    <3>. QED BY <3>2, <3>3, <3>4
  <2>. QED BY <1>0, <1>t, <1>1, <2>1 DEF Reported, TruthfulReport
<1>2. CASE CleanupPublished \/ AttachMain
  <2>1. st # None /\ rb = None /\ IsPrefix(head, origin)
    BY <1>0, <1>2 DEF CleanupPublished, CleanupAs, AttachMain, Staged, Arrived
  <2>2. Subject \in Changes(head)
    BY <1>0, <2>1, CarriedHolds DEF Carried
  <2>3. Subject \in Changes(origin')
    BY <1>t, <2>1, <2>2, PrefixChanges
  <2>4. CASE out'.code \in {"published", "main_changed"} /\ out'.change = Subject
    BY <2>3, <2>4 DEF Reported, TruthfulReport
  <2>5. CASE out'.code \notin {"published", "main_changed", "preserved", "exhausted"}
    BY <2>5 DEF Reported, TruthfulReport
  <2>. QED BY <1>1, <1>2, <2>4, <2>5, ReportStep
       DEF Reporting, CleanupPublished, CleanupExhausted, CleanupPreserved, CleanupAs, AttachMain
<1>3. CASE CleanupPreserved /\ out'.code = "preserved" /\ out'.change = Subject
  BY <1>0, <1>t, <1>3 DEF CleanupPreserved, CleanupAs, Landed, Reported, TruthfulReport
<1>4. CASE CleanupExhausted /\ out'.code = "exhausted" /\ out'.change = Subject
  <2>1. /\ Subject \in durable /\ Subject \notin Changes(origin) /\ st' = None
        /\ run'.pc = "idle" /\ origin' = origin
    BY <1>0, <1>4, IdleRun DEF CleanupExhausted, CleanupAs, Exit, Landed, Raced, remote
  <2>. QED BY <1>t, <1>4, <2>1 DEF Reported, TruthfulReport
<1>5. CASE out'.code \notin {"published", "main_changed", "preserved", "exhausted"}
  BY <1>5 DEF Reported, TruthfulReport
<1>. QED BY <1>1, <1>2, <1>3, <1>4, <1>5, ReportStep DEF Reporting

----------------------------------------------------------------------------
(* The theorems *)

LEMMA InitLogInv == Init => LogInv
<1>. SUFFICES ASSUME Init PROVE LogInv
  OBVIOUS
<1>1. Distinct(origin) /\ Changes(origin) = {}
  BY EmptyCommit DEF Init, Distinct
<1>2. Pending
  BY <1>1, IdleRun, NoneAssumption DEF Init, Pending
<1>3. Single /\ Conflicted
  BY IdleRun DEF Init, Single, Conflicted
<1>4. Raced /\ Arrived
  BY IdleRun DEF Init, Raced, Arrived, Counting
<1>5. Reported
  BY IdleRun DEF Init, Reported, TruthfulReport
<1>. QED BY <1>1, <1>2, <1>3, <1>4, <1>5, InitIInv DEF LogInv

LEMMA InductiveLog == LogInv /\ [Next]_vars => LogInv'
<1>1. LogInv /\ [Next]_vars => IInv'
  BY Inductive DEF LogInv
<1>. QED BY <1>1, DistinctStep, PendingStep, SingleStep, ConflictedStep, RacedStep, ArrivedStep,
            ReportedStep
     DEF LogInv

\* What can still land on main holds in every state of every behaviour.
THEOREM LogInvariance == Spec => []LogInv
BY InitLogInv, InductiveLog, PTL DEF Spec

\* A run never reports a change to be where it is not: a published one is on
\* main, a preserved one has been on the remote, and an exhausted one has been
\* there and stays off main, although a push of it may once have been in flight.
THEOREM ReportsAreTrue == Spec => []TruthfulReport
<1>1. LogInv => TruthfulReport
  BY DEF LogInv, Reported
<1>. QED BY <1>1, LogInvariance, PTL

----------------------------------------------------------------------------
(* The log of durable knowledge *)

\* The changes of a commit, oldest first.
Sequence(c) == [i \in DOMAIN c |-> c[i].change]

LEMMA SequenceAppended ==
    ASSUME NEW c \in Commit, NEW e \in Entry
    PROVE  Sequence(Append(c, e)) = Append(Sequence(c), e.change)
<1>1. PICK d : d = Append(c, e)
  OBVIOUS
<1>2. /\ d \in Commit /\ Len(d) = Len(c) + 1 /\ Len(c) \in Nat
      /\ \A i \in 1 .. Len(c) : d[i] = c[i]
      /\ d[Len(c) + 1] = e
      /\ DOMAIN c = 1 .. Len(c) /\ DOMAIN d = 1 .. Len(c) + 1
  BY <1>1 DEF Commit
<1>3. /\ Sequence(c) \in Seq(Own \cup Foreign) /\ Len(Sequence(c)) = Len(c)
      /\ \A i \in 1 .. Len(c) : Sequence(c)[i] = c[i].change
  <2>1. Sequence(c) = [i \in 1 .. Len(c) |-> c[i].change]
    BY <1>2 DEF Sequence
  <2>2. ASSUME NEW i \in 1 .. Len(c) PROVE c[i].change \in Own \cup Foreign
    <3>1. c[i] \in Entry
      BY <1>2 DEF Commit
    <3>. QED BY <3>1 DEF Entry
  <2>. QED BY <1>2, <2>1, <2>2
<1>4. PICK s : s = Append(Sequence(c), e.change)
  OBVIOUS
<1>5. e.change \in Own \cup Foreign
  BY DEF Entry
<1>6. /\ s = [i \in 1 .. Len(c) + 1 |-> s[i]]
      /\ \A i \in 1 .. Len(c) : s[i] = c[i].change
      /\ s[Len(c) + 1] = e.change
  BY <1>2, <1>3, <1>4, <1>5
<1>7. \A i \in 1 .. Len(c) + 1 : i \in 1 .. Len(c) \/ i = Len(c) + 1
  BY <1>2
<1>8. Sequence(d) = [i \in 1 .. Len(c) + 1 |-> d[i].change]
  BY <1>2 DEF Sequence
<1>9. \A i \in 1 .. Len(c) + 1 : s[i] = d[i].change
  BY <1>2, <1>6, <1>7
<1>. QED BY <1>1, <1>4, <1>6, <1>8, <1>9

\* A change that reaches main is one step of the log.
LEMMA Published ==
    ASSUME NEW c \in Commit, c = origin, NEW e \in Entry, origin' = Append(c, e),
           e.change \notin Changes(c), durable' = durable \cup {e.change}
    PROVE  Durable!Publish(e.change)
<1>1. Sequence(origin') = Append(Sequence(origin), e.change)
  BY SequenceAppended
<1>2. \A i \in DOMAIN Sequence(c) : Sequence(c)[i] # e.change
  BY DEF Changes, Sequence
<1>. QED BY <1>1, <1>2 DEF Durable!Publish, Durable!InLog, Sequence

\* Publication implements the log: main is appended to by one new change at a
\* time, by whichever publisher, and what has reached the remote stays known.
THEOREM Refinement == Spec => ImplementsKnowledgeLog
<1>1. Init => Durable!Init
  <2>. SUFFICES ASSUME Init PROVE Durable!Init
    OBVIOUS
  <2>1. origin = <<>> /\ durable = {}
    BY DEF Init
  <2>2. [i \in DOMAIN origin |-> origin[i].change] = <<>>
    BY <2>1
  <2>. QED BY <2>1, <2>2 DEF Durable!Init
<1>2. LogInv /\ [Next]_vars => [Durable!Next]_<<Sequence(origin), durable>>
  <2>. SUFFICES ASSUME LogInv, [Next]_vars
                PROVE  Durable!Next \/ UNCHANGED <<Sequence(origin), durable>>
    OBVIOUS
  <2>t. origin \in Commit
    BY CommitTypes DEF LogInv
  <2>1. CASE NothingArrives
    BY <2>1 DEF NothingArrives
  <2>2. CASE ForeignArrives
    <3>1. PICK c \in Foreign \ Changes(origin) :
              /\ origin' = Append(origin, [change |-> c, todo |-> TRUE])
              /\ durable' = durable \cup {c}
      BY <2>2 DEF ForeignArrives
    <3>2. [change |-> c, todo |-> TRUE] \in Entry /\ [change |-> c, todo |-> TRUE].change = c
      BY DEF Entry
    <3>3. Durable!Publish(c)
      BY <2>t, <3>1, <3>2, Published
    <3>. QED BY <3>3 DEF Durable!Next
  <2>3. CASE OwnArrives
    <3>1. /\ st # None /\ IsPrefix(origin, Carried) /\ Carried # origin
          /\ origin' = Carried /\ durable' = durable \cup {Subject}
      BY <2>3 DEF OwnArrives
    <3>2. /\ Last(Carried) \in Entry /\ Last(Carried).change = Subject
          /\ Carried = Append(origin, Last(Carried)) /\ Subject \notin Changes(origin)
      BY <3>1, NextOnMain
    <3>3. PICK e : e = Last(Carried)
      OBVIOUS
    <3>4. /\ e \in Entry /\ e.change = Subject /\ origin' = Append(origin, e)
          /\ e.change \notin Changes(origin) /\ durable' = durable \cup {e.change}
      BY <3>1, <3>2, <3>3
    <3>5. Durable!Publish(e.change)
      BY <2>t, <3>4, Published
    <3>6. e.change \in Own
      BY <3>1, <3>4, CarriedHolds DEF LogInv
    <3>. QED BY <3>5, <3>6 DEF Durable!Next
  <2>4. CASE IsPutAside
    <3>1. PICK x \in Own : durable' = durable \cup {x} /\ origin' = origin
      BY <2>4 DEF IsPutAside, Committed
    <3>2. Durable!PutAside(x)
      BY <3>1 DEF Durable!PutAside
    <3>. QED BY <3>2 DEF Durable!Next
  <2>. QED BY <2>1, <2>2, <2>3, <2>4, Arriving
<1>3. LogInv /\ [Next]_vars
          => [Durable!Next]_<<[i \in DOMAIN origin |-> origin[i].change], durable>>
  BY <1>2 DEF Sequence
<1>. QED BY <1>1, <1>3, LogInvariance, PTL DEF Spec, ImplementsKnowledgeLog, Durable!Spec
============================================================================
