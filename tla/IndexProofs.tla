---------------------------- MODULE IndexProofs ----------------------------
(***************************************************************************)
(* What the derived index guarantees, for every set of repositories,       *)
(* clones, models and histories and every number of faults, to those who   *)
(* synchronise it (IndexSync) and to those who read it (Retrieval).        *)
(***************************************************************************)
EXTENDS Retrieval, TLAPS

----------------------------------------------------------------------------
(* The inductive invariant of the index *)

\* An advisory lock belongs to the one session that is open on it.
Sessions ==
    \A c \in Clones :
        /\ sync[c].alive <=> lock[SourceOf[c]] = c
        /\ \A s \in Sources : lock[s] = c => s = SourceOf[c]
        /\ At(c, "idle") => ~sync[c].alive

\* The checkpoint and every target are commits of their repository.
Targets ==
    /\ state # None => state.commit \in DOMAIN Trees[state.source]
    /\ \A c \in Clones : sync[c].pc \in {"state", "rows", "apply"} =>
          sync[c].target \in DOMAIN Trees[SourceOf[c]]

\* The checkpoint as a sync of c may adopt it.
OwnState(c) == IF state # None /\ state.source = SourceOf[c] THEN state ELSE None

\* While its session lasts, what a sync has read for its plan is still so,
\* unless the index has meanwhile become that of another repository.
Planned ==
    \A c \in Clones :
        /\ sync[c].alive /\ sync[c].pc \in {"rows", "apply"} => sync[c].state = OwnState(c)
        /\ sync[c].alive /\ At(c, "apply") /\ ~Foreign(c) =>
              /\ sync[c].rows = rows
              /\ state = None => Present(rows) = {}

SyncInv == TypeOK /\ Sessions /\ Targets /\ Planned /\ IndexMatchesCheckpoint

\* Nobody rewrites main, so a target is at or after the checkpoint.
Advancing ==
    /\ state # None => state.commit <= tip[state.source]
    /\ \A c \in Clones :
          sync[c].alive /\ sync[c].pc \in {"state", "rows", "apply"} =>
              /\ sync[c].target <= tip[SourceOf[c]]
              /\ state # None /\ state.source = SourceOf[c] => state.commit <= sync[c].target

----------------------------------------------------------------------------
(* Lemmas about rows and runs *)

LEMMA SourceTyped == \A c \in Clones : SourceOf[c] \in Sources /\ ModelOf[c] \in Models
BY IndexAssumption DEF Models

\* A commit of a history is a tree.
LEMMA TreeTyped ==
    ASSUME NEW s \in Sources, NEW n \in DOMAIN Trees[s]
    PROVE  Trees[s][n] \in Tree
BY IndexAssumption

LEMMA HistoryLength ==
    ASSUME NEW s \in Sources
    PROVE  Len(Trees[s]) \in Nat \ {0} /\ DOMAIN Trees[s] = 1 .. Len(Trees[s])
BY IndexAssumption

LEMMA RowTyped ==
    ASSUME NEW blob \in Blob \cup {None}, NEW model \in Models
    PROVE  /\ RowFor(blob, model) \in Row \cup {None}
           /\ RowFor(blob, model) = None <=> blob = None
BY IndexAssumption DEF RowFor, Row, Blob

LEMMA IdleTyped == Idle \in Run /\ Idle.pc = "idle" /\ Idle.alive = FALSE
BY DEF Idle, Run, Table

\* What a sync that stops leaves of its run.
LEMMA Stopped ==
    ASSUME TypeOK, NEW c \in Clones, Stop(c)
    PROVE  /\ sync' \in [Clones -> Run]
           /\ sync'[c].pc = "unlock" /\ sync'[c].alive = sync[c].alive
           /\ \A d \in Clones \ {c} : sync'[d] = sync[d]
<1>1. [Idle EXCEPT !.pc = "unlock", !.alive = sync[c].alive] \in Run
  BY DEF Idle, Run, Table, TypeOK
<1>2. /\ [Idle EXCEPT !.pc = "unlock", !.alive = sync[c].alive].pc = "unlock"
      /\ [Idle EXCEPT !.pc = "unlock", !.alive = sync[c].alive].alive = sync[c].alive
  BY DEF Idle
<1>. QED BY <1>1, <1>2 DEF Stop, Connected, TypeOK

LEMMA Moved ==
    ASSUME TypeOK, NEW c \in Clones, NEW pc \in {"fetch", "rows"}, Goto(c, pc)
    PROVE  /\ sync' \in [Clones -> Run]
           /\ sync'[c] = [sync[c] EXCEPT !.pc = pc]
           /\ \A d \in Clones \ {c} : sync'[d] = sync[d]
<1>. DEFINE r == [sync[c] EXCEPT !.pc = pc]
<1>1. r \in Run
  BY DEF TypeOK, Run
<1>2. sync' = [sync EXCEPT ![c] = r]
  BY DEF Goto
<1>. HIDE DEF r
<1>3. /\ sync' \in [Clones -> Run] /\ sync'[c] = r
      /\ \A d \in Clones \ {c} : sync'[d] = sync[d]
  BY <1>1, <1>2 DEF TypeOK
<1>. QED BY <1>3 DEF r

\* A sync that has fetched, read the checkpoint, or read the rows.
LEMMA Updated ==
    ASSUME TypeOK, NEW c \in Clones, NEW r \in Run, sync' = [sync EXCEPT ![c] = r]
    PROVE  /\ sync' \in [Clones -> Run] /\ sync'[c] = r
           /\ \A d \in Clones \ {c} : sync'[d] = sync[d]
BY DEF TypeOK

LEMMA Fetching ==
    ASSUME TypeOK, NEW c \in Clones, NEW n \in Nat,
           sync' = [sync EXCEPT ![c].pc = "state", ![c].target = n]
    PROVE  /\ sync' \in [Clones -> Run] /\ sync'[c].pc = "state" /\ sync'[c].target = n
           /\ sync'[c].alive = sync[c].alive
           /\ \A d \in Clones \ {c} : sync'[d] = sync[d]
<1>. DEFINE r == [sync[c] EXCEPT !.pc = "state", !.target = n]
<1>1. sync' = [sync EXCEPT ![c] = r]
  BY DEF TypeOK
<1>2. r \in Run /\ r.pc = "state" /\ r.target = n /\ r.alive = sync[c].alive
  BY DEF TypeOK, Run
<1>. HIDE DEF r
<1>. QED BY <1>1, <1>2, Updated

LEMMA ReadingState ==
    ASSUME TypeOK, NEW c \in Clones,
           sync' = [sync EXCEPT ![c].pc = "rows", ![c].state = state]
    PROVE  /\ sync' \in [Clones -> Run] /\ sync'[c].pc = "rows" /\ sync'[c].state = state
           /\ sync'[c].target = sync[c].target /\ sync'[c].alive = sync[c].alive
           /\ \A d \in Clones \ {c} : sync'[d] = sync[d]
<1>. DEFINE r == [sync[c] EXCEPT !.pc = "rows", !.state = state]
<1>1. sync' = [sync EXCEPT ![c] = r]
  BY DEF TypeOK
<1>2. /\ r \in Run /\ r.pc = "rows" /\ r.state = state
      /\ r.target = sync[c].target /\ r.alive = sync[c].alive
  BY DEF TypeOK, Run
<1>. HIDE DEF r
<1>. QED BY <1>1, <1>2, Updated

LEMMA ReadingRows ==
    ASSUME TypeOK, NEW c \in Clones,
           sync' = [sync EXCEPT ![c].pc = "apply", ![c].rows = rows]
    PROVE  /\ sync' \in [Clones -> Run] /\ sync'[c].pc = "apply" /\ sync'[c].rows = rows
           /\ sync'[c].state = sync[c].state /\ sync'[c].target = sync[c].target
           /\ sync'[c].alive = sync[c].alive
           /\ \A d \in Clones \ {c} : sync'[d] = sync[d]
<1>. DEFINE r == [sync[c] EXCEPT !.pc = "apply", !.rows = rows]
<1>1. sync' = [sync EXCEPT ![c] = r]
  BY DEF TypeOK
<1>2. /\ r \in Run /\ r.pc = "apply" /\ r.rows = rows
      /\ r.state = sync[c].state /\ r.target = sync[c].target /\ r.alive = sync[c].alive
  BY DEF TypeOK, Run
<1>. HIDE DEF r
<1>. QED BY <1>1, <1>2, Updated

----------------------------------------------------------------------------
(* One step of the index *)

\* Steps that leave rows, checkpoint, locks and syncs alone.
LEMMA StillStep ==
    ASSUME SyncInv, TypeOK', UNCHANGED <<rows, state, lock, sync>>
    PROVE  SyncInv'
<1>1. Sessions'
  BY DEF SyncInv, Sessions, At
<1>2. Targets'
  BY DEF SyncInv, Targets
<1>3. Planned'
  BY DEF SyncInv, Planned, OwnState, At, Foreign, Present
<1>4. IndexMatchesCheckpoint'
  BY DEF SyncInv, IndexMatchesCheckpoint
<1>. QED BY <1>1, <1>2, <1>3, <1>4 DEF SyncInv

\* Steps in which a sync reads, plans or stops, and writes nothing.
PlanStep(c) == Precheck(c) \/ FetchTarget(c) \/ ReadState(c) \/ ReadRows(c)
                   \/ NoticeDrop(c) \/ Fail(c)

LEMMA PlanStepTyped ==
    ASSUME SyncInv, NEW c \in Clones, PlanStep(c)
    PROVE  /\ TypeOK'
           /\ UNCHANGED <<tip, rows, state, stats, lock>>
           /\ sync'[c].alive = sync[c].alive /\ sync'[c].pc # "idle"
           /\ \A d \in Clones \ {c} : sync'[d] = sync[d]
<1>. USE DEF SyncInv
<1>1. CASE Precheck(c)
  <2>1. Stop(c) \/ Goto(c, "fetch")
    BY <1>1 DEF Precheck
  <2>2. CASE Stop(c)
    BY <1>1, <2>2, Stopped DEF Precheck, TypeOK, git, db
  <2>3. CASE Goto(c, "fetch")
    <3>1. sync[c] \in Run
      BY DEF TypeOK
    <3>2. /\ sync' \in [Clones -> Run] /\ sync'[c].pc = "fetch"
          /\ sync'[c].alive = sync[c].alive
          /\ \A d \in Clones \ {c} : sync'[d] = sync[d]
      BY <2>3, <3>1, Moved DEF Run
    <3>. QED BY <1>1, <3>2 DEF Precheck, TypeOK, git, db
  <2>. QED BY <2>1, <2>2, <2>3
<1>2. CASE FetchTarget(c)
  <2>1. tracking' \in [Clones -> Nat]
    BY <1>2, SourceTyped DEF FetchTarget, TypeOK
  <2>2. CASE Stop(c)
    BY <1>2, <2>1, <2>2, Stopped DEF FetchTarget, TypeOK, db
  <2>3. CASE sync' = [sync EXCEPT ![c].pc = "state", ![c].target = Fetched(c)]
    <3>1. Fetched(c) \in Nat
      BY SourceTyped DEF Fetched, TypeOK
    <3>2. /\ sync' \in [Clones -> Run] /\ sync'[c].pc = "state"
          /\ sync'[c].alive = sync[c].alive
          /\ \A d \in Clones \ {c} : sync'[d] = sync[d]
      BY <2>3, <3>1, Fetching
    <3>. QED BY <1>2, <2>1, <3>2 DEF FetchTarget, TypeOK, db
  <2>. QED BY <1>2, <2>2, <2>3 DEF FetchTarget
<1>3. CASE ReadState(c)
  <2>1. CASE Stop(c)
    BY <1>3, <2>1, Stopped DEF ReadState, TypeOK, git, db
  <2>2. CASE sync' = [sync EXCEPT ![c].pc = "rows", ![c].state = state]
    <3>1. /\ sync' \in [Clones -> Run] /\ sync'[c].pc = "rows"
          /\ sync'[c].alive = sync[c].alive
          /\ \A d \in Clones \ {c} : sync'[d] = sync[d]
      BY <2>2, ReadingState
    <3>. QED BY <1>3, <3>1 DEF ReadState, TypeOK, git, db
  <2>. QED BY <1>3, <2>1, <2>2 DEF ReadState
<1>4. CASE ReadRows(c)
  <2>1. CASE Stop(c)
    BY <1>4, <2>1, Stopped DEF ReadRows, TypeOK, git, db
  <2>2. CASE sync' = [sync EXCEPT ![c].pc = "apply", ![c].rows = rows]
    <3>1. /\ sync' \in [Clones -> Run] /\ sync'[c].pc = "apply"
          /\ sync'[c].alive = sync[c].alive
          /\ \A d \in Clones \ {c} : sync'[d] = sync[d]
      BY <2>2, ReadingRows
    <3>. QED BY <1>4, <3>1 DEF ReadRows, TypeOK, git, db
  <2>. QED BY <1>4, <2>1, <2>2 DEF ReadRows
<1>5. CASE NoticeDrop(c)
  BY <1>5, Stopped DEF NoticeDrop, TypeOK, git, db
<1>6. CASE Fail(c)
  BY <1>6, Stopped DEF Fail, Fault, TypeOK, git, db
<1>. QED BY <1>1, <1>2, <1>3, <1>4, <1>5, <1>6 DEF PlanStep

\* What the run of c is after such a step.
LEMMA PlanStepRun ==
    ASSUME SyncInv, NEW c \in Clones, PlanStep(c)
    PROVE  \/ sync'[c].pc \in {"fetch", "unlock"}
           \/ sync'[c].pc = "state" /\ sync'[c].target = tip[SourceOf[c]]
           \/ /\ sync'[c].pc = "rows" /\ At(c, "state") /\ sync'[c].target = sync[c].target
              /\ sync'[c].state = OwnState(c)
           \/ /\ sync'[c].pc = "apply" /\ At(c, "rows") /\ sync'[c].target = sync[c].target
              /\ sync'[c].state = sync[c].state /\ sync'[c].rows = rows
              /\ sync[c].state = None => Present(rows) = {}
<1>0. TypeOK /\ sync[c] \in Run
  BY DEF SyncInv, TypeOK
<1>1. CASE Stop(c)
  BY <1>0, <1>1, Stopped
<1>2. CASE Goto(c, "fetch")
  BY <1>0, <1>2, Moved DEF Run
<1>3. CASE FetchTarget(c)
  <2>1. Fetched(c) = tip[SourceOf[c]] /\ Fetched(c) \in Nat
    BY <1>0, SourceTyped DEF Fetched, TypeOK
  <2>. QED BY <1>0, <1>1, <1>3, <2>1, Fetching DEF FetchTarget
<1>4. CASE ReadState(c)
  <2>1. ~(state # None /\ state.source # SourceOf[c]) => OwnState(c) = state
    BY DEF OwnState
  <2>. QED BY <1>0, <1>1, <1>4, <2>1, ReadingState DEF ReadState
<1>5. CASE ReadRows(c)
  BY <1>0, <1>1, <1>5, ReadingRows DEF ReadRows
<1>6. CASE Precheck(c)
  BY <1>1, <1>2, <1>6 DEF Precheck
<1>. QED BY <1>1, <1>3, <1>4, <1>5, <1>6 DEF PlanStep, NoticeDrop, Fail

LEMMA PlanStepKeeps ==
    ASSUME SyncInv, NEW c \in Clones, PlanStep(c)
    PROVE  SyncInv'
<1>0. /\ TypeOK' /\ UNCHANGED <<tip, rows, state, stats, lock>>
      /\ sync'[c].alive = sync[c].alive /\ sync'[c].pc # "idle"
      /\ \A d \in Clones \ {c} : sync'[d] = sync[d]
  BY PlanStepTyped
<1>1. Sessions'
  BY <1>0 DEF SyncInv, Sessions, At
<1>2. Targets'
  <2>1. sync'[c].pc \in {"state", "rows", "apply"} => sync'[c].target \in DOMAIN Trees[SourceOf[c]]
    <3>1. tip[SourceOf[c]] \in DOMAIN Trees[SourceOf[c]]
      BY SourceTyped, HistoryLength DEF SyncInv, TypeOK
    <3>. QED BY <3>1, PlanStepRun DEF SyncInv, Targets, At
  <2>. QED BY <1>0, <2>1 DEF SyncInv, Targets
<1>3. Planned'
  <2>1. OwnState(c)' = OwnState(c) /\ Present(rows)' = Present(rows) /\ Foreign(c)' = Foreign(c)
    BY <1>0 DEF OwnState, Present, Foreign
  <2>2. ASSUME sync'[c].alive, sync'[c].pc \in {"rows", "apply"}
        PROVE  sync'[c].state = OwnState(c)'
    BY <1>0, <2>1, <2>2, PlanStepRun DEF SyncInv, Planned, At
  <2>3. ASSUME sync'[c].alive, sync'[c].pc = "apply", ~Foreign(c)
        PROVE  sync'[c].rows = rows /\ (state = None => Present(rows) = {})
    <3>1. At(c, "rows") /\ sync'[c].rows = rows /\ (sync[c].state = None => Present(rows) = {})
      BY <2>3, PlanStepRun
    <3>2. state = None => sync[c].state = None
      BY <1>0, <2>3, <3>1 DEF SyncInv, Planned, At, OwnState
    <3>. QED BY <3>1, <3>2
  <2>4. ASSUME NEW d \in Clones \ {c}
        PROVE  /\ sync'[d].alive /\ sync'[d].pc \in {"rows", "apply"}
                      => sync'[d].state = OwnState(d)'
               /\ sync'[d].alive /\ At(d, "apply")' /\ ~Foreign(d)' =>
                      /\ sync'[d].rows = rows'
                      /\ state' = None => Present(rows)' = {}
    BY <1>0, <2>1 DEF SyncInv, Planned, At, OwnState, Foreign
  <2>. QED BY <1>0, <2>1, <2>2, <2>3, <2>4 DEF Planned, At
<1>4. IndexMatchesCheckpoint'
  BY <1>0 DEF SyncInv, IndexMatchesCheckpoint
<1>. QED BY <1>0, <1>1, <1>2, <1>3, <1>4 DEF SyncInv

\* Steps that open or end a session.
SessionStep(c) == Invoke(c) \/ Unlock(c) \/ DropSession(c)

LEMMA SessionStepTyped ==
    ASSUME SyncInv, NEW c \in Clones, SessionStep(c)
    PROVE  /\ TypeOK'
           /\ UNCHANGED <<tip, rows, state, stats>>
           /\ \A d \in Clones \ {c} : sync'[d] = sync[d]
           /\ \/ /\ lock[SourceOf[c]] = None /\ lock' = [lock EXCEPT ![SourceOf[c]] = c]
                 /\ sync'[c].alive /\ sync'[c].pc = "precheck"
              \/ /\ ~sync'[c].alive
                 /\ lock' = IF sync[c].alive THEN [lock EXCEPT ![SourceOf[c]] = None] ELSE lock
                 /\ sync'[c].pc = "idle" \/ sync'[c] = [sync[c] EXCEPT !.alive = FALSE]
<1>0. TypeOK /\ SourceOf[c] \in Sources /\ sync[c] \in Run
  BY SourceTyped DEF SyncInv, TypeOK
<1>1. CASE Invoke(c)
  <2>1. PICK options \in Options : Start(c, options)
    BY <1>1 DEF Invoke
  <2>. DEFINE requested == IF "target" \in options THEN tip[SourceOf[c]] ELSE 0
              reembed == "reembed" \in options
              allow == "allow" \in options
              r == [Idle EXCEPT !.pc = "precheck", !.alive = TRUE, !.requested = requested,
                      !.reembed = reembed, !.allow = allow]
  <2>2. sync' = [sync EXCEPT ![c] = r]
    BY <2>1 DEF Start
  <2>3. requested \in Nat /\ reembed \in BOOLEAN /\ allow \in BOOLEAN
    BY <1>0 DEF TypeOK
  <2>. HIDE DEF requested, reembed, allow
  <2>4. r \in Run /\ r.pc = "precheck" /\ r.alive = TRUE
    BY <2>3 DEF Run, Idle, Table
  <2>. HIDE DEF r
  <2>5. /\ sync' \in [Clones -> Run] /\ sync'[c] = r
        /\ \A d \in Clones \ {c} : sync'[d] = sync[d]
    BY <1>0, <2>2, <2>4, Updated
  <2>. QED BY <1>0, <2>1, <2>4, <2>5 DEF Start, Lockable, TypeOK, git, db
<1>2. CASE Unlock(c)
  <2>1. /\ sync' \in [Clones -> Run] /\ sync'[c] = Idle
        /\ \A d \in Clones \ {c} : sync'[d] = sync[d]
    BY <1>0, <1>2, Updated, IdleTyped DEF Unlock
  <2>. QED BY <1>0, <1>2, <2>1, IdleTyped DEF Unlock, Released, Connected, TypeOK, git, db
<1>3. CASE DropSession(c)
  <2>. DEFINE r == [sync[c] EXCEPT !.alive = FALSE]
  <2>1. sync' = [sync EXCEPT ![c] = r]
    BY <1>0, <1>3 DEF DropSession, TypeOK
  <2>2. r \in Run /\ r.alive = FALSE
    BY <1>0 DEF Run
  <2>3. /\ sync' \in [Clones -> Run] /\ sync'[c] = r
        /\ \A d \in Clones \ {c} : sync'[d] = sync[d]
    BY <1>0, <2>1, <2>2, Updated
  <2>. QED BY <1>0, <1>3, <2>2, <2>3 DEF DropSession, Released, Connected, Fault, TypeOK, git, db
<1>. QED BY <1>1, <1>2, <1>3 DEF SessionStep

LEMMA SessionStepKeeps ==
    ASSUME SyncInv, NEW c \in Clones, SessionStep(c)
    PROVE  SyncInv'
<1>0. TypeOK' /\ UNCHANGED <<tip, rows, state, stats>>
      /\ \A d \in Clones \ {c} : sync'[d] = sync[d]
  BY SessionStepTyped
<1>a. lock \in [Sources -> Clones \cup {None}] /\ SourceOf[c] \in Sources /\ sync[c] \in Run
  BY SourceTyped DEF SyncInv, TypeOK
<1>1. Sessions'
  <2>1. ASSUME NEW d \in Clones \ {c}
        PROVE  /\ sync'[d].alive <=> lock'[SourceOf[d]] = d
               /\ \A s \in Sources : lock'[s] = d => s = SourceOf[d]
               /\ At(d, "idle")' => ~sync'[d].alive
    <3>1. \A s \in Sources : lock'[s] = d <=> lock[s] = d
      <4>1. d # None /\ d # c
        BY IndexAssumption
      <4>2. CASE lock' = lock
        BY <4>2
      <4>3. CASE lock[SourceOf[c]] = None /\ lock' = [lock EXCEPT ![SourceOf[c]] = c]
        BY <1>a, <4>1, <4>3
      <4>4. CASE sync[c].alive /\ lock' = [lock EXCEPT ![SourceOf[c]] = None]
        <5>1. lock[SourceOf[c]] = c
          BY <4>4 DEF SyncInv, Sessions
        <5>. QED BY <1>a, <4>1, <4>4, <5>1
      <4>. QED BY <4>2, <4>3, <4>4, SessionStepTyped
    <3>. QED BY <1>0, <3>1, SourceTyped DEF SyncInv, Sessions, At
  <2>2. /\ sync'[c].alive <=> lock'[SourceOf[c]] = c
        /\ \A s \in Sources : lock'[s] = c => s = SourceOf[c]
        /\ At(c, "idle")' => ~sync'[c].alive
    <3>1. c # None
      BY IndexAssumption
    <3>2. CASE lock' = [lock EXCEPT ![SourceOf[c]] = c] /\ sync'[c].alive /\ sync'[c].pc = "precheck"
      BY <1>a, <3>1, <3>2 DEF SyncInv, Sessions, At
    <3>3. CASE ~sync[c].alive /\ ~sync'[c].alive /\ lock' = lock
      BY <1>a, <3>1, <3>3 DEF SyncInv, Sessions, At
    <3>4. CASE sync[c].alive /\ ~sync'[c].alive /\ lock' = [lock EXCEPT ![SourceOf[c]] = None]
      BY <1>a, <3>1, <3>4 DEF SyncInv, Sessions, At
    <3>. QED BY <3>2, <3>3, <3>4, SessionStepTyped
  <2>. QED BY <2>1, <2>2 DEF Sessions
<1>b. \/ sync'[c].pc \in {"idle", "precheck"}
      \/ ~sync'[c].alive /\ sync'[c].pc = sync[c].pc /\ sync'[c].target = sync[c].target
  BY <1>a, SessionStepTyped DEF Run
<1>2. Targets'
  BY <1>0, <1>b DEF SyncInv, Targets
<1>3. Planned'
  BY <1>0, <1>b DEF SyncInv, Planned, At, OwnState, Foreign, Present
<1>4. IndexMatchesCheckpoint'
  BY <1>0 DEF SyncInv, IndexMatchesCheckpoint
<1>. QED BY <1>0, <1>1, <1>2, <1>3, <1>4 DEF SyncInv

\* The row of a plan that keeps the embedding.
LEMMA KeptEmbedding ==
    ASSUME NEW r \in Row, NEW b \in Blob, NEW m \in Models
    PROVE  [r EXCEPT !.blob = b, !.input = b.input, !.model = m]
           = [blob |-> b, input |-> b.input, model |-> m, vector |-> r.vector]
<1>. DEFINE kept == [r EXCEPT !.blob = b, !.input = b.input, !.model = m]
            new  == [blob |-> b, input |-> b.input, model |-> m, vector |-> r.vector]
<1>1. kept \in Row /\ new \in Row
  BY DEF Row, Blob
<1>2. /\ kept.blob = b /\ kept.input = b.input /\ kept.model = m /\ kept.vector = r.vector
      /\ new.blob = b /\ new.input = b.input /\ new.model = m /\ new.vector = r.vector
  BY DEF Row
<1>. HIDE DEF kept, new
<1>3. kept = new
  BY <1>1, <1>2 DEF Row
<1>. QED BY <1>3 DEF kept, new

\* The transaction of a sync makes every row that of its target.
LEMMA AppliedRow ==
    ASSUME SyncInv, NEW c \in Clones, At(c, "apply"), Connected(c), ~Foreign(c),
           NEW p \in Paths
    PROVE  Applied(c, p) = RowFor(Target(c)[p], ModelOf[c])
<1>. DEFINE blob == Target(c)[p]
            old  == sync[c].rows[p]
<1>1. Target(c) \in Tree /\ blob \in Blob \cup {None} /\ ModelOf[c] \in Models
  <2>1. sync[c].target \in DOMAIN Trees[SourceOf[c]]
    BY DEF SyncInv, Targets, At
  <2>. QED BY <2>1, SourceTyped, TreeTyped DEF Target, Tree
<1>2. sync[c].rows = rows /\ (state = None => Present(rows) = {})
  BY DEF SyncInv, Planned, Connected
<1>3. sync[c].state = state
  BY DEF SyncInv, Planned, Connected, At, OwnState, Foreign
<1>4. old = rows[p] /\ old \in Row \cup {None}
  BY <1>2 DEF SyncInv, TypeOK, Table
<1>5. CASE blob = None
  BY <1>4, <1>5 DEF Applied, RowFor
<1>6. CASE blob # None /\ (old = None \/ MustEmbed(c, old, blob))
  BY <1>6 DEF Applied
<1>7. CASE blob # None /\ old # None /\ ~MustEmbed(c, old, blob)
  <2>1. state # None
    BY <1>2, <1>4, <1>7 DEF Present
  <2>. DEFINE was == Trees[state.source][state.commit][p]
  <2>2. state \in State /\ old = RowFor(was, state.model)
    BY <1>4, <2>1 DEF SyncInv, TypeOK, IndexMatchesCheckpoint
  <2>3. state.model = ModelOf[c] /\ old.input = blob.input
    BY <1>3, <1>7, <2>1 DEF MustEmbed
  <2>4. was # None
    BY <1>7, <2>2 DEF RowFor
  <2>5. old = [blob |-> was, input |-> was.input, model |-> ModelOf[c],
               vector |-> <<ModelOf[c], was.input>>]
    BY <2>2, <2>3, <2>4 DEF RowFor
  <2>6. old.input = was.input /\ old.blob = was
    BY <2>5
  <2>7. CASE old.blob = blob
    BY <1>4, <1>7, <2>2, <2>3, <2>6, <2>7 DEF Applied
  <2>8. CASE old.blob # blob
    <3>1. Applied(c, p) = [old EXCEPT !.blob = blob, !.input = blob.input, !.model = ModelOf[c]]
      BY <1>4, <1>7, <2>8 DEF Applied
    <3>2. [old EXCEPT !.blob = blob, !.input = blob.input, !.model = ModelOf[c]]
            = [blob |-> blob, input |-> blob.input, model |-> ModelOf[c],
               vector |-> <<ModelOf[c], blob.input>>]
      <4>1. old \in Row /\ old.vector = <<ModelOf[c], blob.input>>
        BY <1>4, <1>7, <2>3, <2>5, <2>6
      <4>2. [old EXCEPT !.blob = blob, !.input = blob.input, !.model = ModelOf[c]]
              = [blob |-> blob, input |-> blob.input, model |-> ModelOf[c],
                 vector |-> old.vector]
        BY <1>1, <1>7, <4>1, KeptEmbedding
      <4>. QED BY <4>1, <4>2
    <3>. QED BY <1>7, <3>1, <3>2 DEF RowFor
  <2>. QED BY <2>7, <2>8
<1>. QED BY <1>5, <1>6, <1>7

\* What the transaction leaves.
Indexed(c) ==
    /\ rows' = [p \in Paths |-> RowFor(Target(c)[p], ModelOf[c])]
    /\ state' = [source |-> SourceOf[c], commit |-> sync[c].target, model |-> ModelOf[c]]

LEMMA ApplyTyped ==
    ASSUME SyncInv, NEW c \in Clones, Apply(c)
    PROVE  /\ TypeOK'
           /\ UNCHANGED <<tip, lock>>
           /\ sync'[c].alive = sync[c].alive /\ sync'[c].pc = "unlock"
           /\ \A d \in Clones \ {c} : sync'[d] = sync[d]
           /\ IF Foreign(c) THEN UNCHANGED <<rows, state>> ELSE Indexed(c)
<1>0. TypeOK /\ sync[c] \in Run /\ At(c, "apply") /\ Connected(c) /\ Stop(c)
  BY DEF SyncInv, TypeOK, Apply
<1>1. /\ sync' \in [Clones -> Run]
      /\ sync'[c].pc = "unlock" /\ sync'[c].alive = sync[c].alive
      /\ \A d \in Clones \ {c} : sync'[d] = sync[d]
  BY <1>0, Stopped
<1>2. CASE Foreign(c)
  BY <1>0, <1>1, <1>2 DEF Apply, TypeOK, git, db
<1>3. CASE ~Foreign(c)
  <2>1. Indexed(c)
    <3>1. rows' = [p \in Paths |-> Applied(c, p)]
      BY <1>3 DEF Apply
    <3>2. \A p \in Paths : Applied(c, p) = RowFor(Target(c)[p], ModelOf[c])
      BY <1>0, <1>3, AppliedRow
    <3>. QED BY <1>3, <3>1, <3>2 DEF Apply, Indexed
  <2>2. rows' \in Table
    <3>1. sync[c].target \in DOMAIN Trees[SourceOf[c]]
      BY <1>0 DEF SyncInv, Targets, At
    <3>2. \A p \in Paths : RowFor(Target(c)[p], ModelOf[c]) \in Row \cup {None}
      BY <3>1, SourceTyped, TreeTyped, RowTyped DEF Target, Tree
    <3>. QED BY <2>1, <3>2 DEF Indexed, Table
  <2>3. state' \in State
    BY <1>0, <2>1, SourceTyped DEF Indexed, State, Run
  <2>4. stats' = [p \in Paths |-> IF rows'[p] = None THEN None ELSE stats[p]]
    BY <1>3 DEF Apply, Counts
  <2>5. stats' \in [Paths -> Nat \cup {None}] /\ \A p \in Paths : stats'[p] # None => rows'[p] # None
    BY <1>0, <2>4 DEF TypeOK
  <2>. QED BY <1>0, <1>1, <1>3, <2>1, <2>2, <2>3, <2>5 DEF Apply, TypeOK, git
<1>. QED BY <1>2, <1>3

LEMMA ApplyKeeps ==
    ASSUME SyncInv, NEW c \in Clones, Apply(c)
    PROVE  SyncInv'
<1>0. /\ TypeOK' /\ UNCHANGED <<tip, lock>>
      /\ sync'[c].alive = sync[c].alive /\ sync'[c].pc = "unlock"
      /\ \A d \in Clones \ {c} : sync'[d] = sync[d]
  BY ApplyTyped
<1>1. Sessions'
  BY <1>0 DEF SyncInv, Sessions, At
<1>2. CASE Foreign(c)
  <2>1. UNCHANGED <<rows, state>>
    BY <1>2, ApplyTyped
  <2>2. Targets' /\ IndexMatchesCheckpoint'
    BY <1>0, <2>1 DEF SyncInv, Targets, IndexMatchesCheckpoint
  <2>3. Planned'
    BY <1>0, <2>1 DEF SyncInv, Planned, At, OwnState, Foreign, Present
  <2>. QED BY <1>0, <1>1, <2>2, <2>3 DEF SyncInv
<1>3. CASE ~Foreign(c)
  <2>1. Indexed(c) /\ At(c, "apply") /\ sync[c].alive
    BY <1>3, ApplyTyped DEF Apply, Connected
  <2>2. state' # None /\ state'.source = SourceOf[c] /\ state'.commit = sync[c].target
        /\ state'.model = ModelOf[c]
    <3>1. state' \in State
      BY <2>1, SourceTyped DEF Indexed, State, SyncInv, TypeOK, Run
    <3>. QED BY <2>1, <3>1, IndexAssumption DEF Indexed
  <2>3. Targets'
    BY <1>0, <2>1, <2>2 DEF SyncInv, Targets, At
  <2>4. IndexMatchesCheckpoint'
    BY <2>1, <2>2 DEF Indexed, IndexMatchesCheckpoint, Target
  <2>5. Planned'
    <3>1. ASSUME NEW d \in Clones \ {c}, sync[d].alive, sync[d].pc \in {"rows", "apply"}
          PROVE  SourceOf[d] # SourceOf[c]
      BY <2>1, <3>1 DEF SyncInv, Sessions
    <3>2. ASSUME NEW d \in Clones \ {c}, sync[d].alive, sync[d].pc \in {"rows", "apply"}
          PROVE  OwnState(d) = None /\ OwnState(d)' = None /\ Foreign(d)'
      BY <1>3, <2>2, <3>1, <3>2 DEF OwnState, Foreign
    <3>. QED BY <1>0, <2>2, <3>2 DEF SyncInv, Planned, At
  <2>. QED BY <1>0, <1>1, <2>3, <2>4, <2>5 DEF SyncInv
<1>. QED BY <1>2, <1>3

LEMMA LoseStateKeeps ==
    ASSUME SyncInv, LoseState
    PROVE  SyncInv'
<1>1. TypeOK' /\ UNCHANGED <<rows, lock, sync>> /\ state' = None
  BY DEF SyncInv, TypeOK, LoseState, Fault, git
<1>2. \A c \in Clones : sync[c].pc = "idle"
  BY DEF LoseState, At
<1>3. Sessions' /\ Targets' /\ Planned' /\ IndexMatchesCheckpoint'
  BY <1>1, <1>2 DEF SyncInv, Sessions, Targets, Planned, IndexMatchesCheckpoint, At
<1>. QED BY <1>1, <1>3 DEF SyncInv

LEMMA OperatorClearKeeps ==
    ASSUME SyncInv, NEW s \in Sources, OperatorClear(s)
    PROVE  SyncInv'
<1>1. /\ UNCHANGED <<tip, tracking, state, lock, sync, faults>> /\ state = None
      /\ rows' = [p \in Paths |-> None] /\ stats' = [p \in Paths |-> None]
  BY DEF OperatorClear, git
<1>2. TypeOK'
  BY <1>1 DEF SyncInv, TypeOK, Table
<1>3. Sessions' /\ Targets' /\ IndexMatchesCheckpoint'
  BY <1>1 DEF SyncInv, Sessions, Targets, IndexMatchesCheckpoint, At
<1>4. Planned'
  <2>1. Present(rows)' = {}
    BY <1>1 DEF Present
  <2>2. ASSUME NEW c \in Clones, sync[c].alive, sync[c].pc = "apply"
        PROVE  sync[c].rows = rows'
    <3>1. sync[c].rows = rows /\ Present(rows) = {}
      BY <1>1, <2>2 DEF SyncInv, Planned, At, Foreign
    <3>2. rows = [p \in Paths |-> None]
      BY <3>1 DEF Present, SyncInv, TypeOK, Table
    <3>. QED BY <1>1, <3>1, <3>2
  <2>. QED BY <1>1, <2>1, <2>2 DEF SyncInv, Planned, OwnState, At
<1>. QED BY <1>2, <1>3, <1>4 DEF SyncInv

\* Steps of nobody that synchronises: a push, an access, a reader's faults.
LEMMA PushKeeps ==
    ASSUME SyncInv, NEW s \in Sources, Push(s)
    PROVE  SyncInv'
<1>1. TypeOK'
  <2>1. tip' = [tip EXCEPT ![s] = tip[s] + 1] /\ tip[s] + 1 \in 1 .. Len(Trees[s])
    BY HistoryLength DEF Push, SyncInv, TypeOK
  <2>. QED BY <2>1 DEF Push, SyncInv, TypeOK, db
<1>. QED BY <1>1, StillStep DEF Push, db

LEMMA CountedStats ==
    ASSUME SyncInv, NEW p \in Paths, CountAccess(p)
    PROVE  /\ stats' \in [Paths -> Nat \cup {None}]
           /\ rows' = rows => \A q \in Paths : stats'[q] # None => rows'[q] # None
<1>1. /\ stats \in [Paths -> Nat \cup {None}] /\ rows[p] # None
      /\ stats' = [stats EXCEPT ![p] = IF stats[p] = None THEN 1 ELSE stats[p] + 1]
  BY DEF CountAccess, SyncInv, TypeOK
<1>2. (IF stats[p] = None THEN 1 ELSE stats[p] + 1) \in Nat
  BY <1>1
<1>. QED BY <1>1, <1>2 DEF SyncInv, TypeOK

LEMMA AccessKeeps ==
    ASSUME SyncInv, NEW p \in Paths, Access(p)
    PROVE  SyncInv'
<1>1. TypeOK'
  BY CountedStats DEF Access, SyncInv, TypeOK, git
<1>. QED BY <1>1, StillStep DEF Access

LEMMA InitSyncInv == Init => SyncInv
<1>. SUFFICES ASSUME Init PROVE SyncInv
  OBVIOUS
<1>1. TypeOK
  BY IdleTyped, HistoryLength, IndexAssumption DEF Init, TypeOK, Table
<1>2. Sessions /\ Targets /\ Planned
  BY IdleTyped, SourceTyped, IndexAssumption DEF Init, Sessions, Targets, Planned, At
<1>3. IndexMatchesCheckpoint
  BY DEF Init, IndexMatchesCheckpoint
<1>. QED BY <1>1, <1>2, <1>3 DEF SyncInv

LEMMA SyncInductive == SyncInv /\ [Next]_vars => SyncInv'
<1>. SUFFICES ASSUME SyncInv, [Next]_vars PROVE SyncInv'
  OBVIOUS
<1>1. ASSUME NEW c \in Clones,
             Invoke(c) \/ Planning(c) \/ Apply(c) \/ Unlock(c) \/ Failing(c)
      PROVE  SyncInv'
  BY <1>1, PlanStepKeeps, SessionStepKeeps, ApplyKeeps
  DEF Planning, Failing, PlanStep, SessionStep
<1>2. ASSUME NEW s \in Sources, World(s) PROVE SyncInv'
  BY <1>2, PushKeeps, OperatorClearKeeps DEF World
<1>3. ASSUME NEW p \in Accessed, Access(p) PROVE SyncInv'
  BY <1>3, AccessKeeps, IndexAssumption
<1>4. CASE LoseState
  BY <1>4, LoseStateKeeps
<1>5. CASE UNCHANGED vars
  <2>1. TypeOK'
    BY <1>5 DEF SyncInv, TypeOK, vars, git, db
  <2>. QED BY <1>5, <2>1, StillStep DEF vars, db
<1>. QED BY <1>1, <1>2, <1>3, <1>4, <1>5 DEF Next

----------------------------------------------------------------------------
(* The theorems about synchronisation *)

\* Locks, plans, types and rows agree in every state of every behaviour.
THEOREM SyncInvariance == Spec => []SyncInv
BY InitSyncInv, SyncInductive, PTL DEF Spec

\* Whatever syncs of whatever repositories interleave, and whichever sessions
\* end under them, the rows are those of the checkpoint's commit and model.
THEOREM MatchesCheckpoint == Spec => []IndexMatchesCheckpoint
<1>1. SyncInv => IndexMatchesCheckpoint
  BY DEF SyncInv
<1>. QED BY <1>1, SyncInvariance, PTL

\* The checkpoint and the targets stay behind the tips.
LEMMA AdvancingStep == SyncInv /\ Advancing /\ [Next]_vars => Advancing'
<1>. SUFFICES ASSUME SyncInv, Advancing, [Next]_vars PROVE Advancing'
  OBVIOUS
<1>0. TypeOK /\ TypeOK'
  BY SyncInductive DEF SyncInv
<1>1. ASSUME NEW c \in Clones, PlanStep(c) PROVE Advancing'
  <2>1. /\ UNCHANGED <<tip, rows, state, stats, lock>>
        /\ sync'[c].alive = sync[c].alive
        /\ \A d \in Clones \ {c} : sync'[d] = sync[d]
    BY <1>1, PlanStepTyped
  <2>2. tip[SourceOf[c]] \in Nat
    BY <1>0, SourceTyped DEF TypeOK
  <2>3. sync'[c].alive /\ sync'[c].pc \in {"state", "rows", "apply"} =>
            /\ sync'[c].target <= tip[SourceOf[c]]
            /\ state # None /\ state.source = SourceOf[c] => state.commit <= sync'[c].target
    <3>1. CASE sync'[c].pc \in {"fetch", "unlock"}
      BY <3>1
    <3>2. CASE sync'[c].pc = "state" /\ sync'[c].target = tip[SourceOf[c]]
      BY <2>2, <3>2 DEF Advancing
    <3>3. CASE sync[c].pc \in {"state", "rows"} /\ sync'[c].target = sync[c].target
      BY <2>1, <3>3 DEF Advancing
    <3>. QED BY <1>1, <3>1, <3>2, <3>3, PlanStepRun DEF At
  <2>. QED BY <2>1, <2>3 DEF Advancing
<1>2. ASSUME NEW c \in Clones, SessionStep(c) PROVE Advancing'
  <2>1. /\ UNCHANGED <<tip, rows, state, stats>>
        /\ \A d \in Clones \ {c} : sync'[d] = sync[d]
        /\ sync'[c].alive => sync'[c].pc = "precheck"
    BY <1>2, SessionStepTyped
  <2>. QED BY <2>1 DEF Advancing
<1>3. ASSUME NEW c \in Clones, Apply(c) PROVE Advancing'
  <2>1. /\ UNCHANGED <<tip, lock>>
        /\ sync'[c].alive = sync[c].alive /\ sync'[c].pc = "unlock"
        /\ \A d \in Clones \ {c} : sync'[d] = sync[d]
    BY <1>3, ApplyTyped
  <2>2. CASE Foreign(c)
    <3>1. state' = state
      BY <1>3, <2>2, ApplyTyped
    <3>. QED BY <2>1, <3>1 DEF Advancing
  <2>3. CASE ~Foreign(c)
    <3>1. Indexed(c) /\ At(c, "apply") /\ sync[c].alive
      BY <1>3, <2>3, ApplyTyped DEF Apply, Connected
    <3>2. state'.source = SourceOf[c] /\ state'.commit = sync[c].target
      BY <3>1 DEF Indexed
    <3>3. state'.commit <= tip[state'.source]
      BY <3>1, <3>2 DEF Advancing, At
    <3>4. \A d \in Clones \ {c} : sync[d].alive => SourceOf[d] # SourceOf[c]
      BY <3>1 DEF SyncInv, Sessions
    <3>. QED BY <2>1, <3>2, <3>3, <3>4 DEF Advancing
  <2>. QED BY <2>2, <2>3
<1>4. ASSUME NEW s \in Sources, Push(s) PROVE Advancing'
  <2>1. UNCHANGED <<state, sync>> /\ tip' = [tip EXCEPT ![s] = tip[s] + 1]
    BY <1>4 DEF Push, db
  <2>2. \A t \in Sources : tip[t] \in Nat /\ tip'[t] \in Nat /\ tip[t] <= tip'[t]
    BY <1>0, <2>1 DEF TypeOK
  <2>3. state # None => state.source \in Sources /\ state.commit \in Nat
    BY <1>0 DEF TypeOK, State
  <2>4. \A c \in Clones : sync[c].target \in Nat
    BY <1>0 DEF TypeOK, Run
  <2>. QED BY <2>1, <2>2, <2>3, <2>4, SourceTyped DEF Advancing
<1>5. ASSUME NEW s \in Sources, OperatorClear(s) PROVE Advancing'
  BY <1>5 DEF Advancing, OperatorClear, git
<1>6. ASSUME NEW p \in Paths, Access(p) PROVE Advancing'
  BY <1>6 DEF Advancing, Access, git
<1>7. CASE LoseState
  BY <1>7 DEF Advancing, LoseState, git
<1>8. CASE UNCHANGED vars
  BY <1>8 DEF Advancing, vars, git, db
<1>9. ASSUME NEW c \in Clones,
             Invoke(c) \/ Planning(c) \/ Apply(c) \/ Unlock(c) \/ Failing(c)
      PROVE  Advancing'
  BY <1>1, <1>2, <1>3, <1>9 DEF Planning, Failing, PlanStep, SessionStep
<1>. QED BY <1>4, <1>5, <1>6, <1>7, <1>8, <1>9, IndexAssumption DEF Next, World

\* Only the transaction of a sync moves a checkpoint to another.
LEMMA CheckpointMoves ==
    SyncInv /\ [Next]_vars =>
        \/ state' \in {state, None}
        \/ \E c \in Clones : Apply(c) /\ ~Foreign(c)
<1>. SUFFICES ASSUME SyncInv, [Next]_vars, state' \notin {state, None}
              PROVE  \E c \in Clones : Apply(c) /\ ~Foreign(c)
  OBVIOUS
<1>1. ASSUME NEW c \in Clones, PlanStep(c) \/ SessionStep(c) PROVE state' = state
  BY <1>1, PlanStepTyped, SessionStepTyped
<1>2. \E c \in Clones : Apply(c)
  BY <1>1
  DEF Next, Planning, Failing, PlanStep, SessionStep, World, Push, OperatorClear, Access,
      LoseState, vars, db
<1>. QED BY <1>2, ApplyTyped

\* A checkpoint is never replaced by an earlier commit nor by that of another
\* repository, even if its session ended while a sync held a plan.
THEOREM NeverGoesBack == Spec => CheckpointAdvances
<1>1. Init => Advancing
  BY IdleTyped DEF Init, Advancing
<1>2. SyncInv /\ Advancing /\ [Next]_vars =>
          [state # None /\ state' # None =>
              state'.source = state.source /\ state'.commit >= state.commit]_vars
  <2>. SUFFICES ASSUME SyncInv, Advancing, [Next]_vars, state # None, state' # None
                PROVE  state'.source = state.source /\ state'.commit >= state.commit
    OBVIOUS
  <2>1. state.commit \in Nat
    BY DEF SyncInv, TypeOK, State
  <2>2. CASE state' = state
    BY <2>1, <2>2
  <2>3. ASSUME NEW c \in Clones, Apply(c), ~Foreign(c)
        PROVE  state'.source = state.source /\ state'.commit >= state.commit
    <3>1. Indexed(c) /\ At(c, "apply") /\ sync[c].alive /\ state.source = SourceOf[c]
      BY <2>3, ApplyTyped DEF Apply, Connected, Foreign
    <3>2. sync[c].target \in Nat /\ state.commit <= sync[c].target
      BY <3>1 DEF SyncInv, TypeOK, Run, Advancing, At
    <3>. QED BY <2>1, <3>1, <3>2 DEF Indexed
  <2>. QED BY <2>2, <2>3, CheckpointMoves
<1>3. Spec => []Advancing
  BY <1>1, AdvancingStep, SyncInvariance, PTL DEF Spec
<1>. QED BY <1>2, <1>3, SyncInvariance, PTL DEF Spec, CheckpointAdvances

----------------------------------------------------------------------------
(* The inductive invariant of retrieval *)

\* The rows whose content a retrieval returns.
Requested(r) == IF reads[r].kind = "get" THEN {reads[r].path} ELSE Paths

\* Which statements belong to a get and which to a search.
Kinds ==
    \A r \in Readers :
        /\ reads[r].pc \in {"lock", "content"} => reads[r].kind = "get"
        /\ Reading(r, "snapshot") => reads[r].kind = "search"

\* The row a get has read is locked until the get ends.
HeldRows ==
    \A r \in Readers : reads[r].kind = "get" =>
        /\ reads[r].pc # "idle" => reads[r].path \in Paths
        /\ reads[r].pc \in {"state", "ref", "commit"} =>
               reads[r].found[reads[r].path] = rows[reads[r].path]

\* The rows and the checkpoint of a search are those of one moment.
Snapshots ==
    \A r \in Readers :
        reads[r].kind = "search" /\ Reading(r, "state") /\ reads[r].seen # None =>
            \A p \in Paths : reads[r].found[p] =
                RowFor(Trees[reads[r].seen.source][reads[r].seen.commit][p],
                       reads[r].seen.model)

\* Once the checkpoint has been looked at in the transaction, what was read is
\* what the captured commit holds.
Checked ==
    \A r \in Readers : reads[r].pc \in {"ref", "commit"} =>
        \A p \in Requested(r) : reads[r].found[p] =
            RowFor(Trees[SourceOf[CloneOf[r]]][reads[r].commit][p], ModelOf[CloneOf[r]])

RInv == SyncInv /\ RTypeOK /\ Kinds /\ HeldRows /\ Snapshots /\ Checked

----------------------------------------------------------------------------
(* One step of the index among readers *)

\* A step of a reader, and a step that is none.
ReaderStep(r) == Retrieve(r) \/ Advance(r) \/ LoseReply(r) \/ GiveUp(r)

\* What a reader does to the index: it counts an access.
LEMMA ReaderStepIndex ==
    ASSUME RInv, NEW r \in Readers, ReaderStep(r)
    PROVE  SyncInv' /\ UNCHANGED <<rows, state, lock, sync>>
<1>1. CASE UNCHANGED vars
  <2>1. SyncInv'
    BY <1>1, SyncInductive DEF RInv
  <2>. QED BY <1>1, <2>1 DEF vars, db
<1>2. ASSUME UNCHANGED <<git, rows, state, lock, sync>>, faults' \in Nat,
             CountAccess(reads[r].path) \/ UNCHANGED stats,
             reads[r].kind = "get", ~Reading(r, "idle")
      PROVE  SyncInv' /\ UNCHANGED <<rows, state, lock, sync>>
  <2>1. reads[r].path \in Paths
    BY <1>2 DEF RInv, HeldRows, Reading
  <2>2. /\ stats' \in [Paths -> Nat \cup {None}]
        /\ \A q \in Paths : stats'[q] # None => rows'[q] # None
    BY <1>2, <2>1, CountedStats DEF RInv, SyncInv, TypeOK
  <2>3. TypeOK'
    BY <1>2, <2>2 DEF RInv, SyncInv, TypeOK, git
  <2>. QED BY <1>2, <2>3, StillStep DEF RInv
<1>3. CASE Deliver(r)
  <2>1. CASE reads[r].kind = "get"
    BY <1>2, <1>3, <2>1 DEF Deliver, Reading, RInv, SyncInv, TypeOK
  <2>2. CASE reads[r].kind # "get"
    <3>1. UNCHANGED vars
      BY <1>3, <2>2 DEF Deliver, vars, db
    <3>. QED BY <1>1, <3>1
  <2>. QED BY <2>1, <2>2
<1>4. CASE LoseReply(r)
  <2>1. faults' \in Nat
    BY <1>4 DEF LoseReply, Fault, RInv, SyncInv, TypeOK
  <2>. QED BY <1>2, <1>4, <2>1 DEF LoseReply, Reading
<1>5. CASE GiveUp(r)
  <2>1. TypeOK'
    BY <1>5 DEF GiveUp, Fault, RInv, SyncInv, TypeOK, git, db
  <2>. QED BY <1>5, <2>1, StillStep DEF GiveUp, RInv, db
<1>. QED BY <1>1, <1>3, <1>4, <1>5
     DEF ReaderStep, Retrieve, Begin, Advance, Preflight, LockRow, ReadContent, Snapshot,
         CheckState, CheckRef, ReadOnly

\* What the others do to the index keeps its invariant and the rows that gets
\* have read.
OtherStep ==
    \/ \E c \in Clones : Invoke(c) \/ SyncStep(c) \/ Failing(c)
    \/ \E s \in Sources : Push(s) \/ Rewind(s) \/ Clear(s)
    \/ WithoutReaders /\ LoseState

LEMMA RewindKeeps ==
    ASSUME SyncInv, NEW s \in Sources, Rewind(s)
    PROVE  SyncInv'
<1>1. tip' = [tip EXCEPT ![s] = tip[s] - 1] /\ tip[s] - 1 \in 1 .. Len(Trees[s])
  BY HistoryLength DEF Rewind, SyncInv, TypeOK
<1>2. TypeOK'
  BY <1>1 DEF Rewind, Fault, SyncInv, TypeOK, db
<1>. QED BY <1>2, StillStep DEF Rewind, db

LEMMA OtherStepIndex ==
    ASSUME RInv, OtherStep
    PROVE  SyncInv' /\ \A p \in Paths : Shared(p) => rows'[p] = rows[p]
<1>. USE DEF RInv
<1>1. ASSUME NEW c \in Clones, Invoke(c) \/ SyncStep(c) \/ Failing(c) PROVE SyncInv'
  BY <1>1, PlanStepKeeps, SessionStepKeeps, ApplyKeeps
  DEF SyncStep, ApplyAmongReaders, Planning, Failing, PlanStep, SessionStep
<1>2. ASSUME NEW c \in Clones, Invoke(c) \/ SyncStep(c) \/ Failing(c), NEW p \in Paths, Shared(p)
      PROVE  rows'[p] = rows[p]
  <2>1. CASE ApplyAmongReaders(c)
    BY <1>2, <2>1 DEF ApplyAmongReaders
  <2>2. CASE PlanStep(c) \/ SessionStep(c)
    BY <2>2, PlanStepTyped, SessionStepTyped
  <2>. QED BY <1>2, <2>1, <2>2 DEF SyncStep, Planning, Failing, PlanStep, SessionStep
<1>3. ASSUME NEW s \in Sources, Push(s) \/ Rewind(s)
      PROVE  SyncInv' /\ rows' = rows
  BY <1>3, PushKeeps, RewindKeeps DEF Push, Rewind, db
<1>4. ASSUME NEW s \in Sources, Clear(s)
      PROVE  SyncInv' /\ \A p \in Paths : ~Shared(p)
  BY <1>4, OperatorClearKeeps DEF Clear, WithoutReaders, Shared
<1>5. CASE WithoutReaders /\ LoseState
  BY <1>5, LoseStateKeeps DEF LoseState
<1>. QED BY <1>1, <1>2, <1>3, <1>4, <1>5 DEF OtherStep

----------------------------------------------------------------------------
(* One step of a reader *)

LEMMA QuietTyped == Quiet \in Reads /\ Quiet.pc = "idle" /\ Quiet.kind = "get"
BY DEF Quiet, Reads, Table

LEMMA ReadsUpdated ==
    ASSUME RTypeOK, NEW r \in Readers, NEW read \in Reads,
           reads' = [reads EXCEPT ![r] = read]
    PROVE  /\ reads' \in [Readers -> Reads] /\ reads'[r] = read
           /\ \A q \in Readers \ {r} : reads'[q] = reads[q]
BY DEF RTypeOK

LEMMA Quitting ==
    ASSUME RTypeOK, NEW r \in Readers, Quit(r)
    PROVE  /\ reads' \in [Readers -> Reads] /\ reads'[r].pc = "idle"
           /\ \A q \in Readers \ {r} : reads'[q] = reads[q]
BY QuietTyped, ReadsUpdated DEF Quit

\* A step of r that does nothing but move on.
LEMMA Moving ==
    ASSUME RTypeOK, NEW r \in Readers,
           NEW pc \in {"lock", "content", "snapshot", "ref", "commit"}, Move(r, pc)
    PROVE  /\ reads' \in [Readers -> Reads] /\ reads'[r].pc = pc
           /\ reads'[r].kind = reads[r].kind /\ reads'[r].path = reads[r].path
           /\ reads'[r].commit = reads[r].commit /\ reads'[r].found = reads[r].found
           /\ reads'[r].seen = reads[r].seen
           /\ \A q \in Readers \ {r} : reads'[q] = reads[q]
<1>. DEFINE read == [reads[r] EXCEPT !.pc = pc]
<1>1. reads' = [reads EXCEPT ![r] = read]
  BY DEF Move, RTypeOK
<1>2. /\ read \in Reads /\ read.pc = pc
      /\ read.kind = reads[r].kind /\ read.path = reads[r].path
      /\ read.commit = reads[r].commit /\ read.found = reads[r].found
      /\ read.seen = reads[r].seen
  BY DEF RTypeOK, Reads
<1>. HIDE DEF read
<1>. QED BY <1>1, <1>2, ReadsUpdated

\* The retrieval that begins.
LEMMA Beginning ==
    ASSUME RInv, NEW r \in Readers, Retrieve(r)
    PROVE  /\ reads' \in [Readers -> Reads]
           /\ reads'[r].pc = "preflight" /\ reads'[r].path \in Paths
           /\ \A q \in Readers \ {r} : reads'[q] = reads[q]
<1>1. PICK kind \in {"get", "search"}, path \in Accessed : Begin(r, kind, path)
  BY DEF Retrieve
<1>2. path \in Paths /\ tracking[CloneOf[r]] \in Nat
  BY IndexAssumption, RetrievalAssumption DEF RInv, RTypeOK, TypeOK
<1>. DEFINE read == [Quiet EXCEPT !.pc = "preflight", !.kind = kind, !.path = path,
                                  !.commit = tracking[CloneOf[r]]]
<1>3. reads' = [reads EXCEPT ![r] = read]
  BY <1>1 DEF Begin
<1>4. read \in Reads /\ read.pc = "preflight" /\ read.path = path
  BY <1>2 DEF Quiet, Reads, Table
<1>. HIDE DEF read
<1>. QED BY <1>2, <1>3, <1>4, ReadsUpdated DEF RInv

\* The content a get reads.
LEMMA GetReads ==
    ASSUME RInv, NEW r \in Readers, ReadContent(r)
    PROVE  /\ reads' \in [Readers -> Reads] /\ reads'[r].pc = "state"
           /\ reads'[r].kind = reads[r].kind /\ reads'[r].path = reads[r].path
           /\ reads[r].kind = "get" => reads'[r].found[reads[r].path] = rows[reads[r].path]
           /\ \A q \in Readers \ {r} : reads'[q] = reads[q]
<1>. DEFINE found == [reads[r].found EXCEPT ![reads[r].path] = rows[reads[r].path]]
            read == [reads[r] EXCEPT !.pc = "state", !.found = found]
<1>1. reads[r] \in Reads /\ rows \in Table /\ reads[r].found \in Table
  BY DEF RInv, RTypeOK, TypeOK, Reads
<1>2. reads' = [reads EXCEPT ![r] = read]
  BY DEF ReadContent, RInv, RTypeOK, Reads
<1>3. found \in Table
  BY <1>1 DEF Table
<1>4. reads[r].path \in Paths => found[reads[r].path] = rows[reads[r].path]
  BY <1>1 DEF Table
<1>. HIDE DEF found
<1>5. /\ read \in Reads /\ read.pc = "state" /\ read.found = found
      /\ read.kind = reads[r].kind /\ read.path = reads[r].path
  BY <1>1, <1>3 DEF Reads
<1>6. reads[r].kind = "get" => reads[r].path \in Paths
  BY DEF ReadContent, Reading, RInv, HeldRows
<1>. HIDE DEF read
<1>. QED BY <1>2, <1>4, <1>5, <1>6, ReadsUpdated DEF RInv

\* The snapshot a search takes.
LEMMA SearchReads ==
    ASSUME RInv, NEW r \in Readers, Snapshot(r)
    PROVE  /\ reads' \in [Readers -> Reads] /\ reads'[r].pc = "state"
           /\ reads'[r].kind = reads[r].kind /\ reads'[r].path = reads[r].path
           /\ reads'[r].found = rows /\ reads'[r].seen = state
           /\ \A q \in Readers \ {r} : reads'[q] = reads[q]
<1>. DEFINE read == [reads[r] EXCEPT !.pc = "state", !.found = rows, !.seen = state]
<1>1. reads[r] \in Reads /\ rows \in Table /\ state \in State \cup {None}
  BY DEF RInv, RTypeOK, TypeOK
<1>2. reads' = [reads EXCEPT ![r] = read]
  BY DEF Snapshot, RInv, RTypeOK
<1>3. /\ read \in Reads /\ read.pc = "state" /\ read.found = rows /\ read.seen = state
      /\ read.kind = reads[r].kind /\ read.path = reads[r].path
  BY <1>1 DEF Reads
<1>. HIDE DEF read
<1>. QED BY <1>2, <1>3, ReadsUpdated DEF RInv

\* What is true of one reader.
Sound(r) ==
    /\ InTransaction(r) /\ reads[r].kind = "get" => rows[reads[r].path] # None
    /\ reads[r].pc \in {"lock", "content"} => reads[r].kind = "get"
    /\ Reading(r, "snapshot") => reads[r].kind = "search"
    /\ reads[r].kind = "get" =>
        /\ reads[r].pc # "idle" => reads[r].path \in Paths
        /\ reads[r].pc \in {"state", "ref", "commit"} =>
               reads[r].found[reads[r].path] = rows[reads[r].path]
    /\ reads[r].kind = "search" /\ Reading(r, "state") /\ reads[r].seen # None =>
        \A p \in Paths : reads[r].found[p] =
            RowFor(Trees[reads[r].seen.source][reads[r].seen.commit][p],
                   reads[r].seen.model)
    /\ reads[r].pc \in {"ref", "commit"} =>
        \A p \in Requested(r) : reads[r].found[p] =
            RowFor(Trees[SourceOf[CloneOf[r]]][reads[r].commit][p], ModelOf[CloneOf[r]])

LEMMA AllSound ==
    ASSUME SyncInv
    PROVE  RInv <=> /\ reads \in [Readers -> Reads] /\ unread \in Nat
                    /\ told \in [Paths -> [done : Nat, uncertain : Nat]]
                    /\ \A r \in Readers : Sound(r)
BY DEF SyncInv, RInv, RTypeOK, Kinds, HeldRows, Snapshots, Checked, Sound

\* A reader that nobody disturbs stays sound.
LEMMA SoundKept ==
    ASSUME RInv, NEW r \in Readers, reads'[r] = reads[r],
           \A p \in Paths : Shared(p) => rows'[p] = rows[p]
    PROVE  Sound(r)'
<1>1. Sound(r)
  BY AllSound DEF RInv
<1>2. reads[r].kind = "get" /\ InTransaction(r) => rows'[reads[r].path] = rows[reads[r].path]
  <2>. SUFFICES ASSUME reads[r].kind = "get", InTransaction(r)
                PROVE  Shared(reads[r].path) /\ reads[r].path \in Paths
    OBVIOUS
  <2>. QED BY <1>1 DEF Sound, Shared, InTransaction
<1>. QED BY <1>1, <1>2 DEF Sound, InTransaction, Reading, Requested

\* The checkpoint that was looked at tells what the rows that were read are.
LEMMA StateChecked ==
    ASSUME RInv, NEW r \in Readers, Reading(r, "state"), Valid(r, Checkpoint(r))
    PROVE  \A p \in Requested(r) : reads[r].found[p] =
               RowFor(Trees[SourceOf[CloneOf[r]]][reads[r].commit][p], ModelOf[CloneOf[r]])
<1>1. Sound(r) /\ reads[r] \in Reads
  BY AllSound DEF RInv, RTypeOK
<1>2. CASE reads[r].kind = "get"
  <2>1. Valid(r, state)
    BY <1>2 DEF Checkpoint
  <2>2. \A p \in Paths : rows[p] = RowFor(Trees[state.source][state.commit][p], state.model)
    BY <2>1 DEF Valid, RInv, SyncInv, IndexMatchesCheckpoint
  <2>3. Requested(r) = {reads[r].path} /\ reads[r].path \in Paths
        /\ reads[r].found[reads[r].path] = rows[reads[r].path]
    BY <1>1, <1>2 DEF Sound, Requested, Reading
  <2>. QED BY <2>1, <2>2, <2>3 DEF Valid
<1>3. CASE reads[r].kind = "search"
  <2>1. Valid(r, reads[r].seen) /\ Requested(r) = Paths
    BY <1>3 DEF Checkpoint, Requested
  <2>. QED BY <1>1, <1>3, <2>1 DEF Sound, Valid
<1>. QED BY <1>1, <1>2, <1>3 DEF Reads

LEMMA ReaderStepSound ==
    ASSUME RInv, NEW r \in Readers, ReaderStep(r)
    PROVE  /\ reads' \in [Readers -> Reads] /\ Sound(r)'
           /\ \A q \in Readers \ {r} : reads'[q] = reads[q]
<1>. USE DEF RInv
<1>0. /\ Sound(r) /\ reads[r] \in Reads
      /\ UNCHANGED <<rows, state>>
  BY AllSound, ReaderStepIndex DEF RTypeOK
<1>1. CASE Quit(r)
  BY <1>1, Quitting DEF Sound, InTransaction, Reading
<1>2. CASE Retrieve(r)
  BY <1>2, Beginning DEF Sound, InTransaction, Reading
<1>3. CASE Preflight(r) /\ ~Quit(r)
  <2>1. Reading(r, "preflight") /\ Move(r, IF reads[r].kind = "get" THEN "lock" ELSE "snapshot")
    BY <1>3 DEF Preflight
  <2>2. CASE reads[r].kind = "get"
    BY <1>0, <2>1, <2>2, Moving DEF Sound, InTransaction, Reading
  <2>3. CASE reads[r].kind = "search"
    BY <1>0, <2>1, <2>3, Moving DEF Sound, InTransaction, Reading
  <2>. QED BY <1>0, <2>2, <2>3 DEF Reads
<1>4. CASE LockRow(r) /\ ~Quit(r)
  <2>1. Reading(r, "lock") /\ rows[reads[r].path] # None /\ Move(r, "content")
    BY <1>4 DEF LockRow
  <2>. QED BY <1>0, <2>1, Moving DEF Sound, InTransaction, Reading
<1>5. CASE ReadContent(r)
  <2>1. Reading(r, "content") /\ reads[r].kind = "get"
    BY <1>0, <1>5 DEF ReadContent, Sound, Reading
  <2>. QED BY <1>0, <1>5, <2>1, GetReads DEF Sound, InTransaction, Reading
<1>6. CASE Snapshot(r)
  <2>1. Reading(r, "snapshot") /\ reads[r].kind = "search"
    BY <1>0, <1>6 DEF Snapshot, Sound, Reading
  <2>2. state # None => \A p \in Paths :
                            rows[p] = RowFor(Trees[state.source][state.commit][p], state.model)
    BY DEF SyncInv, IndexMatchesCheckpoint
  <2>. QED BY <1>0, <1>6, <2>1, <2>2, SearchReads DEF Sound, InTransaction, Reading
<1>7. CASE CheckState(r) /\ ~Quit(r)
  <2>1. Reading(r, "state") /\ Valid(r, Checkpoint(r)) /\ Move(r, "ref")
    BY <1>7 DEF CheckState
  <2>2. Requested(r)' = Requested(r)
    BY <2>1, Moving DEF Requested
  <2>. QED BY <1>0, <2>1, <2>2, Moving, StateChecked DEF Sound, InTransaction, Reading
<1>8. CASE CheckRef(r) /\ ~Quit(r)
  <2>1. Reading(r, "ref") /\ Move(r, "commit")
    BY <1>8 DEF CheckRef
  <2>2. Requested(r)' = Requested(r)
    BY <2>1, Moving DEF Requested
  <2>. QED BY <1>0, <2>1, <2>2, Moving DEF Sound, InTransaction, Reading
<1>9. Deliver(r) \/ LoseReply(r) \/ GiveUp(r) => Quit(r)
  BY DEF Deliver, LoseReply, GiveUp
<1>10. Quit(r) => /\ reads' \in [Readers -> Reads]
                  /\ \A q \in Readers \ {r} : reads'[q] = reads[q]
  BY Quitting
<1>11. Retrieve(r) => /\ reads' \in [Readers -> Reads]
                      /\ \A q \in Readers \ {r} : reads'[q] = reads[q]
  BY Beginning
<1>12. \A pc \in {"lock", "content", "snapshot", "ref", "commit"} :
          Move(r, pc) => /\ reads' \in [Readers -> Reads]
                         /\ \A q \in Readers \ {r} : reads'[q] = reads[q]
  BY Moving
<1>13. ReadContent(r) \/ Snapshot(r) => /\ reads' \in [Readers -> Reads]
                                        /\ \A q \in Readers \ {r} : reads'[q] = reads[q]
  BY GetReads, SearchReads
<1>14. Preflight(r) \/ LockRow(r) \/ CheckState(r) \/ CheckRef(r) =>
          Quit(r) \/ \E pc \in {"lock", "content", "snapshot", "ref", "commit"} : Move(r, pc)
  BY DEF Preflight, LockRow, CheckState, CheckRef
<1>15. /\ reads' \in [Readers -> Reads]
       /\ \A q \in Readers \ {r} : reads'[q] = reads[q]
  BY <1>9, <1>10, <1>11, <1>12, <1>13, <1>14 DEF ReaderStep, Advance
<1>16. Sound(r)'
  BY <1>1, <1>2, <1>3, <1>4, <1>5, <1>6, <1>7, <1>8, <1>9 DEF ReaderStep, Advance
<1>. QED BY <1>15, <1>16

Outcomes == [done : Nat, uncertain : Nat]

\* What was told of the rows after one more outcome.
LEMMA OutcomeTold ==
    ASSUME NEW p \in Paths, NEW o \in {"done", "uncertain"},
           told \in [Paths -> Outcomes], Tell(p, o)
    PROVE  /\ told' \in [Paths -> Outcomes]
           /\ told'[p].done = told[p].done + IF o = "done" THEN 1 ELSE 0
           /\ told'[p].uncertain = told[p].uncertain + IF o = "uncertain" THEN 1 ELSE 0
           /\ \A q \in Paths \ {p} : told'[q] = told[q]
<1>. DEFINE row == [told[p] EXCEPT ![o] = told[p][o] + 1]
<1>1. told[p] \in Outcomes
  OBVIOUS
<1>2. told' = [told EXCEPT ![p] = row]
  BY DEF Tell
<1>3. /\ row \in Outcomes
      /\ row.done = told[p].done + IF o = "done" THEN 1 ELSE 0
      /\ row.uncertain = told[p].uncertain + IF o = "uncertain" THEN 1 ELSE 0
  <2>1. CASE o = "done"
    <3>1. row = [told[p] EXCEPT !.done = told[p].done + 1]
      BY <2>1
    <3>. QED BY <1>1, <2>1, <3>1 DEF Outcomes
  <2>2. CASE o = "uncertain"
    <3>1. row = [told[p] EXCEPT !.uncertain = told[p].uncertain + 1]
      BY <2>2
    <3>. QED BY <1>1, <2>2, <3>1 DEF Outcomes
  <2>. QED BY <2>1, <2>2
<1>. HIDE DEF row
<1>. QED BY <1>2, <1>3

\* The count of a path lies between what was told of it, as numbers.
LEMMA CountedBounds ==
    ASSUME RTypeOK
    PROVE  /\ \A p \in Paths : /\ Counted(p) \in Nat
                               /\ told[p].done \in Nat /\ told[p].uncertain \in Nat
           /\ CountedOnce <=> \A p \in Paths :
                                 /\ told[p].done <= Counted(p)
                                 /\ Counted(p) <= told[p].done + told[p].uncertain
BY DEF RTypeOK, TypeOK, Counted, CountedOnce

\* A get tells an outcome of its access, counted or, if uncertain, perhaps not.
LEMMA AccessTold ==
    ASSUME RInv, NEW p \in Paths, NEW o \in {"done", "uncertain"}, Tell(p, o),
           CountAccess(p) \/ (o = "uncertain" /\ UNCHANGED stats)
    PROVE  told' \in [Paths -> Outcomes] /\ (RTypeOK' /\ CountedOnce => CountedOnce')
<1>0. /\ RTypeOK /\ told \in [Paths -> Outcomes] /\ stats \in [Paths -> Nat \cup {None}]
  BY DEF RInv, RTypeOK, TypeOK, Outcomes
<1>1. /\ told' \in [Paths -> Outcomes]
      /\ told'[p].done = told[p].done + IF o = "done" THEN 1 ELSE 0
      /\ told'[p].uncertain = told[p].uncertain + IF o = "uncertain" THEN 1 ELSE 0
      /\ \A q \in Paths \ {p} : told'[q] = told[q]
  BY <1>0, OutcomeTold
<1>2. /\ \A q \in Paths \ {p} : Counted(q)' = Counted(q)
      /\ \/ Counted(p)' = Counted(p) + 1
         \/ o = "uncertain" /\ Counted(p)' = Counted(p)
  <2>1. CASE CountAccess(p)
    <3>1. stats' = [stats EXCEPT ![p] = IF stats[p] = None THEN 1 ELSE stats[p] + 1]
      BY <2>1 DEF CountAccess
    <3>2. 1 # None /\ (stats[p] # None => stats[p] + 1 \in Nat /\ stats[p] + 1 # None)
      BY <1>0, IndexAssumption
    <3>. QED BY <1>0, <3>1, <3>2 DEF Counted
  <2>2. CASE o = "uncertain" /\ UNCHANGED stats
    BY <2>2 DEF Counted
  <2>. QED BY <2>1, <2>2
<1>3. ASSUME RTypeOK', CountedOnce, NEW q \in Paths
      PROVE  /\ told'[q].done <= Counted(q)'
             /\ Counted(q)' <= told'[q].done + told'[q].uncertain
  <2>1. /\ Counted(q) \in Nat /\ told[q].done \in Nat /\ told[q].uncertain \in Nat
        /\ told[q].done <= Counted(q) /\ Counted(q) <= told[q].done + told[q].uncertain
    BY <1>0, <1>3, CountedBounds
  <2>2. CASE q # p
    BY <1>1, <1>2, <2>1, <2>2
  <2>3. CASE q = p /\ o = "done"
    BY <1>1, <1>2, <2>1, <2>3
  <2>4. CASE q = p /\ o = "uncertain"
    BY <1>1, <1>2, <2>1, <2>4
  <2>. QED BY <2>2, <2>3, <2>4
<1>4. RTypeOK' => (CountedOnce' <=> \A q \in Paths :
                     /\ told'[q].done <= Counted(q)'
                     /\ Counted(q)' <= told'[q].done + told'[q].uncertain)
  BY DEF RTypeOK, TypeOK, Counted, CountedOnce
<1>. QED BY <1>1, <1>3, <1>4

\* The accounts a step of a reader keeps.
LEMMA ReaderStepTold ==
    ASSUME RInv, NEW r \in Readers, ReaderStep(r)
    PROVE  /\ unread' \in Nat /\ told' \in [Paths -> Outcomes]
           /\ RTypeOK' /\ CountedOnce => CountedOnce'
<1>0. unread \in Nat /\ told \in [Paths -> Outcomes]
  BY DEF RInv, RTypeOK, Outcomes
<1>1. CASE /\ UNCHANGED <<told, stats>>
           /\ \/ unread' = unread
              \/ unread > 0 /\ unread' = unread - 1
  <2>1. CountedOnce => CountedOnce'
    BY <1>1 DEF CountedOnce, Counted
  <2>. QED BY <1>0, <1>1, <2>1
<1>2. (Deliver(r) \/ LoseReply(r)) /\ reads[r].kind = "get" => reads[r].path \in Paths
  BY DEF Deliver, LoseReply, Reading, RInv, HeldRows
<1>3. CASE Deliver(r) /\ reads[r].kind = "get"
  <2>1. /\ CountAccess(reads[r].path) /\ Tell(reads[r].path, "done") /\ unread' = unread
    BY <1>3 DEF Deliver
  <2>. QED BY <1>0, <1>2, <1>3, <2>1, AccessTold
<1>4. CASE LoseReply(r)
  <2>1. /\ CountAccess(reads[r].path) \/ UNCHANGED stats
        /\ Tell(reads[r].path, "uncertain") /\ unread' = unread /\ reads[r].kind = "get"
    BY <1>4 DEF LoseReply, AfterDispatch
  <2>. QED BY <1>0, <1>2, <1>4, <2>1, AccessTold
<1>5. CASE Deliver(r) /\ reads[r].kind # "get"
  BY <1>1, <1>5 DEF Deliver
<1>. QED BY <1>1, <1>3, <1>4, <1>5
     DEF ReaderStep, Retrieve, Begin, Advance, Preflight, LockRow, ReadContent, Snapshot,
         CheckState, CheckRef, GiveUp, ReadOnly, vars, db

\* The count of a row that stays is nobody else's to change.
LEMMA OtherStepStats ==
    ASSUME RInv, OtherStep, NEW p \in Paths, rows'[p] # None
    PROVE  stats'[p] = stats[p]
<1>. USE DEF RInv
<1>1. ASSUME NEW c \in Clones, Invoke(c) \/ SyncStep(c) \/ Failing(c)
      PROVE  stats'[p] = stats[p]
  <2>1. CASE ApplyAmongReaders(c)
    BY <2>1 DEF ApplyAmongReaders, Apply, Counts, db
  <2>2. CASE PlanStep(c) \/ SessionStep(c)
    BY <2>2, PlanStepTyped, SessionStepTyped
  <2>. QED BY <1>1, <2>1, <2>2 DEF SyncStep, Planning, Failing, PlanStep, SessionStep
<1>2. ASSUME NEW s \in Sources, Push(s) \/ Rewind(s)
      PROVE  stats'[p] = stats[p]
  BY <1>2 DEF Push, Rewind, db
<1>3. ASSUME NEW s \in Sources, Clear(s)
      PROVE  FALSE
  BY <1>3 DEF Clear, OperatorClear
<1>4. CASE WithoutReaders /\ LoseState
  BY <1>4 DEF LoseState
<1>. QED BY <1>1, <1>2, <1>3, <1>4 DEF OtherStep

\* The accounts of the rows that stay are kept, those of the others closed.
LEMMA OtherStepTold ==
    ASSUME RInv, OtherStep, Untouched
    PROVE  /\ told' \in [Paths -> Outcomes]
           /\ TypeOK' /\ CountedOnce => CountedOnce'
<1>1. told \in [Paths -> Outcomes] /\ Untold \in Outcomes /\ RTypeOK
  BY DEF RInv, RTypeOK, Outcomes, Untold
<1>2. told' = [p \in Paths |-> IF rows'[p] = None THEN Untold ELSE told[p]]
  BY DEF Untouched
<1>3. ASSUME TypeOK', CountedOnce, NEW p \in Paths
      PROVE  Counted(p)' \in told'[p].done .. told'[p].done + told'[p].uncertain
  <2>1. CASE rows'[p] = None
    <3>1. stats'[p] = None /\ told'[p].done = 0 /\ told'[p].uncertain = 0
      BY <1>2, <1>3, <2>1 DEF TypeOK, Untold
    <3>. QED BY <3>1 DEF Counted
  <2>2. CASE rows'[p] # None
    <3>1. stats'[p] = stats[p] /\ told'[p] = told[p]
      BY <1>2, <2>2, OtherStepStats
    <3>. QED BY <1>3, <3>1 DEF Counted, CountedOnce
  <2>. QED BY <2>1, <2>2
<1>4. told' \in [Paths -> Outcomes]
  BY <1>1, <1>2
<1>. QED BY <1>3, <1>4 DEF CountedOnce

LEMMA RSteps ==
    ASSUME [RNext]_rvars
    PROVE  \/ \E r \in Readers : ReaderStep(r)
           \/ OtherStep /\ Untouched
           \/ UNCHANGED rvars
BY DEF RNext, ReaderStep, OtherStep, Untouched

LEMMA RInductive == RInv /\ [RNext]_rvars => RInv' /\ (CountedOnce => CountedOnce')
<1>. SUFFICES ASSUME RInv, [RNext]_rvars PROVE RInv' /\ (CountedOnce => CountedOnce')
  OBVIOUS
<1>1. ASSUME NEW r \in Readers, ReaderStep(r) PROVE RInv' /\ (CountedOnce => CountedOnce')
  <2>1. SyncInv' /\ UNCHANGED <<rows, state, lock, sync>>
    BY <1>1, ReaderStepIndex
  <2>2. /\ reads' \in [Readers -> Reads] /\ Sound(r)'
        /\ \A q \in Readers \ {r} : reads'[q] = reads[q]
    BY <1>1, ReaderStepSound
  <2>3. \A q \in Readers : Sound(q)'
    BY <2>1, <2>2, SoundKept
  <2>4. unread' \in Nat /\ told' \in [Paths -> Outcomes]
        /\ (RTypeOK' /\ CountedOnce => CountedOnce')
    BY <1>1, ReaderStepTold
  <2>5. RTypeOK' /\ Kinds' /\ HeldRows' /\ Snapshots' /\ Checked'
    BY <2>1, <2>2, <2>3, <2>4
    DEF SyncInv, RTypeOK, Outcomes, Kinds, HeldRows, Snapshots, Checked, Sound
  <2>. QED BY <2>1, <2>4, <2>5 DEF RInv
<1>2. CASE OtherStep /\ Untouched
  <2>1. SyncInv' /\ \A p \in Paths : Shared(p) => rows'[p] = rows[p]
    BY <1>2, OtherStepIndex
  <2>2. UNCHANGED <<reads, unread>> /\ told' \in [Paths -> Outcomes]
        /\ (TypeOK' /\ CountedOnce => CountedOnce')
    BY <1>2, OtherStepTold DEF Untouched
  <2>3. \A q \in Readers : Sound(q)'
    BY <2>1, <2>2, SoundKept
  <2>4. RTypeOK' /\ Kinds' /\ HeldRows' /\ Snapshots' /\ Checked'
    BY <2>1, <2>2, <2>3
    DEF RInv, SyncInv, RTypeOK, Outcomes, Kinds, HeldRows, Snapshots, Checked, Sound
  <2>. QED BY <2>1, <2>2, <2>4 DEF RInv, SyncInv
<1>3. CASE UNCHANGED rvars
  <2>1. SyncInv' /\ UNCHANGED <<reads, unread, told, rows, stats>>
    BY <1>3, SyncInductive DEF RInv, rvars, vars, db
  <2>2. \A q \in Readers : Sound(q)'
    BY <2>1, SoundKept
  <2>3. RTypeOK' /\ Kinds' /\ HeldRows' /\ Snapshots' /\ Checked'
    BY <2>1, <2>2
    DEF RInv, SyncInv, RTypeOK, Kinds, HeldRows, Snapshots, Checked, Sound
  <2>. QED BY <2>1, <2>3 DEF RInv, CountedOnce, Counted
<1>. QED BY <1>1, <1>2, <1>3, RSteps

LEMMA RInitRInv == RInit => RInv /\ CountedOnce
<1>. SUFFICES ASSUME RInit PROVE RInv /\ CountedOnce
  OBVIOUS
<1>1. SyncInv
  BY InitSyncInv DEF RInit
<1>2. \A r \in Readers : reads[r] = Quiet
  BY DEF RInit
<1>3. RTypeOK
  BY <1>1, <1>2, QuietTyped, RetrievalAssumption
  DEF SyncInv, RTypeOK, RInit, Untold, InTransaction
<1>4. Kinds /\ HeldRows /\ Snapshots /\ Checked
  BY <1>2, QuietTyped DEF Kinds, HeldRows, Snapshots, Checked, Reading
<1>5. CountedOnce
  BY DEF RInit, Init, CountedOnce, Counted, Untold
<1>. QED BY <1>1, <1>3, <1>4, <1>5 DEF RInv, RInit

----------------------------------------------------------------------------
(* The theorems about retrieval *)

\* The invariants of the index and of its readers hold together, also when main
\* is forced back and replies are lost.
THEOREM RetrievalInvariance == RSpec => []RInv
<1>1. RInit => RInv
  BY RInitRInv
<1>2. RInv /\ [RNext]_rvars => RInv'
  BY RInductive
<1>. QED BY <1>1, <1>2, PTL DEF RSpec

\* What a retrieval is about to return is what its captured commit holds.
THEOREM ReadsOneTree == RSpec => []ReadsCapturedTree
<1>1. RInv => ReadsCapturedTree
  BY DEF RInv, Checked, ReadsCapturedTree, Requested, Reading
<1>. QED BY <1>1, RetrievalInvariance, PTL

\* While a row stays, its count holds every access told done, and no more than
\* those and the ones told uncertain, whatever syncs make of the row.
THEOREM CountsOnce == RSpec => []CountedOnce
<1>1. RInit => CountedOnce
  BY RInitRInv
<1>2. RInv /\ [RNext]_rvars => (CountedOnce => CountedOnce')
  BY RInductive
<1>. QED BY <1>1, <1>2, RetrievalInvariance, PTL DEF RSpec

\* Readers and a rewound main leave the index that of its checkpoint.
THEOREM MatchesCheckpointAmongReaders == RSpec => []IndexMatchesCheckpoint
<1>1. RInv => IndexMatchesCheckpoint
  BY DEF RInv, SyncInv
<1>. QED BY <1>1, RetrievalInvariance, PTL
============================================================================
