---------------------------- MODULE BridgeProofs ---------------------------
(***************************************************************************)
(* What the Telegram bridge guarantees about the Amp thread, for every set *)
(* of updates, every capacity and every number of restarts, lost answers   *)
(* and expired ids: admissions arrive in their order, and an update        *)
(* arrives again only if the bridge has forgotten it.                      *)
(***************************************************************************)
EXTENDS Bridge, FiniteSetTheorems, SequenceTheorems, TLAPS

----------------------------------------------------------------------------
(* The inductive invariant *)

\* Admission numbers grow from the thread over the worker to the queue.
Ordered ==
    /\ InOrder
    /\ \A k \in DOMAIN thread : thread[k].number <= admitted
    /\ worker.pc # "wait" => worker.job.number <= admitted
    /\ \A k \in DOMAIN thread :
          /\ worker.pc # "wait" => thread[k].number <= worker.job.number
          /\ worker.pc = "forward" => thread[k].number < worker.job.number
    /\ \A i \in DOMAIN jobs :
          /\ jobs[i].number <= admitted
          /\ worker.job.number < jobs[i].number
          /\ \A j \in DOMAIN jobs : i < j => jobs[i].number < jobs[j].number

\* The admissions that are in the thread or may still get there.
Received ==
    Members(thread) \cup Members(jobs)
        \cup IF worker.pc = "forward" THEN {worker.job} ELSE {}

Admissions(u) == {job \in Received : job.update = u}

Remembered(u) == IF Known(u, seen) THEN 1 ELSE 0

\* An update was admitted once more only after each time it was forgotten.
Accounted ==
    \A u \in Updates :
        /\ IsFiniteSet(Admissions(u))
        /\ Cardinality(Admissions(u)) <= Remembered(u) + forgotten[u]

IInv == TypeOK /\ Ordered /\ Accounted

----------------------------------------------------------------------------
(* Lemmas about queues *)

LEMMA SeqFacts ==
    ASSUME NEW S, NEW s \in Seq(S)
    PROVE  /\ Len(s) \in Nat /\ DOMAIN s = 1 .. Len(s)
           /\ \A i \in 1 .. Len(s) : s[i] \in S
           /\ Members(s) \subseteq S
           /\ s = <<>> <=> Len(s) = 0
BY DEF Members

LEMMA EmptyQueue ==
    ASSUME NEW S
    PROVE  <<>> \in Seq(S) /\ Len(<<>>) = 0 /\ DOMAIN <<>> = {} /\ Members(<<>>) = {}
BY DEF Members

LEMMA Appended ==
    ASSUME NEW S, NEW s \in Seq(S), NEW e \in S
    PROVE  /\ Append(s, e) \in Seq(S) /\ Len(Append(s, e)) = Len(s) + 1
           /\ DOMAIN Append(s, e) = 1 .. Len(s) + 1
           /\ \A i \in 1 .. Len(s) : Append(s, e)[i] = s[i]
           /\ Append(s, e)[Len(s) + 1] = e
           /\ Members(Append(s, e)) = Members(s) \cup {e}
<1>1. /\ Append(s, e) \in Seq(S) /\ Len(Append(s, e)) = Len(s) + 1
      /\ DOMAIN Append(s, e) = 1 .. Len(s) + 1 /\ DOMAIN s = 1 .. Len(s) /\ Len(s) \in Nat
      /\ \A i \in 1 .. Len(s) : Append(s, e)[i] = s[i]
      /\ Append(s, e)[Len(s) + 1] = e
  OBVIOUS
<1>2. Members(Append(s, e)) \subseteq Members(s) \cup {e}
  BY <1>1 DEF Members
<1>3. Members(s) \subseteq Members(Append(s, e))
  BY <1>1 DEF Members
<1>4. e \in Members(Append(s, e))
  BY <1>1 DEF Members
<1>. QED BY <1>1, <1>2, <1>3, <1>4

LEMMA Taken ==
    ASSUME NEW S, NEW s \in Seq(S), s # <<>>
    PROVE  /\ Head(s) \in S /\ Head(s) = s[1] /\ Len(s) >= 1
           /\ Tail(s) \in Seq(S) /\ Len(Tail(s)) = Len(s) - 1
           /\ DOMAIN Tail(s) = 1 .. Len(s) - 1
           /\ \A i \in 1 .. Len(s) - 1 : Tail(s)[i] = s[i + 1]
           /\ {Head(s)} \cup Members(Tail(s)) = Members(s)
<1>1. /\ Head(s) \in S /\ Head(s) = s[1] /\ Len(s) >= 1
      /\ Tail(s) \in Seq(S) /\ Len(Tail(s)) = Len(s) - 1
      /\ DOMAIN Tail(s) = 1 .. Len(s) - 1 /\ DOMAIN s = 1 .. Len(s) /\ Len(s) \in Nat
      /\ \A i \in 1 .. Len(s) - 1 : Tail(s)[i] = s[i + 1]
  OBVIOUS
<1>2. {Head(s)} \cup Members(Tail(s)) \subseteq Members(s)
  BY <1>1 DEF Members
<1>3. Members(s) \subseteq {Head(s)} \cup Members(Tail(s))
  <2>. SUFFICES ASSUME NEW i \in 1 .. Len(s)
                PROVE  s[i] \in {Head(s)} \cup Members(Tail(s))
    BY <1>1 DEF Members
  <2>1. CASE i = 1
    BY <1>1, <2>1
  <2>2. CASE i # 1
    <3>1. i - 1 \in 1 .. Len(s) - 1 /\ Tail(s)[i - 1] = s[i]
      BY <1>1, <2>2
    <3>. QED BY <1>1, <3>1 DEF Members
  <2>. QED BY <2>1, <2>2
<1>. QED BY <1>1, <1>2, <1>3

\* What is left of the remembered ids after the oldest n have gone.
LEMMA Dropped ==
    ASSUME NEW S, NEW s \in Seq(S), NEW n \in 0 .. Len(s)
    PROVE  /\ From(s, n) \in Seq(S) /\ Len(From(s, n)) = Len(s) - n
           /\ Members(From(s, n)) \subseteq Members(s)
<1>1. Len(s) \in Nat /\ DOMAIN s = 1 .. Len(s)
  OBVIOUS
<1>2. n + 1 \in Int /\ Len(s) \in Int /\ \A i \in n + 1 .. Len(s) : s[i] \in S
  BY <1>1
<1>3. PICK t : t = From(s, n)
  OBVIOUS
<1>4. /\ t \in Seq(S) /\ Len(t) = IF n + 1 <= Len(s) THEN Len(s) - (n + 1) + 1 ELSE 0
      /\ \A i \in 1 .. Len(s) - (n + 1) + 1 : t[i] = s[(n + 1) + i - 1]
  BY <1>2, <1>3, SubSeqProperties DEF From
<1>a. Len(s) - (n + 1) + 1 = Len(s) - n /\ n \in Nat /\ n <= Len(s)
  BY <1>1
<1>b. Len(t) = Len(s) - n
  <2>1. CASE n + 1 <= Len(s)
    <3>1. Len(t) = Len(s) - (n + 1) + 1
      BY <1>4, <2>1
    <3>. QED BY <1>a, <3>1
  <2>2. CASE ~(n + 1 <= Len(s))
    <3>1. Len(t) = 0
      BY <1>4, <2>2
    <3>2. n = Len(s)
      <4>1. \A l \in Nat : \A m \in 0 .. l : ~(m + 1 <= l) => m = l
        OBVIOUS
      <4>. QED BY <1>1, <2>2, <4>1
    <3>3. Len(s) - n = 0
      BY <1>1, <3>2
    <3>. QED BY <3>1, <3>3
  <2>. QED BY <2>1, <2>2
<1>5. Len(t) = Len(s) - n /\ DOMAIN t = 1 .. Len(s) - n
  <2>1. DOMAIN t = 1 .. Len(t)
    BY <1>4
  <2>. QED BY <1>b, <2>1
<1>6. \A i \in 1 .. Len(s) - n : t[i] = s[i + n] /\ i + n \in 1 .. Len(s)
  <2>. SUFFICES ASSUME NEW i \in 1 .. Len(s) - n
                PROVE  t[i] = s[i + n] /\ i + n \in 1 .. Len(s)
    OBVIOUS
  <2>1. t[i] = s[(n + 1) + i - 1]
    BY <1>4, <1>a
  <2>2. (n + 1) + i - 1 = i + n /\ i + n \in 1 .. Len(s)
    BY <1>1, <1>a
  <2>. QED BY <2>1, <2>2
<1>7. Members(t) \subseteq Members(s)
  BY <1>1, <1>5, <1>6 DEF Members
<1>. QED BY <1>3, <1>4, <1>5, <1>7

\* The ids that survive pruning.
LEMMA Pruned ==
    ASSUME TypeOK, NEW expired \in 0 .. Len(seen)
    PROVE  /\ Kept(expired) \in Seq(Updates) /\ Len(Kept(expired)) <= DedupeCapacity
           /\ Members(Kept(expired)) \subseteq Members(seen)
<1>. DEFINE n == IF Len(seen) - DedupeCapacity > expired
                 THEN Len(seen) - DedupeCapacity ELSE expired
<1>1. seen \in Seq(Updates) /\ Len(seen) \in Nat /\ DedupeCapacity \in Nat
  BY BridgeAssumption DEF TypeOK
<1>2. n \in 0 .. Len(seen) /\ Len(seen) - n <= DedupeCapacity
  BY <1>1
<1>3. Kept(expired) = From(seen, n)
  BY DEF Kept
<1>. HIDE DEF n
<1>. QED BY <1>1, <1>2, <1>3, Dropped

----------------------------------------------------------------------------
(* What the webhook and the worker do to queue, worker and thread *)

LEMMA JobTyped ==
    ASSUME TypeOK, NEW u \in Updates
    PROVE  /\ [update |-> u, number |-> admitted + 1] \in Job
           /\ [update |-> u, number |-> admitted + 1].number = admitted + 1
           /\ [update |-> u, number |-> admitted + 1].update = u
BY DEF TypeOK, Job

LEMMA JobFacts ==
    ASSUME TypeOK
    PROVE  /\ None \notin Job /\ \A job \in Job : job.number \in Nat /\ job.update \in Updates
           /\ worker.pc # "wait" => worker.job \in Job
           /\ admitted \in Nat
           /\ DOMAIN thread = 1 .. Len(thread) /\ Len(thread) \in Nat
           /\ \A k \in DOMAIN thread : thread[k] \in Job
           /\ DOMAIN jobs = 1 .. Len(jobs) /\ Len(jobs) \in Nat
           /\ \A i \in DOMAIN jobs : jobs[i] \in Job
<1>1. None \notin Job
  BY BridgeAssumption
<1>2. \A job \in Job : job.number \in Nat /\ job.update \in Updates
  BY DEF Job
<1>3. worker.pc # "wait" => worker.job \in Job
  BY DEF TypeOK
<1>4. admitted \in Nat /\ thread \in Seq(Job) /\ jobs \in Seq(Job)
  BY DEF TypeOK
<1>. QED BY <1>1, <1>2, <1>3, <1>4, SeqFacts

\* A new job goes to the end of the queue, or to a worker that waits.
LEMMA Enqueued ==
    ASSUME TypeOK, Ordered, NEW job \in Job, job.number = admitted + 1, ~Full, Enqueue(job),
           admitted' = admitted + 1, thread' = thread
    PROVE  /\ jobs' \in Seq(Job) /\ Len(jobs') <= QueueCapacity
           /\ worker' \in [pc : {"wait", "forward", "confirm", "fail"},
                           job : Job \cup {None}, attempt : 0 .. Attempts]
           /\ worker'.pc # "wait" /\ worker'.job # None
           /\ Ordered' /\ Received' \subseteq Received \cup {job}
<1>. USE JobFacts
<1>0. QueueCapacity \in Nat \ {0} /\ Attempts \in Nat \ {0} /\ jobs \in Seq(Job) /\ Len(jobs) \in Nat
  BY BridgeAssumption DEF TypeOK
<1>1. CASE worker.pc = "wait"
  <2>1. jobs' = jobs /\ worker' = [pc |-> "forward", job |-> job, attempt |-> 1]
    BY <1>1 DEF Enqueue, StartOn
  <2>2. jobs = <<>> /\ Members(jobs) = {} /\ DOMAIN jobs = {}
    BY <1>1, EmptyQueue DEF TypeOK
  <2>3. Ordered'
    BY <2>1, <2>2 DEF Ordered, InOrder
  <2>4. Received' \subseteq Received \cup {job}
    BY <2>1 DEF Received, Members
  <2>5. 1 \in 0 .. Attempts
    BY <1>0
  <2>. QED BY <1>0, <2>1, <2>3, <2>4, <2>5 DEF TypeOK
<1>2. CASE worker.pc # "wait"
  <2>1. worker' = worker /\ jobs' = Append(jobs, job)
    BY <1>2 DEF Enqueue, StartOn
  <2>2. /\ jobs' \in Seq(Job) /\ Len(jobs') = Len(jobs) + 1
        /\ DOMAIN jobs' = 1 .. Len(jobs) + 1
        /\ \A i \in 1 .. Len(jobs) : jobs'[i] = jobs[i]
        /\ jobs'[Len(jobs) + 1] = job
        /\ Members(jobs') = Members(jobs) \cup {job}
    BY <1>0, <2>1, Appended
  <2>3. Len(jobs') <= QueueCapacity
    BY <1>0, <2>2 DEF Full
  <2>4. Ordered'
    <3>1. InOrder' /\ \A k \in DOMAIN thread : thread[k].number <= admitted'
      BY DEF Ordered, InOrder
    <3>2. worker'.job.number <= admitted' /\ worker.job.number < job.number
      BY <1>2, <2>1 DEF Ordered
    <3>3. ASSUME NEW i \in DOMAIN jobs'
          PROVE  /\ jobs'[i].number <= admitted' /\ worker'.job.number < jobs'[i].number
                 /\ \A j \in DOMAIN jobs' : i < j => jobs'[i].number < jobs'[j].number
      <4>1. CASE i = Len(jobs) + 1
        BY <2>1, <2>2, <3>2, <4>1
      <4>2. CASE i \in 1 .. Len(jobs)
        <5>1. /\ jobs[i].number <= admitted /\ worker.job.number < jobs[i].number
              /\ \A j \in DOMAIN jobs : i < j => jobs[i].number < jobs[j].number
          BY <4>2 DEF Ordered
        <5>2. \A j \in DOMAIN jobs' : j \in DOMAIN jobs \/ jobs'[j] = job
          BY <2>2
        <5>. QED BY <2>1, <2>2, <4>2, <5>1, <5>2
      <4>. QED BY <2>2, <4>1, <4>2
    <3>. QED BY <1>2, <2>1, <3>1, <3>2, <3>3 DEF Ordered
  <2>5. Received' \subseteq Received \cup {job}
    BY <2>1, <2>2 DEF Received
  <2>. QED BY <1>2, <2>1, <2>2, <2>3, <2>4, <2>5 DEF TypeOK
<1>. QED BY <1>1, <1>2

\* The worker is done with its job and takes the next one, if there is one.
LEMMA NextTaken ==
    ASSUME TypeOK, Ordered, worker.pc \in {"confirm", "fail"}, TakeNext,
           UNCHANGED <<thread, admitted>>
    PROVE  /\ jobs' \in Seq(Job) /\ Len(jobs') <= QueueCapacity
           /\ worker' \in [pc : {"wait", "forward", "confirm", "fail"},
                           job : Job \cup {None}, attempt : 0 .. Attempts]
           /\ worker'.pc = "wait" <=> worker'.job = None
           /\ worker'.pc = "wait" => jobs' = <<>>
           /\ Ordered' /\ Received' \subseteq Received
<1>. USE JobFacts
<1>0. /\ QueueCapacity \in Nat \ {0} /\ 0 \in 0 .. Attempts /\ 1 \in 0 .. Attempts
      /\ jobs \in Seq(Job) /\ Len(jobs) <= QueueCapacity
  BY BridgeAssumption DEF TypeOK
<1>1. CASE jobs = <<>>
  <2>1. jobs' = jobs /\ worker' = [pc |-> "wait", job |-> None, attempt |-> 0]
    BY <1>1 DEF TakeNext, Waiting
  <2>2. Members(jobs) = {} /\ DOMAIN jobs = {}
    BY <1>1, EmptyQueue
  <2>3. Ordered'
    BY <2>1, <2>2 DEF Ordered, InOrder
  <2>4. Received' \subseteq Received
    BY <2>1 DEF Received, Members
  <2>. QED BY <1>0, <1>1, <2>1, <2>3, <2>4
<1>2. CASE jobs # <<>>
  <2>1. jobs' = Tail(jobs) /\ worker' = [pc |-> "forward", job |-> Head(jobs), attempt |-> 1]
    BY <1>2 DEF TakeNext, StartOn
  <2>2. /\ Head(jobs) \in Job /\ Head(jobs) = jobs[1] /\ Len(jobs) >= 1
        /\ jobs' \in Seq(Job) /\ Len(jobs') = Len(jobs) - 1
        /\ DOMAIN jobs' = 1 .. Len(jobs) - 1
        /\ \A i \in 1 .. Len(jobs) - 1 : jobs'[i] = jobs[i + 1]
        /\ {Head(jobs)} \cup Members(jobs') = Members(jobs)
    BY <1>0, <1>2, <2>1, Taken
  <2>3. Len(jobs') <= QueueCapacity
    BY <1>0, <2>2
  <2>4. Ordered'
    <3>1. 1 \in DOMAIN jobs /\ worker.job.number < jobs[1].number /\ jobs[1].number <= admitted
          /\ \A j \in DOMAIN jobs : 1 < j => jobs[1].number < jobs[j].number
      BY <2>2 DEF Ordered
    <3>2. \A k \in DOMAIN thread : thread[k].number < jobs[1].number
      BY <3>1 DEF Ordered
    <3>3. ASSUME NEW i \in DOMAIN jobs'
          PROVE  /\ jobs'[i].number <= admitted' /\ worker'.job.number < jobs'[i].number
                 /\ \A j \in DOMAIN jobs' : i < j => jobs'[i].number < jobs'[j].number
      <4>1. i + 1 \in DOMAIN jobs /\ 1 < i + 1 /\ jobs'[i] = jobs[i + 1]
        BY <2>2
      <4>2. \A j \in DOMAIN jobs' : j + 1 \in DOMAIN jobs /\ jobs'[j] = jobs[j + 1]
        BY <2>2
      <4>3. \A j \in DOMAIN jobs' : i < j => jobs[i + 1].number < jobs[j + 1].number
        BY <2>2, <4>1, <4>2 DEF Ordered
      <4>. QED BY <2>1, <2>2, <3>1, <4>1, <4>2, <4>3 DEF Ordered
    <3>. QED BY <2>1, <2>2, <3>1, <3>2, <3>3 DEF Ordered, InOrder
  <2>5. Received' \subseteq Received
    BY <2>1, <2>2 DEF Received
  <2>. QED BY <1>0, <2>1, <2>2, <2>3, <2>4, <2>5
<1>. QED BY <1>1, <1>2

\* The thread receives the job the worker forwards, which then leaves "forward".
LEMMA ThreadReceives ==
    ASSUME TypeOK, Ordered, worker.pc = "forward", Receive,
           worker'.pc \in {"confirm", "fail"}, worker'.job = worker.job,
           UNCHANGED <<jobs, admitted>>
    PROVE  thread' \in Seq(Job) /\ Ordered' /\ Received' \subseteq Received
<1>. USE JobFacts
<1>1. thread \in Seq(Job) /\ worker.job \in Job /\ thread' = Append(thread, worker.job)
  BY DEF TypeOK, Receive
<1>2. /\ thread' \in Seq(Job) /\ DOMAIN thread' = 1 .. Len(thread) + 1
      /\ \A k \in 1 .. Len(thread) : thread'[k] = thread[k]
      /\ thread'[Len(thread) + 1] = worker.job
      /\ Members(thread') = Members(thread) \cup {worker.job}
  BY <1>1, Appended
<1>3. \A k \in DOMAIN thread : thread[k].number < worker.job.number
  BY DEF Ordered
<1>4. \A k \in DOMAIN thread' : k \in DOMAIN thread \/ k = Len(thread) + 1
  BY <1>2
<1>5. InOrder'
  BY <1>2, <1>3, <1>4 DEF Ordered, InOrder
<1>6. \A k \in DOMAIN thread' : /\ thread'[k].number <= admitted
                                /\ thread'[k].number <= worker.job.number
  BY <1>2, <1>3, <1>4 DEF Ordered
<1>7. Ordered'
  BY <1>5, <1>6 DEF Ordered
<1>8. Received' \subseteq Received
  BY <1>2 DEF Received
<1>. QED BY <1>2, <1>7, <1>8

\* The worker moves on with the same job and the thread receives nothing.
LEMMA WorkerMoves ==
    ASSUME TypeOK, Ordered, worker.pc # "wait", worker'.pc # "wait", worker'.job = worker.job,
           worker'.pc = "forward" => worker.pc = "forward",
           UNCHANGED <<thread, jobs, admitted>>
    PROVE  Ordered' /\ Received' \subseteq Received
<1>1. Ordered'
  BY DEF Ordered, InOrder
<1>2. Received' \subseteq Received
  BY DEF Received, Members
<1>. QED BY <1>1, <1>2

----------------------------------------------------------------------------
(* Counting admissions *)

LEMMA Smaller ==
    ASSUME NEW A, NEW B, IsFiniteSet(B), A \subseteq B
    PROVE  /\ IsFiniteSet(A) /\ Cardinality(A) \in Nat /\ Cardinality(B) \in Nat
           /\ Cardinality(A) <= Cardinality(B)
BY FS_Subset, FS_CardinalityType

\* At most one admission is new.
LEMMA OneMore ==
    ASSUME NEW A, NEW B, NEW e, IsFiniteSet(B), A \subseteq B \cup {e}
    PROVE  /\ IsFiniteSet(A) /\ Cardinality(A) \in Nat /\ Cardinality(B) \in Nat
           /\ Cardinality(A) <= Cardinality(B) + 1
<1>1. IsFiniteSet(B \cup {e}) /\ Cardinality(B \cup {e}) <= Cardinality(B) + 1
  <2>1. Cardinality(B) \in Nat
    BY FS_CardinalityType
  <2>2. /\ IsFiniteSet(B \cup {e})
        /\ Cardinality(B \cup {e}) = IF e \in B THEN Cardinality(B) ELSE Cardinality(B) + 1
    BY FS_AddElement
  <2>. QED BY <2>1, <2>2
<1>2. Cardinality(B \cup {e}) \in Nat /\ Cardinality(B) \in Nat
  BY <1>1, FS_CardinalityType
<1>. QED BY <1>1, <1>2, Smaller

\* What the worker does leaves no admission that was not there.
LEMMA NoneAdmitted ==
    ASSUME Accounted, Received' \subseteq Received, UNCHANGED <<seen, forgotten>>, TypeOK
    PROVE  Accounted'
<1>. SUFFICES ASSUME NEW u \in Updates
              PROVE  /\ IsFiniteSet(Admissions(u)')
                     /\ Cardinality(Admissions(u)') <= Remembered(u)' + forgotten'[u]
  BY DEF Accounted
<1>1. Admissions(u)' \subseteq Admissions(u)
  BY DEF Admissions
<1>2. IsFiniteSet(Admissions(u)) /\ Cardinality(Admissions(u)) <= Remembered(u) + forgotten[u]
  BY DEF Accounted
<1>3. Remembered(u) \in Nat /\ forgotten[u] \in Nat /\ Remembered(u)' = Remembered(u)
  BY DEF Remembered, TypeOK, Known
<1>. HIDE DEF Admissions, Remembered
<1>. QED BY <1>1, <1>2, <1>3, Smaller

----------------------------------------------------------------------------
(* One lemma per action *)

\* An update that comes in: admitted, known or turned away.
LEMMA Admitting ==
    ASSUME IInv, NEW u \in Updates, NEW expired \in 0 .. Len(seen), Admit(u, expired),
           unanswered' \subseteq Updates, faults' \in Nat
    PROVE  IInv'
<1>. DEFINE ids == Kept(expired)
            job == [update |-> u, number |-> admitted + 1]
<1>0. TypeOK /\ Ordered /\ Accounted
  BY DEF IInv
<1>1. ids \in Seq(Updates) /\ Len(ids) <= DedupeCapacity /\ Members(ids) \subseteq Members(seen)
  BY <1>0, Pruned
<1>2. /\ \A v \in Updates : forgotten'[v] = IF Known(v, seen) /\ ~Known(v, ids)
                                            THEN forgotten[v] + 1 ELSE forgotten[v]
      /\ forgotten' \in [Updates -> Nat]
  BY <1>0 DEF Admit, TypeOK
<1>3. UNCHANGED <<stopping, thread, settled>>
  BY DEF Admit
<1>4. \A v \in Updates : Known(v, ids) => Known(v, seen)
  BY <1>1 DEF Known
<1>5. DedupeCapacity \in Nat /\ Len(ids) \in Nat
  BY <1>1, BridgeAssumption
<1>6. CASE Known(u, ids) \/ Full
  <2>1. seen' = ids /\ UNCHANGED <<jobs, worker, admitted>>
    BY <1>6 DEF Admit
  <2>2. Ordered' /\ Received' = Received
    BY <1>0, <1>3, <2>1 DEF Ordered, InOrder, Received
  <2>3. ASSUME NEW v \in Updates
        PROVE  /\ IsFiniteSet(Admissions(v)')
               /\ Cardinality(Admissions(v)') <= Remembered(v)' + forgotten'[v]
    <3>1. Admissions(v)' = Admissions(v)
      BY <2>2 DEF Admissions
    <3>2. IsFiniteSet(Admissions(v)) /\ Cardinality(Admissions(v)) <= Remembered(v) + forgotten[v]
      BY <1>0 DEF Accounted
    <3>3. Remembered(v)' + forgotten'[v] = Remembered(v) + forgotten[v]
      BY <1>0, <1>2, <1>4, <2>1 DEF Remembered, TypeOK, Known
    <3>. QED BY <3>1, <3>2, <3>3
  <2>4. Accounted'
    BY <2>3 DEF Accounted
  <2>5. TypeOK'
    BY <1>0, <1>1, <1>2, <1>3, <1>5, <2>1 DEF TypeOK
  <2>. QED BY <2>2, <2>4, <2>5 DEF IInv
<1>7. CASE ~Known(u, ids) /\ ~Full
  <2>1. seen' = Append(ids, u) /\ Enqueue(job) /\ admitted' = admitted + 1
    BY <1>7 DEF Admit
  <2>2. job \in Job /\ job.number = admitted + 1 /\ job.update = u
    BY <1>0, JobTyped
  <2>. HIDE DEF job
  <2>3. /\ jobs' \in Seq(Job) /\ Len(jobs') <= QueueCapacity
        /\ worker' \in [pc : {"wait", "forward", "confirm", "fail"},
                        job : Job \cup {None}, attempt : 0 .. Attempts]
        /\ worker'.pc # "wait" /\ worker'.job # None
        /\ Ordered' /\ Received' \subseteq Received \cup {job}
    BY <1>0, <1>3, <1>7, <2>1, <2>2, Enqueued
  <2>4. /\ seen' \in Seq(Updates) /\ Len(seen') = Len(ids) + 1
        /\ Members(seen') = Members(ids) \cup {u}
    BY <1>1, <2>1, Appended
  <2>5. ASSUME NEW v \in Updates
        PROVE  /\ IsFiniteSet(Admissions(v)')
               /\ Cardinality(Admissions(v)') <= Remembered(v)' + forgotten'[v]
    <3>1. IsFiniteSet(Admissions(v)) /\ Cardinality(Admissions(v)) <= Remembered(v) + forgotten[v]
      BY <1>0 DEF Accounted
    <3>2. forgotten[v] \in Nat /\ forgotten'[v] \in Nat
      BY <1>0, <1>2 DEF TypeOK
    <3>3. CASE v = u
      <4>1. Admissions(v)' \subseteq Admissions(v) \cup {job}
        BY <2>3 DEF Admissions
      <4>2. Remembered(v)' + forgotten'[v] = Remembered(v) + forgotten[v] + 1
        BY <1>2, <1>7, <2>4, <3>2, <3>3 DEF Remembered, Known
      <4>3. Remembered(v) \in Nat
        BY DEF Remembered
      <4>. HIDE DEF Admissions, Remembered
      <4>4. IsFiniteSet(Admissions(v)') /\ Cardinality(Admissions(v)') \in Nat
            /\ Cardinality(Admissions(v)) \in Nat
            /\ Cardinality(Admissions(v)') <= Cardinality(Admissions(v)) + 1
        BY <3>1, <4>1, OneMore
      <4>. QED BY <3>1, <3>2, <4>2, <4>3, <4>4
    <3>4. CASE v # u
      <4>1. Admissions(v)' \subseteq Admissions(v)
        BY <2>2, <2>3, <3>4 DEF Admissions
      <4>2. Remembered(v)' + forgotten'[v] = Remembered(v) + forgotten[v]
        BY <1>2, <1>4, <2>4, <3>2, <3>4 DEF Remembered, Known
      <4>3. Remembered(v) \in Nat
        BY DEF Remembered
      <4>. HIDE DEF Admissions, Remembered
      <4>. QED BY <3>1, <3>2, <4>1, <4>2, <4>3, Smaller
    <3>. QED BY <3>3, <3>4
  <2>6. Accounted'
    BY <2>5 DEF Accounted
  <2>7. Len(seen') <= DedupeCapacity + 1 /\ admitted' \in Nat
    BY <1>0, <1>1, <1>5, <2>1, <2>4 DEF TypeOK
  <2>8. TypeOK'
    BY <1>0, <1>2, <1>3, <2>3, <2>4, <2>7 DEF TypeOK
  <2>. QED BY <2>3, <2>6, <2>8 DEF IInv
<1>. QED BY <1>6, <1>7

LEMMA WebhookStep ==
    ASSUME IInv, NEW u \in Updates, Webhook(u)
    PROVE  IInv'
<1>0. unanswered \subseteq Updates /\ faults \in Nat /\ Len(seen) \in Nat
  BY DEF IInv, TypeOK
<1>1. 0 \in 0 .. Len(seen) /\ \A n \in 1 .. Len(seen) : n \in 0 .. Len(seen)
  BY <1>0
<1>2. \A kind : Fault(kind) => faults' \in Nat
  BY <1>0 DEF Fault
<1>3. \A success : Answered(u, success) \subseteq Updates
  BY <1>0 DEF Answered
<1>4. CASE Deliver(u)
  BY <1>0, <1>1, <1>3, <1>4, Admitting DEF Deliver
<1>5. CASE LoseAnswer(u)
  BY <1>0, <1>1, <1>2, <1>5, Admitting DEF LoseAnswer
<1>6. ASSUME NEW expired \in 1 .. Len(seen), DeliverLate(u, expired)
      PROVE  IInv'
  BY <1>0, <1>1, <1>2, <1>3, <1>6, Admitting DEF DeliverLate
<1>. QED BY <1>4, <1>5, <1>6 DEF Webhook

LEMMA ForwardedStep ==
    ASSUME IInv, Forwarded
    PROVE  IInv'
<1>. USE JobFacts
<1>0. TypeOK /\ Ordered /\ Accounted
  BY DEF IInv
<1>1. /\ worker' = [worker EXCEPT !.pc = "confirm"] /\ Receive
      /\ UNCHANGED <<unanswered, jobs, seen, stopping, admitted, forgotten, faults>>
      /\ settled' = settled \cup {worker.job.update}
      /\ worker.pc = "forward"
  BY DEF Forwarded, Telling, Settle
<1>2. /\ worker'.pc = "confirm" /\ worker'.job = worker.job
      /\ worker' \in [pc : {"wait", "forward", "confirm", "fail"},
                      job : Job \cup {None}, attempt : 0 .. Attempts]
  BY <1>0, <1>1 DEF TypeOK
<1>3. thread' \in Seq(Job) /\ Ordered' /\ Received' \subseteq Received
  BY <1>0, <1>1, <1>2, ThreadReceives
<1>4. Accounted'
  BY <1>0, <1>1, <1>3, NoneAdmitted
<1>5. settled' \subseteq Updates
  BY <1>0, <1>1 DEF TypeOK
<1>6. TypeOK'
  BY <1>0, <1>1, <1>2, <1>3, <1>5 DEF TypeOK
<1>. QED BY <1>3, <1>4, <1>6 DEF IInv

LEMMA AttemptFailsStep ==
    ASSUME IInv, NEW sawEvent \in BOOLEAN, AttemptFails(sawEvent)
    PROVE  IInv'
<1>. USE JobFacts
<1>0. TypeOK /\ Ordered /\ Accounted
  BY DEF IInv
<1>1. /\ UNCHANGED <<unanswered, jobs, seen, stopping, admitted, forgotten, faults>>
      /\ worker.pc = "forward"
      /\ (sawEvent /\ Receive) \/ UNCHANGED thread
  BY DEF AttemptFails
<1>2. CASE Retriable(sawEvent)
  <2>1. worker' = [worker EXCEPT !.attempt = worker.attempt + 1] /\ UNCHANGED settled
    BY <1>2 DEF AttemptFails
  <2>2. ~sawEvent /\ worker.attempt \in 0 .. Attempts /\ worker.attempt < Attempts
    BY <1>0, <1>2 DEF Retriable, TypeOK
  <2>3. worker.attempt + 1 \in 0 .. Attempts
    BY <2>2, BridgeAssumption
  <2>4. /\ worker'.pc = "forward" /\ worker'.job = worker.job
        /\ worker' \in [pc : {"wait", "forward", "confirm", "fail"},
                        job : Job \cup {None}, attempt : 0 .. Attempts]
    BY <1>0, <1>1, <2>1, <2>3 DEF TypeOK
  <2>5. Ordered' /\ Received' \subseteq Received
    BY <1>0, <1>1, <2>2, <2>4, WorkerMoves
  <2>6. Accounted'
    BY <1>0, <1>1, <2>5, NoneAdmitted
  <2>7. TypeOK'
    BY <1>0, <1>1, <2>1, <2>2, <2>4 DEF TypeOK
  <2>. QED BY <2>5, <2>6, <2>7 DEF IInv
<1>3. CASE ~Retriable(sawEvent)
  <2>1. worker' = [worker EXCEPT !.pc = "fail"] /\ settled' = settled \cup {worker.job.update}
    BY <1>3 DEF AttemptFails, GivenUp, Telling, Settle
  <2>2. /\ worker'.pc = "fail" /\ worker'.job = worker.job
        /\ worker' \in [pc : {"wait", "forward", "confirm", "fail"},
                        job : Job \cup {None}, attempt : 0 .. Attempts]
    BY <1>0, <1>1, <2>1 DEF TypeOK
  <2>3. thread' \in Seq(Job) /\ Ordered' /\ Received' \subseteq Received
    <3>1. CASE sawEvent /\ Receive
      BY <1>0, <1>1, <2>2, <3>1, ThreadReceives
    <3>2. CASE UNCHANGED thread
      BY <1>0, <1>1, <2>2, <3>2, WorkerMoves DEF TypeOK
    <3>. QED BY <1>1, <3>1, <3>2
  <2>4. Accounted'
    BY <1>0, <1>1, <2>3, NoneAdmitted
  <2>5. settled' \subseteq Updates
    BY <1>0, <1>1, <2>1 DEF TypeOK
  <2>6. TypeOK'
    BY <1>0, <1>1, <2>2, <2>3, <2>5 DEF TypeOK
  <2>. QED BY <2>3, <2>4, <2>6 DEF IInv
<1>. QED BY <1>2, <1>3

\* The worker has told the owner and takes the next job.
LEMMA TakeNextStep ==
    ASSUME IInv, worker.pc \in {"confirm", "fail"}, TakeNext,
           UNCHANGED <<unanswered, seen, stopping, thread, history, faults>>
    PROVE  IInv'
<1>0. TypeOK /\ Ordered /\ Accounted /\ UNCHANGED <<admitted, forgotten, settled>>
  BY DEF IInv, history
<1>1. /\ jobs' \in Seq(Job) /\ Len(jobs') <= QueueCapacity
      /\ worker' \in [pc : {"wait", "forward", "confirm", "fail"},
                      job : Job \cup {None}, attempt : 0 .. Attempts]
      /\ worker'.pc = "wait" <=> worker'.job = None
      /\ worker'.pc = "wait" => jobs' = <<>>
      /\ Ordered' /\ Received' \subseteq Received
  BY <1>0, NextTaken
<1>2. Accounted'
  BY <1>0, <1>1, NoneAdmitted
<1>3. TypeOK'
  BY <1>0, <1>1 DEF TypeOK
<1>. QED BY <1>1, <1>2, <1>3 DEF IInv

LEMMA ConfirmForwardedStep ==
    ASSUME IInv, NEW known \in BOOLEAN, ConfirmForwarded(known)
    PROVE  IInv'
<1>. USE JobFacts
<1>0. TypeOK /\ Ordered /\ Accounted /\ UNCHANGED <<admitted, forgotten, settled>>
  BY DEF IInv, ConfirmForwarded, history
<1>1. worker.pc = "confirm" /\ UNCHANGED <<unanswered, seen, stopping, thread, history, faults>>
  BY DEF ConfirmForwarded
<1>3. CASE known
  <2>1. TakeNext
    BY <1>3 DEF ConfirmForwarded, AfterConfirm
  <2>. QED BY <1>1, <2>1, TakeNextStep
<1>4. CASE ~known
  <2>1. worker' = [worker EXCEPT !.pc = "fail"] /\ UNCHANGED jobs
    BY <1>4 DEF ConfirmForwarded, AfterConfirm, Telling
  <2>2. /\ worker'.pc = "fail" /\ worker'.job = worker.job
        /\ worker' \in [pc : {"wait", "forward", "confirm", "fail"},
                        job : Job \cup {None}, attempt : 0 .. Attempts]
    BY <1>0, <2>1 DEF TypeOK
  <2>3. Ordered' /\ Received' \subseteq Received
    BY <1>0, <1>1, <2>1, <2>2, WorkerMoves
  <2>4. Accounted'
    BY <1>0, <1>1, <2>3, NoneAdmitted
  <2>5. TypeOK'
    BY <1>0, <1>1, <2>1, <2>2 DEF TypeOK
  <2>. QED BY <2>3, <2>4, <2>5 DEF IInv
<1>. QED BY <1>3, <1>4

LEMMA ConfirmFailedStep ==
    ASSUME IInv, ConfirmFailed
    PROVE  IInv'
<1>1. /\ TypeOK /\ worker.pc = "fail" /\ TakeNext
      /\ UNCHANGED <<unanswered, seen, stopping, thread, history, faults>>
  BY DEF IInv, ConfirmFailed
<1>. QED BY <1>1, TakeNextStep

LEMMA StopStep ==
    ASSUME IInv, Stop
    PROVE  IInv'
<1>1. /\ UNCHANGED <<unanswered, jobs, seen, worker, thread, history>>
      /\ stopping' \in BOOLEAN /\ faults' \in Nat
  BY DEF Stop, Fault, IInv, TypeOK
<1>2. UNCHANGED <<admitted, forgotten, settled>>
  BY <1>1 DEF history
<1>3. TypeOK' /\ Ordered'
  BY <1>1, <1>2 DEF IInv, TypeOK, Ordered, InOrder
<1>4. Accounted'
  BY <1>1, <1>2 DEF IInv, Accounted, Admissions, Received, Remembered, Members, Known
<1>. QED BY <1>3, <1>4 DEF IInv

\* What was in memory is gone: every remembered update has been forgotten.
LEMMA RestartStep ==
    ASSUME IInv, Restart
    PROVE  IInv'
<1>. USE JobFacts
<1>0. TypeOK /\ Ordered /\ Accounted
  BY DEF IInv
<1>1. /\ jobs' = <<>> /\ seen' = <<>> /\ stopping' = FALSE
      /\ worker' = [pc |-> "wait", job |-> None, attempt |-> 0]
      /\ UNCHANGED <<unanswered, thread, admitted>>
      /\ settled' = settled \cup InFlight
      /\ forgotten' \in [Updates -> Nat]
      /\ \A u \in Updates : forgotten'[u] = IF Known(u, seen) THEN forgotten[u] + 1
                                                              ELSE forgotten[u]
  BY <1>0 DEF Restart, Waiting, TypeOK
<1>2. faults' \in Nat
  BY <1>0 DEF Restart, Fault, TypeOK
<1>3. \A job \in Members(jobs) : job \in Job
  BY <1>0 DEF Members
<1>4. worker.job # None => worker.job \in Job
  BY <1>0 DEF TypeOK
<1>5. settled' \subseteq Updates
  BY <1>0, <1>1, <1>3, <1>4 DEF InFlight, TypeOK
<1>6. jobs' \in Seq(Job) /\ seen' \in Seq(Updates) /\ Len(jobs') = 0 /\ Len(seen') = 0
      /\ DOMAIN jobs' = {} /\ Members(jobs') = {} /\ Members(seen') = {}
  BY <1>1, EmptyQueue
<1>7. 0 \in 0 .. Attempts /\ QueueCapacity \in Nat /\ DedupeCapacity \in Nat
  BY BridgeAssumption
<1>8. TypeOK'
  <2>1. /\ worker' \in [pc : {"wait", "forward", "confirm", "fail"},
                         job : Job \cup {None}, attempt : 0 .. Attempts]
        /\ worker'.pc = "wait" /\ worker'.job = None /\ stopping' \in BOOLEAN
    BY <1>1, <1>7
  <2>2. Len(jobs') <= QueueCapacity /\ Len(seen') <= DedupeCapacity + 1
    BY <1>6, <1>7
  <2>3. UNCHANGED <<unanswered, thread, admitted>>
    BY <1>1
  <2>4. jobs' = <<>> /\ forgotten' \in [Updates -> Nat]
    BY <1>1
  <2>. QED BY <1>0, <1>2, <1>5, <1>6, <2>1, <2>2, <2>3, <2>4 DEF TypeOK
<1>9. Ordered'
  BY <1>0, <1>1, <1>6 DEF Ordered, InOrder
<1>10. Received' \subseteq Received
  BY <1>1, <1>6 DEF Received, Members
<1>11. ASSUME NEW u \in Updates
       PROVE  /\ IsFiniteSet(Admissions(u)')
              /\ Cardinality(Admissions(u)') <= Remembered(u)' + forgotten'[u]
  <2>1. Admissions(u)' \subseteq Admissions(u)
    BY <1>10 DEF Admissions
  <2>2. IsFiniteSet(Admissions(u)) /\ Cardinality(Admissions(u)) <= Remembered(u) + forgotten[u]
    BY <1>0 DEF Accounted
  <2>3. forgotten[u] \in Nat /\ Remembered(u)' + forgotten'[u] = Remembered(u) + forgotten[u]
    BY <1>0, <1>1, <1>6 DEF Remembered, Known, TypeOK
  <2>4. Remembered(u) \in Nat
    BY DEF Remembered
  <2>. HIDE DEF Admissions, Remembered
  <2>. QED BY <2>1, <2>2, <2>3, <2>4, Smaller
<1>12. Accounted'
  BY <1>11 DEF Accounted
<1>. QED BY <1>8, <1>9, <1>12 DEF IInv

----------------------------------------------------------------------------
(* The invariant *)

LEMMA Started == Init => IInv
<1>. SUFFICES ASSUME Init PROVE IInv
  OBVIOUS
<1>1. /\ jobs = <<>> /\ seen = <<>> /\ thread = <<>> /\ admitted = 0
      /\ worker = [pc |-> "wait", job |-> None, attempt |-> 0]
      /\ unanswered = Updates /\ stopping = FALSE /\ settled = {} /\ faults = MaxFaults
      /\ forgotten = [u \in Updates |-> 0]
  BY DEF Init, Waiting
<1>2. /\ jobs \in Seq(Job) /\ seen \in Seq(Updates) /\ thread \in Seq(Job)
      /\ Len(jobs) = 0 /\ Len(seen) = 0
      /\ DOMAIN jobs = {} /\ DOMAIN thread = {} /\ Members(jobs) = {} /\ Members(thread) = {}
  BY <1>1, EmptyQueue
<1>3. 0 \in 0 .. Attempts /\ QueueCapacity \in Nat /\ DedupeCapacity \in Nat /\ MaxFaults \in Nat
  BY BridgeAssumption
<1>4. TypeOK
  <2>1. /\ worker \in [pc : {"wait", "forward", "confirm", "fail"},
                        job : Job \cup {None}, attempt : 0 .. Attempts]
        /\ worker.pc = "wait" /\ worker.job = None /\ stopping \in BOOLEAN
    BY <1>1, <1>3
  <2>2. Len(jobs) <= QueueCapacity /\ Len(seen) <= DedupeCapacity + 1
    BY <1>2, <1>3
  <2>3. /\ forgotten \in [Updates -> Nat] /\ settled \subseteq Updates /\ faults \in Nat
        /\ unanswered \subseteq Updates /\ admitted \in Nat /\ jobs = <<>>
    BY <1>1, <1>3
  <2>. QED BY <1>2, <2>1, <2>2, <2>3 DEF TypeOK
<1>5. Ordered
  BY <1>1, <1>2 DEF Ordered, InOrder
<1>6. \A u \in Updates : Admissions(u) = {} /\ Remembered(u) \in Nat /\ forgotten[u] = 0
  BY <1>1, <1>2 DEF Admissions, Received, Remembered
<1>7. Accounted
  BY <1>6, FS_EmptySet DEF Accounted
<1>. QED BY <1>4, <1>5, <1>7 DEF IInv

LEMMA Inductive == IInv /\ [Next]_vars => IInv'
<1>. SUFFICES ASSUME IInv, [Next]_vars PROVE IInv'
  OBVIOUS
<1>1. ASSUME NEW u \in Updates, Webhook(u) PROVE IInv'
  BY <1>1, WebhookStep
<1>2. CASE Work
  BY <1>2, ForwardedStep, AttemptFailsStep, ConfirmForwardedStep, ConfirmFailedStep DEF Work
<1>3. CASE Stop
  BY <1>3, StopStep
<1>4. CASE Restart
  BY <1>4, RestartStep
<1>5. CASE UNCHANGED vars
  <2>1. UNCHANGED <<unanswered, jobs, seen, stopping, worker, thread, admitted, forgotten,
                    settled, faults>>
    BY <1>5 DEF vars, memory, history
  <2>2. TypeOK' /\ Ordered'
    BY <2>1 DEF IInv, TypeOK, Ordered, InOrder
  <2>3. Accounted'
    BY <2>1 DEF IInv, Accounted, Admissions, Received, Remembered, Members, Known
  <2>. QED BY <2>2, <2>3 DEF IInv
<1>. QED BY <1>1, <1>2, <1>3, <1>4, <1>5 DEF Next

\* The invariant of the bridge: the variables have their types, admission numbers
\* grow from the thread to the end of the queue, and an update was admitted
\* again only after it had been forgotten.
THEOREM BridgeInvariance == Spec => []IInv
BY Started, Inductive, PTL DEF Spec

\* TypeOK for every instance: the queue and the memory of ids never outgrow their
\* capacities, and a worker that waits has an empty queue.
THEOREM TypeCorrectness == Spec => []TypeOK
BY BridgeInvariance, PTL DEF IInv

\* InOrder for every instance: the thread receives every admission at most once
\* and in the order of admission, whatever fails or is repeated.
THEOREM AdmittedOrder == Spec => []InOrder
<1>1. IInv => InOrder
  BY DEF IInv, Ordered
<1>. QED BY <1>1, BridgeInvariance, PTL

\* Places of the thread and admissions that are there correspond to each other.
LEMMA PlacesCounted ==
    ASSUME IInv, NEW u \in Updates
    PROVE  Cardinality({i \in DOMAIN thread : thread[i].update = u}) <= 1 + forgotten[u]
<1>. DEFINE places == {i \in DOMAIN thread : thread[i].update = u}
            f == [i \in places |-> thread[i]]
<1>1. TypeOK /\ Ordered /\ InOrder
  BY DEF IInv, Ordered
<1>2. IsFiniteSet(Admissions(u)) /\ Cardinality(Admissions(u)) <= Remembered(u) + forgotten[u]
  BY DEF IInv, Accounted
<1>3. \A i \in places : thread[i] \in Admissions(u)
  BY DEF Admissions, Received, Members
<1>4. \A i, j \in places : thread[i] = thread[j] => i = j
  <2>. SUFFICES ASSUME NEW i \in places, NEW j \in places, i < j
                PROVE  thread[i] # thread[j]
    BY <1>1, JobFacts
  <2>1. thread[i].number < thread[j].number /\ thread[i].number \in Nat /\ thread[j].number \in Nat
    BY <1>1, JobFacts DEF InOrder
  <2>. QED BY <2>1
<1>5. f \in Injection(places, Admissions(u))
  BY <1>3, <1>4 DEF Injection, IsInjective
<1>6. IsFiniteSet(places) /\ Cardinality(places) <= Cardinality(Admissions(u))
  BY <1>2, <1>5, FS_Injection
<1>7. Cardinality(places) \in Nat /\ Cardinality(Admissions(u)) \in Nat
  BY <1>2, <1>6, FS_CardinalityType
<1>8. Remembered(u) \in 0 .. 1 /\ forgotten[u] \in Nat
  BY <1>1 DEF Remembered, TypeOK
<1>. HIDE DEF places
<1>9. Cardinality(places) <= 1 + forgotten[u]
  BY <1>2, <1>6, <1>7, <1>8
<1>. QED BY <1>9 DEF places

\* AtMostOnce for every instance: an update is in the thread once more than the
\* bridge has forgotten it, at the most.
THEOREM ForwardedOnce == Spec => []AtMostOnce
<1>1. IInv => AtMostOnce
  BY PlacesCounted DEF AtMostOnce
<1>. QED BY <1>1, BridgeInvariance, PTL
============================================================================
