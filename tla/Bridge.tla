------------------------------- MODULE Bridge -------------------------------
(***************************************************************************)
(* The Telegram bridge, integrations/telegram-bridge/src: a webhook admits *)
(* updates to a bounded queue in memory, from which one worker forwards    *)
(* them to an Amp thread and tells the owner how that went.                *)
(*                                                                         *)
(* Telegram delivers an update until it is answered with success.  The     *)
(* queue and the memory of update ids do not survive a restart.  Payloads, *)
(* the rate limit, the media store and the reminder tool are left out, and *)
(* so is what the owner reads of it.                                       *)
(***************************************************************************)
EXTENDS Integers, Sequences, FiniteSets

CONSTANTS
    Updates,            \* updates the owner sends
    QueueCapacity,      \* QUEUE_CAPACITY
    DedupeCapacity,     \* DEDUPE_CAPACITY
    Attempts,           \* how often a call is tried
    Hazards,            \* which faults this instance admits
    MaxFaults,          \* bound: how many of them happen
    None

\* A job, with the number of its admission.
Job == [update : Updates, number : Nat]

ASSUME BridgeAssumption ==
    /\ QueueCapacity \in Nat \ {0}
    /\ DedupeCapacity \in Nat /\ QueueCapacity < DedupeCapacity
    /\ Attempts \in Nat \ {0}
    /\ MaxFaults \in Nat
    /\ None \notin Updates /\ None \notin Job

VARIABLES
    unanswered,     \* updates Telegram keeps delivering
    jobs,           \* the queue
    seen,           \* remembered update ids, oldest first
    stopping,       \* the queue has been told to stop
    worker,         \* the loop of run and the call it is in
    thread,         \* what the Amp thread has received
    admitted,       \* history: how many updates were admitted
    forgotten,      \* history: how often each update was forgotten
    settled,        \* history: updates forwarded, given up, or lost by a restart
    faults

memory == <<jobs, seen, stopping, worker>>
history == <<admitted, forgotten, settled>>
vars == <<unanswered, memory, thread, history, faults>>

Waiting == [pc |-> "wait", job |-> None, attempt |-> 0]

Fault(kind) == kind \in Hazards /\ faults > 0 /\ faults' = faults - 1

Members(s) == {s[i] : i \in DOMAIN s}
From(s, n) == SubSeq(s, n + 1, Len(s))

----------------------------------------------------------------------------
(* The webhook *)

\* prune drops the oldest ids: the first `expired` are past their time, and
\* more go while there are too many.
Kept(expired) ==
    From(seen, IF Len(seen) - DedupeCapacity > expired
               THEN Len(seen) - DedupeCapacity ELSE expired)

\* Mutant of Known: only the queue is looked at.
Queued(u, ids) == \E job \in Members(jobs) : job.update = u

Known(u, ids) == u \in Members(ids)

Full == stopping \/ Len(jobs) >= QueueCapacity

StartOn(job) == worker' = [pc |-> "forward", job |-> job, attempt |-> 1]

\* The worker starts on the job if it waits (run).
Enqueue(job) ==
    IF worker.pc = "wait"
    THEN StartOn(job) /\ UNCHANGED jobs
    ELSE jobs' = Append(jobs, job) /\ UNCHANGED worker

\* Mutant of Answered: a full queue is answered with success as well.
AllAnswered(u, success) == unanswered \ {u}

Answered(u, success) == IF success THEN unanswered \ {u} ELSE unanswered

\* enqueue, and the answer of handleWebhook.
Admit(u, expired) ==
    LET ids == Kept(expired) IN
    /\ forgotten' = [v \in Updates |->
          IF Known(v, seen) /\ ~Known(v, ids) THEN forgotten[v] + 1 ELSE forgotten[v]]
    /\ IF Known(u, ids) \/ Full
       THEN seen' = ids /\ UNCHANGED <<jobs, worker, admitted>>
       ELSE /\ seen' = Append(ids, u)
            /\ Enqueue([update |-> u, number |-> admitted + 1])
            /\ admitted' = admitted + 1
    /\ UNCHANGED <<stopping, thread, settled>>

Deliver(u) ==
    /\ u \in unanswered
    /\ Admit(u, 0)
    /\ unanswered' = Answered(u, Known(u, Kept(0)) \/ ~Full)
    /\ UNCHANGED faults

\* The answer is lost, and Telegram will deliver the update again.
LoseAnswer(u) ==
    /\ u \in unanswered
    /\ Fault("answer")
    /\ Admit(u, 0)
    /\ UNCHANGED unanswered

\* The oldest ids are a day old when the update comes.
DeliverLate(u, expired) ==
    /\ u \in unanswered
    /\ Fault("expiry")
    /\ Admit(u, expired)
    /\ unanswered' = Answered(u, Known(u, Kept(expired)) \/ ~Full)

----------------------------------------------------------------------------
(* The worker *)

Receive == thread' = Append(thread, worker.job)

\* Mutant of TakeNext: the newest job goes first.
TakeNewest ==
    IF jobs = <<>>
    THEN worker' = Waiting /\ UNCHANGED jobs
    ELSE /\ StartOn(jobs[Len(jobs)])
         /\ jobs' = SubSeq(jobs, 1, Len(jobs) - 1)

\* The loop takes the next job, or ends.
TakeNext ==
    IF jobs = <<>>
    THEN worker' = Waiting /\ UNCHANGED jobs
    ELSE StartOn(Head(jobs)) /\ jobs' = Tail(jobs)

Settle == settled' = settled \cup {worker.job.update}

Telling(pc) == worker' = [worker EXCEPT !.pc = pc]

\* send: the thread has received the prompt and the run has ended well.
Forwarded ==
    /\ worker.pc = "forward"
    /\ Receive
    /\ Telling("confirm")
    /\ Settle
    /\ UNCHANGED <<unanswered, jobs, seen, stopping, admitted, forgotten, faults>>

\* Mutant of Retriable: an attempt is repeated although Amp had answered.
RetriesAll(sawEvent) == worker.attempt < Attempts

Retriable(sawEvent) == ~sawEvent /\ worker.attempt < Attempts

GivenUp == Telling("fail")

\* An attempt fails; after an event the thread may have received the prompt.
AttemptFails(sawEvent) ==
    /\ worker.pc = "forward"
    /\ (sawEvent /\ Receive) \/ UNCHANGED thread
    /\ IF Retriable(sawEvent)
       THEN worker' = [worker EXCEPT !.attempt = @ + 1] /\ UNCHANGED settled
       ELSE GivenUp /\ Settle
    /\ UNCHANGED <<unanswered, jobs, seen, stopping, admitted, forgotten, faults>>

\* Mutant of AfterConfirm: what throws in confirmForwarded ends the loop.
LoopEnds(known) == IF known THEN TakeNext ELSE worker' = Waiting /\ UNCHANGED jobs

\* The catch of run covers the confirmation as well as the forwarding.
AfterConfirm(known) == IF known THEN TakeNext ELSE Telling("fail") /\ UNCHANGED jobs

\* sendMessage: the owner is told, and the bridge knows that or not.
ConfirmForwarded(known) ==
    /\ worker.pc = "confirm"
    /\ AfterConfirm(known)
    /\ UNCHANGED <<unanswered, seen, stopping, thread, history, faults>>

ConfirmFailed ==
    /\ worker.pc = "fail"
    /\ TakeNext
    /\ UNCHANGED <<unanswered, seen, stopping, thread, history, faults>>

Work ==
    \/ Forwarded
    \/ \E sawEvent \in BOOLEAN : AttemptFails(sawEvent)
    \/ \E known \in BOOLEAN : ConfirmForwarded(known)
    \/ ConfirmFailed

----------------------------------------------------------------------------
(* Shutdown and restart *)

Stop ==
    /\ ~stopping
    /\ Fault("stop")
    /\ stopping' = TRUE
    /\ UNCHANGED <<unanswered, jobs, seen, worker, thread, history>>

InFlight == {job.update : job \in Members(jobs)}
                \cup IF worker.job = None THEN {} ELSE {worker.job.update}

\* The process ends, with whatever it had in memory, and is started again.
Restart ==
    /\ IF stopping THEN UNCHANGED faults ELSE Fault("crash")
    /\ settled' = settled \cup InFlight
    /\ forgotten' = [u \in Updates |->
          IF Known(u, seen) THEN forgotten[u] + 1 ELSE forgotten[u]]
    /\ jobs' = <<>> /\ seen' = <<>> /\ stopping' = FALSE /\ worker' = Waiting
    /\ UNCHANGED <<unanswered, thread, admitted>>

----------------------------------------------------------------------------
(* The specification *)

Init ==
    /\ unanswered = Updates
    /\ jobs = <<>> /\ seen = <<>> /\ stopping = FALSE /\ worker = Waiting
    /\ thread = <<>>
    /\ admitted = 0
    /\ forgotten = [u \in Updates |-> 0]
    /\ settled = {}
    /\ faults = MaxFaults

Webhook(u) ==
    \/ Deliver(u)
    \/ LoseAnswer(u)
    \/ \E expired \in 1 .. Len(seen) : DeliverLate(u, expired)

Next == (\E u \in Updates : Webhook(u)) \/ Work \/ Stop \/ Restart

Spec == Init /\ [][Next]_vars

\* Telegram delivers again what was not answered with success, a promise of the
\* worker is settled within its timeouts, a stopped process is started again.
Fairness ==
    /\ \A u \in Updates : SF_vars(~Full /\ Deliver(u))
    /\ WF_vars(Work)
    /\ WF_vars(stopping /\ Restart)

FairSpec == Spec /\ Fairness

----------------------------------------------------------------------------
(* Properties *)

TypeOK ==
    /\ unanswered \subseteq Updates
    /\ jobs \in Seq(Job) /\ Len(jobs) <= QueueCapacity
    /\ seen \in Seq(Updates) /\ Len(seen) <= DedupeCapacity + 1
    /\ stopping \in BOOLEAN
    /\ worker \in [pc : {"wait", "forward", "confirm", "fail"},
                   job : Job \cup {None}, attempt : 0 .. Attempts]
    /\ worker.pc = "wait" <=> worker.job = None
    /\ worker.pc = "wait" => jobs = <<>>
    /\ thread \in Seq(Job)
    /\ admitted \in Nat /\ forgotten \in [Updates -> Nat]
    /\ settled \subseteq Updates /\ faults \in Nat

\* The thread receives every admission at most once, and in their order: one
\* worker, and no attempt after Amp answered (run, AmpClient.send).
InOrder ==
    \A i, j \in DOMAIN thread : i < j => thread[i].number < thread[j].number

\* An update is in the thread more than once only if the bridge has forgotten
\* it: by a restart, by its age or by its rank (enqueue, prune).
AtMostOnce ==
    \A u \in Updates :
        Cardinality({i \in DOMAIN thread : thread[i].update = u}) <= 1 + forgotten[u]

\* Every update the owner sends is forwarded, given up or lost by a restart, and
\* none is left in a queue that nobody works on (run, handleWebhook). What is
\* settled stays so.
EverySettled == <>(settled = Updates)
=============================================================================
