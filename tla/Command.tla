------------------------------ MODULE Command ------------------------------
(* bounded_output of runtime/templates/runtime_metadata.py, twice: setup    *)
(* runs `git ls-remote` in a session of its own (the outer call), git runs  *)
(* the credential helper, and the helper runs Amp in git's process group    *)
(* (the inner call). Amp may leave a child behind. Each call reads one pipe *)
(* until its end, against a deadline and an output limit, then waits for    *)
(* its child; on any failure it kills. git's session has no terminal, so    *)
(* Ctrl-C reaches setup alone.                                              *)
EXTENDS Naturals, Sequences, FiniteSets

CONSTANTS
  Lines,        \* what Amp may answer, a line at a time ("" is a blank line)
  Requests,     \* what git may ask of the helper
  Maximum       \* of each call: the lines it reads before it gives up

ASSUME CommandAssumption ==
  /\ Lines \subseteq STRING /\ Requests \subseteq Seq(STRING)
  /\ Maximum \in [{"outer", "inner"} -> Nat]

VARIABLES
  proc,     \* of each process: none, running, mute (running with its output
            \* closed), ok or failed (exited), reaped
  pipe,     \* of each call: lines written and not yet read
  call,     \* of each call: where it is, what it read, whether its input is
            \* passed on, and its result
  handed,   \* what the helper wrote to git
  reused,   \* another process group has git's former number
  struck    \* a signal of setup has reached that group

cvars == <<proc, pipe, call, handed, reused, struck>>

Procs == {"git", "helper", "amp", "stray"}
Calls == {"outer", "inner"}
Leader == [outer |-> "git", inner |-> "amp"]
Writers == [outer |-> {"git", "helper"}, inner |-> {"amp", "stray"}]
NewSession(c) == c = "outer"

Running(p) == proc[p] \in {"running", "mute"}
Exited(p) == proc[p] \in {"ok", "failed"}
\* The inner call is a piece of the helper and stops with it.
Acts(c) == c = "outer" \/ Running("helper")
InPhase(c, phase) == call[c].at = phase /\ Acts(c)
GroupEmpty == \A p \in Procs : ~Running(p)
Open(c) == {p \in Writers[c] : proc[p] = "running"}
StdinOpen(c) == c = "inner" /\ ~call[c].sent

----------------------------------------------------------------------------
(* The credential protocol: keys only, a line without a value is no key.    *)

Responded == {"username", "password", "password_expiry_utc", "oauth_refresh_token"}
Repeated == {"capability[]", "wwwauth[]", "state[]"}
Requested == Responded \cup Repeated \cup {"url", "protocol", "host", "path"}

ValidCredentialProtocol(lines, response) ==
  LET Blank == {i \in DOMAIN lines : lines[i] = ""}
      Keys == {i \in DOMAIN lines : \A b \in Blank : i < b}
  IN /\ \A i \in DOMAIN lines \ Keys : lines[i] = ""
     /\ \A i \in Keys :
          /\ lines[i] \in IF response THEN Responded ELSE Requested
          /\ \A j \in Keys : i # j /\ lines[i] = lines[j] => lines[i] \in Repeated
     /\ response => {"username", "password"} \subseteq {lines[i] : i \in Keys}

\* What the helper accepts from Amp: an answer to get, nothing otherwise.
Accepted(operation, output) ==
  IF operation = "get" THEN ValidCredentialProtocol(output, TRUE)
  ELSE \A i \in DOMAIN output : output[i] = ""

----------------------------------------------------------------------------
(* Signals.                                                                 *)

\* SIGKILL to git's group: everything in it dies; git stays a zombie of setup.
Killed == [p \in Procs |-> IF proc[p] = "none" THEN "none"
                           ELSE IF p # "git" THEN "reaped"
                           ELSE IF Running(p) THEN "failed" ELSE proc[p]]
KillGroup(leader) ==
  /\ proc' = [Killed EXCEPT !["git"] = leader]
  /\ struck' = (struck \/ reused)
  /\ pipe' = [c \in Calls |-> <<>>]

----------------------------------------------------------------------------
(* bounded_output.                                                          *)

Off == [at |-> "off", got |-> <<>>, sent |-> FALSE, swept |-> FALSE,
        result |-> "none"]
\* Popen has returned; the `try` that cleans up comes later.
Started == [Off EXCEPT !.at = "started"]
Moved(c, phase) == call' = [call EXCEPT ![c].at = phase]
\* What was read counts only when the call succeeds.
Failed(c, why) ==
  call' = [call EXCEPT ![c].at = "finally", ![c].result = why,
                       ![c].got = IF why = "ok" THEN call[c].got ELSE <<>>]

\* From here on a failure cleans up.
EnterTry(c) ==
  /\ InPhase(c, "started")
  /\ Moved(c, "loop")
  /\ UNCHANGED <<proc, pipe, struck>>

\* The deadline, which may pass at any time: the head of the loop finds it, or
\* select returns nothing.
LoopTimeout(c) ==
  /\ InPhase(c, "loop")
  /\ Failed(c, "failed")
  /\ UNCHANGED <<proc, pipe, struck>>

ReadChunk(c) ==
  /\ InPhase(c, "loop") /\ pipe[c] # <<>>
  /\ LET got == Append(call[c].got, Head(pipe[c])) IN
     call' = IF Len(got) > Maximum[c]
             THEN [call EXCEPT ![c].at = "finally", ![c].result = "failed", ![c].got = <<>>]
             ELSE [call EXCEPT ![c].got = got]
  /\ pipe' = [pipe EXCEPT ![c] = Tail(@)]
  /\ UNCHANGED <<proc, struck>>

\* Mutant: the output is taken to end with the program that was called.
MutLeaderGone(c) == pipe[c] = <<>> /\ ~Running(Leader[c])

\* The end of the output: every writer has closed its end or is gone.
EndOfOutput(c) == pipe[c] = <<>> /\ Open(c) = {}

ReadEnd(c) ==
  /\ InPhase(c, "loop") /\ EndOfOutput(c)
  /\ Moved(c, IF NewSession(c) THEN "probe" ELSE "wait")
  /\ UNCHANGED <<proc, pipe, struck>>

\* All of the input, or none of it if its reader is gone (BrokenPipeError).
WriteInput(c) ==
  /\ InPhase(c, "loop") /\ StdinOpen(c)
  /\ call' = [call EXCEPT ![c].sent = TRUE]
  /\ UNCHANGED <<proc, pipe, struck>>

\* Mutant: waitpid in the place of waitid with WNOWAIT.
MutProbeReaps(c) ==
  /\ InPhase(c, "probe") /\ Exited(Leader[c])
  /\ Moved(c, "kill")
  /\ proc' = [proc EXCEPT ![Leader[c]] = "reaped"]
  /\ UNCHANGED <<pipe, struck>>

\* waitid with WNOWAIT: the leader has exited and keeps its number.
ProbeExit(c) ==
  /\ InPhase(c, "probe") /\ Exited(Leader[c])
  /\ Moved(c, "kill")
  /\ UNCHANGED <<proc, pipe, struck>>

\* Mutant: a child that closed its output is waited for without a deadline.
MutProbeForever(c) == FALSE /\ UNCHANGED <<proc, pipe, struck>>

\* If the deadline passes between its test and the sleep, the sleep is negative
\* and raises ValueError where the timeout was meant: a failure all the same.
ProbeTimeout(c) ==
  /\ InPhase(c, "probe") /\ Running(Leader[c])
  /\ Failed(c, "failed")
  /\ UNCHANGED <<proc, pipe, struck>>

\* Mutant: the group is not swept after its leader ended.
MutNoSweep(c) ==
  /\ InPhase(c, "kill")
  /\ Moved(c, "mark")
  /\ UNCHANGED <<proc, pipe, struck>>

KillRest(c) ==
  /\ InPhase(c, "kill")
  /\ KillGroup(Killed["git"])
  /\ call' = [inner |-> Off, outer |-> [call[c] EXCEPT !.at = "mark"]]

\* group_cleaned = True
MarkCleaned(c) ==
  /\ InPhase(c, "mark")
  /\ call' = [call EXCEPT ![c].at = "wait", ![c].swept = TRUE]
  /\ UNCHANGED <<proc, pipe, struck>>

Wait(c) ==
  /\ InPhase(c, "wait")
  /\ \/ /\ Exited(Leader[c])
        /\ Failed(c, IF proc[Leader[c]] = "ok" THEN "ok" ELSE "failed")
        /\ proc' = [proc EXCEPT ![Leader[c]] = "reaped"]
     \/ /\ Running(Leader[c])      \* TimeoutExpired
        /\ Failed(c, "failed")
        /\ UNCHANGED proc
  /\ UNCHANGED <<pipe, struck>>

\* finally: the group if it is ours and was not swept ...
FinallyGroup(c) ==
  /\ InPhase(c, "finally") /\ NewSession(c) /\ ~call[c].swept
  /\ KillGroup(Killed["git"])
  /\ call' = [inner |-> Off, outer |-> [call[c] EXCEPT !.swept = TRUE]]

\* ... else the child alone, which is collected in either case.
FinallyChild(c) ==
  /\ InPhase(c, "finally") /\ (~NewSession(c) \/ call[c].swept)
  /\ proc' = [proc EXCEPT ![Leader[c]] = "reaped"]
  /\ Moved(c, "done")
  /\ UNCHANGED <<pipe, struck>>

\* The outer call is left at once, with its group killed or abandoned.
Left ==
  call' = [call EXCEPT !["outer"].at = "done", !["outer"].got = <<>>,
                       !["outer"].result = IF call["outer"].swept THEN "failed"
                                           ELSE "abandoned"]

\* Ctrl-C unwinds the outer call through its finally, unless it comes before
\* the try or in the finally itself.
Interrupt ==
  /\ \/ /\ call["outer"].at \in {"loop", "probe", "kill", "mark", "wait"}
        /\ Failed("outer", "failed")
     \/ call["outer"].at \in {"started", "finally"} /\ Left
  /\ UNCHANGED <<proc, pipe, handed, reused, struck>>

CStep(c) ==
  /\ \/ EnterTry(c) \/ LoopTimeout(c) \/ ReadChunk(c) \/ ReadEnd(c) \/ WriteInput(c)
     \/ ProbeExit(c) \/ ProbeTimeout(c) \/ KillRest(c) \/ MarkCleaned(c) \/ Wait(c)
     \/ FinallyGroup(c) \/ FinallyChild(c)
  /\ UNCHANGED <<handed, reused>>

----------------------------------------------------------------------------
(* The helper, and the processes around it.                                 *)

\* git starts the helper; a malformed request ends it before Amp is started.
GitAsks ==
  /\ Running("git") /\ proc["helper"] = "none"
  /\ \E request \in Requests :
       IF ValidCredentialProtocol(request, FALSE)
       THEN /\ proc' = [proc EXCEPT !["helper"] = "running", !["amp"] = "running"]
            /\ call' = [call EXCEPT !["inner"] = Started]
       ELSE proc' = [proc EXCEPT !["helper"] = "reaped"] /\ UNCHANGED call
  /\ UNCHANGED <<pipe, handed, reused, struck>>

HelperEnds ==
  /\ Running("helper") /\ call["inner"].at = "done"
  /\ proc' = [proc EXCEPT !["helper"] = "reaped"]
  /\ \E operation \in {"get", "store", "erase"} :
       handed' = IF call["inner"].result = "ok" /\ Accepted(operation, call["inner"].got)
                 THEN call["inner"].got ELSE <<>>
  /\ UNCHANGED <<pipe, call, reused, struck>>

Write(c) ==
  /\ Open(c) # {} /\ pipe[c] = <<>> /\ call[c].at \in {"started", "loop"}
  /\ \E line \in IF c = "inner" THEN Lines ELSE {"ref"} :
       pipe' = [pipe EXCEPT ![c] = <<line>>]
  /\ UNCHANGED <<proc, call, handed, reused, struck>>

\* Amp may leave one child behind.
AmpForks ==
  /\ Running("amp") /\ proc["stray"] = "none"
  /\ \E output \in {proc["amp"], "mute"} : proc' = [proc EXCEPT !["stray"] = output]
  /\ UNCHANGED <<pipe, call, handed, reused, struck>>

CloseOutput ==
  /\ \E p \in {"git", "amp"} :
       proc[p] = "running" /\ proc' = [proc EXCEPT ![p] = "mute"]
  /\ UNCHANGED <<pipe, call, handed, reused, struck>>

Exit ==
  /\ \/ \E p \in {"git", "amp"}, status \in {"ok", "failed"} :
          Running(p) /\ proc' = [proc EXCEPT ![p] = status]
     \/ Running("stray") /\ proc' = [proc EXCEPT !["stray"] = "reaped"]
  /\ UNCHANGED <<pipe, call, handed, reused, struck>>

\* A number is free again once its process is reaped and its group is empty.
NumberReused ==
  /\ proc["git"] = "reaped" /\ GroupEmpty /\ ~reused
  /\ reused' = TRUE
  /\ UNCHANGED <<proc, pipe, call, handed, struck>>

----------------------------------------------------------------------------
CInit ==
  /\ proc = [p \in Procs |-> IF p = "git" THEN "running" ELSE "none"]
  /\ pipe = [c \in Calls |-> <<>>]
  /\ call = [c \in Calls |-> IF c = "outer" THEN Started ELSE Off]
  /\ handed = <<>> /\ reused = FALSE /\ struck = FALSE

CNext ==
  \/ \E c \in Calls : CStep(c) \/ Write(c)
  \/ Interrupt \/ GitAsks \/ HelperEnds \/ AmpForks \/ CloseOutput \/ Exit
  \/ NumberReused

CSpec == CInit /\ [][CNext]_cvars

\* A caller that is alive takes its next step, the passing of its deadline if
\* there is no other; nothing is assumed of the programs that are called.
CFairness == \A c \in Calls : WF_cvars(CStep(c))
CFairSpec == CSpec /\ CFairness

----------------------------------------------------------------------------
Phases == {"off", "started", "loop", "probe", "kill", "mark", "wait", "finally", "done"}

Output == Lines \cup {"ref"}
CallStates == [at : Phases, got : Seq(Output), sent : BOOLEAN, swept : BOOLEAN,
               result : {"none", "ok", "failed", "abandoned"}]

CTypeOK ==
  /\ proc \in [Procs -> {"none", "running", "mute", "ok", "failed", "reaped"}]
  /\ pipe \in [Calls -> Seq(Output)]
  /\ call \in [Calls -> CallStates]
  /\ \A c \in Calls : Len(call[c].got) <= Maximum[c]
  /\ reused \in BOOLEAN /\ struck \in BOOLEAN

\* Once the outer call has returned, with a result or a failure, no process
\* it caused is running: not the helper, not Amp, not what Amp left behind,
\* although the helper itself only kills Amp (the two branches of finally).
\* The exception is Ctrl-C between Popen and the try, or in the finally before
\* its killpg: nothing in the code then ends the group.
NoSurvivors ==
  call["outer"].at = "done" /\ call["outer"].result # "abandoned" => GroupEmpty

\* No signal reaches a process group that setup did not start: the number of
\* the group is held by an unreaped leader whenever killpg is called.
OnlyOwnGroup == ~struck

\* One user name and one password, and no key twice.
OneCredential(lines) ==
  /\ {"username", "password"} \subseteq {lines[i] : i \in DOMAIN lines}
  /\ \A i, j \in DOMAIN lines : i # j /\ lines[i] = lines[j] => lines[i] = ""

\* Nothing is left to be read from Amp, and nobody left to say more.
Drained == pipe["inner"] = <<>> /\ Open("inner") = {}

\* git is handed an answer only if it is all that Amp, or anything Amp left
\* behind, can ever say, if Amp ended well, and if it is one user name and one
\* password or nothing: neither an early end of reading nor a second key gets
\* through.
AnswerIsWhole ==
  handed # <<>> =>
    /\ Drained
    /\ OneCredential(handed) \/ \A i \in DOMAIN handed : handed[i] = ""

\* Every call ends, or ends with its caller, whatever the called program does:
\* flood or close its output, ignore its input, leave children, never exit.
Returns ==
  \A c \in Calls :
    call[c].at # "off" ~> (call[c].at = "done" \/ ~Acts(c))
=============================================================================
