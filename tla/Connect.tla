------------------------------ MODULE Connect ------------------------------
(***************************************************************************)
(* How a command of kb gets its connection to the database, in             *)
(* lib/database.ml (with_remote_connection): it resolves the hosts of the  *)
(* URL, races connections to their addresses, one started after the other, *)
(* and starts over after a failure that may pass.  What the winner is used *)
(* for is the matter of the modules that extend this one.                  *)
(*                                                                         *)
(* Of time only this is kept: a look at the clock may find that the        *)
(* deadline of all attempts has passed, and the wait between two launches  *)
(* may end at any time.  A host has one address.  What a failed command    *)
(* reports is left out.                                                    *)
(***************************************************************************)
EXTENDS Naturals, FiniteSets

CONSTANTS
  Clients,   \* processes
  Hosts,     \* how many hosts the URL names
  MaxRounds, \* 4 in the code
  Hazards,   \* kinds of faults that happen
  MaxFaults  \* how many

ASSUME ConnectAssumption == {Hosts, MaxRounds, MaxFaults} \subseteq Nat \ {0}

VARIABLES
  conn,    \* the attempts of each client
  sockets, \* its open connections, by their number in the race
  faults   \* faults that may still happen

cvars == <<conn, sockets, faults>>

Fault(kind) == kind \in Hazards /\ faults > 0 /\ faults' = faults - 1

At(c, pc) == conn[c].pc = pc

\* The connections of a race have the numbers of their launches.  `pending` and
\* `opened` are those of race_remote_connections: the status of what is polled,
\* or "none", and what is to be closed in the end.
Closed ==
    [pc |-> "idle", round |-> 1, found |-> 0, launched |-> 0,
     pending |-> [id \in 1 .. Hosts |-> "none"], opened |-> {}]

Set(c, state) == conn' = [conn EXCEPT ![c] = state]

\* The end, with or without a connection: what is open is closed.
Quit(c) ==
    /\ Set(c, Closed)
    /\ sockets' = [sockets EXCEPT ![c] = @ \ conn[c].opened]

----------------------------------------------------------------------------
(* Resolving the hosts *)

\* with_remote_connection
Dial(c) ==
    /\ At(c, "idle")
    /\ Set(c, [Closed EXCEPT !.pc = "resolve"])
    /\ UNCHANGED <<sockets, faults>>

\* resolve_targets: resolve_host runs getaddrinfo in a child that writes to a
\* pipe, and kills and collects it before it returns.
ResolveTargets(c) ==
    /\ At(c, "resolve")
    /\ Set(c, [conn[c] EXCEPT !.pc = "advance", !.found = Hosts])
    /\ UNCHANGED <<sockets, faults>>

\* Children fail or are too late, and the other hosts have to do.  Without any
\* address, or with too many, the command fails.
SomeUnresolved(c, found) ==
    /\ At(c, "resolve") /\ Fault("resolve")
    /\ IF found = 0 THEN Quit(c)
       ELSE Set(c, [conn[c] EXCEPT !.pc = "advance", !.found = found]) /\ UNCHANGED sockets

----------------------------------------------------------------------------
(* race_remote_connections *)

With(c, statuses) == {id \in 1 .. Hosts : conn[c].pending[id] \in statuses}

Pending(c) == With(c, {"polling", "ok", "broken", "refused"})

Decisive(c) == With(c, {"ok", "refused"})

\* Mutant of Forget: the winner stays on the list of those to be closed.
Listed(opened, winner) == opened

Forget(opened, winner) == opened \ {winner}

\* `inspect` and the `finally` of the race: close_all.
Win(c, winner) ==
    /\ Set(c, [Closed EXCEPT !.pc = "use", !.opened = {winner}])
    /\ sockets' = [sockets EXCEPT ![c] = @ \ Forget(conn[c].opened, winner)]

Another(c) == conn[c].round < MaxRounds

\* The race ends with a failure that may pass: another round, after a pause.
EndRound(c) ==
    IF Another(c)
    THEN /\ Set(c, [Closed EXCEPT !.pc = "resolve", !.round = conn[c].round + 1])
         /\ sockets' = [sockets EXCEPT ![c] = @ \ conn[c].opened]
    ELSE Quit(c)

\* inspect: the first that is established or refused decides the race, and
\* those that failed are closed.
Decided(c, id) ==
    IF conn[c].pending[id] = "ok" THEN Win(c, id) ELSE Quit(c)

Undecided(c) ==
    /\ Set(c, [conn[c] EXCEPT
                 !.pc = "advance",
                 !.pending = [id \in 1 .. Hosts |-> IF @[id] = "polling" THEN @[id] ELSE "none"],
                 !.opened = @ \ With(c, {"broken"})])
    /\ sockets' = [sockets EXCEPT ![c] = @ \ With(c, {"broken"})]

Inspect(c) ==
    /\ At(c, "inspect")
    /\ \/ \E id \in Decisive(c) : (\A other \in Decisive(c) : id <= other) /\ Decided(c, id)
       \/ Decisive(c) = {} /\ Undecided(c)
    /\ UNCHANGED faults

\* `inspect` does nothing here: no status has changed since the last time.
\* The next connection is started at once if none is pending, and otherwise
\* when the pause after the last launch is over.
Launch(c) ==
    /\ At(c, "advance") /\ conn[c].launched < conn[c].found
    /\ LET id == conn[c].launched + 1 IN
       /\ Set(c, [conn[c] EXCEPT !.launched = id, !.opened = @ \cup {id},
                    !.pending[id] = "polling"])
       /\ sockets' = [sockets EXCEPT ![c] = @ \cup {id}]
    /\ UNCHANGED faults

LaunchFails(c) ==
    /\ At(c, "advance") /\ conn[c].launched < conn[c].found
    /\ Fault("connect")
    /\ \/ Set(c, [conn[c] EXCEPT !.launched = @ + 1]) /\ UNCHANGED sockets
       \/ Quit(c)

\* Nothing is pending and nothing left to start.
Exhausted(c) ==
    /\ At(c, "advance") /\ conn[c].launched = conn[c].found /\ Pending(c) = {}
    /\ EndRound(c) /\ UNCHANGED faults

\* select and connect_poll: connections are established, and others fail or are
\* refused.
Poll(c, good, bad, status) ==
    /\ At(c, "advance")
    /\ good \cup bad # {}
    /\ IF bad = {} THEN UNCHANGED faults ELSE Fault("connect")
    /\ Set(c, [conn[c] EXCEPT !.pc = "inspect",
                 !.pending = [id \in 1 .. Hosts |->
                     IF id \in good THEN "ok" ELSE IF id \in bad THEN status ELSE @[id]]])
    /\ UNCHANGED sockets

\* The deadline has passed: when it is looked at, or when a wait ends.
TooLate(c) ==
    /\ conn[c].pc \in {"resolve", "inspect", "advance"} /\ Fault("time") /\ Quit(c)

Disconnected ==
    /\ conn = [c \in Clients |-> Closed] /\ sockets = [c \in Clients |-> {}]
    /\ faults = MaxFaults

\* A step of the client itself.
Progress(c) ==
    \/ ResolveTargets(c) \/ Inspect(c) \/ Launch(c) \/ Exhausted(c)
    \/ \E good \in SUBSET Pending(c) : Poll(c, good, {}, "ok")

Setback(c) ==
    \/ \E found \in 0 .. Hosts - 1 : SomeUnresolved(c, found)
    \/ LaunchFails(c) \/ TooLate(c)
    \/ \E good \in SUBSET Pending(c) : \E bad \in SUBSET (Pending(c) \ good) \ {{}} :
           \E status \in {"broken", "refused"} : Poll(c, good, bad, status)

\* A command that is not using a connection has none left, and one that is has
\* the winner of the race and no other: the losers are closed, the winner is not
\* (race_remote_connections, protect_connection).
OneSession ==
    \A c \in Clients :
        /\ At(c, "idle") => sockets[c] = {}
        /\ At(c, "use")  => Cardinality(sockets[c]) = 1 /\ sockets[c] = conn[c].opened
=============================================================================
