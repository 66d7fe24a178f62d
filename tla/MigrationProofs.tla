-------------------------- MODULE MigrationProofs --------------------------
(***************************************************************************)
(* What `kb database migrate` guarantees, for every number of clients,     *)
(* hosts, attempts and migrations, every fault and every program that      *)
(* changes the ledger beside it: a command never leaks a connection, and   *)
(* the committed ledger tells which migrations the schema has.             *)
(***************************************************************************)
EXTENDS Migration, FiniteSetTheorems, SequenceTheorems, TLAPS

----------------------------------------------------------------------------
(* The inductive invariant *)

\* What is open is on the list of what is to be closed, and what is polled is
\* open: this is why closing the list closes everything.
Linked ==
    \A c \in Clients :
        /\ sockets[c] = conn[c].opened
        /\ \A id \in 1 .. Hosts : conn[c].pending[id] # "none" => id \in conn[c].opened
        /\ At(c, "idle") => conn[c].opened = {}
        /\ At(c, "use") => \E id \in 1 .. Hosts : conn[c].opened = {id}

\* The lock of the ledger's table excludes other commands and other programs,
\* also where the table is only about to be created.
Excluded ==
    /\ \A c, d \in Clients : /\ tx[c].locked /\ tx[d].locked => c = d
                             /\ tx[c].made /\ tx[d].made => c = d
    /\ \A c \in Clients : /\ tx[c].made => db.ledger = None /\ other = None
                          /\ tx[c].locked => other = None /\ There(c)

\* A transaction belongs to a command that uses its connection, or is over for
\* its client, and reads the ledger under the lock only.
Ready(t, pc) ==
    /\ IsPrefix(t.repo, All)
    /\ pc # "idle" => t.repo # <<>>
    /\ t.pc \notin {"none", "gone"} => pc = "use"
    /\ t.pc = "gone" => pc = "idle"
    /\ t.pc \in {"validate", "apply"} => t.locked

Staged == \A c \in Clients : Ready(tx[c], conn[c].pc)

\* Whether a ledger without rows, or with the rows of some migrations, tells
\* what a schema is.
Telling(rows, schema) ==
    IF rows = <<>> THEN schema \subseteq {Baseline} ELSE schema = ToSet(rows)

\* What a transaction is about to commit is consistent after each migration.
Consistent(t) ==
    t.pc = "apply" =>
        /\ t.view \in Views
        /\ IsPrefix(t.view.ledger.rows, t.repo)
        /\ ~tampered => Telling(t.view.ledger.rows, t.view.schema)

Viewed == \A c \in Clients : Consistent(tx[c])

IInv == TypeOK /\ Linked /\ Excluded /\ Staged /\ Viewed /\ LedgerTellsSchema

----------------------------------------------------------------------------
(* Sequences of migrations *)

LEMMA PrefixEntries ==
    ASSUME NEW s \in Seq(Names), NEW t \in Seq(Names)
    PROVE  IsPrefix(s, t) <=> /\ Len(s) <= Len(t)
                              /\ \A i \in 1 .. Len(s) : s[i] = t[i]
<1>1. Len(s) \in Nat /\ Len(t) \in Nat
  BY LenProperties
<1>2. SubSeq(s, 1, Len(s)) = s
  BY SubSeqFull
<1>3. ASSUME Len(s) <= Len(t)
      PROVE  /\ SubSeq(t, 1, Len(s)) \in Seq(Names)
             /\ Len(SubSeq(t, 1, Len(s))) = Len(s)
             /\ \A i \in 1 .. Len(s) : SubSeq(t, 1, Len(s))[i] = t[i]
  <2>1. \A i \in 1 .. Len(s) : i \in 1 .. Len(t)
    BY <1>1, <1>3
  <2>2. t \in Seq(Names) /\ 1 .. Len(t) = DOMAIN t
    BY LenProperties
  <2>3. \A i \in 1 .. Len(s) : t[i] \in Names
    BY <2>1, ElementOfSeq
  <2> QED
    BY <1>1, <1>3, <2>1, <2>3, SubSeqProperties
<1>4. ASSUME IsPrefix(s, t)
      PROVE  Len(s) <= Len(t) /\ \A i \in 1 .. Len(s) : s[i] = t[i]
  BY <1>1, <1>2, <1>3, <1>4 DEF IsPrefix
<1>5. ASSUME Len(s) <= Len(t), \A i \in 1 .. Len(s) : s[i] = t[i]
      PROVE  IsPrefix(s, t)
  <2>1. s = SubSeq(t, 1, Len(s))
    BY <1>1, <1>3, <1>5, SeqEqual
  <2> QED
    BY <1>2, <1>5, <2>1 DEF IsPrefix
<1> QED
  BY <1>4, <1>5

LEMMA PrefixTransitive ==
    ASSUME NEW s \in Seq(Names), NEW t \in Seq(Names), NEW u \in Seq(Names),
           IsPrefix(s, t), IsPrefix(t, u)
    PROVE  IsPrefix(s, u)
<1>1. Len(s) \in Nat /\ Len(t) \in Nat /\ Len(u) \in Nat
  BY LenProperties
<1> QED
  BY <1>1, PrefixEntries

\* The next migration of a checkout, added to the rows of the ledger.
LEMMA PrefixAppend ==
    ASSUME NEW s \in Seq(Names), NEW t \in Seq(Names),
           IsPrefix(s, t), Len(s) < Len(t)
    PROVE  /\ t[Len(s) + 1] \in Names
           /\ Append(s, t[Len(s) + 1]) \in Seq(Names)
           /\ Append(s, t[Len(s) + 1]) # <<>>
           /\ IsPrefix(Append(s, t[Len(s) + 1]), t)
           /\ ToSet(Append(s, t[Len(s) + 1])) = ToSet(s) \cup {t[Len(s) + 1]}
<1> DEFINE e == t[Len(s) + 1]
           a == Append(s, e)
<1>1. Len(s) \in Nat /\ Len(t) \in Nat /\ DOMAIN s = 1 .. Len(s)
  BY LenProperties
<1>2. e \in Names
  BY <1>1, ElementOfSeq
<1> HIDE DEF e
<1>3. /\ a \in Seq(Names) /\ Len(a) = Len(s) + 1 /\ DOMAIN a = 1 .. Len(s) + 1
      /\ a # <<>> /\ a[Len(s) + 1] = e /\ \A i \in 1 .. Len(s) : a[i] = s[i]
  <2>1. /\ Append(s, e) \in Seq(Names) /\ Len(Append(s, e)) = Len(s) + 1
        /\ Append(s, e)[Len(s) + 1] = e
        /\ \A i \in 1 .. Len(s) : Append(s, e)[i] = s[i]
    BY <1>2, AppendProperties
  <2>2. DOMAIN a = 1 .. Len(s) + 1
    BY <2>1, LenProperties
  <2>3. a # <<>>
    BY <1>1, <2>1, EmptySeq
  <2> QED
    BY <2>1, <2>2, <2>3
<1> HIDE DEF a
<1>4. IsPrefix(a, t)
  <2>1. \A i \in 1 .. Len(a) : a[i] = t[i]
    <3> SUFFICES ASSUME NEW i \in 1 .. Len(a) PROVE a[i] = t[i]
      OBVIOUS
    <3>1. CASE i = Len(s) + 1
      BY <1>3, <3>1 DEF e
    <3>2. CASE i \in 1 .. Len(s)
      BY <1>3, <3>2, PrefixEntries
    <3> QED
      BY <1>1, <1>3, <3>1, <3>2
  <2>2. Len(a) <= Len(t)
    BY <1>1, <1>3
  <2> QED
    BY <1>3, <2>1, <2>2, PrefixEntries
<1>5. ToSet(a) = ToSet(s) \cup {e}
  <2>1. ASSUME NEW x \in ToSet(a) PROVE x \in ToSet(s) \cup {e}
    <3>1. PICK i \in 1 .. Len(s) + 1 : x = a[i]
      BY <1>3, <2>1 DEF ToSet
    <3>2. CASE i = Len(s) + 1
      BY <1>3, <3>1, <3>2
    <3>3. CASE i \in 1 .. Len(s)
      BY <1>1, <1>3, <3>1, <3>3 DEF ToSet
    <3> QED
      BY <1>1, <3>2, <3>3
  <2>2. ASSUME NEW x \in ToSet(s) PROVE x \in ToSet(a)
    <3>1. PICK i \in 1 .. Len(s) : x = s[i]
      BY <1>1, <2>2 DEF ToSet
    <3>2. x = a[i] /\ i \in DOMAIN a
      BY <1>1, <1>3, <3>1
    <3> QED
      BY <3>2 DEF ToSet
  <2>3. e \in ToSet(a)
    BY <1>1, <1>3 DEF ToSet
  <2> QED
    BY <2>1, <2>2, <2>3
<1> QED
  BY <1>2, <1>3, <1>4, <1>5 DEF e, a

\* The checkouts and the ledgers that earlier versions have left.
LEMMA PrefixOfAll ==
    ASSUME NEW n \in 1 .. Len(All)
    PROVE  /\ SubSeq(All, 1, n) \in Seq(Names)
           /\ SubSeq(All, 1, n) # <<>>
           /\ IsPrefix(SubSeq(All, 1, n), All)
<1> DEFINE s == SubSeq(All, 1, n)
<1>1. All \in Seq(Names) /\ Len(All) \in Nat
  BY CheckoutAssumption, LenProperties
<1>2. \A i \in 1 .. n : i \in 1 .. Len(All) /\ All[i] \in Names
  BY <1>1, ElementOfSeq
<1>3. s \in Seq(Names) /\ Len(s) = n /\ \A i \in 1 .. n : s[i] = All[i]
  BY <1>1, <1>2, SubSeqProperties
<1>4. s # <<>>
  <2>1. Len(<<>>) = 0
    OBVIOUS
  <2> QED
    BY <1>3, <2>1
<1>5. IsPrefix(s, All)
  <2>1. Len(s) <= Len(All)
    BY <1>1, <1>3
  <2>2. \A i \in 1 .. Len(s) : s[i] = All[i]
    BY <1>3
  <2> HIDE DEF s
  <2> QED
    BY <1>1, <1>3, <2>1, <2>2, PrefixEntries
<1> QED
  BY <1>3, <1>4, <1>5

\* Every checkout starts with the first migration.
LEMMA FirstMigration ==
    ASSUME NEW s \in Seq(Names), IsPrefix(s, All), s # <<>>
    PROVE  s[1] = Baseline /\ Len(s) > 0
<1>1. All \in Seq(Names) /\ Len(s) \in Nat
  BY CheckoutAssumption, LenProperties
<1>2. Len(s) # 0
  BY EmptySeq
<1> QED
  BY <1>1, <1>2, PrefixEntries DEF Baseline

LEMMA NoRows ==
    /\ <<>> \in Seq(Names)
    /\ ToSet(<<>>) = {}
    /\ \A s \in Seq(Names) : IsPrefix(<<>>, s)
<1>1. <<>> \in Seq(Names) /\ Len(<<>>) = 0 /\ DOMAIN <<>> = {}
  OBVIOUS
<1>2. \A s \in Seq(Names) : IsPrefix(<<>>, s)
  <2> TAKE s \in Seq(Names)
  <2>1. Len(s) \in Nat
    BY LenProperties
  <2>2. Len(<<>>) <= Len(s) /\ \A i \in 1 .. Len(<<>>) : <<>>[i] = s[i]
    BY <1>1, <2>1
  <2> QED
    BY <1>1, <2>2, PrefixEntries
<1> QED
  BY <1>1, <1>2 DEF ToSet

LEMMA BaselineType == Baseline \in Names
<1>1. All \in Seq(Names) /\ All # <<>>
  BY CheckoutAssumption
<1>2. Len(All) \in Nat /\ Len(All) # 0
  BY <1>1, LenProperties, EmptySeq
<1> QED
  BY <1>1, <1>2, ElementOfSeq DEF Baseline

----------------------------------------------------------------------------
(* The connections *)

\* The values that the state of a client's connection can have, see TypeOK.
Conn == [pc : {"idle", "resolve", "inspect", "advance", "use"},
         round : 1 .. MaxRounds, found : 0 .. Hosts, launched : 0 .. Hosts,
         pending : [1 .. Hosts -> {"none", "polling", "ok", "broken", "refused"}],
         opened : SUBSET (1 .. Hosts)]

ConnTypeOK ==
    /\ conn \in [Clients -> Conn]
    /\ sockets \in [Clients -> SUBSET (1 .. Hosts)]
    /\ faults \in 0 .. MaxFaults

\* What Linked says of one connection.
Closable(s) ==
    /\ \A id \in 1 .. Hosts : s.pending[id] # "none" => id \in s.opened
    /\ s.pc = "idle" => s.opened = {}
    /\ s.pc = "use" => \E id \in 1 .. Hosts : s.opened = {id}

LEMMA Numbers ==
    /\ Hosts \in Nat \ {0} /\ MaxRounds \in Nat \ {0} /\ MaxFaults \in Nat \ {0}
BY ConnectAssumption

LEMMA ClosedType ==
    /\ Closed \in Conn /\ Closable(Closed)
    /\ Closed.pc = "idle" /\ Closed.opened = {}
    /\ \A id \in 1 .. Hosts : Closed.pending[id] = "none"
BY Numbers DEF Closed, Conn, Closable

LEMMA FaultType ==
    ASSUME NEW kind, ConnTypeOK, Fault(kind)
    PROVE  faults' \in 0 .. MaxFaults
BY Numbers DEF ConnTypeOK, Fault

\* A step that sets the state of a connection and leaves open what is on its
\* list keeps the lists complete.
LEMMA SetKeeps ==
    ASSUME NEW c \in Clients, NEW s \in Conn, Closable(s),
           ConnTypeOK, Linked, faults' \in 0 .. MaxFaults,
           Set(c, s), sockets' = [sockets EXCEPT ![c] = s.opened]
    PROVE  /\ ConnTypeOK' /\ Linked'
           /\ conn'[c] = s /\ \A d \in Clients \ {c} : conn'[d] = conn[d]
<1>1. conn'[c] = s /\ \A d \in Clients \ {c} : conn'[d] = conn[d]
  BY DEF Set, ConnTypeOK
<1>2. ConnTypeOK'
  <2>1. s.opened \in SUBSET (1 .. Hosts)
    BY DEF Conn
  <2> QED
    BY <2>1 DEF Set, ConnTypeOK
<1>3. Linked'
  <2> SUFFICES ASSUME NEW d \in Clients
               PROVE  /\ sockets'[d] = conn'[d].opened
                      /\ \A id \in 1 .. Hosts :
                             conn'[d].pending[id] # "none" => id \in conn'[d].opened
                      /\ At(d, "idle")' => conn'[d].opened = {}
                      /\ At(d, "use")' => \E id \in 1 .. Hosts : conn'[d].opened = {id}
    BY DEF Linked
  <2>1. CASE d = c
    BY <1>1, <2>1 DEF Closable, At, ConnTypeOK
  <2>2. CASE d # c
    <3>1. conn'[d] = conn[d] /\ sockets'[d] = sockets[d]
      BY <1>1, <2>2 DEF ConnTypeOK
    <3> QED
      BY <3>1 DEF Linked, At
  <2> QED
    BY <2>1, <2>2
<1> QED
  BY <1>1, <1>2, <1>3

\* The end of a command closes what it has open.
LEMMA QuitKeeps ==
    ASSUME NEW c \in Clients, ConnTypeOK, Linked, faults' \in 0 .. MaxFaults, Quit(c)
    PROVE  /\ ConnTypeOK' /\ Linked'
           /\ conn'[c] = Closed /\ \A d \in Clients \ {c} : conn'[d] = conn[d]
<1>1. sockets' = [sockets EXCEPT ![c] = Closed.opened]
  BY DEF Quit, Linked, Closed
<1> QED
  BY <1>1, ClosedType, SetKeeps DEF Quit

\* What a step of a connection that is not used yet does to all connections.
Connects(c) ==
    /\ ConnTypeOK' /\ Linked'
    /\ \A d \in Clients \ {c} : conn'[d] = conn[d]

LEMMA ResolveKeeps ==
    ASSUME NEW c \in Clients, ConnTypeOK, Linked,
           \/ Dial(c) \/ ResolveTargets(c)
           \/ \E found \in 0 .. Hosts - 1 : SomeUnresolved(c, found)
    PROVE  Connects(c)
<1>1. conn[c] \in Conn /\ Closable(conn[c]) /\ sockets[c] = conn[c].opened
  BY DEF ConnTypeOK, Linked, Closable, At
<1>2. CASE Dial(c)
  <2> DEFINE s == [Closed EXCEPT !.pc = "resolve"]
  <2>1. s \in Conn /\ Closable(s) /\ s.opened = {}
    BY Numbers DEF Closed, Conn, Closable
  <2> HIDE DEF s
  <2>2. sockets' = [sockets EXCEPT ![c] = s.opened]
    BY <1>1, <1>2, <2>1 DEF Dial, Linked, ConnTypeOK
  <2>3. Set(c, s) /\ faults' = faults
    BY <1>2 DEF Dial, s
  <2> QED
    BY <2>1, <2>2, <2>3, SetKeeps DEF ConnTypeOK, Connects
<1>3. ASSUME NEW found \in 0 .. Hosts,
             conn[c].pc = "resolve",
             Set(c, [conn[c] EXCEPT !.pc = "advance", !.found = found]),
             UNCHANGED sockets, faults' \in 0 .. MaxFaults
      PROVE  Connects(c)
  <2> DEFINE s == [conn[c] EXCEPT !.pc = "advance", !.found = found]
  <2>1. s \in Conn /\ Closable(s) /\ s.opened = conn[c].opened
    BY <1>1, <1>3 DEF Conn, Closable
  <2>2. Set(c, s)
    BY <1>3
  <2> HIDE DEF s
  <2>3. sockets' = [sockets EXCEPT ![c] = s.opened]
    BY <1>1, <1>3, <2>1 DEF ConnTypeOK
  <2> QED
    BY <1>3, <2>1, <2>2, <2>3, SetKeeps DEF Connects
<1>4. CASE ResolveTargets(c)
  <2>1. Hosts \in 0 .. Hosts /\ faults' \in 0 .. MaxFaults
    BY <1>4, Numbers DEF ResolveTargets, ConnTypeOK
  <2> QED
    BY <1>3, <1>4, <2>1 DEF ResolveTargets, At
<1>5. ASSUME NEW found \in 0 .. Hosts - 1, SomeUnresolved(c, found)
      PROVE  Connects(c)
  <2>1. faults' \in 0 .. MaxFaults
    BY <1>5, FaultType DEF SomeUnresolved
  <2>2. CASE found = 0
    BY <1>5, <2>1, <2>2, QuitKeeps DEF SomeUnresolved, Connects
  <2>3. CASE found # 0
    <3>1. found \in 0 .. Hosts
      BY Numbers
    <3> QED
      BY <1>3, <1>5, <2>1, <2>3, <3>1 DEF SomeUnresolved, At
  <2> QED
    BY <2>2, <2>3
<1> QED
  BY <1>2, <1>4, <1>5

LEMMA RaceKeeps ==
    ASSUME NEW c \in Clients, ConnTypeOK, Linked,
           \/ Inspect(c) \/ Launch(c) \/ LaunchFails(c) \/ Exhausted(c) \/ TooLate(c)
    PROVE  Connects(c)
<1>1. conn[c] \in Conn /\ Closable(conn[c]) /\ sockets[c] = conn[c].opened
  BY DEF ConnTypeOK, Linked, Closable, At
<1>2. ASSUME Quit(c), faults' \in 0 .. MaxFaults
      PROVE  Connects(c)
  BY <1>2, QuitKeeps DEF Connects
<1>3. ASSUME NEW s \in Conn, Closable(s), Set(c, s), faults' \in 0 .. MaxFaults,
             sockets' = [sockets EXCEPT ![c] = s.opened]
      PROVE  Connects(c)
  BY <1>3, SetKeeps DEF Connects
<1>4. ASSUME Inspect(c), NEW id \in Decisive(c), Decided(c, id)
      PROVE  Connects(c)
  <2>1. id \in 1 .. Hosts /\ id \in conn[c].opened /\ faults' \in 0 .. MaxFaults
    BY <1>1, <1>4 DEF Inspect, Decisive, With, Closable, ConnTypeOK
  <2>2. CASE conn[c].pending[id] = "ok"
    <3> DEFINE s == [Closed EXCEPT !.pc = "use", !.opened = {id}]
    <3>1. s \in Conn /\ Closable(s) /\ s.opened = {id}
      <4>1. /\ s.pc = "use" /\ s.opened = {id}
            /\ \A j \in 1 .. Hosts : s.pending[j] = "none"
            /\ s \in Conn
        BY <2>1, ClosedType DEF Conn
      <4> HIDE DEF s
      <4> QED
        BY <2>1, <4>1 DEF Closable
    <3>2. Set(c, s) /\ sockets' = [sockets EXCEPT ![c] = @ \ (conn[c].opened \ {id})]
      BY <1>4, <2>2 DEF Decided, Win, Forget
    <3> HIDE DEF s
    <3>3. sockets' = [sockets EXCEPT ![c] = s.opened]
      BY <1>1, <2>1, <3>1, <3>2
    <3> QED
      BY <1>3, <2>1, <3>1, <3>2, <3>3
  <2>3. CASE conn[c].pending[id] # "ok"
    BY <1>2, <1>4, <2>1, <2>3 DEF Decided
  <2> QED
    BY <2>2, <2>3
<1>5. ASSUME Inspect(c), Undecided(c)
      PROVE  Connects(c)
  <2> DEFINE s == [conn[c] EXCEPT
                 !.pc = "advance",
                 !.pending = [id \in 1 .. Hosts |-> IF @[id] = "polling" THEN @[id] ELSE "none"],
                 !.opened = @ \ With(c, {"broken"})]
  <2>1. /\ s.pc = "advance" /\ s.opened = conn[c].opened \ With(c, {"broken"})
        /\ s.pending = [id \in 1 .. Hosts |-> IF conn[c].pending[id] = "polling"
                                              THEN conn[c].pending[id] ELSE "none"]
        /\ s \in Conn
    BY <1>1 DEF Conn
  <2>2. Set(c, s) /\ sockets' = [sockets EXCEPT ![c] = @ \ With(c, {"broken"})]
    BY <1>5 DEF Undecided
  <2>3. faults' \in 0 .. MaxFaults
    BY <1>5 DEF Inspect, ConnTypeOK
  <2> HIDE DEF s
  <2>4. ASSUME NEW id \in 1 .. Hosts, s.pending[id] # "none"
        PROVE  id \in s.opened
    <3>1. s.pending[id] = IF conn[c].pending[id] = "polling"
                          THEN conn[c].pending[id] ELSE "none"
      BY <2>1
    <3>2. conn[c].pending[id] = "polling"
      BY <2>4, <3>1
    <3> QED
      BY <1>1, <2>1, <3>2 DEF Closable, With
  <2>5. Closable(s)
    BY <2>1, <2>4 DEF Closable
  <2>6. sockets' = [sockets EXCEPT ![c] = s.opened]
    BY <1>1, <2>1, <2>2
  <2> QED
    BY <1>3, <2>1, <2>2, <2>3, <2>5, <2>6
<1>6. CASE Inspect(c)
  BY <1>4, <1>5, <1>6 DEF Inspect
<1>7. CASE Launch(c)
  <2> DEFINE id == conn[c].launched + 1
             s  == [conn[c] EXCEPT !.launched = id, !.opened = @ \cup {id},
                       !.pending[id] = "polling"]
  <2>1. id \in 1 .. Hosts /\ id \in 0 .. Hosts
    BY <1>1, <1>7, Numbers DEF Launch, Conn
  <2>2. /\ conn[c].pc = "advance" /\ Set(c, s) /\ faults' \in 0 .. MaxFaults
        /\ sockets' = [sockets EXCEPT ![c] = @ \cup {id}]
    BY <1>7 DEF Launch, ConnTypeOK, At
  <2> HIDE DEF id
  <2>3. /\ s.pc = "advance" /\ s.opened = conn[c].opened \cup {id}
        /\ s.pending = [conn[c].pending EXCEPT ![id] = "polling"]
        /\ s \in Conn
    BY <1>1, <2>1, <2>2 DEF Conn
  <2> HIDE DEF s
  <2>4. Closable(s)
    <3>1. ASSUME NEW j \in 1 .. Hosts, s.pending[j] # "none"
          PROVE  j \in s.opened
      BY <1>1, <2>1, <2>3, <3>1 DEF Closable, Conn
    <3> QED
      BY <2>3, <3>1 DEF Closable
  <2>5. sockets' = [sockets EXCEPT ![c] = s.opened]
    BY <1>1, <2>2, <2>3
  <2> QED
    BY <1>3, <2>2, <2>3, <2>4, <2>5
<1>8. CASE LaunchFails(c)
  <2>1. faults' \in 0 .. MaxFaults
    BY <1>8, FaultType DEF LaunchFails
  <2>2. ASSUME Set(c, [conn[c] EXCEPT !.launched = @ + 1]), UNCHANGED sockets
        PROVE  Connects(c)
    <3> DEFINE s == [conn[c] EXCEPT !.launched = @ + 1]
    <3>1. s \in Conn /\ Closable(s) /\ s.opened = conn[c].opened
      BY <1>1, <1>8, Numbers DEF LaunchFails, Conn, Closable
    <3>2. Set(c, s)
      BY <2>2
    <3> HIDE DEF s
    <3>3. sockets' = [sockets EXCEPT ![c] = s.opened]
      BY <1>1, <2>2, <3>1 DEF ConnTypeOK
    <3> QED
      BY <1>3, <2>1, <3>1, <3>2, <3>3
  <2> QED
    BY <1>2, <1>8, <2>1, <2>2 DEF LaunchFails
<1>9. CASE Exhausted(c)
  <2>1. faults' \in 0 .. MaxFaults
    BY <1>9 DEF Exhausted, ConnTypeOK
  <2>2. CASE Another(c)
    <3> DEFINE s == [Closed EXCEPT !.pc = "resolve", !.round = conn[c].round + 1]
    <3>1. s \in Conn /\ Closable(s) /\ s.opened = {}
      <4>1. conn[c].round + 1 \in 1 .. MaxRounds
        BY <1>1, <2>2, Numbers DEF Conn, Another
      <4>2. /\ s.pc = "resolve" /\ s.opened = {}
            /\ \A j \in 1 .. Hosts : s.pending[j] = "none"
            /\ s \in Conn
        BY <4>1, ClosedType DEF Conn
      <4> HIDE DEF s
      <4> QED
        BY <4>2 DEF Closable
    <3>2. Set(c, s) /\ sockets' = [sockets EXCEPT ![c] = @ \ conn[c].opened]
      BY <1>9, <2>2 DEF Exhausted, EndRound
    <3> HIDE DEF s
    <3>3. sockets' = [sockets EXCEPT ![c] = s.opened]
      BY <1>1, <3>1, <3>2
    <3> QED
      BY <1>3, <2>1, <3>1, <3>2, <3>3
  <2>3. CASE ~Another(c)
    BY <1>2, <1>9, <2>1, <2>3 DEF Exhausted, EndRound
  <2> QED
    BY <2>2, <2>3
<1>10. CASE TooLate(c)
  <2>1. faults' \in 0 .. MaxFaults
    BY <1>10, FaultType DEF TooLate
  <2> QED
    BY <1>2, <1>10, <2>1 DEF TooLate
<1> QED
  BY <1>6, <1>7, <1>8, <1>9, <1>10

LEMMA PollKeeps ==
    ASSUME NEW c \in Clients, ConnTypeOK, Linked,
           NEW good \in SUBSET Pending(c), NEW bad \in SUBSET Pending(c),
           NEW status \in {"ok", "broken", "refused"}, Poll(c, good, bad, status)
    PROVE  Connects(c)
<1>1. conn[c] \in Conn /\ Closable(conn[c]) /\ sockets[c] = conn[c].opened
  BY DEF ConnTypeOK, Linked, Closable, At
<1> DEFINE s == [conn[c] EXCEPT !.pc = "inspect",
                 !.pending = [id \in 1 .. Hosts |->
                     IF id \in good THEN "ok" ELSE IF id \in bad THEN status ELSE @[id]]]
<1>2. /\ s.pc = "inspect" /\ s.opened = conn[c].opened
      /\ s.pending = [id \in 1 .. Hosts |-> IF id \in good THEN "ok" ELSE
                          IF id \in bad THEN status ELSE conn[c].pending[id]]
      /\ s \in Conn
  BY <1>1 DEF Conn
<1>3. Set(c, s) /\ UNCHANGED sockets
  BY DEF Poll
<1> HIDE DEF s
<1>4. Closable(s)
  <2>1. ASSUME NEW id \in 1 .. Hosts, s.pending[id] # "none"
        PROVE  id \in s.opened
    <3>1. CASE id \in good \cup bad
      BY <1>1, <1>2, <3>1 DEF Pending, With, Closable
    <3>2. CASE id \notin good \cup bad
      BY <1>1, <1>2, <2>1, <3>2 DEF Closable
    <3> QED
      BY <3>1, <3>2
  <2> QED
    BY <1>2, <2>1 DEF Closable
<1>5. sockets' = [sockets EXCEPT ![c] = s.opened]
  BY <1>1, <1>2, <1>3 DEF ConnTypeOK
<1>6. faults' \in 0 .. MaxFaults
  <2>1. CASE bad = {}
    BY <2>1 DEF Poll, ConnTypeOK
  <2>2. CASE bad # {}
    BY <2>2, FaultType DEF Poll
  <2> QED
    BY <2>1, <2>2
<1> QED
  BY <1>2, <1>3, <1>4, <1>5, <1>6, SetKeeps DEF Connects

LEMMA ConnectingKeeps ==
    ASSUME NEW c \in Clients, ConnTypeOK, Linked, Progress(c) \/ Setback(c)
    PROVE  Connects(c) /\ conn[c].pc \notin {"idle", "use"}
<1>1. CASE \E good \in SUBSET Pending(c) : Poll(c, good, {}, "ok")
  BY <1>1, PollKeeps DEF Poll, At
<1>2. CASE \E good \in SUBSET Pending(c) : \E bad \in SUBSET (Pending(c) \ good) \ {{}} :
               \E status \in {"broken", "refused"} : Poll(c, good, bad, status)
  <2>1. PICK good \in SUBSET Pending(c) : \E bad \in SUBSET (Pending(c) \ good) \ {{}} :
               \E status \in {"broken", "refused"} : Poll(c, good, bad, status)
    BY <1>2
  <2>2. PICK bad \in SUBSET (Pending(c) \ good) \ {{}}, status \in {"broken", "refused"} :
               Poll(c, good, bad, status)
    BY <2>1
  <2>3. bad \in SUBSET Pending(c) /\ status \in {"ok", "broken", "refused"}
    OBVIOUS
  <2>4. Connects(c)
    BY <2>2, <2>3, PollKeeps
  <2> QED
    BY <2>2, <2>4 DEF Poll, At
<1>3. CASE Inspect(c) \/ Launch(c) \/ LaunchFails(c) \/ Exhausted(c) \/ TooLate(c)
  <2>1. conn[c].pc \notin {"idle", "use"}
    BY <1>3 DEF Inspect, Launch, LaunchFails, Exhausted, TooLate, At
  <2> QED
    BY <1>3, <2>1, RaceKeeps
<1>4. CASE ResolveTargets(c) \/ \E found \in 0 .. Hosts - 1 : SomeUnresolved(c, found)
  <2>1. conn[c].pc \notin {"idle", "use"}
    BY <1>4 DEF ResolveTargets, SomeUnresolved, At
  <2> QED
    BY <1>4, <2>1, ResolveKeeps
<1> QED
  BY <1>1, <1>2, <1>3, <1>4 DEF Progress, Setback

----------------------------------------------------------------------------
(* The transactions *)

Transaction == [pc : {"none", "present", "create", "blocked", "again", "lock",
                      "validate", "apply", "gone"},
                repo : Seq(Names), view : Views \cup {None},
                advisory : BOOLEAN, locked : BOOLEAN, made : BOOLEAN]

StoreTypeOK ==
    /\ db \in [ledger : Ledgers \cup {None}, schema : SUBSET Names]
    /\ tx \in [Clients -> Transaction]
    /\ other \in [ledger : Ledgers \cup {None}] \cup {None}
    /\ tampered \in BOOLEAN

LEMMA Types == /\ TypeOK <=> ConnTypeOK /\ StoreTypeOK
               /\ TypeOK' <=> ConnTypeOK' /\ StoreTypeOK'
BY DEF TypeOK, ConnTypeOK, StoreTypeOK, Conn, Transaction

LEMMA NoTxType ==
    /\ NoTx \in Transaction /\ Ready(NoTx, "idle")
    /\ NoTx.pc = "none" /\ ~NoTx.locked /\ ~NoTx.made /\ Consistent(NoTx)
<1>1. All \in Seq(Names)
  BY CheckoutAssumption
<1>2. /\ NoTx \in Transaction /\ NoTx.repo = <<>>
      /\ NoTx.pc = "none" /\ ~NoTx.locked /\ ~NoTx.made
  BY NoRows DEF NoTx, Transaction
<1>3. IsPrefix(NoTx.repo, All)
  BY <1>1, <1>2, NoRows
<1> QED
  BY <1>2, <1>3 DEF Ready, Consistent

\* A step of a connection alone: it belongs to a command that has no
\* transaction yet.
LEMMA ConnectingInv ==
    ASSUME IInv, NEW c \in Clients, Connecting(c)
    PROVE  IInv'
<1>1. ConnTypeOK /\ StoreTypeOK /\ Linked /\ UNCHANGED server
  BY Types DEF IInv, Connecting
<1>2. Connects(c) /\ conn[c].pc \notin {"idle", "use"}
  BY <1>1, ConnectingKeeps DEF Connecting
<1>3. TypeOK' /\ Linked'
  BY <1>1, <1>2, Types DEF Connects, StoreTypeOK, server
<1>4. Staged'
  <2> SUFFICES ASSUME NEW d \in Clients PROVE Ready(tx[d], conn'[d].pc)
    BY <1>1 DEF Staged, server
  <2>1. Ready(tx[d], conn[d].pc)
    BY DEF IInv, Staged
  <2>2. CASE d = c
    BY <1>2, <2>1, <2>2 DEF Ready
  <2>3. CASE d # c
    BY <1>2, <2>1, <2>3 DEF Connects
  <2> QED
    BY <2>2, <2>3
<1>5. Excluded' /\ Viewed' /\ LedgerTellsSchema'
  BY <1>1 DEF IInv, Excluded, There, Viewed, Consistent, LedgerTellsSchema, server
<1> QED
  BY <1>3, <1>4, <1>5 DEF IInv

\* A step of one transaction that does not commit: what it must respect.
LEMMA TransactionKeeps ==
    ASSUME IInv, NEW c \in Clients, NEW t \in Transaction,
           SetTx(c, t), UNCHANGED <<db, other, tampered>>,
           Connects(c), Ready(t, conn'[c].pc), Consistent(t),
           t.made => tx[c].made \/ (~Creating /\ db.ledger = None),
           t.locked => (tx[c].locked \/ ~Locked(c)) /\ (db.ledger # None \/ t.made)
    PROVE  IInv'
<1>1. ConnTypeOK /\ StoreTypeOK
  BY Types DEF IInv
<1>2. tx'[c] = t /\ \A d \in Clients \ {c} : tx'[d] = tx[d]
  BY <1>1 DEF SetTx, StoreTypeOK
<1>3. TypeOK' /\ Linked'
  <2>1. StoreTypeOK'
    BY <1>1 DEF SetTx, StoreTypeOK
  <2> QED
    BY <2>1, Types DEF Connects
<1>4. Staged'
  <2> SUFFICES ASSUME NEW d \in Clients PROVE Ready(tx'[d], conn'[d].pc)
    BY DEF Staged
  <2>1. CASE d = c
    BY <1>2, <2>1
  <2>2. CASE d # c
    BY <1>2, <2>2 DEF Connects, IInv, Staged
  <2> QED
    BY <2>1, <2>2
<1>5. Viewed'
  <2> SUFFICES ASSUME NEW d \in Clients PROVE Consistent(tx[d])'
    BY DEF Viewed
  <2>1. Consistent(tx'[d])
    BY <1>2 DEF IInv, Viewed
  <2> QED
    BY <2>1 DEF Consistent
<1>6. Excluded'
  <2>1. ASSUME NEW d \in Clients, NEW e \in Clients, tx'[d].locked, tx'[e].locked
        PROVE  d = e
    BY <1>2, <2>1 DEF IInv, Excluded, Locked
  <2>2. ASSUME NEW d \in Clients, NEW e \in Clients, tx'[d].made, tx'[e].made
        PROVE  d = e
    BY <1>2, <2>2 DEF IInv, Excluded, Creating
  <2>3. ASSUME NEW d \in Clients, tx'[d].made
        PROVE  db.ledger = None /\ other = None
    BY <1>2, <2>3 DEF IInv, Excluded, Creating
  <2>4. ASSUME NEW d \in Clients, tx'[d].locked
        PROVE  other = None /\ (db.ledger # None \/ tx'[d].made)
    <3>1. CASE d # c
      BY <1>2, <2>4, <3>1 DEF IInv, Excluded, There
    <3>2. CASE d = c /\ tx[c].locked
      BY <1>2, <2>4, <3>2 DEF IInv, Excluded
    <3>3. CASE d = c /\ ~Locked(c)
      <4>1. db.ledger # None \/ t.made
        BY <1>2, <2>4, <3>3
      <4>2. CASE db.ledger # None
        BY <3>3, <4>2 DEF Locked
      <4>3. CASE t.made
        BY <1>2, <2>3, <3>3, <4>3
      <4> QED
        BY <4>1, <4>2, <4>3
    <3> QED
      BY <1>2, <2>4, <3>1, <3>2, <3>3
  <2> QED
    BY <2>1, <2>2, <2>3, <2>4 DEF Excluded, There
<1>7. LedgerTellsSchema'
  BY DEF IInv, LedgerTellsSchema
<1> QED
  BY <1>3, <1>4, <1>5, <1>6, <1>7 DEF IInv

\* Nothing happens to the connections.
LEMMA QuietlyConnects ==
    ASSUME IInv, NEW c \in Clients, UNCHANGED cvars
    PROVE  Connects(c) /\ conn' = conn
BY Types DEF IInv, Connects, ConnTypeOK, Linked, At, cvars

\* What the transaction of a client is, as the lemmas below need it.
LEMMA TransactionType ==
    ASSUME IInv, NEW c \in Clients
    PROVE  /\ tx[c] \in Transaction /\ Ready(tx[c], conn[c].pc) /\ Consistent(tx[c])
           /\ tx[c].locked => There(c)
           /\ tx[c].made => db.ledger = None
           /\ ConnTypeOK /\ StoreTypeOK /\ Linked
BY Types DEF IInv, StoreTypeOK, Staged, Viewed, Excluded

LEMMA RollbackInv ==
    ASSUME IInv, NEW c \in Clients, Rollback(c), faults' \in 0 .. MaxFaults
    PROVE  IInv'
<1>1. Connects(c) /\ conn'[c] = Closed
  BY TransactionType, QuitKeeps DEF Rollback, Connects
<1> QED
  BY <1>1, NoTxType, ClosedType, TransactionKeeps DEF Rollback

LEMMA SameFaults ==
    ASSUME IInv, UNCHANGED faults
    PROVE  faults' \in 0 .. MaxFaults
BY Types DEF IInv, ConnTypeOK

LEMMA BeginInv ==
    ASSUME IInv, NEW c \in Clients, NEW n \in Checkouts[c], Begin(c, n)
    PROVE  IInv'
<1> DEFINE t == [NoTx EXCEPT !.repo = SubSeq(All, 1, n)]
<1>1. n \in 1 .. Len(All)
  BY CheckoutAssumption
<1>2. /\ t \in Transaction /\ t.pc = "none" /\ ~t.locked /\ ~t.made
      /\ t.repo = SubSeq(All, 1, n)
  BY <1>1, NoTxType, PrefixOfAll DEF Transaction
<1>3. SetTx(c, t)
  BY DEF Begin
<1> HIDE DEF t
<1>4. Ready(t, conn'[c].pc) /\ Consistent(t)
  BY <1>1, <1>2, PrefixOfAll DEF Ready, Consistent
<1>5. Connects(c)
  BY TransactionType, ResolveKeeps DEF Begin
<1> QED
  BY <1>2, <1>3, <1>4, <1>5, TransactionKeeps DEF Begin

\* A step that only moves on to another statement.
LEMMA GotoInv ==
    ASSUME IInv, NEW c \in Clients,
           NEW pc \in {"present", "create", "blocked", "again", "lock"},
           At(c, "use"), GotoTx(c, pc), Quietly
    PROVE  IInv'
<1> DEFINE t == [tx[c] EXCEPT !.pc = pc]
<1>1. tx[c] \in Transaction /\ Ready(tx[c], "use")
  BY TransactionType DEF At
<1>2. /\ t \in Transaction /\ t.pc = pc /\ t.repo = tx[c].repo
      /\ t.locked = tx[c].locked /\ t.made = tx[c].made
  BY <1>1 DEF Transaction
<1>3. SetTx(c, t)
  BY DEF GotoTx
<1> HIDE DEF t
<1>4. Connects(c) /\ conn'[c].pc = "use"
  BY QuietlyConnects DEF Quietly, At
<1>5. Ready(t, conn'[c].pc) /\ Consistent(t)
  BY <1>1, <1>2, <1>4 DEF Ready, Consistent
<1> QED
  BY <1>2, <1>3, <1>4, <1>5, TransactionType, TransactionKeeps DEF Quietly, There

\* A transaction that is under way belongs to a command with a connection.
LEMMA UnderWay ==
    ASSUME IInv, NEW c \in Clients, Serving(c)
    PROVE  At(c, "use") /\ Ready(tx[c], "use")
BY TransactionType DEF Ready, Serving, At

LEMMA TakeAdvisoryInv ==
    ASSUME IInv, NEW c \in Clients, TakeAdvisory(c)
    PROVE  IInv'
<1> DEFINE t == [tx[c] EXCEPT !.pc = "present", !.advisory = TRUE]
<1>1. tx[c] \in Transaction /\ Ready(tx[c], "use")
  BY TransactionType DEF TakeAdvisory, At
<1>2. /\ t \in Transaction /\ t.pc = "present" /\ t.repo = tx[c].repo
      /\ t.locked = tx[c].locked /\ t.made = tx[c].made
  BY <1>1 DEF Transaction
<1>3. SetTx(c, t)
  BY DEF TakeAdvisory
<1> HIDE DEF t
<1>4. Connects(c) /\ conn'[c].pc = "use"
  BY QuietlyConnects DEF TakeAdvisory, Quietly, At
<1>5. Ready(t, conn'[c].pc) /\ Consistent(t)
  BY <1>1, <1>2, <1>4 DEF Ready, Consistent
<1> QED
  BY <1>2, <1>3, <1>4, <1>5, TransactionType, TransactionKeeps DEF TakeAdvisory, Quietly, There

\* The table of the ledger is created: nobody else is creating it.
LEMMA MakeInv ==
    ASSUME IInv, NEW c \in Clients, At(c, "use"), ~Creating, db.ledger = None,
           SetTx(c, [tx[c] EXCEPT !.pc = "lock", !.made = TRUE]), Quietly
    PROVE  IInv'
<1> DEFINE t == [tx[c] EXCEPT !.pc = "lock", !.made = TRUE]
<1>1. tx[c] \in Transaction /\ Ready(tx[c], "use")
  BY TransactionType DEF At
<1>2. /\ t \in Transaction /\ t.pc = "lock" /\ t.repo = tx[c].repo
      /\ t.locked = tx[c].locked /\ t.made
  BY <1>1 DEF Transaction
<1>3. SetTx(c, t)
  OBVIOUS
<1> HIDE DEF t
<1>4. Connects(c) /\ conn'[c].pc = "use"
  BY QuietlyConnects DEF Quietly, At
<1>5. Ready(t, conn'[c].pc) /\ Consistent(t)
  BY <1>1, <1>2, <1>4 DEF Ready, Consistent
<1> QED
  BY <1>2, <1>3, <1>4, <1>5, TransactionKeeps DEF Quietly

LEMMA CreateInv ==
    ASSUME IInv, NEW c \in Clients,
           Present(c) \/ Create(c) \/ Unblock(c) \/ Again(c)
    PROVE  IInv'
<1>1. Serving(c) /\ At(c, "use")
  <2>1. Serving(c)
    BY DEF Present, Create, Unblock, Again, Tx, Serving
  <2> QED
    BY <2>1, UnderWay
<1>2. CASE Present(c)
  <2>1. GotoTx(c, "create") \/ GotoTx(c, "lock")
    BY <1>2 DEF Present
  <2> QED
    BY <1>1, <1>2, <2>1, GotoInv DEF Present
<1>3. CASE Create(c)
  <2>1. CASE db.ledger # None
    BY <1>1, <1>3, <2>1, GotoInv DEF Create
  <2>2. CASE db.ledger = None /\ Creating
    BY <1>1, <1>3, <2>2, GotoInv DEF Create
  <2>3. CASE db.ledger = None /\ ~Creating
    BY <1>1, <1>3, <2>3, MakeInv DEF Create
  <2> QED
    BY <2>1, <2>2, <2>3
<1>4. CASE Unblock(c)
  <2>1. CASE db.ledger # None
    BY <1>1, <1>4, <2>1, GotoInv DEF Unblock
  <2>2. CASE db.ledger = None
    BY <1>1, <1>4, <2>2, MakeInv DEF Unblock
  <2> QED
    BY <2>1, <2>2
<1>5. CASE Again(c)
  <2>1. CASE db.ledger # None
    BY <1>1, <1>5, <2>1, GotoInv DEF Again
  <2>2. CASE db.ledger = None
    BY <1>5, <2>2, RollbackInv, SameFaults DEF Again
  <2> QED
    BY <2>1, <2>2
<1> QED
  BY <1>2, <1>3, <1>4, <1>5

LEMMA LockLedgerInv ==
    ASSUME IInv, NEW c \in Clients, LockLedger(c)
    PROVE  IInv'
<1>1. At(c, "use") /\ tx[c] \in Transaction /\ Ready(tx[c], "use")
  BY UnderWay, TransactionType DEF LockLedger, Tx, Serving
<1>2. CASE ~There(c)
  BY <1>2, RollbackInv, SameFaults DEF LockLedger
<1>3. CASE There(c)
  <2> DEFINE t == [tx[c] EXCEPT !.pc = "validate", !.locked = TRUE]
  <2>1. /\ t \in Transaction /\ t.pc = "validate" /\ t.repo = tx[c].repo
        /\ t.locked /\ t.made = tx[c].made
    BY <1>1 DEF Transaction
  <2>2. SetTx(c, t) /\ Quietly
    BY <1>3 DEF LockLedger
  <2> HIDE DEF t
  <2>3. Connects(c) /\ conn'[c].pc = "use"
    BY <1>1, <2>2, QuietlyConnects DEF Quietly, At
  <2>4. Ready(t, conn'[c].pc) /\ Consistent(t)
    BY <1>1, <2>1, <2>3 DEF Ready, Consistent
  <2> QED
    BY <1>3, <2>1, <2>2, <2>3, <2>4, TransactionKeeps DEF LockLedger, Quietly, There
<1> QED
  BY <1>2, <1>3

\* What the ledger is that a transaction validates under the lock, and what the
\* schema is if nobody has tampered with it.
LEMMA ValidatedLedger ==
    ASSUME IInv, NEW c \in Clients, Tx(c, "validate"), NEW ledger,
           ledger = IF tx[c].made THEN Empty ELSE db.ledger
    PROVE  /\ ledger \in Ledgers /\ ledger.rows \in Seq(Names)
           /\ ~tampered => Telling(ledger.rows, db.schema)
<1>1. tx[c].locked /\ There(c) /\ StoreTypeOK
  BY TransactionType DEF Tx, Ready
<1>2. CASE tx[c].made
  <2>1. db.ledger = None /\ ledger = Empty
    BY <1>2, TransactionType
  <2>2. Empty \in Ledgers /\ Empty.rows = <<>>
    BY NoRows DEF Empty, Ledger, Ledgers
  <2>3. ~tampered => db.schema \subseteq {Baseline}
    BY <2>1 DEF IInv, LedgerTellsSchema
  <2> QED
    BY <2>1, <2>2, <2>3, NoRows DEF Telling
<1>3. CASE ~tx[c].made
  <2>1. ledger = db.ledger /\ db.ledger # None
    BY <1>1, <1>3 DEF There
  <2>2. ledger \in Ledgers /\ ledger.rows \in Seq(Names)
    BY <1>1, <2>1 DEF StoreTypeOK, Ledgers
  <2>3. ~tampered => db.schema = ToSet(ledger.rows)
    BY <2>1 DEF IInv, LedgerTellsSchema
  <2>4. ~tampered => Telling(ledger.rows, db.schema)
    BY <2>3, NoRows DEF Telling
  <2> QED
    BY <2>2, <2>4
<1> QED
  BY <1>2, <1>3

LEMMA ValidateInv ==
    ASSUME IInv, NEW c \in Clients, Validate(c)
    PROVE  IInv'
<1> DEFINE ledger == IF tx[c].made THEN Empty ELSE db.ledger
           next   == IF ledger.shape = "legacy" THEN Upgraded(ledger) ELSE ledger
           view   == [ledger |-> next, schema |-> db.schema]
           t      == [tx[c] EXCEPT !.pc = "apply", !.view = view]
           valid  == /\ ledger.shape \in {"legacy", "current"}
                     /\ Known(ledger.rows, tx[c].repo)
                     /\ ledger.rows # <<>> => Baseline \in db.schema
<1>1. /\ At(c, "use") /\ tx[c] \in Transaction /\ Ready(tx[c], "use")
      /\ Tx(c, "validate") /\ tx[c].locked /\ StoreTypeOK
  BY UnderWay, TransactionType DEF Validate, Tx, Serving, Ready
<1>2. /\ ledger \in Ledgers /\ ledger.rows \in Seq(Names)
      /\ ~tampered => Telling(ledger.rows, db.schema)
  BY <1>1, ValidatedLedger
<1>3. CASE ~valid
  <2>1. Rollback(c) /\ UNCHANGED faults
    BY <1>3 DEF Validate
  <2> QED
    BY <2>1, RollbackInv, SameFaults
<1>4. CASE valid
  <2>1. SetTx(c, t) /\ Quietly
    BY <1>4 DEF Validate
  <2>2. Known(ledger.rows, tx[c].repo)
    BY <1>4
  <2> HIDE DEF ledger
  <2>3. next \in Ledgers /\ next.rows = ledger.rows
    BY <1>2 DEF Upgraded, Ledger, Ledgers
  <2> HIDE DEF next
  <2>4. view \in Views /\ view.ledger = next /\ view.schema = db.schema
    BY <1>1, <2>3 DEF Views, StoreTypeOK
  <2> HIDE DEF view
  <2>5. /\ t \in Transaction /\ t.pc = "apply" /\ t.repo = tx[c].repo /\ t.view = view
        /\ t.locked = tx[c].locked /\ t.made = tx[c].made
    BY <1>1, <2>4 DEF Transaction
  <2> HIDE DEF t
  <2>6. Connects(c) /\ conn'[c].pc = "use"
    BY <1>1, <2>1, QuietlyConnects DEF Quietly, At
  <2>7. Ready(t, conn'[c].pc)
    BY <1>1, <2>5, <2>6 DEF Ready
  <2>8. Consistent(t)
    BY <1>2, <2>2, <2>3, <2>4, <2>5 DEF Consistent, Known
  <2> QED
    BY <2>1, <2>5, <2>6, <2>7, <2>8, TransactionType, TransactionKeeps DEF Quietly, There
<1> QED
  BY <1>3, <1>4

\* A migration, and its row in the ledger.
LEMMA ApplyInv ==
    ASSUME IInv, NEW c \in Clients, Apply(c)
    PROVE  IInv'
<1> DEFINE rows == tx[c].view.ledger.rows
           next == tx[c].repo[Len(rows) + 1]
           t    == [tx[c] EXCEPT !.view.ledger.rows = Append(@, next),
                                 !.view.schema = @ \cup {next}]
<1>1. /\ At(c, "use") /\ tx[c] \in Transaction /\ Ready(tx[c], "use")
      /\ tx[c].pc = "apply" /\ StoreTypeOK /\ Consistent(tx[c])
  BY UnderWay, TransactionType DEF Apply, Tx, Serving
<1>2. /\ tx[c].view \in Views /\ tx[c].view.ledger \in Ledgers
      /\ rows \in Seq(Names) /\ tx[c].view.schema \subseteq Names
      /\ tx[c].repo \in Seq(Names) /\ IsPrefix(rows, tx[c].repo)
      /\ ~tampered => Telling(rows, tx[c].view.schema)
  BY <1>1 DEF Consistent, Views, Ledgers, Transaction
<1>3. Len(rows) < Len(tx[c].repo)
  <2>1. Len(rows) \in Nat /\ Len(tx[c].repo) \in Nat
    BY <1>2, LenProperties
  <2>2. Len(tx[c].repo) - Len(rows) > 0
    BY DEF Apply, Left
  <2> HIDE DEF rows
  <2> QED
    BY <2>1, <2>2
<1>4. /\ next \in Names /\ Append(rows, next) \in Seq(Names) /\ Append(rows, next) # <<>>
      /\ IsPrefix(Append(rows, next), tx[c].repo)
      /\ ToSet(Append(rows, next)) = ToSet(rows) \cup {next}
  BY <1>2, <1>3, PrefixAppend
<1>5. CASE next \in tx[c].view.schema /\ next # Baseline
  <2>1. Rollback(c) /\ UNCHANGED faults
    BY <1>5 DEF Apply
  <2> QED
    BY <2>1, RollbackInv, SameFaults
<1>6. CASE ~(next \in tx[c].view.schema /\ next # Baseline)
  <2>1. SetTx(c, t) /\ db' = db /\ UNCHANGED <<cvars, other, tampered>>
    BY <1>6 DEF Apply, InProgress
  <2>2. ~tampered => Telling(Append(rows, next), tx[c].view.schema \cup {next})
    <3>1. CASE rows = <<>>
      <4>1. tx[c].repo # <<>> /\ IsPrefix(tx[c].repo, All)
        BY <1>1 DEF Ready
      <4>2. tx[c].repo[1] = Baseline
        BY <1>2, <4>1, FirstMigration
      <4>3. next = Baseline
        BY <3>1, <4>2
      <4>4. ~tampered => tx[c].view.schema \subseteq {Baseline}
        BY <1>2, <3>1 DEF Telling
      <4>5. ToSet(Append(rows, next)) = {Baseline}
        BY <1>4, <3>1, <4>3, NoRows
      <4> QED
        BY <1>4, <4>3, <4>4, <4>5 DEF Telling
    <3>2. CASE rows # <<>>
      BY <1>2, <1>4, <3>2 DEF Telling
    <3> QED
      BY <3>1, <3>2
  <2> DEFINE ledger == [tx[c].view.ledger EXCEPT !.rows = Append(rows, next)]
             view   == [tx[c].view EXCEPT !.ledger = ledger, !.schema = @ \cup {next}]
  <2>3. t = [tx[c] EXCEPT !.view = view]
    BY <1>1, <1>2 DEF Transaction, Views, Ledgers
  <2> HIDE DEF t, rows, next
  <2>4. ledger \in Ledgers /\ ledger.rows = Append(rows, next)
    BY <1>2, <1>4 DEF Ledgers
  <2> HIDE DEF ledger
  <2>5. /\ view \in Views /\ view.ledger = ledger
        /\ view.schema = tx[c].view.schema \cup {next}
    BY <1>2, <1>4, <2>4 DEF Views
  <2> HIDE DEF view
  <2>6. /\ t \in Transaction /\ t.pc = "apply" /\ t.repo = tx[c].repo /\ t.view = view
        /\ t.locked = tx[c].locked /\ t.made = tx[c].made
    BY <1>1, <2>3, <2>5 DEF Transaction
  <2>7. Connects(c) /\ conn'[c].pc = "use"
    BY <1>1, <2>1, QuietlyConnects DEF At
  <2>8. Ready(t, conn'[c].pc)
    BY <1>1, <2>6, <2>7 DEF Ready
  <2>9. Consistent(t)
    BY <1>4, <2>2, <2>4, <2>5, <2>6 DEF Consistent
  <2> QED
    BY <2>1, <2>6, <2>7, <2>8, <2>9, TransactionType, TransactionKeeps DEF There
<1> QED
  BY <1>5, <1>6

\* What is committed instead of the database is consistent, and nobody else has
\* the ledger.
LEMMA CommittedInv ==
    ASSUME IInv, NEW c \in Clients, Tx(c, "apply"), Left(c) = 0,
           db' = tx[c].view, SetTx(c, NoTx), Quit(c), faults' \in 0 .. MaxFaults,
           UNCHANGED <<other, tampered>>
    PROVE  IInv'
<1> DEFINE rows == tx[c].view.ledger.rows
<1>1. /\ tx[c] \in Transaction /\ Ready(tx[c], "use") /\ At(c, "use")
      /\ tx[c].locked /\ There(c) /\ ConnTypeOK /\ StoreTypeOK /\ Linked
      /\ Consistent(tx[c]) /\ tx[c].pc = "apply"
  BY UnderWay, TransactionType DEF Tx, Serving, Ready
<1>2. /\ tx[c].view \in Views /\ tx[c].view.ledger \in Ledgers /\ rows \in Seq(Names)
      /\ tx[c].repo \in Seq(Names) /\ IsPrefix(rows, tx[c].repo)
      /\ tx[c].repo # <<>> /\ IsPrefix(tx[c].repo, All) /\ All \in Seq(Names)
      /\ ~tampered => Telling(rows, tx[c].view.schema)
  BY <1>1, CheckoutAssumption DEF Consistent, Views, Ledgers, Transaction, Ready
<1>3. IsPrefix(rows, All) /\ rows # <<>>
  <2>1. Len(rows) \in Nat /\ Len(tx[c].repo) \in Nat /\ Len(tx[c].repo) # 0
    BY <1>2, LenProperties, EmptySeq
  <2>2. Len(tx[c].repo) - Len(rows) = 0
    BY DEF Left
  <2>3. Len(rows) # 0
    BY <2>1, <2>2
  <2>4. rows # <<>>
    BY <1>2, <2>3, EmptySeq
  <2> HIDE DEF rows
  <2> QED
    BY <1>2, <2>4, PrefixTransitive
<1>4. db'.ledger = tx[c].view.ledger /\ db'.schema = tx[c].view.schema /\ db'.ledger # None
  BY <1>2, NoneAssumption
<1>5. LedgerTellsSchema'
  BY <1>2, <1>3, <1>4 DEF LedgerTellsSchema, Telling
<1>6. Connects(c) /\ conn'[c] = Closed
  BY <1>1, QuitKeeps DEF Connects
<1>7. tx'[c] = NoTx /\ \A d \in Clients \ {c} : tx'[d] = tx[d]
  BY <1>1 DEF SetTx, StoreTypeOK
<1>8. TypeOK' /\ Linked'
  <2>1. StoreTypeOK'
    BY <1>1, <1>2, NoTxType DEF SetTx, StoreTypeOK, Views
  <2> QED
    BY <1>6, <2>1, Types DEF Connects
<1>9. Staged' /\ Viewed'
  <2>1. ASSUME NEW d \in Clients
        PROVE  Ready(tx'[d], conn'[d].pc) /\ Consistent(tx'[d])
    <3>1. CASE d = c
      BY <1>6, <1>7, <3>1, NoTxType, ClosedType
    <3>2. CASE d # c
      BY <1>6, <1>7, <3>2 DEF Connects, IInv, Staged, Viewed
    <3> QED
      BY <3>1, <3>2
  <2> QED
    BY <2>1 DEF Staged, Viewed, Consistent
<1>10. Excluded'
  <2>1. ASSUME NEW d \in Clients PROVE ~tx'[d].locked /\ ~tx'[d].made
    <3>1. CASE d = c
      BY <1>7, <3>1, NoTxType
    <3>2. CASE d # c
      <4>1. tx'[d] = tx[d] /\ ~tx[d].locked
        BY <1>1, <1>7, <3>2 DEF IInv, Excluded
      <4>2. ~tx[d].made
        BY <1>1, <3>2 DEF IInv, Excluded, There
      <4> QED
        BY <4>1, <4>2
    <3> QED
      BY <3>1, <3>2
  <2> QED
    BY <2>1 DEF Excluded
<1> QED
  BY <1>5, <1>8, <1>9, <1>10 DEF IInv

\* The client is lost: its transaction goes on without it, is over, or has been
\* committed.
LEMMA LoseInv ==
    ASSUME IInv, NEW c \in Clients, Lose(c)
    PROVE  IInv'
<1>1. /\ tx[c] \in Transaction /\ Ready(tx[c], "use") /\ ConnTypeOK /\ Linked
      /\ Consistent(tx[c])
  BY TransactionType DEF Lose, At
<1>2. faults' \in 0 .. MaxFaults
  BY <1>1, FaultType DEF Lose
<1>3. Connects(c) /\ conn'[c] = Closed
  BY <1>1, <1>2, QuitKeeps DEF Lose, Connects
<1>4. CASE Serving(c) /\ GotoTx(c, "gone") /\ UNCHANGED db
  <2> DEFINE t == [tx[c] EXCEPT !.pc = "gone"]
  <2>1. /\ t \in Transaction /\ t.pc = "gone" /\ t.repo = tx[c].repo
        /\ t.locked = tx[c].locked /\ t.made = tx[c].made
    BY <1>1 DEF Transaction
  <2>2. SetTx(c, t)
    BY <1>4 DEF GotoTx
  <2> HIDE DEF t
  <2>3. Ready(t, conn'[c].pc) /\ Consistent(t)
    BY <1>1, <1>3, <2>1, ClosedType DEF Ready, Consistent
  <2> QED
    BY <1>3, <1>4, <2>1, <2>2, <2>3, TransactionType, TransactionKeeps DEF Lose, There
<1>5. CASE SetTx(c, NoTx) /\ UNCHANGED db
  BY <1>3, <1>5, NoTxType, ClosedType, TransactionKeeps DEF Lose
<1>6. CASE Tx(c, "apply") /\ Left(c) = 0 /\ db' = tx[c].view /\ SetTx(c, NoTx)
  BY <1>2, <1>6, CommittedInv DEF Lose
<1> QED
  BY <1>4, <1>5, <1>6 DEF Lose

LEMMA TransactingInv ==
    ASSUME IInv, NEW c \in Clients, Transacting(c) \/ StatementFails(c)
    PROVE  IInv'
<1>1. CASE Commit(c)
  BY <1>1, CommittedInv, SameFaults DEF Commit
<1>2. CASE Notice(c)
  <2>1. At(c, "idle")
    BY <1>2, TransactionType DEF Notice, Tx, Ready, At
  <2>2. Connects(c) /\ conn'[c].pc = "idle"
    BY <1>2, <2>1, QuietlyConnects DEF Notice, Quietly, At
  <2> QED
    BY <1>2, <2>2, NoTxType, TransactionKeeps DEF Notice, Quietly
<1>3. CASE StatementFails(c)
  BY <1>3, TransactionType, FaultType, RollbackInv DEF StatementFails
<1> QED
  BY <1>1, <1>2, <1>3, TakeAdvisoryInv, CreateInv, LockLedgerInv, ValidateInv, ApplyInv
     DEF Transacting

LEMMA RowsSet ==
    ASSUME NEW rows \in Seq(Names)
    PROVE  ToSet(rows) \subseteq Names
BY LenProperties, ElementOfSeq DEF ToSet

\* Another program begins only where no command has the ledger, and once it has
\* committed, nothing is promised of what it has left.
LEMMA OtherInv ==
    ASSUME IInv, OtherBegins \/ OtherEnds
    PROVE  IInv'
<1>1. ConnTypeOK /\ StoreTypeOK /\ Linked
  BY Types DEF IInv
<1>2. CASE OtherBegins
  <2>1. PICK ledger \in Change(db.ledger) : other' = [ledger |-> ledger]
    BY <1>2 DEF OtherBegins
  <2>2. /\ UNCHANGED <<conn, sockets, db, tx, tampered>> /\ ~Creating
        /\ \A c \in Clients : ~tx[c].locked
    BY <1>2 DEF OtherBegins
  <2>3. ledger \in Ledgers \cup {None}
    <3>1. "rogue" \in Names
      BY DEF Names
    <3>2. <<"rogue">> \in Seq(Names) /\ <<>> \in Seq(Names)
      BY <3>1
    <3>3. \A rows \in Seq(Names) : \A shape \in {"legacy", "current", "rogue"} :
              Ledger(shape, rows) \in Ledgers
      BY DEF Ledger, Ledgers
    <3>4. CASE db.ledger = None
      BY <2>1, <3>2, <3>3, <3>4 DEF Change
    <3>5. CASE db.ledger # None
      <4>1. db.ledger \in Ledgers
        BY <1>1, <3>5 DEF StoreTypeOK
      <4>2. /\ Append(db.ledger.rows, "rogue") \in Seq(Names)
            /\ db.ledger.shape \in {"legacy", "current", "rogue"}
        BY <3>1, <4>1, AppendProperties DEF Ledgers
      <4> QED
        BY <2>1, <3>2, <3>3, <3>5, <4>2 DEF Change
    <3> QED
      BY <3>4, <3>5
  <2>4. faults' \in 0 .. MaxFaults
    BY <1>1, <1>2, FaultType DEF OtherBegins
  <2>5. TypeOK'
    <3>1. ConnTypeOK'
      BY <1>1, <2>2, <2>4 DEF ConnTypeOK
    <3>2. StoreTypeOK'
      BY <1>1, <2>1, <2>2, <2>3 DEF StoreTypeOK
    <3> QED
      BY <3>1, <3>2, Types
  <2>6. Linked' /\ Staged' /\ Viewed' /\ LedgerTellsSchema'
    BY <2>2 DEF IInv, Linked, At, Staged, Viewed, Consistent, LedgerTellsSchema
  <2>7. Excluded'
    BY <2>2 DEF IInv, Excluded, Creating
  <2> QED
    BY <2>5, <2>6, <2>7 DEF IInv
<1>3. CASE OtherEnds
  <2>1. other # None /\ other' = None /\ UNCHANGED <<cvars, tx>>
    BY <1>3 DEF OtherEnds
  <2>2. \A c \in Clients : ~tx[c].locked /\ ~tx[c].made
    BY <2>1 DEF IInv, Excluded
  <2>3. \/ db' = [db EXCEPT !.ledger = other.ledger] /\ tampered' = TRUE
        \/ UNCHANGED <<db, tampered>>
    BY <1>3 DEF OtherEnds
  <2>4. TypeOK'
    <3>1. ConnTypeOK'
      BY <1>1, <2>1 DEF ConnTypeOK, cvars
    <3>2. other.ledger \in Ledgers \cup {None}
      BY <1>1, <2>1 DEF StoreTypeOK
    <3>3. StoreTypeOK'
      BY <1>1, <2>1, <2>3, <3>2 DEF StoreTypeOK
    <3> QED
      BY <3>1, <3>3, Types
  <2>5. Linked' /\ Staged'
    BY <2>1 DEF IInv, Linked, At, Staged, cvars
  <2>6. Excluded'
    BY <2>1, <2>2 DEF Excluded
  <2>7. tampered' \/ UNCHANGED <<db, tampered>>
    BY <2>3
  <2>8. Viewed' /\ LedgerTellsSchema'
    <3>1. CASE tampered'
      BY <2>1, <3>1 DEF IInv, Viewed, Consistent, LedgerTellsSchema
    <3>2. CASE UNCHANGED <<db, tampered>>
      BY <2>1, <3>2 DEF IInv, Viewed, Consistent, LedgerTellsSchema
    <3> QED
      BY <2>7, <3>1, <3>2
  <2> QED
    BY <2>4, <2>5, <2>6, <2>8 DEF IInv
<1> QED
  BY <1>2, <1>3

----------------------------------------------------------------------------
(* The theorems *)

LEMMA InitInv == Init => IInv
<1> SUFFICES ASSUME Init PROVE IInv
  OBVIOUS
<1>1. ConnTypeOK /\ Linked
  BY Numbers, ClosedType DEF Init, Disconnected, ConnTypeOK, Linked, At
<1>2. /\ db \in [ledger : Ledgers \cup {None}, schema : SUBSET Names]
      /\ LedgerTellsSchema
  <2>1. CASE \E schema \in {{}, {Baseline}} : db = [ledger |-> None, schema |-> schema]
    BY <2>1, BaselineType DEF LedgerTellsSchema
  <2>2. ASSUME NEW n \in 1 .. Len(All),
               db = [ledger |-> Ledger("legacy", SubSeq(All, 1, n)),
                     schema |-> ToSet(SubSeq(All, 1, n))]
        PROVE  /\ db \in [ledger : Ledgers \cup {None}, schema : SUBSET Names]
               /\ LedgerTellsSchema
    <3> DEFINE rows == SubSeq(All, 1, n)
    <3>1. rows \in Seq(Names) /\ IsPrefix(rows, All)
      BY PrefixOfAll
    <3>2. db = [ledger |-> Ledger("legacy", rows), schema |-> ToSet(rows)]
      BY <2>2
    <3> HIDE DEF rows
    <3>3. Ledger("legacy", rows) \in Ledgers /\ ToSet(rows) \subseteq Names
      BY <3>1, RowsSet DEF Ledger, Ledgers
    <3>4. Ledger("legacy", rows).rows = rows /\ Ledger("legacy", rows) # None
      BY <3>3, NoneAssumption DEF Ledger
    <3> QED
      BY <3>1, <3>2, <3>3, <3>4 DEF LedgerTellsSchema
  <2>3. db \in Installed
    BY DEF Init
  <2> QED
    BY <2>1, <2>2, <2>3 DEF Installed
<1>3. TypeOK
  <2>1. StoreTypeOK
    BY <1>2, NoTxType DEF Init, StoreTypeOK
  <2> QED
    BY <1>1, <2>1, Types
<1>4. Excluded /\ Staged /\ Viewed
  <2>1. \A c \in Clients : tx[c] = NoTx /\ conn[c].pc = "idle"
    BY ClosedType DEF Init, Disconnected
  <2> QED
    BY <2>1, NoTxType DEF Excluded, Staged, Viewed
<1> QED
  BY <1>1, <1>2, <1>3, <1>4 DEF IInv

LEMMA StepInv == IInv /\ [Next]_vars => IInv'
<1> SUFFICES ASSUME IInv, [Next]_vars PROVE IInv'
  OBVIOUS
<1>1. ASSUME NEW c \in Clients, NEW n \in Checkouts[c], Begin(c, n)
      PROVE  IInv'
  BY <1>1, BeginInv
<1>2. ASSUME NEW c \in Clients, Connecting(c) PROVE IInv'
  BY <1>2, ConnectingInv
<1>3. ASSUME NEW c \in Clients, Transacting(c) \/ StatementFails(c) PROVE IInv'
  BY <1>3, TransactingInv
<1>4. ASSUME NEW c \in Clients, Lose(c) PROVE IInv'
  BY <1>4, LoseInv
<1>5. CASE OtherBegins \/ OtherEnds
  BY <1>5, OtherInv
<1>6. CASE UNCHANGED vars
  BY <1>6 DEF IInv, TypeOK, Linked, At, Excluded, There, Staged, Viewed, Consistent,
              LedgerTellsSchema, vars, cvars
<1> QED
  BY <1>1, <1>2, <1>3, <1>4, <1>5, <1>6 DEF Next

\* The inductive invariant holds, whatever faults occur (lib/database.ml,
\* with_remote_connection and apply_migrations).
THEOREM MigrationInvariance == Spec => []IInv
BY InitInv, StepInv, PTL DEF Spec

\* Every connection, every transaction and the database stay well formed.
THEOREM TypeCorrectness == Spec => []TypeOK
<1>1. IInv => TypeOK
  BY DEF IInv
<1> QED
  BY <1>1, MigrationInvariance, PTL

\* A command that uses a connection has that one and no other open, and one that
\* has ended has none (race_remote_connections, protect_connection).
THEOREM SessionsClosed == Spec => []OneSession
<1>1. IInv => OneSession
  <2> SUFFICES ASSUME IInv, NEW c \in Clients
               PROVE  /\ At(c, "idle") => sockets[c] = {}
                      /\ At(c, "use") => Cardinality(sockets[c]) = 1
                      /\ At(c, "use") => sockets[c] = conn[c].opened
    BY DEF OneSession
  <2>1. /\ sockets[c] = conn[c].opened
        /\ At(c, "idle") => conn[c].opened = {}
        /\ At(c, "use") => \E id \in 1 .. Hosts : conn[c].opened = {id}
    BY DEF IInv, Linked
  <2>2. At(c, "use") => Cardinality(sockets[c]) = 1
    BY <2>1, FS_Singleton
  <2> QED
    BY <2>1, <2>2
<1> QED
  BY <1>1, MigrationInvariance, PTL

\* Where no other program has changed the ledger, it tells which migrations the
\* schema has, at any moment and after any failure (apply_migrations).
THEOREM LedgerIsTrue == Spec => []LedgerTellsSchema
<1>1. IInv => LedgerTellsSchema
  BY DEF IInv
<1> QED
  BY <1>1, MigrationInvariance, PTL

\* Two commands never have the ledger at once, and neither has a command and
\* another program: between validate_ledger_rows and COMMIT nobody can change
\* what was validated (lock_ledger).
THEOREM LedgerExclusive == Spec => []Excluded
<1>1. IInv => Excluded
  BY DEF IInv
<1> QED
  BY <1>1, MigrationInvariance, PTL
============================================================================
