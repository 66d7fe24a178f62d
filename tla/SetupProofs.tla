---------------------------- MODULE SetupProofs ----------------------------
(***************************************************************************)
(* setup-local, in three parts.  The launcher executes the runtime of its  *)
(* lock, whatever is released, served, switched, killed or cut off.  kb    *)
(* trusts a build of Amp only if it has passed both gates, and what a      *)
(* setup reported is on the disk, with one write into the executable.      *)
(* When a call of a program has returned nothing it caused is running, it  *)
(* has signalled no group but its own, and git got all of an answer or     *)
(* none.  All for any number of setups, locks, archives, builds, answers,  *)
(* requests and faults.                                                    *)
(***************************************************************************)
EXTENDS RuntimeInstall, Enrollment, Command, TLAPS


----------------------------------------------------------------------------
(***************************************************************************)
(* RuntimeInstall                                                          *)
(***************************************************************************)

\* The archive of a lock's manifest is what the server has, and its entries are
\* those the manifest lists.
Checked(l) ==
  LET entry == Selected(l.digest) IN
  /\ Served[entry.url] = entry.digest
  /\ ArchiveEntries(Archive[entry.digest], entry)

\* What the launcher needs to be true of an installation: it stands under the
\* digest of the archive it was extracted from, and that archive was checked
\* against the manifest of some lock.
FromArchive(installation, d) ==
  /\ installation.archive = d
  /\ \E l \in Locks : Selected(l.digest).digest = d /\ Checked(l)

\* Of one setup: once it runs it has read a lock, before it installs it has
\* checked an archive, and what it flushes is there.
Knows(s) ==
  /\ setup[s].at \notin {"idle", "failed"} => setup[s].lock \in Locks
  /\ setup[s].at = "install" => Checked(setup[s].lock)
  /\ setup[s].at = "link" => setup[s].temporary \in Manifests \cup {"cut short"}
  /\ setup[s].at = "flush" =>
       \A d \in Archives : Record(s).digest = d => runtimes[d].at # "absent"
  /\ setup[s].at = "sync" => manifests[setup[s].lock.digest].at # "absent"

IInv ==
  /\ TypeOK
  /\ \A s \in Setups : Knows(s)
  /\ \A d \in Archives : runtimes[d].at # "absent" => FromArchive(runtimes[d], d)

----------------------------------------------------------------------------
LEMMA Initially == Init => IInv
<1>. SUFFICES ASSUME Init PROVE IInv
  OBVIOUS
<1>1. TypeOK
  BY DEF Init, TypeOK, Idle, Runs, Places
<1>2. \A s \in Setups : Knows(s)
  BY DEF Init, Knows, Idle
<1>3. \A d \in Archives : runtimes[d].at = "absent"
  BY DEF Init, Absent
<1>. QED BY <1>1, <1>2, <1>3 DEF IInv
----------------------------------------------------------------------------
(* A setup that goes on, ends or fails                                      *)

\* A step that leaves what is shared as it was, and moves one setup to a place
\* where nothing has to be known of it but its lock.
LEMMA Quiet ==
  ASSUME IInv, lock' \in Locks, UNCHANGED <<manifests, runtimes>>,
         directories' \in BOOLEAN,
         NEW s \in Setups, NEW new, setup' = [setup EXCEPT ![s] = new],
         new \in Runs,
         new.at \notin {"idle", "failed"} => new.lock \in Locks,
         new.at = "install" => Checked(new.lock),
         new.at = "link" => new.temporary \in Manifests \cup {"cut short"},
         new.at \notin {"flush", "sync"}
  PROVE  IInv'
<1>1. TypeOK'
  BY DEF IInv, TypeOK
<1>2. ASSUME NEW t \in Setups PROVE Knows(t)'
  <2>1. CASE t = s
    BY <2>1 DEF IInv, TypeOK, Knows
  <2>2. CASE t # s
    <3>1. setup'[t] = setup[t]
      BY <2>2 DEF IInv, TypeOK
    <3>2. Knows(t)
      BY DEF IInv
    <3>. QED BY <3>1, <3>2 DEF Knows, Record
  <2>. QED BY <2>1, <2>2
<1>3. \A d \in Archives : runtimes'[d].at # "absent" => FromArchive(runtimes'[d], d)
  BY DEF IInv
<1>. QED BY <1>1, <1>2, <1>3 DEF IInv

\* The same for the two ways in which most steps end.
LEMMA Going ==
  ASSUME IInv, UNCHANGED <<lock, manifests, runtimes>>, directories' \in BOOLEAN,
         NEW s \in Setups, setup[s].lock \in Locks,
         NEW place \in Places \ {"idle", "failed", "install", "link", "flush", "sync"},
         Goes(s, place)
  PROVE  IInv'
<1>. DEFINE new == [setup[s] EXCEPT !.at = place]
<1>1. setup' = [setup EXCEPT ![s] = new]
  BY DEF Goes
<1>2. /\ new \in Runs
      /\ new.at = place /\ new.lock \in Locks
  BY DEF IInv, TypeOK, Runs
<1>3. lock' \in Locks
  BY DEF IInv, TypeOK
<1>. HIDE DEF new
<1>. QED BY <1>1, <1>2, <1>3, Quiet

LEMMA Ending ==
  ASSUME IInv, UNCHANGED <<lock, manifests, runtimes>>, directories' \in BOOLEAN,
         NEW s \in Setups, NEW place \in {"idle", "failed"},
         setup' = [setup EXCEPT ![s] = [Idle EXCEPT !.at = place]]
  PROVE  IInv'
<1>. DEFINE new == [Idle EXCEPT !.at = place]
<1>2. /\ new \in Runs
      /\ new.at = place
  BY DEF Idle, Places, Runs
<1>3. lock' \in Locks /\ setup' = [setup EXCEPT ![s] = new]
  BY DEF IInv, TypeOK
<1>. HIDE DEF new
<1>. QED BY <1>2, <1>3, Quiet

----------------------------------------------------------------------------
(* The steps of a setup                                                     *)

LEMMA PrivateSteps ==
  ASSUME IInv, NEW s \in Setups, UNCHANGED world,
         \/ ReadLock(s) \/ LookForDirectories(s) \/ MakeDirectories(s)
         \/ FetchManifest(s) \/ LookForInstallation(s) \/ FetchArchive(s)
         \/ LookForManifest(s) \/ Launch(s) \/ Report(s) \/ Rerun(s)
  PROVE  IInv'
<1>. USE DEF shared, world, At
<1>0. /\ directories \in BOOLEAN /\ lock \in Locks
      /\ setup[s] \in Runs
      /\ setup[s].at \notin {"idle", "failed"} => setup[s].lock \in Locks
  BY DEF IInv, TypeOK, Knows
<1>1. ASSUME Fails(s), UNCHANGED <<manifests, runtimes>>, directories' \in BOOLEAN
      PROVE  IInv'
  BY <1>1, Ending DEF Fails
<1>2. CASE ReadLock(s)
  <2>1. CASE Fails(s)
    BY <1>0, <1>1, <1>2, <2>1 DEF ReadLock
  <2>2. CASE setup' = [setup EXCEPT ![s].at = "directories", ![s].lock = lock]
    <3>. DEFINE new == [setup[s] EXCEPT !.at = "directories", !.lock = lock]
    <3>1. /\ setup' = [setup EXCEPT ![s] = new]
          /\ new \in Runs
          /\ new.at = "directories" /\ new.lock \in Locks
      BY <1>0, <2>2 DEF Places, Runs
    <3>2. UNCHANGED <<directories, manifests, runtimes>> /\ lock' \in Locks
      BY <1>0, <1>2 DEF ReadLock
    <3>. HIDE DEF new
    <3>. QED BY <1>0, <3>1, <3>2, Quiet
  <2>. QED BY <1>2, <2>1, <2>2 DEF ReadLock
<1>3. CASE LookForDirectories(s)
  BY <1>0, <1>3, Going DEF LookForDirectories, Places
<1>4. CASE MakeDirectories(s)
  BY <1>0, <1>1, <1>4, Going DEF MakeDirectories, Places
<1>5. CASE FetchManifest(s)
  BY <1>0, <1>1, <1>5, Going DEF FetchManifest, Places
<1>6. CASE LookForInstallation(s)
  BY <1>0, <1>6, Going DEF LookForInstallation, Places
<1>7. CASE FetchArchive(s)
  <2>1. CASE Fails(s)
    BY <1>0, <1>1, <1>7, <2>1 DEF FetchArchive
  <2>2. CASE /\ Checked(setup[s].lock)
             /\ setup' = [setup EXCEPT ![s].at = "install", ![s].changed = TRUE]
    <3>. DEFINE new == [setup[s] EXCEPT !.at = "install", !.changed = TRUE]
    <3>1. /\ setup' = [setup EXCEPT ![s] = new]
          /\ new \in Runs
          /\ new.at = "install" /\ new.lock = setup[s].lock
      BY <1>0, <2>2 DEF Places, Runs
    <3>2. /\ UNCHANGED <<directories, manifests, runtimes>> /\ lock' \in Locks
          /\ setup[s].lock \in Locks
      BY <1>0, <1>7 DEF FetchArchive
    <3>. HIDE DEF new
    <3>. QED BY <1>0, <2>2, <3>1, <3>2, Quiet
  <2>. QED BY <1>7, <2>1, <2>2
    DEF FetchArchive, Checked, Record, ExtractArchive, VerifyDigest
<1>8. CASE LookForManifest(s)
  <2>. DEFINE wanted == setup[s].lock.digest
  <2>1. CASE Fails(s)
    BY <1>0, <1>1, <1>8, <2>1 DEF LookForManifest
  <2>2. CASE Goes(s, "launch")
    BY <1>0, <1>8, <2>2, Going DEF LookForManifest, Places
  <2>3. ASSUME NEW file \in {wanted, "cut short"},
               setup' = [setup EXCEPT ![s].at = "link", ![s].temporary = file]
        PROVE  IInv'
    <3>. DEFINE new == [setup[s] EXCEPT !.at = "link", !.temporary = file]
    <3>1. setup[s].lock \in Locks /\ wanted \in Manifests
      BY <1>0, <1>8 DEF LookForManifest, Manifests
    <3>2. /\ setup' = [setup EXCEPT ![s] = new]
          /\ new \in Runs
          /\ new.at = "link" /\ new.lock \in Locks /\ new.temporary = file
      BY <1>0, <2>3, <3>1 DEF Places, Runs
    <3>3. UNCHANGED <<directories, manifests, runtimes>> /\ lock' \in Locks
      BY <1>0, <1>8 DEF LookForManifest
    <3>. HIDE DEF new
    <3>. QED BY <1>0, <3>1, <3>2, <3>3, Quiet
  <2>. QED BY <1>8, <2>1, <2>2, <2>3 DEF LookForManifest
<1>9. CASE Launch(s)
  BY <1>0, <1>1, <1>9, Going DEF Launch, Places
<1>10. CASE Report(s)
  BY <1>0, <1>1, <1>10, Going DEF Report, Places
<1>11. CASE Rerun(s)
  <2>1. /\ Idle \in Runs
        /\ Idle.at = "idle"
    BY DEF Idle, Places, Runs
  <2>. QED BY <1>0, <1>11, <2>1, Quiet DEF Rerun
<1>. QED BY <1>2, <1>3, <1>4, <1>5, <1>6, <1>7, <1>8, <1>9, <1>10, <1>11

\* A step that adds to the installations or the manifests, or flushes some: what
\* was there is there still, and one setup has taken its next step.
LEMMA Adding ==
  ASSUME IInv, UNCHANGED <<lock, directories>>,
         manifests' \in [Manifests -> {Absent} \cup CachedFiles],
         runtimes' \in [Archives -> {Absent} \cup Installations],
         \A m \in Manifests : manifests[m].at # "absent" => manifests'[m].at # "absent",
         \A d \in Archives : runtimes[d].at # "absent" => runtimes'[d].at # "absent",
         \A d \in Archives : runtimes'[d].at # "absent" => FromArchive(runtimes'[d], d),
         NEW s \in Setups, NEW new \in Runs, setup' = [setup EXCEPT ![s] = new],
         new.lock \in Locks, new.at \notin {"install", "link"},
         new.at = "flush" => \A d \in Archives :
           Selected(new.lock.digest).digest = d => runtimes'[d].at # "absent",
         new.at = "sync" => manifests'[new.lock.digest].at # "absent"
  PROVE  IInv'
<1>1. TypeOK'
  BY DEF IInv, TypeOK
<1>2. ASSUME NEW t \in Setups PROVE Knows(t)'
  <2>1. CASE t = s
    <3>1. setup'[t] = new
      BY <2>1 DEF IInv, TypeOK
    <3>. QED BY <3>1 DEF Knows, Record
  <2>2. CASE t # s
    <3>1. setup'[t] = setup[t] /\ Knows(t)
      BY <2>2 DEF IInv, TypeOK
    <3>2. setup[t].at = "sync" => setup[t].lock.digest \in Manifests
      BY <3>1 DEF Knows, Manifests
    <3>. QED BY <3>1, <3>2 DEF Knows, Record
  <2>. QED BY <2>1, <2>2
<1>. QED BY <1>1, <1>2 DEF IInv

\* What is known of the setup that takes a step, and where it goes.
LEMMA Standing ==
  ASSUME IInv, NEW s \in Setups, setup[s].at \notin {"idle", "failed"}
  PROVE  /\ setup[s] \in Runs /\ setup[s].lock \in Locks /\ Knows(s)
         /\ setup[s].lock.digest \in Manifests
BY DEF IInv, TypeOK, Knows, Manifests

LEMMA InstallStep ==
  ASSUME IInv, NEW s \in Setups, UNCHANGED world, Install(s)
  PROVE  IInv'
<1>. USE DEF shared, world, At
<1>. DEFINE digest == Record(s).digest
<1>0. /\ setup[s] \in Runs /\ setup[s].lock \in Locks /\ Checked(setup[s].lock)
      /\ directories \in BOOLEAN
  BY Standing DEF Install, Knows, IInv, TypeOK
<1>1. CASE runtimes[digest].at # "absent"
  <2>1. Goes(s, "cache") \/ Fails(s)
    BY <1>1 DEF Install
  <2>2. UNCHANGED <<directories, lock, manifests, runtimes>>
    BY <1>1 DEF Install
  <2>. QED BY <1>0, <2>1, <2>2, Going, Ending DEF Fails, Places
<1>2. CASE runtimes[digest].at = "absent"
  <2>. DEFINE new == [setup[s] EXCEPT !.at = "flush"]
  <2>1. /\ runtimes' = [runtimes EXCEPT ![digest] = Payload(s)]
        /\ setup' = [setup EXCEPT ![s] = new]
        /\ UNCHANGED <<directories, lock, manifests>>
    BY <1>2 DEF Install, Goes
  <2>2. new \in Runs /\ new.at = "flush" /\ new.lock = setup[s].lock
    BY <1>0 DEF Runs, Places
  <2>3. /\ Payload(s).at = "fresh" /\ FromArchive(Payload(s), digest)
        /\ digest \in Archives => Payload(s) \in Installations
    BY <1>0 DEF Payload, Checked, FromArchive, Record, Installations
  <2>4. runtimes \in [Archives -> {Absent} \cup Installations]
    BY DEF IInv, TypeOK
  <2>5. \A d \in Archives :
          runtimes'[d] = IF d = digest THEN Payload(s) ELSE runtimes[d]
    BY <2>1, <2>4
  <2>6. runtimes' \in [Archives -> {Absent} \cup Installations]
    BY <2>1, <2>3, <2>4
  <2>7. \A d \in Archives : runtimes'[d].at # "absent" => FromArchive(runtimes'[d], d)
    BY <2>3, <2>5 DEF IInv
  <2>8. \A d \in Archives : runtimes[d].at # "absent" => runtimes'[d].at # "absent"
    BY <2>3, <2>5
  <2>9. \A d \in Archives :
          Selected(new.lock.digest).digest = d => runtimes'[d].at # "absent"
    BY <2>2, <2>3, <2>5 DEF Record
  <2>10. manifests' \in [Manifests -> {Absent} \cup CachedFiles]
    BY <2>1 DEF IInv, TypeOK
  <2>. HIDE DEF new
  <2>. QED BY <1>0, <2>1, <2>2, <2>6, <2>7, <2>8, <2>9, <2>10, Adding
<1>. QED BY <1>1, <1>2

LEMMA FlushStep ==
  ASSUME IInv, NEW s \in Setups, UNCHANGED world, FlushRuntimes(s)
  PROVE  IInv'
<1>. USE DEF shared, world, At
<1>. DEFINE digest == Record(s).digest
            new == [setup[s] EXCEPT !.at = "cache"]
<1>0. /\ setup[s] \in Runs /\ setup[s].lock \in Locks
      /\ \A d \in Archives : digest = d => runtimes[d].at # "absent"
  BY Standing DEF FlushRuntimes, Knows
<1>1. /\ runtimes' = [runtimes EXCEPT ![digest].at = "named"]
      /\ setup' = [setup EXCEPT ![s] = new]
      /\ UNCHANGED <<directories, lock, manifests>>
  BY DEF FlushRuntimes, Goes
<1>2. new \in Runs /\ new.at = "cache" /\ new.lock = setup[s].lock
  BY <1>0 DEF Runs, Places
<1>3. runtimes \in [Archives -> {Absent} \cup Installations]
  BY DEF IInv, TypeOK
<1>4. \A d \in Archives :
        runtimes'[d] = IF d = digest THEN [runtimes[d] EXCEPT !.at = "named"]
                       ELSE runtimes[d]
  BY <1>1, <1>3
<1>5. ASSUME NEW d \in Archives, runtimes[d].at # "absent"
      PROVE  /\ [runtimes[d] EXCEPT !.at = "named"] \in Installations
             /\ [runtimes[d] EXCEPT !.at = "named"].at # "absent"
             /\ [runtimes[d] EXCEPT !.at = "named"].archive = runtimes[d].archive
  <2>1. runtimes[d] \in Installations
    BY <1>3, <1>5 DEF Absent
  <2>. QED BY <2>1 DEF Installations
<1>6. runtimes' \in [Archives -> {Absent} \cup Installations]
  <2>1. \A d \in Archives : runtimes'[d] \in {Absent} \cup Installations
    BY <1>0, <1>3, <1>4, <1>5
  <2>. QED BY <1>1, <1>3, <2>1
<1>7. \A d \in Archives : runtimes[d].at # "absent" => runtimes'[d].at # "absent"
  BY <1>4, <1>5
<1>8. \A d \in Archives : runtimes'[d].at # "absent" => FromArchive(runtimes'[d], d)
  BY <1>0, <1>4, <1>5 DEF IInv, FromArchive
<1>9. manifests' \in [Manifests -> {Absent} \cup CachedFiles]
  BY <1>1 DEF IInv, TypeOK
<1>. HIDE DEF new
<1>. QED BY <1>0, <1>1, <1>2, <1>6, <1>7, <1>8, <1>9, Adding

LEMMA ManifestSteps ==
  ASSUME IInv, NEW s \in Setups, UNCHANGED world, LinkManifest(s) \/ SyncManifests(s)
  PROVE  IInv'
<1>. USE DEF shared, world, At
<1>. DEFINE wanted == setup[s].lock.digest
<1>0. /\ setup[s] \in Runs /\ setup[s].lock \in Locks /\ wanted \in Manifests
      /\ Knows(s) /\ directories \in BOOLEAN
  BY Standing DEF LinkManifest, SyncManifests, IInv, TypeOK
<1>1. /\ manifests \in [Manifests -> {Absent} \cup CachedFiles]
      /\ runtimes \in [Archives -> {Absent} \cup Installations]
      /\ \A d \in Archives : runtimes[d].at # "absent" => FromArchive(runtimes[d], d)
  BY DEF IInv, TypeOK
<1>2. ASSUME NEW new \in Runs, new.lock = setup[s].lock, new.at \in {"sync", "launch"},
             setup' = [setup EXCEPT ![s] = new],
             NEW entry \in CachedFiles, entry.at # "absent",
             manifests' = [manifests EXCEPT ![wanted] = entry],
             UNCHANGED <<directories, runtimes>>
      PROVE  IInv'
  <2>1. manifests'[wanted] = entry
    BY <1>0, <1>1, <1>2
  <2>2. /\ manifests' \in [Manifests -> {Absent} \cup CachedFiles]
        /\ \A m \in Manifests : manifests[m].at # "absent" => manifests'[m].at # "absent"
    BY <1>1, <1>2
  <2>. QED BY <1>0, <1>1, <1>2, <2>1, <2>2, Adding
<1>3. CASE LinkManifest(s)
  <2>1. CASE manifests[wanted].at # "absent"
    BY <1>0, <1>3, <2>1, Ending DEF LinkManifest, Fails
  <2>2. CASE manifests[wanted].at = "absent"
    <3>. DEFINE new == [setup[s] EXCEPT !.at = "sync"]
                entry == [at |-> "fresh", file |-> setup[s].temporary]
    <3>1. /\ setup' = [setup EXCEPT ![s] = new]
          /\ manifests' = [manifests EXCEPT ![wanted] = entry]
          /\ UNCHANGED <<directories, runtimes>>
      BY <1>3, <2>2 DEF LinkManifest, Goes
    <3>2. new \in Runs /\ new.at = "sync" /\ new.lock = setup[s].lock
      BY <1>0 DEF Runs, Places
    <3>3. entry \in CachedFiles /\ entry.at # "absent"
      BY <1>0, <1>3 DEF LinkManifest, Knows, CachedFiles
    <3>. HIDE DEF new, entry
    <3>. QED BY <1>2, <3>1, <3>2, <3>3
  <2>. QED BY <2>1, <2>2
<1>4. CASE SyncManifests(s)
  <2>. DEFINE new == [setup[s] EXCEPT !.at = "launch", !.temporary = "none"]
              entry == [manifests[wanted] EXCEPT !.at = "named"]
  <2>1. /\ setup' = [setup EXCEPT ![s] = new]
        /\ manifests' = [manifests EXCEPT ![wanted] = entry]
        /\ UNCHANGED <<directories, runtimes>>
    BY <1>4 DEF SyncManifests
  <2>2. new \in Runs /\ new.at = "launch" /\ new.lock = setup[s].lock
    BY <1>0 DEF Runs, Places
  <2>3. manifests[wanted] \in CachedFiles
    BY <1>0, <1>1, <1>4 DEF SyncManifests, Knows, Absent
  <2>4. entry \in CachedFiles /\ entry.at # "absent"
    BY <2>3 DEF CachedFiles
  <2>. HIDE DEF new, entry
  <2>. QED BY <1>2, <2>1, <2>2, <2>4
<1>. QED BY <1>3, <1>4
----------------------------------------------------------------------------
(* The owner and the faults                                                 *)

LEMMA SwitchStep == IInv /\ SwitchLock => IInv'
<1>. SUFFICES ASSUME IInv, SwitchLock PROVE IInv'
  OBVIOUS
<1>1. lock' \in Locks /\ UNCHANGED <<directories, manifests, runtimes, setup>>
  BY DEF SwitchLock, shared
<1>2. TypeOK'
  BY <1>1 DEF IInv, TypeOK
<1>3. \A s \in Setups : Knows(s)'
  BY <1>1 DEF IInv, Knows, Record
<1>. QED BY <1>1, <1>2, <1>3 DEF IInv

LEMMA KillStep == ASSUME IInv, NEW s \in Setups, Kill(s) PROVE IInv'
<1>1. directories' \in BOOLEAN /\ UNCHANGED <<lock, manifests, runtimes>>
  BY DEF IInv, TypeOK, Kill, shared, world
<1>. QED BY <1>1, Ending DEF Kill, Fails

\* After a power cut nothing is there that was not there before.
LEMMA PowerCutStep == IInv /\ PowerCut => IInv'
<1>. SUFFICES ASSUME IInv, PowerCut PROVE IInv'
  OBVIOUS
<1>1. PICK lost \in SUBSET Unflushed(manifests), gone \in SUBSET Unflushed(runtimes),
           blank \in SUBSET Unmarked :
        /\ manifests' = [m \in Manifests |->
             IF m \in lost \/ manifests[m] = Absent THEN Absent
             ELSE [manifests[m] EXCEPT !.at = "named"]]
        /\ runtimes' = [d \in Archives |->
             IF d \in gone \/ runtimes[d] = Absent THEN Absent
             ELSE [runtimes[d] EXCEPT !.at = "named", !.kept = TRUE,
                                      !.marker = IF d \in blank THEN "blank" ELSE @]]
  BY DEF PowerCut
<1>2. /\ setup' = [s \in Setups |-> [Idle EXCEPT !.at = "failed"]]
      /\ UNCHANGED <<directories, lock>>
  BY DEF PowerCut, world
<1>3. /\ manifests \in [Manifests -> {Absent} \cup CachedFiles]
      /\ runtimes \in [Archives -> {Absent} \cup Installations]
  BY DEF IInv, TypeOK
<1>4. manifests' \in [Manifests -> {Absent} \cup CachedFiles]
  <2>1. ASSUME NEW m \in Manifests, manifests[m] # Absent
        PROVE  [manifests[m] EXCEPT !.at = "named"] \in CachedFiles
    BY <1>3, <2>1 DEF CachedFiles
  <2>. QED BY <1>1, <2>1
<1>5. ASSUME NEW d \in Archives
      PROVE  /\ runtimes'[d] \in {Absent} \cup Installations
             /\ runtimes'[d].at # "absent" => FromArchive(runtimes'[d], d)
  <2>1. CASE d \in gone \/ runtimes[d] = Absent
    BY <1>1, <2>1 DEF Absent
  <2>2. CASE ~(d \in gone \/ runtimes[d] = Absent)
    <3>1. runtimes[d] \in Installations
      BY <1>3, <2>2
    <3>2. runtimes[d].archive = d /\ FromArchive(runtimes[d], d)
      BY <3>1 DEF IInv, Installations, FromArchive
    <3>3. \/ runtimes'[d] = [runtimes[d] EXCEPT !.at = "named", !.kept = TRUE,
                                                !.marker = "blank"]
          \/ runtimes'[d] = [runtimes[d] EXCEPT !.at = "named", !.kept = TRUE,
                                                !.marker = runtimes[d].marker]
      BY <1>1, <2>2
    <3>4. runtimes'[d] \in Installations /\ runtimes'[d].archive = d
      BY <3>1, <3>2, <3>3 DEF Installations
    <3>. QED BY <3>2, <3>4 DEF FromArchive
  <2>. QED BY <2>1, <2>2
<1>6. runtimes' \in [Archives -> {Absent} \cup Installations]
  <2>1. runtimes' = [d \in Archives |-> runtimes'[d]]
    BY <1>1
  <2>. QED BY <1>5, <2>1
<1>7. [Idle EXCEPT !.at = "failed"] \in Runs /\ [Idle EXCEPT !.at = "failed"].at = "failed"
  BY DEF Idle, Places, Runs
<1>8. TypeOK'
  BY <1>2, <1>4, <1>6, <1>7 DEF IInv, TypeOK
<1>9. \A s \in Setups : Knows(s)'
  BY <1>2, <1>7 DEF Knows
<1>. QED BY <1>5, <1>8, <1>9 DEF IInv

----------------------------------------------------------------------------
LEMMA Inductive == IInv /\ [Next]_vars => IInv'
<1>. SUFFICES ASSUME IInv, [Next]_vars PROVE IInv'
  OBVIOUS
<1>1. CASE SwitchLock
  BY <1>1, SwitchStep
<1>2. CASE PowerCut
  BY <1>2, PowerCutStep
<1>3. ASSUME NEW s \in Setups, Step(s) PROVE IInv'
  BY <1>3, PrivateSteps, InstallStep, FlushStep, ManifestSteps DEF Step
<1>4. ASSUME NEW s \in Setups, Kill(s) PROVE IInv'
  BY <1>4, KillStep
<1>5. CASE UNCHANGED vars
  BY <1>5 DEF vars, IInv, TypeOK, Knows, Record
<1>. QED BY <1>1, <1>2, <1>3, <1>4, <1>5 DEF Next

\* What the launcher accepts was extracted from the archive of the lock's own
\* manifest, which some lock's manifest lists.
LEMMA Executes == IInv => SelectedIsLocked
<1>. SUFFICES ASSUME IInv, NEW l \in Locks, NEW tree \in Launched(l)
     PROVE  LET digest == Selected(l.digest).digest IN
            /\ tree["VERSION"] = l.version /\ tree["REVISION"] = l.revision
            /\ tree = Tree(digest)
            /\ \E k \in Locks : Selected(k.digest).digest = digest
                                /\ Selected(k.digest).files = DOMAIN tree
  BY DEF SelectedIsLocked
<1>. DEFINE digest == Selected(l.digest).digest
<1>1. /\ ParseManifest(manifests[l.digest].file, l)
      /\ Installed(runtimes[digest], l, digest)
      /\ tree = Tree(runtimes[digest].archive)
  BY DEF Launched
<1>2. digest \in Archives
  BY <1>1, ServedAssumption DEF ParseManifest, VerifyDigest, Archives
<1>3. FromArchive(runtimes[digest], digest)
  BY <1>1, <1>2 DEF IInv, Installed
<1>4. tree = Tree(digest)
  BY <1>1, <1>3 DEF FromArchive
<1>5. tree["VERSION"] = l.version /\ tree["REVISION"] = l.revision
  BY <1>1 DEF Installed
<1>6. PICK k \in Locks : Selected(k.digest).digest = digest /\ Checked(k)
  BY <1>3 DEF FromArchive
<1>7. Selected(k.digest).files = DOMAIN tree
  BY <1>4, <1>6 DEF Checked, ArchiveEntries, Tree
<1>. QED BY <1>4, <1>5, <1>6, <1>7

\* The types of what the setups share and of each setup hold in every state, also
\* after a kill or a power cut at any point.
THEOREM InstallTypes == Spec => []TypeOK
<1>1. IInv => TypeOK
  BY DEF IInv
<1>. QED BY Initially, Inductive, <1>1, PTL DEF Spec

\* Whatever was installed, cut short, interrupted or switched before, the launcher
\* executes the runtime of the lock that is checked out and no other.
THEOREM LaunchesLocked == Spec => []SelectedIsLocked
BY Initially, Inductive, Executes, PTL DEF Spec

----------------------------------------------------------------------------
(* A setup that reports success has left what the launcher executes for    *)
(* the lock it read, and no setup takes away what it executes for another, *)
(* however many work side by side.                                         *)

\* The places of a run, by what has been established when it is there.
Unread == {"idle", "failed"}
Unmade == Unread \cup {"directories", "mkdir"}
Unverified == Unmade \cup {"manifest"}
Extracted == {"flush", "cache", "link", "sync", "launch", "qualify", "installed", "unchanged"}
Cached == {"sync", "launch", "qualify", "installed", "unchanged"}

Stands(l) == Installed(runtimes[Selected(l.digest).digest], l, Selected(l.digest).digest)

\* Of one setup: each check it has passed still holds.
Progress(s) ==
  LET l == setup[s].lock IN
  /\ setup[s].at \notin Unread => ParseLock(l) /\ l.form = "v2"
  /\ setup[s].at \notin Unmade => directories
  /\ setup[s].at \notin Unverified => ParseManifest(l.digest, l)
  /\ setup[s].at = "install" =>
       /\ Served[Record(s).url] = Record(s).digest
       /\ ExtractArchive(Record(s).digest, Record(s), l)
  /\ setup[s].at \in Extracted => Stands(l)
  /\ setup[s].at \in Cached => manifests[l.digest].at # "absent"

Sure == IInv /\ \A s \in Setups : Progress(s)

----------------------------------------------------------------------------
(* Nothing but a power cut takes anything away                              *)

Kept ==
  /\ directories => directories'
  /\ \A m \in Manifests : manifests[m].at # "absent" =>
       manifests'[m].at # "absent" /\ manifests'[m].file = manifests[m].file
  /\ \A d \in Archives : runtimes[d].at # "absent" =>
       /\ runtimes'[d].at # "absent"
       /\ runtimes'[d].archive = runtimes[d].archive
       /\ runtimes'[d].marker = runtimes[d].marker

LEMMA StillStands ==
  ASSUME Kept, NEW l \in Locks, ParseManifest(l.digest, l), Stands(l)
  PROVE  Stands(l)'
<1>1. Selected(l.digest).digest \in Archives
  BY ServedAssumption DEF Archives
<1>. QED BY <1>1 DEF Stands, Installed, Kept

LEMMA Keeping ==
  ASSUME IInv, NEW s \in Setups, Step(s) \/ Kill(s)
  PROVE  Kept
<1>. USE DEF shared, world, At
<1>0. /\ manifests \in [Manifests -> {Absent} \cup CachedFiles]
      /\ runtimes \in [Archives -> {Absent} \cup Installations]
  BY DEF IInv, TypeOK
<1>1. ASSUME UNCHANGED <<manifests, runtimes>>, directories => directories' PROVE Kept
  BY <1>1 DEF Kept
<1>2. ASSUME LinkManifest(s) \/ SyncManifests(s), Step(s) PROVE Kept
  <2>1. UNCHANGED <<directories, runtimes>>
    BY <1>2 DEF LinkManifest, SyncManifests
  <2>2. ASSUME NEW m \in Manifests, manifests[m].at # "absent"
        PROVE  manifests'[m].at # "absent" /\ manifests'[m].file = manifests[m].file
    <3>1. manifests[m] \in CachedFiles
      BY <1>0, <2>2 DEF Absent
    <3>2. CASE LinkManifest(s)
      BY <1>0, <2>2, <3>2 DEF LinkManifest
    <3>3. CASE SyncManifests(s)
      BY <1>0, <3>1, <3>3 DEF SyncManifests, CachedFiles
    <3>. QED BY <1>2, <3>2, <3>3
  <2>. QED BY <2>1, <2>2 DEF Kept
<1>3. CASE Install(s)
  <2>1. CASE runtimes[Record(s).digest].at = "absent"
    BY <1>0, <1>3, <2>1 DEF Install, Kept
  <2>2. CASE runtimes[Record(s).digest].at # "absent"
    BY <1>1, <1>3, <2>2 DEF Install
  <2>. QED BY <2>1, <2>2
<1>4. CASE FlushRuntimes(s)
  <2>1. UNCHANGED <<directories, manifests>>
    BY <1>4 DEF FlushRuntimes
  <2>2. ASSUME NEW d \in Archives, runtimes[d].at # "absent"
        PROVE  /\ runtimes'[d].at # "absent"
               /\ runtimes'[d].archive = runtimes[d].archive
               /\ runtimes'[d].marker = runtimes[d].marker
    <3>1. runtimes[d] \in Installations
      BY <1>0, <2>2 DEF Absent
    <3>. QED BY <1>0, <1>4, <2>2, <3>1 DEF FlushRuntimes, Installations
  <2>. QED BY <2>1, <2>2 DEF Kept
<1>5. CASE \/ ReadLock(s) \/ LookForDirectories(s) \/ MakeDirectories(s)
           \/ FetchManifest(s) \/ LookForInstallation(s) \/ FetchArchive(s)
           \/ LookForManifest(s) \/ Launch(s) \/ Report(s) \/ Rerun(s)
  BY <1>1, <1>5 DEF ReadLock, LookForDirectories, MakeDirectories, FetchManifest,
    LookForInstallation, FetchArchive, LookForManifest, Launch, Report, Rerun
<1>6. CASE Kill(s)
  BY <1>1, <1>6 DEF Kill
<1>. QED BY <1>2, <1>3, <1>4, <1>5, <1>6 DEF Step

LEMMA Waiting ==
  ASSUME IInv, Kept, NEW t \in Setups, Progress(t), setup'[t] = setup[t]
  PROVE  Progress(t)'
<1>1. setup[t].at \notin Unread => setup[t].lock \in Locks /\ setup[t].lock.digest \in Manifests
  BY DEF IInv, Knows, Unread, Manifests
<1>2. \A p \in Extracted : p \notin Unverified
  BY DEF Extracted, Unverified, Unmade, Unread
<1>3. \A p \in Cached : p \notin Unread
  BY DEF Cached, Unread
<1>4. \A p : p \notin Unverified => p \notin Unread
  BY DEF Unverified, Unmade
<1>5. setup[t].lock \in Locks /\ ParseManifest(setup[t].lock.digest, setup[t].lock)
        /\ Stands(setup[t].lock) => Stands(setup[t].lock)'
  BY StillStands
<1>. QED BY <1>1, <1>2, <1>3, <1>4, <1>5 DEF Progress, Kept, Record

----------------------------------------------------------------------------
(* The setup that moves                                                     *)

LEMMA Order ==
  /\ Unread \subseteq Unmade /\ Unmade \subseteq Unverified
  /\ Cached \subseteq Extracted /\ Extracted \cap Unverified = {}
  /\ "install" \notin Unverified \cup Extracted
BY DEF Unread, Unmade, Unverified, Cached, Extracted

\* To a place where no more is to be known than where it is.
LEMMA Onwards ==
  ASSUME IInv, Kept, NEW s \in Setups, Progress(s),
         NEW place \in Places, setup'[s].at = place, setup'[s].lock = setup[s].lock,
         place # "install",
         place \notin Unread => setup[s].at \notin Unread,
         place \notin Unmade => setup[s].at \notin Unmade \/ directories',
         place \notin Unverified =>
           setup[s].at \notin Unverified \/ ParseManifest(setup[s].lock.digest, setup[s].lock),
         place \in Extracted => setup[s].at \in Extracted \/ Stands(setup[s].lock)',
         place \in Cached =>
           setup[s].at \in Cached \/ manifests'[setup[s].lock.digest].at # "absent"
  PROVE  Progress(s)'
<1>1. setup[s].at \notin Unread => setup[s].lock \in Locks /\ setup[s].lock.digest \in Manifests
  BY DEF IInv, Knows, Unread, Manifests
<1>2. setup[s].lock \in Locks /\ ParseManifest(setup[s].lock.digest, setup[s].lock)
        /\ Stands(setup[s].lock) => Stands(setup[s].lock)'
  BY StillStands
<1>. QED BY <1>1, <1>2, Order DEF Progress, Kept

\* What was checked against an accepted manifest has what the launcher looks for.
LEMMA Launchable ==
  ASSUME NEW l, ParseManifest(l.digest, l), NEW d,
         ArchiveEntries(Archive[d], Selected(l.digest))
  PROVE  "bin/kb" \in DOMAIN Tree(d)
<1>. DEFINE targets == Manifest[l.digest].targets
<1>1. PICK i \in DOMAIN targets : targets[i].target = Target
  BY DEF ParseManifest
<1>2. \E j \in DOMAIN targets : Selected(l.digest) = targets[j]
  BY <1>1 DEF Selected
<1>3. Mandatory \subseteq Selected(l.digest).files
  BY <1>2 DEF ParseManifest, ValidRecord
<1>4. "bin/kb" \in {m.name : m \in FilesOf(Archive[d])}
  BY <1>3, MetadataAssumption DEF ArchiveEntries
<1>. QED BY <1>4 DEF Tree

LEMMA Moving ==
  ASSUME IInv, Kept, NEW s \in Setups, Progress(s), Step(s)
  PROVE  Progress(s)'
<1>. USE DEF shared, world, At
<1>0. setup \in [Setups -> Runs] /\ setup[s] \in Runs
  BY DEF IInv, TypeOK
<1>1. ASSUME Fails(s) PROVE Progress(s)'
  <2>1. setup'[s].at = "failed"
    BY <1>0, <1>1 DEF Fails, Idle
  <2>. QED BY <2>1 DEF Progress, Unread, Unmade, Unverified, Extracted, Cached
<1>2. ASSUME NEW place, Goes(s, place)
      PROVE  setup'[s].at = place /\ setup'[s].lock = setup[s].lock
  BY <1>0, <1>2 DEF Goes, Runs
<1>3. /\ setup[s].at \notin Unread => setup[s].lock \in Locks /\ setup[s].lock.digest \in Manifests
      /\ manifests \in [Manifests -> {Absent} \cup CachedFiles]
      /\ runtimes \in [Archives -> {Absent} \cup Installations]
  BY DEF IInv, TypeOK, Knows, Unread, Manifests
<1>4. ParseManifest(setup[s].lock.digest, setup[s].lock) /\ setup[s].at \notin Unread
        => Record(s).digest \in Archives
  BY <1>3, ServedAssumption DEF Record, Archives
<1>. USE DEF Unread, Unmade, Unverified, Extracted, Cached, Places
<1>5. CASE ReadLock(s)
  <2>1. CASE Fails(s)
    BY <1>1, <2>1
  <2>2. CASE /\ ParseLock(lock) /\ lock.form = "v2"
             /\ setup' = [setup EXCEPT ![s].at = "directories", ![s].lock = lock]
    <3>1. setup'[s].at = "directories" /\ setup'[s].lock = lock
      BY <1>0, <2>2 DEF Runs
    <3>. QED BY <2>2, <3>1 DEF Progress
  <2>. QED BY <1>5, <2>1, <2>2 DEF ReadLock
<1>6. CASE LookForDirectories(s)
  BY <1>2, <1>6, Onwards DEF LookForDirectories
<1>7. CASE MakeDirectories(s)
  BY <1>1, <1>2, <1>7, Onwards DEF MakeDirectories
<1>8. CASE FetchManifest(s)
  BY <1>1, <1>2, <1>8, Onwards DEF FetchManifest
<1>9. CASE LookForInstallation(s)
  <2>1. UNCHANGED runtimes /\ setup[s].at = "look"
    BY <1>9 DEF LookForInstallation
  <2>2. CASE Stands(setup[s].lock) /\ Goes(s, "cache")
    <3>1. Stands(setup[s].lock)'
      BY <1>2, <2>1, <2>2 DEF Stands
    <3>. QED BY <1>2, <2>1, <2>2, <3>1, Onwards
  <2>3. CASE Goes(s, "archive")
    BY <1>2, <2>1, <2>3, Onwards
  <2>. QED BY <1>9, <2>2, <2>3 DEF LookForInstallation, Stands, Record
<1>10. CASE FetchArchive(s)
  <2>1. CASE Fails(s)
    BY <1>1, <2>1
  <2>2. CASE /\ Served[Record(s).url] = Record(s).digest
             /\ ExtractArchive(Record(s).digest, Record(s), setup[s].lock)
             /\ setup' = [setup EXCEPT ![s].at = "install", ![s].changed = TRUE]
    <3>1. setup'[s].at = "install" /\ setup'[s].lock = setup[s].lock
      BY <1>0, <2>2 DEF Runs
    <3>2. setup[s].at = "archive" /\ UNCHANGED directories
      BY <1>10 DEF FetchArchive
    <3>. QED BY <2>2, <3>1, <3>2 DEF Progress, Record
  <2>. QED BY <1>10, <2>1, <2>2 DEF FetchArchive, VerifyDigest
<1>11. CASE Install(s)
  <2>. DEFINE a == Record(s).digest
  <2>1. setup[s].at = "install" /\ a \in Archives
    BY <1>4, <1>11 DEF Install, Progress
  <2>2. CASE Goes(s, "cache") /\ Stands(setup[s].lock) /\ UNCHANGED runtimes
    <3>1. Stands(setup[s].lock)'
      BY <1>2, <2>2 DEF Stands
    <3>. QED BY <1>2, <2>1, <2>2, <3>1, Onwards
  <2>3. CASE Goes(s, "flush") /\ runtimes' = [runtimes EXCEPT ![a] = Payload(s)]
    <3>1. runtimes'[a] = Payload(s)
      BY <1>3, <2>1, <2>3
    <3>2. /\ Payload(s).at # "absent" /\ Payload(s).archive = a /\ Payload(s).marker = a
          /\ ExtractArchive(a, Record(s), setup[s].lock)
      BY <2>1 DEF Payload, Progress
    <3>3. "bin/kb" \in DOMAIN Tree(a)
      <4>1. ParseManifest(setup[s].lock.digest, setup[s].lock)
        BY <2>1 DEF Progress
      <4>. QED BY <3>2, <4>1, Launchable DEF ExtractArchive, Record
    <3>4. Stands(setup[s].lock)'
      BY <1>2, <2>3, <3>1, <3>2, <3>3 DEF Stands, Installed, Record, ExtractArchive
    <3>. QED BY <1>2, <2>1, <2>3, <3>4, Onwards
  <2>. QED BY <1>1, <1>11, <2>2, <2>3 DEF Install, Stands, Record
<1>12. CASE FlushRuntimes(s)
  BY <1>2, <1>12, Onwards DEF FlushRuntimes
<1>13. CASE LookForManifest(s)
  <2>1. CASE Fails(s)
    BY <1>1, <2>1
  <2>2. CASE Goes(s, "launch") /\ manifests'[setup[s].lock.digest].at # "absent"
    BY <1>2, <1>13, <2>2, Onwards DEF LookForManifest
  <2>3. ASSUME NEW file, setup' = [setup EXCEPT ![s].at = "link", ![s].temporary = file]
        PROVE  Progress(s)'
    <3>1. setup'[s].at = "link" /\ setup'[s].lock = setup[s].lock
      BY <1>0, <2>3 DEF Runs
    <3>. QED BY <1>13, <3>1, Onwards DEF LookForManifest
  <2>. QED BY <1>13, <2>1, <2>2, <2>3 DEF LookForManifest
<1>14. CASE LinkManifest(s)
  <2>1. CASE Fails(s)
    BY <1>1, <2>1
  <2>2. CASE /\ Goes(s, "sync")
             /\ manifests' = [manifests EXCEPT ![setup[s].lock.digest] =
                                [at |-> "fresh", file |-> setup[s].temporary]]
    <3>1. setup[s].at = "link" /\ manifests'[setup[s].lock.digest].at # "absent"
      BY <1>3, <1>14, <2>2 DEF LinkManifest
    <3>. QED BY <1>2, <2>2, <3>1, Onwards
  <2>. QED BY <1>14, <2>1, <2>2 DEF LinkManifest
<1>15. CASE SyncManifests(s)
  <2>1. setup'[s].at = "launch" /\ setup'[s].lock = setup[s].lock /\ setup[s].at = "sync"
    BY <1>0, <1>15 DEF SyncManifests, Runs
  <2>. QED BY <2>1, Onwards
<1>16. CASE Launch(s)
  BY <1>1, <1>2, <1>16, Onwards DEF Launch
<1>17. CASE Report(s)
  BY <1>1, <1>2, <1>17, Onwards DEF Report
<1>18. CASE Rerun(s)
  <2>1. setup'[s].at = "idle"
    BY <1>0, <1>18 DEF Rerun, Idle
  <2>. QED BY <2>1 DEF Progress
<1>. QED BY <1>5, <1>6, <1>7, <1>8, <1>9, <1>10, <1>11, <1>12, <1>13, <1>14,
            <1>15, <1>16, <1>17, <1>18 DEF Step

----------------------------------------------------------------------------
LEMMA SureInitially == Init => Sure
<1>. SUFFICES ASSUME Init PROVE Sure
  OBVIOUS
<1>1. \A s \in Setups : setup[s].at = "idle"
  BY DEF Init, Idle
<1>2. \A s \in Setups : Progress(s)
  BY <1>1 DEF Progress, Unread, Unmade, Unverified, Extracted, Cached
<1>. QED BY <1>2, Initially DEF Sure

LEMMA SureInductive == Sure /\ [Next]_vars => Sure'
<1>. SUFFICES ASSUME Sure, [Next]_vars PROVE Sure'
  OBVIOUS
<1>0. IInv /\ IInv' /\ \A t \in Setups : Progress(t)
  BY Inductive DEF Sure
<1>1. ASSUME NEW s \in Setups, Step(s), NEW t \in Setups PROVE Progress(t)'
  <2>1. Kept
    BY <1>0, <1>1, Keeping
  <2>2. CASE t = s
    BY <1>0, <1>1, <2>1, <2>2, Moving
  <2>3. CASE t # s
    <3>1. setup'[t] = setup[t]
      BY <1>0, <1>1, <2>3 DEF Step, Goes, Fails, ReadLock, LookForDirectories, MakeDirectories,
        FetchManifest, LookForInstallation, FetchArchive, Install, FlushRuntimes, LookForManifest,
        LinkManifest, SyncManifests, Launch, Report, Rerun, IInv, TypeOK
    <3>. QED BY <1>0, <2>1, <3>1, Waiting
  <2>. QED BY <2>2, <2>3
<1>2. ASSUME NEW s \in Setups, Kill(s), NEW t \in Setups PROVE Progress(t)'
  <2>1. Kept
    BY <1>0, <1>2, Keeping
  <2>2. CASE t = s
    <3>1. setup'[t].at = "failed"
      BY <1>0, <1>2, <2>2 DEF Kill, Fails, Idle, IInv, TypeOK
    <3>. QED BY <3>1 DEF Progress, Unread, Unmade, Unverified, Extracted, Cached
  <2>3. CASE t # s
    <3>1. setup'[t] = setup[t]
      BY <1>0, <1>2, <2>3 DEF Kill, Fails, IInv, TypeOK
    <3>. QED BY <1>0, <2>1, <3>1, Waiting
  <2>. QED BY <2>2, <2>3
<1>3. ASSUME SwitchLock, NEW t \in Setups PROVE Progress(t)'
  <2>1. UNCHANGED <<setup, shared>>
    BY <1>3 DEF SwitchLock
  <2>. QED BY <1>0, <2>1 DEF Progress, Stands, Record, shared
<1>4. ASSUME PowerCut, NEW t \in Setups PROVE Progress(t)'
  <2>1. setup'[t].at = "failed"
    BY <1>4 DEF PowerCut, Idle
  <2>. QED BY <2>1 DEF Progress, Unread, Unmade, Unverified, Extracted, Cached
<1>5. ASSUME UNCHANGED vars, NEW t \in Setups PROVE Progress(t)'
  BY <1>0, <1>5 DEF vars, Progress, Stands, Record
<1>6. ASSUME NEW t \in Setups PROVE Progress(t)'
  BY <1>1, <1>2, <1>3, <1>4, <1>5, <1>6 DEF Next
<1>. QED BY <1>0, <1>6 DEF Sure

LEMMA SureReports == Sure => TruthfulReport
<1>. SUFFICES ASSUME Sure, NEW s \in Setups, setup[s].at \in {"installed", "unchanged"},
                     ~CutShort(setup[s].lock)
              PROVE  Launched(setup[s].lock) # {}
  BY DEF TruthfulReport
<1>. DEFINE l == setup[s].lock
<1>1. /\ ParseLock(l) /\ l.form = "v2" /\ directories /\ ParseManifest(l.digest, l)
      /\ Stands(l) /\ manifests[l.digest].at # "absent"
  BY DEF Sure, Progress, Unread, Unmade, Unverified, Extracted, Cached
<1>2. manifests[l.digest].file = l.digest
  BY <1>1 DEF CutShort
<1>. QED BY <1>1, <1>2 DEF Launched, Stands

\* setup does not report an installation or an unchanged one unless the launcher
\* accepts what its lock names, whatever other setups, checkouts, kills and power
\* cuts came before: only a manifest cut short escapes it.
THEOREM ReportsAreTrue == Spec => []TruthfulReport
BY SureInitially, SureInductive, SureReports, PTL DEF Spec

----------------------------------------------------------------------------
(* Valid runtimes stay                                                      *)

LEMMA SameLaunch ==
  ASSUME NEW l \in Locks, Launched(l) # {}, directories => directories',
         manifests[l.digest].at # "absent" =>
           manifests'[l.digest].at # "absent" /\ manifests'[l.digest].file = manifests[l.digest].file,
         NEW d, d = Selected(l.digest).digest,
         runtimes[d].at # "absent" =>
           /\ runtimes'[d].at # "absent"
           /\ runtimes'[d].archive = runtimes[d].archive
           /\ runtimes'[d].marker = runtimes[d].marker
  PROVE  Launched(l)' = Launched(l)
BY DEF Launched, Installed

\* What was accepted has an installation to be kept.
LEMMA LaunchedThere ==
  ASSUME NEW l \in Locks, Launched(l) # {}
  PROVE  /\ l.digest \in Manifests /\ manifests[l.digest].at # "absent"
         /\ Selected(l.digest).digest \in Archives
         /\ runtimes[Selected(l.digest).digest].at # "absent"
<1>1. /\ manifests[l.digest].at # "absent" /\ ParseManifest(manifests[l.digest].file, l)
      /\ runtimes[Selected(l.digest).digest].at # "absent"
  BY DEF Launched, Installed
<1>2. ParseManifest(l.digest, l)
  BY <1>1 DEF ParseManifest, VerifyDigest
<1>. QED BY <1>1, <1>2, ServedAssumption DEF Manifests, Archives

LEMMA KeepsPrior ==
  ASSUME IInv, [Next]_vars, NEW l \in Locks, Launched(l) # {}, PowerCut => Flushed(l)
  PROVE  Launched(l)' = Launched(l)
<1>. DEFINE d == Selected(l.digest).digest
<1>0. l.digest \in Manifests /\ d \in Archives
  BY LaunchedThere
<1>1. ASSUME NEW s \in Setups, Step(s) \/ Kill(s) PROVE Launched(l)' = Launched(l)
  <2>1. Kept
    BY <1>1, Keeping
  <2>. QED BY <1>0, <2>1, SameLaunch DEF Kept
<1>2. CASE SwitchLock \/ UNCHANGED vars
  BY <1>2 DEF SwitchLock, vars, shared, Launched
<1>3. CASE PowerCut
  <2>1. /\ manifests[l.digest].at = "named"
        /\ runtimes[d].at = "named" /\ runtimes[d].kept
    BY <1>3 DEF Flushed
  <2>2. PICK lost \in SUBSET Unflushed(manifests), gone \in SUBSET Unflushed(runtimes),
             blank \in SUBSET Unmarked :
          /\ manifests' = [m \in Manifests |->
               IF m \in lost \/ manifests[m] = Absent THEN Absent
               ELSE [manifests[m] EXCEPT !.at = "named"]]
          /\ runtimes' = [e \in Archives |->
               IF e \in gone \/ runtimes[e] = Absent THEN Absent
               ELSE [runtimes[e] EXCEPT !.at = "named", !.kept = TRUE,
                                        !.marker = IF e \in blank THEN "blank" ELSE @]]
    BY <1>3 DEF PowerCut
  <2>3. l.digest \notin lost /\ d \notin gone /\ d \notin blank
    BY <2>1, <2>2 DEF Unflushed, Unmarked
  <2>4. manifests[l.digest] \in CachedFiles /\ runtimes[d] \in Installations
    BY <1>0, <2>1 DEF IInv, TypeOK, Absent
  <2>5. manifests[l.digest] # Absent /\ runtimes[d] # Absent
    BY <2>1 DEF Absent
  <2>6. /\ manifests'[l.digest] = [manifests[l.digest] EXCEPT !.at = "named"]
        /\ runtimes'[d] = [runtimes[d] EXCEPT !.at = "named", !.kept = TRUE,
                             !.marker = runtimes[d].marker]
    BY <1>0, <2>2, <2>3, <2>5
  <2>7. /\ manifests'[l.digest].at # "absent"
        /\ manifests'[l.digest].file = manifests[l.digest].file
        /\ runtimes'[d].at # "absent" /\ runtimes'[d].archive = runtimes[d].archive
        /\ runtimes'[d].marker = runtimes[d].marker
    BY <2>4, <2>6 DEF CachedFiles, Installations
  <2>8. directories' = directories
    BY <1>3 DEF PowerCut
  <2>. HIDE DEF d
  <2>. QED BY <2>7, <2>8, SameLaunch DEF d
<1>. QED BY <1>1, <1>2, <1>3 DEF Next

\* No setup takes a valid runtime away or changes it, however it ends, nor does a
\* power cut once the files of that runtime were flushed.
THEOREM ValidOnesStay == Spec => PriorKept
<1>1. IInv /\ [Next]_vars =>
        [\A l \in Locks : Launched(l) # {} /\ (PowerCut => Flushed(l))
                             => Launched(l)' = Launched(l)]_vars
  BY KeepsPrior
<1>. QED BY <1>1, Initially, Inductive, PTL DEF Spec, PriorKept

----------------------------------------------------------------------------
(***************************************************************************)
(* Enrollment                                                              *)
(***************************************************************************)

\* A record that kb may trust, whose digest is of a build that prints its version,
\* is of one whose helper works, or that slipped in.
Qualified(r) ==
  r # NoRecord /\ VersionOf[r.digest] = r.version => r.digest \in Helping \cup slipped

\* Of one setup. Its descriptor keeps the inode; what is written into it after the
\* login slips in. Nothing older than its record comes back once it is flushed.
EKnows(s) ==
  /\ setup[s].at \in {"version", "pin", "remote", "digest"} => setup[s].open \in Inodes
  /\ setup[s].at \in {"pin", "remote", "digest"} => setup[s].version \in Versions
  /\ setup[s].at = "digest" =>
       (Told(s) = setup[s].version => Held(s) \in Helping \cup slipped)
  /\ Qualified(setup[s].new)
  /\ setup[s].at = "sync" => record \in setup[s].since
  /\ setup[s].at = "enrolled" => disk \subseteq setup[s].since

EInv ==
  /\ ETypeOK
  /\ \A s \in Setups : EKnows(s)
  /\ record \in disk
  /\ \A r \in disk : Qualified(r)

----------------------------------------------------------------------------
LEMMA EInitially == EInit => EInv
<1>. SUFFICES ASSUME EInit PROVE EInv
  OBVIOUS
<1>1. path \in Inodes
  BY EnrollmentAssumption DEF EInit
<1>2. ETypeOK
  BY <1>1, EnrollmentAssumption DEF EInit, ETypeOK, EIdle, ERuns, EPlaces, Records
<1>3. \A s \in Setups : EKnows(s)
  BY DEF EInit, EKnows, EIdle, Qualified
<1>. QED BY <1>2, <1>3 DEF EInit, EInv, Qualified

\* A step that moves one setup and leaves the files and the record alone.
LEMMA OneSetup ==
  ASSUME EInv, UNCHANGED <<files, record>>, disk' \in {disk, {record}},
         NEW s \in Setups, NEW new \in ERuns, setup' = [setup EXCEPT ![s] = new],
         EKnows(s)'
  PROVE  EInv'
<1>0. disk' \subseteq disk /\ record \in disk'
  BY DEF EInv
<1>1. ETypeOK'
  BY <1>0 DEF EInv, ETypeOK, files
<1>2. ASSUME NEW t \in Setups, t # s PROVE EKnows(t)'
  <2>1. setup'[t] = setup[t] /\ EKnows(t)
    BY <1>2 DEF EInv, ETypeOK
  <2>. QED BY <1>0, <2>1 DEF EKnows, Held, Told, Qualified, files
<1>3. \A r \in disk' : Qualified(r)'
  BY <1>0 DEF EInv, Qualified, files
<1>. QED BY <1>0, <1>1, <1>2, <1>3 DEF EInv

LEMMA Failing ==
  ASSUME EInv, UNCHANGED <<files, record, disk>>,
         NEW s \in Setups, NEW place \in {"idle", "failed"},
         setup' = [setup EXCEPT ![s] = [EIdle EXCEPT !.at = place]]
  PROVE  EInv'
<1>. DEFINE new == [EIdle EXCEPT !.at = place]
<1>1. new \in ERuns /\ new.at = place /\ new.new = NoRecord
  BY DEF EIdle, ERuns, EPlaces, Records
<1>2. setup'[s] = new
  BY DEF EInv, ETypeOK
<1>3. EKnows(s)'
  BY <1>1, <1>2 DEF EKnows, Qualified
<1>4. setup' = [setup EXCEPT ![s] = new] /\ disk' \in {disk, {record}}
  OBVIOUS
<1>. HIDE DEF new
<1>. QED BY <1>1, <1>3, <1>4, OneSetup

----------------------------------------------------------------------------
(* The steps of a setup                                                     *)

LEMMA ESteps ==
  ASSUME EInv, NEW s \in Setups, EStep(s)
  PROVE  EInv'
<1>. USE DEF At
<1>0. /\ UNCHANGED files
      /\ setup \in [Setups -> ERuns] /\ setup[s] \in ERuns
      /\ EKnows(s) /\ build \in [Inodes -> Builds]
      /\ UNCHANGED <<build, slipped>>
      /\ record \in Records /\ disk \subseteq Records /\ record \in disk
  BY DEF EInv, ETypeOK, EStep, files
<1>1. ASSUME EFails(s), UNCHANGED <<record, disk>> PROVE EInv'
  BY <1>0, <1>1, Failing DEF EFails
<1>2. CASE OpenAmp(s)
  <2>. DEFINE new == [setup[s] EXCEPT !.at = "version", !.open = path]
  <2>1. setup' = [setup EXCEPT ![s] = new] /\ UNCHANGED <<record, disk>>
    BY <1>2 DEF OpenAmp
  <2>2. new \in ERuns /\ new.at = "version" /\ new.open \in Inodes /\ new.new = setup[s].new
    BY <1>0 DEF EInv, ETypeOK, ERuns, EPlaces
  <2>3. EKnows(s)'
    BY <1>0, <2>1, <2>2 DEF EKnows, Qualified
  <2>. HIDE DEF new
  <2>. QED BY <1>0, <2>1, <2>2, <2>3, OneSetup
<1>3. CASE AskVersion(s)
  <2>1. CASE EFails(s)
    BY <1>1, <1>3, <2>1 DEF AskVersion
  <2>2. CASE AmpVersionResult(Told(s)) /\ ~EFails(s)
    <3>. DEFINE new == [setup[s] EXCEPT !.at = "pin", !.version = Told(s)]
    <3>1. setup' = [setup EXCEPT ![s] = new] /\ UNCHANGED <<record, disk>>
      BY <1>3, <2>2 DEF AskVersion
    <3>2. setup[s].open \in Inodes /\ Told(s) \in Versions
      BY <1>0, <1>3, <2>2 DEF AskVersion, EKnows, Told, Held, Versions
    <3>3. /\ new \in ERuns /\ new.at = "pin" /\ new.open = setup[s].open
          /\ new.version = Told(s) /\ new.new = setup[s].new
      BY <1>0, <3>2 DEF ERuns, EPlaces
    <3>4. EKnows(s)'
      BY <1>0, <3>1, <3>2, <3>3 DEF EKnows, Qualified
    <3>. HIDE DEF new
    <3>. QED BY <1>0, <3>1, <3>3, <3>4, OneSetup
  <2>. QED BY <1>3, <2>1, <2>2 DEF AskVersion
<1>4. ASSUME NEW place \in {"remote", "digest", "write", "replace", "enrolled"},
             Goes(s, place), UNCHANGED record, disk' \in {disk, {record}},
             place = "remote" => setup[s].at = "pin",
             place = "digest" => setup[s].at = "remote" /\ Held(s) \in Helping,
             place = "enrolled" => disk' \subseteq setup[s].since
      PROVE  EInv'
  <2>. DEFINE new == [setup[s] EXCEPT !.at = place]
  <2>1. setup' = [setup EXCEPT ![s] = new]
    BY <1>4 DEF Goes
  <2>2. /\ new \in ERuns /\ new.at = place /\ new.open = setup[s].open
        /\ new.version = setup[s].version /\ new.new = setup[s].new
        /\ new.since = setup[s].since
    BY <1>0 DEF ERuns, EPlaces
  <2>3. setup'[s] = new
    BY <1>0, <2>1
  <2>. HIDE DEF new
  <2>4. EKnows(s)'
    BY <1>0, <1>4, <2>2, <2>3 DEF EKnows, Held, Told, Qualified
  <2>. QED BY <1>0, <1>4, <2>1, <2>2, <2>4, OneSetup
<1>5. CASE Pin(s)
  BY <1>1, <1>4, <1>5 DEF Pin
<1>6. CASE CheckRemote(s)
  BY <1>1, <1>4, <1>6 DEF CheckRemote
<1>7. CASE DigestOpen(s)
  <2>. DEFINE taken == [inode |-> setup[s].open, digest |-> Held(s),
                        version |-> setup[s].version]
              new == [setup[s] EXCEPT !.at = "prepare", !.version = "none", !.new = taken]
  <2>1. setup' = [setup EXCEPT ![s] = new] /\ UNCHANGED <<record, disk>>
    BY <1>7 DEF DigestOpen
  <2>2. /\ setup[s].open \in Inodes /\ setup[s].version \in Versions
        /\ Told(s) = setup[s].version => Held(s) \in Helping \cup slipped
    BY <1>0, <1>7 DEF DigestOpen, EKnows
  <2>3. taken \in Records
    BY <1>0, <2>2 DEF Records, Held
  <2>4. new \in ERuns /\ new.at = "prepare" /\ new.new = taken
    BY <1>0, <2>3 DEF ERuns, EPlaces
  <2>5. Qualified(taken)
    BY <2>2 DEF Qualified, Told
  <2>6. EKnows(s)'
    BY <1>0, <2>1, <2>4, <2>5 DEF EKnows, Qualified
  <2>. HIDE DEF new
  <2>. QED BY <1>0, <2>1, <2>4, <2>6, OneSetup
<1>8. CASE Prepare(s)
  BY <1>1, <1>4, <1>8 DEF Prepare
<1>9. CASE WriteRecord(s)
  BY <1>1, <1>4, <1>9 DEF WriteRecord
<1>10. CASE ReplaceRecord(s)
  <2>1. CASE EFails(s) /\ UNCHANGED <<record, disk>>
    BY <1>1, <1>10, <2>1 DEF ReplaceRecord
  <2>2. CASE /\ record' = setup[s].new /\ disk' = disk \cup {setup[s].new}
             /\ setup' = [t \in Setups |->
                  IF t = s THEN [setup[s] EXCEPT !.at = "sync", !.new = NoRecord,
                                                 !.since = {setup[s].new}]
                  ELSE [setup[t] EXCEPT !.stale = setup[t].at = "write",
                                        !.since = Since(t, setup[s].new)]]
    <3>1. Qualified(setup[s].new) /\ setup[s].new \in Records
      BY <1>0 DEF EKnows, ERuns
    <3>2. ASSUME NEW t \in Setups PROVE setup'[t] \in ERuns /\ EKnows(t)'
      <4>1. setup[t] \in ERuns /\ EKnows(t)
        BY DEF EInv, ETypeOK
      <4>2. CASE t = s
        <5>1. setup'[t] = [setup[s] EXCEPT !.at = "sync", !.new = NoRecord,
                                           !.since = {setup[s].new}]
          BY <2>2, <4>2
        <5>2. /\ setup'[t] \in ERuns /\ setup'[t].at = "sync" /\ setup'[t].new = NoRecord
              /\ setup'[t].since = {setup[s].new}
          <6>. DEFINE own == {setup[s].new}
          <6>1. own \in SUBSET Records /\ NoRecord \in Records
            BY <3>1 DEF Records
          <6>2. setup'[t] = [setup[s] EXCEPT !.at = "sync", !.new = NoRecord, !.since = own]
            BY <5>1
          <6>. HIDE DEF own
          <6>3. /\ setup'[t] \in ERuns /\ setup'[t].at = "sync" /\ setup'[t].new = NoRecord
                /\ setup'[t].since = own
            BY <1>0, <6>1, <6>2 DEF ERuns, EPlaces
          <6>. QED BY <6>3 DEF own
        <5>. QED BY <2>2, <5>2 DEF EKnows, Qualified
      <4>3. CASE t # s
        <5>. DEFINE all == Since(t, setup[s].new)
        <5>1. setup'[t] = [setup[t] EXCEPT !.stale = setup[t].at = "write", !.since = all]
          BY <2>2, <4>3
        <5>2. /\ all \subseteq Records /\ setup[t].since \subseteq all
              /\ setup[t].at \in {"sync", "enrolled"} => setup[s].new \in all
          BY <3>1, <4>1 DEF Since, ERuns
        <5>. HIDE DEF all
        <5>3. /\ setup'[t] \in ERuns /\ setup'[t].at = setup[t].at
              /\ setup'[t].open = setup[t].open /\ setup'[t].new = setup[t].new
              /\ setup'[t].version = setup[t].version /\ setup'[t].since = all
          BY <4>1, <5>1, <5>2 DEF ERuns
        <5>. QED BY <1>0, <2>2, <4>1, <5>2, <5>3 DEF EKnows, Held, Told, Qualified
      <4>. QED BY <4>2, <4>3
    <3>3. setup' \in [Setups -> ERuns]
      BY <2>2, <3>2
    <3>4. ETypeOK'
      BY <1>0, <2>2, <3>1, <3>3 DEF EInv, ETypeOK, files
    <3>5. \A r \in disk' : Qualified(r)'
      BY <1>0, <2>2, <3>1 DEF EInv, Qualified
    <3>. QED BY <2>2, <3>2, <3>4, <3>5 DEF EInv
  <2>. QED BY <1>10, <2>1, <2>2 DEF ReplaceRecord
<1>11. CASE SyncDirectory(s)
  BY <1>0, <1>1, <1>4, <1>11 DEF SyncDirectory, EKnows
<1>12. CASE ERerun(s)
  <2>1. setup' = [setup EXCEPT ![s] = [EIdle EXCEPT !.at = "idle"]]
    BY <1>12 DEF ERerun, EIdle
  <2>. QED BY <1>0, <1>12, <2>1, Failing DEF ERerun
<1>. QED BY <1>2, <1>3, <1>5, <1>6, <1>7, <1>8, <1>9, <1>10, <1>11, <1>12 DEF EStep

----------------------------------------------------------------------------
(* The updater, the other processes and the faults                          *)

\* The content of an inode that a setup holds open is what it was, or slips in, or
\* prints another version than the setup was told.
LEMMA FilesChange ==
  ASSUME EInv, UNCHANGED <<setup, record, disk>>,
         path' \in Inodes, backup' \in Inodes, build' \in [Inodes -> Builds],
         slipped \subseteq slipped', slipped' \subseteq Builds,
         \A s \in Setups : setup[s].at = "digest" =>
           \/ build'[setup[s].open] = build[setup[s].open]
           \/ build'[setup[s].open] \in slipped'
           \/ VersionOf[build'[setup[s].open]] # setup[s].version
  PROVE  EInv'
<1>1. ETypeOK'
  BY DEF EInv, ETypeOK
<1>2. ASSUME NEW s \in Setups PROVE EKnows(s)'
  <2>1. EKnows(s)
    BY DEF EInv
  <2>. QED BY <2>1 DEF EKnows, Held, Told, Qualified
<1>3. \A r \in disk' : Qualified(r)'
  BY DEF EInv, Qualified
<1>. QED BY <1>1, <1>2, <1>3 DEF EInv

LEMMA Environment == EInv /\ (Update \/ Rollback \/ Rewrite \/ EPowerCut) => EInv'
<1>. SUFFICES ASSUME EInv, Update \/ Rollback \/ Rewrite \/ EPowerCut PROVE EInv'
  OBVIOUS
<1>0. /\ path \in Inodes /\ backup \in Inodes /\ build \in [Inodes -> Builds]
      /\ slipped \subseteq Builds
      /\ \A s \in Setups : setup[s].at = "digest" => setup[s].open \in Inodes
  BY DEF EInv, ETypeOK, EKnows
<1>1. CASE Update
  <2>1. PICK i \in Free, b \in Builds : path' = i /\ build' = [build EXCEPT ![i] = b]
    BY <1>1 DEF Update
  <2>2. i \in Inodes /\ \A s \in Setups : setup[s].open # i
    BY DEF Free
  <2>. QED BY <1>0, <1>1, <2>1, <2>2, FilesChange DEF Update
<1>2. CASE Rollback
  BY <1>0, <1>2, FilesChange DEF Rollback
<1>3. CASE Rewrite
  <2>1. PICK b \in Builds : /\ build' = [build EXCEPT ![path] = b]
                            /\ slipped' = IF Slips(b) THEN slipped \cup {b} ELSE slipped
    BY <1>3 DEF Rewrite
  <2>2. ASSUME NEW s \in Setups, setup[s].at = "digest"
        PROVE  \/ build'[setup[s].open] = build[setup[s].open]
               \/ build'[setup[s].open] \in slipped'
               \/ VersionOf[build'[setup[s].open]] # setup[s].version
    BY <1>0, <2>1, <2>2 DEF Slips, At
  <2>3. /\ slipped \subseteq slipped' /\ slipped' \subseteq Builds
        /\ build' \in [Inodes -> Builds] /\ UNCHANGED <<path, backup, setup, record, disk>>
    BY <1>0, <1>3, <2>1 DEF Rewrite
  <2>. QED BY <1>0, <2>2, <2>3, FilesChange
<1>4. CASE EPowerCut
  <2>. DEFINE new == [EIdle EXCEPT !.at = "failed"]
  <2>1. new \in ERuns /\ new.at = "failed" /\ new.new = NoRecord
    BY DEF EIdle, ERuns, EPlaces, Records
  <2>2. /\ \A s \in Setups : setup'[s] = new
        /\ setup' = [s \in Setups |-> new]
        /\ UNCHANGED files /\ record' \in disk /\ disk' = {record'}
    BY <1>4 DEF EPowerCut
  <2>. HIDE DEF new
  <2>3. ETypeOK'
    BY <2>1, <2>2 DEF EInv, ETypeOK, files
  <2>4. \A s \in Setups : EKnows(s)'
    BY <2>1, <2>2 DEF EKnows, Qualified
  <2>5. \A r \in disk' : Qualified(r)'
    BY <2>2 DEF EInv, Qualified, files
  <2>. QED BY <2>2, <2>3, <2>4, <2>5 DEF EInv
<1>. QED BY <1>1, <1>2, <1>3, <1>4

LEMMA EInductive == EInv /\ [ENext]_evars => EInv'
<1>. SUFFICES ASSUME EInv, [ENext]_evars PROVE EInv'
  OBVIOUS
<1>1. ASSUME NEW s \in Setups, EStep(s) PROVE EInv'
  BY <1>1, ESteps
<1>2. ASSUME NEW s \in Setups, EKill(s) PROVE EInv'
  BY <1>2, Failing DEF EKill, EFails
<1>3. CASE Update \/ Rollback \/ Rewrite \/ EPowerCut
  BY <1>3, Environment
<1>4. CASE UNCHANGED evars
  BY <1>4 DEF evars, EInv, ETypeOK, EKnows, Held, Told, Qualified
<1>. QED BY <1>1, <1>2, <1>3, <1>4 DEF ENext

LEMMA EConsequences == EInv => ETypeOK /\ TrustedWasQualified /\ EnrolledIsDurable
<1>. SUFFICES ASSUME EInv PROVE ETypeOK /\ TrustedWasQualified /\ EnrolledIsDurable
  OBVIOUS
<1>1. ASSUME Trusted PROVE Qualifies(build[path]) \/ build[path] \in slipped
  <2>1. record # NoRecord
    BY <1>1, EnrollmentAssumption DEF Trusted, NoRecord, EInv, ETypeOK
  <2>. QED BY <1>1, <2>1 DEF Trusted, EInv, Qualified, Qualifies, AmpVersionResult
<1>2. EnrolledIsDurable
  BY DEF EInv, EKnows, EnrolledIsDurable, At
<1>. QED BY <1>1, <1>2 DEF EInv, TrustedWasQualified

\* The executable, the setups and the record keep their types.
THEOREM EnrollmentTypes == ESpec => []ETypeOK
BY EInitially, EInductive, EConsequences, PTL DEF ESpec

\* Whatever Amp's updater and other writers do, between whatever steps of however
\* many setups, kb trusts no build that did not pass both gates, but what was
\* written into the file between its login and its digest.
THEOREM TrustIsEarned == ESpec => []TrustedWasQualified
BY EInitially, EInductive, EConsequences, PTL DEF ESpec

\* While a setup says that it has enrolled Amp, no power cut takes the owner back
\* to a record from before.
THEOREM EnrolmentLasts == ESpec => []EnrolledIsDurable
BY EInitially, EInductive, EConsequences, PTL DEF ESpec

----------------------------------------------------------------------------
(***************************************************************************)
(* Command                                                                 *)
(***************************************************************************)

\* The outer call. Until it is noted that the group was killed, its leader is not
\* reaped, so its number is the group's; once it was killed the group is empty.
Led ==
  LET outer == call["outer"] IN
  /\ outer.at \in {"started", "loop", "probe", "kill", "mark"} => ~outer.swept
  /\ outer.at = "wait" => outer.swept
  /\ ~outer.swept /\ outer.at # "done" => proc["git"] # "reaped"
  /\ ~outer.swept /\ outer.at = "done" => outer.result = "abandoned"
  /\ proc["git"] # "none"
  /\ outer.swept \/ outer.at = "mark" => GroupEmpty

CallInv ==
  /\ CTypeOK
  /\ Led
  /\ call["inner"].at \notin {"probe", "kill", "mark"}
  /\ reused => proc["git"] = "reaped"
  /\ ~struck

----------------------------------------------------------------------------
LEMMA Callers == "outer" \in Calls /\ "inner" \in Calls /\ "outer" # "inner"
BY DEF Calls

LEMMA Empty == <<>> \in Seq(Output) /\ Len(<<>>) = 0
OBVIOUS

LEMMA Single == ASSUME NEW S, NEW e \in S PROVE <<e>> \in Seq(S)
OBVIOUS

LEMMA CallInitially == CInit => CallInv
<1>. SUFFICES ASSUME CInit PROVE CallInv
  OBVIOUS
<1>1. Off \in CallStates /\ Started \in CallStates
  BY Empty DEF Off, Started, CallStates, Phases
<1>2. \A c \in Calls : Maximum[c] \in Nat
  BY CommandAssumption DEF Calls
<1>3. call \in [Calls -> CallStates] /\ \A c \in Calls : call[c].got = <<>>
  BY <1>1 DEF CInit, Started, Off
<1>4. CTypeOK
  <2>1. pipe \in [Calls -> Seq(Output)]
    BY Empty DEF CInit
  <2>2. \A c \in Calls : Len(call[c].got) <= Maximum[c]
    BY <1>2, <1>3, Empty
  <2>. QED BY <1>3, <2>1, <2>2 DEF CInit, CTypeOK
<1>5. call["outer"].at = "started" /\ ~call["outer"].swept /\ call["inner"].at = "off"
  BY DEF CInit, Calls, Started, Off
<1>. QED BY <1>4, <1>5 DEF CInit, CallInv, Led, Procs

\* A step of a call that starts and ends no process and sends no signal.
LEMMA OneCall ==
  ASSUME CallInv, NEW c \in Calls, NEW new \in CallStates,
         call' = [call EXCEPT ![c] = new], Len(new.got) <= Maximum[c],
         pipe' \in [Calls -> Seq(Output)], UNCHANGED <<proc, reused, struck>>,
         c = "inner" => new.at \notin {"probe", "kill", "mark"},
         c = "outer" =>
           /\ new.at \in {"loop", "probe", "kill", "wait", "finally", "done"}
           /\ new.at \in {"loop", "probe", "kill"} => ~new.swept
           /\ new.at = "wait" => new.swept
           /\ new.at = "done" => new.swept \/ new.result = "abandoned"
           /\ new.swept = call["outer"].swept \/ call["outer"].at = "mark"
           /\ call["outer"].at # "done"
  PROVE  CallInv'
<1>1. call' \in [Calls -> CallStates] /\ call'[c] = new
  BY DEF CallInv, CTypeOK
<1>2. \A d \in Calls \ {c} : call'[d] = call[d]
  BY DEF CallInv, CTypeOK
<1>3. CTypeOK'
  BY <1>1, <1>2 DEF CallInv, CTypeOK
<1>4. "outer" \in Calls /\ "inner" \in Calls
  BY DEF Calls
<1>5. Led'
  BY <1>1, <1>2, <1>4 DEF CallInv, Led, GroupEmpty, Running
<1>. QED BY <1>1, <1>2, <1>3, <1>4, <1>5 DEF CallInv

\* A failure, and any other way to the finally of a call.
LEMMA Unwinding ==
  ASSUME CallInv, NEW c \in Calls, NEW why \in {"ok", "failed"}, Failed(c, why),
         call[c].at # "done",
         UNCHANGED <<proc, pipe, reused, struck>>
  PROVE  CallInv'
<1>. DEFINE new == [call[c] EXCEPT !.at = "finally", !.result = why,
                      !.got = IF why = "ok" THEN call[c].got ELSE <<>>]
<1>1. call' = [call EXCEPT ![c] = new]
  BY DEF Failed
<1>2. call[c] \in CallStates /\ pipe' \in [Calls -> Seq(Output)]
  BY DEF CallInv, CTypeOK
<1>3. /\ new \in CallStates /\ new.at = "finally" /\ new.swept = call[c].swept
      /\ new.got \in {call[c].got, <<>>}
  BY <1>2, Empty DEF CallStates, Phases
<1>4. Len(new.got) <= Maximum[c]
  BY <1>3, CommandAssumption DEF CallInv, CTypeOK, Calls
<1>. HIDE DEF new
<1>. QED BY <1>1, <1>2, <1>3, <1>4, OneCall

----------------------------------------------------------------------------
(* The signals                                                              *)

LEMMA KillableLeader ==
  ASSUME CallInv, ~call["outer"].swept, call["outer"].at \in {"kill", "finally"}
  PROVE  Killed["git"] \in {"ok", "failed"}
BY DEF Killed, CallInv, CTypeOK, Procs, Running, Led

\* SIGKILL to the group, by the outer call, whose leader is not reaped.
LEMMA Sweeping ==
  ASSUME CallInv, ~call["outer"].swept, call["outer"].at \in {"kill", "finally"},
         NEW leader \in {"ok", "failed"}, KillGroup(leader),
         UNCHANGED reused,
         NEW new \in CallStates,
         \/ new.at = "mark" /\ ~new.swept
         \/ new.at = "finally" /\ new.swept,
         new.got = call["outer"].got,
         call' = [inner |-> Off, outer |-> new]
  PROVE  CallInv'
<1>1. reused = FALSE /\ struck = FALSE
  BY DEF CallInv, CTypeOK, Led
<1>2. \A p \in Procs : Killed[p] \in {"none", "reaped", "ok", "failed"} \/ p = "git"
  BY DEF Killed
<1>3. /\ proc' \in [Procs -> {"none", "running", "mute", "ok", "failed", "reaped"}]
      /\ \A p \in Procs : ~Running(p)'
  BY <1>2 DEF KillGroup, Killed, Running
<1>4. pipe' \in [Calls -> Seq(Output)]
  BY Empty DEF KillGroup
<1>5. call'["outer"] = new /\ call'["inner"] = Off /\ Off.at = "off"
  BY DEF Off
<1>6. call' \in [Calls -> CallStates]
  <2>1. Off \in CallStates
    BY Empty DEF Off, CallStates, Phases
  <2>. QED BY <2>1 DEF Calls
<1>7. \A c \in Calls : Len(call'[c].got) <= Maximum[c]
  <2>1. Len(Off.got) <= Maximum["inner"]
    BY Empty, CommandAssumption DEF Off
  <2>. QED BY <1>5, <2>1 DEF CallInv, CTypeOK, Calls
<1>8. CTypeOK'
  <2>1. reused' \in BOOLEAN /\ struck' \in BOOLEAN
    BY <1>1 DEF KillGroup
  <2>. QED BY <1>3, <1>4, <1>6, <1>7, <2>1 DEF CTypeOK
<1>9. GroupEmpty'
  BY <1>3 DEF GroupEmpty
<1>10. proc'["git"] = leader
  BY DEF KillGroup, Killed, Procs
<1>. QED BY <1>1, <1>5, <1>8, <1>9, <1>10 DEF CallInv, Led, KillGroup

\* Collecting the child of a call: of the outer one, after the group was killed.
LEMMA Collecting ==
  ASSUME CallInv, NEW c \in Calls, NEW new \in CallStates,
         call' = [call EXCEPT ![c] = new],
         proc' = [proc EXCEPT ![Leader[c]] = "reaped"], UNCHANGED <<pipe, reused, struck>>,
         new.at \in {"finally", "done"}, new.got \in {call[c].got, <<>>},
         new.swept = call[c].swept, c = "outer" => call[c].swept
  PROVE  CallInv'
<1>1. call' \in [Calls -> CallStates] /\ call'[c] = new
  BY DEF CallInv, CTypeOK
<1>2. \A d \in Calls \ {c} : call'[d] = call[d]
  BY DEF CallInv, CTypeOK
<1>3. Leader[c] \in Procs /\ (c = "inner" => Leader[c] = "amp") /\ (c = "outer" => Leader[c] = "git")
  BY DEF Leader, Procs, Calls
<1>4. proc' \in [Procs -> {"none", "running", "mute", "ok", "failed", "reaped"}]
  BY <1>3 DEF CallInv, CTypeOK
<1>5. Len(new.got) <= Maximum[c]
  BY Empty, CommandAssumption DEF CallInv, CTypeOK, Calls
<1>6. CTypeOK'
  BY <1>1, <1>2, <1>4, <1>5 DEF CallInv, CTypeOK
<1>7. GroupEmpty => GroupEmpty'
  BY <1>3 DEF GroupEmpty, Running, CallInv, CTypeOK
<1>8. proc'["git"] # "none" /\ (proc["git"] = "reaped" => proc'["git"] = "reaped")
      /\ (c = "inner" => proc'["git"] = proc["git"])
  BY <1>3 DEF CallInv, CTypeOK, Led, Procs
<1>9. CASE c = "outer"
  BY <1>1, <1>2, <1>6, <1>7, <1>8, <1>9, Callers DEF CallInv, Led
<1>10. CASE c = "inner"
  BY <1>1, <1>2, <1>6, <1>7, <1>8, <1>10, Callers DEF CallInv, Led
<1>. QED BY <1>9, <1>10 DEF Calls

----------------------------------------------------------------------------
(* The steps of a call                                                      *)

LEMMA CallSteps ==
  ASSUME CallInv, NEW c \in Calls, CStep(c)
  PROVE  CallInv'
<1>. USE DEF InPhase
<1>0. /\ call \in [Calls -> CallStates] /\ call[c] \in CallStates
      /\ Len(call[c].got) <= Maximum[c]
      /\ pipe \in [Calls -> Seq(Output)] /\ UNCHANGED reused
  BY DEF CallInv, CTypeOK, CStep
<1>1. ASSUME NEW place \in {"loop", "probe", "kill", "wait"}, Moved(c, place),
             call[c].at \in {"started", "loop", "probe"},
             place \in {"probe", "kill"} => c = "outer", place = "wait" => c = "inner",
             UNCHANGED <<proc, pipe, struck>>
      PROVE  CallInv'
  <2>. DEFINE new == [call[c] EXCEPT !.at = place]
  <2>1. call' = [call EXCEPT ![c] = new]
    BY <1>1 DEF Moved
  <2>2. /\ new \in CallStates /\ new.at = place /\ new.got = call[c].got
        /\ new.swept = call[c].swept
    BY <1>0 DEF CallStates, Phases
  <2>3. c = "outer" => ~new.swept
    BY <1>1, <2>2 DEF CallInv, Led
  <2>. HIDE DEF new
  <2>. QED BY <1>0, <1>1, <2>1, <2>2, <2>3, OneCall DEF Calls
<1>2. CASE LoopTimeout(c)
  BY <1>0, <1>2, Unwinding DEF LoopTimeout
<1>3. CASE ReadChunk(c)
  <2>. DEFINE got == Append(call[c].got, Head(pipe[c]))
              new == IF Len(got) > Maximum[c]
                     THEN [call[c] EXCEPT !.at = "finally", !.result = "failed", !.got = <<>>]
                     ELSE [call[c] EXCEPT !.got = got]
  <2>1. call' = [call EXCEPT ![c] = new]
    BY <1>3 DEF ReadChunk
  <2>2. got \in Seq(Output) /\ Len(got) \in Nat /\ Tail(pipe[c]) \in Seq(Output)
    BY <1>0, <1>3 DEF ReadChunk, CallStates
  <2>3. /\ new \in CallStates /\ new.at \in {"loop", "finally"}
        /\ new.swept = call[c].swept
    BY <1>0, <1>3, <2>2, Empty DEF ReadChunk, CallStates, Phases
  <2>4. Len(new.got) <= Maximum[c]
    BY <1>0, <2>2, Empty, CommandAssumption DEF CallStates, Calls
  <2>5. pipe' \in [Calls -> Seq(Output)] /\ UNCHANGED <<proc, struck>>
    BY <1>0, <1>3, <2>2 DEF ReadChunk
  <2>6. call[c].at = "loop" /\ (c = "outer" => ~call[c].swept)
    BY <1>3 DEF ReadChunk, CallInv, Led
  <2>. HIDE DEF new
  <2>. QED BY <1>0, <2>1, <2>3, <2>4, <2>5, <2>6, OneCall
<1>4. CASE ReadEnd(c)
  BY <1>1, <1>4 DEF ReadEnd, NewSession, Calls
<1>5. CASE WriteInput(c)
  <2>. DEFINE new == [call[c] EXCEPT !.sent = TRUE]
  <2>1. call' = [call EXCEPT ![c] = new]
    BY <1>5 DEF WriteInput
  <2>2. new \in CallStates /\ new.at = "loop" /\ new.got = call[c].got /\ c = "inner"
    BY <1>0, <1>5 DEF WriteInput, StdinOpen, CallStates
  <2>. HIDE DEF new
  <2>. QED BY <1>0, <1>5, <2>1, <2>2, OneCall DEF WriteInput
<1>6. CASE ProbeExit(c)
  BY <1>1, <1>6 DEF ProbeExit, CallInv, Calls
<1>7. CASE ProbeTimeout(c)
  BY <1>0, <1>7, Unwinding DEF ProbeTimeout
<1>8. CASE KillRest(c)
  <2>. DEFINE new == [call[c] EXCEPT !.at = "mark"]
  <2>1. c = "outer" /\ ~call["outer"].swept
    BY <1>8 DEF KillRest, CallInv, Led, Calls
  <2>2. new \in CallStates /\ new.at = "mark" /\ ~new.swept /\ new.got = call[c].got
    BY <1>0, <2>1 DEF CallStates, Phases
  <2>3. Killed["git"] \in {"ok", "failed"}
    BY <1>8, <2>1, KillableLeader DEF KillRest
  <2>4. call' = [inner |-> Off, outer |-> new] /\ KillGroup(Killed["git"])
    BY <1>8, <2>1 DEF KillRest
  <2>. HIDE DEF new
  <2>. QED BY <1>0, <1>8, <2>1, <2>2, <2>3, <2>4, Sweeping DEF KillRest
<1>9. CASE Wait(c)
  <2>1. CASE Running(Leader[c]) /\ Failed(c, "failed") /\ UNCHANGED proc
    BY <1>0, <1>9, <2>1, Unwinding DEF Wait
  <2>2. ASSUME NEW why \in {"ok", "failed"}, Failed(c, why),
               proc' = [proc EXCEPT ![Leader[c]] = "reaped"]
        PROVE  CallInv'
    <3>. DEFINE new == [call[c] EXCEPT !.at = "finally", !.result = why,
                          !.got = IF why = "ok" THEN call[c].got ELSE <<>>]
    <3>1. call' = [call EXCEPT ![c] = new]
      BY <2>2 DEF Failed
    <3>2. /\ new \in CallStates /\ new.at = "finally" /\ new.swept = call[c].swept
          /\ new.got \in {call[c].got, <<>>}
      BY <1>0, Empty DEF CallStates, Phases
    <3>3. c = "outer" => call[c].swept
      BY <1>9 DEF Wait, CallInv, Led
    <3>4. UNCHANGED <<pipe, reused, struck>>
      BY <1>0, <1>9 DEF Wait
    <3>. HIDE DEF new
    <3>. QED BY <2>2, <3>1, <3>2, <3>3, <3>4, Collecting
  <2>. QED BY <1>9, <2>1, <2>2 DEF Wait
<1>10. CASE FinallyGroup(c)
  <2>. DEFINE new == [call[c] EXCEPT !.swept = TRUE]
  <2>1. c = "outer" /\ ~call["outer"].swept /\ call["outer"].at = "finally"
    BY <1>10 DEF FinallyGroup, NewSession
  <2>2. new \in CallStates /\ new.at = "finally" /\ new.swept /\ new.got = call[c].got
    BY <1>0, <2>1 DEF CallStates
  <2>3. Killed["git"] \in {"ok", "failed"}
    BY <2>1, KillableLeader
  <2>4. call' = [inner |-> Off, outer |-> new] /\ KillGroup(Killed["git"])
    BY <1>10, <2>1 DEF FinallyGroup
  <2>. HIDE DEF new
  <2>. QED BY <1>0, <2>1, <2>2, <2>3, <2>4, Sweeping
<1>11. CASE FinallyChild(c)
  <2>. DEFINE new == [call[c] EXCEPT !.at = "done"]
  <2>1. call' = [call EXCEPT ![c] = new]
    BY <1>11 DEF FinallyChild, Moved
  <2>2. /\ new \in CallStates /\ new.at = "done" /\ new.got = call[c].got
        /\ new.swept = call[c].swept
    BY <1>0 DEF CallStates, Phases
  <2>3. c = "outer" => call[c].swept
    BY <1>11 DEF FinallyChild, NewSession
  <2>. HIDE DEF new
  <2>. QED BY <1>0, <1>11, <2>1, <2>2, <2>3, Collecting DEF FinallyChild
<1>12. CASE EnterTry(c)
  BY <1>1, <1>12 DEF EnterTry
<1>13. CASE MarkCleaned(c)
  <2>. DEFINE new == [call[c] EXCEPT !.at = "wait", !.swept = TRUE]
  <2>1. c = "outer" /\ call["outer"].at = "mark"
    BY <1>13 DEF MarkCleaned, CallInv, Calls
  <2>2. new \in CallStates /\ new.at = "wait" /\ new.swept /\ new.got = call[c].got
    BY <1>0 DEF CallStates, Phases
  <2>3. call' = [call EXCEPT ![c] = new] /\ UNCHANGED <<proc, pipe, struck>>
    BY <1>13 DEF MarkCleaned
  <2>. HIDE DEF new
  <2>. QED BY <1>0, <2>1, <2>2, <2>3, OneCall
<1>. QED BY <1>2, <1>3, <1>4, <1>5, <1>6, <1>7, <1>8, <1>9, <1>10, <1>11, <1>12, <1>13 DEF CStep

\* Ctrl-C before the try or in the finally.
LEMMA Leaving ==
  ASSUME CallInv, Left, call["outer"].at \in {"started", "finally"},
         UNCHANGED <<proc, pipe, reused, struck>>
  PROVE  CallInv'
<1>. DEFINE why == IF call["outer"].swept THEN "failed" ELSE "abandoned"
            new == [call["outer"] EXCEPT !.at = "done", !.got = <<>>, !.result = why]
<1>1. call' = [call EXCEPT !["outer"] = new]
  BY DEF Left
<1>2. call["outer"] \in CallStates /\ pipe' \in [Calls -> Seq(Output)]
  BY Callers DEF CallInv, CTypeOK
<1>3. /\ new \in CallStates /\ new.at = "done" /\ new.swept = call["outer"].swept
      /\ new.got = <<>> /\ (new.swept \/ new.result = "abandoned")
  BY <1>2, Empty DEF CallStates, Phases
<1>4. Len(new.got) <= Maximum["outer"]
  BY <1>3, Empty, CommandAssumption
<1>. HIDE DEF new
<1>. QED BY <1>1, <1>2, <1>3, <1>4, Callers, OneCall

----------------------------------------------------------------------------
(* The programs that are called, and the owner                              *)

\* What the other processes do to each other: nothing starts once git is gone,
\* and nobody but setup collects git.
LEMMA Others ==
  ASSUME CallInv, UNCHANGED <<reused, struck>>, pipe' \in [Calls -> Seq(Output)],
         call' = call \/ call' = [call EXCEPT !["inner"] = Started],
         proc' \in [Procs -> {"none", "running", "mute", "ok", "failed", "reaped"}],
         proc' # proc => ~GroupEmpty,
         proc'["git"] = "reaped" <=> proc["git"] = "reaped",
         proc'["git"] # "none"
  PROVE  CallInv'
<1>1. Started \in CallStates /\ Started.at = "started" /\ Len(Started.got) <= Maximum["inner"]
  <2>1. Started \in CallStates /\ Started.at = "started" /\ Started.got = <<>>
    BY Empty DEF Started, Off, CallStates, Phases
  <2>2. Maximum["inner"] \in Nat
    BY CommandAssumption
  <2>. QED BY <2>1, <2>2, Empty
<1>2. call' \in [Calls -> CallStates] /\ call'["outer"] = call["outer"]
  BY <1>1, Callers DEF CallInv, CTypeOK
<1>3. call'["inner"] \in {call["inner"], Started}
  BY Callers DEF CallInv, CTypeOK
<1>4. \A c \in Calls : Len(call'[c].got) <= Maximum[c]
  BY <1>1, <1>2, <1>3 DEF CallInv, CTypeOK, Calls
<1>5. CTypeOK'
  BY <1>2, <1>4 DEF CallInv, CTypeOK
<1>6. GroupEmpty => GroupEmpty'
  BY DEF GroupEmpty, Running
<1>. QED BY <1>1, <1>2, <1>3, <1>5, <1>6 DEF CallInv, Led

LEMMA CallInductive == CallInv /\ [CNext]_cvars => CallInv'
<1>. SUFFICES ASSUME CallInv, [CNext]_cvars PROVE CallInv'
  OBVIOUS
<1>0. /\ proc \in [Procs -> {"none", "running", "mute", "ok", "failed", "reaped"}]
      /\ pipe \in [Calls -> Seq(Output)] /\ proc["git"] # "none"
  BY DEF CallInv, CTypeOK, Led
<1>1. ASSUME NEW c \in Calls, CStep(c) PROVE CallInv'
  BY <1>1, CallSteps
<1>2. ASSUME NEW c \in Calls, Write(c) PROVE CallInv'
  <2>1. PICK line \in IF c = "inner" THEN Lines ELSE {"ref"} :
          pipe' = [pipe EXCEPT ![c] = <<line>>]
    BY <1>2, Zenon DEF Write
  <2>3. line \in Output
    BY DEF Output
  <2>2. pipe' \in [Calls -> Seq(Output)]
    BY <1>0, <2>1, <2>3, Single
  <2>. QED BY <1>0, <1>2, <2>2, Others DEF Write
<1>3. CASE Interrupt
  BY <1>3, Unwinding, Leaving, Callers DEF Interrupt
<1>4. CASE GitAsks
  <2>1. ~GroupEmpty
    BY <1>4 DEF GitAsks, GroupEmpty, Procs
  <2>. QED BY <1>0, <1>4, <2>1, Others DEF GitAsks, Procs
<1>5. CASE HelperEnds
  <2>1. ~GroupEmpty
    BY <1>5 DEF HelperEnds, GroupEmpty, Procs
  <2>. QED BY <1>0, <1>5, <2>1, Others DEF HelperEnds, Procs
<1>6. CASE AmpForks
  <2>1. ~GroupEmpty
    BY <1>6 DEF AmpForks, GroupEmpty, Procs
  <2>. QED BY <1>0, <1>6, <2>1, Others DEF AmpForks, Procs
<1>7. CASE CloseOutput
  <2>1. ~GroupEmpty
    BY <1>7 DEF CloseOutput, GroupEmpty, Procs, Running
  <2>. QED BY <1>0, <1>7, <2>1, Others DEF CloseOutput, Procs
<1>8. CASE Exit
  <2>1. ~GroupEmpty
    BY <1>8 DEF Exit, GroupEmpty, Procs
  <2>. QED BY <1>0, <1>8, <2>1, Others DEF Exit, Procs, Running
<1>9. CASE NumberReused
  BY <1>9 DEF NumberReused, CallInv, CTypeOK, Led, GroupEmpty, Running
<1>10. CASE UNCHANGED cvars
  BY <1>10 DEF cvars, CallInv, CTypeOK, Led, GroupEmpty, Running
<1>. QED BY <1>1, <1>2, <1>3, <1>4, <1>5, <1>6, <1>7, <1>8, <1>9, <1>10 DEF CNext

----------------------------------------------------------------------------
(* The answer                                                               *)

\* What a helper accepts is a credential, or nothing.
LEMMA Acceptable ==
  ASSUME NEW operation, NEW output, Accepted(operation, output)
  PROVE  OneCredential(output) \/ \A i \in DOMAIN output : output[i] = ""
<1>1. CASE operation = "get"
  <2>. DEFINE Blank == {i \in DOMAIN output : output[i] = ""}
              Keys == {i \in DOMAIN output : \A b \in Blank : i < b}
  <2>1. /\ \A i \in DOMAIN output \ Keys : output[i] = ""
        /\ \A i \in Keys : /\ output[i] \in Responded
                           /\ \A j \in Keys : i # j /\ output[i] = output[j]
                                                => output[i] \in Repeated
        /\ {"username", "password"} \subseteq {output[i] : i \in Keys}
    BY <1>1 DEF Accepted, ValidCredentialProtocol
  <2>2. Keys \subseteq DOMAIN output
    OBVIOUS
  <2>. HIDE DEF Keys
  <2>3. Responded \cap Repeated = {}
    BY DEF Responded, Repeated
  <2>4. \A i, j \in DOMAIN output : i # j /\ output[i] = output[j] => output[i] = ""
    BY <2>1, <2>3
  <2>5. {"username", "password"} \subseteq {output[i] : i \in DOMAIN output}
    BY <2>1, <2>2
  <2>. QED BY <2>4, <2>5 DEF OneCredential
<1>2. CASE operation # "get"
  BY <1>2 DEF Accepted
<1>. QED BY <1>1, <1>2

\* The inner call waits for Amp, succeeds and has its answer handed on only
\* after the end of the output, and Amp is started once.
AnswerInv ==
  /\ call["inner"].at = "wait" \/ call["inner"].result = "ok" \/ handed # <<>> => Drained
  /\ call["inner"].at # "off" \/ handed # <<>> => proc["helper"] # "none"
  /\ handed # <<>> => OneCredential(handed) \/ \A i \in DOMAIN handed : handed[i] = ""

\* Where nobody can write to the inner call any more, that does not change.
LEMMA StaysDrained ==
  ASSUME Drained, pipe'["inner"] = pipe["inner"] \/ pipe'["inner"] = <<>>,
         \A p \in {"amp", "stray"} : proc'[p] = "running" => proc[p] = "running"
  PROVE  Drained'
BY DEF Drained, Open, Writers

\* A step of the inner call that does not find the end of its output.
LEMMA KeepsAnswer ==
  ASSUME CallInv, AnswerInv, UNCHANGED handed,
         \/ call'["inner"].at \in {call["inner"].at, "off"}
         \/ call["inner"].at # "off" /\ call'["inner"].at # "wait",
         call'["inner"].result = "ok" => call["inner"].result = "ok" \/ call["inner"].at = "wait",
         pipe'["inner"] = pipe["inner"] \/ pipe'["inner"] = <<>> \/ ~Drained,
         \A p \in {"amp", "stray"} : proc'[p] = "running" => proc[p] = "running",
         proc["helper"] # "none" => proc'["helper"] # "none"
  PROVE  AnswerInv'
<1>1. Drained => Drained'
  BY StaysDrained
<1>. QED BY <1>1 DEF AnswerInv

LEMMA AnswerInitially == CInit => AnswerInv
BY DEF CInit, AnswerInv, Off, Started, Calls

LEMMA AnswerSteps ==
  ASSUME CallInv, AnswerInv, NEW c \in Calls, CStep(c)
  PROVE  AnswerInv'
<1>. USE DEF InPhase
<1>0. /\ call \in [Calls -> CallStates] /\ pipe \in [Calls -> Seq(Output)]
      /\ proc \in [Procs -> {"none", "running", "mute", "ok", "failed", "reaped"}]
      /\ UNCHANGED handed
  BY DEF CallInv, CTypeOK, CStep
<1>1. ASSUME UNCHANGED <<proc, pipe>>, NEW new, call' = [call EXCEPT ![c] = new],
             call[c].at # "off",
             c = "inner" => new.at \in {call[c].at, "loop", "finally", "done"},
             new.result = "ok" => call[c].result = "ok" \/ call[c].at = "wait"
      PROVE  AnswerInv'
  <2>1. call'[c] = new /\ \A d \in Calls \ {c} : call'[d] = call[d]
    BY <1>0, <1>1
  <2>2. CASE c = "inner"
    BY <1>0, <1>1, <2>1, <2>2, KeepsAnswer
  <2>3. CASE c = "outer"
    BY <1>0, <1>1, <2>1, <2>3, Callers, KeepsAnswer
  <2>. QED BY <2>2, <2>3 DEF Calls
<1>2. ASSUME NEW leader, KillGroup(leader), call'["inner"] = Off
      PROVE  AnswerInv'
  <2>1. pipe'["inner"] = <<>> /\ Off.at = "off" /\ Off.result = "none"
    BY <1>2, Callers DEF KillGroup, Off
  <2>2. /\ \A p \in {"amp", "stray"} : proc'[p] # "running"
        /\ proc["helper"] # "none" => proc'["helper"] # "none"
    BY <1>2 DEF KillGroup, Killed, Procs
  <2>. QED BY <1>0, <1>2, <2>1, <2>2, KeepsAnswer
<1>3. ASSUME NEW why \in {"ok", "failed"}, Failed(c, why), UNCHANGED <<proc, pipe>>,
             why = "ok" => call[c].at = "wait", call[c].at # "off"
      PROVE  AnswerInv'
  <2>. DEFINE new == [call[c] EXCEPT !.at = "finally", !.result = why,
                        !.got = IF why = "ok" THEN call[c].got ELSE <<>>]
  <2>1. call' = [call EXCEPT ![c] = new] /\ call[c] \in CallStates
    BY <1>0, <1>3 DEF Failed
  <2>2. new.at = "finally" /\ new.result = why
    BY <2>1 DEF CallStates
  <2>. HIDE DEF new
  <2>. QED BY <1>1, <1>3, <2>1, <2>2
<1>4. CASE LoopTimeout(c)
  BY <1>3, <1>4 DEF LoopTimeout
<1>5. CASE ReadChunk(c)
  <2>. DEFINE got == Append(call[c].got, Head(pipe[c]))
              new == IF Len(got) > Maximum[c]
                     THEN [call[c] EXCEPT !.at = "finally", !.result = "failed", !.got = <<>>]
                     ELSE [call[c] EXCEPT !.got = got]
  <2>1. /\ call' = [call EXCEPT ![c] = new] /\ call[c] \in CallStates /\ call[c].at = "loop"
        /\ pipe[c] # <<>> /\ UNCHANGED proc /\ pipe' = [pipe EXCEPT ![c] = Tail(@)]
    BY <1>0, <1>5 DEF ReadChunk
  <2>2. new.at \in {"loop", "finally"} /\ new.result \in {call[c].result, "failed"}
    BY <2>1 DEF CallStates
  <2>. HIDE DEF new
  <2>3. call'[c] = new /\ \A d \in Calls \ {c} : call'[d] = call[d] /\ pipe'[d] = pipe[d]
    BY <1>0, <2>1
  <2>4. CASE c = "inner"
    <3>1. ~Drained
      BY <2>1, <2>4 DEF Drained
    <3>. QED BY <1>0, <2>1, <2>2, <2>3, <2>4, <3>1, KeepsAnswer
  <2>5. CASE c = "outer"
    BY <1>0, <2>1, <2>3, <2>5, Callers, KeepsAnswer
  <2>. QED BY <2>4, <2>5 DEF Calls
<1>6. CASE ReadEnd(c)
  <2>. DEFINE place == IF NewSession(c) THEN "probe" ELSE "wait"
  <2>1. /\ call' = [call EXCEPT ![c].at = place] /\ call[c] \in CallStates
        /\ call[c].at = "loop" /\ UNCHANGED <<proc, pipe>> /\ EndOfOutput(c)
    BY <1>0, <1>6 DEF ReadEnd, Moved
  <2>2. /\ call'[c].at = place /\ call'[c].result = call[c].result
        /\ \A d \in Calls \ {c} : call'[d] = call[d]
    BY <1>0, <2>1 DEF CallStates
  <2>3. CASE c = "inner"
    <3>1. Drained'
      BY <2>1, <2>3 DEF Drained, EndOfOutput, Open
    <3>. QED BY <1>0, <2>1, <2>2, <2>3, <3>1 DEF AnswerInv
  <2>4. CASE c = "outer"
    BY <1>0, <2>1, <2>2, <2>4, Callers, KeepsAnswer
  <2>. QED BY <2>3, <2>4 DEF Calls
<1>7. CASE WriteInput(c)
  <2>. DEFINE new == [call[c] EXCEPT !.sent = TRUE]
  <2>1. call' = [call EXCEPT ![c] = new] /\ UNCHANGED <<proc, pipe>> /\ call[c].at = "loop"
    BY <1>7 DEF WriteInput
  <2>2. new.at = call[c].at /\ new.result = call[c].result
    BY <1>0 DEF CallStates
  <2>. HIDE DEF new
  <2>. QED BY <1>1, <2>1, <2>2
<1>8. CASE ProbeExit(c)
  <2>. DEFINE new == [call[c] EXCEPT !.at = "kill"]
  <2>1. call' = [call EXCEPT ![c] = new] /\ UNCHANGED <<proc, pipe>> /\ call[c].at = "probe"
    BY <1>8 DEF ProbeExit, Moved
  <2>2. new.at = "kill" /\ new.result = call[c].result /\ c = "outer"
    BY <1>0, <2>1 DEF CallStates, CallInv, Calls
  <2>. HIDE DEF new
  <2>. QED BY <1>1, <2>1, <2>2
<1>9. CASE ProbeTimeout(c)
  BY <1>3, <1>9 DEF ProbeTimeout
<1>10. CASE KillRest(c)
  BY <1>2, <1>10 DEF KillRest
<1>11. CASE Wait(c)
  <2>1. CASE Running(Leader[c]) /\ Failed(c, "failed") /\ UNCHANGED proc
    BY <1>3, <1>11, <2>1 DEF Wait
  <2>2. ASSUME NEW why \in {"ok", "failed"}, Failed(c, why),
               proc' = [proc EXCEPT ![Leader[c]] = "reaped"]
        PROVE  AnswerInv'
    <3>1. /\ call' = [call EXCEPT ![c].at = "finally", ![c].result = why,
                        ![c].got = IF why = "ok" THEN call[c].got ELSE <<>>]
          /\ call[c] \in CallStates /\ UNCHANGED pipe /\ call[c].at = "wait"
      BY <1>0, <1>11, <2>2 DEF Failed, Wait
    <3>2. /\ call'[c].at = "finally" /\ call'[c].result = why
          /\ \A d \in Calls \ {c} : call'[d] = call[d]
      BY <1>0, <3>1 DEF CallStates
    <3>3. /\ \A p \in {"amp", "stray"} : proc'[p] = "running" => proc[p] = "running"
          /\ proc'["helper"] = proc["helper"]
      BY <1>0, <2>2 DEF Leader, Procs, Calls
    <3>4. CASE c = "inner"
      BY <1>0, <3>1, <3>2, <3>3, <3>4, KeepsAnswer
    <3>5. CASE c = "outer"
      BY <1>0, <3>1, <3>2, <3>3, <3>5, Callers, KeepsAnswer
    <3>. QED BY <3>4, <3>5 DEF Calls
  <2>. QED BY <1>11, <2>1, <2>2 DEF Wait
<1>12. CASE FinallyGroup(c)
  BY <1>2, <1>12 DEF FinallyGroup
<1>13. CASE FinallyChild(c)
  <2>1. /\ call' = [call EXCEPT ![c].at = "done"] /\ call[c] \in CallStates /\ UNCHANGED pipe
        /\ proc' = [proc EXCEPT ![Leader[c]] = "reaped"] /\ call[c].at = "finally"
    BY <1>0, <1>13 DEF FinallyChild, Moved
  <2>2. /\ call'[c].at = "done" /\ call'[c].result = call[c].result
        /\ \A d \in Calls \ {c} : call'[d] = call[d]
    BY <1>0, <2>1 DEF CallStates
  <2>3. /\ \A p \in {"amp", "stray"} : proc'[p] = "running" => proc[p] = "running"
        /\ proc'["helper"] = proc["helper"]
    BY <1>0, <2>1 DEF Leader, Procs, Calls
  <2>4. CASE c = "inner"
    BY <1>0, <2>1, <2>2, <2>3, <2>4, KeepsAnswer
  <2>5. CASE c = "outer"
    BY <1>0, <2>1, <2>2, <2>3, <2>5, Callers, KeepsAnswer
  <2>. QED BY <2>4, <2>5 DEF Calls
<1>14. CASE EnterTry(c)
  <2>. DEFINE new == [call[c] EXCEPT !.at = "loop"]
  <2>1. call' = [call EXCEPT ![c] = new] /\ UNCHANGED <<proc, pipe>> /\ call[c].at = "started"
    BY <1>14 DEF EnterTry, Moved
  <2>2. new.at = "loop" /\ new.result = call[c].result
    BY <1>0, <2>1 DEF CallStates
  <2>. HIDE DEF new
  <2>. QED BY <1>1, <2>1, <2>2
<1>15. CASE MarkCleaned(c)
  <2>. DEFINE new == [call[c] EXCEPT !.at = "wait", !.swept = TRUE]
  <2>1. /\ call' = [call EXCEPT ![c] = new] /\ UNCHANGED <<proc, pipe>>
        /\ call[c].at = "mark" /\ c = "outer"
    BY <1>15 DEF MarkCleaned, CallInv, Calls
  <2>2. new.result = call[c].result
    BY <1>0 DEF CallStates
  <2>. HIDE DEF new
  <2>. QED BY <1>1, <2>1, <2>2
<1>. QED BY <1>4, <1>5, <1>6, <1>7, <1>8, <1>9, <1>10, <1>11, <1>12, <1>13, <1>14, <1>15 DEF CStep

LEMMA AnswerInductive == CallInv /\ AnswerInv /\ [CNext]_cvars => AnswerInv'
<1>. SUFFICES ASSUME CallInv, AnswerInv, [CNext]_cvars PROVE AnswerInv'
  OBVIOUS
<1>0. /\ call \in [Calls -> CallStates] /\ pipe \in [Calls -> Seq(Output)]
      /\ proc \in [Procs -> {"none", "running", "mute", "ok", "failed", "reaped"}]
  BY DEF CallInv, CTypeOK
<1>1. ASSUME NEW c \in Calls, CStep(c) PROVE AnswerInv'
  BY <1>1, AnswerSteps
<1>2. ASSUME NEW c \in Calls, Write(c) PROVE AnswerInv'
  <2>1. Open(c) # {} /\ UNCHANGED <<proc, call, handed>>
    BY <1>2 DEF Write
  <2>2. CASE c = "inner"
    BY <2>1, <2>2, KeepsAnswer DEF Drained
  <2>3. CASE c = "outer"
    <3>1. pipe'["inner"] = pipe["inner"]
      BY <1>0, <1>2, <2>3, Callers DEF Write
    <3>. QED BY <2>1, <3>1, KeepsAnswer
  <2>. QED BY <2>2, <2>3 DEF Calls
<1>3. CASE Interrupt
  <2>1. call'["inner"] = call["inner"] /\ UNCHANGED <<proc, pipe, handed>>
    BY <1>0, <1>3, Callers DEF Interrupt, Failed, Left
  <2>. QED BY <2>1, KeepsAnswer
<1>4. CASE GitAsks
  <2>1. /\ proc["helper"] = "none" /\ UNCHANGED <<pipe, handed>>
        /\ call["inner"].at = "off" /\ handed = <<>> /\ proc'["helper"] # "none"
    BY <1>0, <1>4 DEF GitAsks, AnswerInv, Procs
  <2>2. \/ call' = [call EXCEPT !["inner"] = Started]
        \/ proc' = [proc EXCEPT !["helper"] = "reaped"] /\ UNCHANGED call
    BY <1>4 DEF GitAsks
  <2>3. CASE call' = [call EXCEPT !["inner"] = Started]
    <3>1. call'["inner"].at = "started" /\ call'["inner"].result = "none"
      BY <1>0, <2>3, Callers DEF Started, Off
    <3>. QED BY <2>1, <3>1 DEF AnswerInv
  <2>4. CASE proc' = [proc EXCEPT !["helper"] = "reaped"] /\ UNCHANGED call
    <3>1. proc'["amp"] = proc["amp"] /\ proc'["stray"] = proc["stray"]
      BY <1>0, <2>4 DEF Procs
    <3>. QED BY <2>1, <2>4, <3>1, KeepsAnswer
  <2>. QED BY <2>2, <2>3, <2>4
<1>5. CASE HelperEnds
  <2>1. /\ UNCHANGED <<pipe, call>> /\ proc' = [proc EXCEPT !["helper"] = "reaped"]
        /\ call["inner"].at = "done"
    BY <1>5 DEF HelperEnds
  <2>2. proc'["helper"] = "reaped" /\ proc'["amp"] = proc["amp"] /\ proc'["stray"] = proc["stray"]
    BY <1>0, <2>1 DEF Procs
  <2>3. Drained => Drained'
    BY <2>1, <2>2, StaysDrained
  <2>4. PICK operation \in {"get", "store", "erase"} :
          handed' = IF call["inner"].result = "ok" /\ Accepted(operation, call["inner"].got)
                    THEN call["inner"].got ELSE <<>>
    BY <1>5 DEF HelperEnds
  <2>5. CASE call["inner"].result = "ok" /\ Accepted(operation, call["inner"].got)
    <3>1. handed' = call["inner"].got /\ Drained'
      BY <2>3, <2>4, <2>5 DEF AnswerInv
    <3>2. OneCredential(handed') \/ \A i \in DOMAIN handed' : handed'[i] = ""
      BY <2>5, <3>1, Acceptable
    <3>3. OneCredential(handed)' <=> OneCredential(handed')
      BY DEF OneCredential
    <3>. QED BY <2>1, <2>2, <3>1, <3>2, <3>3 DEF AnswerInv
  <2>6. CASE handed' = <<>>
    BY <2>1, <2>2, <2>3, <2>6 DEF AnswerInv
  <2>. QED BY <2>4, <2>5, <2>6
<1>6. CASE AmpForks \/ CloseOutput \/ Exit
  <2>1. UNCHANGED <<pipe, call, handed>>
    BY <1>6 DEF AmpForks, CloseOutput, Exit
  <2>2. proc["helper"] # "none" => proc'["helper"] # "none"
    BY <1>0, <1>6 DEF AmpForks, CloseOutput, Exit, Procs
  <2>3. Drained => Drained'
    BY <1>0, <1>6, <2>1 DEF AmpForks, CloseOutput, Exit, Procs, Drained, Open, Writers, Running
  <2>. QED BY <2>1, <2>2, <2>3 DEF AnswerInv
<1>7. CASE NumberReused \/ UNCHANGED cvars
  <2>1. UNCHANGED <<proc, pipe, call, handed>>
    BY <1>7 DEF NumberReused, cvars
  <2>. QED BY <2>1, KeepsAnswer
<1>. QED BY <1>1, <1>2, <1>3, <1>4, <1>5, <1>6, <1>7 DEF CNext

LEMMA CallConsequences == CallInv => CTypeOK /\ NoSurvivors /\ OnlyOwnGroup
BY DEF CallInv, Led, NoSurvivors, OnlyOwnGroup

\* Processes, pipes and calls keep their types, and no call holds more than its
\* limit of output.
THEOREM CommandTypes == CSpec => []CTypeOK
BY CallInitially, CallInductive, CallConsequences, PTL DEF CSpec

\* However a call of setup ends, nothing it caused is running afterwards, unless
\* Ctrl-C came before its try or in its finally before the killpg.
THEOREM NothingSurvives == CSpec => []NoSurvivors
BY CallInitially, CallInductive, CallConsequences, PTL DEF CSpec

\* setup never signals a process group that has taken the number of its own.
THEOREM SignalsItsOwn == CSpec => []OnlyOwnGroup
BY CallInitially, CallInductive, CallConsequences, PTL DEF CSpec

\* git is handed all that Amp or its child can say, or nothing: one user name and
\* one password, or blank lines (bounded_output, valid_credential_protocol).
THEOREM WholeAnswers == CSpec => []AnswerIsWhole
<1>1. AnswerInv => AnswerIsWhole
  BY DEF AnswerInv, AnswerIsWhole
<1>. QED BY <1>1, CallInitially, CallInductive, AnswerInitially, AnswerInductive, PTL DEF CSpec

=============================================================================
