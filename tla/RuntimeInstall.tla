--------------------------- MODULE RuntimeInstall ---------------------------
(* setup-local installs the runtime a repository is locked to, and the      *)
(* launcher kb selects it: extract, installed, install and cache of         *)
(* runtime/templates/runtime_metadata.py under the two shell scripts.       *)
(* Setups of one user run side by side, the lock is switched under them     *)
(* (git checkout), processes are killed, the network fails, the disk fills, *)
(* and the power is cut. Files of one setup's own directory are steps of    *)
(* their own only where another process can see a difference.               *)
EXTENDS RuntimeMetadata, FiniteSets, Setup

CONSTANTS
  Locks,        \* the locks the branches of the repository hold
  Served,       \* of an address of an archive: the digest of what is there
  Machines,     \* what this machine may be
  MaxSwitches   \* changes of the checked out lock

ASSUME InstallAssumption == MaxSwitches \in Nat

VARIABLES
  machine,      \* the versions of its tools and its file system
  lock,         \* the lock in the checkout
  directories,  \* the private directories exist
  manifests,    \* of each manifest's digest: the cached file
  runtimes,     \* of each archive's digest: the installation
  switches

vars == <<machine, lock, directories, manifests, runtimes, setup, faults, switches>>
shared == <<directories, manifests, runtimes>>
world == <<machine, lock, switches>>

Absent == [at |-> "absent"]
\* The digests of the manifests and archives of all releases.
Manifests == {l.digest : l \in Locks}
Archives == DOMAIN Archive

\* A manifest that is accepted names an archive that somebody has made.
ASSUME ServedAssumption ==
  \A l \in Locks : ParseManifest(l.digest, l) => Selected(l.digest).digest \in DOMAIN Archive

----------------------------------------------------------------------------
(* The launcher.                                                            *)

\* The installation kb executes for a lock, or none.
Launched(l) ==
  LET cached == manifests[l.digest]
      record == Selected(l.digest)
      accepted == /\ directories /\ ParseLock(l) /\ l.form = "v2"
                  /\ cached.at # "absent" /\ ParseManifest(cached.file, l)
                  /\ Installed(runtimes[record.digest], l, record.digest)
  IN IF accepted THEN {Tree(runtimes[record.digest].archive)} ELSE {}

----------------------------------------------------------------------------
(* One run of setup-local.                                                  *)

NoLock == [form |-> "none"]
\* Of each setup: where it is, the lock it read, its temporary manifest, and
\* whether it changed anything.
Idle == [at |-> "idle", lock |-> NoLock, temporary |-> "none", changed |-> FALSE]
Fails(s) == setup' = [setup EXCEPT ![s] = [Idle EXCEPT !.at = "failed"]]
Record(s) == Selected(setup[s].lock.digest)

\* Amp's gates, with a login over the network, the preflight, then the lock, which
\* is not read again before the launch.
ReadLock(s) ==
  /\ At(s, "idle")
  /\ \/ /\ IF LocalPreflight(machine) /\ ParseLock(lock) /\ lock.form = "v2"
           THEN setup' = [setup EXCEPT ![s].at = "directories", ![s].lock = lock]
           ELSE Fails(s)
        /\ UNCHANGED faults
     \/ Fault /\ Fails(s)
  /\ UNCHANGED shared

LookForDirectories(s) ==
  /\ At(s, "directories")
  /\ Goes(s, IF directories THEN "manifest" ELSE "mkdir")
  /\ UNCHANGED <<shared, faults>>

\* Two setups may both have found them missing: the second mkdir raises.
MakeDirectories(s) ==
  /\ At(s, "mkdir")
  /\ IF directories THEN Fails(s) ELSE Goes(s, "manifest")
  /\ directories' = TRUE
  /\ UNCHANGED <<manifests, runtimes, faults>>

\* curl, digest and manifest. What arrives may be nothing or anything.
FetchManifest(s) ==
  /\ At(s, "manifest")
  /\ LET published == setup[s].lock.digest IN
     \/ /\ IF ParseManifest(published, setup[s].lock) THEN Goes(s, "look") ELSE Fails(s)
        /\ UNCHANGED faults
     \/ Fault /\ Fails(s)
  /\ UNCHANGED shared

\* Mutant: what is installed is taken to be cached as well.
MutInstalledIsAll(s) ==
  /\ At(s, "look")
  /\ Goes(s, IF Installed(runtimes[Record(s).digest], setup[s].lock, Record(s).digest)
             THEN "launch" ELSE "archive")
  /\ UNCHANGED <<shared, faults>>

LookForInstallation(s) ==
  /\ At(s, "look")
  /\ Goes(s, IF Installed(runtimes[Record(s).digest], setup[s].lock, Record(s).digest)
             THEN "cache" ELSE "archive")
  /\ UNCHANGED <<shared, faults>>

\* Mutant: the archive is not compared with its digest.
MutAnyArchive(s) ==
  /\ At(s, "archive")
  /\ IF ExtractArchive(Served[Record(s).url], Record(s), setup[s].lock)
     THEN setup' = [setup EXCEPT ![s].at = "install", ![s].changed = TRUE]
     ELSE Fails(s)
  /\ UNCHANGED <<shared, faults>>

\* curl, digest, extract, the marker and the trial run of the payload.
FetchArchive(s) ==
  /\ At(s, "archive")
  /\ LET file == Served[Record(s).url] IN
     \/ /\ IF VerifyDigest(file, Record(s).digest) /\ ExtractArchive(file, Record(s), setup[s].lock)
           THEN setup' = [setup EXCEPT ![s].at = "install", ![s].changed = TRUE]
           ELSE Fails(s)
        /\ UNCHANGED faults
     \/ Fault /\ Fails(s)
  /\ UNCHANGED shared

\* rename_noreplace, and installed if the name is taken. Only then is the
\* parent directory not flushed; the marker never is.
Payload(s) == [at |-> "fresh", archive |-> Served[Record(s).url],
               marker |-> Record(s).digest, kept |-> FALSE]
\* Mutant: what has the name of the installation is not looked at.
MutTakenIsInstalled(s) ==
  /\ At(s, "install")
  /\ IF runtimes[Record(s).digest].at = "absent"
     THEN runtimes' = [runtimes EXCEPT ![Record(s).digest] = Payload(s)] /\ Goes(s, "flush")
     ELSE UNCHANGED runtimes /\ Goes(s, "cache")
  /\ UNCHANGED <<directories, manifests, faults>>

Install(s) ==
  /\ At(s, "install")
  /\ LET digest == Record(s).digest IN
     IF runtimes[digest].at = "absent"
     THEN runtimes' = [runtimes EXCEPT ![digest] = Payload(s)] /\ Goes(s, "flush")
     ELSE /\ IF Installed(runtimes[digest], setup[s].lock, digest)
             THEN Goes(s, "cache") ELSE Fails(s)
          /\ UNCHANGED runtimes
  /\ UNCHANGED <<directories, manifests, faults>>

FlushRuntimes(s) ==
  /\ At(s, "flush")
  /\ runtimes' = [runtimes EXCEPT ![Record(s).digest].at = "named"]
  /\ Goes(s, "cache")
  /\ UNCHANGED <<directories, manifests, faults>>

\* A manifest that is there is verified; the temporary file is written with one
\* write, which a full disk cuts short without an error.
LookForManifest(s) ==
  /\ At(s, "cache")
  /\ LET wanted == setup[s].lock.digest cached == manifests[wanted] IN
     IF cached.at # "absent"
     THEN /\ IF VerifyDigest(cached.file, wanted) THEN Goes(s, "launch") ELSE Fails(s)
          /\ UNCHANGED faults
     ELSE \E file \in {wanted, "cut short"} :
            /\ setup' = [setup EXCEPT ![s].at = "link", ![s].temporary = file]
            /\ IF file = wanted THEN UNCHANGED faults ELSE Fault
  /\ UNCHANGED shared

\* Mutant: rename in the place of link.
MutReplaceManifest(s) ==
  /\ At(s, "link")
  /\ manifests' = [manifests EXCEPT ![setup[s].lock.digest] =
                     [at |-> "fresh", file |-> setup[s].temporary]]
  /\ Goes(s, "sync")
  /\ UNCHANGED <<directories, runtimes, faults>>

LinkManifest(s) ==
  /\ At(s, "link")
  /\ IF manifests[setup[s].lock.digest].at = "absent"
     THEN /\ manifests' = [manifests EXCEPT ![setup[s].lock.digest] =
                             [at |-> "fresh", file |-> setup[s].temporary]]
          /\ Goes(s, "sync")
     ELSE Fails(s) /\ UNCHANGED manifests
  /\ UNCHANGED <<directories, runtimes, faults>>

SyncManifests(s) ==
  /\ At(s, "sync")
  /\ manifests' = [manifests EXCEPT ![setup[s].lock.digest].at = "named"]
  /\ setup' = [setup EXCEPT ![s].at = "launch", ![s].temporary = "none"]
  /\ UNCHANGED <<directories, runtimes, faults>>

\* kb --version and kb validate: the launcher reads the lock for itself.
Launch(s) ==
  /\ At(s, "launch")
  /\ IF Launched(lock) # {} THEN Goes(s, "qualify") ELSE Fails(s)
  /\ UNCHANGED <<shared, faults>>

\* qualify-amp, then the report.
Report(s) ==
  /\ At(s, "qualify")
  /\ Fails(s) \/ Goes(s, IF setup[s].changed THEN "installed" ELSE "unchanged")
  /\ UNCHANGED <<shared, faults>>

Ended(s) == setup[s].at \in {"failed", "installed", "unchanged"}

\* The owner runs it again.
Rerun(s) ==
  /\ Ended(s)
  /\ setup' = [setup EXCEPT ![s] = Idle]
  /\ UNCHANGED <<shared, faults>>

Step(s) ==
  /\ \/ ReadLock(s) \/ LookForDirectories(s) \/ MakeDirectories(s)
     \/ FetchManifest(s) \/ LookForInstallation(s) \/ FetchArchive(s)
     \/ Install(s) \/ FlushRuntimes(s)
     \/ LookForManifest(s) \/ LinkManifest(s) \/ SyncManifests(s)
     \/ Launch(s) \/ Report(s) \/ Rerun(s)
  /\ UNCHANGED world

----------------------------------------------------------------------------
(* The owner, and what may go wrong.                                        *)

SwitchLock ==
  /\ switches < MaxSwitches /\ switches' = switches + 1
  /\ lock' \in Locks \ {lock}
  /\ UNCHANGED <<machine, shared, setup, faults>>

Kill(s) ==
  /\ ~Ended(s) /\ ~At(s, "idle") /\ Fault
  /\ Fails(s)
  /\ UNCHANGED <<shared, world>>

\* What was flushed stays; of the rest, any part: a manifest that was linked, an
\* installation that was renamed, or the marker in it.
Unflushed(entries) == {e \in DOMAIN entries : entries[e].at = "fresh"}
Unmarked == {d \in Archives : runtimes[d].at # "absent" /\ ~runtimes[d].kept}

PowerCut ==
  /\ Fault
  /\ \E lost \in SUBSET Unflushed(manifests), gone \in SUBSET Unflushed(runtimes),
        blank \in SUBSET Unmarked :
       /\ manifests' = [m \in Manifests |->
            IF m \in lost \/ manifests[m] = Absent THEN Absent
            ELSE [manifests[m] EXCEPT !.at = "named"]]
       /\ runtimes' = [d \in Archives |->
            IF d \in gone \/ runtimes[d] = Absent THEN Absent
            ELSE [runtimes[d] EXCEPT !.at = "named", !.kept = TRUE,
                                     !.marker = IF d \in blank THEN "blank" ELSE @]]
  /\ setup' = [s \in Setups |-> [Idle EXCEPT !.at = "failed"]]
  /\ UNCHANGED <<directories, world>>

----------------------------------------------------------------------------
Init ==
  /\ machine \in Machines /\ lock \in Locks /\ directories = FALSE
  /\ manifests = [m \in Manifests |-> Absent]
  /\ runtimes = [d \in Archives |-> Absent]
  /\ setup = [s \in Setups |-> Idle]
  /\ faults = 0 /\ switches = 0

Next == SwitchLock \/ PowerCut \/ \E s \in Setups : Step(s) \/ Kill(s)

Spec == Init /\ [][Next]_vars

\* A setup goes on, and its owner runs it again; the faults come to an end.
Fairness == \A s \in Setups : WF_vars(Step(s))
FairSpec == Spec /\ Fairness

----------------------------------------------------------------------------
Places == {"idle", "directories", "mkdir", "manifest", "look", "archive", "install",
           "flush", "cache", "link", "sync", "launch", "qualify",
           "installed", "unchanged", "failed"}
Installations ==
  [at : {"fresh", "named"}, archive : Archives, marker : Archives \cup {"blank"},
   kept : BOOLEAN]
CachedFiles == [at : {"fresh", "named"}, file : Manifests \cup {"cut short"}]
Runs ==
  [at : Places, lock : Locks \cup {NoLock},
   temporary : Manifests \cup {"none", "cut short"}, changed : BOOLEAN]
TypeOK ==
  /\ lock \in Locks /\ directories \in BOOLEAN
  /\ manifests \in [Manifests -> {Absent} \cup CachedFiles]
  /\ runtimes \in [Archives -> {Absent} \cup Installations]
  /\ setup \in [Setups -> Runs]

\* Whatever lock is checked out, the launcher executes nothing but the runtime
\* of that lock: its version and revision, every file as it is in the archive its
\* manifest names for this target, and the files a manifest lists for that
\* archive, which need not be this one: an installation is not compared with it.
SelectedIsLocked ==
  \A l \in Locks : \A tree \in Launched(l) :
    LET digest == Selected(l.digest).digest IN
    /\ tree["VERSION"] = l.version /\ tree["REVISION"] = l.revision
    /\ tree = Tree(digest)
    /\ \E k \in Locks : Selected(k.digest).digest = digest
                        /\ Selected(k.digest).files = DOMAIN tree

\* A setup that reports success has left a runtime that the launcher accepts for
\* the lock it read, also if another lock was checked out meanwhile and also if
\* another setup did the work. Only a manifest cut short goes unnoticed, if the
\* launcher then tried another lock.
CutShort(l) == manifests[l.digest].at # "absent" /\ manifests[l.digest].file # l.digest
TruthfulReport ==
  \A s \in Setups :
    setup[s].at \in {"installed", "unchanged"} =>
      Launched(setup[s].lock) # {} \/ CutShort(setup[s].lock)

\* No step of any setup, failed, killed or concurrent, and no power cut after its
\* files were flushed, takes a valid runtime away or changes it, whatever lock it
\* belongs to.
Flushed(l) ==
  /\ manifests[l.digest].at = "named"
  /\ runtimes[Selected(l.digest).digest].at = "named"
  /\ runtimes[Selected(l.digest).digest].kept
PriorKept ==
  [][\A l \in Locks : Launched(l) # {} /\ (PowerCut => Flushed(l))
                         => Launched(l)' = Launched(l)]_vars

\* Run again and again, setup installs a sound release on a machine that
\* qualifies, whatever earlier runs left behind, unless a cached manifest is cut
\* short or a marker was lost: those two, setup never repairs.
Sound(l) ==
  LET record == Selected(l.digest) IN
  /\ ParseLock(l) /\ l.form = "v2" /\ ParseManifest(l.digest, l)
  /\ Served[record.url] = record.digest
  /\ ExtractArchive(record.digest, record, l)
Wedged(l) ==
  LET digest == Selected(l.digest).digest IN
  \/ CutShort(l)
  \/ runtimes[digest].at # "absent" /\ runtimes[digest].marker # digest
RerunInstalls ==
  <>[](LocalPreflight(machine) /\ Sound(lock) => Launched(lock) # {} \/ Wedged(lock))

=============================================================================
