----------------------------- MODULE Enrollment -----------------------------
(* qualify-amp and enroll-amp of runtime/templates/runtime_metadata.py: the *)
(* Amp executable is qualified and recorded while Amp's updater renames new *)
(* builds to its path and old ones back, and other processes of the user    *)
(* write into the file. kb (lib/sync.ml) trusts what is recorded.           *)
EXTENDS Setup, FiniteSets

CONSTANTS
  Inodes,       \* inode numbers in ~/.amp/bin
  Builds,       \* contents of the executable, of one size
  VersionOf,    \* what each of them prints as its version
  Supported,    \* the versions that are not below the least one
  Helping,      \* the builds whose credential helper works
  MaxChanges    \* bound: of the executable at the path, by renames and writes

ASSUME EnrollmentAssumption ==
  /\ DOMAIN VersionOf = Builds /\ Helping \subseteq Builds
  /\ MaxChanges \in Nat
  /\ Inodes \subseteq Nat \ {0} /\ Inodes # {}

VARIABLES
  path,         \* the inode of ~/.amp/bin/amp
  backup,       \* the inode the updater keeps for a rollback
  build,        \* of each inode: its content
  record,       \* local.json: inode, digest and version
  disk,         \* the records of which a power cut leaves one
  slipped,      \* history: builds written into the file that a setup had just
                \* logged in with, and was about to take the digest of
  changes

evars == <<path, backup, build, setup, record, disk, slipped, changes, faults>>
files == <<path, backup, build, slipped, changes>>

NoRecord == [inode |-> 0, digest |-> "none", version |-> "none"]

\* Of each setup: where it is, the inode it holds open, the version it was told,
\* the record it makes, whether the one it is to replace has been replaced since
\* it looked, and the records there have been since its own (history).
EIdle == [at |-> "idle", open |-> 0, version |-> "none", new |-> NoRecord,
          stale |-> FALSE, since |-> {}]
EFails(s) == setup' = [setup EXCEPT ![s] = [EIdle EXCEPT !.at = "failed"]]

\* The version is well formed, and not below the least one.
AmpVersionResult(version) == version \in Supported

\* A digest stands for the build it was taken of.
Held(s) == build[setup[s].open]
Told(s) == VersionOf[Held(s)]
Unchanged(s) == path = setup[s].new.inode /\ build[path] = setup[s].new.digest

----------------------------------------------------------------------------
(* One run: qualify_amp, then enroll_amp.                                   *)

\* verify_amp and open_amp.
OpenAmp(s) ==
  /\ At(s, "idle")
  /\ setup' = [setup EXCEPT ![s].at = "version", ![s].open = path]
  /\ UNCHANGED <<record, disk, faults>>

\* pinned_amp_path: a private hard link to the path must be the open inode. The
\* link is executed; amp_version_result refuses what is too old.
AskVersion(s) ==
  /\ At(s, "version")
  /\ IF path = setup[s].open /\ AmpVersionResult(Told(s))
     THEN setup' = [setup EXCEPT ![s].at = "pin", ![s].version = Told(s)]
     ELSE EFails(s)
  /\ UNCHANGED <<record, disk, faults>>

Pin(s) ==
  /\ At(s, "pin")
  /\ IF path = setup[s].open THEN Goes(s, "remote") ELSE EFails(s)
  /\ UNCHANGED <<record, disk, faults>>

\* Mutant: the helper is executed by the path of the executable.
MutRemoteByPath(s) ==
  /\ At(s, "remote")
  /\ IF build[path] \in Helping THEN Goes(s, "digest") ELSE EFails(s)
  /\ UNCHANGED <<record, disk, faults>>

\* check_amp_remote: git, with the link as its credential helper.
CheckRemote(s) ==
  /\ At(s, "remote")
  /\ \/ /\ IF Held(s) \in Helping THEN Goes(s, "digest") ELSE EFails(s)
        /\ UNCHANGED faults
     \/ Fault /\ EFails(s)
  /\ UNCHANGED <<record, disk>>

\* amp_digest_descriptor.
DigestOpen(s) ==
  /\ At(s, "digest")
  /\ setup' = [setup EXCEPT ![s].at = "prepare", ![s].version = "none",
                 ![s].new = [inode |-> setup[s].open, digest |-> Held(s),
                             version |-> setup[s].version]]
  /\ UNCHANGED <<record, disk, faults>>

\* Mutant: a record that is there is not replaced.
MutKeepRecord(s) ==
  /\ At(s, "prepare")
  /\ IF Unchanged(s) /\ record = NoRecord
     THEN Goes(s, "write") ELSE EFails(s)
  /\ UNCHANGED <<record, disk, faults>>

\* amp_digest of the path, for qualify_amp and for enroll_amp, which then looks
\* at the record it is going to replace.
Prepare(s) ==
  /\ At(s, "prepare")
  /\ IF Unchanged(s) THEN Goes(s, "write") ELSE EFails(s)
  /\ UNCHANGED <<record, disk, faults>>

\* The temporary file is written and flushed; it is gone after a failure. Then
\* the executable again, and the record: neither may have changed.
WriteRecord(s) ==
  /\ At(s, "write")
  /\ \/ /\ IF Unchanged(s) /\ ~setup[s].stale THEN Goes(s, "replace") ELSE EFails(s)
        /\ UNCHANGED faults
     \/ Fault /\ EFails(s)
  /\ UNCHANGED <<record, disk>>

Since(t, new) ==
  setup[t].since \cup IF setup[t].at \in {"sync", "enrolled"} THEN {new} ELSE {}

ReplaceRecord(s) ==
  /\ At(s, "replace")
  /\ \/ /\ record' = setup[s].new
        /\ setup' = [t \in Setups |->
             IF t = s THEN [setup[s] EXCEPT !.at = "sync", !.new = NoRecord,
                                            !.since = {setup[s].new}]
             ELSE [setup[t] EXCEPT !.stale = setup[t].at = "write",
                                   !.since = Since(t, setup[s].new)]]
        /\ disk' = disk \cup {setup[s].new}
        /\ UNCHANGED faults
     \/ Fault /\ EFails(s) /\ UNCHANGED <<record, disk>>

\* Mutant: the directory is not flushed.
MutNoSync(s) ==
  /\ At(s, "sync") /\ Goes(s, "enrolled")
  /\ UNCHANGED <<record, disk, faults>>

\* A failed flush is reported as uncertain durability.
SyncDirectory(s) ==
  /\ At(s, "sync")
  /\ \/ Goes(s, "enrolled") /\ disk' = {record} /\ UNCHANGED faults
     \/ Fault /\ EFails(s) /\ UNCHANGED disk
  /\ UNCHANGED record

ERerun(s) ==
  /\ setup[s].at \in {"failed", "enrolled"}
  /\ setup' = [setup EXCEPT ![s] = EIdle]
  /\ UNCHANGED <<record, disk, faults>>

EStep(s) ==
  /\ \/ OpenAmp(s) \/ AskVersion(s) \/ Pin(s) \/ CheckRemote(s)
     \/ DigestOpen(s) \/ Prepare(s) \/ WriteRecord(s) \/ ReplaceRecord(s) \/ SyncDirectory(s) \/ ERerun(s)
  /\ UNCHANGED files

----------------------------------------------------------------------------
(* Amp's updater, other processes, and faults.                              *)

\* A number is given again once no name and no descriptor has its inode.
Free == Inodes \ ({path, backup} \cup {setup[s].open : s \in Setups})

Changing == changes < MaxChanges /\ changes' = changes + 1

Update ==
  /\ Changing
  /\ \E i \in Free, b \in Builds : path' = i /\ build' = [build EXCEPT ![i] = b]
  /\ backup' = path
  /\ UNCHANGED <<setup, record, disk, slipped, faults>>

Rollback ==
  /\ Changing
  /\ backup # path
  /\ path' = backup /\ backup' = path
  /\ UNCHANGED <<build, setup, record, disk, slipped, faults>>

\* A setup has logged in with the file at the path and not yet taken its digest:
\* what is written now is recorded as if it had logged in, if it prints the same.
Slips(b) ==
  \E s \in Setups :
    At(s, "digest") /\ setup[s].open = path /\ setup[s].version = VersionOf[b]

Rewrite ==
  /\ Changing
  /\ \E b \in Builds :
       /\ build' = [build EXCEPT ![path] = b]
       /\ slipped' = IF Slips(b) THEN slipped \cup {b} ELSE slipped
  /\ UNCHANGED <<path, backup, setup, record, disk, faults>>

EKill(s) ==
  /\ setup[s].at \notin {"idle", "failed", "enrolled"} /\ Fault
  /\ EFails(s)
  /\ UNCHANGED <<files, record, disk>>

EPowerCut ==
  /\ Fault
  /\ record' \in disk /\ disk' = {record'}
  /\ setup' = [s \in Setups |-> [EIdle EXCEPT !.at = "failed"]]
  /\ UNCHANGED files

----------------------------------------------------------------------------
EInit ==
  /\ path = CHOOSE i \in Inodes : TRUE
  /\ backup = path
  /\ \E b \in Builds : build = [i \in Inodes |-> b]
  /\ setup = [s \in Setups |-> EIdle]
  /\ record = NoRecord /\ disk = {NoRecord}
  /\ slipped = {} /\ changes = 0 /\ faults = 0

ENext ==
  \/ \E s \in Setups : EStep(s) \/ EKill(s)
  \/ Update \/ Rollback \/ Rewrite \/ EPowerCut

ESpec == EInit /\ [][ENext]_evars

\* A setup goes on and its owner runs it again.
EFairness == \A s \in Setups : WF_evars(EStep(s))
EFairSpec == ESpec /\ EFairness

----------------------------------------------------------------------------
EPlaces == {"idle", "version", "pin", "remote", "digest", "prepare", "write", "replace",
           "sync", "enrolled", "failed"}
Versions == {VersionOf[b] : b \in Builds}
Records == [inode : Inodes, digest : Builds, version : Versions] \cup {NoRecord}
ERuns == [at : EPlaces, open : Inodes \cup {0}, version : Versions \cup {"none"},
         new : Records, stale : BOOLEAN, since : SUBSET Records]
ETypeOK ==
  /\ path \in Inodes /\ backup \in Inodes
  /\ build \in [Inodes -> Builds]
  /\ setup \in [Setups -> ERuns]
  /\ record \in Records /\ disk \subseteq Records
  /\ slipped \subseteq Builds

\* open_enrolled_local_amp and trusted_local_amp_runtime: kb compares inode,
\* digest and version with the record, and asks for the version itself.
Trusted ==
  /\ record.inode = path /\ record.digest = build[path]
  /\ AmpVersionResult(VersionOf[build[path]])
  /\ record.version = VersionOf[build[path]]

Qualifies(b) == VersionOf[b] \in Supported /\ b \in Helping

\* What kb trusts passed both gates, whatever is renamed to or written at its
\* place between the steps of setups: nothing is trusted because another build
\* was there for the question or the login. One window is not closed: what is
\* written into the file after its login and before its digest (qualify_amp).
TrustedWasQualified == Trusted => Qualifies(build[path]) \/ build[path] \in slipped

\* While a setup says that it has enrolled Amp, a power cut leaves its record, or
\* one that replaced it, although other setups replace it and fail to flush
\* theirs (enroll_amp).
EnrolledIsDurable ==
  \A s \in Setups : At(s, "enrolled") => disk \subseteq setup[s].since

\* When the updater has come to rest on a build that qualifies, setup, run again,
\* ends with kb trusting it, whatever records and races came before.
RerunEnrolls == <>[](Qualifies(build[path]) => Trusted)
=============================================================================
