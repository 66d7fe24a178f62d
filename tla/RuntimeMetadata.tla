-------------------------- MODULE RuntimeMetadata --------------------------
(* What runtime/templates/runtime_metadata.py accepts: locks, manifests,    *)
(* archives, installations and machines. A file is represented by its       *)
(* digest, an address by a version and a file of its release, the root of   *)
(* an archive by its version and target.                                    *)
EXTENDS Naturals, Sequences

CONSTANTS
  Target,       \* the target of this machine
  Targets,      \* the supported targets
  ValidPaths,   \* the names valid_path accepts
  Mandatory,    \* the files every runtime has
  Optional,     \* those it may have: in lib/ and under share/licenses/
  Manifest,     \* of a digest: the manifest it was taken of
  Archive       \* of a digest: the archive it was taken of

ASSUME MetadataAssumption ==
  /\ Target \in Targets
  /\ {"VERSION", "REVISION", "bin/kb"} \subseteq Mandatory
  /\ Mandatory \cup Optional \subseteq ValidPaths

Address(version, file) == <<version, file>>

\* Of a file, which its own digest stands for.
VerifyDigest(file, expected) == file = expected

----------------------------------------------------------------------------
(* Locks and manifests.                                                     *)

\* The two forms of a lock. The first names the archive and is for Linux only.
ParseLock(lock) ==
  \/ lock.form = "v1" /\ Target = "linux" /\ lock.url = Address(lock.version, Target)
  \/ lock.form = "v2" /\ lock.url = Address(lock.version, "manifest")

\* They are sorted, too; their order is left out.
Distinct(records) ==
  \A i, j \in DOMAIN records : i # j => records[i].target # records[j].target

ValidRecord(record, version) ==
  /\ record.target \in Targets
  /\ record.url = Address(version, record.target)
  /\ record.root = <<version, record.target>>
  /\ record.size > 0
  /\ Mandatory \subseteq record.files /\ record.files \subseteq ValidPaths

\* Of the file with a digest, against a lock.
ParseManifest(file, lock) ==
  /\ VerifyDigest(file, lock.digest)
  /\ LET manifest == Manifest[file] targets == manifest.targets IN
     /\ manifest.version = lock.version /\ manifest.revision = lock.revision
     /\ \A i \in DOMAIN targets : ValidRecord(targets[i], lock.version)
     /\ Distinct(targets)
     /\ \E i \in DOMAIN targets : targets[i].target = Target

\* The record of this machine's target, in the manifest of a digest.
Selected(digest) ==
  LET targets == Manifest[digest].targets
  IN targets[CHOOSE i \in DOMAIN targets : targets[i].target = Target]

----------------------------------------------------------------------------
(* Archives and installations.                                              *)

FilesOf(archive) == {m \in archive.members : m.kind = "file"}

\* The members are a set: two of one name are two records that differ elsewhere.
ArchiveEntries(archive, record) ==
  /\ archive.size <= record.size
  /\ \A m \in archive.members :
       /\ m.kind \in {"file", "directory"}
       /\ m.root = record.root
       /\ \A n \in archive.members : n.name = m.name => n = m
       /\ m.kind = "file" =>
            m.name \in record.files \cap (Mandatory \cup Optional)
  /\ {m.name : m \in FilesOf(archive)} = record.files

Tree(digest) ==
  LET archive == Archive[digest] IN
  [name \in {m.name : m \in FilesOf(archive)} |->
     (CHOOSE m \in FilesOf(archive) : m.name = name).data]

\* Without the file that names the archive, which setup-local adds.
ExtractArchive(digest, record, lock) ==
  /\ ArchiveEntries(Archive[digest], record)
  /\ Tree(digest)["VERSION"] = lock.version
  /\ Tree(digest)["REVISION"] = lock.revision

\* An installation: the digest of the archive it was extracted from, and the
\* digest its marker holds.
Installed(installation, lock, digest) ==
  /\ installation.at # "absent"
  /\ LET tree == Tree(installation.archive) IN
     /\ "bin/kb" \in DOMAIN tree
     /\ tree["VERSION"] = lock.version /\ tree["REVISION"] = lock.revision
  /\ installation.marker = digest

----------------------------------------------------------------------------
(* Machines. A version is a sequence of numbers, empty if none was found.   *)

\* Tuples compare as in Python: a proper prefix is below what it begins.
Below(version, minimum) ==
  \E i \in DOMAIN minimum :
    /\ \A j \in 1..(i - 1) : j \in DOMAIN version /\ version[j] = minimum[j]
    /\ i \in DOMAIN version => version[i] < minimum[i]

Minimum ==
  [linux |-> [system |-> <<2, 36>>, bash |-> <<5, 2>>, git |-> <<2, 39>>,
              curl |-> <<7, 88, 1>>, python3 |-> <<3, 11>>, tar |-> <<1, 34>>,
              checksum |-> <<9, 1>>, rg |-> <<14, 1>>],
   macos |-> [system |-> <<26, 5, 2>>, bash |-> <<3, 2, 57>>, git |-> <<2, 50, 1>>,
              curl |-> <<8, 7, 1>>, python3 |-> <<3, 9, 6>>, tar |-> <<3, 5, 3>>,
              checksum |-> <<6, 2>>, rg |-> <<14, 1>>]]

FileSystems == [linux |-> {"ext2/ext3", "ext4"}, macos |-> {"apfs"}]

\* Of a machine: the version of each tool and the file system of the checkout.
LocalPreflight(machine) ==
  /\ \A tool \in DOMAIN Minimum[Target] : ~Below(machine.tools[tool], Minimum[Target][tool])
  /\ machine.filesystem \in FileSystems[Target]
=============================================================================
