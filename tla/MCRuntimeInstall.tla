-------------------------- MODULE MCRuntimeInstall --------------------------
(* RuntimeInstall with two sound releases and some with one flaw each. The  *)
(* digest of the file of a version is named for the version.                *)
EXTENDS RuntimeInstall

Names == {"VERSION", "REVISION", "bin/kb", "lib/ssl", "bin/extra"}
Core == {"VERSION", "REVISION", "bin/kb"}
Extra == {"lib/ssl"}
Versions == {"0.1", "0.2", "0.3", "0.4", "0.5", "0.6", "0.7", "0.8"}

Member(version, name) ==
  [root |-> <<version, "linux">>, name |-> name, kind |-> "file",
   data |-> IF name \in {"VERSION", "REVISION"} THEN version ELSE "code"]
Members(version) ==
  {Member(version, name) : name \in Core \cup Extra}
    \cup {[Member(version, "bin") EXCEPT !.kind = "directory"]}

\* 0.3 holds the version file of 0.2, 0.4 one file twice, 0.5 a file its manifest
\* does not list, 0.8 a file its manifest lists and no archive may hold.
Published ==
  [version \in Versions \cup {"0.6 rebuilt"} |->
    [size |-> 2,
     members |->
       CASE version = "0.3" -> {IF m.name = "VERSION" THEN [m EXCEPT !.data = "0.2"] ELSE m :
                                  m \in Members("0.3")}
         [] version = "0.4" -> Members("0.4") \cup
                               {[Member("0.4", "bin/kb") EXCEPT !.data = "other code"]}
         [] version \in {"0.5", "0.8"} ->
              Members(version) \cup {Member(version, "bin/extra")}
         [] version = "0.6 rebuilt" ->
              {IF m.name = "bin/kb" THEN [m EXCEPT !.data = "other code"] ELSE m :
                 m \in Members("0.6")}
         [] OTHER -> Members(version)]]
\* 0.6 was built again after its manifest.
Addresses ==
  [url \in {Address(version, "linux") : version \in Versions} |->
     IF url[1] = "0.6" THEN "0.6 rebuilt" ELSE url[1]]

Entry(version, target) ==
  [target |-> target, url |-> Address(version, target), digest |-> version,
   root |-> <<version, target>>, size |-> 2,
   files |-> Core \cup Extra \cup IF version = "0.8" THEN {"bin/extra"} ELSE {}]
Announced ==
  [digest \in Versions \cup {"0.2 again"} |->
    CASE digest = "0.7" ->
           [version |-> "0.7", revision |-> "0.7", targets |-> <<Entry("0.7", "macos")>>]
      [] digest = "0.2 again" ->
           [version |-> "0.2", revision |-> "0.2",
            targets |-> <<[Entry("0.2", "linux") EXCEPT !.files = Core]>>]
      [] OTHER ->
           [version |-> digest, revision |-> digest,
            targets |-> <<Entry(digest, "linux"), Entry(digest, "macos")>>]]

LockOf(version) ==
  [form |-> "v2", version |-> version, revision |-> version,
   url |-> Address(version, "manifest"), digest |-> version]
AllLocks ==
  {LockOf(version) : version \in Versions} \cup
  {[LockOf("0.2") EXCEPT !.digest = "0.2 again"],
   [LockOf("0.2") EXCEPT !.revision = "other"],
   [LockOf("0.2") EXCEPT !.url = Address("0.1", "manifest")],
   [LockOf("0.2") EXCEPT !.form = "v1", !.url = Address("0.2", "linux")]}

Having(tool, version) ==
  [tools |-> [Minimum["linux"] EXCEPT ![tool] = version], filesystem |-> "ext4"]
SomeMachines ==
  {Having("curl", <<8>>), Having("curl", <<7, 88>>),
   [Having("rg", <<14, 1>>) EXCEPT !.filesystem = "nfs"]}
=============================================================================
