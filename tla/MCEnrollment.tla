---------------------------- MODULE MCEnrollment ----------------------------
(* Enrollment with a build that qualifies, one of the same version without a *)
(* helper, one that is too old, and a newer one.                             *)
EXTENDS Enrollment, TLC

Numbers == 1..3
Printed == "good" :> "v2" @@ "mute" :> "v2" @@ "old" :> "v1" @@ "next" :> "v3"
SomeBuilds == DOMAIN Printed
Recent == {"v2", "v3"}
Able == {"good", "old", "next"}
=============================================================================
