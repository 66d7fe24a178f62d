---------------------------- MODULE MCIndexSync ----------------------------
(* Constants of IndexSync for TLC: repository A with two clones whose kb use
   different embedding models, and repository B with one clone. *)
EXTENDS IndexSync, TLC

MCBlob(i, r) == [input |-> i, rest |-> r]

MCTree(p, q, r) == "p" :> p @@ "q" :> q @@ "r" :> r

\* In A, p changes without and q with its embedding input, then q and r go.
MCHistoryA ==
    << MCTree(MCBlob("i1", 1), MCBlob("i1", 1), MCBlob("i2", 1)),
       MCTree(MCBlob("i1", 2), MCBlob("i2", 1), MCBlob("i2", 1)),
       MCTree(MCBlob("i1", 2), None, None) >>

\* B holds one concept.
MCHistoryB == << MCTree(None, MCBlob("i2", 1), None) >>

MCTrees == [s \in Sources |-> IF s = "A" THEN MCHistoryA ELSE MCHistoryB]

MCSourceOf == [c \in Clones |-> IF c = "c3" THEN "B" ELSE "A"]

MCModelOf == [c \in Clones |-> IF c = "c2" THEN "m2" ELSE "m1"]
=============================================================================
