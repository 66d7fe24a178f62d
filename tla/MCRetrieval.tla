---------------------------- MODULE MCRetrieval ----------------------------
(* Constants of Retrieval for TLC: two clones of one repository whose kb use
   the same model, one of them read from while both synchronise. *)
EXTENDS Retrieval, TLC

MCBlob(r) == [input |-> "i1", rest |-> r]

\* The second commit changes p and deletes q.
MCTrees ==
    [s \in Sources |->
        << "p" :> MCBlob(1) @@ "q" :> MCBlob(1), "p" :> MCBlob(2) @@ "q" :> None >>]

MCSourceOf == [c \in Clones |-> "A"]
MCModelOf == [c \in Clones |-> "m1"]
MCCloneOf == [r \in Readers |-> "c1"]
=============================================================================
