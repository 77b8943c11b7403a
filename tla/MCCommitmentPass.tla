-------------------------- MODULE MCCommitmentPass --------------------------
(* A scan with an oracle, a plan node with two columns, a gadget with two   *)
(* tables and a detached node.  Columns p1, g1 and g3 hold one polynomial,  *)
(* p2 and g2 another; p2 and g1 have the same field name.                   *)
EXTENDS CommitmentPass

MCNode == {"scan", "plan", "gadget", "gone"}
MCEntry == {"s1", "p1", "p2", "g1", "g2", "g3"}
MCOwner == [e \in MCEntry |-> CASE e = "s1" -> "scan"
                                [] e \in {"p1", "p2"} -> "plan"
                                [] OTHER -> "gadget"]
MCTableNo == [e \in MCEntry |-> IF e = "g3" THEN 2 ELSE 1]
MCName == [e \in MCEntry |-> IF e \in {"p2", "g1"} THEN "sum" ELSE e]
MCPoly == [e \in MCEntry |-> CASE e \in {"p1", "g1", "g3"} -> "one"
                               [] e \in {"p2", "g2"} -> "contig"
                               [] OTHER -> "keys"]
MCPcsCommit(p) == <<"com", p>>
MCMleDigest(p) == <<"blake3", p>>
MCOracleComs(n) == <<"file", n>>
=============================================================================
