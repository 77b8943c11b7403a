--------------------------- MODULE MCProofSession ---------------------------
(* A scan of one base table under a projection and a gadget with two hint   *)
(* columns, below a ResultCheck root.                                       *)
EXTENDS ProofSession

MCNode == {"scan", "proj", "gad", "resgad", "root"}
MCArena == <<"scan", "proj", "gad", "resgad", "root">>
MCKind == [n \in MCNode |-> CASE n = "scan" -> "TableScan"
                              [] n \in {"gad", "resgad"} -> "Gadget"
                              [] OTHER -> "Plan"]
MCColumn == {"s1", "s2", "p1", "g1", "g2"}
MCCols == [n \in MCNode |-> CASE n = "scan" -> <<"s1", "s2">>
                              [] n = "proj" -> <<"p1">>
                              [] n = "gad" -> <<"g1", "g2">>
                              [] OTHER -> <<>>]
MCTableOf == [c \in MCColumn |-> "t"]
MCBaseOf == [n \in MCNode |-> "lineitem"]
MCGadgetComs == [n \in MCNode |-> CASE n = "gad" -> 1
                                    [] n = "resgad" -> 2
                                    [] OTHER -> 0]
MCMatChoices == { {"s1", "s2"}, {"s1", "p1"}, {"s1", "s2", "p1", "g2"},
                  {"p1", "g1", "g2"}, {"s2", "g1"}, {} }
=============================================================================
