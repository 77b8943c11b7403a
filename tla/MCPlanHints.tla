----------------------------- MODULE MCPlanHints -----------------------------
(* Chains of three operators between a ResultCheck and a scan, and a join   *)
(* of two filtered scans, with every combination of row counts.             *)
EXTENDS PlanHints

MCRows == 0..MaxRows
Unary == {"Filter", "Aggregate", "Limit", "Projection"}

\* Rows an operator can produce from its input's rows; an Aggregate without
\* groups gives one row for no rows.
Produces(k, i, o) ==
  CASE k \in {"Filter", "Limit"} -> o <= i
    [] k = "Aggregate" -> IF i = 0 THEN o <= 1 ELSE o \in 1..i
    [] OTHER -> o = i

Chain == << <<>>, <<0>>, <<0, 0>>, <<0, 0, 0>>, <<0, 0, 0, 0>> >>
ChainOf(f) == [p \in { Chain[i] : i \in 1..5 } |-> f[Len(p) + 1]]
ChainPlans ==
  { [kind |-> ChainOf(<<"ResultCheck", a, b, c, "TableScan">>),
     rows |-> ChainOf(<<r[1], r[1], r[2], r[3], r[4]>>)] :
      <<a, b, c, r>> \in
        { x \in Unary \X Unary \X Unary \X [1..4 -> MCRows] :
            \A i \in 1..3 : Produces(x[i], x[4][i + 1], x[4][i]) } }

JoinPaths == { <<>>, <<0>>, <<0, 0>>, <<0, 0, 0>>, <<0, 0, 0, 0>>,
               <<0, 0, 1>>, <<0, 0, 1, 0>> }
JoinKind(a, b) ==
  [p \in JoinPaths |->
     CASE p = <<>> -> "ResultCheck"  [] p = <<0>> -> a
       [] p = <<0, 0>> -> "Join"     [] Len(p) = 3 -> b
       [] OTHER -> "TableScan"]
JoinRows(o, j, l, r, s) ==
  [p \in JoinPaths |->
     CASE Len(p) < 2 -> o      [] p = <<0, 0>> -> j
       [] p = <<0, 0, 0>> -> l [] p = <<0, 0, 1>> -> r
       [] OTHER -> s]
JoinPlans ==
  { [kind |-> JoinKind(x[1], x[2]),
     rows |-> JoinRows(x[3], x[4], x[5], x[6], x[7])] :
      x \in { y \in Unary \X {"Filter", "Aggregate"} \X MCRows \X MCRows
                    \X MCRows \X MCRows \X {0, MaxRows} :
                /\ Produces(y[1], y[4], y[3]) /\ y[4] <= y[5] * y[6]
                /\ Produces(y[2], y[7], y[5])
                /\ Produces(y[2], y[7], y[6]) } }

MCPlans == ChainPlans \cup JoinPlans
\* Production uses the first or, with the hints switched off, the second.
AllRules ==
  { <<"rematerialize">>, <<>>, <<"truncate">>,
    <<"rematerialize", "truncate">>, <<"truncate", "rematerialize">> }
=============================================================================
