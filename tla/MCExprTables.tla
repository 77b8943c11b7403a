---------------------------- MODULE MCExprTables ----------------------------
(* Bytes of one bit: an integer is -2..1.  NULL is encoded 0.                  *)
EXTENDS ExprTables

(* Expressions: arenas whose last node is the root. *)
Plain == [kind |-> "column", op |-> "", args |-> <<>>, list |-> <<>>, negated |-> FALSE,
          col |-> [rel |-> Unnamed, name |-> 1]]
Column(r, n) == <<[Plain EXCEPT !.col = [rel |-> r, name |-> n]]>>
Literal(v) == <<[Plain EXCEPT !.kind = "literal", !.list = <<v>>]>>
Shift(e, k) == [i \in DOMAIN e |-> [e[i] EXCEPT !.args = [j \in DOMAIN @ |-> @[j] + k]]]
Unary(kind, e) == Append(e, [Plain EXCEPT !.kind = kind, !.args = <<Len(e)>>])
Listed(kind, e, list, negated) ==
  Append(e, [Plain EXCEPT !.kind = kind, !.args = <<Len(e)>>, !.list = list, !.negated = negated])
Binary(op, d, e) ==
  d \o Shift(e, Len(d)) \o
  <<[Plain EXCEPT !.kind = "binary", !.op = op, !.args = <<Len(d), Len(d) + Len(e)>>]>>
Case(c, d, e) ==
  LET k == Len(c) + Len(d)
  IN  c \o Shift(d, Len(c)) \o Shift(e, k) \o
      <<[Plain EXCEPT !.kind = "case", !.args = <<Len(c), k, k + Len(e)>>]>>

(* The input has two columns of one name, told apart by their relations; or of two. *)
Shared == <<[rel |-> 1, name |-> 1], [rel |-> 2, name |-> 1]>>
Apart == <<[rel |-> 1, name |-> 1], [rel |-> 1, name |-> 2]>>
X == Column(1, 1)
Y == Column(2, 1)
Numbers == {Binary(op, X, Y) : op \in {"+", "-", "*", "/"}}
           \cup {Binary("+", X, Literal(1)), Binary("/", Literal(1), Y), Unary("scalar", X)}
Branches == {Case(Binary("=", Y, Literal(0)), Literal(0), Binary("/", X, Y))}
Lists == {<<>>, <<0, 1>>, <<1, Null>>}
Membership ==
  {Listed("in_list", Y, list, negated) : list \in Lists, negated \in BOOLEAN}
  \cup {Listed("in_list", Binary("+", X, Y), <<1>>, FALSE)}
Subqueries == {Listed("in_subquery", X, list, negated) : list \in Lists, negated \in BOOLEAN}
Compared ==
  {Binary("=", X, Y), Binary("<", Y, Literal(1)), Binary("<", Binary("-", X, Y), Literal(0)),
   Binary("=", Binary("/", X, Y), Literal(0)), Binary("=", Literal(Null), X)}
Tests == {Unary("cast", X), Listed("between", X, <<0, 1>>, FALSE)}
Connected ==
  {Binary(op, d, e) :
     op \in {"and", "or"}, d \in {Binary("<", X, Y), Listed("in_subquery", X, <<0>>, FALSE)},
     e \in {Binary("=", Y, Literal(0)), Listed("in_list", Y, <<1, Null>>, TRUE),
            Unary("cast", Y)}}
  \cup {Binary("and", Unary("cast", X), Unary("alias", Binary("<", X, Y)))}
Predicates == Membership \cup Subqueries \cup Compared \cup Tests \cup Connected
Expressions ==
  {X, Y, Literal(1), Literal(Null), Unary("alias", Y), Unary("alias", Binary("+", X, Y)),
   Binary("*", Binary("-", X, Y), Unary("cast", Y)), Unary("cast", Listed("between", X, <<0, 1>>, FALSE)),
   Unary("cast", Case(Binary("<", X, Y), X, Y)), Binary("+", Unary("scalar", X), Y)}
  \cup Numbers \cup Branches \cup Membership \cup Compared \cup Tests
Few == {X, Y, Unary("alias", X), Binary("+", X, Y), Binary("<", X, Y), Unary("cast", Y), Unary("scalar", X)}

(* Rows <<activator, X, Y>>: one of all, or with others of few values. *)
Values == {-2, -1, 0, 1, Null}
Row(a, x, y, id) ==
  [n \in -1..MaxCols |->
    CASE n = RowId -> id [] n = Act -> Truth(a) [] n = 1 -> x [] n = 2 -> y [] OTHER -> Null]
Single == {<<>>} \cup {<<Row(a, x, y, 0)>> : a \in BOOLEAN, x \in Values, y \in Values}
Double(m, n) ==
  {<<Row(a, x, 1, m), Row(b, 1, y, n)>> : a \in BOOLEAN, b \in BOOLEAN, x \in {0, 1}, y \in {0, Null}}
Triple(m, n, o) ==
  {<<Row(a, 0, 1, m), Row(TRUE, 1, 0, n), Row(b, 1, 1, o)>> : a \in BOOLEAN, b \in BOOLEAN}
(* Row ids that are tracked may not be those the rows arrive by. *)
Inputs ==
  ({"hidden"} \X (Single \cup Double(0, 1) \cup Triple(0, 1, 2)))
  \cup ({"tracked"} \X (Double(1, 0) \cup Triple(2, 0, 1)))
  \cup ({"none"} \X Triple(1, 2, 0))

Query(root, fields, input, nodes, roots) ==
  [root |-> root, fields |-> fields, ids |-> input[1], rows |-> input[2], nodes |-> nodes, roots |-> roots]
MCQueries ==
  {Query("Projection", Shared, input, e, <<Len(e)>>) : input \in Inputs, e \in Expressions}
  \cup {Query("Projection", Shared, input, d \o Shift(e, Len(d)), <<Len(d), Len(d) + Len(e)>>) :
          input \in {"tracked"} \X (Double(1, 0) \cup Triple(2, 0, 1)), d \in Few, e \in Few}
  \cup {Query("Projection", Apart, input, e, <<Len(e)>>) :
          input \in {"tracked"} \X Double(1, 0),
          e \in {Column(Unnamed, 2), Binary("-", Column(1, 2), Column(Unnamed, 1))}}
  \cup {Query("Projection", Shared, input, <<>>, <<>>) : input \in {"tracked"} \X Triple(2, 0, 1)}
  \cup {Query("Filter", Shared, input, e, <<Len(e)>>) : input \in Inputs, e \in Predicates}
  \cup {Query("Filter", Shared, input, Y, <<1>>) :       \* a Boolean column, not to be padded
          input \in {i \in Inputs : Len(i[2]) \in {1, 2} /\ \A j \in DOMAIN i[2] : i[2][j][2] \in {0, 1, Null}}}
=============================================================================
