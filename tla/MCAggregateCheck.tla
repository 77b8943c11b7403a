--------------------------- MODULE MCAggregateCheck ---------------------------
(* Bytes of one bit: an Int16 is -2..1.  Keys 0, 1 and NULL, arguments -2, 0,  *)
(* 1 and NULL; NULL is encoded 0.                                              *)
EXTENDS AggregateCheck

CONSTANT MaxRows   \* how many rows an input may have, less one if it has two keys or no ids

Score(r) ==
  LET Rank(v) == IF v = Null THEN 9 ELSE v + 2
  IN  r[1] * 1000 + Rank(r[2]) * 100 + Rank(r[3]) * 10 + Rank(r[4])
\* Rows <<activator, two keys, argument>> that rise by rank.
Tables(all, n) ==
  {t \in UNION {[1..m -> all] : m \in 0..n} :
     \A i \in 1..(Len(t) - 1) : Score(t[i]) <= Score(t[i + 1])}
Args == {-2, 0, 1, Null}
\* Inactive rows of few values.
RowsOver(first, second) ==
  ({1} \X first \X second \X Args) \cup {<<0, k, 0, 1>> : k \in first \ {Null}}
Row(r, id) ==
  [n \in -1..MaxCols |->
    CASE n = RowId -> id [] n = Act -> r[1] [] n = 1 -> r[2] [] n = 2 -> r[3] [] n = Arg -> r[4]
      [] OTHER -> Null]
\* Rows with ids arrive in the order of their ids or in the other; the ids rise
\* with the rank or fall.
MCRows(t, reversed, falling) ==
  [i \in DOMAIN t |->
    LET id == IF reversed THEN Len(t) - i ELSE i - 1
    IN  Row(t[IF falling THEN Len(t) - id ELSE id + 1], id)]
Query(keys, fs, t, shape, numbered, reversed, falling) ==
  [keys |-> keys, aggs |-> fs, rows |-> MCRows(t, reversed, falling), shape |-> shape,
   numbered |-> numbered]
Lists == {<<"avg", "max">>, <<"count", "min">>, <<"sum">>}
Numbered ==
  {Query(x[1], fs, x[2], "columns", TRUE, falling, falling) :
     x \in ({<<>>} \X Tables(RowsOver({0}, {0}), MaxRows))
          \cup ({<<1>>} \X Tables(RowsOver({0, 1, Null}, {0}), MaxRows))
          \cup ({<<1, 2>>} \X Tables(RowsOver({0, 1}, {0, 1}), MaxRows - 1)),
     fs \in Lists, falling \in BOOLEAN}
\* Rows without ids, and groups that are no columns.
Unnumbered ==
  {Query(<<1>>, fs, t, shape, FALSE, FALSE, TRUE) :
     fs \in Lists, t \in Tables(RowsOver({0, 1, Null}, {0}), MaxRows - 1),
     shape \in {"columns", "expression", "ambiguous"}}
MCQueries == Numbered \cup Unnumbered
=============================================================================
