------------------------------ MODULE Analysis ------------------------------
(***************************************************************************)
(* Analyses and drift over a table: a plan of one operation on one column, *)
(* run as a preview of the first rows or, once approved, on all of them;   *)
(* and the means of two versions of a dataset compared.  A number is a     *)
(* numerator and a denominator; "nan" is what arithmetic makes of a text   *)
(* that is not finite, here always a NaN, which has no order.              *)
(***************************************************************************)
EXTENDS Profile

CONSTANTS PreviewLimit

\* None names no column.
ASSUME AnalysisAssumption == PreviewLimit \in Nat /\ NULL \notin Columns

Value(n, d) == [is |-> "value", num |-> n, den |-> d]
Refused == [is |-> "refused"]
NotANumber == [is |-> "nan"]
Broken == [is |-> "broken"]     \* an exception of decimal that nobody handles

Same(x, y) == x.is = y.is /\ (x.is = "value" => x.num * y.den = y.num * x.den)

\* A plan: an operation on a column, or NULL for none, of the rows where filter is NULL or fits.
Aggregates == {"count", "sum", "mean", "min", "max"}

\* The numbers of the rows a plan is run on.
Fitting(filter) == {i \in 1 .. Len(rows) : filter = NULL \/ rows[i][filter.column] = filter.equals}
Selected_AlwaysFirst(official, filter) == {i \in Fitting(filter) : i <= PreviewLimit}
Selected(official, filter) == {i \in Fitting(filter) : official \/ i <= PreviewLimit}

(* Every cell of the column is made a number, for a count too; one that is *)
(* no number refuses the plan, one that is not finite goes on.             *)
Evaluate(selected, operation, column) ==
    LET cells == IF column = NULL THEN {} ELSE selected \cap NonNull(column)
        kinds == {Kind(rows[i][column]) : i \in cells}
        s == [i \in cells |-> Amount(rows[i][column])]
    IN  IF "word" \in kinds THEN Refused
        ELSE IF operation = "count" THEN Value(Cardinality(selected), 1)
        ELSE IF cells = {} THEN Refused
        ELSE IF "nonfinite" \in kinds
             THEN IF operation \in {"sum", "mean"} \/ Cardinality(cells) = 1 THEN NotANumber ELSE Broken
        ELSE CASE operation = "sum" -> Value(Total(s), 1)
               [] operation = "mean" -> Value(Total(s), Size(s))
               [] operation = "min" -> Value(Least(s), 1)
               [] operation = "max" -> Value(Greatest(s), 1)

ExecutePlan(operation, column, filter, official, approved) ==
    IF official /\ ~approved THEN Refused
    ELSE Evaluate(Selected(official, filter), operation, column)

-----------------------------------------------------------------------------
(* Drift: the mean of the finite numbers, unless a cell is no number.      *)
DriftMean(table, column) ==
    LET cells == {i \in 1 .. Len(table) : table[i][column] # NULL}
        finite == {i \in cells : Kind(table[i][column]) = "finite"}
    IN  IF (\E i \in cells : Kind(table[i][column]) = "word") \/ finite = {} THEN Refused
        ELSE Value(Total([i \in finite |-> Amount(table[i][column])]), Cardinality(finite))

\* Both sources at the versions the approved mapping names.
CompareNumeric(baseline, current, column, approved, mapped) ==
    LET b == DriftMean(baseline, column)
        c == DriftMean(current, column)
    IN  IF ~approved \/ ~mapped \/ Refused \in {b, c} THEN Refused
        ELSE Value(c.num * b.den - b.num * c.den, c.den * b.den)

-----------------------------------------------------------------------------
\* A column's numbers as the profile has them.
ProfileAnswers(operation, c) ==
    LET s == Numbers(c)
    IN  IF operation = "count" THEN Value(Len(rows), 1)
        ELSE IF OfKind(c, "finite") = {} THEN Refused
        ELSE CASE operation = "sum" -> Value(Total(s), 1)
               [] operation = "mean" -> Value(Total(s), Size(s))
               [] operation = "min" -> Value(Least(s), 1)
               [] operation = "max" -> Value(Greatest(s), 1)

Filters == {NULL} \cup {[column |-> c, equals |-> v] : c \in Columns, v \in {NULL} \cup UNION {Distinct(c) : c \in Columns}}

(* Three programs compute the numbers of a column, and they agree: on      *)
(* finite numbers an official analysis, the profile and drift's mean are   *)
(* the same; a table has no drift from itself; a preview of a table within *)
(* the limit is the official answer, for every filter, and nothing is      *)
(* official without approval.  analysis/ast.py:64, drift/compare.py:77,    *)
(* profiling/engine.py:429.                                                *)
AnalysesAgree ==
    \A c \in Columns, operation \in Aggregates :
       /\ NonfiniteCount(c) = 0 /\ InvalidCount(c) = 0 =>
             /\ Same(ExecutePlan(operation, c, NULL, TRUE, TRUE), ProfileAnswers(operation, c))
             /\ Same(DriftMean(rows, c), ProfileAnswers("mean", c))
       /\ LET drift == CompareNumeric(rows, rows, c, TRUE, TRUE)
          IN  drift.is = "value" => drift.num = 0
       /\ \A filter \in Filters :
             /\ Len(rows) <= PreviewLimit =>
                   Same(ExecutePlan(operation, c, filter, FALSE, FALSE),
                        ExecutePlan(operation, c, filter, TRUE, TRUE))
             /\ ExecutePlan(operation, c, filter, TRUE, FALSE) = Refused
=============================================================================
