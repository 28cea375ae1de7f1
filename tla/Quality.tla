------------------------------- MODULE Quality -------------------------------
(***************************************************************************)
(* Quality rules over a table, as evaluate_quality runs them, each over    *)
(* the policy it is given.  A column is named by its header; a policy may  *)
(* name one the table does not have.                                       *)
(***************************************************************************)
EXTENDS Profile

CONSTANTS Required, UniqueColumns,  \* columns that must not be null; columns of unique values
          Ranges,                   \* [column, low, high]
          Permitted,                \* [column, values]
          Patterns,                 \* [column, pattern, known]
          Matches(_, _),            \* a text matches a pattern
          RowCounts,                \* <<>> or <<lower, upper>>
          Expected,                 \* <<>> or <<headers>>
          FreshColumn, MaxAge,      \* column or NULL
          Age(_)                    \* the age of an aware timestamp

ASSUME QualityAssumption == /\ \A p \in Ranges : p.low \in Int /\ p.high \in Int
                            /\ RowCounts # <<>> => RowCounts \in Int \X Int

ColumnsNamed(h) == {c \in Columns : Headers[c] = h}

\* The verdict of a rule over several columns: an error counts more than a failure.
Verdict(verdicts) == IF "error" \in verdicts THEN "error" ELSE IF "fail" \in verdicts THEN "fail" ELSE "pass"

NotNull == IF \A h \in Required : \E c \in ColumnsNamed(h) : NullCount(c) = 0 THEN "pass" ELSE "fail"

UniqueIn_Nulls(h) == \E c \in ColumnsNamed(h) : Cardinality(ToSet(Cells(c))) = Len(rows)

UniqueIn(h) == \E c \in ColumnsNamed(h) :
                  NULL \notin ToSet(Cells(c)) /\ Cardinality(ToSet(Cells(c))) = Len(rows)
Unique == IF \A h \in UniqueColumns : UniqueIn(h) THEN "pass" ELSE "fail"

(* The rows are read until one is not a number, which is an error, or is   *)
(* not finite or out of range, which is a failure.                         *)
Offenders(c, low, high) ==
    {i \in NonNull(c) : Kind(rows[i][c]) = "finite" => Amount(rows[i][c]) \notin low .. high}

RangeIn(p) ==
    IF ColumnsNamed(p.column) = {} \/ p.low > p.high THEN "error"
    ELSE LET c == CHOOSE c \in ColumnsNamed(p.column) : TRUE
             bad == Offenders(c, p.low, p.high)
         IN  IF bad = {} THEN "pass"
             ELSE IF Kind(rows[Min(bad)][c]) = "word" THEN "error" ELSE "fail"
InRange == Verdict({RangeIn(p) : p \in Ranges})

AllowedIn_LastRow(p) ==
    IF \A c \in ColumnsNamed(p.column) : rows # <<>> => rows[Len(rows)][c] \in p.values \cup {NULL}
    THEN "pass" ELSE "fail"

AllowedIn(p) == IF ColumnsNamed(p.column) = {} THEN "error"
                ELSE IF \A c \in ColumnsNamed(p.column) : Distinct(c) \subseteq p.values THEN "pass" ELSE "fail"
AllowedValues == Verdict({AllowedIn(p) : p \in Permitted})

PatternIn(p) == IF ColumnsNamed(p.column) = {} \/ ~p.known THEN "error"
                ELSE IF \A c \in ColumnsNamed(p.column) : \A v \in Distinct(c) : Matches(v, p.pattern)
                THEN "pass" ELSE "fail"
ApprovedPattern == IF Patterns = {} THEN "skipped" ELSE Verdict({PatternIn(p) : p \in Patterns})

RowCount == IF RowCounts = <<>> THEN "skipped"
            ELSE IF RowCounts[1] < 0 \/ RowCounts[2] < RowCounts[1] THEN "error"
            ELSE IF Len(rows) \in RowCounts[1] .. RowCounts[2] THEN "pass" ELSE "fail"

SchemaMatches == IF Expected = <<>> THEN "skipped" ELSE IF Expected[1] = Headers THEN "pass" ELSE "fail"

(* All rows are read: a text that is no timestamp, or one without a zone,  *)
(* is an error.                                                            *)
Freshness ==
    IF FreshColumn = NULL THEN "skipped"
    ELSE IF ColumnsNamed(FreshColumn) = {} \/ MaxAge < 0 THEN "error"
    ELSE LET c == CHOOSE c \in ColumnsNamed(FreshColumn) : TRUE
         IN  Verdict({IF Stamp(v) # "aware" THEN "error" ELSE IF Age(v) > MaxAge THEN "fail" ELSE "pass" :
                         v \in Distinct(c)})

-----------------------------------------------------------------------------
(* The rules and the profile are computed apart and tell the same of a     *)
(* table: a column is unique exactly if it is a candidate key or there are *)
(* no rows, in range exactly if every value is a finite number between the *)
(* bounds; only a column that is not numeric makes the range an error, and *)
(* a unique column leaves no duplicate rows.                               *)
(* quality/rules.py:105, 118; profiling/engine.py:156.                     *)
QualityAgreesWithProfile ==
    /\ \A h \in UniqueColumns : \A c \in ColumnsNamed(h) :
          /\ UniqueIn(h) <=> CandidateKey(c) \/ rows = <<>>
          /\ UniqueIn(h) => DuplicateRows = 0
    /\ \A p \in Ranges : p.low <= p.high => \A c \in ColumnsNamed(p.column) :
          /\ RangeIn(p) = "pass" <=>
                /\ NonfiniteCount(c) = 0 /\ InvalidCount(c) = 0
                /\ OfKind(c, "finite") # {} => p.low <= Least(Numbers(c)) /\ Greatest(Numbers(c)) <= p.high
          /\ RangeIn(p) = "error" => PhysicalType(c) \in {"timestamp", "string"}

Severity(verdict) == CASE verdict = "error" -> 2 [] verdict = "fail" -> 1 [] OTHER -> 0

(* What a rule finds in the first rows stands: reading on, no rule over    *)
(* columns gets a milder verdict, a column out of range keeps the verdict  *)
(* its first offender gave it, and too many rows never become few enough.  *)
(* quality/rules.py:135.                                                   *)
VerdictsStand ==
    [][/\ Severity(NotNull') >= Severity(NotNull)
       /\ Severity(Unique') >= Severity(Unique)
       /\ Severity(InRange') >= Severity(InRange)
       /\ Severity(AllowedValues') >= Severity(AllowedValues)
       /\ Severity(ApprovedPattern') >= Severity(ApprovedPattern)
       /\ Severity(Freshness') >= Severity(Freshness)
       /\ \A p \in Ranges : RangeIn(p) # "pass" => RangeIn(p)' = RangeIn(p)
       /\ RowCount = "fail" /\ RowCount' # "fail" => Len(rows) < RowCounts[1]
       /\ SchemaMatches' = SchemaMatches]_tablevars
=============================================================================
