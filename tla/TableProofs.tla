---------------------------- MODULE TableProofs ----------------------------
(***************************************************************************)
(* Rules, profile, analyses and drift over a table, whatever its columns   *)
(* and rows.  Rows are only added, so a rule finds no less in more rows,   *)
(* and finds what the profile tells.  The statistics are proved of any     *)
(* finite set of integers: a sum does not depend on the order it is taken  *)
(* in, what is counted by kind is all counted, every place in an order is  *)
(* taken, and the spread of numbers is not negative, from which comes the  *)
(* inequality of Cauchy and Schwarz.  With these the profile is exact, and *)
(* analysis, profile and drift agree.                                      *)
(***************************************************************************)
EXTENDS Analysis, Quality, FiniteSetTheorems, WellFoundedInduction, TLAPS

(* The table that is read: rows are only added, each of them as wide as    *)
(* the header.                                                             *)
RowSet == {[c \in Columns |-> IF row[c] = Empty THEN NULL ELSE row[c]] :
              row \in {row \in FileRows : Len(row) = Len(Headers)}}

TableInv == rows \in Seq(RowSet)

LEMMA TableIsOfRows == ReadSpec => []TableInv
<1>1. ReadInit => TableInv
  BY DEF ReadInit, TableInv
<1>2. TableInv /\ [ReadNext]_tablevars => TableInv'
  <2> SUFFICES ASSUME TableInv, [ReadNext]_tablevars PROVE TableInv'
    OBVIOUS
  <2>1. ASSUME NEW row \in FileRows, ReadRow(row) PROVE TableInv'
    BY <2>1 DEF ReadRow, TableInv, RowSet
  <2>2. CASE UNCHANGED tablevars
    BY <2>2 DEF tablevars, TableInv
  <2> QED
    BY <2>1, <2>2 DEF ReadNext
<1> QED
  BY <1>1, <1>2, PTL DEF ReadSpec

(* What a step does to the table. *)
RowAdded == \E row \in RowSet : rows' = Append(rows, row)

LEMMA StepsAddRows ==
    ASSUME TableInv, ReadNext
    PROVE  RowAdded \/ UNCHANGED rows
BY DEF ReadNext, ReadRow, RowAdded, RowSet

(* What was read stays read. *)
LEMMA RowsStay ==
    ASSUME TableInv, RowAdded
    PROVE  /\ rows' \in Seq(RowSet)
           /\ Len(rows) \in Nat /\ Len(rows') = Len(rows) + 1
           /\ \A i \in 1 .. Len(rows) : rows'[i] = rows[i]
<1>1. PICK row \in RowSet : rows' = Append(rows, row)
  BY DEF RowAdded
<1> QED
  BY <1>1 DEF TableInv

LEMMA CellsStay ==
    ASSUME TableInv, RowAdded, NEW c
    PROVE  /\ NonNull(c) = NonNull(c)' \cap (1 .. Len(rows))
           /\ NonNull(c) \subseteq 1 .. Len(rows) /\ NonNull(c)' \subseteq 1 .. Len(rows')
           /\ Distinct(c) \subseteq Distinct(c)'
<1>1. NonNull(c) = NonNull(c)' \cap (1 .. Len(rows))
  BY RowsStay DEF NonNull
<1>2. NonNull(c) \subseteq 1 .. Len(rows) /\ NonNull(c)' \subseteq 1 .. Len(rows')
  BY DEF NonNull
<1>3. ASSUME NEW v \in Distinct(c) PROVE v \in Distinct(c)'
  <2>1. PICK i \in NonNull(c) : v = rows[i][c]
    BY <1>3 DEF Distinct
  <2>2. i \in NonNull(c)' /\ v = rows'[i][c]
    BY <1>1, <1>2, <2>1, RowsStay
  <2> QED
    BY <2>2 DEF Distinct
<1> QED
  BY <1>1, <1>2, <1>3

(* A column has no nulls exactly if all its rows have a value. *)
LEMMA NoNulls ==
    ASSUME TableInv, NEW c
    PROVE  /\ NullCount(c) = 0 <=> NonNull(c) = 1 .. Len(rows)
           /\ IsFiniteSet(NonNull(c)) /\ Cardinality(NonNull(c)) \in Nat
<1>1. Len(rows) \in Nat
  BY DEF TableInv
<1>2. IsFiniteSet(1 .. Len(rows)) /\ Cardinality(1 .. Len(rows)) = Len(rows)
  BY <1>1, FS_Interval
<1>3. NonNull(c) \subseteq 1 .. Len(rows)
  BY DEF NonNull
<1>4. /\ IsFiniteSet(NonNull(c)) /\ Cardinality(NonNull(c)) \in Nat
      /\ Cardinality(NonNull(c)) = Cardinality(1 .. Len(rows)) => NonNull(c) = 1 .. Len(rows)
  BY <1>2, <1>3, FS_Subset, FS_CardinalityType
<1> QED
  BY <1>1, <1>2, <1>4 DEF NullCount

(* A function takes as many values as it has arguments exactly if it takes *)
(* none of them twice.                                                     *)
LEMMA AllDifferent ==
    ASSUME NEW n \in Nat, NEW f, f = [i \in 1 .. n |-> f[i]]
    PROVE  /\ IsFiniteSet(ToSet(f)) /\ Cardinality(ToSet(f)) \in Nat
           /\ Cardinality(ToSet(f)) = n <=> \A i, j \in 1 .. n : f[i] = f[j] => i = j
<1>1. IsFiniteSet(1 .. n) /\ Cardinality(1 .. n) = n
  BY FS_Interval
<1>2. f \in Surjection(1 .. n, ToSet(f))
  BY DEF ToSet, Surjection
<1>3. /\ IsFiniteSet(ToSet(f))
      /\ Cardinality(ToSet(f)) = n <=> f \in Injection(1 .. n, ToSet(f))
  BY <1>1, <1>2, FS_Surjection
<1>4. f \in Injection(1 .. n, ToSet(f)) <=> \A i, j \in 1 .. n : f[i] = f[j] => i = j
  BY <1>2 DEF Injection, Surjection, IsInjective
<1> QED
  BY <1>3, <1>4, FS_CardinalityType

(* A column is unique if every row has a value and no two the same. *)
AllUnique(c) == /\ \A i \in 1 .. Len(rows) : rows[i][c] # NULL
                /\ \A i, j \in 1 .. Len(rows) : rows[i][c] = rows[j][c] => i = j

LEMMA CellsUnique ==
    TableInv => \A c : AllUnique(c) <=> NULL \notin ToSet(Cells(c)) /\ Cardinality(ToSet(Cells(c))) = Len(rows)
<1> SUFFICES ASSUME TableInv, NEW c
             PROVE  AllUnique(c) <=> NULL \notin ToSet(Cells(c)) /\ Cardinality(ToSet(Cells(c))) = Len(rows)
  OBVIOUS
<1>1. Len(rows) \in Nat
  BY DEF TableInv
<1>2. Cells(c) = [i \in 1 .. Len(rows) |-> Cells(c)[i]]
  BY DEF Cells
<1>3. Cardinality(ToSet(Cells(c))) = Len(rows)
      <=> \A i, j \in 1 .. Len(rows) : Cells(c)[i] = Cells(c)[j] => i = j
  BY <1>1, <1>2, AllDifferent
<1>4. \A i \in 1 .. Len(rows) : Cells(c)[i] = rows[i][c]
  BY DEF Cells
<1>5. NULL \notin ToSet(Cells(c)) <=> \A i \in 1 .. Len(rows) : rows[i][c] # NULL
  BY DEF ToSet, Cells
<1> QED
  BY <1>3, <1>4, <1>5 DEF AllUnique

LEMMA UniqueMeans ==
    TableInv => \A h : UniqueIn(h) <=> \E c \in ColumnsNamed(h) : AllUnique(c)
BY CellsUnique DEF UniqueIn

LEMMA NoNullsMeans == TableInv => \A c : NullCount(c) = 0 <=> NonNull(c) = 1 .. Len(rows)
BY NoNulls

LEMMA NextTable ==
    TableInv' => /\ \A c : NullCount(c)' = 0 <=> NonNull(c)' = 1 .. Len(rows')
                 /\ \A h : UniqueIn(h)' <=> \E c \in ColumnsNamed(h) : AllUnique(c)'
<1>1. (TableInv => \A c : NullCount(c) = 0 <=> NonNull(c) = 1 .. Len(rows))'
  BY NoNullsMeans, PTL
<1>2. (TableInv => \A h : UniqueIn(h) <=> \E c \in ColumnsNamed(h) : AllUnique(c))'
  BY UniqueMeans, PTL
<1> QED
  BY <1>1, <1>2

(* Only columns that were not null, or unique, before are so now. *)
LEMMA NotNullStands ==
    ASSUME TableInv, RowAdded
    PROVE  /\ \A c : NullCount(c)' = 0 => NullCount(c) = 0
           /\ \A h : UniqueIn(h)' => UniqueIn(h)
<1>1. TableInv' /\ Len(rows) \in Nat
  BY RowsStay DEF TableInv
<1>2. ASSUME NEW c, NullCount(c)' = 0 PROVE NullCount(c) = 0
  BY <1>1, <1>2, NoNullsMeans, NextTable, RowsStay, CellsStay
<1>3. ASSUME NEW c, AllUnique(c)' PROVE AllUnique(c)
  BY <1>1, <1>3, RowsStay DEF AllUnique
<1>4. ASSUME NEW h, UniqueIn(h)' PROVE UniqueIn(h)
  BY <1>1, <1>3, <1>4, UniqueMeans, NextTable
<1> QED
  BY <1>2, <1>4

(* A finite set of integers has a least and a greatest element: the one    *)
(* with the fewest elements below it, or above it.                         *)
LEMMA LeastExists ==
    ASSUME NEW S \in SUBSET Int, IsFiniteSet(S), S # {}
    PROVE  Min(S) \in S /\ \A y \in S : Min(S) <= y
<1> DEFINE Below(x) == {y \in S : y < x}
           Counts == {Cardinality(Below(x)) : x \in S}
<1>1. ASSUME NEW x \in S
      PROVE  IsFiniteSet(Below(x)) /\ Cardinality(Below(x)) \in Nat
  BY FS_Subset, FS_CardinalityType
<1>2. Counts \subseteq Nat /\ Counts # {}
  BY <1>1
<1>3. PICK x \in S : \A y \in S : ~(Cardinality(Below(y)) < Cardinality(Below(x)))
  <2>1. PICK k \in Counts : \A l \in Counts : ~(<<l, k>> \in OpToRel(<, Nat))
    BY <1>2, NatLessThanWellFounded, WFMin
  <2>2. \A l \in Counts : ~(l < k)
    BY <1>2, <2>1 DEF OpToRel
  <2> QED
    BY <2>2
<1>4. ASSUME NEW y \in S PROVE x <= y
  <2>0. x \in Int /\ y \in Int /\ \A z \in S : z \in Int
    OBVIOUS
  <2>1. SUFFICES ASSUME y < x PROVE FALSE
    BY <2>0
  <2>2. Below(y) \subseteq Below(x) /\ y \in Below(x) /\ y \notin Below(y)
    <3>1. ASSUME NEW z \in S, z < y PROVE z < x
      BY <2>0, <2>1, <3>1
    <3>2. y \in Below(x) /\ y \notin Below(y)
      BY <2>0, <2>1
    <3> QED
      BY <3>1, <3>2
  <2>3. Cardinality(Below(y)) <= Cardinality(Below(x)) /\ Cardinality(Below(y)) # Cardinality(Below(x))
    BY <1>1, <2>2, FS_Subset
  <2> QED
    BY <1>1, <1>3, <2>3
<1> QED
  BY <1>4 DEF Min

LEMMA GreatestExists ==
    ASSUME NEW S \in SUBSET Int, IsFiniteSet(S), S # {}
    PROVE  Max(S) \in S /\ \A y \in S : y <= Max(S)
<1> DEFINE Above(x) == {y \in S : y > x}
           Counts == {Cardinality(Above(x)) : x \in S}
<1>1. ASSUME NEW x \in S
      PROVE  IsFiniteSet(Above(x)) /\ Cardinality(Above(x)) \in Nat
  BY FS_Subset, FS_CardinalityType
<1>2. Counts \subseteq Nat /\ Counts # {}
  BY <1>1
<1>3. PICK x \in S : \A y \in S : ~(Cardinality(Above(y)) < Cardinality(Above(x)))
  <2>1. PICK k \in Counts : \A l \in Counts : ~(<<l, k>> \in OpToRel(<, Nat))
    BY <1>2, NatLessThanWellFounded, WFMin
  <2>2. \A l \in Counts : ~(l < k)
    BY <1>2, <2>1 DEF OpToRel
  <2> QED
    BY <2>2
<1>4. ASSUME NEW y \in S PROVE y <= x
  <2>0. x \in Int /\ y \in Int /\ \A z \in S : z \in Int
    OBVIOUS
  <2>1. SUFFICES ASSUME y > x PROVE FALSE
    BY <2>0
  <2>2. Above(y) \subseteq Above(x) /\ y \in Above(x) /\ y \notin Above(y)
    <3>1. ASSUME NEW z \in S, z > y PROVE z > x
      BY <2>0, <2>1, <3>1
    <3>2. y \in Above(x) /\ y \notin Above(y)
      BY <2>0, <2>1
    <3> QED
      BY <3>1, <3>2
  <2>3. Cardinality(Above(y)) <= Cardinality(Above(x)) /\ Cardinality(Above(y)) # Cardinality(Above(x))
    BY <1>1, <2>2, FS_Subset
  <2> QED
    BY <1>1, <1>3, <2>3
<1> QED
  <2>1. \A y \in S : x >= y
    BY <1>4
  <2>2. Max(S) \in S /\ \A y \in S : Max(S) >= y
    BY <2>1 DEF Max
  <2> QED
    BY <2>2

(* The first offender of a range stays the first.                          *)
LEMMA FirstOffenderStays ==
    ASSUME TableInv, RowAdded, NEW c, NEW low, NEW high, Offenders(c, low, high) # {}
    PROVE  /\ Offenders(c, low, high)' # {}
           /\ Min(Offenders(c, low, high)') = Min(Offenders(c, low, high))
           /\ rows'[Min(Offenders(c, low, high))] = rows[Min(Offenders(c, low, high))]
<1> DEFINE bad == Offenders(c, low, high)
           after == {i \in NonNull(c)' : Kind(rows'[i][c]) = "finite" => Amount(rows'[i][c]) \notin low .. high}
<1>1. Offenders(c, low, high)' = after
  BY DEF Offenders
<1>2. Len(rows) \in Nat /\ Len(rows') = Len(rows) + 1
  BY RowsStay
<1>3. bad \subseteq 1 .. Len(rows) /\ after \subseteq 1 .. Len(rows')
  BY CellsStay DEF Offenders
<1>4. bad = after \cap (1 .. Len(rows))
  BY CellsStay, RowsStay DEF Offenders
<1>5. IsFiniteSet(1 .. Len(rows)) /\ IsFiniteSet(1 .. Len(rows'))
  BY <1>2, FS_Interval
<1>6. IsFiniteSet(bad) /\ IsFiniteSet(after) /\ bad \in SUBSET Int /\ after \in SUBSET Int
  BY <1>2, <1>3, <1>5, FS_Subset
<1>7. bad # {} /\ after # {}
  BY <1>4
<1> HIDE DEF bad, after
<1>8. Min(bad) \in bad /\ (\A y \in bad : Min(bad) <= y) /\ Min(after) \in after /\ \A y \in after : Min(after) <= y
  BY <1>6, <1>7, LeastExists
<1>9. Min(after) <= Min(bad) /\ Min(bad) \in 1 .. Len(rows) /\ Min(after) \in Int /\ Min(after) >= 1
  <2>1. Min(bad) \in after /\ Min(bad) \in 1 .. Len(rows)
    BY <1>4, <1>8
  <2>2. Min(after) \in 1 .. Len(rows')
    BY <1>3, <1>8
  <2> QED
    BY <1>2, <1>8, <2>1, <2>2
<1>10. Min(after) \in bad
  BY <1>2, <1>4, <1>8, <1>9
<1>11. Min(after) = Min(bad)
  BY <1>8, <1>9, <1>10
<1>12. Min(Offenders(c, low, high)') = Min(after)
  BY <1>1
<1>13. rows'[Min(bad)] = rows[Min(bad)]
  BY <1>9, RowsStay
<1> QED
  BY <1>1, <1>7, <1>11, <1>12, <1>13 DEF bad

LEMMA RangeStands ==
    ASSUME TableInv, RowAdded, NEW p
    PROVE  /\ RangeIn(p) # "pass" => RangeIn(p)' = RangeIn(p)
           /\ RangeIn(p) \in {"error", "fail", "pass"}
<1>1. CASE ColumnsNamed(p.column) = {} \/ p.low > p.high
  BY <1>1 DEF RangeIn
<1>2. CASE ~(ColumnsNamed(p.column) = {} \/ p.low > p.high)
  <2> DEFINE c == CHOOSE c \in ColumnsNamed(p.column) : TRUE
             bad == Offenders(c, p.low, p.high)
  <2>1. RangeIn(p) = IF bad = {} THEN "pass" ELSE IF Kind(rows[Min(bad)][c]) = "word" THEN "error" ELSE "fail"
    BY <1>2 DEF RangeIn
  <2>2. RangeIn(p)' = IF Offenders(c, p.low, p.high)' = {} THEN "pass"
                      ELSE IF Kind(rows'[Min(Offenders(c, p.low, p.high)')][c]) = "word" THEN "error" ELSE "fail"
    BY <1>2 DEF RangeIn, Min
  <2>3. bad # {} => RangeIn(p)' = RangeIn(p)
    BY <2>1, <2>2, FirstOffenderStays
  <2> QED
    BY <2>1, <2>3
<1> QED
  BY <1>1, <1>2

(* Several verdicts: if each of them stands, or turns worse, so does the   *)
(* verdict of them all.                                                    *)
LEMMA VerdictsAddUp ==
    ASSUME NEW before, NEW after, "error" \in before => "error" \in after,
           "fail" \in before => "fail" \in after \/ "error" \in after
    PROVE  Severity(Verdict(after)) >= Severity(Verdict(before))
BY DEF Severity, Verdict

LEMMA InRangeStands ==
    ASSUME TableInv, RowAdded
    PROVE  Severity(InRange') >= Severity(InRange)
<1> DEFINE before == {RangeIn(p) : p \in Ranges}
           after == {RangeIn(p)' : p \in Ranges}
<1>1. "error" \in before => "error" \in after
  BY RangeStands
<1>2. "fail" \in before => "fail" \in after
  BY RangeStands
<1>3. Severity(Verdict(after)) >= Severity(Verdict(before))
  <2> HIDE DEF before, after
  <2> QED
    BY <1>1, <1>2, VerdictsAddUp
<1>4. InRange' = Verdict(after)
  BY DEF InRange, Verdict
<1> QED
  BY <1>3, <1>4 DEF InRange

LEMMA AllowedStands ==
    ASSUME TableInv, RowAdded
    PROVE  Severity(AllowedValues') >= Severity(AllowedValues)
<1> DEFINE before == {AllowedIn(p) : p \in Permitted}
           after == {AllowedIn(p)' : p \in Permitted}
<1>1. \A p \in Permitted : /\ AllowedIn(p) = "error" => AllowedIn(p)' = "error"
                           /\ AllowedIn(p) = "fail" => AllowedIn(p)' = "fail"
  BY CellsStay DEF AllowedIn
<1>2. "error" \in before => "error" \in after
  BY <1>1
<1>3. "fail" \in before => "fail" \in after
  BY <1>1
<1>4. Severity(Verdict(after)) >= Severity(Verdict(before))
  <2> HIDE DEF before, after
  <2> QED
    BY <1>2, <1>3, VerdictsAddUp
<1>5. AllowedValues' = Verdict(after)
  BY DEF AllowedValues, Verdict
<1> QED
  BY <1>4, <1>5 DEF AllowedValues

LEMMA PatternStands ==
    ASSUME TableInv, RowAdded
    PROVE  Severity(ApprovedPattern') >= Severity(ApprovedPattern)
<1> DEFINE before == {PatternIn(p) : p \in Patterns}
           after == {PatternIn(p)' : p \in Patterns}
<1>1. \A p \in Patterns : /\ PatternIn(p) = "error" => PatternIn(p)' = "error"
                          /\ PatternIn(p) = "fail" => PatternIn(p)' = "fail"
  BY CellsStay DEF PatternIn
<1>2. "error" \in before => "error" \in after
  BY <1>1
<1>3. "fail" \in before => "fail" \in after
  BY <1>1
<1>4. Severity(Verdict(after)) >= Severity(Verdict(before))
  <2> HIDE DEF before, after
  <2> QED
    BY <1>2, <1>3, VerdictsAddUp
<1>5. CASE Patterns = {}
  BY <1>5 DEF ApprovedPattern, Severity
<1>6. CASE Patterns # {}
  <2>1. ApprovedPattern' = Verdict(after)
    BY <1>6 DEF ApprovedPattern, Verdict
  <2> QED
    BY <1>4, <1>6, <2>1 DEF ApprovedPattern
<1> QED
  BY <1>5, <1>6

LEMMA FreshnessStands ==
    ASSUME TableInv, RowAdded
    PROVE  Severity(Freshness') >= Severity(Freshness)
<1> DEFINE c == CHOOSE c \in ColumnsNamed(FreshColumn) : TRUE
           Of(v) == IF Stamp(v) # "aware" THEN "error" ELSE IF Age(v) > MaxAge THEN "fail" ELSE "pass"
           before == {Of(v) : v \in Distinct(c)}
           after == {Of(v) : v \in Distinct(c)'}
<1>1. Distinct(c) \subseteq Distinct(c)'
  BY CellsStay
<1>2. ("error" \in before => "error" \in after) /\ ("fail" \in before => "fail" \in after)
  <2> HIDE DEF c, Of
  <2> QED
    BY <1>1
<1>3. Severity(Verdict(after)) >= Severity(Verdict(before))
  <2> HIDE DEF before, after
  <2> QED
    BY <1>2, VerdictsAddUp
<1>4. CASE FreshColumn = NULL \/ ColumnsNamed(FreshColumn) = {} \/ MaxAge < 0
  BY <1>4 DEF Freshness, Severity
<1>5. CASE ~(FreshColumn = NULL \/ ColumnsNamed(FreshColumn) = {} \/ MaxAge < 0)
  <2>1. Freshness = Verdict(before)
    BY <1>5 DEF Freshness
  <2>2. Freshness' = Verdict(after)
    BY <1>5 DEF Freshness, Verdict
  <2> QED
    BY <1>3, <2>1, <2>2
<1> QED
  BY <1>4, <1>5

LEMMA SeverityStays == \A v : Severity(v) \in 0 .. 2 /\ Severity(v) >= Severity(v)
BY DEF Severity

(* No rule over columns turns milder, and too many rows stay too many.     *)
LEMMA RowsWorsenVerdicts ==
    ASSUME TableInv, RowAdded
    PROVE  /\ Severity(NotNull') >= Severity(NotNull)
           /\ Severity(Unique') >= Severity(Unique)
           /\ RowCount = "fail" /\ RowCount' # "fail" => Len(rows) < RowCounts[1]
           /\ SchemaMatches' = SchemaMatches
<1>1. Severity(NotNull') >= Severity(NotNull)
  <2>1. NotNull' = "pass" => NotNull = "pass"
    BY NotNullStands DEF NotNull
  <2>2. NotNull \in {"pass", "fail"} /\ NotNull' \in {"pass", "fail"}
    BY DEF NotNull
  <2> QED
    BY <2>1, <2>2 DEF Severity
<1>2. Severity(Unique') >= Severity(Unique)
  <2>1. Unique' = "pass" => Unique = "pass"
    BY NotNullStands DEF Unique
  <2>2. Unique \in {"pass", "fail"} /\ Unique' \in {"pass", "fail"}
    BY DEF Unique
  <2> QED
    BY <2>1, <2>2 DEF Severity
<1>3. RowCount = "fail" /\ RowCount' # "fail" => Len(rows) < RowCounts[1]
  <2> SUFFICES ASSUME RowCount = "fail", RowCount' # "fail" PROVE Len(rows) < RowCounts[1]
    OBVIOUS
  <2>1. RowCounts # <<>> /\ RowCounts[1] \in Int /\ RowCounts[2] \in Int
    BY QualityAssumption DEF RowCount
  <2>2. Len(rows) \in Nat /\ Len(rows') = Len(rows) + 1
    BY RowsStay
  <2>3. Len(rows) \notin RowCounts[1] .. RowCounts[2] /\ Len(rows') \in RowCounts[1] .. RowCounts[2]
    BY <2>1 DEF RowCount
  <2> QED
    BY <2>1, <2>2, <2>3
<1>4. SchemaMatches' = SchemaMatches
  BY DEF SchemaMatches
<1> QED
  BY <1>1, <1>2, <1>3, <1>4

(* Reading on, verdicts on a table only turn worse.                        *)
THEOREM VerdictsAlwaysStand == ReadSpec => VerdictsStand
<1> DEFINE Stand ==
       /\ Severity(NotNull') >= Severity(NotNull)
       /\ Severity(Unique') >= Severity(Unique)
       /\ Severity(InRange') >= Severity(InRange)
       /\ Severity(AllowedValues') >= Severity(AllowedValues)
       /\ Severity(ApprovedPattern') >= Severity(ApprovedPattern)
       /\ Severity(Freshness') >= Severity(Freshness)
       /\ \A p \in Ranges : RangeIn(p) # "pass" => RangeIn(p)' = RangeIn(p)
       /\ RowCount = "fail" /\ RowCount' # "fail" => Len(rows) < RowCounts[1]
       /\ SchemaMatches' = SchemaMatches
<1>1. TableInv /\ [ReadNext]_tablevars => [Stand]_tablevars
  <2> SUFFICES ASSUME TableInv, ReadNext PROVE Stand
    OBVIOUS
  <2>1. CASE RowAdded
    BY <2>1, RowsWorsenVerdicts, InRangeStands, AllowedStands, PatternStands, FreshnessStands, RangeStands
  <2>2. CASE UNCHANGED rows
    <3>1. \A c : NonNull(c)' = NonNull(c)
      BY <2>2 DEF NonNull
    <3>2. \A c : NullCount(c)' = NullCount(c) /\ Distinct(c)' = Distinct(c) /\ Cells(c)' = Cells(c)
      BY <2>2, <3>1 DEF NullCount, Distinct, Cells
    <3>3. NotNull' = NotNull /\ Unique' = Unique /\ RowCount' = RowCount /\ SchemaMatches' = SchemaMatches
      BY <2>2, <3>2 DEF NotNull, Unique, UniqueIn, RowCount, SchemaMatches, ToSet
    <3>4. \A p : RangeIn(p)' = RangeIn(p)
      <4> SUFFICES ASSUME NEW p PROVE RangeIn(p)' = RangeIn(p)
        OBVIOUS
      <4> DEFINE c == CHOOSE c \in ColumnsNamed(p.column) : TRUE
                 bad == Offenders(c, p.low, p.high)
      <4>1. Offenders(c, p.low, p.high)' = bad
        BY <2>2, <3>1 DEF Offenders
      <4>2. CASE ColumnsNamed(p.column) = {} \/ p.low > p.high
        BY <4>2 DEF RangeIn
      <4>3. CASE ~(ColumnsNamed(p.column) = {} \/ p.low > p.high)
        <5>1. RangeIn(p) = IF bad = {} THEN "pass" ELSE IF Kind(rows[Min(bad)][c]) = "word" THEN "error" ELSE "fail"
          BY <4>3 DEF RangeIn
        <5>2. RangeIn(p)' = IF Offenders(c, p.low, p.high)' = {} THEN "pass"
                            ELSE IF Kind(rows'[Min(Offenders(c, p.low, p.high)')][c]) = "word" THEN "error" ELSE "fail"
          BY <4>3 DEF RangeIn, Min
        <5> QED
          BY <2>2, <4>1, <5>1, <5>2
      <4> QED
        BY <4>2, <4>3
    <3>5. \A p : AllowedIn(p)' = AllowedIn(p) /\ PatternIn(p)' = PatternIn(p)
      BY <3>2 DEF AllowedIn, PatternIn
    <3>6. /\ InRange' = InRange /\ AllowedValues' = AllowedValues
          /\ ApprovedPattern' = ApprovedPattern /\ Freshness' = Freshness
      BY <3>2, <3>4, <3>5 DEF InRange, AllowedValues, ApprovedPattern, Freshness, Verdict
    <3> QED
      BY <3>3, <3>4, <3>6, SeverityStays
  <2> QED
    BY <2>1, <2>2, StepsAddRows
<1>2. ReadSpec => [][Stand]_tablevars
  BY <1>1, TableIsOfRows, PTL DEF ReadSpec
<1> QED
  BY <1>2 DEF VerdictsStand

(* A cell with a value is a text of the file. *)
LEMMA CellKinds ==
    ASSUME TableInv, NEW c \in Columns, NEW i \in NonNull(c)
    PROVE  /\ Kind(rows[i][c]) \in {"finite", "nonfinite", "word"}
           /\ Kind(rows[i][c]) = "finite" => Amount(rows[i][c]) \in Int
<1>1. i \in 1 .. Len(rows) /\ rows[i][c] # NULL
  BY DEF NonNull
<1>2. rows[i] \in RowSet
  BY <1>1 DEF TableInv
<1>3. PICK row \in FileRows : /\ Len(row) = Len(Headers)
                              /\ rows[i] = [d \in Columns |-> IF row[d] = Empty THEN NULL ELSE row[d]]
  BY <1>2 DEF RowSet
<1>4. rows[i][c] = row[c]
  BY <1>1, <1>3
<1>5. c \in 1 .. Len(Headers) /\ c <= Len(row)
  BY <1>3, ProfileAssumption DEF Columns
<1> QED
  BY <1>4, <1>5, ProfileAssumption

(* A header names at most one column. *)
LEMMA HeaderNamesOne ==
    ASSUME NEW h, NEW c \in ColumnsNamed(h)
    PROVE  ColumnsNamed(h) = {c} /\ c \in Columns /\ (CHOOSE d \in ColumnsNamed(h) : TRUE) = c
BY ProfileAssumption DEF ColumnsNamed, Columns

(* A column of unique values is a candidate key, and no two rows are equal. *)
LEMMA UniqueIsKey ==
    ASSUME TableInv, NEW h, NEW c \in ColumnsNamed(h)
    PROVE  /\ UniqueIn(h) <=> CandidateKey(c) \/ rows = <<>>
           /\ UniqueIn(h) => DuplicateRows = 0
<1>0. Len(rows) \in Nat /\ rows = [i \in 1 .. Len(rows) |-> rows[i]]
  BY DEF TableInv
<1>1. UniqueIn(h) <=> AllUnique(c)
  BY UniqueMeans, HeaderNamesOne
<1>2. AllUnique(c) <=> NULL \notin ToSet(Cells(c)) /\ Cardinality(ToSet(Cells(c))) = Len(rows)
  BY CellsUnique
<1>3. NULL \notin ToSet(Cells(c)) <=> NonNull(c) = 1 .. Len(rows)
  BY DEF ToSet, Cells, NonNull
<1>4. NonNull(c) = 1 .. Len(rows) => Distinct(c) = ToSet(Cells(c))
  BY DEF ToSet, Cells, Distinct
<1>5. NullCount(c) = 0 <=> NonNull(c) = 1 .. Len(rows)
  BY NoNulls
<1>6. rows = <<>> => AllUnique(c)
  BY DEF AllUnique
<1>7. ASSUME AllUnique(c) PROVE DuplicateRows = 0
  <2>1. \A i, j \in 1 .. Len(rows) : rows[i] = rows[j] => i = j
    BY <1>7 DEF AllUnique
  <2>2. Cardinality(ToSet(rows)) = Len(rows)
    BY <1>0, <2>1, AllDifferent
  <2> QED
    BY <1>0, <2>2 DEF DuplicateRows
<1> QED
  BY <1>1, <1>2, <1>3, <1>4, <1>5, <1>6, <1>7 DEF CandidateKey

(* Rows of a column are finite sets, and a count of none means none. *)
LEMMA CountsNone ==
    ASSUME TableInv, NEW c, NEW kind
    PROVE  /\ IsFiniteSet(OfKind(c, kind))
           /\ Cardinality(OfKind(c, kind)) = 0 <=> OfKind(c, kind) = {}
<1>1. OfKind(c, kind) \subseteq NonNull(c)
  BY DEF OfKind
<1>2. IsFiniteSet(OfKind(c, kind))
  BY <1>1, NoNulls, FS_Subset
<1> QED
  BY <1>2, FS_EmptySet

(* The numbers of a column are integers with a least and a greatest. *)
LEMMA NumbersHaveEnds ==
    ASSUME TableInv, NEW c \in Columns, OfKind(c, "finite") # {}
    PROVE  /\ \E i \in OfKind(c, "finite") : Least(Numbers(c)) = Amount(rows[i][c])
           /\ \E i \in OfKind(c, "finite") : Greatest(Numbers(c)) = Amount(rows[i][c])
           /\ \A i \in OfKind(c, "finite") : /\ Amount(rows[i][c]) \in Int
                                             /\ Least(Numbers(c)) <= Amount(rows[i][c])
                                             /\ Amount(rows[i][c]) <= Greatest(Numbers(c))
<1> DEFINE D == OfKind(c, "finite")
           S == {Amount(rows[i][c]) : i \in D}
<1>1. ToSet(Numbers(c)) = S
  BY DEF ToSet, Numbers
<1>2. S \in SUBSET Int
  BY CellKinds DEF OfKind
<1>3. IsFiniteSet(S)
  <2>1. Numbers(c) \in Surjection(D, S)
    BY DEF Numbers, Surjection
  <2>2. IsFiniteSet(D)
    BY CountsNone
  <2> QED
    BY <2>1, <2>2, FS_Surjection
<1>4. S # {}
  OBVIOUS
<1>5. Least(Numbers(c)) = Min(S) /\ Greatest(Numbers(c)) = Max(S)
  BY <1>1 DEF Least, Greatest
<1> HIDE DEF S
<1>6. Min(S) \in S /\ (\A y \in S : Min(S) <= y) /\ Max(S) \in S /\ (\A y \in S : y <= Max(S))
  BY <1>2, <1>3, <1>4, LeastExists, GreatestExists
<1> QED
  BY <1>2, <1>5, <1>6 DEF S

(* A range finds nothing exactly if the profile counts only numbers in it. *)
LEMMA RangeIsProfiled ==
    ASSUME TableInv, NEW p \in Ranges, p.low <= p.high, NEW c \in ColumnsNamed(p.column)
    PROVE  /\ RangeIn(p) = "pass" <=>
                 /\ NonfiniteCount(c) = 0 /\ InvalidCount(c) = 0
                 /\ OfKind(c, "finite") # {} => p.low <= Least(Numbers(c)) /\ Greatest(Numbers(c)) <= p.high
           /\ RangeIn(p) = "error" => PhysicalType(c) \in {"timestamp", "string"}
<1> DEFINE bad == Offenders(c, p.low, p.high)
<1>1. p.low \in Int /\ p.high \in Int /\ c \in Columns
  BY QualityAssumption, HeaderNamesOne
<1>2. RangeIn(p) = IF bad = {} THEN "pass" ELSE IF Kind(rows[Min(bad)][c]) = "word" THEN "error" ELSE "fail"
  BY <1>1, HeaderNamesOne DEF RangeIn
<1>3. bad = {} <=> /\ OfKind(c, "nonfinite") = {} /\ OfKind(c, "word") = {}
                   /\ \A i \in OfKind(c, "finite") : Amount(rows[i][c]) \in p.low .. p.high
  BY <1>1, CellKinds DEF Offenders, OfKind
<1>4. OfKind(c, "finite") # {} =>
         ((\A i \in OfKind(c, "finite") : Amount(rows[i][c]) \in p.low .. p.high)
          <=> p.low <= Least(Numbers(c)) /\ Greatest(Numbers(c)) <= p.high)
  BY <1>1, NumbersHaveEnds
<1>5. NonfiniteCount(c) = 0 <=> OfKind(c, "nonfinite") = {}
  BY CountsNone DEF NonfiniteCount
<1>6. InvalidCount(c) = 0 <=> OfKind(c, "word") = {}
  BY CountsNone DEF InvalidCount
<1>7. RangeIn(p) = "pass" <=> bad = {}
  BY <1>2
<1>8. ASSUME RangeIn(p) = "error" PROVE PhysicalType(c) \in {"timestamp", "string"}
  <2>1. bad # {} /\ Kind(rows[Min(bad)][c]) = "word"
    BY <1>2, <1>8
  <2>2. bad \subseteq NonNull(c) /\ bad \in SUBSET Int /\ IsFiniteSet(bad)
    <3>1. bad \subseteq NonNull(c) /\ NonNull(c) \subseteq Int
      BY DEF Offenders, NonNull
    <3> QED
      BY <3>1, NoNulls, FS_Subset
  <2>3. Min(bad) \in NonNull(c)
    <3> HIDE DEF bad
    <3> QED
      BY <2>1, <2>2, LeastExists
  <2>4. rows[Min(bad)][c] \in Distinct(c)
    BY <2>3 DEF Distinct
  <2>5. "word" \in {Kind(v) : v \in Distinct(c)}
    BY <2>1, <2>4
  <2> QED
    BY <2>5 DEF PhysicalType
<1> QED
  BY <1>3, <1>4, <1>5, <1>6, <1>7, <1>8

(* Rules and profile, which are computed apart, tell the same of a table:  *)
(* QualityAgreesWithProfile, of every table that is read.                  *)
THEOREM RulesAlwaysAgreeWithProfile == ReadSpec => []QualityAgreesWithProfile
<1>1. TableInv => QualityAgreesWithProfile
  BY UniqueIsKey, RangeIsProfiled DEF QualityAgreesWithProfile
<1> QED
  BY <1>1, TableIsOfRows, PTL

-----------------------------------------------------------------------------
(* What holds of every finite set if it holds of a set as soon as it holds *)
(* of its proper subsets; F is the set of the sets of which it holds.      *)
LEMMA BySubsets ==
    ASSUME NEW T, IsFiniteSet(T), NEW F,
           \A s \in SUBSET T : (\A u \in SUBSET s : u # s => u \in F) => s \in F
    PROVE  T \in F
<1> DEFINE Bad == {s \in SUBSET T : s \notin F}
<1>1. SUFFICES ASSUME Bad # {} PROVE FALSE
  OBVIOUS
<1>2. FiniteSubsetsOf(T) = SUBSET T
  BY FS_FiniteSubsetsOfFinite
<1>3. PICK s \in Bad : \A u \in Bad : ~(<<u, s>> \in StrictSubsetOrdering(T))
  <2>1. IsWellFoundedOn(StrictSubsetOrdering(T), SUBSET T)
    BY <1>2, FS_StrictSubsetOrderingWellFounded
  <2>2. Bad \subseteq SUBSET T
    OBVIOUS
  <2> HIDE DEF Bad
  <2> QED
    BY <1>1, <2>1, <2>2, WFMin
<1>4. ASSUME NEW u \in SUBSET s, u # s PROVE u \in F
  <2>1. u \in SUBSET T /\ s \in SUBSET T
    OBVIOUS
  <2>2. <<u, s>> \in StrictSubsetOrdering(T)
    BY <1>4, <2>1 DEF StrictSubsetOrdering
  <2> QED
    BY <1>3, <2>1, <2>2
<1> QED
  BY <1>4

LEMMA ByElements ==
    ASSUME NEW T, IsFiniteSet(T), NEW F, {} \in F,
           \A s \in SUBSET T : \A x \in T \ s : s \in F => s \cup {x} \in F
    PROVE  T \in F
<1>1. ASSUME NEW s \in SUBSET T, \A u \in SUBSET s : u # s => u \in F
      PROVE  s \in F
  <2>1. CASE s = {}
    BY <2>1
  <2>2. CASE s # {}
    <3>1. PICK x \in s : TRUE
      BY <2>2
    <3>2. s \ {x} \in F /\ s \ {x} \in SUBSET T /\ x \in T \ (s \ {x}) /\ (s \ {x}) \cup {x} = s
      BY <1>1
    <3> QED
      BY <3>2
  <2> QED
    BY <2>1, <2>2
<1> QED
  BY <1>1, BySubsets

-----------------------------------------------------------------------------
(* Sums.  A total adds up a function by choosing one index after another;  *)
(* h holds the sums over all parts of the indices.                         *)
First(t) == CHOOSE x \in t : TRUE
Summed(f, t, h) == h = [u \in SUBSET t |-> IF u = {} THEN 0 ELSE f[First(u)] + h[u \ {First(u)}]]
Sums(f, t) == CHOOSE h : Summed(f, t, h)
Sum(f, t) == Sums(f, t)[t]

LEMMA TotalIsSum == \A f : Total(f) = Sum(f, DOMAIN f)
BY Zenon DEF Total, FoldFunction, FoldFunctionOnSet, MapThenFoldSet, Sum, Sums, Summed, First

LEMMA FirstIsOfIt == \A t : t # {} => First(t) \in t
BY DEF First

\* h and g are the same sums.
LEMMA SumsAgree ==
    ASSUME NEW f, NEW t, IsFiniteSet(t), NEW h, NEW g, NEW u, u \subseteq t, Summed(f, t, h), Summed(f, u, g)
    PROVE  \A s \in SUBSET u : h[s] = g[s]
<1> DEFINE F == {s \in SUBSET u : h[s] = g[s]}
<1>1. ASSUME NEW s \in SUBSET u PROVE s \in F
  <2>1. IsFiniteSet(s)
    BY FS_Subset
  <2>2. ASSUME NEW w \in SUBSET s, \A v \in SUBSET w : v # w => v \in F PROVE w \in F
    <3>1. w \in SUBSET u /\ w \in SUBSET t
      OBVIOUS
    <3>2. /\ h[w] = IF w = {} THEN 0 ELSE f[First(w)] + h[w \ {First(w)}]
          /\ g[w] = IF w = {} THEN 0 ELSE f[First(w)] + g[w \ {First(w)}]
      <4>1. h = [v \in SUBSET t |-> IF v = {} THEN 0 ELSE f[First(v)] + h[v \ {First(v)}]]
        BY DEF Summed
      <4>2. g = [v \in SUBSET u |-> IF v = {} THEN 0 ELSE f[First(v)] + g[v \ {First(v)}]]
        BY DEF Summed
      <4> QED
        BY <3>1, <4>1, <4>2
    <3>3. CASE w = {}
      BY <3>1, <3>2, <3>3
    <3>4. CASE w # {}
      <4>1. First(w) \in w
        BY <3>4, FirstIsOfIt
      <4>2. w \ {First(w)} \in F
        BY <2>2, <4>1
      <4> QED
        BY <3>1, <3>2, <3>4, <4>2
    <3> QED
      BY <3>3, <3>4
  <2> HIDE DEF F
  <2> QED
    BY <2>1, <2>2, BySubsets
<1> QED
  BY <1>1

LEMMA SumsExist ==
    ASSUME NEW f, NEW T, IsFiniteSet(T)
    PROVE  Summed(f, T, Sums(f, T))
<1> DEFINE F == {t \in SUBSET T : \E h : Summed(f, t, h)}
<1>1. ASSUME NEW t \in SUBSET T, \A u \in SUBSET t : u # t => u \in F
      PROVE  t \in F
  <2> DEFINE next(u) == u \ {First(u)}
             h == [u \in SUBSET t |-> IF u = {} THEN 0 ELSE f[First(u)] + Sum(f, next(u))]
  <2>1. ASSUME NEW u \in SUBSET t, u # t PROVE Summed(f, u, Sums(f, u)) /\ IsFiniteSet(u)
    <3>1. u \in F
      BY <1>1, <2>1
    <3> QED
      BY <3>1, FS_Subset DEF Sums
  <2>2. ASSUME NEW u \in SUBSET t, u # {} PROVE h[next(u)] = Sum(f, next(u))
    <3>1. First(u) \in u
      BY <2>2, FirstIsOfIt
    <3>2. next(u) \in SUBSET t /\ next(u) # t
      BY <3>1
    <3>3. Summed(f, next(u), Sums(f, next(u))) /\ IsFiniteSet(next(u))
      BY <2>1, <3>2
    <3>4. CASE next(u) = {}
      <4>1. h[{}] = 0
        OBVIOUS
      <4>2. Sums(f, {}) = [v \in SUBSET {} |-> IF v = {} THEN 0 ELSE f[First(v)] + Sums(f, {})[v \ {First(v)}]]
        BY <3>3, <3>4 DEF Summed
      <4>3. Sums(f, {})[{}] = 0
        BY <4>2
      <4> QED
        BY <3>4, <4>1, <4>3 DEF Sum
    <3>5. CASE next(u) # {}
      <4> DEFINE w == next(u)
      <4>1. First(w) \in w
        BY <3>5, FirstIsOfIt
      <4>2. next(w) \in SUBSET w /\ next(w) \in SUBSET t /\ next(w) # t
        BY <3>2, <4>1
      <4>3. Summed(f, next(w), Sums(f, next(w)))
        BY <2>1, <4>2
      <4>4. Sums(f, w)[next(w)] = Sums(f, next(w))[next(w)]
        <5> HIDE DEF w, next
        <5> QED
          BY <3>3, <4>2, <4>3, SumsAgree DEF w
      <4>5. Sums(f, w)[w] = f[First(w)] + Sums(f, w)[next(w)]
        <5>1. Sums(f, w) = [v \in SUBSET w |-> IF v = {} THEN 0 ELSE f[First(v)] + Sums(f, w)[next(v)]]
          BY <3>3 DEF Summed
        <5> HIDE DEF w, next
        <5> QED
          BY <3>5, <5>1 DEF w
      <4>6. h[w] = f[First(w)] + Sum(f, next(w))
        <5> HIDE DEF next
        <5> QED
          BY <3>2, <3>5
      <4> QED
        BY <4>4, <4>5, <4>6 DEF Sum
    <3> QED
      BY <3>4, <3>5
  <2>3. h = [u \in SUBSET t |-> IF u = {} THEN 0 ELSE f[First(u)] + h[u \ {First(u)}]]
    <3>1. \A u \in SUBSET t : (IF u = {} THEN 0 ELSE f[First(u)] + Sum(f, next(u)))
                              = (IF u = {} THEN 0 ELSE f[First(u)] + h[next(u)])
      <4> HIDE DEF h
      <4> QED
        BY <2>2
    <3>2. PICK g : g = h
      OBVIOUS
    <3>3. g = [u \in SUBSET t |-> IF u = {} THEN 0 ELSE f[First(u)] + Sum(f, next(u))]
      BY <3>2
    <3>4. \A u \in SUBSET t : (IF u = {} THEN 0 ELSE f[First(u)] + Sum(f, next(u)))
                              = (IF u = {} THEN 0 ELSE f[First(u)] + g[next(u)])
      BY <3>1, <3>2
    <3>5. g = [u \in SUBSET t |-> IF u = {} THEN 0 ELSE f[First(u)] + g[next(u)]]
      <4> HIDE DEF next, h
      <4> QED
        BY <3>3, <3>4
    <3> QED
      BY <3>2, <3>5
  <2>4. Summed(f, t, h)
    <3> HIDE DEF h
    <3> QED
      BY <2>3 DEF Summed
  <2> QED
    BY <2>4
<1>2. T \in F
  <2> HIDE DEF F
  <2> QED
    BY <1>1, BySubsets
<1> QED
  BY <1>2 DEF Sums

(* The two equations of a sum. *)
LEMMA SumOfNone == \A f : Sum(f, {}) = 0
<1>1. ASSUME NEW f PROVE Sum(f, {}) = 0
  <2>1. Summed(f, {}, Sums(f, {}))
    BY SumsExist, FS_EmptySet
  <2>2. Sums(f, {}) = [v \in SUBSET {} |-> IF v = {} THEN 0 ELSE f[First(v)] + Sums(f, {})[v \ {First(v)}]]
    BY <2>1 DEF Summed
  <2>3. Sums(f, {})[{}] = 0
    BY <2>2
  <2> QED
    BY <2>3 DEF Sum
<1> QED
  BY <1>1

LEMMA SumByFirst ==
    ASSUME NEW f, NEW t, IsFiniteSet(t), t # {}
    PROVE  First(t) \in t /\ Sum(f, t) = f[First(t)] + Sum(f, t \ {First(t)})
<1> DEFINE rest == t \ {First(t)}
<1>1. First(t) \in t /\ rest \subseteq t /\ rest \in SUBSET rest
  BY FirstIsOfIt
<1>2. IsFiniteSet(rest)
  BY <1>1, FS_Subset
<1>3. Summed(f, t, Sums(f, t)) /\ Summed(f, rest, Sums(f, rest))
  BY <1>2, SumsExist
<1>4. Sums(f, t)[rest] = Sums(f, rest)[rest]
  <2> HIDE DEF rest
  <2> QED
    BY <1>1, <1>3, SumsAgree
<1>5. Sums(f, t) = [v \in SUBSET t |-> IF v = {} THEN 0 ELSE f[First(v)] + Sums(f, t)[v \ {First(v)}]]
  BY <1>3 DEF Summed
<1>6. Sums(f, t)[t] = f[First(t)] + Sums(f, t)[rest]
  <2>1. PICK g : g = Sums(f, t)
    OBVIOUS
  <2>2. g = [v \in SUBSET t |-> IF v = {} THEN 0 ELSE f[First(v)] + g[v \ {First(v)}]]
    BY <1>5, <2>1
  <2>3. t \in SUBSET t
    OBVIOUS
  <2>4. g[t] = f[First(t)] + g[rest]
    BY <2>2, <2>3
  <2> QED
    BY <2>1, <2>4
<1> QED
  BY <1>1, <1>4, <1>6 DEF Sum

\* f has integers at all of T.
IntegersOn(f, T) == \A x \in T : f[x] \in Int

LEMMA SumIsInt ==
    ASSUME NEW f, NEW T, IsFiniteSet(T), IntegersOn(f, T)
    PROVE  Sum(f, T) \in Int
<1> DEFINE F == {s \in SUBSET T : Sum(f, s) \in Int}
<1>1. ASSUME NEW s \in SUBSET T, \A u \in SUBSET s : u # s => u \in F
      PROVE  s \in F
  <2>1. CASE s = {}
    BY <2>1, SumOfNone
  <2>2. CASE s # {}
    <3>1. First(s) \in s /\ Sum(f, s) = f[First(s)] + Sum(f, s \ {First(s)})
      BY <2>2, FS_Subset, SumByFirst
    <3>2. s \ {First(s)} \in F /\ f[First(s)] \in Int
      BY <1>1, <3>1 DEF IntegersOn
    <3> QED
      BY <3>1, <3>2
  <2> QED
    BY <2>1, <2>2
<1>2. T \in F
  <2> HIDE DEF F
  <2> QED
    BY <1>1, BySubsets
<1> QED
  BY <1>2

(* The order in which a sum is taken does not matter. *)
LEMMA SumTakesAny ==
    ASSUME NEW f, NEW T, IsFiniteSet(T), IntegersOn(f, T), NEW x \in T
    PROVE  Sum(f, T) = f[x] + Sum(f, T \ {x})
<1> DEFINE F == {s \in SUBSET T : \A y \in s : Sum(f, s) = f[y] + Sum(f, s \ {y})}
<1>1. ASSUME NEW s \in SUBSET T, \A u \in SUBSET s : u # s => u \in F
      PROVE  s \in F
  <2>1. ASSUME NEW y \in s PROVE Sum(f, s) = f[y] + Sum(f, s \ {y})
    <3> DEFINE c == First(s)
    <3>1. IsFiniteSet(s)
      BY FS_Subset
    <3>2. c \in s /\ Sum(f, s) = f[c] + Sum(f, s \ {c})
      BY <3>1, SumByFirst
    <3>3. CASE y = c
      BY <3>2, <3>3
    <3>4. CASE y # c
      <4>1. s \ {c} \in F /\ s \ {y} \in F /\ y \in s \ {c} /\ c \in s \ {y}
        BY <1>1, <3>2, <3>4
      <4>2. Sum(f, s \ {c}) = f[y] + Sum(f, (s \ {c}) \ {y})
        BY <4>1
      <4>3. Sum(f, s \ {y}) = f[c] + Sum(f, (s \ {y}) \ {c})
        BY <4>1
      <4>4. (s \ {c}) \ {y} = (s \ {y}) \ {c}
        OBVIOUS
      <4>5. IsFiniteSet((s \ {y}) \ {c}) /\ IntegersOn(f, (s \ {y}) \ {c})
        BY <3>1, FS_Subset DEF IntegersOn
      <4>6. f[y] \in Int /\ f[c] \in Int /\ Sum(f, (s \ {y}) \ {c}) \in Int
        BY <3>2, <4>5, SumIsInt DEF IntegersOn
      <4>7. Sum(f, s \ {c}) = f[y] + Sum(f, (s \ {y}) \ {c})
        BY <4>2, <4>4
      <4> HIDE DEF c
      <4> QED
        BY <3>2, <4>3, <4>6, <4>7
    <3> QED
      BY <3>3, <3>4
  <2> QED
    BY <2>1
<1>2. T \in F
  <2> HIDE DEF F
  <2> QED
    BY <1>1, BySubsets
<1> QED
  BY <1>2

LEMMA SumOfMore ==
    ASSUME NEW f, NEW s, NEW x, IsFiniteSet(s), x \notin s, IntegersOn(f, s \cup {x})
    PROVE  Sum(f, s \cup {x}) = f[x] + Sum(f, s) /\ Sum(f, s) \in Int /\ f[x] \in Int
<1>1. IsFiniteSet(s \cup {x}) /\ (s \cup {x}) \ {x} = s /\ x \in s \cup {x}
  BY FS_AddElement
<1> QED
  BY <1>1, SumTakesAny, SumIsInt DEF IntegersOn

LEMMA SumOfSame ==
    ASSUME NEW f, NEW g, NEW T, IsFiniteSet(T), \A x \in T : f[x] = g[x]
    PROVE  Sum(f, T) = Sum(g, T)
<1> DEFINE F == {s \in SUBSET T : Sum(f, s) = Sum(g, s)}
<1>1. ASSUME NEW s \in SUBSET T, \A u \in SUBSET s : u # s => u \in F
      PROVE  s \in F
  <2>1. CASE s = {}
    BY <2>1, SumOfNone
  <2>2. CASE s # {}
    <3>1. /\ First(s) \in s
          /\ Sum(f, s) = f[First(s)] + Sum(f, s \ {First(s)})
          /\ Sum(g, s) = g[First(s)] + Sum(g, s \ {First(s)})
      BY <2>2, FS_Subset, SumByFirst
    <3>2. s \ {First(s)} \in F
      BY <1>1, <3>1
    <3> QED
      BY <3>1, <3>2
  <2> QED
    BY <2>1, <2>2
<1>2. T \in F
  <2> HIDE DEF F
  <2> QED
    BY <1>1, BySubsets
<1> QED
  BY <1>2

(* Finite sets with nothing in common are counted apart. *)
LEMMA CountedApart ==
    ASSUME NEW S, IsFiniteSet(S), NEW T, IsFiniteSet(T), S \cap T = {}
    PROVE  /\ IsFiniteSet(S \cup T) /\ Cardinality(S \cup T) = Cardinality(S) + Cardinality(T)
           /\ Cardinality(S) \in Nat /\ Cardinality(T) \in Nat
<1>1. IsFiniteSet(S \cup T) /\ Cardinality(S \cup T) = Cardinality(S) + Cardinality(T) - Cardinality(S \cap T)
  BY FS_Union
<1>2. Cardinality(S) \in Nat /\ Cardinality(T) \in Nat
  BY FS_CardinalityType
<1>3. Cardinality(S \cap T) = 0
  BY FS_EmptySet
<1>4. \A p, q, r, t : p = q + r - t /\ t = 0 /\ q \in Nat /\ r \in Nat => p = q + r
  OBVIOUS
<1> QED
  BY <1>1, <1>2, <1>3, <1>4

\* Those of D that m puts into s.
Into(D, m, s) == {d \in D : m[d] \in s}

(* What is counted by its kind is all counted. *)
LEMMA SumOfFibers ==
    ASSUME NEW D, IsFiniteSet(D), NEW B, IsFiniteSet(B), NEW m, NEW h,
           \A b \in B : h[b] = Cardinality({d \in D : m[d] = b})
    PROVE  Sum(h, B) = Cardinality(Into(D, m, B))
<1> DEFINE F == {s \in SUBSET B : Sum(h, s) = Cardinality(Into(D, m, s))}
<1>1. \A s : IsFiniteSet(Into(D, m, s)) /\ Cardinality(Into(D, m, s)) \in Nat
  <2>1. \A s : Into(D, m, s) \in SUBSET D
    BY DEF Into
  <2> QED
    BY <2>1, FS_Subset, FS_CardinalityType
<1>2. {} \in F
  <2>1. Into(D, m, {}) = {}
    BY DEF Into
  <2> QED
    BY <2>1, SumOfNone, FS_EmptySet
<1>3. ASSUME NEW s \in SUBSET B, NEW b \in B \ s, s \in F PROVE s \cup {b} \in F
  <2>1. IsFiniteSet(s) /\ b \notin s /\ s \cup {b} \in SUBSET B
    BY FS_Subset
  <2>2. \A c \in B : h[c] = Cardinality(Into(D, m, {c}))
    <3>1. \A c : {d \in D : m[d] = c} = Into(D, m, {c})
      BY DEF Into
    <3> QED
      BY <3>1
  <2>3. IntegersOn(h, B)
    <3>1. ASSUME NEW c \in B PROVE h[c] \in Int
      <4>1. h[c] = Cardinality(Into(D, m, {c}))
        BY <2>2
      <4>2. Cardinality(Into(D, m, {c})) \in Nat
        BY <1>1
      <4> QED
        BY <4>1, <4>2
    <3> QED
      BY <3>1 DEF IntegersOn
  <2>4. Sum(h, s \cup {b}) = h[b] + Sum(h, s)
    BY <2>1, <2>3, SumOfMore DEF IntegersOn
  <2>5. h[b] = Cardinality(Into(D, m, {b}))
    BY <2>2
  <2>6. Into(D, m, s \cup {b}) = Into(D, m, s) \cup Into(D, m, {b}) /\ Into(D, m, s) \cap Into(D, m, {b}) = {}
    BY <2>1 DEF Into
  <2>7. Cardinality(Into(D, m, s \cup {b})) = Cardinality(Into(D, m, s)) + Cardinality(Into(D, m, {b}))
    BY <1>1, <2>6, CountedApart
  <2> QED
    BY <1>1, <1>3, <2>1, <2>4, <2>5, <2>7
<1>4. B \in F
  <2> HIDE DEF F
  <2> QED
    BY <1>2, <1>3, ByElements
<1> QED
  BY <1>4

\* h is a times f and b times g.
Mixes(h, a, f, b, g, T) == \A x \in T : h[x] = a * f[x] + b * g[x]

(* Sums of sums and of multiples. *)
LEMMA SumIsLinear ==
    ASSUME NEW f, NEW g, NEW h, NEW T, IsFiniteSet(T), IntegersOn(f, T), IntegersOn(g, T), NEW a \in Int, NEW b \in Int,
           Mixes(h, a, f, b, g, T)
    PROVE  Sum(h, T) = a * Sum(f, T) + b * Sum(g, T) /\ IntegersOn(h, T)
<1> DEFINE F == {s \in SUBSET T : Sum(h, s) = a * Sum(f, s) + b * Sum(g, s)}
<1>1. IntegersOn(h, T)
  BY DEF IntegersOn, Mixes
<1>2. {} \in F
  BY SumOfNone
<1>3. ASSUME NEW s \in SUBSET T, NEW x \in T \ s, s \in F PROVE s \cup {x} \in F
  <2>1. IsFiniteSet(s) /\ x \notin s /\ s \cup {x} \in SUBSET T
    BY FS_Subset
  <2>2. Sum(f, s \cup {x}) = f[x] + Sum(f, s) /\ Sum(f, s) \in Int /\ f[x] \in Int
    BY <2>1, SumOfMore DEF IntegersOn
  <2>3. Sum(g, s \cup {x}) = g[x] + Sum(g, s) /\ Sum(g, s) \in Int /\ g[x] \in Int
    BY <2>1, SumOfMore DEF IntegersOn
  <2>4. Sum(h, s \cup {x}) = h[x] + Sum(h, s) /\ h[x] = a * f[x] + b * g[x]
    BY <1>1, <2>1, SumOfMore DEF IntegersOn, Mixes
  <2>5. \A p, q, r, t \in Int : (a * p + b * q) + (a * r + b * t) = a * (p + r) + b * (q + t)
    OBVIOUS
  <2>6. Sum(h, s) = a * Sum(f, s) + b * Sum(g, s)
    BY <1>3
  <2> QED
    BY <2>1, <2>2, <2>3, <2>4, <2>5, <2>6
<1>4. T \in F
  <2> HIDE DEF F
  <2> QED
    BY <1>2, <1>3, ByElements
<1> QED
  BY <1>1, <1>4

LEMMA SumIsPositive ==
    ASSUME NEW f, NEW T, IsFiniteSet(T), IntegersOn(f, T), \A x \in T : f[x] >= 0
    PROVE  Sum(f, T) >= 0 /\ ((\E x \in T : f[x] > 0) => Sum(f, T) > 0)
<1> DEFINE F == {s \in SUBSET T : Sum(f, s) >= 0}
<1>1. {} \in F
  BY SumOfNone
<1>2. ASSUME NEW s \in SUBSET T, NEW x \in T \ s, s \in F PROVE s \cup {x} \in F
  <2>1. Sum(f, s \cup {x}) = f[x] + Sum(f, s) /\ Sum(f, s) \in Int /\ f[x] \in Int
    BY FS_Subset, SumOfMore DEF IntegersOn
  <2> QED
    BY <1>2, <2>1
<1>3. ASSUME NEW t \in SUBSET T PROVE Sum(f, t) >= 0
  <2>1. t \in {s \in SUBSET t : Sum(f, s) >= 0}
    <3>1. IsFiniteSet(t)
      BY FS_Subset
    <3>2. {} \in {s \in SUBSET t : Sum(f, s) >= 0}
      BY SumOfNone
    <3>3. ASSUME NEW s \in SUBSET t, NEW x \in t \ s, s \in {v \in SUBSET t : Sum(f, v) >= 0}
          PROVE  s \cup {x} \in {v \in SUBSET t : Sum(f, v) >= 0}
      <4>1. s \cup {x} \in F
        BY <1>2, <3>3
      <4> QED
        BY <4>1
    <3> HIDE DEF F
    <3> QED
      BY <3>1, <3>2, <3>3, ByElements
  <2> QED
    BY <2>1
<1>4. ASSUME NEW x \in T, f[x] > 0 PROVE Sum(f, T) > 0
  <2>1. Sum(f, T) = f[x] + Sum(f, T \ {x}) /\ Sum(f, T \ {x}) >= 0
    BY <1>3, SumTakesAny
  <2>2. f[x] \in Int /\ Sum(f, T \ {x}) \in Int
    BY FS_Subset, SumIsInt DEF IntegersOn
  <2> QED
    BY <1>4, <2>1, <2>2
<1> QED
  BY <1>3, <1>4

LEMMA SumOfOnes ==
    ASSUME NEW f, NEW T, IsFiniteSet(T), \A x \in T : f[x] = 1
    PROVE  Sum(f, T) = Cardinality(T) /\ Cardinality(T) \in Nat
<1> DEFINE F == {s \in SUBSET T : Sum(f, s) = Cardinality(s)}
<1>1. {} \in F
  BY SumOfNone, FS_EmptySet
<1>2. ASSUME NEW s \in SUBSET T, NEW x \in T \ s, s \in F PROVE s \cup {x} \in F
  <2>1. IsFiniteSet(s) /\ x \notin s /\ s \cup {x} \in SUBSET T /\ IntegersOn(f, s \cup {x}) /\ f[x] = 1
    BY FS_Subset DEF IntegersOn
  <2>2. Sum(f, s \cup {x}) = f[x] + Sum(f, s) /\ Sum(f, s) \in Int
    BY <2>1, SumOfMore
  <2>3. Cardinality(s \cup {x}) = Cardinality(s) + 1
    BY <2>1, FS_AddElement
  <2>4. Sum(f, s) = Cardinality(s)
    BY <1>2
  <2> QED
    BY <2>1, <2>2, <2>3, <2>4
<1>3. T \in F
  <2> HIDE DEF F
  <2> QED
    BY <1>1, <1>2, ByElements
<1> QED
  BY <1>3, FS_CardinalityType

\* sq is the square of f.
Squares(sq, f, T) == \A x \in T : sq[x] = f[x] * f[x]

\* As many times the sum of squares as there are numbers, less the square of their sum.
Spread(f, sq, T) == Cardinality(T) * Sum(sq, T) - Sum(f, T) * Sum(f, T)

\* The squares of the distances from w.
Distances(f, w, T) == [x \in T |-> (f[x] - w) * (f[x] - w)]

LEMMA DistancesAddUp ==
    ASSUME NEW f, NEW sq, NEW T, IsFiniteSet(T), IntegersOn(f, T), Squares(sq, f, T), NEW w \in Int
    PROVE  /\ IntegersOn(Distances(f, w, T), T) /\ \A x \in T : Distances(f, w, T)[x] >= 0
           /\ Sum(Distances(f, w, T), T) = Sum(sq, T) - 2 * (w * Sum(f, T)) + Cardinality(T) * (w * w)
<1> DEFINE one == [x \in T |-> 1]
           mid == [x \in T |-> 1 * sq[x] + (-(2 * w)) * f[x]]
<1>1. \A p \in Int : p * p \in Int /\ p * p >= 0
  OBVIOUS
<1>2. IntegersOn(sq, T) /\ IntegersOn(one, T)
  BY <1>1 DEF IntegersOn, Squares
<1>3. w * w \in Int /\ -(2 * w) \in Int
  OBVIOUS
<1>4. Sum(mid, T) = 1 * Sum(sq, T) + (-(2 * w)) * Sum(f, T) /\ IntegersOn(mid, T)
  <2>1. Mixes(mid, 1, sq, -(2 * w), f, T)
    BY DEF Mixes
  <2> HIDE DEF mid
  <2> QED
    BY <1>2, <1>3, <2>1, SumIsLinear
<1>5. Mixes(Distances(f, w, T), 1, mid, w * w, one, T)
  <2>1. \A p \in Int : (p - w) * (p - w) = 1 * (1 * (p * p) + (-(2 * w)) * p) + (w * w) * 1
    OBVIOUS
  <2> QED
    BY <2>1 DEF Distances, IntegersOn, Squares, Mixes
<1>6. Sum(Distances(f, w, T), T) = 1 * Sum(mid, T) + (w * w) * Sum(one, T)
  <2> HIDE DEF mid, one
  <2> QED
    BY <1>2, <1>3, <1>4, <1>5, SumIsLinear
<1>7. Sum(one, T) = Cardinality(T) /\ Cardinality(T) \in Nat
  <2>1. \A x \in T : one[x] = 1
    OBVIOUS
  <2> HIDE DEF one
  <2> QED
    BY <2>1, SumOfOnes
<1>8. IntegersOn(Distances(f, w, T), T) /\ \A x \in T : Distances(f, w, T)[x] >= 0
  <2>1. \A p \in Int : p - w \in Int /\ (p - w) * (p - w) \in Int /\ (p - w) * (p - w) >= 0
    BY <1>1
  <2> QED
    BY <2>1 DEF Distances, IntegersOn
<1>9. Sum(sq, T) \in Int /\ Sum(f, T) \in Int
  BY <1>2, SumIsInt
<1>10. \A p, q \in Int, n \in Nat : 1 * (1 * p + (-(2 * w)) * q) + (w * w) * n = p - 2 * (w * q) + n * (w * w)
  OBVIOUS
<1> HIDE DEF mid, one
<1> QED
  BY <1>4, <1>6, <1>7, <1>8, <1>9, <1>10

LEMMA SpreadGrows ==
    ASSUME NEW f, NEW sq, NEW T, IsFiniteSet(T), IntegersOn(f, T), Squares(sq, f, T), NEW x \in T
    PROVE  /\ Spread(f, sq, T) = Spread(f, sq, T \ {x}) + Sum(Distances(f, f[x], T \ {x}), T \ {x})
           /\ Spread(f, sq, T \ {x}) \in Int /\ Sum(Distances(f, f[x], T \ {x}), T \ {x}) >= 0
           /\ Sum(Distances(f, f[x], T \ {x}), T \ {x}) \in Int
           /\ ((\E y \in T \ {x} : f[y] # f[x]) => Sum(Distances(f, f[x], T \ {x}), T \ {x}) > 0)
<1> DEFINE s == T \ {x}
           w == f[x]
<1>1. IsFiniteSet(s) /\ s \in SUBSET T /\ w \in Int /\ IntegersOn(f, s) /\ Squares(sq, f, s)
  BY FS_Subset DEF IntegersOn, Squares
<1>2. IntegersOn(sq, T) /\ IntegersOn(sq, s)
  <2>1. \A p \in Int : p * p \in Int
    OBVIOUS
  <2> QED
    BY <1>1, <2>1 DEF IntegersOn, Squares
<1>3. Sum(f, T) = w + Sum(f, s) /\ Sum(sq, T) = w * w + Sum(sq, s)
  <2>1. Sum(f, T) = f[x] + Sum(f, s) /\ Sum(sq, T) = sq[x] + Sum(sq, s)
    BY <1>2, SumTakesAny
  <2> QED
    BY <2>1 DEF Squares
<1>4. Sum(f, s) \in Int /\ Sum(sq, s) \in Int
  BY <1>1, <1>2, SumIsInt
<1>5. Cardinality(T) = Cardinality(s) + 1 /\ Cardinality(s) \in Nat
  <2>1. Cardinality(s) = Cardinality(T) - 1 /\ Cardinality(T) \in Nat /\ Cardinality(s) \in Nat
    BY <1>1, FS_RemoveElement, FS_CardinalityType
  <2> QED
    BY <2>1
<1>6. /\ IntegersOn(Distances(f, w, s), s) /\ \A y \in s : Distances(f, w, s)[y] >= 0
      /\ Sum(Distances(f, w, s), s) = Sum(sq, s) - 2 * (w * Sum(f, s)) + Cardinality(s) * (w * w)
  <2> HIDE DEF s, w
  <2> QED
    BY <1>1, DistancesAddUp
<1>7. \A v, q, p, n \in Int :
         (n + 1) * (v * v + q) - (v + p) * (v + p) = (n * q - p * p) + (q - 2 * (v * p) + n * (v * v))
  OBVIOUS
<1>8. \A n, q, p \in Int : n * q - p * p \in Int
  OBVIOUS
<1>9. /\ Spread(f, sq, T) = Spread(f, sq, s) + Sum(Distances(f, w, s), s)
      /\ Spread(f, sq, s) \in Int
  <2> DEFINE n == Cardinality(s)
             p == Sum(f, s)
             q == Sum(sq, s)
  <2>1. Spread(f, sq, s) = n * q - p * p
    BY DEF Spread
  <2>2. Spread(f, sq, T) = (n + 1) * (w * w + q) - (w + p) * (w + p)
    BY <1>3, <1>5 DEF Spread
  <2>3. w \in Int /\ q \in Int /\ p \in Int /\ n \in Int
    BY <1>1, <1>4, <1>5
  <2>4. Sum(Distances(f, w, s), s) = q - 2 * (w * p) + n * (w * w)
    BY <1>6
  <2> HIDE DEF s, w, n, p, q
  <2> QED
    BY <1>7, <1>8, <2>1, <2>2, <2>3, <2>4
<1>10. /\ Sum(Distances(f, w, s), s) >= 0 /\ Sum(Distances(f, w, s), s) \in Int
       /\ (\E y \in s : Distances(f, w, s)[y] > 0) => Sum(Distances(f, w, s), s) > 0
  <2> HIDE DEF s, w
  <2> QED
    BY <1>1, <1>6, SumIsPositive, SumIsInt
<1>11. ASSUME NEW y \in s, f[y] # w PROVE Distances(f, w, s)[y] > 0
  <2>1. \A p \in Int : p # 0 => p * p > 0
    OBVIOUS
  <2>2. f[y] - w \in Int /\ f[y] - w # 0
    <3>1. f[y] \in Int /\ w \in Int /\ f[y] # w
      BY <1>1, <1>11 DEF IntegersOn
    <3>2. \A p, q \in Int : p # q => p - q \in Int /\ p - q # 0
      OBVIOUS
    <3> QED
      BY <3>1, <3>2
  <2>3. Distances(f, w, s)[y] = (f[y] - w) * (f[y] - w)
    BY DEF Distances
  <2> QED
    BY <2>1, <2>2, <2>3
<1> QED
  BY <1>9, <1>10, <1>11

(* Numbers are spread, and evenly only if they are all the same.           *)
LEMMA SpreadIsPositive ==
    ASSUME NEW f, NEW sq, NEW T, IsFiniteSet(T), IntegersOn(f, T), Squares(sq, f, T)
    PROVE  /\ Spread(f, sq, T) \in Int /\ Spread(f, sq, T) >= 0
           /\ (\E x, y \in T : f[x] # f[y]) => Spread(f, sq, T) > 0
<1> DEFINE F == {s \in SUBSET T : Spread(f, sq, s) \in Int /\ Spread(f, sq, s) >= 0}
<1>1. {} \in F
  BY SumOfNone, FS_EmptySet DEF Spread
<1>2. ASSUME NEW s \in SUBSET T, NEW x \in T \ s, s \in F PROVE s \cup {x} \in F
  <2> DEFINE t == s \cup {x}
  <2>1. IsFiniteSet(t) /\ t \in SUBSET T /\ x \in t /\ t \ {x} = s
    BY FS_Subset
  <2>2. IntegersOn(f, t) /\ Squares(sq, f, t)
    BY <2>1 DEF IntegersOn, Squares
  <2>3. /\ Spread(f, sq, t) = Spread(f, sq, s) + Sum(Distances(f, f[x], s), s)
        /\ Sum(Distances(f, f[x], s), s) >= 0 /\ Sum(Distances(f, f[x], s), s) \in Int
    <3> HIDE DEF t
    <3> QED
      BY <2>1, <2>2, SpreadGrows
  <2>4. Spread(f, sq, s) \in Int /\ Spread(f, sq, s) >= 0
    BY <1>2
  <2> QED
    BY <2>1, <2>3, <2>4
<1>3. \A u \in SUBSET T : u \in F
  <2>1. ASSUME NEW u \in SUBSET T PROVE u \in F
    <3>1. IsFiniteSet(u)
      BY FS_Subset
    <3>2. \A s \in SUBSET u : \A x \in u \ s : s \in F => s \cup {x} \in F
      BY <1>2
    <3> HIDE DEF F
    <3> QED
      BY <1>1, <3>1, <3>2, ByElements
  <2> QED
    BY <2>1
<1>4. ASSUME NEW x \in T, NEW y \in T, f[x] # f[y] PROVE Spread(f, sq, T) > 0
  <2>1. y \in T \ {x} /\ f[y] # f[x] /\ T \ {x} \in SUBSET T
    BY <1>4
  <2>2. Spread(f, sq, T \ {x}) \in Int /\ Spread(f, sq, T \ {x}) >= 0
    BY <1>3, <2>1
  <2>3. /\ Spread(f, sq, T) = Spread(f, sq, T \ {x}) + Sum(Distances(f, f[x], T \ {x}), T \ {x})
        /\ Sum(Distances(f, f[x], T \ {x}), T \ {x}) \in Int
        /\ Sum(Distances(f, f[x], T \ {x}), T \ {x}) > 0
    BY <2>1, SpreadGrows
  <2> QED
    BY <2>2, <2>3
<1>5. T \in F
  BY <1>3
<1> QED
  BY <1>4, <1>5

(* The inequality of Cauchy and Schwarz: the spread of b * f - a * g, with *)
(* a the spread of f and b what f and g have in common, is not negative.   *)
LEMMA CommonIsBounded ==
    ASSUME NEW f, NEW g, NEW ff, NEW gg, NEW fg, NEW T, IsFiniteSet(T), IntegersOn(f, T), IntegersOn(g, T),
           Squares(ff, f, T), Squares(gg, g, T), \A x \in T : fg[x] = f[x] * g[x],
           NEW a, a = Spread(f, ff, T), NEW c, c = Spread(g, gg, T),
           NEW b, b = Cardinality(T) * Sum(fg, T) - Sum(f, T) * Sum(g, T), a > 0
    PROVE  b * b <= a * c
<1> DEFINE n == Cardinality(T)
<1>1. n \in Nat
  BY FS_CardinalityType
<1>2. IntegersOn(ff, T) /\ IntegersOn(gg, T) /\ IntegersOn(fg, T)
  <2>1. \A p, q \in Int : p * q \in Int
    OBVIOUS
  <2> QED
    BY <2>1 DEF IntegersOn, Squares
<1>3. PICK F, G, FF, GG, FG \in Int : F = Sum(f, T) /\ G = Sum(g, T) /\ FF = Sum(ff, T) /\ GG = Sum(gg, T) /\ FG = Sum(fg, T)
  BY <1>2, SumIsInt
<1>4. a = n * FF - F * F /\ c = n * GG - G * G /\ b = n * FG - F * G
  BY <1>3 DEF Spread
<1>5. a \in Int /\ b \in Int /\ c \in Int
  BY <1>1, <1>4
<1>6. PICK m, k, bb, aa \in Int : m = -a /\ k = -(2 * (a * b)) /\ bb = b * b /\ aa = a * a
  BY <1>5
<1> DEFINE h == [x \in T |-> b * f[x] + m * g[x]]
           hh == [x \in T |-> h[x] * h[x]]
           mid == [x \in T |-> bb * ff[x] + k * fg[x]]
<1>7. Sum(h, T) = b * F + m * G /\ IntegersOn(h, T)
  <2>1. Mixes(h, b, f, m, g, T)
    BY DEF Mixes
  <2> HIDE DEF h
  <2>2. b \in Int /\ m \in Int
    BY <1>5
  <2>3. Sum(h, T) = b * Sum(f, T) + m * Sum(g, T) /\ IntegersOn(h, T)
    BY <2>1, <2>2, SumIsLinear
  <2> QED
    BY <1>3, <2>3, Zenon
<1>8. Sum(mid, T) = bb * FF + k * FG /\ IntegersOn(mid, T)
  <2>1. Mixes(mid, bb, ff, k, fg, T)
    BY DEF Mixes
  <2> HIDE DEF mid
  <2>2. Sum(mid, T) = bb * Sum(ff, T) + k * Sum(fg, T) /\ IntegersOn(mid, T)
    BY <1>2, <2>1, SumIsLinear
  <2> QED
    BY <1>3, <2>2, Zenon
<1>9. Sum(hh, T) = 1 * Sum(mid, T) + aa * GG
  <2>1. \A p, q \in Int : (b * p + m * q) * (b * p + m * q) = 1 * (bb * (p * p) + k * (p * q)) + aa * (q * q)
    <3>1. \A p, q, v, u \in Int :
             (v * p + (-u) * q) * (v * p + (-u) * q) = 1 * ((v * v) * (p * p) + (-(2 * (u * v))) * (p * q)) + (u * u) * (q * q)
      OBVIOUS
    <3> QED
      BY <1>5, <1>6, <3>1
  <2>2. ASSUME NEW x \in T PROVE hh[x] = 1 * mid[x] + aa * gg[x]
    <3>1. f[x] \in Int /\ g[x] \in Int /\ ff[x] = f[x] * f[x] /\ gg[x] = g[x] * g[x] /\ fg[x] = f[x] * g[x]
      BY DEF IntegersOn, Squares
    <3>2. hh[x] = (b * f[x] + m * g[x]) * (b * f[x] + m * g[x]) /\ mid[x] = bb * ff[x] + k * fg[x]
      OBVIOUS
    <3> HIDE DEF hh, mid, h
    <3>3. (b * f[x] + m * g[x]) * (b * f[x] + m * g[x])
             = 1 * (bb * (f[x] * f[x]) + k * (f[x] * g[x])) + aa * (g[x] * g[x])
      BY <2>1, <3>1
    <3> QED
      BY <3>1, <3>2, <3>3, Zenon
  <2>3. Mixes(hh, 1, mid, aa, gg, T)
    BY <2>2 DEF Mixes
  <2> HIDE DEF mid, hh
  <2> QED
    BY <1>2, <1>3, <1>6, <1>8, <2>3, SumIsLinear
<1>10. Spread(h, hh, T) >= 0
  <2>1. Squares(hh, h, T)
    BY DEF Squares
  <2> HIDE DEF h, hh
  <2> QED
    BY <1>7, <2>1, SpreadIsPositive
<1>11. Spread(h, hh, T) = n * (1 * (bb * FF + k * FG) + aa * GG) - (b * F + m * G) * (b * F + m * G)
  <2> HIDE DEF h, hh, mid
  <2> QED
    BY <1>3, <1>7, <1>8, <1>9 DEF Spread
<1>12. Spread(h, hh, T) = a * (a * c - b * b)
  <2>1. \A p, q, v \in Int :
           v * (1 * ((q * q) * FF + (-(2 * (p * q))) * FG) + (p * p) * GG) - (q * F + (-p) * G) * (q * F + (-p) * G)
             = (q * q) * (v * FF - F * F) - (2 * (p * q)) * (v * FG - F * G) + (p * p) * (v * GG - G * G)
    OBVIOUS
  <2>2. \A p, q, v \in Int : (q * q) * p - (2 * (p * q)) * q + (p * p) * v = p * (p * v - q * q)
    OBVIOUS
  <2>3. n * (1 * (bb * FF + k * FG) + aa * GG) - (b * F + m * G) * (b * F + m * G)
          = (b * b) * (n * FF - F * F) - (2 * (a * b)) * (n * FG - F * G) + (a * a) * (n * GG - G * G)
    BY <1>1, <1>5, <1>6, <2>1
  <2>4. (b * b) * (n * FF - F * F) - (2 * (a * b)) * (n * FG - F * G) + (a * a) * (n * GG - G * G) = (b * b) * a - (2 * (a * b)) * b + (a * a) * c
    BY <1>4
  <2>5. (b * b) * a - (2 * (a * b)) * b + (a * a) * c = a * (a * c - b * b)
    BY <1>5, <2>2
  <2> QED
    BY <1>11, <2>3, <2>4, <2>5
<1>13. \A p, q \in Int : p > 0 /\ p * q >= 0 => q >= 0
  OBVIOUS
<1>14. a * c - b * b >= 0
  <2>1. a * c - b * b \in Int
    BY <1>5
  <2> QED
    BY <1>5, <1>10, <1>12, <1>13, <2>1
<1> QED
  BY <1>5, <1>14

-----------------------------------------------------------------------------
(* The statistics of any numbers: a function of a finite set to integers.  *)
AreNumbers(s) == /\ IsFiniteSet(DOMAIN s) /\ DOMAIN s # {}
                 /\ s = [i \in DOMAIN s |-> s[i]] /\ IntegersOn(s, DOMAIN s)

LEMMA LesserOfTwo ==
    \A a, b \in Int : Min({a, b}) = (IF a <= b THEN a ELSE b)
<1>1. ASSUME NEW a \in Int, NEW b \in Int PROVE Min({a, b}) = (IF a <= b THEN a ELSE b)
  <2>1. IsFiniteSet({a, b})
    <3>1. IsFiniteSet({a} \cup {b})
      BY FS_Singleton, FS_AddElement
    <3>2. {a} \cup {b} = {a, b}
      OBVIOUS
    <3> QED
      BY <3>1, <3>2
  <2>2. Min({a, b}) \in {a, b} /\ \A y \in {a, b} : Min({a, b}) <= y
    BY <2>1, LeastExists
  <2> QED
    BY <2>2
<1> QED
  BY <1>1

LEMMA EndsOfNumbers ==
    ASSUME NEW s, AreNumbers(s)
    PROVE  /\ ToSet(s) \in SUBSET Int /\ IsFiniteSet(ToSet(s)) /\ ToSet(s) # {}
           /\ Least(s) \in ToSet(s) /\ Greatest(s) \in ToSet(s) /\ Least(s) \in Int /\ Greatest(s) \in Int
           /\ \A i \in DOMAIN s : s[i] \in Int /\ Least(s) <= s[i] /\ s[i] <= Greatest(s)
           /\ Size(s) \in Nat /\ Size(s) >= 1
<1>1. ToSet(s) \in SUBSET Int /\ ToSet(s) # {}
  BY DEF AreNumbers, IntegersOn, ToSet
<1>2. IsFiniteSet(ToSet(s))
  <2>1. s \in Surjection(DOMAIN s, ToSet(s))
    BY DEF AreNumbers, Surjection, ToSet
  <2> QED
    BY <2>1, FS_Surjection DEF AreNumbers
<1>3. /\ Least(s) \in ToSet(s) /\ \A y \in ToSet(s) : Least(s) <= y
      /\ Greatest(s) \in ToSet(s) /\ \A y \in ToSet(s) : y <= Greatest(s)
  BY <1>1, <1>2, LeastExists, GreatestExists DEF Least, Greatest
<1>4. \A i \in DOMAIN s : s[i] \in ToSet(s)
  BY DEF ToSet
<1>5. Size(s) \in Nat /\ Size(s) # 0
  BY FS_EmptySet, FS_CardinalityType DEF AreNumbers, Size
<1> QED
  BY <1>1, <1>2, <1>3, <1>4, <1>5

(* The bins of equal width, and the last one with its upper edge. *)
LEMMA BinsHaveEdges ==
    ASSUME NEW s, AreNumbers(s), Least(s) # Greatest(s), NEW i \in DOMAIN s
    PROVE  /\ Bin(s, s[i]) \in 0 .. Bins - 1
           /\ \A b \in 1 .. Bins :
                 Bin(s, s[i]) = b - 1 <=>
                    /\ Bins * (s[i] - Least(s)) >= (b - 1) * (Greatest(s) - Least(s))
                    /\ Bins * (s[i] - Least(s)) < b * (Greatest(s) - Least(s)) \/ b = Bins
<1>1. PICK w, d \in Int : w = Greatest(s) - Least(s) /\ d = s[i] - Least(s) /\ w > 0 /\ d >= 0 /\ d <= w
  BY EndsOfNumbers
<1>2. Bins \in Nat \ {0}
  BY ProfileAssumption
<1>3. PICK x \in Int : x = d * Bins /\ x = Bins * d /\ x >= 0 
  <2>1. \A p, q \in Int : p * q \in Int /\ p * q = q * p /\ (p >= 0 /\ q >= 0 => p * q >= 0)
    OBVIOUS
  <2> QED
    BY <1>1, <1>2, <2>1
<1>4. PICK q \in Int : q = x \div w /\ q * w <= x /\ x < (q + 1) * w
  BY <1>1, <1>3
<1>5. q >= 0
  <2>1. \A p, v \in Int : v > 0 /\ p < 0 => (p + 1) * v <= 0
    OBVIOUS
  <2> QED
    BY <1>1, <1>3, <1>4, <2>1
<1>6. Bin(s, s[i]) = IF q <= Bins - 1 THEN q ELSE Bins - 1
  <2>1. Bin(s, s[i]) = Min({x \div w, Bins - 1})
    BY <1>1, <1>3 DEF Bin
  <2> QED
    BY <1>2, <1>4, <2>1, LesserOfTwo
<1>7. ASSUME NEW b \in 1 .. Bins
      PROVE  Bin(s, s[i]) = b - 1 <=> x >= (b - 1) * w /\ (x < b * w \/ b = Bins)
  <2>1. \A p, r \in Int : p <= r => p * w <= r * w
    <3>1. \A p, r, v \in Int : v > 0 /\ p <= r => p * v <= r * v
      OBVIOUS
    <3> QED
      BY <1>1, <3>1
  <2>2. b \in Int /\ b - 1 \in Int /\ q + 1 \in Int /\ b * w \in Int /\ (b - 1) * w \in Int /\ q * w \in Int /\ (q + 1) * w \in Int
    BY <1>1
  <2>3. ASSUME Bin(s, s[i]) = b - 1 PROVE x >= (b - 1) * w /\ (x < b * w \/ b = Bins)
    <3>1. CASE q <= Bins - 1
      <4>1. b - 1 = q /\ b = q + 1
        BY <1>2, <1>6, <2>3, <3>1
      <4> QED
        BY <1>4, <4>1
    <3>2. CASE ~(q <= Bins - 1)
      <4>1. b = Bins /\ b - 1 <= q
        BY <1>2, <1>6, <2>3, <3>2
      <4>2. (b - 1) * w <= q * w
        BY <2>1, <2>2, <4>1
      <4> QED
        BY <1>4, <2>2, <4>1, <4>2
    <3> QED
      BY <3>1, <3>2
  <2>4. ASSUME x >= (b - 1) * w, x < b * w \/ b = Bins PROVE Bin(s, s[i]) = b - 1
    <3>1. q >= b - 1
      <4>1. SUFFICES ASSUME q + 1 <= b - 1 PROVE FALSE
        BY <2>2
      <4>2. (q + 1) * w <= (b - 1) * w
        BY <2>1, <2>2, <4>1
      <4> QED
        BY <1>4, <2>2, <2>4, <4>2
    <3>2. CASE b = Bins
      BY <1>2, <1>6, <3>1, <3>2
    <3>3. CASE x < b * w
      <4>1. q <= b - 1
        <5>1. SUFFICES ASSUME b <= q PROVE FALSE
          BY <2>2
        <5>2. b * w <= q * w
          BY <2>1, <2>2, <5>1
        <5> QED
          BY <1>4, <2>2, <3>3, <5>2
      <4> QED
        BY <1>2, <1>6, <3>1, <4>1
    <3> QED
      BY <2>4, <3>2, <3>3
  <2> QED
    BY <2>3, <2>4
<1> QED
  BY <1>1, <1>2, <1>3, <1>5, <1>6, <1>7

LEMMA HistogramsAreExact ==
    ASSUME NEW s, AreNumbers(s)
    PROVE  HistogramIsExact(s)
<1>1. CASE Least(s) = Greatest(s)
  <2>1. Histogram(s) = <<Size(s)>> /\ Size(s) \in Int
    BY <1>1, EndsOfNumbers DEF Histogram
  <2>2. Total(<<Size(s)>>) = Size(s)
    <3> DEFINE h == <<Size(s)>>
    <3>1. DOMAIN h = {1} /\ h[1] = Size(s) /\ IntegersOn(h, {1}) /\ IsFiniteSet({1}) /\ {1} \ {1} = {}
      BY <2>1, FS_Singleton DEF IntegersOn
    <3>2. Total(h) = Sum(h, DOMAIN h)
      BY TotalIsSum
    <3> HIDE DEF h
    <3>3. Sum(h, {1}) = h[1] + Sum(h, {})
      BY <3>1, SumTakesAny
    <3>4. Total(h) = Size(s)
      BY <2>1, <3>1, <3>2, <3>3, SumOfNone
    <3> QED
      BY <3>4 DEF h
  <2> QED
    BY <2>1, <2>2 DEF HistogramIsExact
<1>2. CASE Least(s) # Greatest(s)
  <2> DEFINE D == DOMAIN s
             m == [i \in D |-> Bin(s, s[i]) + 1]
             h == [b \in 1 .. Bins |-> Cardinality({i \in D : Bin(s, s[i]) = b - 1})]
  <2>1. Histogram(s) = h
    BY <1>2 DEF Histogram
  <2>2. Bins \in Nat \ {0} /\ IsFiniteSet(1 .. Bins) /\ IsFiniteSet(D)
    BY ProfileAssumption, FS_Interval DEF AreNumbers
  <2>3. \A i \in D : Bin(s, s[i]) \in Int /\ Bin(s, s[i]) + 1 \in 1 .. Bins
    <3>1. \A i \in D : Bin(s, s[i]) \in 0 .. Bins - 1
      BY <1>2, BinsHaveEdges
    <3> QED
      BY <2>2, <3>1
  <2>4. \A b \in 1 .. Bins : h[b] = Cardinality({i \in D : m[i] = b})
    <3>1. ASSUME NEW b \in 1 .. Bins PROVE {i \in D : Bin(s, s[i]) = b - 1} = {i \in D : m[i] = b}
      BY <2>2, <2>3
    <3> QED
      BY <3>1
  <2>5. Into(D, m, 1 .. Bins) = D
    BY <2>3 DEF Into
  <2>6. Sum(h, 1 .. Bins) = Cardinality(Into(D, m, 1 .. Bins))
    <3> HIDE DEF h, m, D
    <3> QED
      BY <2>2, <2>4, SumOfFibers
  <2>7. Total(h) = Size(s)
    <3>1. Total(h) = Sum(h, DOMAIN h) /\ DOMAIN h = 1 .. Bins
      BY TotalIsSum
    <3> HIDE DEF h, m
    <3> QED
      BY <2>5, <2>6, <3>1 DEF Size
  <2>8. \A b \in 1 .. Bins :
           h[b] = Cardinality({i \in D : /\ Bins * (s[i] - Least(s)) >= (b - 1) * (Greatest(s) - Least(s))
                                         /\ \/ Bins * (s[i] - Least(s)) < b * (Greatest(s) - Least(s))
                                            \/ b = Bins})
    <3>1. ASSUME NEW b \in 1 .. Bins
          PROVE  {i \in D : Bin(s, s[i]) = b - 1}
                 = {i \in D : /\ Bins * (s[i] - Least(s)) >= (b - 1) * (Greatest(s) - Least(s))
                              /\ \/ Bins * (s[i] - Least(s)) < b * (Greatest(s) - Least(s))
                                 \/ b = Bins}
      BY <1>2, BinsHaveEdges
    <3> QED
      BY <3>1
  <2> QED
    BY <2>1, <2>7, <2>8 DEF HistogramIsExact
<1> QED
  BY <1>1, <1>2

-----------------------------------------------------------------------------
(* Numbers in order. *)
Below(s, v) == {i \in DOMAIN s : s[i] < v}
NotAbove(s, v) == {i \in DOMAIN s : s[i] <= v}

LEMMA PartsAreFinite ==
    ASSUME NEW s, AreNumbers(s), NEW v
    PROVE  /\ IsFiniteSet(Below(s, v)) /\ IsFiniteSet(NotAbove(s, v))
           /\ Cardinality(Below(s, v)) \in Nat /\ Cardinality(NotAbove(s, v)) \in Nat
BY FS_Subset, FS_CardinalityType DEF AreNumbers, Below, NotAbove

(* v is the k-th in order. *)
IsAt(s, k, v) == v \in ToSet(s) /\ Cardinality(Below(s, v)) < k /\ Cardinality(NotAbove(s, v)) >= k

LEMMA EveryPlaceIsTaken ==
    ASSUME NEW s, AreNumbers(s), NEW k \in 1 .. Size(s)
    PROVE  \E v : IsAt(s, k, v)
<1> DEFINE T == {v \in ToSet(s) : Cardinality(NotAbove(s, v)) >= k}
           v == Min(T)
<1>0. k \in Int /\ k >= 1 /\ k <= Size(s)
  BY EndsOfNumbers
<1>1. Greatest(s) \in T
  <2>1. NotAbove(s, Greatest(s)) = DOMAIN s
    BY EndsOfNumbers DEF NotAbove
  <2>2. Cardinality(NotAbove(s, Greatest(s))) = Size(s)
    BY <2>1 DEF Size
  <2> QED
    BY <1>0, <2>2, EndsOfNumbers
<1>2. T \in SUBSET Int /\ IsFiniteSet(T) /\ T # {}
  <2>1. T \in SUBSET ToSet(s)
    OBVIOUS
  <2> HIDE DEF T
  <2> QED
    BY <1>1, <2>1, EndsOfNumbers, FS_Subset
<1>3. v \in T /\ \A y \in T : v <= y
  <2> HIDE DEF T
  <2> QED
    BY <1>2, LeastExists
<1>4. v \in Int /\ v \in ToSet(s) /\ Cardinality(NotAbove(s, v)) >= k
  BY <1>2, <1>3
<1>5. Cardinality(Below(s, v)) < k
  <2>1. CASE Below(s, v) = {}
    BY <1>0, <2>1, FS_EmptySet
  <2>2. CASE Below(s, v) # {}
    <3> DEFINE U == {y \in ToSet(s) : y < v}
               u == Max(U)
    <3>1. U \in SUBSET Int /\ IsFiniteSet(U) /\ U # {}
      <4>1. U \in SUBSET ToSet(s)
        OBVIOUS
      <4>2. U # {}
        <5> HIDE DEF v
        <5> QED
          BY <2>2 DEF Below, ToSet
      <4> HIDE DEF U
      <4> QED
        BY <4>1, <4>2, EndsOfNumbers, FS_Subset
    <3>2. u \in U /\ \A y \in U : y <= u
      <4> HIDE DEF U
      <4> QED
        BY <3>1, GreatestExists
    <3>3. u \in Int /\ u \in ToSet(s) /\ u < v /\ \A y \in ToSet(s) : y < v => y <= u
      <4> HIDE DEF v
      <4> QED
        BY <3>1, <3>2
    <3>4. Below(s, v) = NotAbove(s, u)
      <4>1. \A i \in DOMAIN s : s[i] \in ToSet(s) /\ s[i] \in Int
        BY EndsOfNumbers DEF ToSet
      <4>2. \A i \in DOMAIN s : s[i] < v <=> s[i] <= u
        <5> HIDE DEF v, u, U, T
        <5> QED
          BY <1>4, <3>3, <4>1
      <4> HIDE DEF v, u, U, T
      <4> QED
        BY <4>2 DEF Below, NotAbove
    <3>5. u \notin T
      <4> HIDE DEF v, u, U, T
      <4> QED
        BY <1>3, <1>4, <3>3
    <3>6. ~(Cardinality(NotAbove(s, u)) >= k)
      <4> HIDE DEF u, v, U
      <4> QED
        BY <3>3, <3>5
    <3>7. Cardinality(NotAbove(s, u)) \in Nat
      BY PartsAreFinite
    <3> HIDE DEF u, v
    <3> QED
      BY <1>0, <3>4, <3>6, <3>7
  <2> QED
    BY <2>1, <2>2
<1> HIDE DEF v
<1> QED
  BY <1>4, <1>5 DEF IsAt

LEMMA OrderedIsAt ==
    ASSUME NEW s, AreNumbers(s), NEW k \in 1 .. Size(s)
    PROVE  /\ IsAt(s, k, Ordered(s)[k]) /\ Ordered(s)[k] \in Int
           /\ Least(s) <= Ordered(s)[k] /\ Ordered(s)[k] <= Greatest(s)
<1>1. Ordered(s)[k] = CHOOSE v \in ToSet(s) : Cardinality(Below(s, v)) < k /\ Cardinality(NotAbove(s, v)) >= k
  BY DEF Ordered, Below, NotAbove
<1>2. \E v \in ToSet(s) : Cardinality(Below(s, v)) < k /\ Cardinality(NotAbove(s, v)) >= k
  BY EveryPlaceIsTaken DEF IsAt
<1>3. IsAt(s, k, Ordered(s)[k])
  BY <1>1, <1>2 DEF IsAt
<1>4. PICK i \in DOMAIN s : Ordered(s)[k] = s[i]
  BY <1>3 DEF IsAt, ToSet
<1> QED
  BY <1>3, <1>4, EndsOfNumbers

LEMMA OrderedGrows ==
    ASSUME NEW s, AreNumbers(s), NEW j \in 1 .. Size(s), NEW k \in 1 .. Size(s), j <= k
    PROVE  Ordered(s)[j] <= Ordered(s)[k]
<1>1. PICK v, w \in Int : v = Ordered(s)[j] /\ w = Ordered(s)[k] /\ IsAt(s, j, v) /\ IsAt(s, k, w)
  BY OrderedIsAt
<1>2. SUFFICES ASSUME w < v PROVE FALSE
  BY <1>1
<1>3. NotAbove(s, w) \in SUBSET Below(s, v)
  BY <1>1, <1>2, EndsOfNumbers DEF NotAbove, Below
<1>4. Cardinality(NotAbove(s, w)) <= Cardinality(Below(s, v))
  BY <1>3, PartsAreFinite, FS_Subset
<1>5. /\ Cardinality(NotAbove(s, w)) \in Nat /\ Cardinality(Below(s, v)) \in Nat
      /\ Cardinality(NotAbove(s, w)) >= k /\ Cardinality(Below(s, v)) < j /\ j \in Int /\ k \in Int
  BY <1>1, PartsAreFinite, EndsOfNumbers DEF IsAt
<1> QED
  BY <1>4, <1>5

-----------------------------------------------------------------------------
(* The two places a quartile lies between, and the quarters past the first. *)
PlacesOf(s, k, l, u, r) ==
    /\ 4 * l + r = (Size(s) - 1) * k /\ 0 <= r /\ r <= 3
    /\ 0 <= l /\ l <= u /\ u <= Size(s) - 1
    /\ u = l + 1 \/ (u = l /\ l = Size(s) - 1 /\ r = 0)

LEMMA QuartileIs ==
    ASSUME NEW s, AreNumbers(s), NEW k \in 1 .. 3
    PROVE  \E l, u, r \in Int :
              /\ PlacesOf(s, k, l, u, r)
              /\ Quartile(s, k) = 4 * Ordered(s)[l + 1] + (Ordered(s)[u + 1] - Ordered(s)[l + 1]) * r
<1>1. PICK n \in Int : n = Size(s) /\ n >= 1
  BY EndsOfNumbers
<1>2. PICK p \in Int : p = (n - 1) * k /\ p >= 0 /\ p <= 3 * (n - 1) /\ p = Position(Size(s), k)
  BY <1>1 DEF Position
<1>3. PICK l, r \in Int : l = p \div 4 /\ r = p % 4 /\ r = p - 4 * l /\ 0 <= r /\ r <= 3
  <2>1. \A q \in Int : q \div 4 \in Int /\ q % 4 \in Int /\ 0 <= q % 4 /\ q % 4 <= 3
    OBVIOUS
  <2>2. \A q \in Int : q % 4 = q - 4 * (q \div 4)
    OBVIOUS
  <2> QED
    BY <2>1, <2>2
<1>4. 0 <= l /\ l <= n - 1 /\ (l = n - 1 => r = 0)
  BY <1>1, <1>2, <1>3
<1>5. PICK u \in Int : u = Min({l + 1, n - 1}) /\ u = IF l + 1 <= n - 1 THEN l + 1 ELSE n - 1
  BY <1>1, LesserOfTwo
<1>6. PlacesOf(s, k, l, u, r)
  <2>1. 4 * l + r = (Size(s) - 1) * k
    <3>1. 4 * l + r = p
      BY <1>2, <1>3
    <3> QED
      BY <1>1, <1>2, <3>1
  <2>2. l <= u /\ u <= n - 1 /\ (u = l + 1 \/ (u = l /\ l = n - 1 /\ r = 0))
    BY <1>1, <1>4, <1>5
  <2> QED
    BY <1>1, <1>3, <1>4, <2>1, <2>2 DEF PlacesOf
<1>7. Quartile(s, k) = 4 * Ordered(s)[l + 1] + (Ordered(s)[u + 1] - Ordered(s)[l + 1]) * r
  BY <1>1, <1>2, <1>3, <1>5 DEF Quartile
<1> QED
  BY <1>6, <1>7

(* It lies between the values at the two places. *)
LEMMA QuartileLies ==
    ASSUME NEW s, AreNumbers(s), NEW k \in 1 .. 3, NEW l \in Int, NEW u \in Int, NEW r \in Int, PlacesOf(s, k, l, u, r),
           Quartile(s, k) = 4 * Ordered(s)[l + 1] + (Ordered(s)[u + 1] - Ordered(s)[l + 1]) * r
    PROVE  /\ l + 1 \in 1 .. Size(s) /\ u + 1 \in 1 .. Size(s) /\ Size(s) \in Int
           /\ Ordered(s)[l + 1] \in Int /\ Ordered(s)[u + 1] \in Int /\ Quartile(s, k) \in Int
           /\ Ordered(s)[l + 1] <= Ordered(s)[u + 1]
           /\ 4 * Ordered(s)[l + 1] <= Quartile(s, k) /\ Quartile(s, k) <= 4 * Ordered(s)[u + 1]
           /\ r = 0 => Quartile(s, k) = 4 * Ordered(s)[l + 1]
<1>1. l + 1 \in 1 .. Size(s) /\ u + 1 \in 1 .. Size(s) /\ Size(s) \in Int /\ l + 1 <= u + 1
  BY EndsOfNumbers DEF PlacesOf
<1>2. PICK a, b \in Int : a = Ordered(s)[l + 1] /\ b = Ordered(s)[u + 1] /\ a <= b
  BY <1>1, OrderedIsAt, OrderedGrows
<1>3. PICK d \in Int : d = (b - a) * r /\ d >= 0 /\ d <= 4 * (b - a) /\ (r = 0 => d = 0)
  <2>1. \A x \in Int : x >= 0 => x * 0 = 0 /\ x * 1 = x /\ x * 2 = x + x /\ x * 3 = x + x + x
    OBVIOUS
  <2>2. r = 0 \/ r = 1 \/ r = 2 \/ r = 3
    BY DEF PlacesOf
  <2>3. b - a \in Int /\ b - a >= 0
    BY <1>2
  <2>4. \A x \in Int : x >= 0 => /\ x * r \in Int /\ x * r >= 0 /\ x * r <= 4 * x
                                 /\ r = 0 => x * r = 0
    BY <2>1, <2>2
  <2> QED
    BY <2>3, <2>4
<1>4. Quartile(s, k) = 4 * a + d
  BY <1>2, <1>3
<1> QED
  BY <1>1, <1>2, <1>3, <1>4

(* Enough values are at or below a quartile, and enough at or above it. *)
LEMMA QuartileDivides ==
    ASSUME NEW s, AreNumbers(s), NEW k \in 1 .. 3
    PROVE  /\ 4 * Cardinality({i \in DOMAIN s : 4 * s[i] <= Quartile(s, k)}) >= (Size(s) - 1) * k
           /\ 4 * Cardinality({i \in DOMAIN s : 4 * s[i] >= Quartile(s, k)}) >= (Size(s) - 1) * (4 - k)
           /\ 4 * Least(s) <= Quartile(s, k) /\ Quartile(s, k) <= 4 * Greatest(s) /\ Quartile(s, k) \in Int
<1>1. PICK l, u, r \in Int :
         /\ PlacesOf(s, k, l, u, r)
         /\ Quartile(s, k) = 4 * Ordered(s)[l + 1] + (Ordered(s)[u + 1] - Ordered(s)[l + 1]) * r
  BY QuartileIs
<1>2. PICK n, a, b, q \in Int :
         /\ n = Size(s) /\ a = Ordered(s)[l + 1] /\ b = Ordered(s)[u + 1] /\ q = Quartile(s, k)
         /\ l + 1 \in 1 .. n /\ u + 1 \in 1 .. n
         /\ a <= b /\ 4 * a <= q /\ q <= 4 * b /\ (r = 0 => q = 4 * a)
  <2> DEFINE a == Ordered(s)[l + 1]
             b == Ordered(s)[u + 1]
             q == Quartile(s, k)
  <2>1. /\ l + 1 \in 1 .. Size(s) /\ u + 1 \in 1 .. Size(s) /\ Size(s) \in Int
        /\ a \in Int /\ b \in Int /\ q \in Int
        /\ a <= b /\ 4 * a <= q /\ q <= 4 * b /\ (r = 0 => q = 4 * a)
    BY <1>1, QuartileLies
  <2>2. Size(s) \in Int /\ a \in Int /\ b \in Int /\ q \in Int
    BY <2>1
  <2> USE <2>2
  <2> WITNESS Size(s) \in Int, a \in Int, b \in Int, q \in Int
  <2> QED
    BY <2>1
<1>3. /\ IsAt(s, l + 1, a) /\ IsAt(s, u + 1, b)
      /\ Least(s) <= a /\ b <= Greatest(s) /\ Least(s) \in Int /\ Greatest(s) \in Int
  BY <1>2, OrderedIsAt, EndsOfNumbers
<1>4. 4 * l + r = (n - 1) * k /\ 0 <= r /\ r <= 3 /\ (u = l + 1 \/ (u = l /\ r = 0))
  BY <1>1, <1>2 DEF PlacesOf
<1> DEFINE low == {i \in DOMAIN s : 4 * s[i] <= q}
           high == {i \in DOMAIN s : 4 * s[i] >= q}
<1>5. /\ IsFiniteSet(low) /\ Cardinality(low) \in Nat /\ IsFiniteSet(high) /\ Cardinality(high) \in Nat
      /\ Cardinality(DOMAIN s) = n
  BY <1>2, FS_Subset, FS_CardinalityType DEF AreNumbers, Size
<1>6. \A i \in DOMAIN s : s[i] \in Int
  BY EndsOfNumbers
<1>7. Cardinality(low) >= l + 1
  <2>1. NotAbove(s, a) \in SUBSET low
    BY <1>2, <1>6 DEF NotAbove
  <2>2. Cardinality(NotAbove(s, a)) <= Cardinality(low)
    <3> HIDE DEF low
    <3> QED
      BY <1>5, <2>1, FS_Subset
  <2>3. Cardinality(NotAbove(s, a)) >= l + 1 /\ Cardinality(NotAbove(s, a)) \in Nat
    BY <1>3, PartsAreFinite DEF IsAt
  <2> HIDE DEF low
  <2> QED
    BY <1>5, <2>2, <2>3
<1>8. ASSUME NEW v \in Int, NEW j \in Int, IsAt(s, j, v), 4 * v >= q
      PROVE  Cardinality(high) >= n - j + 1
  <2>1. DOMAIN s \ Below(s, v) \in SUBSET high
    BY <1>2, <1>6, <1>8 DEF Below
  <2>2. Cardinality(DOMAIN s \ Below(s, v)) = n - Cardinality(Below(s, v))
    <3>1. DOMAIN s \cap Below(s, v) = Below(s, v)
      BY DEF Below
    <3>2. Cardinality(DOMAIN s \ Below(s, v)) = Cardinality(DOMAIN s) - Cardinality(DOMAIN s \cap Below(s, v))
      BY FS_Difference DEF AreNumbers
    <3> QED
      BY <1>5, <3>1, <3>2
  <2>3. Cardinality(DOMAIN s \ Below(s, v)) <= Cardinality(high)
    <3> HIDE DEF high
    <3> QED
      BY <1>5, <2>1, FS_Subset
  <2>4. Cardinality(Below(s, v)) < j /\ Cardinality(Below(s, v)) \in Nat
    BY <1>8, PartsAreFinite DEF IsAt
  <2> HIDE DEF high
  <2> QED
    BY <1>5, <2>2, <2>3, <2>4
<1>9. Cardinality(high) >= n - l - 1
  <2>1. CASE r = 0
    <3>1. Cardinality(high) >= n - (l + 1) + 1
      <4> HIDE DEF high
      <4> QED
        BY <1>2, <1>3, <1>8, <2>1
    <3> HIDE DEF high
    <3> QED
      BY <1>5, <3>1
  <2>2. CASE r # 0
    <3>1. Cardinality(high) >= n - (u + 1) + 1
      <4> HIDE DEF high
      <4> QED
        BY <1>2, <1>3, <1>8
    <3> HIDE DEF high
    <3> QED
      BY <1>4, <1>5, <2>2, <3>1
  <2> QED
    BY <2>1, <2>2
<1>10. 4 * Cardinality(low) >= (n - 1) * k
  <2> HIDE DEF low
  <2> QED
    BY <1>4, <1>5, <1>7
<1>11. 4 * Cardinality(high) >= (n - 1) * (4 - k)
  <2>1. (n - 1) * (4 - k) = 4 * (n - 1) - (n - 1) * k
    OBVIOUS
  <2> HIDE DEF high
  <2> QED
    BY <1>4, <1>5, <1>9, <2>1
<1>12. 4 * Least(s) <= q /\ q <= 4 * Greatest(s)
  BY <1>2, <1>3
<1> QED
  BY <1>2, <1>10, <1>11, <1>12

(* Quartiles come in order. *)
LEMMA QuartilesInOrder ==
    ASSUME NEW s, AreNumbers(s), NEW k \in 1 .. 2
    PROVE  Quartile(s, k) <= Quartile(s, k + 1)
<1>1. k \in 1 .. 3 /\ k + 1 \in 1 .. 3 /\ k \in Int
  OBVIOUS
<1>2. PICK l, u, r \in Int :
         /\ PlacesOf(s, k, l, u, r)
         /\ Quartile(s, k) = 4 * Ordered(s)[l + 1] + (Ordered(s)[u + 1] - Ordered(s)[l + 1]) * r
  BY <1>1, QuartileIs
<1>3. PICK m, w, t \in Int :
         /\ PlacesOf(s, k + 1, m, w, t)
         /\ Quartile(s, k + 1) = 4 * Ordered(s)[m + 1] + (Ordered(s)[w + 1] - Ordered(s)[m + 1]) * t
  BY <1>1, QuartileIs
<1>4. PICK n \in Int : n = Size(s) /\ n >= 1
  BY EndsOfNumbers
<1>5. /\ l + 1 \in 1 .. n /\ u + 1 \in 1 .. n /\ Quartile(s, k) \in Int
      /\ Ordered(s)[l + 1] \in Int /\ Ordered(s)[u + 1] \in Int
      /\ Ordered(s)[l + 1] <= Ordered(s)[u + 1] /\ Quartile(s, k) <= 4 * Ordered(s)[u + 1]
  BY <1>1, <1>2, <1>4, QuartileLies
<1>6. /\ m + 1 \in 1 .. n /\ w + 1 \in 1 .. n /\ Quartile(s, k + 1) \in Int
      /\ Ordered(s)[m + 1] \in Int /\ Ordered(s)[w + 1] \in Int /\ 4 * Ordered(s)[m + 1] <= Quartile(s, k + 1)
  BY <1>1, <1>3, <1>4, QuartileLies
<1>7. 4 * l + r <= 4 * m + t /\ 0 <= r /\ r <= 3 /\ 0 <= t /\ t <= 3
  <2>1. (n - 1) * (k + 1) = (n - 1) * k + (n - 1)
    BY <1>1
  <2>2. (n - 1) * k \in Int
    BY <1>1
  <2> QED
    BY <1>2, <1>3, <1>4, <2>1, <2>2 DEF PlacesOf
<1>8. CASE l < m
  <2>1. u + 1 <= m + 1
    BY <1>2, <1>8 DEF PlacesOf
  <2>2. Ordered(s)[u + 1] <= Ordered(s)[m + 1]
    BY <1>4, <1>5, <1>6, <2>1, OrderedGrows
  <2> QED
    BY <1>5, <1>6, <2>2
<1>9. CASE ~(l < m)
  <2>1. m = l /\ r <= t
    BY <1>7, <1>9
  <2>2. w = u
    BY <1>2, <1>3, <1>4, <1>5, <1>6, <2>1 DEF PlacesOf
  <2>3. PICK a, d \in Int : a = Ordered(s)[l + 1] /\ d = Ordered(s)[u + 1] - Ordered(s)[l + 1] /\ d >= 0
    BY <1>5
  <2>4. Quartile(s, k) = 4 * a + d * r /\ Quartile(s, k + 1) = 4 * a + d * t
    BY <1>2, <1>3, <2>1, <2>2, <2>3
  <2>5. \A x, y, z \in Int : z >= 0 /\ x <= y => z * x <= z * y
    OBVIOUS
  <2>6. d * r <= d * t /\ d * r \in Int /\ d * t \in Int
    BY <2>1, <2>3, <2>5
  <2> QED
    BY <2>3, <2>4, <2>6
<1> QED
  BY <1>8, <1>9

LEMMA QuartilesAlwaysBracket ==
    ASSUME NEW s, AreNumbers(s)
    PROVE  QuartilesBracket(s)
<1>1. /\ Quartile(s, 1) \in Int /\ Quartile(s, 2) \in Int /\ Quartile(s, 3) \in Int
      /\ Quartile(s, 1) <= Quartile(s, 2) /\ Quartile(s, 2) <= Quartile(s, 3)
  <2>1. Quartile(s, 1) \in Int /\ Quartile(s, 2) \in Int /\ Quartile(s, 3) \in Int
    <3>1. \A k \in 1 .. 3 : Quartile(s, k) \in Int
      BY QuartileDivides
    <3>2. 1 \in 1 .. 3 /\ 2 \in 1 .. 3 /\ 3 \in 1 .. 3
      OBVIOUS
    <3> QED
      BY <3>1, <3>2
  <2>2. Quartile(s, 1) <= Quartile(s, 1 + 1) /\ Quartile(s, 2) <= Quartile(s, 2 + 1)
    BY QuartilesInOrder
  <2> QED
    BY <2>1, <2>2
<1>2. ASSUME NEW i \in Outliers(s) PROVE 4 * s[i] < Quartile(s, 1) \/ 4 * s[i] > Quartile(s, 3)
  <2>1. s[i] \in Int /\ i \in DOMAIN s
    BY EndsOfNumbers DEF Outliers
  <2>2. \/ 8 * s[i] < 2 * Quartile(s, 1) - 3 * (Quartile(s, 3) - Quartile(s, 1))
        \/ 8 * s[i] > 2 * Quartile(s, 3) + 3 * (Quartile(s, 3) - Quartile(s, 1))
    BY DEF Outliers
  <2> QED
    BY <1>1, <2>1, <2>2
<1>3. \A k \in 1 .. 3 : k > 1 => Quartile(s, k - 1) <= Quartile(s, k)
  <2>1. \A k \in 1 .. 3 : k > 1 => (k = 2 /\ k - 1 = 1) \/ (k = 3 /\ k - 1 = 2)
    OBVIOUS
  <2> QED
    BY <1>1, <2>1
<1> QED
  BY <1>2, <1>3, QuartileDivides DEF QuartilesBracket

-----------------------------------------------------------------------------
(* The order of the top values: a strict order in which any two of a       *)
(* column's values are told apart.                                         *)
LEMMA ValuesAreTexts ==
    ASSUME TableInv, NEW c \in Columns, NEW v \in Distinct(c)
    PROVE  /\ Kind(v) \in {"finite", "nonfinite", "word"} /\ Rank(v) \in Int
           /\ Kind(v) = "finite" => Amount(v) \in Int
           /\ \E i \in NonNull(c) : rows[i][c] = v
<1>1. PICK i \in NonNull(c) : rows[i][c] = v
  BY DEF Distinct
<1>2. i \in 1 .. Len(rows) /\ rows[i][c] # NULL
  BY DEF NonNull
<1>3. rows[i] \in RowSet
  BY <1>2 DEF TableInv
<1>4. PICK row \in FileRows : /\ Len(row) = Len(Headers)
                              /\ rows[i] = [d \in Columns |-> IF row[d] = Empty THEN NULL ELSE row[d]]
  BY <1>3 DEF RowSet
<1>5. rows[i][c] = row[c] /\ row[c] # Empty
  BY <1>2, <1>4
<1>6. c \in 1 .. Len(Headers) /\ c <= Len(row)
  BY <1>4, ProfileAssumption DEF Columns
<1>7. /\ Kind(row[c]) \in {"finite", "nonfinite", "word"}
      /\ Kind(row[c]) = "finite" => Amount(row[c]) \in Int
      /\ Rank(row[c]) \in Int
  BY <1>5, <1>6, ProfileAssumption
<1> QED
  BY <1>1, <1>5, <1>7

\* v is first in a row where x is first only if it is x.
LEMMA FirstsDiffer ==
    ASSUME TableInv, NEW c, NEW v \in Distinct(c)
    PROVE  FirstAt(c, v) \in Int /\ rows[FirstAt(c, v)][c] = v
<1> DEFINE S == {i \in 1 .. Len(rows) : rows[i][c] = v}
<1>1. Len(rows) \in Nat /\ IsFiniteSet(1 .. Len(rows))
  BY FS_Interval DEF TableInv
<1>2. S \in SUBSET Int /\ S # {}
  BY DEF Distinct, NonNull
<1>3. IsFiniteSet(S)
  <2>1. S \in SUBSET (1 .. Len(rows))
    OBVIOUS
  <2> HIDE DEF S
  <2> QED
    BY <1>1, <2>1, FS_Subset
<1>4. Min(S) \in S
  <2> HIDE DEF S
  <2> QED
    BY <1>2, <1>3, LeastExists
<1> QED
  BY <1>4 DEF FirstAt

LEMMA KeysAreNumbers ==
    ASSUME TableInv, NEW c \in Columns, NEW v \in Distinct(c)
    PROVE  /\ SortKey(v)[1] \in Int /\ SortKey(v)[2] \in Int /\ SortKey(v) = <<SortKey(v)[1], SortKey(v)[2]>>
           /\ CountOf(c, v) \in Int
<1>1. \E a, b \in Int : SortKey(v) = <<a, b>>
  <2>1. CASE Kind(v) = "finite"
    <3>1. SortKey(v) = <<0, Amount(v)>>
      BY <2>1 DEF SortKey
    <3> QED
      BY <2>1, <3>1, ValuesAreTexts
  <2>2. CASE Kind(v) # "finite" /\ Stamp(v) # "none"
    <3>1. SortKey(v) = <<1, Rank(v)>>
      BY <2>2 DEF SortKey
    <3> QED
      BY <3>1, ValuesAreTexts
  <2>3. CASE Kind(v) # "finite" /\ Stamp(v) = "none"
    <3>1. SortKey(v) = <<2, Rank(v)>>
      BY <2>3 DEF SortKey
    <3> QED
      BY <3>1, ValuesAreTexts
  <2> QED
    BY <2>1, <2>2, <2>3
<1>2. CountOf(c, v) \in Int
  <2>1. {i \in NonNull(c) : rows[i][c] = v} \in SUBSET NonNull(c)
    OBVIOUS
  <2>2. Cardinality({i \in NonNull(c) : rows[i][c] = v}) \in Nat
    BY <2>1, NoNulls, FS_Subset, FS_CardinalityType
  <2> QED
    BY <2>2 DEF CountOf
<1> QED
  BY <1>1, <1>2

LEMMA BeforeIsOrder ==
    ASSUME TableInv, NEW c \in Columns, NEW v \in Distinct(c), NEW x \in Distinct(c)
    PROVE  /\ ~Before(c, v, v)
           /\ v # x => Before(c, v, x) \/ Before(c, x, v)
           /\ \A y \in Distinct(c) : Before(c, v, x) /\ Before(c, x, y) => Before(c, v, y)
<1>1. \A y, z \in Distinct(c) : SortKey(y) = SortKey(z) <=> SortKey(y)[1] = SortKey(z)[1] /\ SortKey(y)[2] = SortKey(z)[2]
  <2>1. \A y \in Distinct(c) : SortKey(y) = <<SortKey(y)[1], SortKey(y)[2]>>
    BY KeysAreNumbers
  <2> QED
    BY <2>1
<1>2. \A y, z \in Distinct(c) :
         Before(c, y, z) <=> \/ CountOf(c, y) > CountOf(c, z)
                             \/ /\ CountOf(c, y) = CountOf(c, z)
                                /\ \/ SortKey(y)[1] < SortKey(z)[1]
                                   \/ SortKey(y)[1] = SortKey(z)[1] /\ SortKey(y)[2] < SortKey(z)[2]
                                   \/ /\ SortKey(y)[1] = SortKey(z)[1] /\ SortKey(y)[2] = SortKey(z)[2]
                                      /\ FirstAt(c, y) < FirstAt(c, z)
  BY <1>1 DEF Before, KeyBefore
<1>3. \A y \in Distinct(c) : /\ CountOf(c, y) \in Int /\ SortKey(y)[1] \in Int /\ SortKey(y)[2] \in Int
                             /\ FirstAt(c, y) \in Int
  BY KeysAreNumbers, FirstsDiffer
<1>4. \A y, z \in Distinct(c) : FirstAt(c, y) = FirstAt(c, z) => y = z
  BY FirstsDiffer
<1>5. ~Before(c, v, v)
  BY <1>2, <1>3
<1>6. v # x => Before(c, v, x) \/ Before(c, x, v)
  BY <1>2, <1>3, <1>4
<1>7. ASSUME NEW y \in Distinct(c), Before(c, v, x), Before(c, x, y) PROVE Before(c, v, y)
  BY <1>2, <1>3, <1>7
<1> QED
  BY <1>5, <1>6, <1>7

Ahead(c, v) == {x \in Distinct(c) : Before(c, x, v)}

LEMMA DistinctIsFinite ==
    ASSUME TableInv, NEW c
    PROVE  /\ IsFiniteSet(Distinct(c)) /\ Cardinality(Distinct(c)) \in Nat
           /\ \A v : IsFiniteSet(Ahead(c, v)) /\ Cardinality(Ahead(c, v)) \in Nat
<1>1. IsFiniteSet(Distinct(c))
  <2> DEFINE f == [i \in NonNull(c) |-> rows[i][c]]
  <2>1. f \in Surjection(NonNull(c), Distinct(c))
    BY DEF Surjection, Distinct
  <2> QED
    BY <2>1, NoNulls, FS_Surjection
<1>2. \A v : Ahead(c, v) \in SUBSET Distinct(c)
  BY DEF Ahead
<1> QED
  BY <1>1, <1>2, FS_Subset, FS_CardinalityType

(* Places are the numbers from 1, each taken by one value. *)
LEMMA PlacesAreNumbers ==
    ASSUME TableInv, NEW c \in Columns, NEW v \in Distinct(c)
    PROVE  /\ Place(c, v) = 1 + Cardinality(Ahead(c, v))
           /\ Place(c, v) \in 1 .. Cardinality(Distinct(c))
<1>1. Place(c, v) = 1 + Cardinality(Ahead(c, v))
  BY DEF Place, Ahead
<1>2. Ahead(c, v) \in SUBSET Distinct(c) /\ Ahead(c, v) # Distinct(c)
  <2>1. v \notin Ahead(c, v)
    BY BeforeIsOrder DEF Ahead
  <2> QED
    BY <2>1 DEF Ahead
<1>3. Cardinality(Ahead(c, v)) <= Cardinality(Distinct(c)) /\ Cardinality(Ahead(c, v)) # Cardinality(Distinct(c))
  BY <1>2, DistinctIsFinite, FS_Subset
<1>4. Cardinality(Ahead(c, v)) \in Nat /\ Cardinality(Distinct(c)) \in Nat
  BY DistinctIsFinite
<1> QED
  BY <1>1, <1>3, <1>4

LEMMA BeforeInPlace ==
    ASSUME TableInv, NEW c \in Columns, NEW v \in Distinct(c), NEW x \in Distinct(c), Before(c, v, x)
    PROVE  Place(c, v) < Place(c, x)
<1>1. Ahead(c, v) \in SUBSET Ahead(c, x)
  BY BeforeIsOrder DEF Ahead
<1>2. v \in Ahead(c, x) /\ v \notin Ahead(c, v)
  BY BeforeIsOrder DEF Ahead
<1>3. Cardinality(Ahead(c, v)) <= Cardinality(Ahead(c, x)) /\ Cardinality(Ahead(c, v)) # Cardinality(Ahead(c, x))
  BY <1>1, <1>2, DistinctIsFinite, FS_Subset
<1>4. Cardinality(Ahead(c, v)) \in Nat /\ Cardinality(Ahead(c, x)) \in Nat
  BY DistinctIsFinite
<1> QED
  BY <1>3, <1>4, PlacesAreNumbers

LEMMA PlacesAreTaken ==
    ASSUME TableInv, NEW c \in Columns
    PROVE  /\ \A v, x \in Distinct(c) : Place(c, v) = Place(c, x) => v = x
           /\ \A i \in 1 .. Cardinality(Distinct(c)) : \E v \in Distinct(c) : Place(c, v) = i
<1>1. \A v, x \in Distinct(c) : Place(c, v) = Place(c, x) => v = x
  <2>1. ASSUME NEW v \in Distinct(c), NEW x \in Distinct(c), Place(c, v) = Place(c, x), v # x PROVE FALSE
    <3>1. Place(c, v) < Place(c, x) \/ Place(c, x) < Place(c, v)
      BY <2>1, BeforeIsOrder, BeforeInPlace
    <3>2. Place(c, v) \in Int
      BY PlacesAreNumbers
    <3> QED
      BY <2>1, <3>1, <3>2
  <2> QED
    BY <2>1
<1> DEFINE N == Cardinality(Distinct(c))
           place == [v \in Distinct(c) |-> Place(c, v)]
<1>2. N \in Nat /\ IsFiniteSet(1 .. N) /\ Cardinality(1 .. N) = N
  <2>1. N \in Nat
    BY DistinctIsFinite
  <2> HIDE DEF N
  <2> QED
    BY <2>1, FS_Interval
<1>3. place \in Injection(Distinct(c), 1 .. N)
  BY <1>1, PlacesAreNumbers DEF Injection, IsInjective
<1>4. place \in Surjection(Distinct(c), 1 .. N)
  <2>1. Cardinality(Distinct(c)) = Cardinality(1 .. N)
    BY <1>2
  <2> HIDE DEF place, N
  <2> QED
    BY <1>2, <1>3, <2>1, FS_Injection
<1>5. ASSUME NEW i \in 1 .. N PROVE \E v \in Distinct(c) : Place(c, v) = i
  BY <1>4 DEF Surjection
<1> QED
  BY <1>1, <1>5

(* The counts of the top values and of OTHER add up, OTHER is none only if *)
(* every value is named, and no value left out is more frequent.           *)
LEMMA TopValuesAreAlwaysTop ==
    ASSUME TableInv, NEW c \in Columns
    PROVE  TopValuesAreTop(c)
<1> DEFINE N == Cardinality(Distinct(c))
           D == NonNull(c)
           value(i) == CHOOSE v \in Distinct(c) : Place(c, v) = i
           others == {v \in Distinct(c) : Place(c, v) > TopLimit}
           rest == [v \in others |-> CountOf(c, v)]
<1>1. PICK K \in Int : /\ K = Min({TopLimit, N}) /\ K >= 0
                       /\ \A i \in Int : i <= K <=> i <= TopLimit /\ i <= N
  <2>1. TopLimit \in Nat /\ N \in Nat
    BY ProfileAssumption, DistinctIsFinite
  <2> HIDE DEF N
  <2> QED
    BY <2>1, LesserOfTwo
<1>0. \A v \in Distinct(c) : Place(c, v) \in Int /\ (Place(c, v) \in 1 .. K <=> ~(Place(c, v) > TopLimit))
  <2>1. TopLimit \in Int /\ N \in Int
    BY ProfileAssumption, DistinctIsFinite
  <2>2. \A p \in Int : p \in 1 .. N => (p \in 1 .. K <=> ~(p > TopLimit))
    <3> HIDE DEF N
    <3> QED
      BY <1>1, <2>1
  <2>3. \A v \in Distinct(c) : Place(c, v) \in 1 .. N
    BY PlacesAreNumbers
  <2>4. \A p \in 1 .. N : p \in Int
    <3> HIDE DEF N
    <3> QED
      BY <2>1
  <2> HIDE DEF N
  <2> QED
    BY <2>2, <2>3, <2>4
<1> DEFINE top == [i \in 1 .. K |-> [value |-> value(i), count |-> CountOf(c, value(i))]]
           counts == [i \in 1 .. K |-> CountOf(c, value(i))]
           named == {value(i) : i \in 1 .. K}
<1>2. TopValues(c) = [top |-> top, other |-> Total(rest)]
  BY <1>1 DEF TopValues
<1>3. \A i \in 1 .. K : value(i) \in Distinct(c) /\ Place(c, value(i)) = i
  <2>1. \A i \in 1 .. K : i \in 1 .. N
    <3>1. \A i \in 1 .. K : i <= N
      BY <1>1
    <3> QED
      BY <3>1, DistinctIsFinite
  <2>2. \A i \in 1 .. K : \E v \in Distinct(c) : Place(c, v) = i
    BY <2>1, PlacesAreTaken
  <2> QED
    BY <2>2
<1> HIDE DEF value
<1>4. IsFiniteSet(D) /\ IsFiniteSet(1 .. K) /\ IsFiniteSet(others)
  <2>1. others \in SUBSET Distinct(c)
    OBVIOUS
  <2>2. IsFiniteSet(1 .. K)
    BY FS_Interval
  <2> HIDE DEF others
  <2> QED
    BY <2>1, <2>2, NoNulls, DistinctIsFinite, FS_Subset
<1>5. \A d \in D : /\ rows[d][c] \in Distinct(c) /\ Place(c, rows[d][c]) \in Int
                   /\ Place(c, rows[d][c]) >= 1 /\ Place(c, rows[d][c]) <= N
  <2>1. \A d \in D : rows[d][c] \in Distinct(c)
    BY DEF Distinct
  <2> QED
    BY <2>1, PlacesAreNumbers, DistinctIsFinite
<1> DEFINE place == [d \in D |-> Place(c, rows[d][c])]
           cell == [d \in D |-> rows[d][c]]
<1>6. Sum(counts, 1 .. K) = Cardinality(Into(D, place, 1 .. K))
  <2>1. \A i \in 1 .. K : counts[i] = Cardinality({d \in D : place[d] = i})
    <3>1. ASSUME NEW i \in 1 .. K PROVE {d \in D : rows[d][c] = value(i)} = {d \in D : place[d] = i}
      BY <1>3, <1>5, PlacesAreTaken
    <3> QED
      BY <3>1 DEF CountOf
  <2> HIDE DEF counts, place, D
  <2> QED
    BY <1>4, <2>1, SumOfFibers
<1>7. Sum(rest, others) = Cardinality(Into(D, cell, others))
  <2>1. \A v \in others : rest[v] = Cardinality({d \in D : cell[d] = v})
    <3>1. ASSUME NEW v \in others PROVE {d \in D : rows[d][c] = v} = {d \in D : cell[d] = v}
      OBVIOUS
    <3> QED
      BY <3>1 DEF CountOf
  <2> HIDE DEF rest, cell, D, others
  <2> QED
    BY <1>4, <2>1, SumOfFibers
<1>8. \A d \in D : Place(c, rows[d][c]) \in 1 .. K <=> rows[d][c] \notin others
  BY <1>0, <1>5
<1>9. Into(D, place, 1 .. K) = D \ Into(D, cell, others) /\ Into(D, cell, others) \in SUBSET D
  BY <1>8 DEF Into
<1>10. /\ Cardinality(Into(D, place, 1 .. K)) + Cardinality(Into(D, cell, others)) = Cardinality(D)
       /\ IsFiniteSet(Into(D, cell, others))
  <2>1. D \cap Into(D, cell, others) = Into(D, cell, others)
    BY <1>9
  <2>2. /\ IsFiniteSet(Into(D, cell, others)) /\ Cardinality(Into(D, cell, others)) \in Nat
        /\ Cardinality(D) \in Nat
    <3> HIDE DEF D, cell, others
    <3> QED
      BY <1>4, <1>9, FS_Subset, FS_CardinalityType
  <2>3. Cardinality(Into(D, place, 1 .. K)) = Cardinality(D) - Cardinality(Into(D, cell, others))
    <3> HIDE DEF D, cell, others, place
    <3> QED
      BY <1>4, <1>9, <2>1, FS_Difference
  <2> HIDE DEF D, cell, others, place
  <2> QED
    BY <2>2, <2>3
<1>11. Total(counts) = Sum(counts, 1 .. K) /\ Total(rest) = Sum(rest, others)
  <2>1. DOMAIN counts = 1 .. K /\ DOMAIN rest = others
    OBVIOUS
  <2> HIDE DEF counts, rest, others
  <2> QED
    BY <2>1, TotalIsSum
<1>12. Total(counts) + Total(rest) = Cardinality(NonNull(c))
  BY <1>6, <1>7, <1>10, <1>11
<1>13. named = Distinct(c) \ others
  <2>1. ASSUME NEW v \in named PROVE v \in Distinct(c) \ others
    <3>1. PICK i \in 1 .. K : v = value(i)
      OBVIOUS
    <3>2. v \in Distinct(c) /\ Place(c, v) \in 1 .. K
      BY <1>3, <3>1
    <3> QED
      BY <1>0, <3>2
  <2>2. ASSUME NEW v \in Distinct(c) \ others PROVE v \in named
    <3>1. Place(c, v) \in 1 .. K
      BY <1>0
    <3>2. value(Place(c, v)) = v
      BY <1>3, <3>1, PlacesAreTaken
    <3> QED
      BY <3>1, <3>2
  <2> QED
    BY <2>1, <2>2
<1>14. Total(rest) = 0 <=> named = Distinct(c)
  <2>1. Total(rest) = 0 <=> Into(D, cell, others) = {}
    <3> HIDE DEF D, cell, others, rest
    <3> QED
      BY <1>7, <1>10, <1>11, FS_EmptySet
  <2>2. Into(D, cell, others) = {} <=> others = {}
    <3>1. ASSUME NEW v \in others PROVE \E d \in D : cell[d] = v
      BY DEF Distinct
    <3> QED
      BY <3>1 DEF Into
  <2> QED
    BY <1>13, <2>1, <2>2
<1>15. ASSUME NEW i \in 1 .. K, NEW v \in Distinct(c) \ named PROVE CountOf(c, value(i)) >= CountOf(c, v)
  <2>1. v \in Distinct(c) /\ v \notin named /\ value(i) \in Distinct(c) /\ Place(c, value(i)) = i
    BY <1>3
  <2>2. Place(c, v) \in Int /\ Place(c, v) > K
    <3>1. Place(c, v) \in Int /\ Place(c, v) >= 1 /\ Place(c, v) \notin 1 .. K
      <4>1. Place(c, v) \in 1 .. N /\ N \in Int
        BY <2>1, PlacesAreNumbers, DistinctIsFinite
      <4>2. Place(c, v) >= 1
        <5> HIDE DEF N
        <5> QED
          BY <4>1
      <4> QED
        BY <1>0, <1>13, <2>1, <4>2
    <3> QED
      BY <3>1
  <2>3. ~Before(c, v, value(i))
    <3>1. ~(Place(c, v) < Place(c, value(i)))
      BY <1>1, <2>1, <2>2
    <3> QED
      BY <2>1, <3>1, BeforeInPlace
  <2>4. ~(CountOf(c, v) > CountOf(c, value(i)))
    BY <2>3 DEF Before
  <2>5. CountOf(c, v) \in Int /\ CountOf(c, value(i)) \in Int
    BY <2>1, KeysAreNumbers
  <2> QED
    BY <2>4, <2>5
<1>16. /\ TopValues(c).top = top /\ TopValues(c).other = Total(rest) /\ Len(top) = K
       /\ [i \in 1 .. K |-> top[i].count] = counts
       /\ \A i \in 1 .. K : top[i].value = value(i) /\ top[i].count = CountOf(c, value(i))
  <2>1. TopValues(c).top = top /\ TopValues(c).other = Total(rest)
    <3> HIDE DEF top, rest
    <3> QED
      BY <1>2
  <2>2. Len(top) = K
    BY <1>1
  <2>3. \A i \in 1 .. K : top[i].value = value(i) /\ top[i].count = CountOf(c, value(i))
    OBVIOUS
  <2> QED
    BY <2>1, <2>2, <2>3
<1>17. {top[i].value : i \in 1 .. K} = named
  BY <1>16
<1> HIDE DEF top, rest, counts, named
<1> QED
  BY <1>12, <1>14, <1>15, <1>16, <1>17 DEF TopValuesAreTop

-----------------------------------------------------------------------------
(* Correlations.  The variances and the covariance of two columns are      *)
(* spreads over the rows they have in common.                              *)
LEMMA PairsAreNumbers ==
    ASSUME TableInv, NEW a \in Columns, NEW b \in Columns
    PROVE  /\ IsFiniteSet(PairRows(a, b)) /\ PairRows(a, b) = PairRows(b, a)
           /\ \A i \in PairRows(a, b) : At(i, a) \in Int /\ At(i, b) \in Int
           /\ IntegersOn(Amounts(a, b, a), PairRows(a, b)) /\ IntegersOn(Amounts(a, b, b), PairRows(a, b))
<1>1. PairRows(a, b) \in SUBSET OfKind(a, "finite") /\ PairRows(a, b) = PairRows(b, a)
  BY DEF PairRows
<1>2. IsFiniteSet(PairRows(a, b))
  BY <1>1, CountsNone, FS_Subset
<1>3. \A i \in PairRows(a, b) : At(i, a) \in Int /\ At(i, b) \in Int
  BY CellKinds DEF PairRows, OfKind, At
<1> QED
  BY <1>1, <1>2, <1>3 DEF Amounts, IntegersOn

LEMMA VarianceIsSpread ==
    ASSUME NEW a, NEW b, PairRows(a, b) = PairRows(b, a)
    PROVE  /\ Variance(a, b) = Spread(Amounts(a, b, a), Products(a, b, a, a), PairRows(a, b))
           /\ Variance(b, a) = Spread(Amounts(a, b, b), Products(a, b, b, b), PairRows(a, b))
           /\ Covariance(a, b) = Cardinality(PairRows(a, b)) * Sum(Products(a, b, a, b), PairRows(a, b))
                                 - Sum(Amounts(a, b, a), PairRows(a, b)) * Sum(Amounts(a, b, b), PairRows(a, b))
           /\ Squares(Products(a, b, a, a), Amounts(a, b, a), PairRows(a, b))
           /\ Squares(Products(a, b, b, b), Amounts(a, b, b), PairRows(a, b))
           /\ \A i \in PairRows(a, b) : Products(a, b, a, b)[i] = Amounts(a, b, a)[i] * Amounts(a, b, b)[i]
<1>1. \A x, y : /\ Total(Products(a, b, x, y)) = Sum(Products(a, b, x, y), PairRows(a, b))
                /\ Total(Amounts(a, b, x)) = Sum(Amounts(a, b, x), PairRows(a, b))
  <2>1. \A x, y : DOMAIN Products(a, b, x, y) = PairRows(a, b) /\ DOMAIN Amounts(a, b, x) = PairRows(a, b)
    BY DEF Products, Amounts
  <2>2. \A x, y : /\ Total(Products(a, b, x, y)) = Sum(Products(a, b, x, y), DOMAIN Products(a, b, x, y))
                  /\ Total(Amounts(a, b, x)) = Sum(Amounts(a, b, x), DOMAIN Amounts(a, b, x))
    BY TotalIsSum
  <2> QED
    BY <2>1, <2>2
<1>2. Products(b, a, b, b) = Products(a, b, b, b) /\ Amounts(b, a, b) = Amounts(a, b, b)
  BY DEF Products, Amounts
<1>3. /\ Variance(a, b) = Spread(Amounts(a, b, a), Products(a, b, a, a), PairRows(a, b))
      /\ Variance(b, a) = Spread(Amounts(a, b, b), Products(a, b, b, b), PairRows(a, b))
  BY <1>1, <1>2 DEF Variance, Spread
<1>4. Covariance(a, b) = Cardinality(PairRows(a, b)) * Sum(Products(a, b, a, b), PairRows(a, b))
                         - Sum(Amounts(a, b, a), PairRows(a, b)) * Sum(Amounts(a, b, b), PairRows(a, b))
  BY <1>1 DEF Covariance
<1>5. /\ Squares(Products(a, b, a, a), Amounts(a, b, a), PairRows(a, b))
      /\ Squares(Products(a, b, b, b), Amounts(a, b, b), PairRows(a, b))
      /\ \A i \in PairRows(a, b) : Products(a, b, a, b)[i] = Amounts(a, b, a)[i] * Amounts(a, b, b)[i]
  BY DEF Squares, Products, Amounts
<1> QED
  BY <1>3, <1>4, <1>5

(* Numbers that vary are not all the same. *)
LEMMA TwoAreDifferent ==
    ASSUME NEW a, NEW b, Varies(a, b)
    PROVE  \E i, j \in PairRows(a, b) : At(i, a) # At(j, a)
<1> DEFINE S == {At(i, a) : i \in PairRows(a, b)}
<1>1. SUFFICES ASSUME \A i, j \in PairRows(a, b) : At(i, a) = At(j, a) PROVE FALSE
  OBVIOUS
<1>2. CASE S = {}
  <2>1. Cardinality(S) = 0
    BY <1>2, FS_EmptySet
  <2> HIDE DEF S
  <2> QED
    BY <2>1 DEF Varies, S
<1>3. CASE S # {}
  <2>1. PICK i \in PairRows(a, b) : TRUE
    BY <1>3
  <2>2. S = {At(i, a)}
    BY <1>1
  <2>3. Cardinality(S) = 1
    BY <2>2, FS_Singleton
  <2> HIDE DEF S
  <2> QED
    BY <2>3 DEF Varies, S
<1> QED
  BY <1>2, <1>3

LEMMA CorrelationsAreDefined ==
    ASSUME TableInv, NEW a \in Columns, NEW b \in Columns, Correlated(a, b)
    PROVE  /\ Variance(a, b) * Variance(b, a) > 0
           /\ Covariance(a, b) * Covariance(a, b) <= Variance(a, b) * Variance(b, a)
<1> DEFINE T == PairRows(a, b)
           f == Amounts(a, b, a)
           g == Amounts(a, b, b)
           ff == Products(a, b, a, a)
           gg == Products(a, b, b, b)
           fg == Products(a, b, a, b)
<1>1. /\ IsFiniteSet(T) /\ T = PairRows(b, a) /\ IntegersOn(f, T) /\ IntegersOn(g, T)
      /\ Variance(a, b) = Spread(f, ff, T) /\ Variance(b, a) = Spread(g, gg, T)
      /\ Covariance(a, b) = Cardinality(T) * Sum(fg, T) - Sum(f, T) * Sum(g, T)
      /\ Squares(ff, f, T) /\ Squares(gg, g, T) /\ \A i \in T : fg[i] = f[i] * g[i]
  BY PairsAreNumbers, VarianceIsSpread
<1>2. (\E i, j \in T : f[i] # f[j]) /\ (\E i, j \in T : g[i] # g[j])
  <2>1. Varies(a, b) /\ Varies(b, a)
    BY DEF Correlated
  <2>2. (\E i, j \in T : At(i, a) # At(j, a)) /\ (\E i, j \in T : At(i, b) # At(j, b))
    BY <1>1, <2>1, TwoAreDifferent
  <2> QED
    BY <2>2 DEF Amounts
<1> HIDE DEF T, f, g, ff, gg, fg
<1>3. PICK v, w \in Int : v = Variance(a, b) /\ w = Variance(b, a) /\ v > 0 /\ w > 0
  BY <1>1, <1>2, SpreadIsPositive
<1>4. PICK e : e = Covariance(a, b)
  OBVIOUS
<1>5. e * e <= v * w
  BY <1>1, <1>3, <1>4, CommonIsBounded
<1>6. \A p, q \in Int : p > 0 /\ q > 0 => p * q > 0
  OBVIOUS
<1> QED
  BY <1>3, <1>4, <1>5, <1>6

-----------------------------------------------------------------------------
(* Every value is a number that is finite or not, or none. *)
LEMMA KindsAreAll ==
    ASSUME TableInv, NEW c \in Columns
    PROVE  Cardinality(NonNull(c)) = Size(Numbers(c)) + NonfiniteCount(c) + InvalidCount(c)
<1> DEFINE A == OfKind(c, "finite")
           B == OfKind(c, "nonfinite")
           C == OfKind(c, "word")
<1>1. NonNull(c) = (A \cup B) \cup C /\ (A \cup B) \cap C = {} /\ A \cap B = {}
  BY CellKinds DEF OfKind
<1>2. IsFiniteSet(A) /\ IsFiniteSet(B) /\ IsFiniteSet(C)
  BY CountsNone
<1>3. Size(Numbers(c)) = Cardinality(A) /\ NonfiniteCount(c) = Cardinality(B) /\ InvalidCount(c) = Cardinality(C)
  BY DEF Size, Numbers, NonfiniteCount, InvalidCount
<1> HIDE DEF A, B, C
<1>4. IsFiniteSet(A \cup B) /\ Cardinality(A \cup B) = Cardinality(A) + Cardinality(B)
  BY <1>1, <1>2, CountedApart
<1>5. Cardinality((A \cup B) \cup C) = Cardinality(A) + Cardinality(B) + Cardinality(C)
  BY <1>1, <1>2, <1>4, CountedApart
<1> QED
  BY <1>1, <1>3, <1>5

LEMMA ColumnsHoldNumbers ==
    ASSUME TableInv, NEW c \in Columns, OfKind(c, "finite") # {}
    PROVE  AreNumbers(Numbers(c))
<1>1. DOMAIN Numbers(c) = OfKind(c, "finite")
  BY DEF Numbers
<1>2. \A i \in OfKind(c, "finite") : Numbers(c)[i] \in Int
  BY CellKinds DEF Numbers, OfKind
<1>3. Numbers(c) = [i \in DOMAIN Numbers(c) |-> Numbers(c)[i]]
  BY DEF Numbers
<1> QED
  BY <1>1, <1>2, <1>3, CountsNone DEF AreNumbers, IntegersOn

(* The profile is exact, whatever the table.                               *)
THEOREM ProfileIsAlwaysExact == ReadSpec => []ProfileIsExact
<1>1. TableInv => ProfileIsExact
  <2> SUFFICES ASSUME TableInv, NEW c \in Columns
               PROVE  /\ Cardinality(NonNull(c)) = Size(Numbers(c)) + NonfiniteCount(c) + InvalidCount(c)
                      /\ OfKind(c, "finite") # {} => HistogramIsExact(Numbers(c)) /\ QuartilesBracket(Numbers(c))
                      /\ NonNull(c) # {} => TopValuesAreTop(c)
                      /\ \A d \in PairColumns : c \in PairColumns /\ c < d /\ Correlated(c, d) =>
                            LET square == Variance(c, d) * Variance(d, c)
                            IN  square > 0 /\ Covariance(c, d) * Covariance(c, d) <= square
    BY DEF ProfileIsExact
  <2>1. OfKind(c, "finite") # {} => HistogramIsExact(Numbers(c)) /\ QuartilesBracket(Numbers(c))
    BY ColumnsHoldNumbers, HistogramsAreExact, QuartilesAlwaysBracket
  <2>2. PairColumns \subseteq Columns
    BY DEF PairColumns
  <2> QED
    BY <2>1, <2>2, KindsAreAll, TopValuesAreAlwaysTop, CorrelationsAreDefined
<1> QED
  BY <1>1, TableIsOfRows, PTL

-----------------------------------------------------------------------------
(* Analyses. *)
LEMMA SameAsItself == \A x : Same(x, x)
BY DEF Same

(* Of a column of finite numbers, an official analysis of all rows is what *)
(* the profile answers, and drift's mean is the profile's.                 *)
LEMMA OfficialIsProfile ==
    ASSUME TableInv, NEW c \in Columns, NEW operation \in Aggregates, NonfiniteCount(c) = 0, InvalidCount(c) = 0
    PROVE  /\ ExecutePlan(operation, c, NULL, TRUE, TRUE) = ProfileAnswers(operation, c)
           /\ DriftMean(rows, c) = ProfileAnswers("mean", c)
<1>1. OfKind(c, "nonfinite") = {} /\ OfKind(c, "word") = {}
  BY CountsNone DEF NonfiniteCount, InvalidCount
<1>2. NonNull(c) = OfKind(c, "finite") /\ \A i \in NonNull(c) : Kind(rows[i][c]) = "finite"
  BY <1>1, CellKinds DEF OfKind
<1>3. Selected(TRUE, NULL) = 1 .. Len(rows) /\ Cardinality(1 .. Len(rows)) = Len(rows)
  <2>1. Len(rows) \in Nat
    BY DEF TableInv
  <2>2. Cardinality(1 .. Len(rows)) = Len(rows)
    BY <2>1, FS_Interval
  <2> QED
    BY <2>2 DEF Selected, Fitting
<1>4. Selected(TRUE, NULL) \cap NonNull(c) = NonNull(c) /\ c # NULL
  BY <1>3, AnalysisAssumption DEF NonNull
<1>5. Numbers(c) = [i \in NonNull(c) |-> Amount(rows[i][c])]
  BY <1>2 DEF Numbers
<1>6. ExecutePlan(operation, c, NULL, TRUE, TRUE) = Evaluate(Selected(TRUE, NULL), operation, c)
  BY DEF ExecutePlan
<1>7. "word" \notin {Kind(rows[i][c]) : i \in NonNull(c)} /\ "nonfinite" \notin {Kind(rows[i][c]) : i \in NonNull(c)}
  BY <1>2
<1>8. Evaluate(Selected(TRUE, NULL), operation, c) = ProfileAnswers(operation, c)
  <2>1. CASE operation = "count"
    BY <1>3, <1>4, <1>7, <2>1 DEF Evaluate, ProfileAnswers
  <2>2. CASE operation # "count" /\ NonNull(c) = {}
    BY <1>2, <1>4, <1>7, <2>2 DEF Evaluate, ProfileAnswers
  <2>3. CASE operation # "count" /\ NonNull(c) # {}
    <3> DEFINE Answer(s) == CASE operation = "sum" -> Value(Total(s), 1)
                              [] operation = "mean" -> Value(Total(s), Size(s))
                              [] operation = "min" -> Value(Least(s), 1)
                              [] operation = "max" -> Value(Greatest(s), 1)
    <3>1. ProfileAnswers(operation, c) = Answer(Numbers(c))
      BY <1>2, <2>3 DEF ProfileAnswers
    <3>2. Evaluate(Selected(TRUE, NULL), operation, c) = Answer([i \in NonNull(c) |-> Amount(rows[i][c])])
      BY <1>4, <1>7, <2>3 DEF Evaluate
    <3> HIDE DEF Answer
    <3> QED
      BY <1>5, <3>1, <3>2
  <2> QED
    BY <2>1, <2>2, <2>3
<1>9. DriftMean(rows, c) = ProfileAnswers("mean", c)
  <2>1. {i \in 1 .. Len(rows) : rows[i][c] # NULL} = NonNull(c)
    BY DEF NonNull
  <2>2. {i \in NonNull(c) : Kind(rows[i][c]) = "finite"} = OfKind(c, "finite")
    BY DEF OfKind
  <2>3. ~(\E i \in NonNull(c) : Kind(rows[i][c]) = "word")
    BY <1>2
  <2>4. CASE OfKind(c, "finite") = {}
    BY <2>1, <2>2, <2>4 DEF DriftMean, ProfileAnswers
  <2>5. CASE OfKind(c, "finite") # {}
    <3>1. DriftMean(rows, c) = Value(Total([i \in OfKind(c, "finite") |-> Amount(rows[i][c])]), Cardinality(OfKind(c, "finite")))
      BY <2>1, <2>2, <2>3, <2>5 DEF DriftMean
    <3>2. Total([i \in OfKind(c, "finite") |-> Amount(rows[i][c])]) = Total(Numbers(c)) /\ Cardinality(OfKind(c, "finite")) = Size(Numbers(c))
      BY DEF Numbers, Size
    <3>3. ProfileAnswers("mean", c) = Value(Total(Numbers(c)), Size(Numbers(c)))
      BY <2>5 DEF ProfileAnswers
    <3> QED
      BY <3>1, <3>2, <3>3
  <2> QED
    BY <2>4, <2>5
<1> QED
  BY <1>6, <1>8, <1>9

LEMMA MeansAreNumbers ==
    ASSUME TableInv, NEW c \in Columns, DriftMean(rows, c) # Refused
    PROVE  DriftMean(rows, c).num \in Int /\ DriftMean(rows, c).den \in Int
<1> DEFINE finite == OfKind(c, "finite")
           s == [i \in finite |-> Amount(rows[i][c])]
<1>1. DriftMean(rows, c) = Value(Total(s), Cardinality(finite))
  <2>1. {i \in 1 .. Len(rows) : rows[i][c] # NULL} = NonNull(c)
    BY DEF NonNull
  <2>2. {i \in NonNull(c) : Kind(rows[i][c]) = "finite"} = finite
    BY DEF OfKind
  <2> HIDE DEF finite
  <2> QED
    BY <2>1, <2>2 DEF DriftMean
<1>2. IsFiniteSet(finite) /\ IntegersOn(s, finite)
  BY CountsNone, CellKinds DEF OfKind, IntegersOn
<1>3. Total(s) = Sum(s, finite)
  <2>1. DOMAIN s = finite
    OBVIOUS
  <2> HIDE DEF s, finite
  <2> QED
    BY <2>1, TotalIsSum
<1> HIDE DEF s, finite
<1>4. Total(s) \in Int /\ Cardinality(finite) \in Int
  BY <1>2, <1>3, SumIsInt, FS_CardinalityType
<1> QED
  BY <1>1, <1>4 DEF Value

LEMMA NoDriftFromItself ==
    ASSUME TableInv, NEW c \in Columns, CompareNumeric(rows, rows, c, TRUE, TRUE).is = "value"
    PROVE  CompareNumeric(rows, rows, c, TRUE, TRUE).num = 0
<1> DEFINE b == DriftMean(rows, c)
<1>1. b # Refused /\ CompareNumeric(rows, rows, c, TRUE, TRUE) = Value(b.num * b.den - b.num * b.den, b.den * b.den)
  BY DEF CompareNumeric, Refused
<1>2. b.num \in Int /\ b.den \in Int
  BY <1>1, MeansAreNumbers
<1> HIDE DEF b
<1>3. b.num * b.den - b.num * b.den = 0
  <2>1. \A p, q \in Int : p * q - p * q = 0
    OBVIOUS
  <2> QED
    BY <1>2, <2>1
<1>4. CompareNumeric(rows, rows, c, TRUE, TRUE).num = b.num * b.den - b.num * b.den
  <2>1. \A n, d : Value(n, d).num = n
    BY DEF Value
  <2> QED
    BY <1>1, <2>1
<1> QED
  BY <1>3, <1>4

(* A preview of a table within the limit is an analysis of all its rows.   *)
LEMMA PreviewsAreOfAllRows ==
    ASSUME Len(rows) <= PreviewLimit, TableInv, NEW filter
    PROVE  Selected(FALSE, filter) = Selected(TRUE, filter)
<1>1. Len(rows) \in Int /\ PreviewLimit \in Int
  BY AnalysisAssumption DEF TableInv
<1>2. \A i \in Fitting(filter) : i \in Int /\ i <= Len(rows)
  BY DEF Fitting
<1> QED
  BY <1>1, <1>2 DEF Selected

(* Analysis, profile and drift agree, whatever the table, and nothing is   *)
(* official without approval.                                              *)
THEOREM AnalysesAlwaysAgree == ReadSpec => []AnalysesAgree
<1>1. TableInv => AnalysesAgree
  <2> SUFFICES ASSUME TableInv, NEW c \in Columns, NEW operation \in Aggregates
               PROVE  /\ NonfiniteCount(c) = 0 /\ InvalidCount(c) = 0 =>
                            /\ Same(ExecutePlan(operation, c, NULL, TRUE, TRUE), ProfileAnswers(operation, c))
                            /\ Same(DriftMean(rows, c), ProfileAnswers("mean", c))
                      /\ CompareNumeric(rows, rows, c, TRUE, TRUE).is = "value" =>
                            CompareNumeric(rows, rows, c, TRUE, TRUE).num = 0
                      /\ \A filter \in Filters :
                            /\ Len(rows) <= PreviewLimit =>
                                  Same(ExecutePlan(operation, c, filter, FALSE, FALSE),
                                       ExecutePlan(operation, c, filter, TRUE, TRUE))
                            /\ ExecutePlan(operation, c, filter, TRUE, FALSE) = Refused
    BY DEF AnalysesAgree
  <2>1. ASSUME NEW filter \in Filters
        PROVE  /\ Len(rows) <= PreviewLimit =>
                     ExecutePlan(operation, c, filter, FALSE, FALSE) = ExecutePlan(operation, c, filter, TRUE, TRUE)
               /\ ExecutePlan(operation, c, filter, TRUE, FALSE) = Refused
    BY PreviewsAreOfAllRows DEF ExecutePlan
  <2> QED
    BY <2>1, SameAsItself, OfficialIsProfile, NoDriftFromItself
<1> QED
  BY <1>1, TableIsOfRows, PTL
=============================================================================
