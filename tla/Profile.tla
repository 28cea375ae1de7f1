------------------------------- MODULE Profile -------------------------------
(***************************************************************************)
(* A table that is read row by row, and the exact profile of its columns.  *)
(* A cell is NULL or a text; what Decimal, fromisoformat and the order of  *)
(* strings make of a text is given.  Numbers are integers, and fractions   *)
(* are avoided by scaling: a quantile is given times four, a mean as a sum *)
(* and a count, moments times the number of pairs.                         *)
(***************************************************************************)
EXTENDS Integers, SequencesExt

CONSTANTS Headers,          \* names of the columns, in order
          FileRows,         \* rows a file may hold: sequences of texts
          Empty,            \* the empty text
          NULL,
          Kind(_),          \* "finite" or "nonfinite" number, or "word"
          Amount(_),        \* the number a finite text stands for
          Stamp(_),         \* "aware" or "naive" timestamp, or "none"; some numbers are both
          Rank(_),          \* the place of a text in the order of strings
          MaxRows,          \* the policy's limit
          Bins, TopLimit, MaxPairColumns    \* 20, 20 and 20 in the code

\* parse_csv_bytes refuses a file that names a column twice.
ASSUME ProfileAssumption ==
    /\ MaxRows \in Nat /\ Bins \in Nat \ {0} /\ TopLimit \in Nat
    /\ Len(Headers) \in Nat /\ \A c, d \in 1 .. Len(Headers) : Headers[c] = Headers[d] => c = d
    /\ \A row \in FileRows : \A c \in 1 .. Len(Headers) : c <= Len(row) =>
          /\ Kind(row[c]) \in {"finite", "nonfinite", "word"}
          /\ Kind(row[c]) = "finite" => Amount(row[c]) \in Int
          /\ row[c] # Empty => Rank(row[c]) \in Int

VARIABLES rows,             \* the rows read so far
          refused           \* TRUE once a row was refused, with the whole file

tablevars == <<rows, refused>>

Columns == 1 .. Len(Headers)

ReadInit == rows = <<>> /\ refused = FALSE

(* parse_csv_bytes: an empty text is NULL; a row of another width, or one  *)
(* too many, refuses the file.                                             *)
ReadRow(row) ==
    /\ ~refused
    /\ IF Len(rows) < MaxRows /\ Len(row) = Len(Headers)
       THEN /\ rows' = Append(rows, [c \in Columns |-> IF row[c] = Empty THEN NULL ELSE row[c]])
            /\ UNCHANGED refused
       ELSE refused' = TRUE /\ UNCHANGED rows

ReadNext == \E row \in FileRows : ReadRow(row)

ReadSpec == ReadInit /\ [][ReadNext]_tablevars

-----------------------------------------------------------------------------
(* Cells of a column, by their rows. *)
Cells(c) == [i \in 1 .. Len(rows) |-> rows[i][c]]
NonNull(c) == {i \in 1 .. Len(rows) : rows[i][c] # NULL}
OfKind(c, kind) == {i \in NonNull(c) : Kind(rows[i][c]) = kind}
NullCount(c) == Len(rows) - Cardinality(NonNull(c))
Distinct(c) == {rows[i][c] : i \in NonNull(c)}
CountOf(c, v) == Cardinality({i \in NonNull(c) : rows[i][c] = v})
InvalidCount(c) == Cardinality(OfKind(c, "word"))
NonfiniteCount(c) == Cardinality(OfKind(c, "nonfinite"))

\* The finite numbers of a column: a function of the rows that have one.
Numbers(c) == [i \in OfKind(c, "finite") |-> Amount(rows[i][c])]

PhysicalType(c) ==
    LET kinds == {Kind(v) : v \in Distinct(c)}
    IN  IF kinds = {} THEN "unknown"
        ELSE IF kinds = {"finite"} THEN "numeric"
        ELSE IF "word" \notin kinds THEN "numeric_nonfinite"
        ELSE IF \A v \in Distinct(c) : Stamp(v) # "none" THEN "timestamp" ELSE "string"

CandidateKey(c) == /\ rows # <<>> /\ NullCount(c) = 0
                   /\ Cardinality(Distinct(c)) = Len(rows)

DuplicateRows == Len(rows) - Cardinality(ToSet(rows))

-----------------------------------------------------------------------------
(* Statistics of numbers, a function that is not empty. *)
Size(s) == Cardinality(DOMAIN s)
Total(s) == FoldFunction(+, 0, s)
Least(s) == Min(ToSet(s))
Greatest(s) == Max(ToSet(s))

\* In order: the k-th is the one that fewer than k are below, and k or more not above.
Ordered(s) == [k \in 1 .. Size(s) |->
                 CHOOSE v \in ToSet(s) : /\ Cardinality({i \in DOMAIN s : s[i] < v}) < k
                                         /\ Cardinality({i \in DOMAIN s : s[i] <= v}) >= k]

Position(n, k) == (n - 1) * k

(* Four times the k-th quartile: interpolated between the two places next  *)
(* to its position, which is (n - 1) * k / 4.                              *)
Quartile(s, k) ==
    LET o == Ordered(s)
        lower == Position(Size(s), k) \div 4
        upper == Min({lower + 1, Size(s) - 1})
    IN  4 * o[lower + 1] + (o[upper + 1] - o[lower + 1]) * (Position(Size(s), k) % 4)

(* Strictly outside the Tukey fences. *)
Outliers(s) ==
    LET spread == Quartile(s, 3) - Quartile(s, 1)
    IN  {i \in DOMAIN s : \/ 8 * s[i] < 2 * Quartile(s, 1) - 3 * spread
                             \/ 8 * s[i] > 2 * Quartile(s, 3) + 3 * spread}

Bin_Unclamped(s, v) == ((v - Least(s)) * Bins) \div (Greatest(s) - Least(s))
Bin(s, v) == Min({((v - Least(s)) * Bins) \div (Greatest(s) - Least(s)), Bins - 1})

(* Counts of Bins intervals of equal width, or of the one value there is. *)
Histogram(s) ==
    IF Least(s) = Greatest(s) THEN <<Size(s)>>
    ELSE [b \in 1 .. Bins |-> Cardinality({i \in DOMAIN s : Bin(s, s[i]) = b - 1})]

-----------------------------------------------------------------------------
(* Top values: by count, then numbers by amount, timestamps, other texts;  *)
(* equal ones as they came.                                                *)
FirstAt(c, v) == Min({i \in 1 .. Len(rows) : rows[i][c] = v})

SortKey(v) == CASE Kind(v) = "finite" -> <<0, Amount(v)>>
                [] Kind(v) # "finite" /\ Stamp(v) # "none" -> <<1, Rank(v)>>
                [] OTHER -> <<2, Rank(v)>>

KeyBefore(j, k) == j[1] < k[1] \/ (j[1] = k[1] /\ j[2] < k[2])

Before(c, v, x) == \/ CountOf(c, v) > CountOf(c, x)
                   \/ /\ CountOf(c, v) = CountOf(c, x)
                      /\ \/ KeyBefore(SortKey(v), SortKey(x))
                         \/ SortKey(v) = SortKey(x) /\ FirstAt(c, v) < FirstAt(c, x)

Place(c, v) == 1 + Cardinality({x \in Distinct(c) : Before(c, x, v)})

(* The first TopLimit values with their counts, and the count of OTHER. *)
TopValues(c) ==
    LET value(i) == CHOOSE v \in Distinct(c) : Place(c, v) = i
        others == {v \in Distinct(c) : Place(c, v) > TopLimit}
    IN  [top |-> [i \in 1 .. Min({TopLimit, Cardinality(Distinct(c))}) |->
                    [value |-> value(i), count |-> CountOf(c, value(i))]],
         other |-> Total([v \in others |-> CountOf(c, v)])]

-----------------------------------------------------------------------------
(* Pearson correlation of two columns, over the rows where both are finite *)
(* numbers: numerator and the squares under the root, times their number.  *)
PairRows(a, b) == OfKind(a, "finite") \cap OfKind(b, "finite")
At(i, c) == Amount(rows[i][c])

Products(a, b, x, y) == [i \in PairRows(a, b) |-> At(i, x) * At(i, y)]
Amounts(a, b, x) == [i \in PairRows(a, b) |-> At(i, x)]

Covariance(a, b) == Cardinality(PairRows(a, b)) * Total(Products(a, b, a, b))
                    - Total(Amounts(a, b, a)) * Total(Amounts(a, b, b))

Variance(a, b) == Cardinality(PairRows(a, b)) * Total(Products(a, b, a, a))
                  - Total(Amounts(a, b, a)) * Total(Amounts(a, b, a))

Varies(a, b) == Cardinality({At(i, a) : i \in PairRows(a, b)}) > 1

Correlated(a, b) == Cardinality(PairRows(a, b)) >= 3 /\ Varies(a, b) /\ Varies(b, a)

(* The first columns that hold a number, each with those after it. *)
PairColumns == LET numeric == {c \in Columns : OfKind(c, "finite") # {}}
               IN  {c \in numeric : Cardinality({d \in numeric : d <= c}) <= MaxPairColumns}

-----------------------------------------------------------------------------
HistogramIsExact(s) ==
    LET h == Histogram(s)
        width == Greatest(s) - Least(s)
    IN  /\ Total(h) = Size(s)
        /\ Len(h) > 1 => \A b \in 1 .. Bins :
              h[b] = Cardinality({i \in DOMAIN s :
                        /\ Bins * (s[i] - Least(s)) >= (b - 1) * width
                        /\ \/ Bins * (s[i] - Least(s)) < b * width
                           \/ b = Bins})

\* A quartile lies where a quarter, a half, three quarters of the values are below it, and in order.
QuartilesBracket(s) ==
    \A k \in 1 .. 3 :
       LET q == Quartile(s, k)
       IN  /\ 4 * Cardinality({i \in DOMAIN s : 4 * s[i] <= q}) >= (Size(s) - 1) * k
           /\ 4 * Cardinality({i \in DOMAIN s : 4 * s[i] >= q}) >= (Size(s) - 1) * (4 - k)
           /\ 4 * Least(s) <= q /\ q <= 4 * Greatest(s)
           /\ k > 1 => Quartile(s, k - 1) <= q
           /\ \A i \in Outliers(s) : 4 * s[i] < Quartile(s, 1) \/ 4 * s[i] > Quartile(s, 3)

TopValuesAreTop(c) ==
    LET t == TopValues(c)
        named == {t.top[i].value : i \in 1 .. Len(t.top)}
    IN  /\ Total([i \in 1 .. Len(t.top) |-> t.top[i].count]) + t.other = Cardinality(NonNull(c))
        /\ t.other = 0 <=> named = Distinct(c)
        /\ \A i \in 1 .. Len(t.top) : \A v \in Distinct(c) \ named : t.top[i].count >= CountOf(c, v)

(* Every count of the profile is right, whatever the table: the bins of a  *)
(* histogram count the values between their edges, quartiles lie between   *)
(* the values they divide, top values are the most frequent and with OTHER *)
(* all there are, and a correlation that is reported is defined and between*)
(* -1 and 1.  profiling/engine.py:441, 451, 475, 347; ARCHITECTURE.md:534. *)
ProfileIsExact ==
    \A c \in Columns :
       /\ Cardinality(NonNull(c)) = Size(Numbers(c)) + NonfiniteCount(c) + InvalidCount(c)
       /\ OfKind(c, "finite") # {} => HistogramIsExact(Numbers(c)) /\ QuartilesBracket(Numbers(c))
       /\ NonNull(c) # {} => TopValuesAreTop(c)
       /\ \A d \in PairColumns : c \in PairColumns /\ c < d /\ Correlated(c, d) =>
             LET square == Variance(c, d) * Variance(d, c)
             IN  square > 0 /\ Covariance(c, d) * Covariance(c, d) <= square
=============================================================================
