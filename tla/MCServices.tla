----------------------------- MODULE MCServices -----------------------------
(* Instances of the components in Services small enough for TLC. *)
EXTENDS Services

\* Texts: a number in two spellings, one that is a date too, NaN, a word, dates with and without a zone.
KindOf(text) == CASE text \in {"1", "1.0", "3", "5", "20260101"} -> "finite"
                  [] text = "NaN" -> "nonfinite"
                  [] OTHER -> "word"

AmountOf(text) == CASE text \in {"1", "1.0"} -> 1 [] text = "3" -> 3 [] text = "5" -> 5
                    [] text = "20260101" -> 9 [] OTHER -> 0

StampOf(text) == CASE text \in {"2026-01-01", "20260101"} -> "naive"
                   [] text \in {"2026-01-02Z", "2026-01-09Z"} -> "aware"
                   [] OTHER -> "none"

TextOrder == <<"1", "1.0", "2026-01-01", "2026-01-02Z", "2026-01-09Z", "20260101", "3", "5", "NaN", "x">>
RankOf(text) == CHOOSE i \in 1 .. Len(TextOrder) : TextOrder[i] = text

AgeOf(text) == IF text = "2026-01-02Z" THEN 8 ELSE 1

\* The approved patterns: digits, or anything.
Fits(text, pattern) == pattern = "any" \/ text \in {"1", "3", "5", "20260101"}

Header == <<"a", "b">>
Table == { <<"1", "1">>, <<"1.0", "3">>, <<"3", "">>, <<"3", "1">>, <<"5", "2026-01-02Z">>, <<"5", "5">>,
           <<"20260101", "2026-01-09Z">>, <<"NaN", "3">>, <<"x", "2026-01-01">>, <<"", "1">>, <<"1">> }

RangeRules == { [column |-> "a", low |-> 1, high |-> 4], [column |-> "b", low |-> 0, high |-> 9],
                [column |-> "b", low |-> 2, high |-> 1], [column |-> "c", low |-> 0, high |-> 1] }
AllowedRules == { [column |-> "a", values |-> {"1", "1.0", "3", "5"}] }
PatternRules == { [column |-> "a", pattern |-> "digits", known |-> TRUE],
                  [column |-> "b", pattern |-> "any", known |-> TRUE] }
RowCountRule == <<1, 3>>
ExpectedHeaders == <<Header>>

\* Bot turns: two writes, a read between them that may be denied or malformed, one call too many.
ToolCall(tool, payload, valid) == [tool |-> tool, payload |-> payload, valid |-> valid]
ModelAnswers == { <<>>,
                  <<ToolCall("write", "one", TRUE)>>,
                  <<ToolCall("write", "two", TRUE), ToolCall("read", "one", TRUE)>>,
                  <<ToolCall("read", "one", FALSE), ToolCall("write", "one", TRUE)>>,
                  <<ToolCall("unknown", "one", TRUE), ToolCall("read", "two", TRUE)>>,
                  <<ToolCall("read", "one", TRUE), ToolCall("read", "one", TRUE), ToolCall("read", "one", TRUE)>> }
Records == { [owner |-> "me", conversation |-> "here", audience |-> "private", tokens |-> 2],
             [owner |-> "other", conversation |-> "here", audience |-> "workspace", tokens |-> 9],
             [owner |-> "me", conversation |-> "elsewhere", audience |-> "workspace", tokens |-> 2] }
TokenBudget == [history |-> 3, memory |-> 3]
=============================================================================
