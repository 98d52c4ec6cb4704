----------------------------- MODULE JsonLines -----------------------------
(***************************************************************************)
(* What a JSON Lines document means, without a grammar: split the text     *)
(* into lines, pass over the blank ones, and read each other line as one   *)
(* JSON value.  The values are answered in order; the first line that is   *)
(* not one JSON value refuses the whole document and gives its row.        *)
(*                                                                         *)
(* JsonlParser, the rule machine the plugin's alternates drive, is checked *)
(* to implement this specification.                                        *)
(***************************************************************************)
EXTENDS JsonlSource

VARIABLES
    src,           \* the document
    records,       \* the lines read so far, each as its span of lexemes
    verdict        \* Reading, Accepted, or Refused(row)

vars == <<src, records, verdict>>

Reading == [kind |-> "reading", row |-> 0]
Accepted == [kind |-> "accepted", row |-> 0]
Refused(row) == [kind |-> "refused", row |-> row]

-----------------------------------------------------------------------------
(***************************************************************************)
(* The spans of t that are one JSON value, found by increasing length from *)
(* JSON's definition: a scalar, or a bracketed list of items or members    *)
(* with a comma between each two.  n bounds the span's length.             *)
(***************************************************************************)
Separated(t, i, j, item(_, _)) ==
    \E C \in SUBSET {k \in i + 1 .. j - 1 : t[k] = "CA"} :
        \A x \in {i} \cup C :
            item(x + 1, Min({k \in C \cup {j} : k > x}) - 1)

ValueSpans(t) ==
    LET upTo[n \in 0 .. Len(t)] ==
            IF n = 0 THEN {}
            ELSE LET shorter == upTo[n - 1]
                     Item(a, b) == <<a, b>> \in shorter
                     Member(a, b) == /\ a + 2 <= b
                                     /\ t[a] = "ST" /\ t[a + 1] = "CL"
                                     /\ <<a + 2, b>> \in shorter
                     Is(i, j) ==
                         \/ i = j /\ t[i] \in {"VL", "ST"}
                         \/ /\ i < j /\ t[i] = "OS" /\ t[j] = "CS"
                            /\ j = i + 1 \/ Separated(t, i, j, Item)
                         \/ /\ i < j /\ t[i] = "OB" /\ t[j] = "CB"
                            /\ j = i + 1 \/ Separated(t, i, j, Member)
                 IN  shorter \cup {<<i, i + n - 1>> : i \in
                                      {k \in 1 .. Len(t) - n + 1 : Is(k, k + n - 1)}}
    IN  upTo[Len(t)]

IsJson(t) == <<1, Len(t)>> \in ValueSpans(t)

-----------------------------------------------------------------------------
(***************************************************************************)
(* The lines of s that hold anything but spaces, as spans from the first   *)
(* to the last lexeme that is not a space.                                 *)
(***************************************************************************)
Filled(s, i) == s[i] \notin LineChar \cup {"SP"}

SameLine(s, i, j) == \A k \in i .. j : s[k] \notin LineChar

LinesOf(s) ==
    LET BeginsLine(i) ==
            /\ Filled(s, i)
            /\ \A k \in 1 .. i - 1 : Filled(s, k) => ~ SameLine(s, k, i)
        first == SelectSeq([i \in 1 .. Len(s) |-> i], BeginsLine)
        LastFrom(i) == Max({j \in i .. Len(s) : Filled(s, j) /\ SameLine(s, i, j)})
    IN  [n \in DOMAIN first |-> <<first[n], LastFrom(first[n])>>]

LineText(s, l) == SelectSeq(SubSeq(s, l[1], l[2]), LAMBDA c : c # "SP")

-----------------------------------------------------------------------------
Init ==
    /\ src \in Seq(Lexeme)
    /\ records = <<>>
    /\ verdict = Reading

Unread == Len(records) < Len(LinesOf(src))

NextLine == LinesOf(src)[Len(records) + 1]

\* The next line that is not blank is one JSON value.
Record ==
    /\ verdict = Reading
    /\ Unread
    /\ IsJson(LineText(src, NextLine))
    /\ records' = Append(records, NextLine)
    /\ UNCHANGED <<src, verdict>>

\* It is not; or there is no text at all, which is not a document.
Refuse ==
    /\ verdict = Reading
    /\ \/ src = <<>> /\ verdict' = Refused(1)
       \/ /\ Unread
          /\ ~ IsJson(LineText(src, NextLine))
          /\ verdict' = Refused(RowOf(src, NextLine[1]))
    /\ UNCHANGED <<src, records>>

Accept ==
    /\ verdict = Reading
    /\ src # <<>>
    /\ ~ Unread
    /\ verdict' = Accepted
    /\ UNCHANGED <<src, records>>

Next == Record \/ Refuse \/ Accept

Spec == Init /\ [][Next]_vars
=============================================================================
