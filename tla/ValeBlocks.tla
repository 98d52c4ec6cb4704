------------------------------ MODULE ValeBlocks -----------------------------
(***************************************************************************)
(* ts/scripts/vale-counts.cjs: blocks, join and edit.  Where in .vale.ini  *)
(* the counts stand: in the comment lines right above a rule, where a      *)
(* claim may wrap from one line to the next.  A rewrite puts new digits in *)
(* place, and a new comment line above a demoted rule that has none, at    *)
(* positions that are all those of the file as it was read.                *)
(***************************************************************************)
EXTENDS Naturals, Sequences, SequencesExt, FiniteSets

CONSTANTS
    Lines,       \* the lines a file may have
    MaxLines,    \* bound: lines of a file
    HitsOf       \* what Vale reports for each rule

VARIABLES
    ini,         \* the file
    original,    \* history: as it was first
    writes       \* rewrites so far

vars == <<ini, original, writes>>

\* Tokens of a comment: a number, the word "hits", or any other.
Number(n) == [t |-> "number", v |-> n]
Hits == [t |-> "hits", v |-> 0]
Other == [t |-> "word", v |-> 0]

Comment(tokens) == [kind |-> "comment", tokens |-> tokens, rule |-> "", demoted |-> FALSE]
Rule(r, demoted) == [kind |-> "rule", tokens |-> <<>>, rule |-> r, demoted |-> demoted]

\* A blank line, a section's name or a setting.
Else == [kind |-> "else", tokens |-> <<>>, rule |-> "", demoted |-> FALSE]

Tokens == [t : {"number", "hits", "word"}, v : Nat]

RuleNames == {""} \cup DOMAIN HitsOf

KnownLines ==
    {line \in [kind : {"comment", "rule", "else"}, tokens : Seq(Tokens),
               rule : RuleNames, demoted : BOOLEAN] :
        line.kind = "rule" => line.rule \in DOMAIN HitsOf}

\* Assumptions of the constants.
MaxLinesIsNat == MaxLines \in Nat
LinesAreKnown == Lines \subseteq KnownLines
HitsAreCounts == HitsOf \in [DOMAIN HitsOf -> Nat]

Init ==
    /\ ini \in SeqOf(Lines, MaxLines)
    /\ original = ini
    /\ writes = 0

-----------------------------------------------------------------------------
\* Slip: blank lines do not end a block.
BlockLoose(ls, i) ==
    {j \in 1 .. i - 1 : ls[j].kind = "comment"
                        /\ \A k \in j .. i - 1 : ls[k].kind # "rule"}

\* The comment lines right above line i.
Block(ls, i) == {j \in 1 .. i - 1 : \A k \in j .. i - 1 : ls[k].kind = "comment"}

(***************************************************************************)
(* The block as joined prose: each token with the line and place it came   *)
(* from.                                                                   *)
(***************************************************************************)
Places(ls, j) == [k \in DOMAIN ls[j].tokens |-> <<j, k>>]

Join(ls, i) == FlattenSeq([n \in 1 .. Cardinality(Block(ls, i)) |->
                             Places(ls, i - Cardinality(Block(ls, i)) - 1 + n)])

TokenAt(ls, place) == ls[place[1]].tokens[place[2]]

\* Where the counts of the rule on line i stand.
Claims(ls, i) ==
    LET joined == Join(ls, i)
    IN  {joined[n] : n \in {m \in 1 .. Len(joined) - 1 :
            TokenAt(ls, joined[m]).t = "number" /\ TokenAt(ls, joined[m + 1]).t = "hits"}}

RulesAt(ls) == {i \in DOMAIN ls : ls[i].kind = "rule"}

\* Digits to put right: the place, and the number for it.
Edits(ls) ==
    UNION {{[at |-> place, n |-> HitsOf[ls[i].rule]] : place \in Claims(ls, i)} : i \in RulesAt(ls)}

\* The tokens of a line, with those digits.
Recounted(ls, j) ==
    [k \in DOMAIN ls[j].tokens |->
        IF \E e \in Edits(ls) : e.at = <<j, k>>
        THEN Number((CHOOSE e \in Edits(ls) : e.at = <<j, k>>).n)
        ELSE ls[j].tokens[k]]

Edited(ls) == [j \in DOMAIN ls |-> [ls[j] EXCEPT !.tokens = Recounted(ls, j)]]

\* The demoted rules with no count at all.
Uncounted(ls) == {i \in RulesAt(ls) : ls[i].demoted /\ Claims(ls, i) = {}}

CountLine(ls, i) == Comment(<<Number(HitsOf[ls[i].rule]), Hits>>)

\* Slip: from the top down, at places the earlier ones moved.
InOrderDownwards(S) ==
    CHOOSE s \in [1 .. Cardinality(S) -> S] :
        ToSet(s) = S /\ \A m, n \in DOMAIN s : m < n => s[m] < s[n]

\* From the bottom up, so that no insertion moves a place still to come.
InOrder(S) ==
    CHOOSE s \in [1 .. Cardinality(S) -> S] :
        ToSet(s) = S /\ \A m, n \in DOMAIN s : m < n => s[m] > s[n]

\* Slip: the new line takes the rule's place.
RewrittenReplaces(ls) ==
    [i \in DOMAIN ls |-> IF i \in Uncounted(ls) THEN CountLine(ls, i) ELSE Edited(ls)[i]]

\* The edits, which move no line, and then the insertions.
Rewritten(ls) ==
    LET order == InOrder(Uncounted(ls))
        done[n \in 0 .. Len(order)] ==
            IF n = 0 THEN Edited(ls) ELSE InsertAt(done[n - 1], order[n], CountLine(ls, order[n]))
    IN  done[Len(order)]

Write ==
    /\ writes < 2
    /\ ini' = Rewritten(ini)
    /\ writes' = writes + 1
    /\ UNCHANGED original

Next == Write

Spec == Init /\ [][Next]_vars

-----------------------------------------------------------------------------
TypeOK ==
    /\ ini \in Seq(KnownLines) /\ original \in Seq(KnownLines)
    /\ Len(ini) \in Len(original) .. 2 * Len(original)
    /\ writes \in 0 .. 2

(***************************************************************************)
(* After a rewrite each rule is right by what stands above it alone: read  *)
(* upwards from the rule, the comment has its count at least once if it is *)
(* demoted, and no other count.                                            *)
(***************************************************************************)
ProseAbove(i) ==
    LET above == {j \in 1 .. i : \A k \in j .. i - 1 : ini[k].kind = "comment"}
        first == CHOOSE j \in above : \A k \in above : j <= k
    IN  FlattenSeq([n \in 1 .. i - first |-> ini[first + n - 1].tokens])

CountsAbove(i) ==
    LET prose == ProseAbove(i)
    IN  {prose[n].v : n \in {m \in 1 .. Len(prose) - 1 :
                                prose[m].t = "number" /\ prose[m + 1].t = "hits"}}

EveryRuleCounted ==
    writes > 0 =>
        \A i \in DOMAIN ini : ini[i].kind = "rule" =>
            /\ CountsAbove(i) \subseteq {HitsOf[ini[i].rule]}
            /\ ini[i].demoted => CountsAbove(i) # {}

(***************************************************************************)
(* A rewrite loses and reorders nothing: without the lines it added, the   *)
(* file is the original but for numbers; and a second one changes nothing. *)
(***************************************************************************)
Shape(line) ==
    [kind |-> line.kind, rule |-> line.rule, tokens |-> [k \in DOMAIN line.tokens |-> line.tokens[k].t]]

OnlyNumbersChange ==
    \E at \in [DOMAIN original -> DOMAIN ini] :
        /\ \A j, k \in DOMAIN original : j < k => at[j] < at[k]
        /\ \A j \in DOMAIN original : Shape(ini[at[j]]) = Shape(original[j])
        /\ \A i \in DOMAIN ini :
              (\A j \in DOMAIN original : at[j] # i) => Shape(ini[i]).tokens = <<"number", "hits">>

WritingTwiceIsOnce == writes > 0 => Rewritten(ini) = ini

\* The inductive invariant: before the first rewrite the file is as it was.
IInv ==
    /\ TypeOK
    /\ writes = 0 => ini = original
    /\ EveryRuleCounted /\ OnlyNumbersChange /\ WritingTwiceIsOnce
=============================================================================
