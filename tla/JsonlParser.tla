---------------------------- MODULE JsonlParser ----------------------------
(***************************************************************************)
(* One parse of one document: the engine's rule stack driven by the        *)
(* plugin's alternates for `jsonl' and `record' over the strict JSON       *)
(* rules.  The alternates are data, as they are in the source, so an       *)
(* alternate dropped, reordered or changed there is the same edit here.    *)
(*                                                                         *)
(* The engine and the JSON rules are other packages; they are modelled     *)
(* from how the plugin uses them.  The engine takes the first alternate    *)
(* whose token list matches what comes next, runs its action, and then     *)
(* pushes a child rule (p), replaces the rule in its own frame (r), or     *)
(* moves the rule from its open phase to its close phase and from there    *)
(* back to its parent.  #ZZ, the end of the source, is never used up.      *)
(***************************************************************************)
EXTENDS JsonlSource

CONSTANT Docs      \* the documents to parse: a set of sequences of lexemes

ASSUME DocsAreSources == Docs \subseteq Seq(Lexeme)

VARIABLES
    src,           \* the document
    toks,          \* its significant tokens
    pos,           \* the next token; 0 until the parse begins
    stack,         \* the rules in progress, the root first
    node,          \* the document's array: its elements, as spans of lexemes
    verdict        \* as in JsonLines

vars == <<src, toks, pos, stack, node, verdict>>

-----------------------------------------------------------------------------
(* An alternate: tokens to match (s), how many of them to give back (b),   *)
(* an action (a), a rule to push (p) or to be replaced by (r).             *)

Nothing == "-"

Alt == [s |-> <<>>, b |-> 0, a |-> Nothing, p |-> Nothing, r |-> Nothing]

On(s) == [Alt EXCEPT !.s = s]

\* Slip: the pushed rule's name is misspelt, and names no rule.
JsonlRuleMisspelt ==
    [open  |-> << [On(<<"ZZ">>)       EXCEPT !.a = "array"],
                  [On(<<"LN", "ZZ">>) EXCEPT !.a = "array"],
                  [On(<<"LN">>)       EXCEPT !.a = "array", !.p = "records"],
                  [Alt                EXCEPT !.a = "array", !.p = "records"] >>,
     close |-> << Alt >>]

JsonlRule ==
    [open  |-> << [On(<<"ZZ">>)       EXCEPT !.a = "array"],
                  [On(<<"LN", "ZZ">>) EXCEPT !.a = "array"],
                  [On(<<"LN">>)       EXCEPT !.a = "array", !.p = "record"],
                  [Alt                EXCEPT !.a = "array", !.p = "record"] >>,
     close |-> << Alt >>]

\* Slip: no alternate for a separator that ends the document.
RecordOpenNoEnd ==
    << [On(<<"LN">>) EXCEPT !.r = "record"],
       [Alt          EXCEPT !.p = "val"] >>

\* Slip: the extra separator is given back instead of used up.
RecordOpenGivesBack ==
    << On(<<"LN", "ZZ">>),
       [On(<<"LN">>) EXCEPT !.b = 1, !.r = "record"],
       [Alt          EXCEPT !.p = "val"] >>

RecordOpen ==
    << On(<<"LN", "ZZ">>),
       [On(<<"LN">>) EXCEPT !.r = "record"],
       [Alt          EXCEPT !.p = "val"] >>

\* Slip: the next record is pushed, not iterated, so frames pile up.
RecordClosePushes ==
    << [On(<<"LN", "ZZ">>) EXCEPT !.a = "push"],
       [On(<<"LN">>)       EXCEPT !.a = "push", !.p = "record"],
       [On(<<"ZZ">>)       EXCEPT !.a = "push"] >>

\* Slip: a separator with more to come adds no record.
RecordCloseForgets ==
    << [On(<<"LN", "ZZ">>) EXCEPT !.a = "push"],
       [On(<<"LN">>)       EXCEPT !.r = "record"],
       [On(<<"ZZ">>)       EXCEPT !.a = "push"] >>

RecordClose ==
    << [On(<<"LN", "ZZ">>) EXCEPT !.a = "push"],
       [On(<<"LN">>)       EXCEPT !.a = "push", !.r = "record"],
       [On(<<"ZZ">>)       EXCEPT !.a = "push"] >>

RecordRule == [open |-> RecordOpen, close |-> RecordClose]

\* The strict JSON rules of @tabnas/json.
JsonRules ==
    [val  |-> [open  |-> << [On(<<"OB">>) EXCEPT !.b = 1, !.p = "map"],
                            [On(<<"OS">>) EXCEPT !.b = 1, !.p = "list"],
                            On(<<"VL">>), On(<<"ST">>) >>,
               close |-> << Alt >>],
     map  |-> [open  |-> << [On(<<"OB", "CB">>) EXCEPT !.b = 1],
                            [On(<<"OB">>)       EXCEPT !.p = "pair"] >>,
               close |-> << On(<<"CB">>) >>],
     list |-> [open  |-> << [On(<<"OS", "CS">>) EXCEPT !.b = 1],
                            [On(<<"OS">>)       EXCEPT !.p = "elem"] >>,
               close |-> << On(<<"CS">>) >>],
     pair |-> [open  |-> << [On(<<"ST", "CL">>) EXCEPT !.p = "val"] >>,
               close |-> << [On(<<"CA">>) EXCEPT !.r = "pair"],
                            [On(<<"CB">>) EXCEPT !.b = 1] >>],
     elem |-> [open  |-> << [Alt EXCEPT !.p = "val"] >>,
               close |-> << [On(<<"CA">>) EXCEPT !.r = "elem"],
                            [On(<<"CS">>) EXCEPT !.b = 1] >>]]

Start == "jsonl"

RuleNames == {"jsonl", "record"} \cup DOMAIN JsonRules

Rules ==
    [rule \in RuleNames |-> CASE rule = "jsonl" -> JsonlRule
                              [] rule = "record" -> RecordRule
                              [] OTHER -> JsonRules[rule]]

-----------------------------------------------------------------------------
(* The engine.                                                             *)

NoValue == <<>>

\* A rule in progress, begun at token `from'; `child' is the value of the
\* child rule that ended last.
Frame(rule, from) ==
    [rule |-> rule, phase |-> "open", from |-> from, child |-> NoValue]

Absent == <<"absent">>     \* no array has been allocated yet

Elements == IF node = Absent THEN <<>> ELSE node

Lines == INSTANCE JsonLines WITH records <- Elements

Top == stack[Len(stack)]

TinAt(k) == IF k <= Len(toks) THEN toks[k].tin ELSE "ZZ"

RowAt(k) == IF k <= Len(toks) THEN toks[k].row ELSE RowOf(src, Len(src) + 1)

Alts == Rules[Top.rule][Top.phase]

Matching ==
    {i \in DOMAIN Alts :
        \A k \in DOMAIN Alts[i].s : TinAt(pos + k - 1) = Alts[i].s[k]}

Chosen == Alts[Min(Matching)]

InRule == verdict = Lines!Reading /\ stack # <<>>

\* @array$ allocates; @push$ appends the child's value, if there is one.
Built ==
    CASE Chosen.a = "array" -> <<>>
      [] Chosen.a = "push" /\ Top.child # NoValue -> Append(Elements, Top.child)
      [] OTHER -> node

Take ==
    /\ InRule
    /\ Matching # {}
    /\ pos' = Min({pos + Len(Chosen.s) - Chosen.b, Len(toks) + 1})
    /\ node' = Built
    /\ UNCHANGED <<src, toks, verdict>>

-----------------------------------------------------------------------------
Init ==
    /\ src \in Docs
    /\ toks = Lex(src)
    /\ pos = 0
    /\ stack = <<>>
    /\ node = Absent
    /\ verdict = Lines!Reading

\* The base turns `lex.empty' off, so no text at all is refused unread.
Begin ==
    /\ pos = 0
    /\ verdict = Lines!Reading
    /\ IF src = <<>>
       THEN /\ verdict' = Lines!Refused(1)
            /\ UNCHANGED <<pos, stack>>
       ELSE /\ pos' = 1
            /\ stack' = <<Frame(Start, 1)>>
            /\ UNCHANGED verdict
    /\ UNCHANGED <<src, toks, node>>

\* No alternate matches: the parse fails at the token that comes next.
Unexpected ==
    /\ InRule
    /\ Matching = {}
    /\ verdict' = Lines!Refused(RowAt(pos))
    /\ UNCHANGED <<src, toks, pos, stack, node>>

Descend ==
    /\ Take
    /\ Chosen.p # Nothing
    /\ stack' = Append([stack EXCEPT ![Len(stack)].phase = "close"],
                       Frame(Chosen.p, pos'))

Replace ==
    /\ Take
    /\ Chosen.p = Nothing
    /\ Chosen.r # Nothing
    /\ stack' = [stack EXCEPT ![Len(stack)] = Frame(Chosen.r, pos')]

Stays == Chosen.p = Nothing /\ Chosen.r = Nothing

Settle ==
    /\ Take
    /\ Stays
    /\ Top.phase = "open"
    /\ stack' = [stack EXCEPT ![Len(stack)].phase = "close"]

\* The value a finished rule leaves with its parent: the text of a `val'.
ValueOf(f, next) ==
    IF f.rule = "val" THEN <<toks[f.from].at, toks[next - 1].at>> ELSE NoValue

Return ==
    /\ Take
    /\ Stays
    /\ Top.phase = "close"
    /\ stack' = LET below == Front(stack)
                IN  IF below = <<>> THEN <<>>
                    ELSE [below EXCEPT ![Len(below)].child = ValueOf(Top, pos')]

\* The root rule has ended: what is left must be the end of the source.
Finish ==
    /\ verdict = Lines!Reading
    /\ pos > 0
    /\ stack = <<>>
    /\ verdict' = IF TinAt(pos) = "ZZ" THEN Lines!Accepted
                                       ELSE Lines!Refused(RowAt(pos))
    /\ UNCHANGED <<src, toks, pos, stack, node>>

Returned ==
    /\ verdict # Lines!Reading
    /\ UNCHANGED vars

Step == Begin \/ Unexpected \/ Descend \/ Replace \/ Settle \/ Return \/ Finish

Next == Step \/ Returned

\* A parse is one synchronous call: it runs until it has an answer.
Spec == Init /\ [][Next]_vars /\ WF_vars(Step)

-----------------------------------------------------------------------------
(* Properties.                                                             *)

Spans == {<<i, j>> : i, j \in 1 .. Len(src)}

Frames ==
    [rule : RuleNames, phase : {"open", "close"}, from : 1 .. Len(toks) + 1,
     child : Spans \cup {NoValue}]

TypeOK ==
    /\ src \in Seq(Lexeme)
    /\ toks = Lex(src)
    /\ pos \in 0 .. Len(toks) + 1
    /\ stack \in Seq(Frames)
    /\ node = Absent \/ node \in Seq(Spans)
    /\ verdict \in [kind : {"reading", "accepted", "refused"}, row : Nat]

(***************************************************************************)
(* The rule stack grows with the nesting of the line being read and never  *)
(* with the number of lines: records are iterated in one frame.            *)
(***************************************************************************)
OpenBrackets ==
    LET read(S) == Cardinality({k \in 1 .. pos - 1 : k <= Len(toks) /\ toks[k].tin \in S})
    IN  read({"OB", "OS"}) - read({"CB", "CS"})

StackByNesting == Len(stack) <= 4 + 3 * OpenBrackets

(***************************************************************************)
(* The inductive invariant behind it.  The rules in progress nest: under   *)
(* the root a record, under it a value, and then a container, one of its   *)
(* items and that one's value, over and over.  So the stack is as deep as  *)
(* the brackets that are open; and a value's tokens begin where its rule   *)
(* did, so that its text is there to be pushed when it ends.               *)
(***************************************************************************)
RulesAt(i) ==
    CASE i = 1 -> {"jsonl"}
      [] i = 2 -> {"record"}
      [] i > 2 /\ i % 3 = 0 -> {"val"}
      [] i > 2 /\ i % 3 = 1 -> {"map", "list"}
      [] i > 2 /\ i % 3 = 2 -> {"pair", "elem"}

RulesNest ==
    \A i \in DOMAIN stack :
        /\ stack[i].rule \in RulesAt(i)
        /\ i < Len(stack) => stack[i].phase = "close"

\* A container whose bracket is still to be read.
Unopened == Top.rule \in {"map", "list"} /\ Top.phase = "open"

DeepAsBrackets ==
    OpenBrackets = IF stack = <<>> THEN 0
                   ELSE (Len(stack) - 1) \div 3 - (IF Unopened THEN 1 ELSE 0)

ValuesHaveTokens ==
    /\ stack # <<>> => pos > 0
    /\ \A i \in DOMAIN stack :
          /\ i = Len(stack) /\ stack[i].phase = "open" => stack[i].from = pos
          /\ stack[i].rule \in {"val", "map", "list"} /\ stack[i].phase = "close" =>
                /\ stack[i].from <= Len(toks)
                /\ stack[i].rule # "val" \/ i = Len(stack) => stack[i].from < pos
          /\ stack[i].rule = "val" /\ i < Len(stack) =>
                stack[i].from = stack[i + 1].from

IInv == TypeOK /\ RulesNest /\ DeepAsBrackets /\ ValuesHaveTokens

(***************************************************************************)
(* The machine answers what reading the document line by line answers: the *)
(* same values in the same order, or a refusal at the same row.  No record *)
(* is begun at the end of the source, however its last line is separated,  *)
(* and none is pushed twice or left out.                                   *)
(***************************************************************************)
LineByLine == Lines!Spec

\* Every parse ends.
Ends == <>(verdict # Lines!Reading)
=============================================================================
