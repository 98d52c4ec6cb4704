------------------------------ MODULE GoHeader -------------------------------
(***************************************************************************)
(* tools/port-deps.cjs: goIgnored.  A Go file is left out of the           *)
(* comparison when its build constraint is exactly `ignore`; one left out  *)
(* that Go compiles would hide its imports.                                *)
(*                                                                         *)
(* A line is a sequence of pieces, with the space around them trimmed: the *)
(* two comments that may be constraints, any other line comment, the two   *)
(* ends of a block comment, and anything else.                             *)
(***************************************************************************)
EXTENDS Naturals, Sequences, SequencesExt, FiniteSets

CONSTANTS
    Lines,        \* the lines a file may have
    MaxLines      \* bound: lines of a file

Constraints == {"//go:build ignore", "//go:build linux"}

LineComments == Constraints \cup {"// +build ignore", "// text"}

Pieces == LineComments \cup {"/*", "*/", "code"}

\* Assumptions of the constants.
LinesOfPieces == Lines \subseteq Seq(Pieces)
MaxLinesIsNat == MaxLines \in Nat

VARIABLES
    lines,        \* those read
    end,          \* the lines a +build line counts in
    ended,        \* a line that is neither blank nor a line comment was read
    inStar,
    goBuild,      \* the //go:build line, or ""
    verdict

vars == <<lines, end, ended, inStar, goBuild, verdict>>

Init ==
    /\ lines = <<>>
    /\ end = 0
    /\ ended = FALSE
    /\ inStar = FALSE
    /\ goBuild = ""
    /\ verdict = "reading"

StartsComment(line) == line # <<>> /\ Head(line) \in LineComments

\* Where the reader is after one more piece of a line: in the header, in a
\* block comment, in a line comment, or past the header.
On(place, piece) ==
    CASE place = "star" -> IF piece = "*/" THEN "header" ELSE "star"
      [] place = "header" ->
            IF piece \in LineComments THEN "comment"
            ELSE IF piece = "/*" THEN "star" ELSE "over"
      [] OTHER -> place

\* The pieces of a line used up in turn.
Walk(line, star) ==
    LET after[i \in 0 .. Len(line)] ==
            IF i = 0 THEN (IF star THEN "star" ELSE "header")
            ELSE On(after[i - 1], line[i])
    IN  after

\* Slip: a line inside a block comment counts.
IsConstraintAnywhere(line, star) == line # <<>> /\ Head(line) \in Constraints

IsConstraint(line, star) == ~star /\ line # <<>> /\ Head(line) \in Constraints

\* A blank line before the first line that is no line comment.
EndAfter(line, n) == IF line = <<>> /\ ~ended THEN n ELSE end

IsPlusBuild(line) == line # <<>> /\ Head(line) = "// +build ignore"

\* A //go:build line alone decides; else a +build line, where it counts.
Verdict(build, all, upTo) ==
    IF build # ""
    THEN IF build = "//go:build ignore" THEN "ignored" ELSE "compiled"
    ELSE IF \E n \in 1 .. upTo : IsPlusBuild(all[n]) THEN "ignored" ELSE "compiled"

ReadLine(line) ==
    LET place == Walk(line, inStar)[Len(line)]
        second == IsConstraint(line, inStar) /\ goBuild # ""
    IN  /\ verdict = "reading"
        /\ Len(lines) < MaxLines
        /\ lines' = Append(lines, line)
        /\ end' = EndAfter(line, Len(lines'))
        /\ ended' = (ended \/ (line # <<>> /\ ~StartsComment(line)))
        /\ goBuild' = IF IsConstraint(line, inStar) /\ goBuild = "" THEN Head(line) ELSE goBuild
        /\ inStar' = (place = "star")
        /\ verdict' = IF second THEN "unreadable"
                      ELSE IF place # "over" THEN "reading"
                      ELSE Verdict(goBuild', lines', end')

EndOfFile ==
    /\ verdict = "reading"
    /\ verdict' = Verdict(goBuild, lines, end)
    /\ UNCHANGED <<lines, end, ended, inStar, goBuild>>

Next == (\E line \in Lines : ReadLine(line)) \/ EndOfFile

Spec == Init /\ [][Next]_vars

-----------------------------------------------------------------------------
(* What Go does (go/build: parseFileHeader, shouldBuild, as the comment at *)
(* port-deps.cjs:648 describes them), on the text as a whole.              *)

Verdicts == {"reading", "ignored", "compiled", "unreadable"}

TypeOK ==
    /\ lines \in Seq(Lines)
    /\ end \in 0 .. Len(lines)
    /\ ended \in BOOLEAN
    /\ inStar \in BOOLEAN
    /\ goBuild \in Constraints \cup {""}
    /\ verdict \in Verdicts
    /\ inStar => ended

Newline == "newline"

Text == FlattenSeq([n \in DOMAIN lines |-> Append(lines[n], Newline)])

\* What the piece after another is in.
After(before, piece) ==
    CASE before = "code" /\ piece = "/*" -> "block"
      [] before = "code" /\ piece \in LineComments -> "line"
      [] before = "block" /\ piece = "*/" -> "code"
      [] before = "line" /\ piece = Newline -> "code"
      [] OTHER -> before

\* What each piece of a text is in.
Modes(text) ==
    LET mode[k \in 1 .. Len(text) + 1] ==
            IF k = 1 THEN "code" ELSE After(mode[k - 1], text[k - 1])
    IN  mode

\* The constraints that begin a line, before any text that is no comment.
GoBuilds(text, mode) ==
    {k \in DOMAIN text :
        /\ text[k] \in Constraints
        /\ mode[k] = "code"
        /\ k = 1 \/ text[k - 1] = Newline
        /\ \A c \in 1 .. k : mode[c] = "code" => text[c] \notin {"code", "*/"}}

BlankAfter(all, n) ==
    all[n] = <<>> /\ \A i \in 1 .. n : all[i] = <<>> \/ StartsComment(all[i])

\* A +build line of the comments that come first, with a blank line after.
PlusBuildCounts(all) ==
    \E n, blank \in DOMAIN all :
        /\ n < blank
        /\ BlankAfter(all, blank)
        /\ IsPlusBuild(all[n])

GoVerdict(text, builds, all) ==
    CASE Cardinality(builds) > 1 -> "unreadable"
      [] builds = {} -> IF PlusBuildCounts(all) THEN "ignored" ELSE "compiled"
      [] OTHER -> IF \E k \in builds : text[k] = "//go:build ignore"
                  THEN "ignored" ELSE "compiled"

GoSays == GoVerdict(Text, GoBuilds(Text, Modes(Text)), lines)

(***************************************************************************)
(* Whatever comments come first in a file, however they nest and span      *)
(* lines, the reader leaves it out exactly when Go does.                   *)
(***************************************************************************)
IgnoresAsGoDoes == verdict # "reading" => verdict = GoSays

(***************************************************************************)
(* The inductive invariant.  While a header is read, all of the text is    *)
(* comments, the reader is in a block comment when the text is, and the    *)
(* constraint it holds is the only one so far; a +build line counts up to  *)
(* the last blank line before what is no line comment.                     *)
(***************************************************************************)
\* The pieces that end a header.
NoComment(text, mode) == {c \in DOMAIN text : mode[c] = "code" /\ text[c] \in {"code", "*/"}}

TextSoFar ==
    LET text == Text
        mode == Modes(text)
        builds == GoBuilds(text, mode)
    IN  verdict = "reading" =>
            /\ text = <<>> \/ text[Len(text)] = Newline
            /\ mode[Len(text) + 1] = IF inStar THEN "block" ELSE "code"
            /\ NoComment(text, mode) = {}
            /\ IF goBuild = "" THEN builds = {}
               ELSE \E k \in DOMAIN text : builds = {k} /\ text[k] = goBuild

LinesSoFar ==
    /\ ended <=> \E i \in DOMAIN lines : lines[i] # <<>> /\ ~ StartsComment(lines[i])
    /\ end # 0 => BlankAfter(lines, end)
    /\ \A n \in DOMAIN lines : BlankAfter(lines, n) => n <= end

IInv == TypeOK /\ TextSoFar /\ LinesSoFar /\ IgnoresAsGoDoes
=============================================================================
