------------------------------ MODULE ValeCounts -----------------------------
(***************************************************************************)
(* ts/scripts/vale-counts.cjs.  The comments of .vale.ini, and the style   *)
(* guide, state how often each rule fires and how large the vocabulary     *)
(* is.  The script measures, compares, and with --write rewrites what is   *)
(* wrong: first .vale.ini, then the guide.  Maintainers edit pages, rules  *)
(* and comments between runs; a run may be killed anywhere.                *)
(*                                                                         *)
(* A comment is here the claims it makes; where in its lines they stand is *)
(* module ValeBlocks.                                                      *)
(***************************************************************************)
EXTENDS Naturals, FiniteSets, FiniteSetsExt

CONSTANTS
    Rules,
    MaxHits, MaxFiles, MaxTerms,    \* bounds: what can be measured
    MaxEdits                        \* bound: edits by hand, and kills

\* Assumptions of the constants.
RulesFinite == IsFiniteSet(Rules)
BoundsAreNat == {MaxHits, MaxFiles, MaxTerms, MaxEdits} \subseteq Nat

VARIABLES
    hits,        \* how often each rule fires in CI when it is on
    files,       \* gated pages; 0 when a declared one is not there
    terms,       \* terms of the vocabulary
    vale,        \* the installed Vale: the one CI pins, or another
    level,       \* .vale.ini: each rule's level
    count,       \* .vale.ini: the count above each rule, or None
    header,      \* .vale.ini: alerts, files, noun, terms, and the next term
    guide,       \* docs/STYLE-GUIDE.md: alerts, files, noun and terms
    scratch,     \* .vale-counts.ini is there
    run,         \* what a run that has not ended is at
    last,        \* how the last run ended, if nothing changed since
    edits

world == <<hits, files, terms, level, vale>>
record == <<count, header, guide>>
vars == <<world, record, scratch, run, last, edits>>

\* No number a rule may have.
None == MaxHits + 1
Levels == {"error", "demoted", "NO"}

Noun(n) == IF n = 1 THEN "file" ELSE "files"

(***************************************************************************)
(* measure: the alerts of a run of Vale.  A rule that is off fires only in *)
(* the second run, over the scratch copy with such rules on; the total is  *)
(* that of the first.                                                      *)
(***************************************************************************)
\* Another Vale may count differently.
Fires(r) == IF vale = "pinned" THEN hits[r] ELSE (hits[r] + 1) % (MaxHits + 1)

ByRule == [r \in Rules |-> Fires(r)]

Total == MapThenSumSet(Fires, {q \in Rules : level[q] # "NO"})

SecondRun == \E r \in Rules : level[r] = "NO"

-----------------------------------------------------------------------------
(* report: what it finds wrong, and what it would have the files say.      *)

\* Slip: a demoted rule nobody counted is let through.
CountAsRecorded == [r \in Rules |-> IF count[r] = None THEN None ELSE ByRule[r]]

\* Every count that is there is put right; a demoted rule without one gains
\* it.
CountAsMeasured ==
    [r \in Rules |-> IF count[r] = None /\ level[r] = "error" THEN None ELSE ByRule[r]]

\* Slip: the noun is left as it was.
HeaderNounKept ==
    [alerts |-> Total, files |-> files, noun |-> header.noun,
     terms |-> terms, next |-> terms + 1]

HeaderAsMeasured ==
    [alerts |-> Total, files |-> files, noun |-> Noun(files),
     terms |-> terms, next |-> terms + 1]

GuideAsMeasured ==
    [alerts |-> Total, files |-> files, noun |-> Noun(files), terms |-> terms]

Wrong ==
    \/ vale # "pinned"
    \/ count # CountAsMeasured \/ header # HeaderAsMeasured \/ guide # GuideAsMeasured

-----------------------------------------------------------------------------
Hits == 0 .. MaxHits

Init ==
    /\ hits \in [Rules -> Hits]
    /\ files \in 1 .. MaxFiles
    /\ terms \in 0 .. MaxTerms
    /\ vale = "pinned"
    /\ level = [r \in Rules |-> "error"]
    /\ count = [r \in Rules |-> None]
    /\ header = [alerts |-> 0, files |-> 2, noun |-> "files", terms |-> 0, next |-> 1]
    /\ guide = [alerts |-> 0, files |-> 2, noun |-> "files", terms |-> 0]
    /\ scratch = FALSE
    /\ run = "none"
    /\ last = "none"
    /\ edits = 0

Edited ==
    /\ run = "none"
    /\ edits < MaxEdits
    /\ edits' = edits + 1
    /\ last' = "none"
    /\ UNCHANGED <<scratch, run>>

EditPages ==
    /\ Edited
    /\ \/ \E r \in Rules, n \in Hits : hits' = [hits EXCEPT ![r] = n] /\ files' = files
       \/ files' \in 0 .. MaxFiles /\ hits' = hits
    /\ UNCHANGED <<terms, level, vale, record>>

EditVocabulary ==
    /\ Edited
    /\ terms' \in 0 .. MaxTerms
    /\ UNCHANGED <<hits, files, level, vale, record>>

OtherVale ==
    /\ Edited
    /\ vale' \in {"pinned", "other"}
    /\ UNCHANGED <<hits, files, terms, level, record>>

EditRule ==
    /\ Edited
    /\ \E r \in Rules :
          \/ \E l \in Levels : level' = [level EXCEPT ![r] = l] /\ count' = count
          \/ \E n \in Hits \cup {None} : count' = [count EXCEPT ![r] = n] /\ level' = level
    /\ UNCHANGED <<hits, files, terms, vale, header, guide>>

EditProse ==
    /\ Edited
    /\ \/ header' = [header EXCEPT !.noun = "file", !.next = 0] /\ guide' = guide
       \/ guide' = [guide EXCEPT !.alerts = @ + 1] /\ header' = header
    /\ UNCHANGED <<world, count>>

-----------------------------------------------------------------------------
\* gatedDocs: a declared page that is not on disk throws, before anything.
PageGone ==
    /\ run = "none"
    /\ files = 0
    /\ last' = "threw"
    /\ UNCHANGED <<world, record, scratch, run, edits>>

\* measure, first half: the scratch copy is written when some rule is off.
Measure(write) ==
    /\ run = "none"
    /\ files # 0
    /\ scratch' = (scratch \/ SecondRun)
    /\ run' = IF write THEN "measuring to write" ELSE "measuring"
    /\ last' = "none"
    /\ UNCHANGED <<world, record, edits>>

\* Slip: nothing is removed when Vale fails.
ScratchAfterKept(failed) == IF failed THEN scratch ELSE scratch /\ ~SecondRun

\* Second half: the copy is removed whatever Vale did.
ScratchAfter(failed) == scratch /\ ~SecondRun

ValeFails ==
    /\ run \in {"measuring", "measuring to write"}
    /\ scratch' = ScratchAfter(TRUE)
    /\ run' = "none"
    /\ last' = "threw"
    /\ UNCHANGED <<world, record, edits>>

Report ==
    /\ run = "measuring"
    /\ scratch' = ScratchAfter(FALSE)
    /\ run' = "none"
    /\ last' = IF Wrong THEN "wrong" ELSE "as recorded"
    /\ UNCHANGED <<world, record, edits>>

WriteIni ==
    /\ run = "measuring to write"
    /\ scratch' = ScratchAfter(FALSE)
    /\ count' = CountAsMeasured
    /\ header' = HeaderAsMeasured
    /\ run' = "to write the guide"
    /\ UNCHANGED <<world, guide, last, edits>>

WriteGuide ==
    /\ run = "to write the guide"
    /\ guide' = GuideAsMeasured
    /\ run' = "none"
    /\ last' = "written"
    /\ UNCHANGED <<world, count, header, scratch, edits>>

Kill ==
    /\ run # "none"
    /\ edits < MaxEdits
    /\ edits' = edits + 1
    /\ run' = "none"
    /\ last' = "killed"
    /\ UNCHANGED <<world, record, scratch>>

Next ==
    \/ EditPages \/ EditVocabulary \/ OtherVale \/ EditRule \/ EditProse
    \/ PageGone \/ (\E write \in BOOLEAN : Measure(write)) \/ ValeFails
    \/ Report \/ WriteIni \/ WriteGuide \/ Kill

Spec == Init /\ [][Next]_vars

-----------------------------------------------------------------------------
Claims == [alerts : Nat, files : Nat, noun : {"file", "files"}, terms : Nat]
HeaderClaims ==
    [alerts : Nat, files : Nat, noun : {"file", "files"}, terms : Nat, next : Nat]

TypeOK ==
    /\ hits \in [Rules -> Hits] /\ vale \in {"pinned", "other"}
    /\ files \in 0 .. MaxFiles /\ terms \in 0 .. MaxTerms
    /\ level \in [Rules -> Levels]
    /\ count \in [Rules -> Hits \cup {None}]
    /\ header \in HeaderClaims /\ guide \in Claims
    /\ scratch \in BOOLEAN
    /\ run \in {"none", "measuring", "measuring to write", "to write the guide"}
    /\ last \in {"none", "threw", "wrong", "as recorded", "written", "killed"}

(***************************************************************************)
(* A true record: each rule's count is what it reports when it is on, off  *)
(* or not, no rule is demoted without one, the totals are those of the     *)
(* rules that are on, and the two files agree.                             *)
(***************************************************************************)
Truth ==
    LET on == UNION {{<<r, n>> : n \in 1 .. hits[r]} : r \in {q \in Rules : level[q] # "NO"}}
    IN  /\ \A r \in Rules : IF count[r] = None THEN level[r] = "error" ELSE count[r] = hits[r]
        /\ \A claims \in {header, guide} :
              /\ claims.alerts = Cardinality(on)
              /\ claims.files = files
              /\ claims.noun = (IF files = 1 THEN "file" ELSE "files")
              /\ claims.terms = terms
        /\ header.next = terms + 1

(***************************************************************************)
(* A check with the Vale that CI pins passes exactly on a true record, and *)
(* with another never.                                                     *)
(***************************************************************************)
CheckIsExact ==
    /\ last = "as recorded" => Truth /\ vale = "pinned"
    /\ last = "wrong" => ~Truth \/ vale # "pinned"

(***************************************************************************)
(* One --write with that Vale that ends makes the record true, whatever    *)
(* state maintainers, another Vale or an earlier run that was killed half  *)
(* way left it in.                                                         *)
(***************************************************************************)
WriteSettles == last = "written" /\ vale = "pinned" => Truth

(***************************************************************************)
(* A run that measured and was not killed leaves no scratch copy of a rule *)
(* that is off behind it, its own or an earlier one's, also when Vale      *)
(* fails.  (With no declared page there it does not come to measuring.)    *)
(***************************************************************************)
ScratchIsRemoved ==
    /\ run = "none" /\ files # 0 /\ SecondRun
    /\ last \in {"threw", "wrong", "as recorded", "written"}
    => ~scratch

(***************************************************************************)
(* The inductive invariant: a run that has not ended has claimed nothing,  *)
(* and one that is to write the guide has made .vale.ini true of what it   *)
(* measured and has removed its scratch copy.                              *)
(***************************************************************************)
IniWritten ==
    run = "to write the guide" =>
        /\ count = CountAsMeasured /\ header = HeaderAsMeasured
        /\ SecondRun => ~scratch

IInv ==
    /\ TypeOK
    /\ run # "none" => last = "none"
    /\ IniWritten
    /\ CheckIsExact /\ WriteSettles /\ ScratchIsRemoved
=============================================================================
