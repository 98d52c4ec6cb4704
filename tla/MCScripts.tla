------------------------------ MODULE MCScripts ------------------------------
(***************************************************************************)
(* Instances for TLC of the scripts that rewrite files: EmbedTranslate for *)
(* the two parts this repo has, ValeCounts, and ValeBlocks over counts     *)
(* that are right, wrong, wrapped over two lines, or of nothing.  They     *)
(* share no state, so one of them runs and the others stay as they begin.  *)
(***************************************************************************)
EXTENDS EmbedTranslate

CONSTANTS
    Rules, MaxHits, MaxFiles, MaxTerms, MaxEdits,     \* of ValeCounts
    IniLines, MaxLines, HitsOf                        \* of ValeBlocks

VARIABLES
    script,                                           \* the one that runs
    hits, files, terms, vale, level, count, header,   \* of ValeCounts
    guide, scratch, run, lastRun, edits,
    ini, original, writes                             \* of ValeBlocks

MCKinds == <<"render", "transduce">>

Counts == INSTANCE ValeCounts WITH last <- lastRun

countVars ==
    <<hits, files, terms, vale, level, count, header, guide, scratch, run, lastRun, edits>>
blockVars == <<ini, original, writes>>
scriptVars == <<script, vars, countVars, blockVars>>

MCHitsOf == [r \in {"a", "b"} |-> IF r = "a" THEN 0 ELSE 2]

\* The tokens and lines of ValeBlocks.
Number(n) == [t |-> "number", v |-> n]
Hits == [t |-> "hits", v |-> 0]
Other == [t |-> "word", v |-> 0]
Line(kind, tokens, rule, demoted) ==
    [kind |-> kind, tokens |-> tokens, rule |-> rule, demoted |-> demoted]

MCIniLines ==
    {Line("comment", tokens, "", FALSE) :
        tokens \in {<<Other>>, <<Number(1), Hits>>, <<Number(1)>>, <<Hits, Other>>}}
    \cup {Line("else", <<>>, "", FALSE), Line("rule", <<>>, "a", TRUE),
          Line("rule", <<>>, "b", TRUE), Line("rule", <<>>, "b", FALSE)}

Blocks == INSTANCE ValeBlocks WITH Lines <- IniLines

ASSUME ConstantsAreRight ==
    /\ Counts!RulesFinite /\ Counts!BoundsAreNat
    /\ Blocks!MaxLinesIsNat /\ Blocks!LinesAreKnown /\ Blocks!HitsAreCounts

ScriptsInit ==
    /\ script \in {"embed-translate", "vale-counts", "its blocks"}
    /\ Init
    /\ Counts!Init
    /\ script # "vale-counts" =>
          hits = [r \in Rules |-> 0] /\ files = 1 /\ terms = 0
    /\ IF script = "its blocks" THEN Blocks!Init
       ELSE ini = <<>> /\ original = <<>> /\ writes = 0

Embeds ==
    script = "embed-translate" /\ Next /\ UNCHANGED <<script, countVars, blockVars>>

CountsHits ==
    script = "vale-counts" /\ Counts!Next /\ UNCHANGED <<script, vars, blockVars>>

Rewrites ==
    script = "its blocks" /\ Blocks!Next /\ UNCHANGED <<script, vars, countVars>>

ScriptsSpec ==
    ScriptsInit /\ [][Embeds \/ CountsHits \/ Rewrites]_scriptVars

-----------------------------------------------------------------------------
\* The properties of the scripts, with the types of their variables or the
\* inductive invariant behind them; RefusalWritesNothing is EmbedTranslate's own.

\* EmbedTranslate: a run that ends leaves the ports with the same texts, and
\* those of the sources, unless they were edited meanwhile.
CopiesAreTrue == script = "embed-translate" => IInv /\ PortsAgree /\ CopiesAreCurrent

\* ValeCounts: a check passes exactly on a true record, one rewrite makes the
\* record true, and no run leaves its scratch copy behind.
RecordSettles ==
    script = "vale-counts" =>
        /\ Counts!IInv
        /\ Counts!CheckIsExact /\ Counts!WriteSettles /\ Counts!ScratchIsRemoved

\* ValeBlocks: after a rewrite each rule is right by what stands above it,
\* nothing is lost or reordered, and another rewrite changes nothing
\* (EveryRuleCounted, OnlyNumbersChange and WritingTwiceIsOnce, in IInv).
RewriteIsRight == script = "its blocks" => Blocks!IInv
==============================================================================
