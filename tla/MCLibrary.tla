------------------------------ MODULE MCLibrary ------------------------------
(***************************************************************************)
(* Instances for TLC of four parts of the library that share no state:     *)
(* DefaultParser, PluginInstall, JsonUnsafe and Render.  One of them runs, *)
(* and the others stay as they begin: run together, their states would     *)
(* multiply and show nothing more.                                         *)
(***************************************************************************)
EXTENDS DefaultParser

CONSTANTS
    MaxSteps,           \* of PluginInstall
    Leaves, Roots,      \* of JsonUnsafe
    MaxText             \* of Render

VARIABLES
    part,                               \* the part that runs
    engine, plugins, last, steps,       \* of PluginInstall
    holds, key, stack, onPath, why,     \* of JsonUnsafe
    s, out, whole, elements, status     \* of Render

pluginVars == <<engine, plugins, last, steps>>
unsafeVars == <<holds, key, stack, onPath, why>>
renderVars == <<s, out, whole, elements, status>>
libraryVars == <<part, vars, pluginVars, unsafeVars, renderVars>>

Plugin == INSTANCE PluginInstall
Unsafe == INSTANCE JsonUnsafe
Jsonl == INSTANCE Render

ASSUME ConstantsAreRight ==
    /\ Plugin!MaxStepsIsNat
    /\ Unsafe!LeavesAreKnown /\ Unsafe!RootsAreValues
    /\ Jsonl!MaxTextIsNat

\* The value that waits while another part runs.
AtRest ==
    /\ holds = [p \in Unsafe!Places |-> IF p = "root" THEN "struct" ELSE "text"]
    /\ key = "text"

LibraryInit ==
    /\ part \in {"first parse", "plugins", "walk", "render"}
    /\ Init
    /\ Plugin!Init
    /\ Unsafe!Init
    /\ part # "walk" => AtRest
    /\ Jsonl!Init

FirstParse ==
    part = "first parse" /\ Next /\ UNCHANGED <<part, pluginVars, unsafeVars, renderVars>>

Plugins ==
    part = "plugins" /\ Plugin!Next /\ UNCHANGED <<part, vars, unsafeVars, renderVars>>

Walk ==
    part = "walk" /\ Unsafe!Next /\ UNCHANGED <<part, vars, pluginVars, renderVars>>

Renders ==
    part = "render" /\ Jsonl!Next /\ UNCHANGED <<part, vars, pluginVars, unsafeVars>>

LibraryNext == FirstParse \/ Plugins \/ Walk \/ Renders

LibrarySpec ==
    LibraryInit /\ [][LibraryNext]_libraryVars /\ Fairness /\ WF_unsafeVars(Walk)

-----------------------------------------------------------------------------
\* The properties of the parts; ParsesWithAWholeEngine and OneEngineForAll are
\* DefaultParser's own.

\* The inductive invariant of each part, and that the walk is never deeper than
\* there are containers.
TypesOK ==
    /\ part = "first parse" => IInv
    /\ part = "plugins" => Plugin!IInv
    /\ part = "walk" => Unsafe!IInv /\ Unsafe!DepthBounded
    /\ part = "render" => Jsonl!IInv

\* Every call returns: a parse that waited for the first one, and a walk of
\* jsonUnsafe over a value that contains itself.
EveryCallEnds == EveryCallReturns /\ (part = "walk" => Unsafe!WalkEnds)

\* PluginInstall: what the plugin accepts becomes a strict parser of lines,
\* and what it refuses would not have become one.
BaseCheckIsExact ==
    part = "plugins" => Plugin!AcceptedIsStrict /\ Plugin!RefusalsAreNeeded

\* PluginInstall: applied twice, or to a child, the plugin does no harm.
AgainIsHarmless == [][Plugin!AgainChangesNothing]_pluginVars

\* JsonUnsafe: exactly the values encoding/json would corrupt are withheld.
WithheldWithReason == part = "walk" => Unsafe!WithheldWithReason

\* Render: the text is whole records, then the line being written, and a
\* finished one reads back as the document that was rendered.
RendersLines == part = "render" => Jsonl!WholeLines /\ Jsonl!ReadsBack

\* Render: the state is as long as the nesting is deep.
StateIsNesting == part = "render" => Jsonl!StateIsNesting
==============================================================================
