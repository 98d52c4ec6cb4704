------------------------------ MODULE MCReaders ------------------------------
(***************************************************************************)
(* Instances for TLC of the readers of tools/port-deps.cjs.  They share no *)
(* state, so one of them runs and the others stay as they begin.           *)
(*                                                                         *)
(* CargoDeps itself is the instance with every spelling of a dependency on *)
(* the repo json or parser, under its name or the alias engine; the reader *)
(* "toml" reads other documents, of two keys, dotted or not.               *)
(***************************************************************************)
EXTENDS CargoDeps, FiniteSets

CONSTANTS
    TomlHeaders, TomlKeys, TomlValues,   \* of TomlTables
    MaxCargoStatements,                  \* of CargoDeps
    NpmRepos, Specifiers, Keys, Package, MaxEntries,    \* of NpmDeps
    HeaderLines, MaxHeaderLines,                      \* of GoHeader
    Paths, MaxDecls, MaxSpecs,           \* of GoImports
    ModLines, Files, Module, Org, Hosts, MaxModLines, MaxFiles    \* of GoDeps

VARIABLES
    reader,                                              \* the one that runs
    sections, meta, broken,                              \* of NpmDeps
    lines, end, ended, inStar, goBuild, verdict,         \* of GoHeader
    decls, damaged, source, pos, at, group, out,         \* of GoImports
    modLines, block, module, requires,
    files, runtime, tests, external, modStatus           \* of GoDeps

npmVars == <<sections, meta, broken>>
headerVars == <<lines, end, ended, inStar, goBuild, verdict>>
importVars == <<decls, damaged, source, pos, at, group, out>>
goVars ==
    <<modLines, block, module, requires, files, runtime, tests, external, modStatus>>
readerVars == <<reader, vars, npmVars, headerVars, importVars, goVars>>

-----------------------------------------------------------------------------
MCHeaderKeys ==
    {<<"dependencies">>, <<"build-dependencies">>, <<"build_dependencies">>,
     <<"dev-dependencies">>, <<"target", "unix">>,
     <<"target", "unix", "dependencies", "engine">>}

\* The last stands at the root or below a target.
MCStatementKeys ==
    {<<"json">>, <<"engine">>, <<"optional">>, <<"package">>,
     <<"dependencies", "engine", "package">>}

MCValues ==
    {Plain("string", "parser"), Plain("bool", "true"),
     Inline(<<Field(<<"package">>, "string", "parser"), Field(<<"optional">>, "bool", "true")>>)}

MCItemNames == <<"#1", "#2", "#3", "#4", "#5">>

AB == {<<"a">>, <<"b">>}

MCTomlHeaders == AB \cup {<<"a", "b">>, <<"a", "b", "a">>, <<"b", "a">>}

MCTomlKeys == AB \cup {<<"a", "b">>, <<"b", "a">>}

MCTomlValues ==
    {Plain("string", "x"),
     Inline(<<Field(<<"a">>, "string", "y")>>),
     Inline(<<Field(<<"a", "b">>, "string", "y"), Field(<<"b">>, "bool", "true")>>),
     Inline(<<Field(<<"a">>, "string", "y"), Field(<<"a">>, "string", "z")>>)}

\* A version, no string, and an alias of a repo.
MCSpecifiers ==
    [alias : {FALSE}, name : {""}, string : BOOLEAN]
    \cup [alias : {TRUE}, name : {"json"}, string : {TRUE}]

Npm == INSTANCE NpmDeps WITH Repos <- NpmRepos

\* Lines of a piece, and lines where a comment begins or ends before
\* something else.
MCHeaderLines ==
    {<<>>, <<"/*">>, <<"*/">>, <<"code">>, <<"// text">>, <<"// +build ignore">>,
     <<"//go:build ignore">>, <<"//go:build linux">>,
     <<"/*", "*/">>, <<"*/", "code">>, <<"*/", "/*">>, <<"// text", "*/">>,
     <<"// text", "/*">>, <<"//go:build ignore", "*/">>,
     <<"/*", "*/", "//go:build ignore">>}

Header == INSTANCE GoHeader WITH Lines <- HeaderLines, MaxLines <- MaxHeaderLines

Imports == INSTANCE GoImports

\* A require of a module within another, an indirect one, blocks of two
\* directives, and a block that may stay open.
MCModule == <<Org, "jsonl", "go">>

Line(tokens) == [tokens |-> tokens, indirect |-> FALSE]

Word(w) == <<w>>
Ext == <<"ext.com">>
Sub == <<"ext.com", "sub">>

MCModLines ==
    {Line(<<>>), Line(<<Word("module"), Module>>), Line(<<Word("require"), Word("(")>>),
     Line(<<Word("exclude"), Word("(")>>), Line(<<Word(")")>>), Line(<<Ext, Word("v1")>>),
     Line(<<Word("require"), Ext, Word("v1")>>), Line(<<Word("require"), Sub, Word("v1")>>),
     [tokens |-> <<Word("require"), Sub, Word("v2")>>, indirect |-> TRUE],
     Line(<<Word("require"), Word("("), Ext, Word("v1")>>), Line(<<Word(")"), Word(")")>>)}

File(test, ignored, above, imports) ==
    [test |-> test, ignored |-> ignored, above |-> above, imports |-> imports]

MCFiles ==
    {File(test, FALSE, <<>>, paths) : test \in BOOLEAN,
        paths \in {{Module, <<Org, "parser", "go", "lex">>}, {<<Org, "json", "go">>}, {Sub}}}
    \cup {File(FALSE, FALSE, <<>>, {<<"fmt">>, <<"ext.com", "other">>})}
    \cup {File(FALSE, TRUE, <<>>, {<<Org, "json", "go">>}),
          File(FALSE, FALSE, <<"plain", "vendor">>, {<<Org, "json", "go">>}),
          File(FALSE, FALSE, <<"plain">>, {<<Org, "json", "go">>, Sub}),
          File(FALSE, FALSE, <<>>, {<<Org, "json">>})}

Go == INSTANCE GoDeps WITH lines <- modLines, status <- modStatus, MaxLines <- MaxModLines

ASSUME ConstantsAreRight ==
    /\ \A parts \in TomlHeaders \cup TomlKeys : Keyed(parts)
    /\ \A value \in TomlValues : Valued(value)
    /\ NoIdIsNoRepo /\ Npm!NoIdIsNoRepo
    /\ Npm!PackageIsARepo /\ Npm!MaxEntriesIsNat /\ Npm!SpecifiersAreKnown
    /\ Header!LinesOfPieces /\ Header!MaxLinesIsNat
    /\ Imports!BoundsAreNat
    /\ Go!ModuleIsOurs /\ Go!LinesAreTokens /\ Go!FilesAreKnown /\ Go!BoundsAreNat

-----------------------------------------------------------------------------
ReadersInit ==
    /\ reader \in {"toml", "cargo", "npm", "header", "imports", "go"}
    /\ Init /\ Npm!Init /\ Header!Init /\ Go!Init
    /\ IF reader = "imports" THEN Imports!Init
       ELSE /\ decls = <<>> /\ damaged = FALSE /\ source = <<>>
            /\ pos = 1 /\ at = "clause" /\ group = FALSE /\ out = <<>>

ReadsToml ==
    /\ reader = "toml" /\ Reads(TomlHeaders, TomlKeys, TomlValues)
    /\ UNCHANGED <<reader, npmVars, headerVars, importVars, goVars>>

ReadsCargo ==
    /\ reader = "cargo" /\ Len(doc) < MaxCargoStatements /\ Next
    /\ UNCHANGED <<reader, npmVars, headerVars, importVars, goVars>>

ReadsNpm ==
    reader = "npm" /\ Npm!Next /\ UNCHANGED <<reader, vars, headerVars, importVars, goVars>>

ReadsHeader ==
    reader = "header" /\ Header!Next /\ UNCHANGED <<reader, vars, npmVars, importVars, goVars>>

ReadsImports ==
    reader = "imports" /\ Imports!Next /\ UNCHANGED <<reader, vars, npmVars, headerVars, goVars>>

ReadsGo ==
    reader = "go" /\ Go!Next /\ UNCHANGED <<reader, vars, npmVars, headerVars, importVars>>

ReadersNext ==
    ReadsToml \/ ReadsCargo \/ ReadsNpm \/ ReadsHeader \/ ReadsImports \/ ReadsGo

ReadersSpec == ReadersInit /\ [][ReadersNext]_readerVars

-----------------------------------------------------------------------------
\* The properties of the readers, with the types of their variables.

\* TomlTables: the tree is that of the document: each value that was given,
\* once, in the table it was given for, and no other.
TreeIsTheDocument == reader \in {"toml", "cargo"} => IInv

\* CargoDeps: a dependency is read however it is spelled, and is optional
\* exactly when nothing requires it.
CargoAsStated == reader = "cargo" => EverySpellingRead /\ OptionalUnlessRequired

\* NpmDeps: so is one in package.json, whatever keys and sections it stands
\* under.
NpmAsInstalled ==
    reader = "npm" => Npm!TypeOK /\ Npm!EveryInstallRead /\ Npm!RequiredIsNotOptional

\* GoHeader and GoImports: a file is left out exactly when Go leaves it out,
\* a whole one has its imports read, and a damaged one is not read part way.
FilesReadAsGoDoes ==
    /\ reader = "header" => Header!IInv
    /\ reader = "imports" =>
          Imports!IInv /\ Imports!WholeFilesRead /\ Imports!NothingHidden

\* GoDeps: the requires read are those that stand in go.mod.
ModAsWritten == reader = "go" => Go!IInv /\ Go!ModAsWritten

\* GoDeps: nothing the port is built from goes unseen.
NothingUnseen == reader = "go" => Go!NothingUnseen
==============================================================================
