----------------------------- MODULE GoImports -------------------------------
(***************************************************************************)
(* tools/port-deps.cjs: goImports.  The import paths of one Go file, read  *)
(* token by token from its start to the first declaration that is not an   *)
(* import.  Layout and comments are no tokens; text that does not lex is   *)
(* the token "bad".                                                        *)
(***************************************************************************)
EXTENDS Naturals, Sequences, SequencesExt, FiniteSets

CONSTANTS
    Paths,       \* import paths
    MaxDecls,    \* bound: import declarations of a file
    MaxSpecs     \* bound: imports of a file

\* An assumption of the constants.
BoundsAreNat == MaxDecls \in Nat /\ MaxSpecs \in Nat

VARIABLES
    decls,       \* the import declarations the file was written with
    damaged,     \* whether a token of it was then lost or changed
    source,      \* its tokens
    pos,         \* the next one
    at,          \* what is expected there
    group,       \* in a group of imports
    out

vars == <<decls, damaged, source, pos, at, group, out>>

Word(v) == [t |-> "word", v |-> v]
Punct(v) == [t |-> "punct", v |-> v]
String(path) == [t |-> "string", v |-> path]
Eof == [t |-> "eof", v |-> ""]
Bad == [t |-> "bad", v |-> ""]

Tokens ==
    {Word(v) : v \in {"package", "name", "import"}}
    \cup {Punct(v) : v \in {";", "(", ")", "."}}
    \cup {String(path) : path \in Paths \cup {"text"}}
    \cup {Bad}

-----------------------------------------------------------------------------
(* Files: a package clause, declarations of imports, other declarations.   *)

Specs == [alias : {<<>>, <<Word("name")>>, <<Punct(".")>>}, path : Paths]

Decls ==
    [group : {FALSE}, specs : [1 .. 1 -> Specs]]
    \cup [group : {TRUE}, specs : SeqOf(Specs, MaxSpecs)]

SpecTokens(spec) == Append(spec.alias, String(spec.path))

Stop(semicolons) == IF semicolons THEN <<Punct(";")>> ELSE <<>>

SpecsTokens(specs, semicolons) ==
    [k \in DOMAIN specs |-> SpecTokens(specs[k]) \o Stop(semicolons)]

DeclTokens(decl, semicolons) ==
    LET specs == FlattenSeq(SpecsTokens(decl.specs, semicolons))
    IN  <<Word("import")>>
        \o (IF decl.group
            THEN <<Punct("(")>> \o specs \o <<Punct(")")>> \o Stop(semicolons)
            ELSE specs)

DeclsTokens(ds, semicolons) == [i \in DOMAIN ds |-> DeclTokens(ds[i], semicolons)]

\* What follows the imports: nothing, or a declaration with strings in it.
Rests == {<<>>, <<Word("name"), String("text"), Word("import"), String("text")>>}

FileTokens(ds, semicolons, rest) ==
    <<Word("package"), Word("name")>>
    \o FlattenSeq(DeclsTokens(ds, semicolons))
    \o rest

PathsIn(decl) == [k \in DOMAIN decl.specs |-> decl.specs[k].path]

DeclsPaths(ds) == [i \in DOMAIN ds |-> PathsIn(ds[i])]

PathsOf(ds) == FlattenSeq(DeclsPaths(ds))

\* One of its tokens is lost, or is another.
Slips == {Bad, Punct("("), Punct(")")}

Damage(tokens) ==
    UNION {{RemoveAt(tokens, k)} \cup {[tokens EXCEPT ![k] = tok] : tok \in Slips} :
              k \in DOMAIN tokens}

Init ==
    /\ decls \in {ds \in SeqOf(Decls, MaxDecls) : Len(PathsOf(ds)) <= MaxSpecs}
    /\ \E semicolons \in BOOLEAN, rest \in Rests :
          LET tokens == FileTokens(decls, semicolons, rest)
          IN  \/ damaged = FALSE /\ source = tokens
              \/ damaged = TRUE /\ source \in Damage(tokens)
    /\ pos = 1
    /\ at = "clause"
    /\ group = FALSE
    /\ out = <<>>

-----------------------------------------------------------------------------
Token == IF pos <= Len(source) THEN source[pos] ELSE Eof

\* A step of the reader at one place, on a token it takes.
Takes(place, next) ==
    /\ at = place
    /\ pos' = pos + 1
    /\ at' = next
    /\ UNCHANGED <<decls, damaged, source>>

Clause == Token = Word("package") /\ Takes("clause", "name") /\ UNCHANGED <<group, out>>

Name == Token.t = "word" /\ Takes("name", "top") /\ UNCHANGED <<group, out>>

Separator ==
    /\ Token = Punct(";")
    /\ \/ ~group /\ Takes("top", "top")
       \/ group /\ Takes("spec", "spec")
    /\ UNCHANGED <<group, out>>

Import == Token = Word("import") /\ Takes("top", "import") /\ UNCHANGED <<group, out>>

OpenGroup ==
    /\ Token = Punct("(")
    /\ Takes("import", "spec")
    /\ group' = TRUE
    /\ UNCHANGED out

IsAlias(tok) == tok.t = "word" \/ tok = Punct(".")

Alias ==
    /\ IsAlias(Token)
    /\ Takes(IF group THEN "spec" ELSE "import", "path")
    /\ UNCHANGED <<group, out>>

\* Slip: after a path its group is over.
PathEndsGroup ==
    /\ Token.t = "string"
    /\ \E place \in {IF group THEN "spec" ELSE "import", "path"} : Takes(place, "top")
    /\ out' = Append(out, Token.v)
    /\ group' = FALSE

Path ==
    /\ Token.t = "string"
    /\ \E place \in {IF group THEN "spec" ELSE "import", "path"} :
          Takes(place, IF group THEN "spec" ELSE "top")
    /\ out' = Append(out, Token.v)
    /\ UNCHANGED group

\* Slip: the end of the file closes a group.
CloseGroupAtEof ==
    /\ Token \in {Punct(")"), Eof}
    /\ group
    /\ Takes("spec", "top")
    /\ group' = FALSE
    /\ UNCHANGED out

CloseGroup ==
    /\ Token = Punct(")")
    /\ Takes("spec", "top")
    /\ group' = FALSE
    /\ UNCHANGED out

\* The first thing that is no import: what comes after is not looked at.
Return ==
    /\ Token.t # "bad"
    /\ Token \notin {Punct(";"), Word("import")}
    /\ Takes("top", "returned")
    /\ UNCHANGED <<group, out>>

Reads ==
    \/ Clause \/ Name \/ Separator \/ Import \/ OpenGroup \/ Alias \/ Path \/ CloseGroup
    \/ Return

\* What can come at each place; anything else is not understood.
Understood ==
    CASE at = "clause" -> Token = Word("package")
      [] at = "name" -> Token.t = "word"
      [] at = "top" -> Token.t # "bad"
      [] at = "import" -> Token.t = "string" \/ IsAlias(Token) \/ Token = Punct("(")
      [] at = "spec" ->
            Token.t = "string" \/ IsAlias(Token) \/ Token \in {Punct(";"), Punct(")")}
      [] at = "path" -> Token.t = "string"

Refuse ==
    /\ at \notin {"returned", "unreadable"}
    /\ ~Understood
    /\ at' = "unreadable"
    /\ UNCHANGED <<decls, damaged, source, pos, group, out>>

Next == Reads \/ Refuse

Spec == Init /\ [][Next]_vars

-----------------------------------------------------------------------------
Places == {"clause", "name", "top", "import", "spec", "path", "returned", "unreadable"}

TypeOK ==
    /\ source \in Seq(Tokens)
    /\ decls \in Seq(Decls)
    /\ damaged \in BOOLEAN
    /\ group \in BOOLEAN
    /\ at \in Places
    /\ pos \in 1 .. Len(source) + (IF at = "returned" THEN 2 ELSE 1)
    /\ at = "returned" => pos # 1
    /\ out \in Seq(Paths \cup {"text"})
    /\ at = "spec" => group
    /\ at \in {"clause", "name", "top", "import", "returned"} => ~group

(***************************************************************************)
(* A file that is whole is read, and every import of it, in whichever form *)
(* it was declared, is found, in order, and nothing else that looks like   *)
(* one.                                                                    *)
(***************************************************************************)
WholeFilesRead ==
    ~damaged => /\ at # "unreadable"
                /\ at = "returned" => out = PathsOf(decls)

\* The tokens read: those before the one the reader is at, or returned at.
Taken == pos - (IF at = "returned" THEN 2 ELSE 1)

\* Of the first tokens of a text, the places of one, and of its strings.
PlacesOf(tok, text, n) == {k \in 1 .. n : text[k] = tok}
StringsOf(text, n) == {k \in 1 .. n : text[k].t = "string"}

\* Each string of those was reported, in order.
AllReported(said, text, n) ==
    /\ Len(said) = Cardinality(StringsOf(text, n))
    /\ \A k \in StringsOf(text, n) : text[k] = String(said[Cardinality(StringsOf(text, k))])

(***************************************************************************)
(* No file, however damaged, is read part way: where the reader returns,   *)
(* no group is open, every string before that place was reported, and what *)
(* it stopped at is no import.                                             *)
(***************************************************************************)
NothingHidden ==
    at = "returned" =>
        /\ Cardinality(PlacesOf(Punct("("), source, Taken)) =
              Cardinality(PlacesOf(Punct(")"), source, Taken))
        /\ AllReported(out, source, Taken)
        /\ pos - 1 \in DOMAIN source => source[pos - 1] # Word("import")

-----------------------------------------------------------------------------
(***************************************************************************)
(* The inductive invariant.  The reader is in a group when one more was    *)
(* opened than closed; what is left of a whole file is one of the places   *)
(* its grammar has, and what is left to report goes with it.               *)
(***************************************************************************)
ReadSoFar ==
    /\ Cardinality(PlacesOf(Punct("("), source, Taken)) =
          Cardinality(PlacesOf(Punct(")"), source, Taken)) + (IF group THEN 1 ELSE 0)
    /\ AllReported(out, source, Taken)
    /\ at = "returned" /\ pos - 1 \in DOMAIN source => source[pos - 1] # Word("import")

From(ss, i) == FlattenSeq(SubSeq(ss, i, Len(ss)))

\* A file from a declaration on, and from an import of its group on; and the
\* paths from there on.
DeclsLeft(file, i) == From(DeclsTokens(file.decls, file.semicolons), i) \o file.rest

SpecsLeft(file, i, k) ==
    From(SpecsTokens(file.decls[i].specs, file.semicolons), k)
    \o (<<Punct(")")>> \o (Stop(file.semicolons) \o DeclsLeft(file, i + 1)))

PathsLeft(file, i) == From(DeclsPaths(file.decls), i)

SpecPathsLeft(file, i, k) ==
    LET paths == PathsIn(file.decls[i])
    IN  SubSeq(paths, k, Len(paths)) \o PathsLeft(file, i + 1)

\* What is left from the path of an import on.
PathOn(file, i, k) ==
    <<String(file.decls[i].specs[k].path)>>
    \o (Stop(file.semicolons) \o (IF file.decls[i].group THEN SpecsLeft(file, i, k + 1)
                                  ELSE DeclsLeft(file, i + 1)))

\* What is left at a place, once some paths have been said.
LeftAtTop(file, left, said) ==
    \E i \in 1 .. Len(file.decls) + 1 :
        /\ left \in {DeclsLeft(file, i), Stop(file.semicolons) \o DeclsLeft(file, i)}
        /\ said \o PathsLeft(file, i) = PathsOf(file.decls)

LeftAtImport(file, left, said) ==
    \E i \in DOMAIN file.decls :
        /\ left = IF file.decls[i].group THEN <<Punct("(")>> \o SpecsLeft(file, i, 1)
                  ELSE file.decls[i].specs[1].alias \o PathOn(file, i, 1)
        /\ said \o SpecPathsLeft(file, i, 1) = PathsOf(file.decls)

LeftAtSpec(file, left, said) ==
    \E i \in DOMAIN file.decls : \E k \in 1 .. Len(file.decls[i].specs) + 1 :
        /\ file.decls[i].group
        /\ left \in {SpecsLeft(file, i, k), Stop(file.semicolons) \o SpecsLeft(file, i, k)}
        /\ said \o SpecPathsLeft(file, i, k) = PathsOf(file.decls)

LeftAtPath(file, grouped, left, said) ==
    \E i \in DOMAIN file.decls : \E k \in DOMAIN file.decls[i].specs :
        /\ grouped = file.decls[i].group
        /\ left = PathOn(file, i, k)
        /\ said \o SpecPathsLeft(file, i, k) = PathsOf(file.decls)

IsLeft(file, place, grouped, left, said) ==
    \/ /\ place = "clause" /\ said = <<>>
       /\ left = <<Word("package")>> \o (<<Word("name")>> \o DeclsLeft(file, 1))
    \/ place = "name" /\ said = <<>> /\ left = <<Word("name")>> \o DeclsLeft(file, 1)
    \/ place = "top" /\ LeftAtTop(file, left, said)
    \/ place = "import" /\ LeftAtImport(file, left, said)
    \/ place = "spec" /\ LeftAtSpec(file, left, said)
    \/ place = "path" /\ LeftAtPath(file, grouped, left, said)
    \/ place = "returned" /\ said = PathsOf(file.decls)

WholeSoFar ==
    ~damaged =>
        \E semicolons \in BOOLEAN, rest \in Rests :
            IsLeft([decls |-> decls, semicolons |-> semicolons, rest |-> rest],
                   at, group, SubSeq(source, pos, Len(source)), out)

IInv == TypeOK /\ ReadSoFar /\ WholeSoFar
=============================================================================
