------------------------------- MODULE GoDeps --------------------------------
(***************************************************************************)
(* tools/port-deps.cjs: readGo.  The dependencies of the Go port: go.mod   *)
(* read line by line, then the imports of every file the walk finds.       *)
(*                                                                         *)
(* A path is the sequence of its elements.  What goIgnored and goImports   *)
(* make of a file's text is an input (modules GoHeader and GoImports).     *)
(***************************************************************************)
EXTENDS Naturals, Sequences, SequencesExt, FiniteSets

CONSTANTS
    ModLines,     \* lines of a go.mod
    Files,        \* files of the tree
    Module,       \* the port's own module
    Org,          \* the element that stands for github.com/<org>
    Hosts,        \* first elements with a dot, Org among them
    MaxLines, MaxFiles    \* bounds

\* No path.
None == <<>>

\* Assumptions of the constants.
ModuleIsOurs == Module[1] = Org /\ Org \in Hosts
LinesAreTokens ==
    \A line \in ModLines :
        line.tokens \in Seq(Seq(STRING) \ {None}) /\ line.indirect \in BOOLEAN
FilesAreKnown ==
    \A file \in Files :
        /\ file.test \in BOOLEAN /\ file.ignored \in BOOLEAN
        /\ file.imports \subseteq Seq(STRING) \ {None}
BoundsAreNat == MaxLines \in Nat /\ MaxFiles \in Nat

VARIABLES
    lines,        \* of go.mod, read so far
    block,        \* the verb whose block is open, or None
    module, requires,
    files,        \* read so far
    runtime, tests, external,
    status        \* "go.mod", "files", "read" or "unreadable"

modVars == <<lines, block, module, requires>>
fileVars == <<files, runtime, tests, external>>
vars == <<modVars, fileVars, status>>

Init ==
    /\ lines = <<>> /\ block = None /\ module = None /\ requires = <<>>
    /\ files = <<>> /\ runtime = {} /\ tests = {} /\ external = {}
    /\ status = "go.mod"

-----------------------------------------------------------------------------
(* parseGoMod.  A line is its tokens, and whether its note says indirect;  *)
(* a token that is no path is one of one element.                          *)

\* A directive, in a block or alone: its arguments and what it declares.
Directive(verb, args, indirect) ==
    /\ module' = IF verb = <<"module">> THEN args[1] ELSE module
    /\ requires' = IF verb = <<"require">>
                   THEN Append(requires, [path |-> args[1], indirect |-> indirect])
                   ELSE requires

Fits(verb, args) ==
    /\ verb = <<"module">> => Len(args) = 1 /\ module = None
    /\ verb = <<"require">> => Len(args) = 2

\* An opener, outside a block, and a closer, in one.
IsOpener(line) ==
    block = None /\ Len(line.tokens) > 1 /\ line.tokens[2] = <<"(">>

IsCloser(line) ==
    block # None /\ line.tokens # <<>> /\ Head(line.tokens) = <<")">>

ModLine(line) ==
    status = "go.mod" /\ Len(lines) < MaxLines /\ lines' = Append(lines, line)

Blank(line) ==
    /\ ModLine(line)
    /\ line.tokens = <<>>
    /\ UNCHANGED <<block, module, requires, fileVars, status>>

OpenBlock(line) ==
    /\ ModLine(line)
    /\ IsOpener(line)
    /\ IF Len(line.tokens) = 2
       THEN block' = line.tokens[1] /\ status' = status
       ELSE block' = block /\ status' = "unreadable"
    /\ UNCHANGED <<module, requires, fileVars>>

CloseBlock(line) ==
    /\ ModLine(line)
    /\ IsCloser(line)
    /\ IF Len(line.tokens) = 1
       THEN block' = None /\ status' = status
       ELSE block' = block /\ status' = "unreadable"
    /\ UNCHANGED <<module, requires, fileVars>>

\* Slip: any line in a block is a require.
DirectiveLineRequires(line) ==
    LET verb == IF block = None THEN Head(line.tokens) ELSE <<"require">>
        args == IF block = None THEN Tail(line.tokens) ELSE line.tokens
    IN  /\ ModLine(line)
        /\ line.tokens # <<>> /\ ~IsOpener(line) /\ ~IsCloser(line)
        /\ \/ /\ Fits(verb, args)
              /\ Directive(verb, args, line.indirect)
              /\ status' = status
           \/ /\ ~Fits(verb, args)
              /\ status' = "unreadable"
              /\ UNCHANGED <<module, requires>>
        /\ UNCHANGED <<block, fileVars>>

DirectiveLine(line) ==
    LET verb == IF block = None THEN Head(line.tokens) ELSE block
        args == IF block = None THEN Tail(line.tokens) ELSE line.tokens
    IN  /\ ModLine(line)
        /\ line.tokens # <<>> /\ ~IsOpener(line) /\ ~IsCloser(line)
        /\ \/ /\ Fits(verb, args)
              /\ Directive(verb, args, line.indirect)
              /\ status' = status
           \/ /\ ~Fits(verb, args)
              /\ status' = "unreadable"
              /\ UNCHANGED <<module, requires>>
        /\ UNCHANGED <<block, fileVars>>

EndOfMod ==
    /\ status = "go.mod"
    /\ status' = IF block = None /\ module # None THEN "files" ELSE "unreadable"
    /\ UNCHANGED <<modVars, fileVars>>

-----------------------------------------------------------------------------
(* goFiles: what the walk passes by, by the kinds of the entries above.    *)

NotWalked ==
    {"symlink", "begins with . or _", "vendor", "testdata", "node_modules", "has go.mod"}

Walked(file) == \A i \in DOMAIN file.above : file.above[i] \notin NotWalked

Within(prefix, path) == IsPrefix(prefix, path)

InOrg(path) == path[1] = Org

\* GO_IMPORT_RE: <org>/<id>/go, and what is below it.
Named(path) == Len(path) >= 3 /\ path[3] = "go"

Imports(file) == {path \in file.imports : ~Within(module, path)}

OrgIds(file) == {path[2] : path \in {p \in Imports(file) : InOrg(p)}}

IsOther(path) == path[1] \in Hosts \ {Org}

\* Slip: the first required module that fits, not the longest.
ProviderFirst(path) ==
    LET fits == SelectSeq(requires, LAMBDA r : Within(r.path, path))
    IN  IF fits = <<>> THEN {} ELSE {fits[1]}

\* The required module a package comes from: the longest path, and of two
\* requires of one module the first.
Provider(path) ==
    LET fits == {i \in DOMAIN requires : Within(requires[i].path, path)}
        longest == {i \in fits : \A j \in fits : Len(requires[j].path) <= Len(requires[i].path)}
    IN  {requires[i] : i \in {k \in longest : \A j \in longest : k <= j}}

Externals(file) ==
    {r.path : r \in {q \in UNION {Provider(path) : path \in {p \in Imports(file) : IsOther(p)}} :
                        ~q.indirect}}

ReadFile(file) ==
    LET counts == Walked(file) /\ ~file.ignored
        strange == counts /\ \E path \in Imports(file) : InOrg(path) /\ ~Named(path)
    IN  /\ status = "files"
        /\ Len(files) < MaxFiles
        /\ files' = Append(files, file)
        /\ status' = IF strange THEN "unreadable" ELSE status
        /\ LET ids == IF counts /\ ~strange THEN OrgIds(file) ELSE {}
           IN  /\ runtime' = runtime \cup (IF file.test THEN {} ELSE ids)
               /\ tests' = tests \cup (IF file.test THEN ids ELSE {})
        /\ external' = external \cup (IF counts /\ ~strange /\ ~file.test
                                      THEN Externals(file) ELSE {})
        /\ UNCHANGED modVars

EndOfFiles ==
    /\ status = "files"
    /\ status' = "read"
    /\ UNCHANGED <<modVars, fileVars>>

Dev == tests \ runtime

Next ==
    \/ \E line \in ModLines : Blank(line) \/ OpenBlock(line) \/ CloseBlock(line) \/ DirectiveLine(line)
    \/ EndOfMod
    \/ \E file \in Files : ReadFile(file)
    \/ EndOfFiles

Spec == Init /\ [][Next]_vars

-----------------------------------------------------------------------------
TypeOK ==
    /\ status \in {"go.mod", "files", "read", "unreadable"}
    /\ lines \in Seq(ModLines) /\ files \in Seq(Files)
    /\ module \in Seq(STRING)
    /\ requires \in Seq([path : Seq(STRING), indirect : BOOLEAN])
    /\ status = "go.mod" => files = <<>>
    /\ block = None \/ \E l \in ModLines : l.tokens # <<>> /\ block = Head(l.tokens)
    /\ status \in {"files", "read"} => block = None /\ module # None
    /\ runtime \cup tests \subseteq
          {path[2] : path \in {p \in UNION {f.imports : f \in Files} : InOrg(p) /\ Len(p) > 1}}

(***************************************************************************)
(* What go.mod says of itself, line by line: the block a line is in is     *)
(* that of the last line before it that opened one, if none closed it.     *)
(***************************************************************************)
Opens(k) == Len(lines[k].tokens) = 2 /\ lines[k].tokens[2] = <<"(">>

Closes(k) == lines[k].tokens = <<<<")">>>>

BlockOf(k) ==
    {lines[j].tokens[1] : j \in
        {i \in 1 .. k - 1 : Opens(i) /\ \A c \in i + 1 .. k - 1 : ~Closes(c)}}

Says(verb) ==
    {k \in DOMAIN lines :
        /\ ~Opens(k) /\ ~Closes(k) /\ lines[k].tokens # <<>>
        /\ \/ BlockOf(k) = {verb}
           \/ BlockOf(k) = {} /\ Head(lines[k].tokens) = verb}

\* Go refuses a block within a block.
GoAccepts == \A k \in DOMAIN lines : Opens(k) => BlockOf(k) = {}

Arguments(k) == IF BlockOf(k) = {} THEN Tail(lines[k].tokens) ELSE lines[k].tokens

(***************************************************************************)
(* A go.mod that is read, and that Go accepts, has one module directive    *)
(* and closes every block it opens, and the requires that were read are    *)
(* those that stand in it, alone or in a block, none of another            *)
(* directive's among them.                                                 *)
(***************************************************************************)
ModAsWritten ==
    status \in {"files", "read"} /\ GoAccepts =>
        /\ BlockOf(Len(lines) + 1) = {}
        /\ \E k \in Says(<<"module">>) : Says(<<"module">>) = {k} /\ Arguments(k) = <<module>>
        /\ {[path |-> Arguments(k)[1], indirect |-> lines[k].indirect] : k \in Says(<<"require">>)}
              = ToSet(requires)
        /\ \A k \in Says(<<"require">>) : Len(Arguments(k)) = 2

(***************************************************************************)
(* Nothing the port is built from goes unseen: each import of a file that  *)
(* is walked and not left out is the port's own, the standard library's,   *)
(* reported, or of a module nobody requires directly.  Only what no        *)
(* runtime file uses is for development.  (Of two requires of one module   *)
(* the first decides whether it is direct.)                                *)
(***************************************************************************)
Built(test) ==
    UNION {files[i].imports : i \in
        {j \in DOMAIN files : files[j].test = test /\ ~files[j].ignored
                              /\ ToSet(files[j].above) \cap NotWalked = {}}}

DirectFor(path) ==
    {r \in ToSet(requires) : /\ IsPrefix(r.path, path) /\ ~r.indirect
                             /\ \A q \in ToSet(requires) :
                                   IsPrefix(q.path, path) =>
                                       IsPrefix(q.path, r.path) /\ (q.path = r.path => q = r)}

NothingUnseen ==
    status = "read" =>
        /\ \A path \in Built(FALSE) :
              \/ IsPrefix(module, path) \/ path[1] \notin Hosts
              \/ path[1] = Org /\ path[2] \in runtime
              \/ path[1] # Org /\ \A r \in DirectFor(path) : r.path \in external
        /\ \A path \in Built(TRUE) :
              IsPrefix(module, path) \/ path[1] # Org \/ path[2] \in runtime \cup Dev
        /\ \A id \in Dev : \A path \in Built(FALSE) :
              path[1] = Org /\ path[2] = id => IsPrefix(module, path)

(***************************************************************************)
(* The inductive invariant.  While a line of go.mod is yet to be read, the *)
(* reader is in the block the lines so far say, and has the module and the *)
(* requires they say; while a file is, every import of those so far is     *)
(* accounted for.                                                          *)
(***************************************************************************)
ModSoFar ==
    status # "unreadable" /\ GoAccepts =>
        /\ BlockOf(Len(lines) + 1) = (IF block = None THEN {} ELSE {block})
        /\ IF module = None THEN Says(<<"module">>) = {}
           ELSE \E k \in Says(<<"module">>) :
                    Says(<<"module">>) = {k} /\ Arguments(k) = <<module>>
        /\ \A k \in Says(<<"require">>) : Len(Arguments(k)) = 2
        /\ {[path |-> Arguments(k)[1], indirect |-> lines[k].indirect] :
               k \in Says(<<"require">>)} = ToSet(requires)

SeenSoFar ==
    status # "unreadable" =>
        \A i \in DOMAIN files :
            Walked(files[i]) /\ ~files[i].ignored =>
                /\ \A path \in Imports(files[i]) : InOrg(path) => Named(path)
                /\ OrgIds(files[i]) \subseteq (IF files[i].test THEN tests ELSE runtime)
                /\ ~files[i].test => Externals(files[i]) \subseteq external

IInv == TypeOK /\ ModSoFar /\ SeenSoFar
=============================================================================
