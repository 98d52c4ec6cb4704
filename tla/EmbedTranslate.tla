---------------------------- MODULE EmbedTranslate ---------------------------
(***************************************************************************)
(* ts/embed-translate.js.  One manifest and the sources it names are       *)
(* copied into three ports: into the text of ts/src/translate.ts, and as   *)
(* files under go/translate and rs/translate.  Maintainers edit manifest   *)
(* and sources at any time; a run may be killed anywhere, and run again.   *)
(*                                                                         *)
(* A text is its version, which no other text of its kind has.             *)
(***************************************************************************)
EXTENDS Naturals, Sequences, SequencesExt, FiniteSets

CONSTANTS
    Kinds,        \* the parts a manifest may name, in order
    MaxVersion,   \* bound: versions of one text
    MaxKills      \* bound: runs that are killed

ASSUME KindsAreNames == Kinds \in Seq(STRING)
ASSUME BoundsAreNat == MaxVersion \in Nat \ {0} /\ MaxKills \in Nat

VARIABLES
    manifest,     \* its version, what it gives each part, and whether it has an id
    source,       \* the version of each part's source
    read,         \* what a run has read
    toRead,       \* what it has yet to read,
    toWrite,      \* and then to write
    copies,       \* what is in each file
    last,         \* how the last run ended; "none" while one runs
    begun,        \* history: the copies when the last run began
    edited,       \* history: something was edited since then
    kills

sources == <<manifest, source>>
vars == <<sources, read, toRead, toWrite, copies, last, begun, edited, kills>>

Parts == ToSet(Kinds)

\* No text, the name of a part alchemy supplies itself, and a source file
\* that is there and has nothing in it.
None == 0
NameOnly == MaxVersion + 1
Empty == MaxVersion + 2

Values == {"nothing", "source", "name", "no string"}

ManifestJson == "manifest.json"

\* The manifest calls no part by the name of its own copies.
ASSUME ManifestIsNoPart == ManifestJson \notin Parts

\* A reading: the texts of manifest and parts.  The generated TypeScript
\* holds a whole one, a file of the other ports one text of it.
Blank == [x \in Parts \cup {ManifestJson} |-> None]

TranslateTs == <<"ts", "translate.ts">>

Files == ({"go", "rs"} \X (Parts \cup {ManifestJson})) \cup {TranslateTs}

Init ==
    /\ manifest = [version |-> 1, gives |-> [k \in Parts |-> "source"], named |-> TRUE]
    /\ source = [k \in Parts |-> 1]
    /\ read = Blank
    /\ toRead = <<>> /\ toWrite = <<>>
    /\ copies = [f \in Files |-> Blank]
    /\ last = "nothing yet"
    /\ begun = copies
    /\ edited = TRUE
    /\ kills = 0

-----------------------------------------------------------------------------
EditManifest ==
    /\ manifest.version < MaxVersion
    /\ \E k \in Parts, v \in Values, named \in BOOLEAN :
          manifest' = [version |-> manifest.version + 1,
                       gives |-> [manifest.gives EXCEPT ![k] = v], named |-> named]
    /\ edited' = TRUE
    /\ UNCHANGED <<source, read, toRead, toWrite, copies, last, begun, kills>>

EditSource(k) ==
    /\ source[k] < MaxVersion
    /\ \E text \in {source[k] + 1, Empty} : source' = [source EXCEPT ![k] = text]
    /\ edited' = TRUE
    /\ UNCHANGED <<manifest, read, toRead, toWrite, copies, last, begun, kills>>

Running == last = "none"

\* The manifest is read, and refused without an id or a translate object.
Start ==
    /\ ~Running
    /\ read' = [Blank EXCEPT ![ManifestJson] = manifest.version]
    /\ toRead' = IF manifest.named
                 THEN [i \in DOMAIN Kinds |-> <<Kinds[i], manifest.gives[Kinds[i]]>>]
                 ELSE <<>>
    /\ last' = IF manifest.named THEN "none" ELSE "refused"
    /\ begun' = copies
    /\ edited' = FALSE
    /\ UNCHANGED <<sources, toWrite, copies, kills>>

\* Slip: an empty or strange value is taken for a name.
PartOfAny(k, v) ==
    CASE v = "nothing" -> None [] v = "source" -> source[k] [] OTHER -> Empty + 1

\* What a part is read as, once it is known to be a string.
PartOf(k, v) ==
    CASE v = "nothing" -> None [] v = "source" -> source[k] [] v = "name" -> NameOnly
      [] OTHER -> None

Accepts(v) == v # "no string"

\* part: each is checked and its source read, before anything is written.
ReadPart ==
    /\ Running /\ toRead # <<>>
    /\ LET k == Head(toRead)[1]
           v == Head(toRead)[2]
       IN  IF Accepts(v)
           THEN /\ read' = [read EXCEPT ![k] = PartOf(k, v)]
                /\ toRead' = Tail(toRead)
                /\ UNCHANGED last
           ELSE /\ last' = "refused" /\ toRead' = <<>> /\ UNCHANGED read
    /\ UNCHANGED <<sources, toWrite, copies, begun, edited, kills>>

Directory(rt) ==
    <<<<rt, ManifestJson>>>> \o [i \in 1 .. Len(Kinds) |-> <<rt, Kinds[i]>>]

\* Slip: the Rust port is forgotten.
FilesToWriteTsGo == <<TranslateTs>> \o Directory("go")

\* The generated file, then each directory: the manifest, and the parts.
FilesToWrite == <<TranslateTs>> \o Directory("go") \o Directory("rs")

\* Slip: the first files are written before the last part is read.
StartWritingEarly ==
    /\ Running /\ toWrite = <<>>
    /\ toWrite' = FilesToWrite
    /\ UNCHANGED <<sources, read, toRead, copies, last, begun, edited, kills>>

StartWriting ==
    /\ Running /\ toRead = <<>> /\ toWrite = <<>>
    /\ toWrite' = FilesToWrite
    /\ UNCHANGED <<sources, read, toRead, copies, last, begun, edited, kills>>

Texts(x) == [Blank EXCEPT ![x] = read[x]]

\* Slip: a source is copied as it is when its turn comes.
ContentCopied(f) ==
    IF f = TranslateTs THEN read
    ELSE IF f[2] \in Parts THEN [Blank EXCEPT ![f[2]] = source[f[2]]] ELSE Texts(f[2])

Content(f) == IF f = TranslateTs THEN read ELSE Texts(f[2])

\* The file of a part without a source, or with an empty one, stays as it is.
IsWritten(f) ==
    \/ f = TranslateTs \/ f[2] = ManifestJson
    \/ read[f[2]] \notin {None, NameOnly, Empty}

WriteFile ==
    /\ Running /\ toWrite # <<>>
    /\ LET f == Head(toWrite)
       IN  copies' = IF IsWritten(f) THEN [copies EXCEPT ![f] = Content(f)] ELSE copies
    /\ toWrite' = Tail(toWrite)
    /\ last' = IF toWrite' = <<>> THEN "done" ELSE last
    /\ UNCHANGED <<sources, read, toRead, begun, edited, kills>>

Kill ==
    /\ Running
    /\ kills < MaxKills
    /\ kills' = kills + 1
    /\ toRead' = <<>> /\ toWrite' = <<>>
    /\ last' = "killed"
    /\ UNCHANGED <<sources, read, copies, begun, edited>>

Next ==
    \/ EditManifest \/ (\E k \in Parts : EditSource(k))
    \/ Start \/ ReadPart \/ StartWriting \/ WriteFile \/ Kill

Spec == Init /\ [][Next]_vars

-----------------------------------------------------------------------------
Reading == [Parts \cup {ManifestJson} -> 0 .. Empty]

TypeOK ==
    /\ manifest \in [version : 1 .. MaxVersion, gives : [Parts -> Values], named : BOOLEAN]
    /\ source \in [Parts -> (1 .. MaxVersion) \cup {Empty}]
    /\ read \in Reading
    /\ toRead \in Seq(Parts \X Values)
    /\ toWrite \in Seq(Files)
    /\ copies \in [Files -> Reading]
    /\ last \in {"nothing yet", "none", "done", "refused", "killed"}
    /\ edited \in BOOLEAN /\ kills \in 0 .. MaxKills

(***************************************************************************)
(* A run that ends leaves the three ports with the same texts, those of    *)
(* one reading, also when manifest or sources were edited meanwhile.  An   *)
(* empty source is the exception: the test that leaves a part without a    *)
(* text out (embed-translate.js:108) leaves it out too.                    *)
(***************************************************************************)
PortsAgree ==
    last = "done" =>
        \A rt \in {"go", "rs"}, x \in Parts \cup {ManifestJson} :
            LET text == copies[TranslateTs][x]
            IN  text \notin {None, NameOnly, Empty} => copies[<<rt, x>>][x] = text

HasText(k) == manifest.gives[k] = "source" /\ source[k] # Empty

(***************************************************************************)
(* Unless something was edited since it began, what such a run leaves is   *)
(* what the sources say now.                                               *)
(***************************************************************************)
CopiesAreCurrent ==
    last = "done" /\ ~edited =>
        /\ \A rt \in {"go", "rs"} : copies[<<rt, ManifestJson>>][ManifestJson] = manifest.version
        /\ copies[TranslateTs][ManifestJson] = manifest.version
        /\ \A k \in Parts :
              /\ manifest.gives[k] # "source" => copies[TranslateTs][k] \in {None, NameOnly}
              /\ manifest.gives[k] = "source" => copies[TranslateTs][k] = source[k]
              /\ HasText(k) => \A rt \in {"go", "rs"} : copies[<<rt, k>>][k] = source[k]

(***************************************************************************)
(* A run that refuses the manifest has written nothing: it checks every    *)
(* part first.                                                             *)
(***************************************************************************)
RefusalWritesNothing == last = "refused" => copies = begun

(***************************************************************************)
(* The inductive invariant behind them.  A run writes only when it has     *)
(* read everything; what it has written by then is of its one reading; and *)
(* unless something was edited since, what it has read is what is there,   *)
(* and so is what it has yet to read.                                      *)
(***************************************************************************)
ReadsThenWrites ==
    /\ toRead # <<>> => Running /\ toWrite = <<>>
    /\ toWrite # <<>> => Running
    /\ (Running /\ toWrite = <<>>) \/ last = "refused" => copies = begun

WrittenAsRead ==
    toWrite # <<>> \/ last = "done" =>
        \A f \in Files \ ToSet(toWrite) : IsWritten(f) => copies[f] = Content(f)

ReadIsCurrent ==
    (Running \/ last = "done") /\ ~edited =>
        /\ read[ManifestJson] = manifest.version
        /\ \A k \in Parts :
              (\A i \in DOMAIN toRead : toRead[i][1] # k)
              => read[k] = PartOf(k, manifest.gives[k])
        /\ \A i \in DOMAIN toRead : toRead[i][2] = manifest.gives[toRead[i][1]]

IInv == TypeOK /\ ReadsThenWrites /\ WrittenAsRead /\ ReadIsCurrent
=============================================================================
