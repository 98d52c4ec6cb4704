---------------------------- MODULE ScriptsProofs ----------------------------
(***************************************************************************)
(* Proofs about the scripts that rewrite files: EmbedTranslate, for any    *)
(* parts; ValeCounts, for any rules, files and counts; and ValeBlocks, for *)
(* any lines and any report.                                               *)
(***************************************************************************)
EXTENDS MCScripts, TLAPS, FiniteSetTheorems, Recursion

-----------------------------------------------------------------------------
(* EmbedTranslate.                                                         *)

\* The parts are the kinds, each at its place.
LEMMA PartsAreKinds ==
    /\ \A i \in 1 .. Len(Kinds) : Kinds[i] \in Parts
    /\ \A k \in Parts : \E i \in 1 .. Len(Kinds) : Kinds[i] = k
  BY KindsAreNames DEF Parts, ToSet

\* One sequence after another: its places, then those of the other.
LEMMA OneAfterAnother ==
    ASSUME NEW S, NEW xs \in Seq(S), NEW ys \in Seq(S)
    PROVE  /\ xs \o ys \in Seq(S)
           /\ Len(xs \o ys) = Len(xs) + Len(ys)
           /\ \A i \in 1 .. Len(xs) : (xs \o ys)[i] = xs[i]
           /\ \A i \in 1 .. Len(ys) : (xs \o ys)[Len(xs) + i] = ys[i]
  OBVIOUS

\* A directory's files are the manifest and one for each part.
LEMMA DirectoryFiles ==
    ASSUME NEW rt \in {"go", "rs"}
    PROVE  /\ Directory(rt) \in Seq(Files)
           /\ \A x \in Parts \cup {ManifestJson} :
                 \E i \in 1 .. Len(Directory(rt)) : Directory(rt)[i] = <<rt, x>>
  <1>. DEFINE parts == [i \in 1 .. Len(Kinds) |-> <<rt, Kinds[i]>>]
              first == <<rt, ManifestJson>>
  <1>1. parts \in Seq(Files) /\ Len(parts) = Len(Kinds)
    BY PartsAreKinds, KindsAreNames DEF Files
  <1>2. first \in Files
    BY DEF Files
  <1>3. Directory(rt) = <<first>> \o parts
    BY DEF Directory
  <1>4. \A i \in 1 .. Len(Kinds) : parts[i] = <<rt, Kinds[i]>>
    OBVIOUS
  <1>. HIDE DEF parts, first
  <1>5. Directory(rt) \in Seq(Files)
    BY <1>1, <1>2, <1>3, OneAfterAnother
  <1>6. /\ Len(Directory(rt)) = 1 + Len(parts)
        /\ Directory(rt)[1] = first
        /\ \A i \in 1 .. Len(parts) : Directory(rt)[1 + i] = parts[i]
    <2>1. <<first>> \in Seq(Files) /\ Len(<<first>>) = 1 /\ <<first>>[1] = first
      BY <1>2
    <2>. QED
      BY <1>1, <1>3, <2>1, OneAfterAnother
  <1>7. ASSUME NEW x \in Parts \cup {ManifestJson}
        PROVE  \E i \in 1 .. Len(Directory(rt)) : Directory(rt)[i] = <<rt, x>>
    <2>1. CASE x = ManifestJson
      <3>1. Directory(rt)[1] = <<rt, x>> /\ 1 \in 1 .. Len(Directory(rt))
        BY <1>1, <1>6, <2>1 DEF first
      <3>. QED
        BY <3>1
    <2>2. CASE x \in Parts
      <3>1. PICK i \in 1 .. Len(Kinds) : Kinds[i] = x
        BY <2>2, PartsAreKinds
      <3>2. Directory(rt)[1 + i] = <<rt, x>>
        BY <1>1, <1>4, <1>6, <3>1
      <3>3. 1 + i \in 1 .. Len(Directory(rt))
        BY <1>1, <1>6
      <3>. QED
        BY <3>2, <3>3
    <2>. QED
      BY <2>1, <2>2
  <1>. QED
    BY <1>5, <1>7

\* A run sees to every file.
LEMMA EveryFile ==
    /\ FilesToWrite \in Seq(Files) /\ FilesToWrite # <<>>
    /\ Files \subseteq ToSet(FilesToWrite)
  <1>. DEFINE go == Directory("go")
              rs == Directory("rs")
              ts == <<TranslateTs>>
  <1>1. go \in Seq(Files) /\ rs \in Seq(Files) /\ ts \in Seq(Files) /\ Len(ts) = 1
    BY DirectoryFiles DEF Files
  <1>2. FilesToWrite = ts \o go \o rs /\ ts[1] = TranslateTs
    BY DEF FilesToWrite
  <1>3. /\ \A x \in Parts \cup {ManifestJson} :
              \E i \in 1 .. Len(go) : go[i] = <<"go", x>>
        /\ \A x \in Parts \cup {ManifestJson} :
              \E i \in 1 .. Len(rs) : rs[i] = <<"rs", x>>
    BY DirectoryFiles
  <1>. HIDE DEF go, rs, ts
  <1>4. /\ FilesToWrite \in Seq(Files)
        /\ Len(FilesToWrite) = 1 + Len(go) + Len(rs)
        /\ FilesToWrite[1] = TranslateTs
        /\ \A i \in 1 .. Len(go) : FilesToWrite[1 + i] = go[i]
        /\ \A i \in 1 .. Len(rs) : FilesToWrite[1 + Len(go) + i] = rs[i]
    <2>. DEFINE both == ts \o go
    <2>1. /\ both \in Seq(Files) /\ Len(both) = 1 + Len(go)
          /\ both[1] = ts[1] /\ \A i \in 1 .. Len(go) : both[1 + i] = go[i]
      <3>1. ts \o go \in Seq(Files) /\ Len(ts \o go) = Len(ts) + Len(go)
        BY <1>1, OneAfterAnother
      <3>2. \A i \in 1 .. Len(ts) : (ts \o go)[i] = ts[i]
        BY <1>1, OneAfterAnother
      <3>3. \A i \in 1 .. Len(go) : (ts \o go)[Len(ts) + i] = go[i]
        BY SMTT(20), <1>1, OneAfterAnother
      <3>. QED
        BY <1>1, <3>1, <3>2, <3>3
    <2>2. FilesToWrite = both \o rs
      BY <1>2
    <2>. HIDE DEF both
    <2>3. /\ FilesToWrite \in Seq(Files) /\ Len(FilesToWrite) = Len(both) + Len(rs)
          /\ \A i \in 1 .. Len(both) : FilesToWrite[i] = both[i]
          /\ \A i \in 1 .. Len(rs) : FilesToWrite[Len(both) + i] = rs[i]
      <3>1. both \o rs \in Seq(Files) /\ Len(both \o rs) = Len(both) + Len(rs)
        BY <1>1, <2>1, OneAfterAnother
      <3>2. /\ \A i \in 1 .. Len(both) : (both \o rs)[i] = both[i]
            /\ \A i \in 1 .. Len(rs) : (both \o rs)[Len(both) + i] = rs[i]
        BY <1>1, <2>1, OneAfterAnother
      <3>. QED
        BY <2>2, <3>1, <3>2
    <2>4. \A i \in 1 .. Len(go) : 1 + i \in 1 .. Len(both)
      BY <1>1, <2>1
    <2>5. 1 \in 1 .. Len(both)
      BY <1>1, <2>1
    <2>. QED
      BY <1>2, <2>1, <2>3, <2>4, <2>5
  <1>5. ASSUME NEW f \in Files
        PROVE  \E i \in 1 .. Len(FilesToWrite) : FilesToWrite[i] = f
    <2>1. CASE f = TranslateTs
      BY <1>1, <1>4, <2>1
    <2>2. ASSUME NEW x \in Parts \cup {ManifestJson}, f = <<"go", x>>
          PROVE  \E i \in 1 .. Len(FilesToWrite) : FilesToWrite[i] = f
      <3>1. PICK i \in 1 .. Len(go) : go[i] = <<"go", x>>
        BY <1>3
      <3>2. FilesToWrite[1 + i] = f /\ 1 + i \in 1 .. Len(FilesToWrite)
        BY <1>1, <1>4, <2>2, <3>1
      <3>. QED
        BY <3>2
    <2>3. ASSUME NEW x \in Parts \cup {ManifestJson}, f = <<"rs", x>>
          PROVE  \E i \in 1 .. Len(FilesToWrite) : FilesToWrite[i] = f
      <3>1. PICK i \in 1 .. Len(rs) : rs[i] = <<"rs", x>>
        BY <1>3
      <3>2. /\ FilesToWrite[1 + Len(go) + i] = f
            /\ 1 + Len(go) + i \in 1 .. Len(FilesToWrite)
        BY <1>1, <1>4, <2>3, <3>1
      <3>. QED
        BY <3>2
    <2>. QED
      BY <2>1, <2>2, <2>3 DEF Files
  <1>6. FilesToWrite # <<>>
    BY <1>1, <1>4
  <1>. QED
    BY <1>4, <1>5, <1>6 DEF ToSet

-----------------------------------------------------------------------------
\* What the type invariant says of the texts there are.
LEMMA Typed ==
    ASSUME IInv
    PROVE  /\ manifest.version \in Nat /\ manifest.version >= 1
           /\ manifest.version <= MaxVersion
           /\ manifest.gives \in [Parts -> Values]
           /\ manifest.named \in BOOLEAN
           /\ source \in [Parts -> (1 .. MaxVersion) \cup {Empty}]
  <1>1. /\ manifest \in [version : 1 .. MaxVersion, gives : [Parts -> Values],
                          named : BOOLEAN]
        /\ source \in [Parts -> (1 .. MaxVersion) \cup {Empty}]
    BY DEF IInv, TypeOK
  <1>. QED
    BY <1>1, BoundsAreNat

\* Nothing was read when a program starts.
LEMMA InitIInv == Init => IInv
  <1>. SUFFICES ASSUME Init PROVE IInv
    OBVIOUS
  <1>1. 1 \in 1 .. MaxVersion /\ None \in 0 .. Empty
    BY BoundsAreNat DEF None, Empty
  <1>2. TypeOK
    <2>1. Blank \in Reading
      BY <1>1 DEF Blank, Reading
    <2>2. manifest \in [version : 1 .. MaxVersion, gives : [Parts -> Values], named : BOOLEAN]
      BY <1>1 DEF Init, Values
    <2>3. /\ source \in [Parts -> (1 .. MaxVersion) \cup {Empty}]
          /\ copies \in [Files -> Reading] /\ kills \in 0 .. MaxKills
      <3>1. /\ source = [k \in Parts |-> 1] /\ copies = [f \in Files |-> Blank]
            /\ kills = 0
        BY DEF Init
      <3>. QED
        BY <1>1, <2>1, <3>1, BoundsAreNat
    <2>4. toRead \in Seq(Parts \X Values) /\ toWrite \in Seq(Files)
      <3>1. toRead = <<>> /\ toWrite = <<>>
        BY DEF Init
      <3>. QED
        BY <3>1
    <2>. QED
      BY <2>1, <2>2, <2>3, <2>4 DEF Init, TypeOK
  <1>3. ReadsThenWrites
    BY DEF Init, ReadsThenWrites, Running
  <1>4. WrittenAsRead /\ ReadIsCurrent
    BY DEF Init, WrittenAsRead, ReadIsCurrent, Running
  <1>. QED
    BY <1>2, <1>3, <1>4 DEF IInv

\* What is written, and where, depends on the reading alone.
LEMMA SameReading ==
    ASSUME UNCHANGED read, NEW f
    PROVE  (IsWritten(f)' <=> IsWritten(f)) /\ Content(f)' = Content(f)
  BY DEF IsWritten, Content, Texts

\* An edit leaves the run, the files and what it has read alone.
LEMMA EditKeeps ==
    ASSUME IInv, EditManifest \/ \E k \in Parts : EditSource(k)
    PROVE  IInv'
  <1>1. /\ edited' = TRUE
        /\ UNCHANGED <<read, toRead, toWrite, copies, last, begun, kills>>
    BY DEF EditManifest, EditSource
  <1>2. manifest' \in [version : 1 .. MaxVersion, gives : [Parts -> Values], named : BOOLEAN]
    <2>1. CASE UNCHANGED manifest
      BY <2>1 DEF IInv, TypeOK
    <2>2. CASE EditManifest
      <3>1. PICK k \in Parts, v \in Values, named \in BOOLEAN :
               manifest' = [version |-> manifest.version + 1,
                            gives |-> [manifest.gives EXCEPT ![k] = v], named |-> named]
        BY <2>2 DEF EditManifest
      <3>2. manifest.version + 1 \in 1 .. MaxVersion
        BY <2>2, Typed, BoundsAreNat DEF EditManifest
      <3>3. [manifest.gives EXCEPT ![k] = v] \in [Parts -> Values]
        BY <3>1, Typed
      <3>. QED
        BY <3>1, <3>2, <3>3
    <2>. QED
      BY <2>1, <2>2 DEF EditSource
  <1>3. source' \in [Parts -> (1 .. MaxVersion) \cup {Empty}]
    <2>1. CASE UNCHANGED source
      BY <2>1 DEF IInv, TypeOK
    <2>2. ASSUME NEW k \in Parts, EditSource(k)
          PROVE  source' \in [Parts -> (1 .. MaxVersion) \cup {Empty}]
      <3>1. source[k] + 1 \in 1 .. MaxVersion
        <4>1. source[k] # Empty
          BY <2>2, Typed, BoundsAreNat DEF EditSource, Empty
        <4>. QED
          BY <2>2, <4>1, Typed, BoundsAreNat DEF EditSource
      <3>2. PICK text \in {source[k] + 1, Empty} : source' = [source EXCEPT ![k] = text]
        BY <2>2 DEF EditSource
      <3>3. text \in (1 .. MaxVersion) \cup {Empty}
        BY <3>1, <3>2
      <3>4. source \in [Parts -> (1 .. MaxVersion) \cup {Empty}]
        BY Typed
      <3>. QED
        BY <3>2, <3>3, <3>4
    <2>. QED
      BY <2>1, <2>2 DEF EditManifest
  <1>4. TypeOK'
    BY <1>1, <1>2, <1>3 DEF IInv, TypeOK
  <1>5. ReadsThenWrites'
    BY <1>1 DEF IInv, ReadsThenWrites, Running
  <1>6. WrittenAsRead'
    BY <1>1, SameReading DEF IInv, WrittenAsRead
  <1>7. ReadIsCurrent'
    BY <1>1 DEF ReadIsCurrent
  <1>. QED
    BY <1>4, <1>5, <1>6, <1>7 DEF IInv

\* A run that starts has read the manifest as it is.
LEMMA StartKeeps ==
    ASSUME IInv, Start
    PROVE  IInv'
  <1>. DEFINE list == [i \in DOMAIN Kinds |-> <<Kinds[i], manifest.gives[Kinds[i]]>>]
  <1>1. /\ read' = [Blank EXCEPT ![ManifestJson] = manifest.version]
        /\ toRead' = IF manifest.named THEN list ELSE <<>>
        /\ last' = IF manifest.named THEN "none" ELSE "refused"
        /\ begun' = copies /\ edited' = FALSE
        /\ UNCHANGED <<manifest, source, toWrite, copies, kills>>
    BY DEF Start, sources
  <1>2. toWrite = <<>> /\ toWrite' = <<>>
    BY <1>1 DEF Start, IInv, ReadsThenWrites
  <1>3. list \in Seq(Parts \X Values)
    <2>1. DOMAIN Kinds = 1 .. Len(Kinds)
      BY KindsAreNames
    <2>2. \A i \in 1 .. Len(Kinds) : list[i] \in Parts \X Values
      BY <2>1, PartsAreKinds, Typed
    <2>3. list = [i \in 1 .. Len(Kinds) |-> list[i]]
      BY <2>1
    <2>. HIDE DEF list
    <2>. QED
      BY <2>2, <2>3, KindsAreNames
  <1>4. read' \in Reading
    <2>1. manifest.version \in 0 .. Empty /\ None \in 0 .. Empty
      BY Typed, BoundsAreNat DEF Empty, None
    <2>. QED
      BY <1>1, <2>1 DEF Blank, Reading
  <1>5. /\ \A k \in Parts : \E i \in DOMAIN list : list[i][1] = k
        /\ \A i \in DOMAIN list : list[i][2] = manifest.gives[list[i][1]]
    BY PartsAreKinds, KindsAreNames
  <1>. HIDE DEF list
  <1>6. TypeOK'
    <2>1. toRead' \in Seq(Parts \X Values)
      BY <1>1, <1>3
    <2>. QED
      BY <1>1, <1>4, <2>1 DEF IInv, TypeOK
  <1>7. ReadsThenWrites'
    BY <1>1, <1>2 DEF ReadsThenWrites, Running
  <1>8. WrittenAsRead'
    BY <1>1, <1>2 DEF WrittenAsRead
  <1>9. ReadIsCurrent'
    <2>1. CASE manifest.named
      <3>1. read'[ManifestJson] = manifest'.version
        BY <1>1, ManifestIsNoPart DEF Blank
      <3>2. toRead' = list /\ manifest' = manifest
        BY <1>1, <2>1
      <3>. QED
        BY <1>5, <3>1, <3>2 DEF ReadIsCurrent
    <2>2. CASE ~ manifest.named
      BY <1>1, <2>2 DEF ReadIsCurrent, Running
    <2>. QED
      BY <2>1, <2>2
  <1>. QED
    BY <1>6, <1>7, <1>8, <1>9 DEF IInv

\* Tokens left of a list are tokens of the list.
LEMMA TailIsLeft ==
    ASSUME NEW S, NEW xs \in Seq(S), xs # <<>>
    PROVE  /\ Head(xs) \in S /\ Head(xs) = xs[1] /\ 1 \in DOMAIN xs
           /\ Tail(xs) \in Seq(S)
           /\ \A i \in DOMAIN Tail(xs) : i + 1 \in DOMAIN xs /\ Tail(xs)[i] = xs[i + 1]
           /\ \A i \in DOMAIN xs : i = 1 \/ (i - 1 \in DOMAIN Tail(xs) /\ Tail(xs)[i - 1] = xs[i])
  OBVIOUS

\* One more part is read, from the sources as they are now.
LEMMA ReadPartKeeps ==
    ASSUME IInv, ReadPart
    PROVE  IInv'
  <1>. DEFINE k == Head(toRead)[1]
              v == Head(toRead)[2]
  <1>1. /\ toRead # <<>> /\ toWrite = <<>> /\ last = "none" /\ copies = begun
        /\ toRead \in Seq(Parts \X Values)
    BY DEF ReadPart, IInv, TypeOK, ReadsThenWrites, Running
  <1>2. /\ k \in Parts /\ v \in Values
        /\ k = toRead[1][1] /\ v = toRead[1][2] /\ 1 \in DOMAIN toRead
    BY <1>1, TailIsLeft
  <1>3. UNCHANGED <<manifest, source, toWrite, copies, begun, edited, kills>>
    BY DEF ReadPart, sources
  <1>4. \/ /\ read' = [read EXCEPT ![k] = PartOf(k, v)]
           /\ toRead' = Tail(toRead) /\ last' = "none"
        \/ last' = "refused" /\ toRead' = <<>> /\ read' = read
    BY <1>1 DEF ReadPart
  <1>. HIDE DEF k, v
  <1>5. PartOf(k, v) \in 0 .. Empty
    <2>1. source[k] \in 0 .. Empty
      BY <1>2, Typed, BoundsAreNat DEF Empty
    <2>2. None \in 0 .. Empty /\ NameOnly \in 0 .. Empty
      BY BoundsAreNat DEF None, NameOnly, Empty
    <2>. QED
      BY <2>1, <2>2 DEF PartOf
  <1>6. TypeOK'
    <2>1. read' \in Reading
      <3>1. read \in Reading
        BY DEF IInv, TypeOK
      <3>. QED
        BY <1>4, <1>5, <3>1 DEF Reading
    <2>2. toRead' \in Seq(Parts \X Values)
      <3>1. Tail(toRead) \in Seq(Parts \X Values)
        BY <1>1, TailIsLeft
      <3>2. toRead' = Tail(toRead) \/ toRead' = <<>>
        BY <1>4
      <3>3. <<>> \in Seq(Parts \X Values)
        OBVIOUS
      <3>. QED
        BY <3>1, <3>2, <3>3
    <2>3. last' \in {"none", "refused"}
      BY <1>4
    <2>. QED
      BY <1>3, <2>1, <2>2, <2>3 DEF IInv, TypeOK
  <1>7. ReadsThenWrites'
    BY <1>1, <1>3, <1>4 DEF ReadsThenWrites, Running
  <1>8. WrittenAsRead'
    BY <1>1, <1>3, <1>4 DEF WrittenAsRead
  <1>9. ReadIsCurrent'
    <2>1. CASE last' = "refused"
      BY <2>1 DEF ReadIsCurrent, Running
    <2>2. CASE last' # "refused" /\ ~ edited
      <3>1. /\ read' = [read EXCEPT ![k] = PartOf(k, v)]
            /\ toRead' = Tail(toRead)
        BY <1>4, <2>2
      <3>2. /\ read[ManifestJson] = manifest.version
            /\ \A j \in Parts : (\A i \in DOMAIN toRead : toRead[i][1] # j)
                                => read[j] = PartOf(j, manifest.gives[j])
            /\ \A i \in DOMAIN toRead : toRead[i][2] = manifest.gives[toRead[i][1]]
        BY <1>1, <2>2 DEF IInv, ReadIsCurrent, Running
      <3>3. v = manifest.gives[k]
        BY <1>2, <3>2
      <3>4. read'[ManifestJson] = read[ManifestJson]
        BY <1>2, <3>1, ManifestIsNoPart
      <3>5. ASSUME NEW j \in Parts, \A i \in DOMAIN toRead' : toRead'[i][1] # j
            PROVE  read'[j] = PartOf(j, manifest.gives[j])
        <4>1. CASE j = k
          <5>1. read \in Reading
            BY DEF IInv, TypeOK
          <5>. QED
            BY <3>1, <3>3, <4>1, <5>1 DEF Reading
        <4>2. CASE j # k
          <5>1. ASSUME NEW i \in DOMAIN toRead
                PROVE  toRead[i][1] # j
            <6>1. i = 1 \/ (i - 1 \in DOMAIN Tail(toRead) /\ Tail(toRead)[i - 1] = toRead[i])
              BY <1>1, TailIsLeft
            <6>. QED
              BY <1>2, <3>1, <3>5, <4>2, <6>1
          <5>2. read'[j] = read[j]
            BY <3>1, <4>2
          <5>. QED
            BY <3>2, <5>1, <5>2
        <4>. QED
          BY <4>1, <4>2
      <3>6. ASSUME NEW i \in DOMAIN toRead'
            PROVE  toRead'[i][2] = manifest.gives[toRead'[i][1]]
        <4>1. i + 1 \in DOMAIN toRead /\ Tail(toRead)[i] = toRead[i + 1]
          BY <1>1, <3>1, TailIsLeft
        <4>. QED
          BY <3>1, <3>2, <4>1
      <3>7. \A j \in Parts : PartOf(j, manifest.gives[j])' = PartOf(j, manifest.gives[j])
        BY <1>3 DEF PartOf
      <3>. QED
        BY <1>3, <3>2, <3>4, <3>5, <3>6, <3>7 DEF ReadIsCurrent
    <2>3. CASE edited
      BY <1>3, <2>3 DEF ReadIsCurrent
    <2>. QED
      BY <2>1, <2>2, <2>3
  <1>. QED
    BY <1>6, <1>7, <1>8, <1>9 DEF IInv

\* Only what has been read whole is written.
LEMMA StartWritingKeeps ==
    ASSUME IInv, StartWriting
    PROVE  IInv'
  <1>1. /\ last = "none" /\ toRead = <<>> /\ toWrite' = FilesToWrite
        /\ UNCHANGED <<manifest, source, read, toRead, copies, last, begun, edited, kills>>
    BY DEF StartWriting, Running, sources
  <1>2. TypeOK'
    BY <1>1, EveryFile DEF IInv, TypeOK
  <1>3. ReadsThenWrites'
    BY <1>1, EveryFile DEF ReadsThenWrites, Running
  <1>4. WrittenAsRead'
    <2>1. Files \ ToSet(toWrite') = {}
      BY <1>1, EveryFile
    <2>. QED
      BY <2>1 DEF WrittenAsRead
  <1>5. ReadIsCurrent'
    <2>1. \A j \in Parts : PartOf(j, manifest.gives[j])' = PartOf(j, manifest.gives[j])
      BY <1>1 DEF PartOf
    <2>. QED
      BY <1>1, <2>1 DEF IInv, ReadIsCurrent, Running
  <1>. QED
    BY <1>2, <1>3, <1>4, <1>5 DEF IInv

\* One more file is written, or left; it is not written again.
LEMMA WriteFileKeeps ==
    ASSUME IInv, WriteFile
    PROVE  IInv'
  <1>. DEFINE f == Head(toWrite)
  <1>1. /\ last = "none" /\ toWrite # <<>> /\ toRead = <<>> /\ toWrite \in Seq(Files)
    BY DEF WriteFile, IInv, TypeOK, ReadsThenWrites, Running
  <1>2. /\ toWrite' = Tail(toWrite)
        /\ last' = IF toWrite' = <<>> THEN "done" ELSE last
        /\ UNCHANGED <<manifest, source, read, toRead, begun, edited, kills>>
    BY DEF WriteFile, sources
  <1>3. copies' = IF IsWritten(f) THEN [copies EXCEPT ![f] = Content(f)] ELSE copies
    BY DEF WriteFile
  <1>4. /\ f \in Files /\ f = toWrite[1] /\ toWrite' \in Seq(Files)
    BY <1>1, <1>2, TailIsLeft
  <1>. HIDE DEF f
  <1>5. TypeOK'
    <2>1. Content(f) \in Reading
      <3>0. None \in 0 .. Empty
        BY BoundsAreNat DEF None, Empty
      <3>1. read \in Reading /\ None \in 0 .. Empty
        BY <3>0 DEF IInv, TypeOK
      <3>2. ASSUME NEW x
            PROVE  Texts(x) \in Reading
        BY <3>1 DEF Texts, Blank, Reading
      <3>. QED
        BY <3>1, <3>2 DEF Content
    <2>2. copies \in [Files -> Reading]
      BY DEF IInv, TypeOK
    <2>3. copies' \in [Files -> Reading]
      BY <1>3, <1>4, <2>1, <2>2
    <2>4. last' \in {"none", "done"}
      BY <1>1, <1>2
    <2>. QED
      BY <1>2, <1>4, <2>3, <2>4 DEF IInv, TypeOK
  <1>6. ReadsThenWrites'
    BY <1>1, <1>2 DEF ReadsThenWrites, Running
  <1>7. WrittenAsRead'
    <2>1. ASSUME NEW g \in Files \ ToSet(toWrite'), IsWritten(g)'
          PROVE  copies'[g] = Content(g)'
      <3>1. IsWritten(g) /\ Content(g)' = Content(g)
        BY <1>2, <2>1, SameReading
      <3>2. copies \in [Files -> Reading]
        BY DEF IInv, TypeOK
      <3>3. CASE g = f
        BY <1>3, <1>4, <3>1, <3>2, <3>3
      <3>4. CASE g # f
        <4>1. g \notin ToSet(toWrite)
          <5>1. ASSUME NEW i \in DOMAIN toWrite, toWrite[i] = g
                PROVE  FALSE
            <6>1. i # 1
              BY <1>4, <3>4, <5>1
            <6>2. i - 1 \in DOMAIN toWrite' /\ toWrite'[i - 1] = g
              BY <1>1, <1>2, <5>1, <6>1, TailIsLeft
            <6>. QED
              BY <2>1, <6>2 DEF ToSet
          <5>. QED
            BY <5>1 DEF ToSet
        <4>2. copies[g] = Content(g)
          BY <1>1, <3>1, <4>1 DEF IInv, WrittenAsRead
        <4>. QED
          BY <1>3, <3>1, <3>2, <3>4, <4>2
      <3>. QED
        BY <3>3, <3>4
    <2>. QED
      BY <2>1 DEF WrittenAsRead
  <1>8. ReadIsCurrent'
    <2>1. \A j \in Parts : PartOf(j, manifest.gives[j])' = PartOf(j, manifest.gives[j])
      BY <1>2 DEF PartOf
    <2>. QED
      BY <1>1, <1>2, <2>1 DEF IInv, ReadIsCurrent, Running
  <1>. QED
    BY <1>5, <1>6, <1>7, <1>8 DEF IInv

\* A run that is killed claims nothing.
LEMMA KillKeeps ==
    ASSUME IInv, Kill
    PROVE  IInv'
  <1>1. /\ toRead' = <<>> /\ toWrite' = <<>> /\ last' = "killed"
        /\ kills < MaxKills /\ kills' = kills + 1
        /\ UNCHANGED <<manifest, source, read, copies, begun, edited>>
    BY DEF Kill, sources
  <1>2. TypeOK'
    <2>1. kills' \in 0 .. MaxKills
      <3>1. kills \in 0 .. MaxKills
        BY DEF IInv, TypeOK
      <3>. QED
        BY <1>1, <3>1, BoundsAreNat
    <2>2. toRead' \in Seq(Parts \X Values) /\ toWrite' \in Seq(Files)
      BY <1>1
    <2>. QED
      BY <1>1, <2>1, <2>2 DEF IInv, TypeOK
  <1>3. ReadsThenWrites' /\ WrittenAsRead' /\ ReadIsCurrent'
    BY <1>1 DEF ReadsThenWrites, WrittenAsRead, ReadIsCurrent, Running
  <1>. QED
    BY <1>2, <1>3 DEF IInv

\* Every step of the script, and every edit, keeps the invariant.
LEMMA NextKeeps ==
    ASSUME IInv, [Next]_vars
    PROVE  IInv'
  <1>1. CASE UNCHANGED vars
    <2>1. UNCHANGED <<manifest, source, read, toRead, toWrite, copies, last, begun, edited, kills>>
      BY <1>1 DEF vars, sources
    <2>2. TypeOK'
      BY <2>1 DEF IInv, TypeOK
    <2>3. ReadsThenWrites'
      BY <2>1 DEF IInv, ReadsThenWrites, Running
    <2>4. WrittenAsRead'
      BY <2>1, SameReading DEF IInv, WrittenAsRead
    <2>5. \A j \in Parts : PartOf(j, manifest.gives[j])' = PartOf(j, manifest.gives[j])
      BY <2>1 DEF PartOf
    <2>6. ReadIsCurrent'
      BY <2>1, <2>5 DEF IInv, ReadIsCurrent, Running
    <2>. QED
      BY <2>2, <2>3, <2>4, <2>6 DEF IInv
  <1>. QED
    BY <1>1, EditKeeps, StartKeeps, ReadPartKeeps, StartWritingKeeps, WriteFileKeeps,
       KillKeeps DEF Next

\* A run reads everything before it writes anything, and writes what it read.
THEOREM EmbedInvariance == Spec => []IInv
  <1>1. Init => IInv
    BY InitIInv
  <1>2. IInv /\ [Next]_vars => IInv'
    BY NextKeeps
  <1>. QED
    BY <1>1, <1>2, PTL DEF Spec

\* A run that refuses the manifest has written nothing.
THEOREM RefusesBeforeWriting == Spec => []RefusalWritesNothing
  <1>1. IInv => RefusalWritesNothing
    BY DEF IInv, ReadsThenWrites, RefusalWritesNothing
  <1>. QED
    BY <1>1, EmbedInvariance, PTL

\* Also beside the other scripts.
LEMMA EmbedsKeeps ==
    ASSUME script = "embed-translate" => IInv, [Embeds \/ CountsHits \/ Rewrites]_scriptVars
    PROVE  (script = "embed-translate" => IInv)'
  <1>1. CASE Embeds
    BY <1>1, NextKeeps DEF Embeds
  <1>2. CASE CountsHits
    BY <1>2 DEF CountsHits
  <1>3. CASE Rewrites
    BY <1>3 DEF Rewrites
  <1>4. CASE UNCHANGED scriptVars
    <2>1. UNCHANGED script /\ UNCHANGED vars
      BY <1>4 DEF scriptVars
    <2>. QED
      BY <2>1, NextKeeps
  <1>. QED
    BY <1>1, <1>2, <1>3, <1>4

\* The ports of a run that has ended hold the texts of its reading.
LEMMA EndedAgree ==
    ASSUME IInv
    PROVE  PortsAgree /\ CopiesAreCurrent
  <1>. SUFFICES ASSUME last = "done"
                PROVE  PortsAgree /\ CopiesAreCurrent
    BY DEF PortsAgree, CopiesAreCurrent
  <1>1. toWrite = <<>> /\ toRead = <<>>
    BY DEF IInv, ReadsThenWrites, Running
  <1>2. \A f \in Files : IsWritten(f) => copies[f] = Content(f)
    BY <1>1 DEF IInv, WrittenAsRead, ToSet
  <1>3. copies[TranslateTs] = read
    BY <1>2 DEF IsWritten, Content, Files
  <1>4. ASSUME NEW rt \in {"go", "rs"}, NEW x \in Parts \cup {ManifestJson},
               x = ManifestJson \/ read[x] \notin {None, NameOnly, Empty}
        PROVE  copies[<<rt, x>>][x] = read[x]
    <2>1. <<rt, x>> \in Files /\ IsWritten(<<rt, x>>)
      BY <1>4 DEF Files, IsWritten
    <2>2. Content(<<rt, x>>) = Texts(x)
      BY DEF Content, TranslateTs
    <2>3. Texts(x)[x] = read[x]
      BY DEF Texts, Blank
    <2>. QED
      BY <1>2, <2>1, <2>2, <2>3
  <1>5. PortsAgree
    BY <1>3, <1>4 DEF PortsAgree
  <1>6. ASSUME ~ edited
        PROVE  CopiesAreCurrent
    <2>1. /\ read[ManifestJson] = manifest.version
          /\ \A k \in Parts : read[k] = PartOf(k, manifest.gives[k])
      BY <1>1, <1>6 DEF IInv, ReadIsCurrent
    <2>2. ASSUME NEW k \in Parts
          PROVE  /\ manifest.gives[k] # "source" => read[k] \in {None, NameOnly}
                 /\ manifest.gives[k] = "source" => read[k] = source[k]
      BY <2>1, Typed DEF PartOf, Values
    <2>3. ASSUME NEW k \in Parts, HasText(k)
          PROVE  read[k] = source[k] /\ read[k] \notin {None, NameOnly, Empty}
      <3>1. read[k] = source[k] /\ source[k] \in 1 .. MaxVersion
        BY <2>2, <2>3, Typed DEF HasText
      <3>. QED
        BY <3>1, BoundsAreNat DEF None, NameOnly, Empty
    <2>4. \A rt \in {"go", "rs"} : copies[<<rt, ManifestJson>>][ManifestJson] = manifest.version
      BY <1>4, <2>1
    <2>5. \A k \in Parts : HasText(k) =>
             \A rt \in {"go", "rs"} : copies[<<rt, k>>][k] = source[k]
      BY <1>4, <2>3
    <2>. QED
      BY <1>3, <2>1, <2>2, <2>4, <2>5 DEF CopiesAreCurrent
  <1>. QED
    BY <1>5, <1>6 DEF CopiesAreCurrent

\* A run that ends leaves the three ports with the texts of one reading, and
\* with what the sources say unless something was edited meanwhile; whatever
\* was edited, refused or killed before.
THEOREM CopiesTrue == ScriptsSpec => []CopiesAreTrue
  <1>1. ScriptsInit => (script = "embed-translate" => IInv)
    BY InitIInv DEF ScriptsInit
  <1>2. (script = "embed-translate" => IInv) /\ [Embeds \/ CountsHits \/ Rewrites]_scriptVars
        => (script = "embed-translate" => IInv)'
    BY EmbedsKeeps
  <1>3. (script = "embed-translate" => IInv) => CopiesAreTrue
    BY EndedAgree DEF CopiesAreTrue
  <1>. QED
    BY <1>1, <1>2, <1>3, PTL DEF ScriptsSpec

-----------------------------------------------------------------------------
(* ValeCounts: the total, folded over the rules that are on, is the number *)
(* of alerts there are.                                                    *)

On == {q \in Rules : level[q] # "NO"}

\* The alerts of some rules, one pair for each.
Alerts(h, rules) == UNION {{<<r, n>> : n \in 1 .. h[r]} : r \in rules}

\* The alerts of one rule are as many as it fires.
LEMMA AlertsOfOne ==
    ASSUME NEW r, NEW k \in Nat
    PROVE  /\ IsFiniteSet({<<r, n>> : n \in 1 .. k})
           /\ Cardinality({<<r, n>> : n \in 1 .. k}) = k
  <1>. DEFINE T == {<<r, n>> : n \in 1 .. k}
              g == [n \in 1 .. k |-> <<r, n>>]
  <1>1. g \in Bijection(1 .. k, T)
    <2>1. g \in [1 .. k -> T]
      OBVIOUS
    <2>2. \A a, b \in 1 .. k : g[a] = g[b] => a = b
      OBVIOUS
    <2>3. \A t \in T : \E n \in 1 .. k : g[n] = t
      OBVIOUS
    <2>. HIDE DEF g, T
    <2>. QED
      BY <2>1, <2>2, <2>3 DEF Bijection, Injection, Surjection, IsInjective
  <1>2. ExistsBijection(1 .. k, T)
    <2>. HIDE DEF g, T
    <2>. QED
      BY <1>1 DEF ExistsBijection
  <1>3. IsFiniteSet(1 .. k) /\ Cardinality(1 .. k) = k
    BY FS_Interval
  <1>. HIDE DEF T
  <1>4. IsFiniteSet(T) /\ Cardinality(T) = k
    BY <1>2, <1>3, FS_Bijection
  <1>. QED
    BY <1>4 DEF T

\* The alerts of some rules are finitely many: those of one of them, and those
\* of the others.
LEMMA AlertsAdd ==
    ASSUME IsFiniteSet(Rules), NEW N \in Nat, NEW h \in [Rules -> 0 .. N],
           NEW s \in SUBSET Rules
    PROVE  /\ IsFiniteSet(Alerts(h, s)) /\ Cardinality(Alerts(h, s)) \in Nat
           /\ \A x \in s : Cardinality(Alerts(h, s))
                           = h[x] + Cardinality(Alerts(h, s \ {x}))
  <1>1. ASSUME NEW t \in SUBSET Rules
        PROVE  IsFiniteSet(Alerts(h, t)) /\ Cardinality(Alerts(h, t)) \in Nat
    <2>1. IsFiniteSet(1 .. N)
      BY FS_Interval
    <2>2. IsFiniteSet(Rules \X (1 .. N))
      BY <2>1, FS_Product
    <2>3. Alerts(h, t) \subseteq Rules \X (1 .. N)
      <3>1. ASSUME NEW a \in Alerts(h, t)
            PROVE  a \in Rules \X (1 .. N)
        <4>1. PICK r \in t : a \in {<<r, n>> : n \in 1 .. h[r]}
          BY <3>1 DEF Alerts
        <4>2. PICK n \in 1 .. h[r] : a = <<r, n>>
          BY <4>1
        <4>3. r \in Rules /\ h[r] \in 0 .. N
          BY <4>1
        <4>. QED
          BY <4>2, <4>3
      <3>. QED
        BY <3>1
    <2>. QED
      BY <2>2, <2>3, FS_Subset, FS_CardinalityType
  <1>2. ASSUME NEW x \in s
        PROVE  Cardinality(Alerts(h, s)) = h[x] + Cardinality(Alerts(h, s \ {x}))
    <2>. DEFINE T == {<<x, n>> : n \in 1 .. h[x]}
                U == Alerts(h, s \ {x})
    <2>1. h[x] \in Nat /\ IsFiniteSet(T) /\ Cardinality(T) = h[x]
      <3>1. h[x] \in Nat
        BY <1>2
      <3>. QED
        BY <3>1, AlertsOfOne
    <2>2. IsFiniteSet(U) /\ Cardinality(U) \in Nat
      BY <1>1
    <2>3. Alerts(h, s) = T \cup U
      BY <1>2 DEF Alerts
    <2>4. T \cap U = {}
      BY DEF Alerts
    <2>. HIDE DEF T, U
    <2>5. Cardinality(T \cup U) = Cardinality(T) + Cardinality(U) - Cardinality(T \cap U)
      BY <2>1, <2>2, FS_Union
    <2>6. Cardinality(T \cap U) = 0
      BY <2>4, FS_EmptySet
    <2>7. Cardinality(Alerts(h, s)) = h[x] + Cardinality(U)
      BY <2>1, <2>2, <2>3, <2>5, <2>6
    <2>. QED
      BY <2>7 DEF U
  <1>. QED
    BY <1>1, <1>2

\* What ValeCounts calls finite, and the number of elements.
LEMMA SameCounting ==
    \A S : /\ Counts!IsFiniteSet(S) <=> IsFiniteSet(S)
          /\ Counts!Cardinality(S) = Cardinality(S)
  BY DEF Counts!IsFiniteSet, IsFiniteSet, Counts!Cardinality, Cardinality

\* One step of the fold.
Summed(sum, s) ==
    IF s = {} THEN 0
    ELSE LET x == CHOOSE x \in s : TRUE IN Counts!Fires(x) + sum[s \ {x}]

\* What each rule fires is measured.
LEMMA FiresAreHits ==
    ASSUME Counts!TypeOK
    PROVE  /\ Counts!ByRule \in [Rules -> 0 .. MaxHits]
           /\ \A r \in Rules : Counts!ByRule[r] = Counts!Fires(r)
           /\ vale = "pinned" => \A r \in Rules : Counts!Fires(r) = hits[r]
  <1>1. MaxHits \in Nat
    BY ConstantsAreRight DEF Counts!BoundsAreNat
  <1>2. ASSUME NEW r \in Rules
        PROVE  Counts!Fires(r) \in 0 .. MaxHits
    <2>1. hits[r] \in 0 .. MaxHits
      BY DEF Counts!TypeOK, Counts!Hits
    <2>. QED
      BY <1>1, <2>1 DEF Counts!Fires
  <1>. QED
    BY <1>2 DEF Counts!ByRule, Counts!Fires

\* The total is the number of alerts of the rules that are on.
LEMMA TotalIsCount ==
    ASSUME Counts!TypeOK
    PROVE  /\ Counts!Total = Cardinality(Alerts(Counts!ByRule, On))
           /\ Counts!Total \in Nat
  <1>. DEFINE h == Counts!ByRule
              alerts(s) == Cardinality(Alerts(h, s))
              IsSum(sum) == sum = [s \in SUBSET On |-> Summed(sum, s)]
              sums == [s \in SUBSET On |-> alerts(s)]
              total == CHOOSE sum : IsSum(sum)
  <1>1. Counts!Total = total[On]
    BY DEF Counts!Total, Counts!MapThenSumSet, Counts!MapThenFoldSet, On, Summed
  <1>2. /\ IsFiniteSet(Rules) /\ MaxHits \in Nat /\ h \in [Rules -> 0 .. MaxHits]
        /\ \A r \in Rules : h[r] = Counts!Fires(r)
    <2>1. IsFiniteSet(Rules) /\ MaxHits \in Nat
      BY ConstantsAreRight, SameCounting DEF Counts!RulesFinite, Counts!BoundsAreNat
    <2>. HIDE DEF h
    <2>2. h \in [Rules -> 0 .. MaxHits] /\ \A r \in Rules : h[r] = Counts!Fires(r)
      BY FiresAreHits DEF h
    <2>. QED
      BY <2>1, <2>2
  <1>3. On \subseteq Rules
    BY DEF On
  <1>. HIDE DEF h
  <1>4. ASSUME NEW s \in SUBSET On
        PROVE  /\ alerts(s) \in Nat
               /\ s = {} => alerts(s) = 0
               /\ \A x \in s : alerts(s) = Counts!Fires(x) + alerts(s \ {x})
    <2>1. s \in SUBSET Rules
      BY <1>3
    <2>2. /\ IsFiniteSet(Alerts(h, s)) /\ Cardinality(Alerts(h, s)) \in Nat
          /\ \A x \in s : Cardinality(Alerts(h, s)) = h[x] + Cardinality(Alerts(h, s \ {x}))
      BY <1>2, <2>1, AlertsAdd
    <2>3. s = {} => Cardinality(Alerts(h, s)) = 0
      BY FS_EmptySet DEF Alerts
    <2>. QED
      BY <1>2, <2>1, <2>2, <2>3
  <1>. HIDE DEF alerts
  <1>5. IsSum(sums)
    <2>1. ASSUME NEW s \in SUBSET On
          PROVE  Summed(sums, s) = alerts(s)
      <3>1. CASE s = {}
        BY <1>4, <3>1 DEF Summed
      <3>2. CASE s # {}
        <4>. DEFINE x == CHOOSE x \in s : TRUE
        <4>1. x \in s
          BY <3>2
        <4>2. Summed(sums, s) = Counts!Fires(x) + sums[s \ {x}]
          BY <3>2 DEF Summed
        <4>. HIDE DEF x
        <4>3. sums[s \ {x}] = alerts(s \ {x})
          OBVIOUS
        <4>. QED
          BY <1>4, <4>1, <4>2, <4>3
      <3>. QED
        BY <3>1, <3>2
    <2>. QED
      BY <2>1
  <1>6. IsSum(total)
    <2>. HIDE DEF IsSum, sums
    <2>. QED
      BY <1>5
  <1>. HIDE DEF total
  <1>7. \A s \in SUBSET On : total[s] = Summed(total, s)
    BY <1>6
  <1>. DEFINE Wrong == {n \in Nat : \E s \in SUBSET On : Cardinality(s) = n /\ total[s] # alerts(s)}
  <1>8. Wrong = {}
    <2>. SUFFICES ASSUME Wrong # {} PROVE FALSE
      OBVIOUS
    <2>1. PICK n \in Wrong : \A k \in Wrong : n <= k
      <3>1. Wrong \subseteq Nat
        OBVIOUS
      <3>. HIDE DEF Wrong
      <3>. QED
        BY <3>1, LeastExists
    <2>2. PICK s \in SUBSET On : Cardinality(s) = n /\ total[s] # alerts(s)
      BY <2>1
    <2>3. CASE s = {}
      BY <1>4, <1>7, <2>2, <2>3 DEF Summed
    <2>4. CASE s # {}
      <3>. DEFINE x == CHOOSE x \in s : TRUE
      <3>1. x \in s
        BY <2>4
      <3>2. total[s] = Counts!Fires(x) + total[s \ {x}]
        BY <1>7, <2>4 DEF Summed
      <3>. HIDE DEF x
      <3>3. IsFiniteSet(s)
        BY <1>2, <1>3, FS_Subset
      <3>4. n \in Nat /\ Cardinality(s \ {x}) = n - 1 /\ IsFiniteSet(s \ {x})
        BY <2>1, <2>2, <3>1, <3>3, FS_RemoveElement
      <3>5. Cardinality(s \ {x}) \in Nat
        BY <3>4, FS_CardinalityType
      <3>6. total[s \ {x}] = alerts(s \ {x})
        <4>1. n - 1 \notin Wrong
          BY <2>1, <3>4
        <4>. QED
          BY <3>4, <3>5, <4>1
      <3>. QED
        BY <1>4, <2>2, <3>1, <3>2, <3>6
    <2>. QED
      BY <2>3, <2>4
  <1>9. IsFiniteSet(On)
    BY <1>2, <1>3, FS_Subset
  <1>10. total[On] = alerts(On)
    <2>1. Cardinality(On) \in Nat
      BY <1>9, FS_CardinalityType
    <2>. QED
      BY <1>8, <2>1
  <1>. QED
    BY <1>1, <1>4, <1>10 DEF alerts, h

\* With the Vale that CI pins a check finds wrong what is not true, and no
\* more.
LEMMA WrongIfUntrue ==
    ASSUME Counts!TypeOK, vale = "pinned"
    PROVE  Counts!Wrong <=> ~ Counts!Truth
  <1>. DEFINE on == UNION {{<<r, n>> : n \in 1 .. hits[r]} : r \in {q \in Rules : level[q] # "NO"}}
              size == Counts!Cardinality(on)
  <1>1. \A r \in Rules : hits[r] \in 0 .. MaxHits /\ hits[r] # Counts!None
    <2>1. MaxHits \in Nat
      BY ConstantsAreRight DEF Counts!BoundsAreNat
    <2>2. hits \in [Rules -> 0 .. MaxHits]
      BY DEF Counts!TypeOK, Counts!Hits
    <2>. QED
      BY <2>1, <2>2 DEF Counts!None
  <1>2. Counts!ByRule = hits
    <2>1. \A r \in Rules : Counts!ByRule[r] = hits[r]
      BY FiresAreHits
    <2>2. hits \in [Rules -> 0 .. MaxHits]
      BY DEF Counts!TypeOK, Counts!Hits
    <2>. QED
      BY <2>1, <2>2 DEF Counts!ByRule
  <1>3. Counts!Total = size
    <2>1. Alerts(hits, On) = on
      BY DEF Alerts, On
    <2>2. Counts!Total = Cardinality(Alerts(hits, On))
      BY <1>2, TotalIsCount
    <2>. HIDE DEF on
    <2>. QED
      BY <2>1, <2>2, SameCounting
  <1>4. count = Counts!CountAsMeasured
        <=> \A r \in Rules : IF count[r] = Counts!None THEN level[r] = "error"
                             ELSE count[r] = hits[r]
    <2>1. count \in [Rules -> 0 .. MaxHits \cup {Counts!None}]
      BY DEF Counts!TypeOK, Counts!Hits
    <2>2. Counts!CountAsMeasured =
             [r \in Rules |-> IF count[r] = Counts!None /\ level[r] = "error"
                              THEN Counts!None ELSE hits[r]]
      BY <1>2 DEF Counts!CountAsMeasured
    <2>3. count = Counts!CountAsMeasured
          <=> \A r \in Rules : count[r] = Counts!CountAsMeasured[r]
      BY <2>1, <2>2
    <2>. QED
      BY <1>1, <2>2, <2>3
  <1>. HIDE DEF on, size
  <1>5. /\ Counts!Noun(files) = IF files = 1 THEN "file" ELSE "files"
        /\ header = [alerts |-> header.alerts, files |-> header.files, noun |-> header.noun,
                     terms |-> header.terms, next |-> header.next]
        /\ guide = [alerts |-> guide.alerts, files |-> guide.files, noun |-> guide.noun,
                    terms |-> guide.terms]
    BY DEF Counts!TypeOK, Counts!Noun, Counts!Claims, Counts!HeaderClaims
  <1>6. header = Counts!HeaderAsMeasured
        <=> /\ header.alerts = size /\ header.files = files
            /\ header.noun = (IF files = 1 THEN "file" ELSE "files")
            /\ header.terms = terms /\ header.next = terms + 1
    BY <1>3, <1>5 DEF Counts!HeaderAsMeasured
  <1>7. guide = Counts!GuideAsMeasured
        <=> /\ guide.alerts = size /\ guide.files = files
            /\ guide.noun = (IF files = 1 THEN "file" ELSE "files")
            /\ guide.terms = terms
    BY <1>3, <1>5 DEF Counts!GuideAsMeasured
  <1>8. Counts!Truth
        <=> /\ \A r \in Rules : IF count[r] = Counts!None THEN level[r] = "error"
                                ELSE count[r] = hits[r]
            /\ \A claims \in {header, guide} :
                  /\ claims.alerts = size /\ claims.files = files
                  /\ claims.noun = (IF files = 1 THEN "file" ELSE "files")
                  /\ claims.terms = terms
            /\ header.next = terms + 1
    BY DEF Counts!Truth, on, size
  <1>. QED
    BY <1>4, <1>6, <1>7, <1>8 DEF Counts!Wrong

\* What a run measures, and would write, are claims of the types the files have.
LEMMA MeasuredTyped ==
    ASSUME Counts!TypeOK
    PROVE  /\ Counts!CountAsMeasured \in [Rules -> Counts!Hits \cup {Counts!None}]
           /\ Counts!HeaderAsMeasured \in Counts!HeaderClaims
           /\ Counts!GuideAsMeasured \in Counts!Claims
  <1>1. \A r \in Rules : Counts!ByRule[r] \in Counts!Hits
    BY FiresAreHits DEF Counts!Hits
  <1>2. Counts!Total \in Nat /\ files \in Nat /\ terms \in Nat
    <2>1. files \in 0 .. MaxFiles /\ terms \in 0 .. MaxTerms
      BY DEF Counts!TypeOK
    <2>2. MaxFiles \in Nat /\ MaxTerms \in Nat
      BY ConstantsAreRight DEF Counts!BoundsAreNat
    <2>. QED
      BY <2>1, <2>2, TotalIsCount
  <1>3. Counts!Noun(files) \in {"file", "files"}
    BY DEF Counts!Noun
  <1>4. Counts!CountAsMeasured \in [Rules -> Counts!Hits \cup {Counts!None}]
    BY <1>1 DEF Counts!CountAsMeasured
  <1>. QED
    BY <1>2, <1>3, <1>4 DEF Counts!HeaderAsMeasured, Counts!GuideAsMeasured,
       Counts!HeaderClaims, Counts!Claims

\* A script that begins has claimed nothing yet.
LEMMA CountsInit ==
    ASSUME Counts!Init
    PROVE  Counts!IInv
  <1>1. MaxHits \in Nat /\ MaxFiles \in Nat /\ MaxTerms \in Nat
    BY ConstantsAreRight DEF Counts!BoundsAreNat
  <1>2. Counts!TypeOK
    <2>1. hits \in [Rules -> Counts!Hits] /\ files \in 0 .. MaxFiles
      BY <1>1 DEF Counts!Init
    <2>2. header \in Counts!HeaderClaims /\ guide \in Counts!Claims
      BY DEF Counts!Init, Counts!HeaderClaims, Counts!Claims
    <2>3. /\ level \in [Rules -> Counts!Levels]
          /\ count \in [Rules -> Counts!Hits \cup {Counts!None}]
      BY DEF Counts!Init, Counts!Levels
    <2>. QED
      BY <2>1, <2>2, <2>3 DEF Counts!Init, Counts!TypeOK
  <1>3. run = "none" /\ lastRun = "none"
    BY DEF Counts!Init
  <1>. QED
    BY <1>2, <1>3 DEF Counts!IInv, Counts!IniWritten, Counts!CheckIsExact,
       Counts!WriteSettles, Counts!ScratchIsRemoved

\* A maintainer who edits leaves no claim standing.
LEMMA CountsEdited ==
    ASSUME Counts!IInv, Counts!Edited, Counts!TypeOK'
    PROVE  Counts!IInv'
  <1>1. run' = "none" /\ lastRun' = "none"
    BY DEF Counts!Edited
  <1>. QED
    BY <1>1 DEF Counts!IInv, Counts!IniWritten, Counts!CheckIsExact,
       Counts!WriteSettles, Counts!ScratchIsRemoved

\* An edit writes what a file or a vocabulary may hold.
LEMMA EditTyped ==
    ASSUME Counts!TypeOK,
           \/ Counts!EditPages \/ Counts!EditVocabulary \/ Counts!OtherVale
           \/ Counts!EditRule \/ Counts!EditProse
    PROVE  Counts!TypeOK' /\ Counts!Edited
  <1>1. Counts!Edited
    BY DEF Counts!EditPages, Counts!EditVocabulary, Counts!OtherVale, Counts!EditRule,
       Counts!EditProse
  <1>2. /\ run' \in {"none"} /\ lastRun' = "none" /\ UNCHANGED scratch
    BY <1>1 DEF Counts!Edited
  <1>3. CASE Counts!EditPages
    <2>1. hits' \in [Rules -> Counts!Hits] /\ files' \in 0 .. MaxFiles
      BY <1>3 DEF Counts!EditPages, Counts!TypeOK
    <2>. QED
      BY <1>1, <1>2, <1>3, <2>1 DEF Counts!EditPages, Counts!TypeOK, Counts!record
  <1>4. CASE Counts!EditVocabulary
    BY <1>1, <1>2, <1>4 DEF Counts!EditVocabulary, Counts!TypeOK, Counts!record
  <1>5. CASE Counts!OtherVale
    BY <1>1, <1>2, <1>5 DEF Counts!OtherVale, Counts!TypeOK, Counts!record
  <1>6. CASE Counts!EditRule
    <2>1. /\ level' \in [Rules -> Counts!Levels]
          /\ count' \in [Rules -> Counts!Hits \cup {Counts!None}]
      BY <1>6 DEF Counts!EditRule, Counts!TypeOK
    <2>. QED
      BY <1>1, <1>2, <1>6, <2>1 DEF Counts!EditRule, Counts!TypeOK
  <1>7. CASE Counts!EditProse
    <2>1. header' \in Counts!HeaderClaims /\ guide' \in Counts!Claims
      <3>1. header \in Counts!HeaderClaims /\ guide \in Counts!Claims
        BY DEF Counts!TypeOK
      <3>2. CASE header' = [header EXCEPT !.noun = "file", !.next = 0] /\ guide' = guide
        BY <3>1, <3>2 DEF Counts!HeaderClaims
      <3>3. CASE guide' = [guide EXCEPT !.alerts = @ + 1] /\ header' = header
        BY <3>1, <3>3 DEF Counts!Claims
      <3>. QED
        BY <1>7, <3>2, <3>3 DEF Counts!EditProse
    <2>. QED
      BY <1>1, <1>2, <1>7, <2>1 DEF Counts!EditProse, Counts!TypeOK, Counts!world
  <1>. QED
    BY <1>1, <1>3, <1>4, <1>5, <1>6, <1>7

\* What is measured depends on the pages and the rules, not on the record.
LEMMA SameMeasured ==
    ASSUME UNCHANGED Counts!world
    PROVE  /\ UNCHANGED <<Counts!ByRule, Counts!Total, Counts!SecondRun>>
           /\ UNCHANGED <<Counts!Noun(files), Counts!GuideAsMeasured>>
  <1>1. UNCHANGED <<hits, files, terms, level, vale>>
    BY DEF Counts!world
  <1>2. UNCHANGED <<Counts!ByRule, Counts!SecondRun, Counts!Noun(files)>>
    BY <1>1 DEF Counts!ByRule, Counts!Fires, Counts!SecondRun, Counts!Noun
  <1>3. UNCHANGED Counts!Total
    BY <1>1 DEF Counts!Total, Counts!MapThenSumSet, Counts!MapThenFoldSet, Counts!Fires
  <1>. QED
    BY <1>1, <1>2, <1>3 DEF Counts!GuideAsMeasured

\* While neither the pages nor the record change, what is true of them stays.
LEMMA SameTruth ==
    ASSUME UNCHANGED <<Counts!world, Counts!record>>
    PROVE  /\ Counts!Truth' <=> Counts!Truth
           /\ Counts!Wrong' <=> Counts!Wrong
           /\ UNCHANGED <<Counts!CountAsMeasured, Counts!HeaderAsMeasured, Counts!SecondRun>>
  <1>1. UNCHANGED <<hits, files, terms, level, vale, count, header, guide>>
    BY DEF Counts!world, Counts!record
  <1>2. /\ UNCHANGED <<Counts!ByRule, Counts!Total, Counts!SecondRun>>
        /\ UNCHANGED <<Counts!Noun(files), Counts!GuideAsMeasured>>
    BY SameMeasured
  <1>3. Counts!Truth' <=> Counts!Truth
    BY <1>1 DEF Counts!Truth
  <1>4. UNCHANGED <<Counts!CountAsMeasured, Counts!HeaderAsMeasured>>
    BY <1>1, <1>2 DEF Counts!CountAsMeasured, Counts!HeaderAsMeasured
  <1>. QED
    BY <1>1, <1>2, <1>3, <1>4 DEF Counts!Wrong

\* A run that fails, reports or is killed leaves the pages and the record alone.
LEMMA RunKeeps ==
    ASSUME Counts!IInv,
           \/ Counts!PageGone \/ (\E write \in BOOLEAN : Counts!Measure(write))
           \/ Counts!ValeFails \/ Counts!Report \/ Counts!Kill
    PROVE  Counts!IInv'
  <1>1. UNCHANGED <<Counts!world, Counts!record>>
    BY DEF Counts!PageGone, Counts!Measure, Counts!ValeFails, Counts!Report, Counts!Kill
  <1>2. UNCHANGED <<hits, files, terms, level, vale, count, header, guide>>
    BY <1>1 DEF Counts!world, Counts!record
  <1>3. /\ scratch' \in BOOLEAN
        /\ run' \in {"none", "measuring", "measuring to write"}
        /\ lastRun' \in {"none", "threw", "wrong", "as recorded", "killed"}
        /\ run' # "none" => lastRun' = "none"
    BY DEF Counts!IInv, Counts!TypeOK, Counts!PageGone, Counts!Measure, Counts!ValeFails,
       Counts!Report, Counts!Kill, Counts!ScratchAfter
  <1>4. Counts!TypeOK'
    BY <1>2, <1>3 DEF Counts!IInv, Counts!TypeOK, Counts!Hits, Counts!Levels, Counts!None,
       Counts!Claims, Counts!HeaderClaims
  <1>5. /\ Counts!Truth' <=> Counts!Truth
        /\ Counts!SecondRun' <=> Counts!SecondRun
    BY <1>1, SameTruth
  <1>6. Counts!CheckIsExact'
    <2>1. CASE Counts!Report
      <3>1. lastRun' = IF Counts!Wrong THEN "wrong" ELSE "as recorded"
        BY <2>1 DEF Counts!Report
      <3>2. vale = "pinned" => (Counts!Wrong <=> ~ Counts!Truth)
        BY WrongIfUntrue DEF Counts!IInv
      <3>3. vale # "pinned" => Counts!Wrong
        BY DEF Counts!Wrong
      <3>. QED
        BY <1>2, <1>5, <3>1, <3>2, <3>3 DEF Counts!CheckIsExact
    <2>2. CASE ~ Counts!Report
      <3>1. lastRun' \in {"none", "threw", "killed"}
        BY <2>2 DEF Counts!PageGone, Counts!Measure, Counts!ValeFails, Counts!Kill
      <3>. QED
        BY <3>1 DEF Counts!CheckIsExact
    <2>. QED
      BY <2>1, <2>2
  <1>7. Counts!ScratchIsRemoved'
    <2>1. CASE Counts!PageGone
      BY <1>2, <2>1 DEF Counts!PageGone, Counts!ScratchIsRemoved
    <2>2. CASE Counts!ValeFails \/ Counts!Report
      <3>1. scratch' = (scratch /\ ~ Counts!SecondRun)
        BY <2>2 DEF Counts!ValeFails, Counts!Report, Counts!ScratchAfter
      <3>. QED
        BY <1>5, <3>1 DEF Counts!ScratchIsRemoved
    <2>3. CASE (\E write \in BOOLEAN : Counts!Measure(write)) \/ Counts!Kill
      <3>1. lastRun' \in {"none", "killed"}
        BY <2>3 DEF Counts!Measure, Counts!Kill
      <3>. QED
        BY <3>1 DEF Counts!ScratchIsRemoved
    <2>. QED
      BY <2>1, <2>2, <2>3
  <1>8. Counts!IniWritten' /\ Counts!WriteSettles'
    BY <1>3 DEF Counts!IniWritten, Counts!WriteSettles
  <1>. QED
    BY <1>3, <1>4, <1>6, <1>7, <1>8 DEF Counts!IInv

\* A run that has written .vale.ini finds there what it measured.
LEMMA WriteIniKeeps ==
    ASSUME Counts!IInv, Counts!WriteIni
    PROVE  Counts!IInv'
  <1>1. /\ UNCHANGED <<hits, files, terms, level, vale, guide, lastRun>>
        /\ count' = Counts!CountAsMeasured /\ header' = Counts!HeaderAsMeasured
        /\ scratch' = (scratch /\ ~ Counts!SecondRun)
        /\ run' = "to write the guide" /\ UNCHANGED Counts!world
    BY DEF Counts!WriteIni, Counts!world, Counts!ScratchAfter
  <1>2. lastRun' = "none"
    BY <1>1 DEF Counts!WriteIni, Counts!IInv
  <1>3. Counts!TypeOK'
    <2>1. /\ count' \in [Rules -> Counts!Hits \cup {Counts!None}]
          /\ header' \in Counts!HeaderClaims
      BY <1>1, MeasuredTyped DEF Counts!IInv
    <2>. QED
      BY <1>1, <2>1 DEF Counts!IInv, Counts!TypeOK
  <1>4. Counts!IniWritten'
    <2>1. /\ UNCHANGED <<Counts!ByRule, Counts!Total, Counts!SecondRun>>
          /\ UNCHANGED <<Counts!Noun(files), Counts!GuideAsMeasured>>
      BY <1>1, SameMeasured
    <2>2. Counts!HeaderAsMeasured' = header'
      BY <1>1, <2>1 DEF Counts!HeaderAsMeasured
    <2>3. Counts!CountAsMeasured' = count'
      <3>1. Counts!CountAsMeasured'
            = [r \in Rules |-> IF count'[r] = Counts!None /\ level[r] = "error"
                               THEN Counts!None ELSE Counts!ByRule[r]]
        BY <1>1, <2>1 DEF Counts!CountAsMeasured
      <3>2. \A r \in Rules : count'[r] = IF count[r] = Counts!None /\ level[r] = "error"
                                         THEN Counts!None ELSE Counts!ByRule[r]
        BY <1>1 DEF Counts!CountAsMeasured
      <3>3. \A r \in Rules : Counts!ByRule[r] # Counts!None
        <4>1. MaxHits \in Nat
          BY ConstantsAreRight DEF Counts!BoundsAreNat
        <4>2. \A r \in Rules : Counts!ByRule[r] \in 0 .. MaxHits
          BY FiresAreHits DEF Counts!IInv
        <4>. QED
          BY <4>1, <4>2 DEF Counts!None
      <3>4. \A r \in Rules : count'[r] = Counts!CountAsMeasured'[r]
        BY <3>1, <3>2, <3>3
      <3>. QED
        BY <1>1, <3>1, <3>4 DEF Counts!CountAsMeasured
    <2>. QED
      BY <1>1, <2>1, <2>2, <2>3 DEF Counts!IniWritten
  <1>. QED
    BY <1>1, <1>2, <1>3, <1>4 DEF Counts!IInv, Counts!CheckIsExact, Counts!WriteSettles,
       Counts!ScratchIsRemoved

\* As in every state, so in the next one.
LEMMA AlwaysWrongIfUntrue ==
    [](Counts!TypeOK /\ vale = "pinned" => (Counts!Wrong <=> ~ Counts!Truth))
  <1>1. Counts!TypeOK /\ vale = "pinned" => (Counts!Wrong <=> ~ Counts!Truth)
    BY WrongIfUntrue
  <1>. QED
    BY <1>1, PTL

\* A run that has written both has made the record true.
LEMMA WriteGuideKeeps ==
    ASSUME Counts!IInv, Counts!WriteGuide
    PROVE  Counts!IInv'
  <1>1. /\ UNCHANGED <<hits, files, terms, level, vale, count, header, scratch>>
        /\ guide' = Counts!GuideAsMeasured /\ UNCHANGED Counts!world
        /\ run' = "none" /\ lastRun' = "written"
        /\ count = Counts!CountAsMeasured /\ header = Counts!HeaderAsMeasured
        /\ Counts!SecondRun => ~ scratch
    BY DEF Counts!WriteGuide, Counts!world, Counts!IInv, Counts!IniWritten
  <1>2. Counts!TypeOK'
    <2>1. guide' \in Counts!Claims
      BY <1>1, MeasuredTyped DEF Counts!IInv
    <2>. QED
      BY <1>1, <2>1 DEF Counts!IInv, Counts!TypeOK
  <1>3. /\ UNCHANGED <<Counts!ByRule, Counts!Total, Counts!SecondRun>>
        /\ UNCHANGED <<Counts!Noun(files), Counts!GuideAsMeasured>>
    BY <1>1, SameMeasured
  <1>4. vale' = "pinned" => ~ Counts!Wrong'
    <2>1. count' = Counts!CountAsMeasured'
      BY <1>1, <1>3 DEF Counts!CountAsMeasured
    <2>2. header' = Counts!HeaderAsMeasured'
      BY <1>1, <1>3 DEF Counts!HeaderAsMeasured
    <2>3. guide' = Counts!GuideAsMeasured'
      BY <1>1, <1>3
    <2>. QED
      BY <2>1, <2>2, <2>3 DEF Counts!Wrong
  <1>5. (Counts!TypeOK /\ vale = "pinned" => (Counts!Wrong <=> ~ Counts!Truth))'
    BY AlwaysWrongIfUntrue, PTL
  <1>6. vale' = "pinned" => Counts!Truth'
    BY <1>2, <1>4, <1>5
  <1>7. Counts!WriteSettles'
    BY <1>6 DEF Counts!WriteSettles
  <1>8. Counts!ScratchIsRemoved'
    BY <1>1, <1>3 DEF Counts!ScratchIsRemoved
  <1>. QED
    BY <1>1, <1>2, <1>7, <1>8 DEF Counts!IInv, Counts!IniWritten, Counts!CheckIsExact

\* Every step of the script, and every edit, keeps the invariant.
LEMMA CountsNext ==
    ASSUME Counts!IInv, [Counts!Next]_(Counts!vars)
    PROVE  Counts!IInv'
  <1>1. CASE \/ Counts!EditPages \/ Counts!EditVocabulary \/ Counts!OtherVale
             \/ Counts!EditRule \/ Counts!EditProse
    BY <1>1, EditTyped, CountsEdited DEF Counts!IInv
  <1>2. CASE UNCHANGED Counts!vars
    <2>1. UNCHANGED <<Counts!world, Counts!record>> /\ UNCHANGED <<scratch, run, lastRun>>
      BY <1>2 DEF Counts!vars
    <2>2. UNCHANGED <<hits, files, terms, level, vale, count, header, guide>>
      BY <2>1 DEF Counts!world, Counts!record
    <2>3. /\ Counts!Truth' <=> Counts!Truth
          /\ UNCHANGED <<Counts!CountAsMeasured, Counts!HeaderAsMeasured, Counts!SecondRun>>
      BY <2>1, SameTruth
    <2>4. Counts!TypeOK'
      BY <2>1, <2>2 DEF Counts!IInv, Counts!TypeOK
    <2>. QED
      BY <2>1, <2>2, <2>3, <2>4 DEF Counts!IInv, Counts!IniWritten, Counts!CheckIsExact,
         Counts!WriteSettles, Counts!ScratchIsRemoved
  <1>. QED
    BY <1>1, <1>2, RunKeeps, WriteIniKeeps, WriteGuideKeeps DEF Counts!Next

\* Also beside the other scripts.
LEMMA CountsKeeps ==
    ASSUME script = "vale-counts" => Counts!IInv,
           [Embeds \/ CountsHits \/ Rewrites]_scriptVars
    PROVE  (script = "vale-counts" => Counts!IInv)'
  <1>1. CASE CountsHits
    BY <1>1, CountsNext DEF CountsHits
  <1>2. CASE Embeds \/ Rewrites
    BY <1>2 DEF Embeds, Rewrites
  <1>3. CASE UNCHANGED scriptVars
    <2>1. UNCHANGED script /\ UNCHANGED Counts!vars
      BY <1>3 DEF scriptVars, countVars, Counts!vars, Counts!world, Counts!record
    <2>. QED
      BY <2>1, CountsNext
  <1>. QED
    BY <1>1, <1>2, <1>3

\* However the pages, the rules, the comments and Vale change between runs, and
\* wherever a run is killed: with the Vale CI pins a check passes exactly on a
\* true record, a rewrite that ends makes it true, and a run that measured and
\* was not killed leaves no scratch copy behind.
THEOREM RecordSettled == ScriptsSpec => []RecordSettles
  <1>1. ScriptsInit => (script = "vale-counts" => Counts!IInv)
    BY CountsInit DEF ScriptsInit
  <1>2. (script = "vale-counts" => Counts!IInv)
        /\ [Embeds \/ CountsHits \/ Rewrites]_scriptVars
        => (script = "vale-counts" => Counts!IInv)'
    BY CountsKeeps
  <1>3. (script = "vale-counts" => Counts!IInv) => RecordSettles
    BY DEF RecordSettles, Counts!IInv
  <1>. QED
    BY <1>1, <1>2, <1>3, PTL DEF ScriptsSpec

-----------------------------------------------------------------------------
(* ValeBlocks.                                                             *)

\* ValeBlocks flattens and counts as the modules of its instance do.
LEMMA BlocksFlatten ==
    \A ss : Blocks!FlattenSeq(ss) = FlattenSeq(ss) /\ Blocks!Cardinality(ss) = Cardinality(ss)
  BY DEF FlattenSeq, Blocks!FlattenSeq, Cardinality, Blocks!Cardinality

\* A sequence with a function applied to each element.
Mapped(g, s) == [k \in DOMAIN s |-> g[s[k]]]

MapsInto(g, T, U) == \A x \in T : g[x] \in U

MapsConcat(g, U, a, b) ==
    /\ Mapped(g, a) \in Seq(U) /\ Len(Mapped(g, a)) = Len(a)
    /\ Mapped(g, a \o b) = Mapped(g, a) \o Mapped(g, b)

\* Two sequences mapped and put together.
LEMMA MappedConcat ==
    ASSUME NEW T, NEW U, NEW g, MapsInto(g, T, U), NEW a \in Seq(T), NEW b \in Seq(T)
    PROVE  MapsConcat(g, U, a, b)
  <1>1. PICK m, n : m = Len(a) /\ n = Len(b)
    OBVIOUS
  <1>2. /\ m \in Nat /\ n \in Nat
        /\ DOMAIN a = 1 .. m /\ DOMAIN b = 1 .. n
        /\ \A i \in 1 .. m : a[i] \in T
        /\ \A i \in 1 .. n : b[i] \in T
    BY <1>1
  <1>3. PICK c : c = a \o b
    BY Zenon
  <1>4. /\ c \in Seq(T) /\ Len(c) = m + n
        /\ \A i \in 1 .. m + n : c[i] = IF i <= m THEN a[i] ELSE b[i - m]
    BY <1>1, <1>3, ConcatProperties
  <1>5. PICK x, y, z : x = Mapped(g, a) /\ y = Mapped(g, b) /\ z = Mapped(g, c)
    BY Zenon
  <1>6. x = [k \in 1 .. m |-> g[a[k]]] /\ y = [k \in 1 .. n |-> g[b[k]]]
    BY <1>2, <1>5, Zenon DEF Mapped
  <1>7. DOMAIN c = 1 .. m + n
    BY <1>2, <1>4
  <1>8. z = [k \in 1 .. m + n |-> g[c[k]]]
    BY <1>5, <1>7, Zenon DEF Mapped
  <1>9. x \in Seq(U) /\ Len(x) = m /\ y \in Seq(U) /\ Len(y) = n
    <2>1. (\A k \in 1 .. m : g[a[k]] \in U) /\ (\A k \in 1 .. n : g[b[k]] \in U)
      BY <1>2 DEF MapsInto
    <2>2. x \in [1 .. m -> U] /\ y \in [1 .. n -> U]
      BY <1>6, <2>1
    <2>. QED
      BY <1>2, <2>2
  <1>10. z = x \o y
    <2>1. PICK w : w = x \o y
      BY Zenon
    <2>2. /\ w \in Seq(U) /\ Len(w) = m + n
          /\ \A i \in 1 .. m + n : w[i] = IF i <= m THEN x[i] ELSE y[i - m]
      BY <1>9, <2>1, ConcatProperties
    <2>3. DOMAIN w = 1 .. m + n /\ w = [k \in 1 .. m + n |-> w[k]]
      BY <1>2, <2>2
    <2>4. \A i \in 1 .. m + n : w[i] = g[c[i]]
      <3>. TAKE i \in 1 .. m + n
      <3>1. CASE i <= m
        <4>1. i \in 1 .. m
          BY <1>2, <3>1
        <4>. QED
          BY <1>4, <1>6, <2>2, <3>1, <4>1
      <3>2. CASE ~ (i <= m)
        <4>1. i - m \in 1 .. n
          BY <1>2, <3>2
        <4>. QED
          BY <1>4, <1>6, <2>2, <3>2, <4>1
      <3>. QED
        BY <3>1, <3>2
    <2>. QED
      BY <1>8, <2>1, <2>3, <2>4, Zenon
  <1>. QED
    BY <1>1, <1>3, <1>5, <1>9, <1>10, Zenon DEF MapsConcat

MapsFlat(g, T, tt, ss) ==
    FlattenSeq(tt) = Mapped(g, FlattenSeq(ss)) /\ FlattenSeq(ss) \in Seq(T)

\* Parts mapped and put together.
LEMMA MappedFlatten ==
    ASSUME NEW T, NEW U, NEW g, MapsInto(g, T, U), NEW ss \in Seq(Seq(T)), NEW tt,
           DOMAIN tt = DOMAIN ss, tt \in Seq(Seq(U)),
           \A i \in DOMAIN ss : tt[i] = Mapped(g, ss[i])
    PROVE  MapsFlat(g, T, tt, ss)
  <1>1. PICK n : n = Len(ss)
    OBVIOUS
  <1>2. /\ n \in Nat /\ DOMAIN ss = 1 .. n /\ Len(tt) = n
        /\ \A i \in 1 .. n : ss[i] \in Seq(T) /\ tt[i] \in Seq(U)
    BY <1>1
  <1>3. CASE n = 0
    <2>1. ss = <<>> /\ tt = <<>>
      BY <1>2, <1>3
    <2>2. FlattenSeq(<<>>) = <<>>
      BY DEF FlattenSeq
    <2>3. <<>> \in Seq(T) /\ DOMAIN <<>> = {}
      OBVIOUS
    <2>4. Mapped(g, <<>>) = <<>>
      <3>1. PICK x : x = Mapped(g, <<>>)
        BY Zenon
      <3>2. x \in Seq(U) /\ Len(x) = Len(<<>>)
        <4>1. MapsConcat(g, U, <<>>, <<>>)
          BY <2>3, MappedConcat, Zenon
        <4>. QED
          BY <3>1, <4>1, Zenon DEF MapsConcat
      <3>3. x = <<>>
        BY <3>2
      <3>. QED
        BY <3>1, <3>3, Zenon
    <2>. QED
      BY <2>1, <2>2, <2>3, <2>4, Zenon DEF MapsFlat
  <1>4. CASE n # 0
    <2>1. ss # <<>> /\ tt # <<>>
      BY <1>1, <1>2, <1>4
    <2>2. PICK f \in [1 .. n -> Seq(T)] :
             /\ f[1] = ss[1] /\ \A i \in 2 .. n : f[i] = f[i - 1] \o ss[i]
             /\ FlattenSeq(ss) = f[n]
      BY <1>1, <2>1, FlattenSteps, Zenon
    <2>3. PICK h \in [1 .. n -> Seq(U)] :
             /\ h[1] = tt[1] /\ \A i \in 2 .. n : h[i] = h[i - 1] \o tt[i]
             /\ FlattenSeq(tt) = h[n]
      BY <1>2, <2>1, FlattenSteps, Zenon
    <2>. DEFINE P == {i \in 1 .. n : h[i] = Mapped(g, f[i])}
    <2>4. 1 \in P
      <3>1. 1 \in 1 .. n
        BY <1>2, <1>4
      <3>. QED
        BY <1>2, <2>2, <2>3, <3>1, Zenon
    <2>5. ASSUME NEW k \in 1 .. n - 1, k \in P
          PROVE  k + 1 \in P
      <3>1. PICK j : j = k + 1
        OBVIOUS
      <3>2. j \in 2 .. n /\ j - 1 = k /\ j \in 1 .. n /\ k \in 1 .. n
        BY <1>2, <3>1
      <3>3. h[j] = h[k] \o tt[j] /\ f[j] = f[k] \o ss[j]
        BY <2>2, <2>3, <3>2, Zenon
      <3>4. h[k] = Mapped(g, f[k]) /\ tt[j] = Mapped(g, ss[j])
        BY <1>2, <2>5, <3>2, Zenon
      <3>5. f[k] \in Seq(T) /\ ss[j] \in Seq(T)
        BY <1>2, <2>2, <3>2
      <3>6. Mapped(g, f[k] \o ss[j]) = Mapped(g, f[k]) \o Mapped(g, ss[j])
        <4>1. MapsConcat(g, U, f[k], ss[j])
          BY <3>5, MappedConcat, Zenon
        <4>. QED
          BY <4>1, Zenon DEF MapsConcat
      <3>7. h[j] = Mapped(g, f[j])
        BY <3>3, <3>4, <3>6, Zenon
      <3>. QED
        BY <3>1, <3>2, <3>7, Zenon
    <2>6. P = 1 .. n
      <3>. HIDE DEF P
      <3>1. P \in SUBSET (1 .. n)
        BY DEF P
      <3>. QED
        BY <1>2, <1>4, <2>4, <2>5, <3>1, UpTo, Zenon
    <2>7. n \in P
      <3>1. n \in 1 .. n
        BY <1>2, <1>4
      <3>. QED
        BY <2>6, <3>1, Zenon
    <2>8. f[n] \in Seq(T)
      BY <1>2, <1>4, <2>2
    <2>. QED
      BY <2>2, <2>3, <2>7, <2>8, Zenon DEF MapsFlat
  <1>. QED
    BY <1>3, <1>4

\* A set in order, from the greatest down.
InOrderOf(s, S) ==
    /\ s \in [1 .. Cardinality(S) -> S]
    /\ \A x \in S : \E n \in DOMAIN s : s[n] = x
    /\ \A m, n \in DOMAIN s : m < n => s[m] > s[n]

\* One that is greater than all comes first.
LEMMA OrderGrows ==
    ASSUME NEW A, IsFiniteSet(A), A \subseteq Nat, NEW v \in Nat, \A x \in A : x < v,
           NEW s, InOrderOf(s, A)
    PROVE  \E t : InOrderOf(t, A \cup {v})
  <1>1. PICK c : c = Cardinality(A)
    OBVIOUS
  <1>2. c \in Nat /\ v \notin A
    BY <1>1, FS_CardinalityType
  <1>3. Cardinality(A \cup {v}) = c + 1
    BY <1>1, <1>2, FS_AddElement
  <1>4. /\ s \in [1 .. c -> A]
        /\ \A x \in A : \E n \in 1 .. c : s[n] = x
        /\ \A m, n \in 1 .. c : m < n => s[m] > s[n]
    BY <1>1 DEF InOrderOf
  <1>. DEFINE t == [k \in 1 .. c + 1 |-> IF k = 1 THEN v ELSE s[k - 1]]
  <1>5. /\ 1 \in 1 .. c + 1 /\ t[1] = v
        /\ \A n \in 1 .. c : n + 1 \in 1 .. c + 1 /\ t[n + 1] = s[n]
        /\ \A k \in 1 .. c + 1 : k # 1 => k - 1 \in 1 .. c /\ t[k] = s[k - 1]
    BY <1>2
  <1>6. t \in [1 .. c + 1 -> A \cup {v}]
    BY <1>2, <1>4
  <1>. HIDE DEF t
  <1>7. \A x \in A \cup {v} : \E n \in 1 .. c + 1 : t[n] = x
    BY <1>4, <1>5
  <1>8. ASSUME NEW m \in 1 .. c + 1, NEW n \in 1 .. c + 1, m < n
        PROVE  t[m] > t[n]
    <2>1. n # 1 /\ n - 1 \in 1 .. c /\ t[n] = s[n - 1]
      BY <1>2, <1>5, <1>8
    <2>2. s[n - 1] \in A
      BY <1>4, <2>1
    <2>3. CASE m = 1
      BY <1>5, <2>1, <2>2, <2>3
    <2>4. CASE m # 1
      <3>1. m - 1 \in 1 .. c /\ t[m] = s[m - 1] /\ m - 1 < n - 1
        BY <1>2, <1>5, <1>8, <2>4
      <3>. QED
        BY <1>4, <2>1, <3>1
    <2>. QED
      BY <2>3, <2>4
  <1>9. DOMAIN t = 1 .. c + 1
    BY <1>6
  <1>10. InOrderOf(t, A \cup {v})
    BY <1>3, <1>6, <1>7, <1>8, <1>9, Zenon DEF InOrderOf
  <1>. QED
    BY <1>10, Zenon

\* Every finite set of numbers can be put in order.
LEMMA OrderExists ==
    ASSUME NEW N \in Nat, NEW S \in SUBSET (1 .. N)
    PROVE  \E s : InOrderOf(s, S)
  <1>. DEFINE A(n) == S \cap (1 .. n)
              P == {n \in 0 .. N : \E s : InOrderOf(s, A(n))}
  <1>1. 0 \in P
    <2>1. A(0) = {} /\ Cardinality({}) = 0
      BY FS_EmptySet
    <2>2. <<>> \in [1 .. 0 -> {}] /\ DOMAIN <<>> = {}
      OBVIOUS
    <2>3. InOrderOf(<<>>, {})
      BY <2>1, <2>2 DEF InOrderOf
    <2>. HIDE DEF A
    <2>4. \E s : InOrderOf(s, A(0))
      BY <2>1, <2>3, Zenon
    <2>. QED
      BY <2>4
  <1>2. ASSUME NEW n \in 0 .. N - 1, n \in P
        PROVE  n + 1 \in P
    <2>1. PICK s : InOrderOf(s, A(n))
      BY <1>2
    <2>2. IsFiniteSet(A(n)) /\ A(n) \subseteq Nat /\ \A x \in A(n) : x < n + 1
      <3>1. IsFiniteSet(1 .. n) /\ A(n) \subseteq 1 .. n
        BY FS_Interval
      <3>2. IsFiniteSet(A(n))
        BY <3>1, FS_Subset
      <3>. QED
        BY <3>2
    <2>3. PICK v : v = n + 1
      OBVIOUS
    <2>4. v \in Nat /\ \A x \in A(n) : x < v
      BY <2>2, <2>3
    <2>5. A(v) = A(n) \/ A(v) = A(n) \cup {v}
      BY <2>3
    <2>. HIDE DEF A
    <2>6. \E t : InOrderOf(t, A(v))
      <3>1. \E t : InOrderOf(t, A(n) \cup {v})
        BY <2>1, <2>2, <2>4, OrderGrows, Zenon
      <3>. QED
        BY <2>1, <2>5, <3>1, Zenon
    <2>. QED
      BY <2>3, <2>6
  <1>3. P = 0 .. N
    <2>. HIDE DEF P
    <2>1. P \in SUBSET (0 .. N)
      BY DEF P
    <2>. QED
      BY <1>1, <1>2, <2>1, UpTo
  <1>4. \E s : InOrderOf(s, A(N))
    <2>1. N \in P
      <3>. HIDE DEF P
      <3>. QED
        BY <1>3
    <2>. QED
      BY <2>1
  <1>5. A(N) = S
    OBVIOUS
  <1>. HIDE DEF A
  <1>. QED
    BY <1>4, <1>5, Zenon

\* So InOrder is one.
LEMMA InOrderIs ==
    ASSUME NEW N \in Nat, NEW S \in SUBSET (1 .. N)
    PROVE  InOrderOf(Blocks!InOrder(S), S)
  <1>. DEFINE Right(s) ==
                /\ Blocks!ToSet(s) = S
                /\ \A m, n \in DOMAIN s : m < n => s[m] > s[n]
              F == [1 .. Cardinality(S) -> S]
  <1>1. PICK s : InOrderOf(s, S)
    BY OrderExists, Zenon
  <1>2. s \in F /\ Right(s)
    <2>1. Blocks!ToSet(s) = {s[n] : n \in DOMAIN s}
      BY DEF Blocks!ToSet
    <2>2. {s[n] : n \in DOMAIN s} = S
      BY <1>1 DEF InOrderOf
    <2>. QED
      BY <1>1, <2>1, <2>2, Zenon DEF InOrderOf
  <1>3. PICK r : r = (CHOOSE q \in F : Right(q)) /\ r \in F /\ Right(r)
    <2>. HIDE DEF F, Right
    <2>. QED
      BY <1>2, Zenon
  <1>4. Blocks!InOrder(S) = r
    BY <1>3, BlocksFlatten, Zenon DEF Blocks!InOrder
  <1>5. \A x \in S : \E n \in DOMAIN r : r[n] = x
    BY <1>3 DEF Blocks!ToSet
  <1>. QED
    BY <1>3, <1>4, <1>5, Zenon DEF InOrderOf

\* Files of lines, and where the comment right above a line begins.
IniFiles == Seq(Blocks!KnownLines)

StartsAt(ls, i, s) ==
    /\ s \in 1 .. i
    /\ \A j \in s .. i - 1 : ls[j].kind = "comment"
    /\ s = 1 \/ ls[s - 1].kind # "comment"

\* What a line is.
LEMMA LineIs ==
    ASSUME NEW ls \in IniFiles, NEW j \in DOMAIN ls
    PROVE  /\ DOMAIN ls = 1 .. Len(ls) /\ Len(ls) \in Nat
           /\ ls[j] \in Blocks!KnownLines
           /\ ls[j].kind \in {"comment", "rule", "else"}
           /\ ls[j].tokens \in Seq(Blocks!Tokens)
           /\ ls[j].kind = "rule" => HitsOf[ls[j].rule] \in Nat
  <1>1. DOMAIN ls = 1 .. Len(ls) /\ Len(ls) \in Nat /\ ls[j] \in Blocks!KnownLines
    BY DEF IniFiles
  <1>2. PICK line : line = ls[j]
    OBVIOUS
  <1>3. line \in Blocks!KnownLines
    BY <1>1, <1>2, Zenon
  <1>4. /\ line.kind \in {"comment", "rule", "else"}
        /\ line.tokens \in Seq(Blocks!Tokens)
        /\ line.kind = "rule" => line.rule \in DOMAIN HitsOf
    BY <1>3 DEF Blocks!KnownLines
  <1>5. \A r \in DOMAIN HitsOf : HitsOf[r] \in Nat
    BY ConstantsAreRight DEF Blocks!HitsAreCounts
  <1>. QED
    BY <1>1, <1>2, <1>4, <1>5, Zenon

\* There is such a place.
LEMMA StartExists ==
    ASSUME NEW ls \in IniFiles, NEW i \in DOMAIN ls
    PROVE  \E s : StartsAt(ls, i, s)
  <1>. DEFINE T == {s \in 1 .. i : \A j \in s .. i - 1 : ls[j].kind = "comment"}
  <1>1. i \in Nat /\ i >= 1
    BY LineIs
  <1>2. T \subseteq Nat /\ i \in T
    BY <1>1
  <1>3. PICK s \in T : \A k \in T : s <= k
    <2>. HIDE DEF T
    <2>. QED
      BY <1>2, LeastExists
  <1>4. s \in 1 .. i /\ \A j \in s .. i - 1 : ls[j].kind = "comment"
    BY <1>3
  <1>5. s = 1 \/ ls[s - 1].kind # "comment"
    <2>. SUFFICES ASSUME s # 1, ls[s - 1].kind = "comment"
                  PROVE  FALSE
      OBVIOUS
    <2>1. s - 1 \in 1 .. i
      BY <1>1, <1>4
    <2>2. ASSUME NEW j \in s - 1 .. i - 1
          PROVE  ls[j].kind = "comment"
      <3>1. j = s - 1 \/ j \in s .. i - 1
        BY <1>1, <1>4
      <3>. QED
        BY <1>4, <3>1
    <2>3. s - 1 \in T
      BY <2>1, <2>2
    <2>4. s <= s - 1
      BY <1>3, <2>3
    <2>. QED
      BY <1>4, <2>4
  <1>. QED
    BY <1>4, <1>5, Zenon DEF StartsAt

\* The block is what is between.
LEMMA BlockFrom ==
    ASSUME NEW ls \in IniFiles, NEW i \in DOMAIN ls, NEW s, StartsAt(ls, i, s)
    PROVE  /\ Blocks!Block(ls, i) = s .. i - 1
           /\ Blocks!Cardinality(Blocks!Block(ls, i)) = i - s
           /\ i \in Nat /\ s \in 1 .. i
  <1>1. i \in Nat /\ i >= 1
    BY LineIs
  <1>2. /\ s \in 1 .. i /\ \A j \in s .. i - 1 : ls[j].kind = "comment"
        /\ s = 1 \/ ls[s - 1].kind # "comment"
    BY DEF StartsAt
  <1>. DEFINE B == {j \in 1 .. i - 1 : \A k \in j .. i - 1 : ls[k].kind = "comment"}
  <1>3. ASSUME NEW j \in s .. i - 1
        PROVE  j \in B
    <2>1. j \in 1 .. i - 1 /\ \A k \in j .. i - 1 : k \in s .. i - 1
      BY <1>1, <1>2
    <2>. QED
      BY <1>2, <2>1
  <1>4. ASSUME NEW j \in B
        PROVE  j \in s .. i - 1
    <2>1. j \in 1 .. i - 1 /\ \A k \in j .. i - 1 : ls[k].kind = "comment"
      OBVIOUS
    <2>2. ~ (j < s)
      <3>. SUFFICES ASSUME j < s
                    PROVE  FALSE
        OBVIOUS
      <3>1. s # 1 /\ s - 1 \in j .. i - 1
        BY <1>1, <1>2, <2>1
      <3>. QED
        BY <1>2, <2>1, <3>1
    <2>. QED
      BY <1>1, <1>2, <2>1, <2>2
  <1>5. B = s .. i - 1
    <2>. HIDE DEF B
    <2>. QED
      BY <1>3, <1>4, Zenon
  <1>6. Blocks!Block(ls, i) = s .. i - 1
    BY <1>5 DEF Blocks!Block
  <1>7. Cardinality(s .. i - 1) = i - s
    <2>1. s \in Int /\ i - 1 \in Int
      BY <1>1, <1>2
    <2>2. Cardinality(s .. i - 1) = IF s > i - 1 THEN 0 ELSE (i - 1) - s + 1
      BY <2>1, FS_Interval
    <2>. QED
      BY <1>1, <1>2, <2>2
  <1>. QED
    BY <1>1, <1>2, <1>6, <1>7, BlocksFlatten, Zenon

\* The places of its tokens.
TokenPlaces(ls, s, i) ==
    {p \in Nat \X Nat : p[1] \in s .. i - 1 /\ p[2] \in DOMAIN ls[p[1]].tokens}

PlacesFrom(ls, s, i) == [n \in 1 .. i - s |-> Blocks!Places(ls, s - 1 + n)]

\* The places of one line of it.
LEMMA PlacesAre ==
    ASSUME NEW ls \in IniFiles, NEW i \in DOMAIN ls, NEW s, StartsAt(ls, i, s),
           NEW j \in s .. i - 1, NEW m, m = Len(ls[j].tokens)
    PROVE  /\ j \in DOMAIN ls /\ m \in Nat /\ DOMAIN ls[j].tokens = 1 .. m
           /\ Blocks!Places(ls, j) \in Seq(TokenPlaces(ls, s, i))
           /\ Len(Blocks!Places(ls, j)) = m
           /\ \A k \in 1 .. m : /\ Blocks!Places(ls, j)[k] = <<j, k>>
                                /\ <<j, k>> \in TokenPlaces(ls, s, i)
  <1>1. j \in DOMAIN ls /\ j \in Nat
    BY LineIs, BlockFrom
  <1>2. m \in Nat /\ DOMAIN ls[j].tokens = 1 .. m
    <2>1. PICK q : q = ls[j].tokens
      OBVIOUS
    <2>2. q \in Seq(Blocks!Tokens)
      BY <1>1, <2>1, LineIs
    <2>3. Len(q) \in Nat /\ DOMAIN q = 1 .. Len(q)
      BY <2>2
    <2>. QED
      BY <2>1, <2>3
  <1>3. PICK x : x = Blocks!Places(ls, j)
    BY Zenon
  <1>4. x = [k \in 1 .. m |-> <<j, k>>]
    BY <1>2, <1>3, Zenon DEF Blocks!Places
  <1>5. \A k \in 1 .. m : <<j, k>> \in TokenPlaces(ls, s, i)
    <2>. TAKE k \in 1 .. m
    <2>1. <<j, k>> \in Nat \X Nat /\ (<<j, k>>)[1] = j /\ (<<j, k>>)[2] = k
      BY <1>1, <1>2
    <2>. QED
      BY <1>2, <2>1, Zenon DEF TokenPlaces
  <1>6. x \in Seq(TokenPlaces(ls, s, i)) /\ Len(x) = m /\ \A k \in 1 .. m : x[k] = <<j, k>>
    <2>1. PICK S : S = TokenPlaces(ls, s, i)
      BY Zenon
    <2>2. \A k \in 1 .. m : <<j, k>> \in S
      BY <1>5, <2>1, Zenon
    <2>3. x \in [1 .. m -> S] /\ \A k \in 1 .. m : x[k] = <<j, k>>
      BY <1>4, <2>2
    <2>4. x \in Seq(S) /\ Len(x) = m
      BY <1>2, <2>3
    <2>. QED
      BY <2>1, <2>3, <2>4, Zenon
  <1>. QED
    BY <1>1, <1>2, <1>3, <1>5, <1>6, Zenon

\* What is joined is those of its lines.
LEMMA JoinFrom ==
    ASSUME NEW ls \in IniFiles, NEW i \in DOMAIN ls, NEW s, StartsAt(ls, i, s)
    PROVE  /\ Blocks!Join(ls, i) = FlattenSeq(PlacesFrom(ls, s, i))
           /\ PlacesFrom(ls, s, i) \in Seq(Seq(TokenPlaces(ls, s, i)))
           /\ Blocks!Join(ls, i) \in Seq(TokenPlaces(ls, s, i))
           /\ DOMAIN PlacesFrom(ls, s, i) = 1 .. i - s
           /\ \A n \in 1 .. i - s : PlacesFrom(ls, s, i)[n] = Blocks!Places(ls, s - 1 + n)
  <1>1. /\ Blocks!Cardinality(Blocks!Block(ls, i)) = i - s
        /\ i \in Nat /\ s \in 1 .. i
    BY BlockFrom
  <1>2. PICK c, y, S : c = i - s /\ y = PlacesFrom(ls, s, i) /\ S = TokenPlaces(ls, s, i)
    BY Zenon
  <1>3. c \in Nat /\ \A n \in 1 .. c : s - 1 + n \in s .. i - 1 /\ i - c - 1 + n = s - 1 + n
    BY <1>1, <1>2
  <1>4. y = [n \in 1 .. c |-> Blocks!Places(ls, s - 1 + n)]
    BY <1>2, Zenon DEF PlacesFrom
  <1>5. Blocks!Join(ls, i) = FlattenSeq(y)
    <2>1. Blocks!Join(ls, i) =
             Blocks!FlattenSeq([n \in 1 .. c |-> Blocks!Places(ls, i - c - 1 + n)])
      BY <1>1, <1>2, Zenon DEF Blocks!Join
    <2>2. [n \in 1 .. c |-> Blocks!Places(ls, i - c - 1 + n)] = y
      BY <1>3, <1>4, Zenon
    <2>. QED
      BY <2>1, <2>2, BlocksFlatten, Zenon
  <1>6. \A n \in 1 .. c : Blocks!Places(ls, s - 1 + n) \in Seq(S)
    <2>1. \A j \in s .. i - 1 : Blocks!Places(ls, j) \in Seq(S)
      BY <1>2, PlacesAre, Zenon
    <2>. QED
      BY <1>3, <2>1, Zenon
  <1>7. y \in Seq(Seq(S)) /\ DOMAIN y = 1 .. c
    <2>1. PICK Q : Q = Seq(S)
      OBVIOUS
    <2>2. \A n \in 1 .. c : Blocks!Places(ls, s - 1 + n) \in Q
      BY <1>6, <2>1, Zenon
    <2>3. y \in [1 .. c -> Q]
      BY <1>4, <2>2
    <2>4. y \in Seq(Q)
      BY <1>3, <2>3
    <2>. QED
      BY <2>1, <2>3, <2>4
  <1>8. FlattenSeq(y) \in Seq(S)
    <2>1. <<>> \in Seq(S)
      OBVIOUS
    <2>. QED
      BY <1>7, <2>1, FlattenOneMore
  <1>. QED
    BY <1>2, <1>4, <1>5, <1>7, <1>8, Zenon

\* The tokens at places of a block.
Told(ls, s, i) == [p \in TokenPlaces(ls, s, i) |-> Blocks!TokenAt(ls, p)]

\* A place is that of a token.
LEMMA PlaceIs ==
    ASSUME NEW ls \in IniFiles, NEW i \in DOMAIN ls, NEW s, StartsAt(ls, i, s),
           NEW p \in TokenPlaces(ls, s, i)
    PROVE  /\ p = <<p[1], p[2]>> /\ p[1] \in s .. i - 1 /\ p[1] \in DOMAIN ls
           /\ p[2] \in DOMAIN ls[p[1]].tokens
           /\ Blocks!TokenAt(ls, p) = ls[p[1]].tokens[p[2]]
           /\ Blocks!TokenAt(ls, p) \in Blocks!Tokens
  <1>1. p \in Nat \X Nat /\ p[1] \in s .. i - 1 /\ p[2] \in DOMAIN ls[p[1]].tokens
    BY Zenon DEF TokenPlaces
  <1>2. p = <<p[1], p[2]>>
    BY <1>1
  <1>3. p[1] \in DOMAIN ls
    BY <1>1, PlacesAre
  <1>4. ls[p[1]].tokens \in Seq(Blocks!Tokens)
    BY <1>3, LineIs
  <1>5. ls[p[1]].tokens[p[2]] \in Blocks!Tokens
    <2>1. PICK q, k : q = ls[p[1]].tokens /\ k = p[2]
      OBVIOUS
    <2>2. q \in Seq(Blocks!Tokens) /\ k \in DOMAIN q
      BY <1>1, <1>4, <2>1, Zenon
    <2>3. q[k] \in Blocks!Tokens
      BY <2>2
    <2>. QED
      BY <2>1, <2>3, Zenon
  <1>. QED
    BY <1>1, <1>2, <1>3, <1>5, Zenon DEF Blocks!TokenAt

\* The prose above a line is what is joined, as tokens.
LEMMA ProseIs ==
    ASSUME ini \in IniFiles, NEW i \in DOMAIN ini, NEW s, StartsAt(ini, i, s)
    PROVE  Blocks!ProseAbove(i) = Mapped(Told(ini, s, i), Blocks!Join(ini, i))
  <1>1. i \in Nat /\ s \in 1 .. i /\ DOMAIN ini = 1 .. Len(ini)
    BY BlockFrom, LineIs
  <1>2. /\ \A j \in s .. i - 1 : ini[j].kind = "comment"
        /\ s = 1 \/ ini[s - 1].kind # "comment"
    BY Zenon DEF StartsAt
  <1>. DEFINE above == {j \in 1 .. i : \A k \in j .. i - 1 : ini[k].kind = "comment"}
              first == CHOOSE j \in above : \A k \in above : j <= k
              words == [n \in 1 .. i - s |-> ini[s + n - 1].tokens]
  <1>3. s \in above
    BY <1>1, <1>2
  <1>4. \A k \in above : s <= k
    <2>. SUFFICES ASSUME NEW k \in above, k < s
                  PROVE  FALSE
      BY <1>1
    <2>1. k \in 1 .. i /\ \A j \in k .. i - 1 : ini[j].kind = "comment"
      OBVIOUS
    <2>2. s # 1 /\ s - 1 \in k .. i - 1
      BY <1>1, <2>1
    <2>. QED
      BY <1>2, <2>1, <2>2
  <1>5. first = s
    <2>1. above \subseteq Nat
      BY <1>1
    <2>. DEFINE Q(j) == \A k \in above : j <= k
    <2>2. PICK f : f = (CHOOSE j \in above : Q(j)) /\ f \in above /\ Q(f)
      <3>. HIDE DEF above
      <3>1. Q(s)
        BY <1>4
      <3>. HIDE DEF Q
      <3>. QED
        BY <1>3, <3>1, Zenon
    <2>3. first = f
      BY <2>2, Zenon
    <2>. HIDE DEF above, first
    <2>4. f <= s /\ s <= f
      BY <1>3, <1>4, <2>2
    <2>5. f \in Nat
      BY <2>1, <2>2
    <2>. QED
      BY <1>1, <2>3, <2>4, <2>5
  <1>6. Blocks!ProseAbove(i) = Blocks!FlattenSeq([n \in 1 .. i - first |-> ini[first + n - 1].tokens])
    BY Zenon DEF Blocks!ProseAbove
  <1>. HIDE DEF first, above
  <1>7. Blocks!ProseAbove(i) = FlattenSeq(words)
    BY <1>5, <1>6, BlocksFlatten, Zenon
  <1>8. PICK y, g, S, U, c :
           /\ y = PlacesFrom(ini, s, i) /\ g = Told(ini, s, i) /\ S = TokenPlaces(ini, s, i)
           /\ U = Blocks!Tokens /\ c = i - s
    BY Zenon
  <1>9. /\ y \in Seq(Seq(S)) /\ DOMAIN y = 1 .. c
        /\ Blocks!Join(ini, i) = FlattenSeq(y)
        /\ \A n \in 1 .. c : y[n] = Blocks!Places(ini, s - 1 + n)
    BY <1>8, JoinFrom, Zenon
  <1>10. MapsInto(g, S, U) /\ \A p \in S : g[p] = Blocks!TokenAt(ini, p)
    <2>1. g = [p \in S |-> Blocks!TokenAt(ini, p)]
      BY <1>8, Zenon DEF Told
    <2>2. \A p \in S : Blocks!TokenAt(ini, p) \in U
      BY <1>8, PlaceIs, Zenon
    <2>. QED
      BY <2>1, <2>2, Zenon DEF MapsInto
  <1>11. ASSUME NEW n \in 1 .. c
         PROVE  words[n] = Mapped(g, y[n]) /\ words[n] \in Seq(U)
    <2>1. PICK j : j = s - 1 + n
      OBVIOUS
    <2>2. j \in s .. i - 1 /\ s + n - 1 = j
      BY <1>1, <1>8, <2>1
    <2>3. PICK q, m : q = ini[j].tokens /\ m = Len(q)
      OBVIOUS
    <2>4. words[n] = q
      BY <1>8, <2>2, <2>3
    <2>5. y[n] = Blocks!Places(ini, j)
      BY <1>9, <2>1, Zenon
    <2>6. PICK x : x = Blocks!Places(ini, j)
      BY Zenon
    <2>7. /\ m \in Nat /\ DOMAIN q = 1 .. m /\ j \in DOMAIN ini
          /\ x \in Seq(S) /\ Len(x) = m
          /\ \A k \in 1 .. m : x[k] = <<j, k>> /\ <<j, k>> \in S
      <3>1. m = Len(ini[j].tokens)
        BY <2>3, Zenon
      <3>2. /\ j \in DOMAIN ini /\ m \in Nat /\ DOMAIN ini[j].tokens = 1 .. m
            /\ Blocks!Places(ini, j) \in Seq(TokenPlaces(ini, s, i))
            /\ Len(Blocks!Places(ini, j)) = m
            /\ \A k \in 1 .. m : /\ Blocks!Places(ini, j)[k] = <<j, k>>
                                 /\ <<j, k>> \in TokenPlaces(ini, s, i)
        <4>. HIDE DEF words
        <4>. QED
          BY <2>2, <3>1, PlacesAre
      <3>3. x \in Seq(S) /\ Len(x) = m
        BY <1>8, <2>6, <3>2, Zenon
      <3>. QED
        BY <1>8, <2>3, <2>6, <3>2, <3>3, Zenon
    <2>8. q \in Seq(U)
      BY <1>8, <2>3, <2>7, LineIs, Zenon
    <2>9. \A k \in 1 .. m : g[x[k]] = q[k]
      <3>. TAKE k \in 1 .. m
      <3>1. x[k] = <<j, k>> /\ <<j, k>> \in S
        BY <2>7, Zenon
      <3>2. g[x[k]] = Blocks!TokenAt(ini, <<j, k>>)
        BY <1>10, <3>1, Zenon
      <3>3. (<<j, k>>)[1] = j /\ (<<j, k>>)[2] = k
        OBVIOUS
      <3>. QED
        BY <2>3, <3>2, <3>3, Zenon DEF Blocks!TokenAt
    <2>10. DOMAIN x = 1 .. m
      BY <2>7
    <2>11. Mapped(g, x) = [k \in 1 .. m |-> q[k]]
      BY <2>9, <2>10, Zenon DEF Mapped
    <2>12. q = [k \in 1 .. m |-> q[k]]
      BY <2>7, <2>8
    <2>. QED
      BY <2>4, <2>5, <2>6, <2>8, <2>11, <2>12, Zenon
  <1>12. words \in Seq(Seq(U)) /\ DOMAIN words = 1 .. c
    <2>1. c \in Nat /\ words = [n \in 1 .. c |-> words[n]]
      BY <1>1, <1>8
    <2>2. PICK Q : Q = Seq(U)
      OBVIOUS
    <2>3. \A n \in 1 .. c : words[n] \in Q
      BY <1>11, <2>2, Zenon
    <2>. HIDE DEF words
    <2>4. words \in [1 .. c -> Q]
      BY <2>1, <2>3
    <2>5. words \in Seq(Q)
      BY <2>1, <2>4
    <2>. QED
      BY <2>2, <2>4, <2>5
  <1>. HIDE DEF words
  <1>13. FlattenSeq(words) = Mapped(g, FlattenSeq(y))
    <2>1. DOMAIN words = DOMAIN y /\ \A n \in DOMAIN y : words[n] = Mapped(g, y[n])
      BY <1>9, <1>11, <1>12, Zenon
    <2>2. MapsInto(g, S, U) /\ y \in Seq(Seq(S)) /\ words \in Seq(Seq(U))
      BY <1>9, <1>10, <1>12, Zenon
    <2>3. MapsFlat(g, S, words, y)
      BY <2>1, <2>2, MappedFlatten
    <2>. QED
      BY <2>3, Zenon DEF MapsFlat
  <1>. QED
    BY <1>7, <1>8, <1>9, <1>13, Zenon

\* A claim of a line is a number in its block.
LEMMA ClaimIs ==
    ASSUME NEW ls \in IniFiles, NEW i \in DOMAIN ls, NEW s, StartsAt(ls, i, s),
           NEW p \in Blocks!Claims(ls, i)
    PROVE  p \in TokenPlaces(ls, s, i) /\ Blocks!TokenAt(ls, p).t = "number"
  <1>1. PICK J : J = Blocks!Join(ls, i)
    BY Zenon
  <1>2. J \in Seq(TokenPlaces(ls, s, i))
    BY <1>1, JoinFrom, Zenon
  <1>3. PICK m \in 1 .. Len(J) - 1 : p = J[m] /\ Blocks!TokenAt(ls, J[m]).t = "number"
    BY <1>1, Zenon DEF Blocks!Claims
  <1>4. m \in DOMAIN J
    BY <1>2
  <1>5. J[m] \in TokenPlaces(ls, s, i)
    BY <1>2, <1>4
  <1>. QED
    BY <1>3, <1>5, Zenon

\* The counts read above a line are those of its claims.
LEMMA CountsAre ==
    ASSUME ini \in IniFiles, NEW i \in DOMAIN ini
    PROVE  Blocks!CountsAbove(i) = {Blocks!TokenAt(ini, p).v : p \in Blocks!Claims(ini, i)}
  <1>1. PICK s : StartsAt(ini, i, s)
    BY StartExists
  <1>2. PICK J, q, g, S : /\ J = Blocks!Join(ini, i) /\ q = Blocks!ProseAbove(i)
                          /\ g = Told(ini, s, i) /\ S = TokenPlaces(ini, s, i)
    BY Zenon
  <1>3. J \in Seq(S) /\ q = Mapped(g, J)
    BY <1>1, <1>2, JoinFrom, ProseIs, Zenon
  <1>4. PICK n : n = Len(J)
    OBVIOUS
  <1>5. n \in Nat /\ DOMAIN J = 1 .. n /\ \A k \in 1 .. n : J[k] \in S
    BY <1>3, <1>4
  <1>6. q = [k \in 1 .. n |-> g[J[k]]]
    BY <1>3, <1>5, Zenon DEF Mapped
  <1>7. Len(q) = n /\ \A k \in 1 .. n : q[k] = Blocks!TokenAt(ini, J[k])
    <2>1. \A p \in S : g[p] = Blocks!TokenAt(ini, p)
      BY <1>2, Zenon DEF Told
    <2>2. q = [k \in 1 .. n |-> g[J[k]]]
      BY <1>6
    <2>3. Len(q) = n
      BY <1>5, <1>6
    <2>4. \A k \in 1 .. n : q[k] = g[J[k]]
      BY <1>6, Zenon
    <2>. QED
      BY <1>5, <2>1, <2>3, <2>4, Zenon
  <1>8. \A k \in 1 .. n - 1 : k \in 1 .. n /\ k + 1 \in 1 .. n
    BY <1>5
  <1>. DEFINE M == {m \in 1 .. n - 1 : Blocks!TokenAt(ini, J[m]).t = "number"
                                       /\ Blocks!TokenAt(ini, J[m + 1]).t = "hits"}
  <1>9. Blocks!Claims(ini, i) = {J[m] : m \in M}
    BY <1>2, <1>4, Zenon DEF Blocks!Claims
  <1>10. {m \in 1 .. Len(q) - 1 : q[m].t = "number" /\ q[m + 1].t = "hits"} = M
    BY <1>7, <1>8, Zenon
  <1>11. Blocks!CountsAbove(i) = {q[m].v : m \in M}
    BY <1>2, <1>10, Zenon DEF Blocks!CountsAbove
  <1>12. \A m \in M : q[m] = Blocks!TokenAt(ini, J[m])
    BY <1>7, <1>8, Zenon
  <1>. HIDE DEF M
  <1>. QED
    BY <1>9, <1>11, <1>12, Zenon

\* A rule whose counts are all what Vale reports, and not none if demoted.
RightAt(ls, i) ==
    /\ \A p \in Blocks!Claims(ls, i) : Blocks!TokenAt(ls, p) = Blocks!Number(HitsOf[ls[i].rule])
    /\ ls[i].demoted => Blocks!Claims(ls, i) # {}

Right(ls) == \A i \in Blocks!RulesAt(ls) : RightAt(ls, i)

\* A number is a token.
LEMMA NumberIs ==
    ASSUME NEW n \in Nat
    PROVE  /\ Blocks!Number(n) \in Blocks!Tokens
           /\ Blocks!Number(n).t = "number" /\ Blocks!Number(n).v = n
  BY DEF Blocks!Number, Blocks!Tokens

\* Then each rule is counted right by what stands above it.
LEMMA RightIsCounted ==
    ASSUME ini \in IniFiles, Right(ini)
    PROVE  Blocks!EveryRuleCounted
  <1>1. SUFFICES ASSUME NEW i \in DOMAIN ini, ini[i].kind = "rule"
                 PROVE  /\ Blocks!CountsAbove(i) \subseteq {HitsOf[ini[i].rule]}
                        /\ ini[i].demoted => Blocks!CountsAbove(i) # {}
    BY Zenon DEF Blocks!EveryRuleCounted
  <1>2. i \in Blocks!RulesAt(ini) /\ RightAt(ini, i) /\ HitsOf[ini[i].rule] \in Nat
    BY <1>1, LineIs, Zenon DEF Right, Blocks!RulesAt
  <1>3. Blocks!CountsAbove(i) = {Blocks!TokenAt(ini, p).v : p \in Blocks!Claims(ini, i)}
    BY CountsAre, Zenon
  <1>4. PICK h : h = HitsOf[ini[i].rule]
    OBVIOUS
  <1>5. \A p \in Blocks!Claims(ini, i) : Blocks!TokenAt(ini, p).v = h
    BY <1>2, <1>4, NumberIs, Zenon DEF RightAt
  <1>6. ini[i].demoted => Blocks!Claims(ini, i) # {}
    BY <1>2, Zenon DEF RightAt
  <1>7. Blocks!CountsAbove(i) \subseteq {h}
    BY <1>3, <1>5, Zenon
  <1>8. ini[i].demoted => Blocks!CountsAbove(i) # {}
    <2>. HAVE ini[i].demoted
    <2>1. PICK p : p \in Blocks!Claims(ini, i)
      BY <1>6, Zenon
    <2>. QED
      BY <1>3, <2>1, Zenon
  <1>. QED
    BY <1>4, <1>7, <1>8, Zenon

\* A claim is of one rule only.
LEMMA ClaimOfOne ==
    ASSUME NEW ls \in IniFiles, NEW i \in Blocks!RulesAt(ls), NEW k \in Blocks!RulesAt(ls),
           NEW p, p \in Blocks!Claims(ls, i), p \in Blocks!Claims(ls, k)
    PROVE  i = k
  <1>1. /\ i \in DOMAIN ls /\ ls[i].kind = "rule"
        /\ k \in DOMAIN ls /\ ls[k].kind = "rule"
    BY Zenon DEF Blocks!RulesAt
  <1>2. PICK s : StartsAt(ls, i, s)
    BY <1>1, StartExists, Zenon
  <1>3. PICK r : StartsAt(ls, k, r)
    BY <1>1, StartExists, Zenon
  <1>4. p[1] \in s .. i - 1 /\ p[1] \in r .. k - 1
    BY <1>1, <1>2, <1>3, ClaimIs, PlaceIs, Zenon
  <1>5. /\ i \in Nat /\ s \in 1 .. i /\ k \in Nat /\ r \in 1 .. k
        /\ \A j \in s .. i - 1 : ls[j].kind = "comment"
        /\ \A j \in r .. k - 1 : ls[j].kind = "comment"
    BY <1>1, <1>2, <1>3, BlockFrom, Zenon DEF StartsAt
  <1>6. "rule" # "comment"
    OBVIOUS
  <1>7. ~ (i < k)
    <2>. SUFFICES ASSUME i < k
                  PROVE  FALSE
      OBVIOUS
    <2>1. i \in r .. k - 1
      BY <1>4, <1>5
    <2>. QED
      BY <1>1, <1>5, <1>6, <2>1, Zenon
  <1>8. ~ (k < i)
    <2>. SUFFICES ASSUME k < i
                  PROVE  FALSE
      OBVIOUS
    <2>1. k \in s .. i - 1
      BY <1>4, <1>5
    <2>. QED
      BY <1>1, <1>5, <1>6, <2>1, Zenon
  <1>. QED
    BY <1>5, <1>7, <1>8

\* What an edit is.
LEMMA EditIs ==
    ASSUME NEW ls \in IniFiles, NEW e \in Blocks!Edits(ls)
    PROVE  \E i \in Blocks!RulesAt(ls) :
              /\ e.at \in Blocks!Claims(ls, i) /\ e.n = HitsOf[ls[i].rule] /\ e.n \in Nat
              /\ Blocks!TokenAt(ls, e.at).t = "number"
  <1>1. PICK i \in Blocks!RulesAt(ls) :
           e \in {[at |-> place, n |-> HitsOf[ls[i].rule]] : place \in Blocks!Claims(ls, i)}
    BY Zenon DEF Blocks!Edits
  <1>2. PICK p \in Blocks!Claims(ls, i) : e = [at |-> p, n |-> HitsOf[ls[i].rule]]
    BY <1>1, Zenon
  <1>3. e.at = p /\ e.n = HitsOf[ls[i].rule]
    BY <1>2
  <1>4. i \in DOMAIN ls /\ ls[i].kind = "rule"
    BY Zenon DEF Blocks!RulesAt
  <1>5. HitsOf[ls[i].rule] \in Nat
    BY <1>4, LineIs, Zenon
  <1>6. PICK s : StartsAt(ls, i, s)
    BY <1>4, StartExists, Zenon
  <1>7. Blocks!TokenAt(ls, p).t = "number"
    BY <1>4, <1>6, ClaimIs, Zenon
  <1>. QED
    BY <1>2, <1>3, <1>5, <1>7, Zenon

\* And each claim has one.
LEMMA ClaimEdited ==
    ASSUME NEW ls \in IniFiles, NEW i \in Blocks!RulesAt(ls), NEW p \in Blocks!Claims(ls, i)
    PROVE  \E e \in Blocks!Edits(ls) : e.at = p
  <1>1. PICK e : e = [at |-> p, n |-> HitsOf[ls[i].rule]]
    BY Zenon
  <1>2. e.at = p
    BY <1>1
  <1>. DEFINE Of(k) == {[at |-> q, n |-> HitsOf[ls[k].rule]] : q \in Blocks!Claims(ls, k)}
  <1>3. e \in Of(i)
    BY <1>1, Zenon
  <1>4. Blocks!Edits(ls) = UNION {Of(k) : k \in Blocks!RulesAt(ls)}
    BY Zenon DEF Blocks!Edits
  <1>. HIDE DEF Of
  <1>5. e \in Blocks!Edits(ls)
    BY <1>3, <1>4, Zenon
  <1>. QED
    BY <1>2, <1>5, Zenon

\* The tokens of a line with its digits put right.
RecountedRight(ls, j, q) ==
    /\ q \in Seq(Blocks!Tokens) /\ DOMAIN q = DOMAIN ls[j].tokens
    /\ \A k \in DOMAIN q :
          /\ q[k].t = ls[j].tokens[k].t
          /\ \A i \in Blocks!RulesAt(ls) :
                <<j, k>> \in Blocks!Claims(ls, i) =>
                    q[k] = Blocks!Number(HitsOf[ls[i].rule])
    /\ Right(ls) => q = ls[j].tokens

\* The digits of a line are put right, and nothing else of it.
LEMMA RecountedIs ==
    ASSUME NEW ls \in IniFiles, NEW j \in DOMAIN ls
    PROVE  RecountedRight(ls, j, Blocks!Recounted(ls, j))
  <1>1. PICK q, w, T, E :
           /\ q = Blocks!Recounted(ls, j) /\ w = ls[j].tokens /\ T = Blocks!Tokens
           /\ E = Blocks!Edits(ls)
    BY Zenon
  <1>2. w \in Seq(T)
    BY <1>1, LineIs, Zenon
  <1>3. PICK m : m = Len(w)
    OBVIOUS
  <1>4. m \in Nat /\ DOMAIN w = 1 .. m /\ \A k \in 1 .. m : w[k] \in T
    BY <1>2, <1>3
  <1>. DEFINE New(k) == IF \E e \in E : e.at = <<j, k>>
                        THEN Blocks!Number((CHOOSE e \in E : e.at = <<j, k>>).n)
                        ELSE w[k]
  <1>5. q = [k \in 1 .. m |-> New(k)]
    BY <1>1, <1>4, Zenon DEF Blocks!Recounted
  <1>6. ASSUME NEW k \in 1 .. m
        PROVE  /\ New(k) \in T /\ New(k).t = w[k].t
               /\ \A i \in Blocks!RulesAt(ls) :
                     <<j, k>> \in Blocks!Claims(ls, i) =>
                         New(k) = Blocks!Number(HitsOf[ls[i].rule])
               /\ Right(ls) => New(k) = w[k]
    <2>1. CASE \E e \in E : e.at = <<j, k>>
      <3>1. PICK e : e = (CHOOSE x \in E : x.at = <<j, k>>)
        BY Zenon
      <3>2. e \in E /\ e.at = <<j, k>>
        BY <2>1, <3>1, Zenon
      <3>3. PICK i \in Blocks!RulesAt(ls) :
               /\ <<j, k>> \in Blocks!Claims(ls, i) /\ e.n = HitsOf[ls[i].rule] /\ e.n \in Nat
               /\ Blocks!TokenAt(ls, <<j, k>>).t = "number"
        BY <1>1, <3>2, EditIs, Zenon
      <3>4. New(k) = Blocks!Number(e.n)
        BY <2>1, <3>1, Zenon
      <3>5. Blocks!TokenAt(ls, <<j, k>>) = w[k]
        <4>1. (<<j, k>>)[1] = j /\ (<<j, k>>)[2] = k
          OBVIOUS
        <4>. QED
          BY <1>1, <4>1, Zenon DEF Blocks!TokenAt
      <3>6. New(k) \in T /\ New(k).t = w[k].t
        BY <1>1, <3>3, <3>4, <3>5, NumberIs, Zenon
      <3>7. ASSUME NEW r \in Blocks!RulesAt(ls), <<j, k>> \in Blocks!Claims(ls, r)
            PROVE  New(k) = Blocks!Number(HitsOf[ls[r].rule])
        <4>1. r = i
          BY <3>3, <3>7, ClaimOfOne, Zenon
        <4>. QED
          BY <3>3, <3>4, <4>1, Zenon
      <3>8. Right(ls) => New(k) = w[k]
        BY <3>3, <3>4, <3>5, Zenon DEF Right, RightAt
      <3>. HIDE DEF New
      <3>. QED
        BY <3>6, <3>7, <3>8, Zenon
    <2>2. CASE ~ \E e \in E : e.at = <<j, k>>
      <3>1. New(k) = w[k]
        BY <2>2, Zenon
      <3>2. \A i \in Blocks!RulesAt(ls) : <<j, k>> \notin Blocks!Claims(ls, i)
        BY <1>1, <2>2, ClaimEdited, Zenon
      <3>. HIDE DEF New
      <3>. QED
        BY <1>4, <3>1, <3>2, Zenon
    <2>. QED
      BY <2>1, <2>2, Zenon
  <1>. HIDE DEF New
  <1>7. q \in [1 .. m -> T] /\ \A k \in 1 .. m : q[k] = New(k)
    BY <1>5, <1>6, Zenon
  <1>8. q \in Seq(T) /\ DOMAIN q = 1 .. m
    BY <1>4, <1>7
  <1>9. Right(ls) => q = w
    <2>. HAVE Right(ls)
    <2>1. \A k \in 1 .. m : q[k] = w[k]
      BY <1>6, <1>7, Zenon
    <2>2. q = [k \in 1 .. m |-> q[k]] /\ w = [k \in 1 .. m |-> w[k]]
      BY <1>2, <1>4, <1>7
    <2>. QED
      BY <2>1, <2>2, Zenon
  <1>. QED
    BY <1>1, <1>4, <1>6, <1>7, <1>8, <1>9, Zenon DEF RecountedRight

\* A file with its digits put right, line by line.
EditedRight(ls, new) ==
    /\ new \in IniFiles /\ Len(new) = Len(ls) /\ DOMAIN new = DOMAIN ls
    /\ \A j \in DOMAIN ls :
          /\ new[j].kind = ls[j].kind /\ new[j].rule = ls[j].rule
          /\ (new[j].demoted <=> ls[j].demoted)
          /\ RecountedRight(ls, j, new[j].tokens)
    /\ Right(ls) => new = ls

\* So it is with every line of the file.
LEMMA EditedIs ==
    ASSUME NEW ls \in IniFiles
    PROVE  EditedRight(ls, Blocks!Edited(ls))
  <1>1. PICK new, n, K : new = Blocks!Edited(ls) /\ n = Len(ls) /\ K = Blocks!KnownLines
    BY Zenon
  <1>2. ls \in Seq(K) /\ n \in Nat /\ DOMAIN ls = 1 .. n /\ \A j \in 1 .. n : ls[j] \in K
    <2>1. ls \in Seq(K)
      BY <1>1, Zenon DEF IniFiles
    <2>. QED
      BY <1>1, <2>1
  <1>. DEFINE New(j) == [ls[j] EXCEPT !.tokens = Blocks!Recounted(ls, j)]
  <1>3. new = [j \in 1 .. n |-> New(j)]
    BY <1>1, <1>2, Zenon DEF Blocks!Edited
  <1>4. ASSUME NEW j \in 1 .. n
        PROVE  /\ New(j) \in K
               /\ New(j).kind = ls[j].kind /\ New(j).rule = ls[j].rule
               /\ (New(j).demoted <=> ls[j].demoted)
               /\ RecountedRight(ls, j, New(j).tokens)
               /\ Right(ls) => New(j) = ls[j]
    <2>1. PICK q, line, x : q = Blocks!Recounted(ls, j) /\ line = ls[j] /\ x = New(j)
      BY Zenon
    <2>2. RecountedRight(ls, j, q)
      BY <1>2, <2>1, RecountedIs, Zenon
    <2>3. line \in K /\ x = [line EXCEPT !.tokens = q]
      BY <1>2, <2>1, Zenon
    <2>4. q \in Seq(Blocks!Tokens)
      BY <2>2, Zenon DEF RecountedRight
    <2>5. /\ line \in [kind : {"comment", "rule", "else"}, tokens : Seq(Blocks!Tokens),
                       rule : Blocks!RuleNames, demoted : BOOLEAN]
          /\ line.kind = "rule" => line.rule \in DOMAIN HitsOf
      BY <1>1, <2>3, Zenon DEF Blocks!KnownLines
    <2>6. PICK Q : Q = Seq(Blocks!Tokens)
      OBVIOUS
    <2>7. /\ x.kind = line.kind /\ x.rule = line.rule /\ x.demoted = line.demoted
          /\ x.tokens = q
          /\ x \in [kind : {"comment", "rule", "else"}, tokens : Q, rule : Blocks!RuleNames, demoted : BOOLEAN]
      BY <2>3, <2>4, <2>5, <2>6
    <2>8. x \in K
      BY <1>1, <2>5, <2>6, <2>7, Zenon DEF Blocks!KnownLines
    <2>9. Right(ls) => x = line
      <3>. HAVE Right(ls)
      <3>1. q = line.tokens
        BY <2>1, <2>2, Zenon DEF RecountedRight
      <3>. QED
        BY <2>3, <2>5, <3>1
    <2>. HIDE DEF New
    <2>. QED
      BY <2>1, <2>2, <2>7, <2>8, <2>9, Zenon
  <1>. HIDE DEF New
  <1>5. \A j \in 1 .. n : new[j] = New(j)
    BY <1>3, Zenon
  <1>6. new \in [1 .. n -> K]
    BY <1>3, <1>4, Zenon
  <1>7. new \in Seq(K) /\ Len(new) = n /\ DOMAIN new = 1 .. n
    BY <1>2, <1>6
  <1>8. Right(ls) => new = ls
    <2>. HAVE Right(ls)
    <2>1. \A j \in 1 .. n : new[j] = ls[j]
      BY <1>4, <1>5, Zenon
    <2>2. new = [j \in 1 .. n |-> new[j]] /\ ls = [j \in 1 .. n |-> ls[j]]
      BY <1>2, <1>6
    <2>. QED
      BY <2>1, <2>2, Zenon
  <1>. QED
    BY <1>1, <1>2, <1>4, <1>5, <1>7, <1>8, Zenon DEF EditedRight, IniFiles

\* The lines put in.
LEMMA CountLineIs ==
    ASSUME NEW ls \in IniFiles, NEW u \in Blocks!RulesAt(ls)
    PROVE  /\ u \in DOMAIN ls
           /\ Blocks!CountLine(ls, u) \in Blocks!KnownLines
           /\ Blocks!CountLine(ls, u).kind = "comment"
           /\ Blocks!CountLine(ls, u).tokens = <<Blocks!Number(HitsOf[ls[u].rule]), Blocks!Hits>>
  <1>1. u \in DOMAIN ls /\ HitsOf[ls[u].rule] \in Nat
    BY LineIs, Zenon DEF Blocks!RulesAt
  <1>2. PICK a, b, T : /\ a = Blocks!Number(HitsOf[ls[u].rule]) /\ b = Blocks!Hits
                       /\ T = Blocks!Tokens
    BY Zenon
  <1>3. a \in T /\ b \in T
    BY <1>1, <1>2, NumberIs DEF Blocks!Hits, Blocks!Tokens
  <1>4. PICK q, Q : q = <<a, b>> /\ Q = Seq(T)
    OBVIOUS
  <1>5. q \in Q
    BY <1>3, <1>4
  <1>6. PICK x : x = Blocks!CountLine(ls, u)
    BY Zenon
  <1>. DEFINE none == ""
  <1>. HIDE DEF none
  <1>7. x = [kind |-> "comment", tokens |-> q, rule |-> none, demoted |-> FALSE]
    BY <1>2, <1>4, <1>6, Zenon DEF Blocks!CountLine, Blocks!Comment, none
  <1>10. none \in Blocks!RuleNames
    BY Zenon DEF none, Blocks!RuleNames
  <1>8. /\ x.kind = "comment" /\ x.tokens = q
        /\ x \in [kind : {"comment", "rule", "else"}, tokens : Q, rule : Blocks!RuleNames, demoted : BOOLEAN]
    BY <1>5, <1>7, <1>10
  <1>9. x \in Blocks!KnownLines
    <2>1. "comment" # "rule"
      OBVIOUS
    <2>. QED
      BY <1>2, <1>4, <1>8, <2>1, Zenon DEF Blocks!KnownLines
  <1>. QED
    BY <1>1, <1>2, <1>4, <1>6, <1>8, <1>9, Zenon

\* A line put in.
Inserted(new, x, u, e) ==
    /\ new \in IniFiles /\ Len(new) = Len(x) + 1
    /\ new[u] = e
    /\ \A k \in 1 .. u - 1 : new[k] = x[k]
    /\ \A k \in u .. Len(x) : new[k + 1] = x[k]

\* What InsertAt does to a file.
LEMMA InsertIs ==
    ASSUME NEW x \in IniFiles, NEW u \in DOMAIN x, NEW e \in Blocks!KnownLines
    PROVE  Inserted(Blocks!InsertAt(x, u, e), x, u, e)
  <1>1. PICK K, n : K = Blocks!KnownLines /\ n = Len(x)
    BY Zenon
  <1>2. x \in Seq(K) /\ e \in K
    BY <1>1, Zenon DEF IniFiles
  <1>3. n \in Nat /\ u \in 1 .. n
    BY <1>1, <1>2
  <1>4. PICK a, b, c : a = SubSeq(x, 1, u - 1) /\ b = <<e>> /\ c = SubSeq(x, u, n)
    OBVIOUS
  <1>5. /\ a \in Seq(K) /\ Len(a) = u - 1 /\ \A k \in 1 .. u - 1 : a[k] = x[k]
        /\ b \in Seq(K) /\ Len(b) = 1 /\ b[1] = e
        /\ c \in Seq(K) /\ Len(c) = n - u + 1 /\ \A k \in 1 .. n - u + 1 : c[k] = x[u - 1 + k]
    BY <1>1, <1>2, <1>3, <1>4
  <1>6. PICK y : y = a \o b
    BY Zenon
  <1>7. y \in Seq(K) /\ Len(y) = u /\ \A k \in 1 .. u : y[k] = IF k <= u - 1 THEN a[k] ELSE e
    <2>1. PICK p : p = u - 1
      OBVIOUS
    <2>2. p \in Nat /\ u = p + 1 /\ Len(a) = p
      BY <1>3, <1>5, <2>1
    <2>3. /\ y \in Seq(K) /\ Len(y) = Len(a) + Len(b)
          /\ \A k \in 1 .. Len(a) + Len(b) : y[k] = IF k <= Len(a) THEN a[k] ELSE b[k - Len(a)]
      BY <1>5, <1>6, ConcatProperties
    <2>4. ASSUME NEW k \in 1 .. u
          PROVE  y[k] = IF k <= p THEN a[k] ELSE e
      <3>1. k <= p \/ k - p = 1
        BY <2>2
      <3>2. y[k] = IF k <= p THEN a[k] ELSE b[k - p]
        BY <1>5, <2>2, <2>3
      <3>. QED
        BY <1>5, <3>1, <3>2
    <2>. QED
      BY <1>5, <2>1, <2>2, <2>3, <2>4
  <1>8. PICK z : z = y \o c
    BY Zenon
  <1>9. /\ z \in Seq(K) /\ Len(z) = n + 1
        /\ \A k \in 1 .. n + 1 : z[k] = IF k <= u THEN y[k] ELSE c[k - u]
    <2>1. /\ z \in Seq(K) /\ Len(z) = Len(y) + Len(c)
          /\ \A k \in 1 .. Len(y) + Len(c) : z[k] = IF k <= Len(y) THEN y[k] ELSE c[k - Len(y)]
      BY <1>5, <1>7, <1>8, ConcatProperties
    <2>2. Len(y) = u /\ Len(y) + Len(c) = n + 1
      BY <1>3, <1>5, <1>7
    <2>. QED
      BY <2>1, <2>2
  <1>10. Blocks!InsertAt(x, u, e) = z
    BY <1>1, <1>4, <1>6, <1>8, Zenon DEF Blocks!InsertAt
  <1>11. z[u] = e
    BY <1>3, <1>5, <1>7, <1>9
  <1>12. \A k \in 1 .. u - 1 : z[k] = x[k]
    BY <1>3, <1>5, <1>7, <1>9
  <1>13. \A k \in u .. n : z[k + 1] = x[k]
    <2>. TAKE k \in u .. n
    <2>1. PICK d : d = k + 1 - u
      OBVIOUS
    <2>2. /\ k + 1 \in 1 .. n + 1 /\ ~ (k + 1 <= u)
          /\ d \in 1 .. n - u + 1 /\ u - 1 + d = k
      BY <1>3, <2>1
    <2>3. z[k + 1] = c[d]
      <3>1. PICK j : j = k + 1
        OBVIOUS
      <3>2. j \in 1 .. n + 1 /\ ~ (j <= u) /\ j - u = d
        BY <1>3, <2>1, <2>2, <3>1
      <3>3. z[j] = c[j - u]
        BY <1>9, <3>2, Zenon
      <3>. QED
        BY <3>1, <3>2, <3>3, Zenon
    <2>4. c[d] = x[u - 1 + d]
      BY <1>5, <2>2, Zenon
    <2>. QED
      BY <2>2, <2>3, <2>4, Zenon
  <1>. QED
    BY <1>1, <1>9, <1>10, <1>11, <1>12, <1>13, Zenon DEF Inserted, IniFiles

\* The places to put lines in, from the last one up.
LEMMA OrderIs ==
    ASSUME NEW ls \in IniFiles, NEW U, U = Blocks!Uncounted(ls), NEW order,
           order = Blocks!InOrder(U)
    PROVE  /\ Len(order) \in Nat /\ order \in [1 .. Len(order) -> U]
           /\ U \subseteq DOMAIN ls /\ U \subseteq Blocks!RulesAt(ls)
           /\ DOMAIN order = 1 .. Len(order) /\ Len(order) = Cardinality(U)
           /\ \A x \in U : \E n \in 1 .. Len(order) : order[n] = x
           /\ \A m, n \in 1 .. Len(order) : m < n => order[m] > order[n]
  <1>1. U \subseteq DOMAIN ls /\ U \subseteq Blocks!RulesAt(ls)
    BY Zenon DEF Blocks!Uncounted, Blocks!RulesAt
  <1>2. PICK n, c : n = Len(ls) /\ c = Cardinality(U)
    OBVIOUS
  <1>3. n \in Nat /\ U \subseteq 1 .. n
    BY <1>1, <1>2 DEF IniFiles
  <1>4. InOrderOf(order, U)
    BY <1>3, InOrderIs, Zenon
  <1>5. c \in Nat
    <2>1. IsFiniteSet(1 .. n)
      BY <1>3, FS_Interval
    <2>2. IsFiniteSet(U)
      BY <1>3, <2>1, FS_Subset
    <2>. QED
      BY <1>2, <2>2, FS_CardinalityType
  <1>6. /\ order \in [1 .. c -> U]
        /\ \A x \in U : \E m \in DOMAIN order : order[m] = x
        /\ \A m, k \in DOMAIN order : m < k => order[m] > order[k]
    BY <1>2, <1>4, Zenon DEF InOrderOf
  <1>7. Len(order) = c /\ DOMAIN order = 1 .. c
    BY <1>5, <1>6
  <1>. QED
    BY <1>1, <1>2, <1>5, <1>6, <1>7, Zenon

\* The file from the edits on, one more line put in at each step.
Inserting(f, ls, order) ==
    /\ f[0] = Blocks!Edited(ls)
    /\ \A k \in 1 .. Len(order) :
          f[k] = Blocks!InsertAt(f[k - 1], order[k], Blocks!CountLine(ls, order[k]))
    /\ Blocks!Rewritten(ls) = f[Len(order)]

\* A rewrite takes those steps.
LEMMA RewrittenSteps ==
    ASSUME NEW ls \in IniFiles, NEW order, order = Blocks!InOrder(Blocks!Uncounted(ls))
    PROVE  \E f : Inserting(f, ls, order)
  <1>1. PICK U, c, N, e0, S : /\ U = Blocks!Uncounted(ls) /\ c = Len(order) /\ N = Len(ls)
                              /\ e0 = Blocks!Edited(ls) /\ S = IniFiles
    BY Zenon
  <1>2. /\ c \in Nat /\ order \in [1 .. c -> U] /\ U \subseteq DOMAIN ls
        /\ U \subseteq Blocks!RulesAt(ls)
    BY <1>1, OrderIs, Zenon
  <1>3. N \in Nat /\ DOMAIN ls = 1 .. N
    BY <1>1 DEF IniFiles
  <1>4. e0 \in S /\ Len(e0) = N
    BY <1>1, EditedIs, Zenon DEF EditedRight
  <1>. DEFINE Add(k, x) == Blocks!InsertAt(x, order[k], Blocks!CountLine(ls, order[k]))
              Step(k, x) == IF order[k] \in DOMAIN x THEN Add(k, x) ELSE x
              F == [k \in 1 .. c |-> [x \in S |-> Step(k, x)]]
              Steps(f) == f = [k \in 0 .. c |-> IF k = 0 THEN e0 ELSE Add(k, f[k - 1])]
  <1>5. \A k \in 1 .. c : \A x \in S :
           order[k] \in DOMAIN x => Add(k, x) \in S /\ Len(Add(k, x)) = Len(x) + 1
    <2>. TAKE k \in 1 .. c
    <2>. TAKE x \in S
    <2>. HAVE order[k] \in DOMAIN x
    <2>1. order[k] \in Blocks!RulesAt(ls)
      BY <1>2, Zenon
    <2>2. PICK e : e = Blocks!CountLine(ls, order[k])
      BY Zenon
    <2>3. e \in Blocks!KnownLines
      BY <2>1, <2>2, CountLineIs, Zenon
    <2>4. Inserted(Blocks!InsertAt(x, order[k], e), x, order[k], e)
      BY <1>1, <2>3, InsertIs, Zenon
    <2>. QED
      BY <1>1, <2>2, <2>4, Zenon DEF Inserted
  <1>6. PICK f \in [0 .. c -> S] : TakesSteps(f, c, e0, F)
    <2>1. \A k \in 1 .. c : \A x \in S : Step(k, x) \in S
      <3>. HIDE DEF Add
      <3>. QED
        BY <1>5, Zenon
    <2>2. F \in [1 .. c -> [S -> S]]
      <3>. HIDE DEF Step
      <3>. QED
        BY <2>1, Zenon
    <2>. HIDE DEF F
    <2>. QED
      BY <1>2, <1>4, <2>2, RecursionDefines, Zenon
  <1>7. f[0] = e0 /\ \A k \in 1 .. c : f[k] = Step(k, f[k - 1])
    <2>1. \A k \in 1 .. c : k - 1 \in 0 .. c
      BY <1>2
    <2>2. \A k \in 1 .. c : f[k] = F[k][f[k - 1]] /\ f[k - 1] \in S
      BY <1>6, <2>1, Zenon DEF TakesSteps
    <2>3. \A k \in 1 .. c : \A x \in S : F[k][x] = Step(k, x)
      <3>. HIDE DEF Step
      <3>. QED
        BY Zenon
    <2>4. f[0] = e0
      BY <1>6, Zenon DEF TakesSteps
    <2>. HIDE DEF F, Step
    <2>. QED
      BY <2>2, <2>3, <2>4, Zenon
  <1>8. \A k \in 0 .. c : Len(f[k]) \in Nat /\ Len(f[k]) >= N
    <2>. DEFINE P == {k \in 0 .. c : Len(f[k]) \in Nat /\ Len(f[k]) >= N}
    <2>1. 0 \in P
      BY <1>2, <1>3, <1>4, <1>7
    <2>2. ASSUME NEW m \in 0 .. c - 1, m \in P
          PROVE  m + 1 \in P
      <3>1. PICK k : k = m + 1
        OBVIOUS
      <3>2. k \in 1 .. c /\ k \in 0 .. c /\ k - 1 = m
        BY <1>2, <3>1
      <3>3. f[k] = Step(k, f[m])
        BY <1>7, <3>2, Zenon
      <3>4. f[m] \in S
        BY <1>2, <1>6
      <3>5. Len(f[m]) \in Nat /\ Len(f[m]) >= N
        BY <2>2
      <3>6. Len(f[k]) = Len(f[m]) + 1 \/ f[k] = f[m]
        <4>. HIDE DEF Add
        <4>. QED
          BY <1>5, <3>2, <3>3, <3>4, Zenon
      <3>. HIDE DEF Step
      <3>7. Len(f[k]) \in Nat /\ Len(f[k]) >= N
        BY <1>3, <3>5, <3>6
      <3>. QED
        BY <3>1, <3>2, <3>7
    <2>3. P = 0 .. c
      <3>. HIDE DEF P
      <3>1. P \in SUBSET (0 .. c)
        BY DEF P
      <3>. QED
        BY <1>2, <2>1, <2>2, <3>1, UpTo, Zenon
    <2>. QED
      BY <2>3
  <1>9. \A k \in 1 .. c : f[k] = Add(k, f[k - 1])
    <2>. TAKE k \in 1 .. c
    <2>1. k - 1 \in 0 .. c
      BY <1>2
    <2>2. PICK x : x = f[k - 1]
      OBVIOUS
    <2>3. x \in S /\ Len(x) \in Nat /\ Len(x) >= N
      BY <1>6, <1>8, <2>1, <2>2, Zenon
    <2>4. order[k] \in 1 .. N
      BY <1>2, <1>3, Zenon
    <2>5. DOMAIN x = 1 .. Len(x)
      BY <1>1, <2>3 DEF IniFiles
    <2>6. order[k] \in DOMAIN x
      BY <1>3, <2>3, <2>4, <2>5
    <2>. HIDE DEF Add
    <2>. QED
      BY <1>7, <2>2, <2>6, Zenon
  <1>10. Steps(f)
    <2>1. \A k \in 0 .. c : k # 0 => k \in 1 .. c
      BY <1>2
    <2>2. f = [k \in 0 .. c |-> f[k]]
      BY <1>6
    <2>. HIDE DEF Add
    <2>. QED
      BY <1>7, <1>9, <2>1, <2>2, Zenon
  <1>. HIDE DEF F, Step
  <1>11. PICK g : g = (CHOOSE q : Steps(q)) /\ Steps(g)
    <2>. HIDE DEF Steps
    <2>. QED
      BY <1>10, Zenon
  <1>12. Blocks!Rewritten(ls) = (CHOOSE q : Steps(q))[c]
    BY <1>1, Zenon DEF Blocks!Rewritten
  <1>13. /\ g[0] = e0 /\ \A k \in 1 .. c : g[k] = Add(k, g[k - 1])
         /\ Blocks!Rewritten(ls) = g[c]
    <2>1. Blocks!Rewritten(ls) = g[c]
      <3>. HIDE DEF Steps
      <3>. QED
        BY <1>11, <1>12, Zenon
    <2>2. g = [k \in 0 .. c |-> IF k = 0 THEN e0 ELSE Add(k, g[k - 1])]
      BY <1>11, Zenon
    <2>3. 0 \in 0 .. c /\ \A k \in 1 .. c : k \in 0 .. c /\ k # 0
      BY <1>2
    <2>. HIDE DEF Add, Steps
    <2>. QED
      BY <2>1, <2>2, <2>3, Zenon
  <1>. QED
    BY <1>1, <1>13, Zenon DEF Inserting

\* A file that is right stays as it is.
LEMMA RightStays ==
    ASSUME NEW ls \in IniFiles, Right(ls)
    PROVE  Blocks!Rewritten(ls) = ls
  <1>1. PICK U, order : U = Blocks!Uncounted(ls) /\ order = Blocks!InOrder(U)
    BY Zenon
  <1>2. U = {}
    <2>1. \A i \in Blocks!RulesAt(ls) : ls[i].demoted => Blocks!Claims(ls, i) # {}
      BY Zenon DEF Right, RightAt
    <2>. QED
      BY <1>1, <2>1, Zenon DEF Blocks!Uncounted
  <1>3. Len(order) = 0
    BY <1>1, <1>2, OrderIs, FS_EmptySet
  <1>4. PICK f : Inserting(f, ls, order)
    BY <1>1, RewrittenSteps, Zenon
  <1>5. Blocks!Rewritten(ls) = Blocks!Edited(ls)
    BY <1>3, <1>4, Zenon DEF Inserting
  <1>. QED
    BY <1>5, EditedIs, Zenon DEF EditedRight

(***************************************************************************)
(* A rewrite spreads the lines of a file: line j comes to at[j], one line  *)
(* further than the one before it, or two with a new line above it, and    *)
(* below the first new line nothing has moved.                             *)
(***************************************************************************)
Moves(at, N, U) ==
    /\ at \in [0 .. N -> Nat] /\ at[0] = 0
    /\ \A j \in 1 .. N : at[j] = at[j - 1] + (IF j \in U THEN 2 ELSE 1)
    /\ \A i, j \in 0 .. N : i < j => at[i] < at[j]
    /\ \A j \in 0 .. N : (\A u \in U : j < u) => at[j] = j

Spread(new, ls, at, U) ==
    /\ new \in IniFiles /\ Moves(at, Len(ls), U) /\ Len(new) = at[Len(ls)]
    /\ \A j \in DOMAIN ls : at[j] \in DOMAIN new /\ new[at[j]] = Blocks!Edited(ls)[j]
    /\ \A u \in U : at[u] - 1 \in DOMAIN new /\ new[at[u] - 1] = Blocks!CountLine(ls, u)

\* One more line above the others moves what is below it.
LEMMA MovesMore ==
    ASSUME NEW N \in Nat, NEW V, V \subseteq 1 .. N, NEW at, Moves(at, N, V),
           NEW u \in 1 .. N, \A v \in V : u < v
    PROVE  /\ Moves([j \in 0 .. N |-> IF j < u THEN at[j] ELSE at[j] + 1], N, V \cup {u})
           /\ \A j \in 0 .. u : at[j] = j
           /\ \A j \in u + 1 .. N : at[j] > u
  <1>. DEFINE to == [j \in 0 .. N |-> IF j < u THEN at[j] ELSE at[j] + 1]
  <1>1. /\ at \in [0 .. N -> Nat] /\ at[0] = 0
        /\ \A j \in 1 .. N : at[j] = at[j - 1] + (IF j \in V THEN 2 ELSE 1)
        /\ \A i, j \in 0 .. N : i < j => at[i] < at[j]
        /\ \A j \in 0 .. N : (\A v \in V : j < v) => at[j] = j
    BY DEF Moves
  <1>2. \A j \in 0 .. u : at[j] = j
    <2>. TAKE j \in 0 .. u
    <2>1. j \in 0 .. N /\ \A v \in V : j < v
      OBVIOUS
    <2>. QED
      BY <1>1, <2>1, Zenon
  <1>3. \A j \in u + 1 .. N : at[j] > u
    <2>. TAKE j \in u + 1 .. N
    <2>1. u \in 0 .. N /\ j \in 0 .. N /\ u < j /\ u \in 0 .. u
      OBVIOUS
    <2>2. at[u] < at[j] /\ at[u] = u
      BY <1>1, <1>2, <2>1, Zenon
    <2>. QED
      BY <1>1, <2>1, <2>2
  <1>4. \A j \in 0 .. N : to[j] = IF j < u THEN at[j] ELSE at[j] + 1
    OBVIOUS
  <1>5. to \in [0 .. N -> Nat] /\ to[0] = 0
    BY <1>1
  <1>. HIDE DEF to
  <1>6. ASSUME NEW j \in 1 .. N
        PROVE  to[j] = to[j - 1] + (IF j \in V \cup {u} THEN 2 ELSE 1)
    <2>1. PICK i : i = j - 1
      OBVIOUS
    <2>2. i \in 0 .. N /\ j \in 0 .. N /\ i = j - 1
      BY <2>1
    <2>3. at[i] \in Nat /\ at[j] \in Nat /\ at[j] = at[i] + (IF j \in V THEN 2 ELSE 1)
      BY <1>1, <2>1, <2>2
    <2>4. CASE j = u
      <3>1. j \notin V /\ i < u /\ ~ (j < u)
        BY <2>2, <2>4
      <3>2. to[i] = at[i] /\ to[j] = at[j] + 1 /\ at[j] = at[i] + 1
        BY <1>4, <2>2, <2>3, <3>1
      <3>. QED
        BY <2>1, <2>3, <2>4, <3>2
    <2>5. CASE j # u
      <3>1. j \in V \cup {u} <=> j \in V
        BY <2>5
      <3>2. (i < u) <=> (j < u)
        BY <2>2, <2>5
      <3>3. /\ to[i] = IF i < u THEN at[i] ELSE at[i] + 1
            /\ to[j] = IF j < u THEN at[j] ELSE at[j] + 1
        BY <1>4, <2>2
      <3>4. CASE j \in V
        BY <2>1, <2>3, <3>1, <3>2, <3>3, <3>4
      <3>5. CASE j \notin V
        BY <2>1, <2>3, <3>1, <3>2, <3>3, <3>5
      <3>. QED
        BY <3>4, <3>5
    <2>. QED
      BY <2>4, <2>5
  <1>7. ASSUME NEW i \in 0 .. N, NEW j \in 0 .. N, i < j
        PROVE  to[i] < to[j]
    <2>1. /\ to[i] = IF i < u THEN at[i] ELSE at[i] + 1
          /\ to[j] = IF j < u THEN at[j] ELSE at[j] + 1
      BY <1>4
    <2>2. at[i] \in Nat /\ at[j] \in Nat /\ at[i] < at[j]
      BY <1>1, <1>7
    <2>. QED
      BY <1>7, <2>1, <2>2
  <1>8. ASSUME NEW j \in 0 .. N, \A v \in V \cup {u} : j < v
        PROVE  to[j] = j
    <2>1. j < u /\ j \in 0 .. u
      BY <1>8
    <2>. QED
      BY <1>2, <1>4, <2>1
  <1>9. Moves(to, N, V \cup {u})
    BY <1>5, <1>6, <1>7, <1>8, Zenon DEF Moves
  <1>. QED
    BY <1>2, <1>3, <1>9, Zenon DEF to

\* And so does the line put in.
LEMMA SpreadMore ==
    ASSUME NEW ls \in IniFiles, NEW V, V \subseteq DOMAIN ls, NEW x, NEW at, Spread(x, ls, at, V),
           NEW u \in Blocks!RulesAt(ls), \A v \in V : u < v
    PROVE  \E to : Spread(Blocks!InsertAt(x, u, Blocks!CountLine(ls, u)), ls, to, V \cup {u})
  <1>1. PICK N, e, new, ed : /\ N = Len(ls) /\ e = Blocks!CountLine(ls, u)
                             /\ new = Blocks!InsertAt(x, u, e) /\ ed = Blocks!Edited(ls)
    BY Zenon
  <1>2. N \in Nat /\ DOMAIN ls = 1 .. N /\ u \in 1 .. N /\ V \subseteq 1 .. N
    <2>1. N \in Nat /\ DOMAIN ls = 1 .. N
      BY <1>1 DEF IniFiles
    <2>. QED
      BY <2>1, CountLineIs, Zenon
  <1>3. /\ x \in IniFiles /\ Moves(at, N, V) /\ Len(x) = at[N]
        /\ \A j \in 1 .. N : at[j] \in DOMAIN x /\ x[at[j]] = ed[j]
        /\ \A v \in V : at[v] - 1 \in DOMAIN x /\ x[at[v] - 1] = Blocks!CountLine(ls, v)
    BY <1>1, <1>2, Zenon DEF Spread
  <1>. DEFINE to == [j \in 0 .. N |-> IF j < u THEN at[j] ELSE at[j] + 1]
  <1>4. \A j \in 0 .. N : to[j] = IF j < u THEN at[j] ELSE at[j] + 1
    OBVIOUS
  <1>5. /\ Moves(to, N, V \cup {u})
        /\ \A j \in 0 .. u : at[j] = j
        /\ \A j \in u + 1 .. N : at[j] > u
    BY <1>2, <1>3, MovesMore, Zenon
  <1>. HIDE DEF to
  <1>6. at \in [0 .. N -> Nat]
    BY <1>3, Zenon DEF Moves
  <1>7. PICK L : L = Len(x)
    OBVIOUS
  <1>8. L \in Nat /\ DOMAIN x = 1 .. L /\ L = at[N]
    <2>1. Len(x) \in Nat /\ DOMAIN x = 1 .. Len(x)
      BY <1>3 DEF IniFiles
    <2>. QED
      BY <1>3, <1>7, <2>1, Zenon
  <1>9. u \in DOMAIN x
    <2>1. at[u] \in DOMAIN x /\ u \in 0 .. u
      BY <1>2, <1>3
    <2>. QED
      BY <1>5, <2>1, Zenon
  <1>10. /\ new \in IniFiles /\ Len(new) = L + 1 /\ new[u] = e
         /\ \A k \in 1 .. u - 1 : new[k] = x[k]
         /\ \A k \in u .. L : new[k + 1] = x[k]
    <2>1. e \in Blocks!KnownLines
      BY <1>1, CountLineIs, Zenon
    <2>2. Inserted(new, x, u, e)
      BY <1>1, <1>3, <1>9, <2>1, InsertIs, Zenon
    <2>. QED
      BY <1>7, <2>2, Zenon DEF Inserted
  <1>11. DOMAIN new = 1 .. L + 1
    BY <1>8, <1>10 DEF IniFiles
  <1>12. Len(new) = to[N]
    BY <1>2, <1>4, <1>6, <1>8, <1>10
  <1>13. ASSUME NEW j \in 1 .. N
         PROVE  to[j] \in DOMAIN new /\ new[to[j]] = ed[j]
    <2>1. at[j] \in 1 .. L /\ x[at[j]] = ed[j]
      BY <1>3, <1>8, Zenon
    <2>2. CASE j < u
      <3>1. to[j] = at[j] /\ at[j] = j /\ j \in 1 .. u - 1
        BY <1>2, <1>4, <1>5, <2>2
      <3>2. new[j] = x[j]
        BY <1>10, <3>1, Zenon
      <3>3. j \in 1 .. L + 1
        BY <1>8, <2>1, <3>1
      <3>. QED
        BY <1>11, <2>1, <3>1, <3>2, <3>3, Zenon
    <2>3. CASE ~ (j < u)
      <3>1. PICK a : a = at[j]
        OBVIOUS
      <3>2. to[j] = a + 1
        BY <1>4, <2>3, <3>1
      <3>3. a \in u .. L
        <4>1. j = u \/ j \in u + 1 .. N
          BY <1>2, <2>3
        <4>2. u \in 0 .. u
          BY <1>2
        <4>3. a \in 1 .. L /\ (a = u \/ a > u)
          BY <1>5, <2>1, <3>1, <4>1, <4>2, Zenon
        <4>. QED
          BY <1>2, <1>8, <4>3
      <3>4. new[a + 1] = x[a]
        BY <1>10, <3>3, Zenon
      <3>5. a + 1 \in 1 .. L + 1
        BY <1>2, <1>8, <3>3
      <3>. QED
        BY <1>11, <2>1, <3>1, <3>2, <3>4, <3>5, Zenon
    <2>. QED
      BY <2>2, <2>3
  <1>14. ASSUME NEW v \in V \cup {u}
         PROVE  to[v] - 1 \in DOMAIN new /\ new[to[v] - 1] = Blocks!CountLine(ls, v)
    <2>1. CASE v = u
      <3>1. to[u] = u + 1
        <4>1. at[u] = u /\ to[u] = at[u] + 1
          BY <1>2, <1>4, <1>5
        <4>. QED
          BY <4>1
      <3>2. to[v] - 1 = u
        BY <1>2, <2>1, <3>1
      <3>3. u \in 1 .. L + 1
        BY <1>8, <1>9
      <3>. QED
        BY <1>1, <1>10, <1>11, <2>1, <3>2, <3>3, Zenon
    <2>2. CASE v # u
      <3>1. v \in V /\ v \in 1 .. N /\ u < v
        BY <1>2, <2>2
      <3>2. v \in u + 1 .. N /\ v \in 0 .. N /\ ~ (v < u)
        BY <1>2, <3>1
      <3>3. PICK a : a = at[v]
        OBVIOUS
      <3>4. a \in Nat /\ a > u /\ to[v] = a + 1 /\ a \in 1 .. L
        BY <1>3, <1>4, <1>5, <1>6, <1>8, <3>1, <3>2, <3>3
      <3>5. PICK b : b = a - 1
        OBVIOUS
      <3>6. b \in u .. L /\ b + 1 = a /\ to[v] - 1 = a /\ a \in 1 .. L + 1
        BY <1>2, <1>8, <3>4, <3>5
      <3>7. new[a] = x[b]
        <4>1. new[b + 1] = x[b]
          BY <1>10, <3>6, Zenon
        <4>. QED
          BY <3>6, <4>1, Zenon
      <3>8. x[b] = Blocks!CountLine(ls, v)
        BY <1>3, <3>1, <3>3, <3>5, Zenon
      <3>. QED
        BY <1>11, <3>6, <3>7, <3>8, Zenon
    <2>. QED
      BY <2>1, <2>2
  <1>15. Spread(new, ls, to, V \cup {u})
    BY <1>1, <1>2, <1>5, <1>10, <1>12, <1>13, <1>14, Zenon DEF Spread
  <1>. QED
    BY <1>1, <1>15, Zenon

\* So the whole rewrite spreads the file.
LEMMA RewriteSpreads ==
    ASSUME NEW ls \in IniFiles
    PROVE  \E at : Spread(Blocks!Rewritten(ls), ls, at, Blocks!Uncounted(ls))
  <1>1. PICK U, order, c, N : /\ U = Blocks!Uncounted(ls) /\ order = Blocks!InOrder(U)
                              /\ c = Len(order) /\ N = Len(ls)
    BY Zenon
  <1>2. /\ c \in Nat /\ order \in [1 .. c -> U]
        /\ U \subseteq DOMAIN ls /\ U \subseteq Blocks!RulesAt(ls)
        /\ \A x \in U : \E n \in 1 .. c : order[n] = x
        /\ \A m, n \in 1 .. c : m < n => order[m] > order[n]
    <2>1. /\ Len(order) \in Nat /\ order \in [1 .. Len(order) -> U]
          /\ U \subseteq DOMAIN ls /\ U \subseteq Blocks!RulesAt(ls)
          /\ \A x \in U : \E n \in 1 .. Len(order) : order[n] = x
          /\ \A m, n \in 1 .. Len(order) : m < n => order[m] > order[n]
      BY <1>1, OrderIs
    <2>. QED
      BY <1>1, <2>1, Zenon
  <1>3. N \in Nat /\ DOMAIN ls = 1 .. N
    BY <1>1 DEF IniFiles
  <1>4. PICK f : Inserting(f, ls, order)
    BY <1>1, RewrittenSteps, Zenon
  <1>5. /\ f[0] = Blocks!Edited(ls)
        /\ \A k \in 1 .. c :
              f[k] = Blocks!InsertAt(f[k - 1], order[k], Blocks!CountLine(ls, order[k]))
        /\ Blocks!Rewritten(ls) = f[c]
    BY <1>1, <1>4, Zenon DEF Inserting
  <1>. DEFINE V(k) == {order[m] : m \in 1 .. k}
              P == {k \in 0 .. c : \E at : Spread(f[k], ls, at, V(k))}
  <1>6. 0 \in P
    <2>1. V(0) = {}
      OBVIOUS
    <2>. DEFINE at == [j \in 0 .. N |-> j]
    <2>2. Moves(at, N, {})
      <3>1. at \in [0 .. N -> Nat] /\ at[0] = 0 /\ \A j \in 0 .. N : at[j] = j
        BY <1>3
      <3>2. \A j \in 1 .. N : at[j] = at[j - 1] + 1 /\ j \notin {}
        BY <1>3
      <3>3. \A i, j \in 0 .. N : i < j => at[i] < at[j]
        BY <3>1
      <3>. HIDE DEF at
      <3>. QED
        BY <3>1, <3>2, <3>3, Zenon DEF Moves
    <2>3. PICK ed : ed = Blocks!Edited(ls)
      BY Zenon
    <2>4. ed \in IniFiles /\ Len(ed) = N /\ DOMAIN ed = 1 .. N
      BY <1>1, <1>3, <2>3, EditedIs, Zenon DEF EditedRight
    <2>5. at[N] = N /\ \A j \in 1 .. N : at[j] = j
      BY <1>3
    <2>. HIDE DEF at, V
    <2>6. Spread(f[0], ls, at, V(0))
      BY <1>1, <1>3, <1>5, <2>1, <2>2, <2>3, <2>4, <2>5, Zenon DEF Spread
    <2>. QED
      BY <1>2, <2>6
  <1>7. ASSUME NEW m \in 0 .. c - 1, m \in P
        PROVE  m + 1 \in P
    <2>1. PICK k : k = m + 1
      OBVIOUS
    <2>2. k \in 1 .. c /\ k \in 0 .. c /\ k - 1 = m /\ m \in Nat
      BY <1>2, <2>1
    <2>3. PICK at : Spread(f[m], ls, at, V(m))
      BY <1>7, Zenon
    <2>4. f[k] = Blocks!InsertAt(f[m], order[k], Blocks!CountLine(ls, order[k]))
      BY <1>5, <2>2, Zenon
    <2>5. order[k] \in Blocks!RulesAt(ls)
      BY <1>2, <2>2, Zenon
    <2>6. \A v \in V(m) : order[k] < v
      <3>1. \A n \in 1 .. m : n \in 1 .. c /\ n < k
        BY <1>2, <2>2
      <3>2. \A n \in 1 .. m : order[n] > order[k]
        BY <1>2, <2>2, <3>1, Zenon
      <3>3. order[k] \in Nat /\ \A n \in 1 .. m : order[n] \in Nat
        BY <1>2, <1>3, <2>2, <3>1
      <3>4. \A n \in 1 .. m : order[k] < order[n]
        BY <3>2, <3>3
      <3>. QED
        BY <3>4, Zenon
    <2>7. V(m) \subseteq DOMAIN ls
      <3>1. \A n \in 1 .. m : n \in 1 .. c
        BY <1>2, <2>2
      <3>. QED
        BY <1>2, <3>1, Zenon
    <2>8. V(k) = V(m) \cup {order[k]}
      <3>1. 1 .. k = (1 .. m) \cup {k}
        BY <2>1, <2>2
      <3>. QED
        BY <3>1, Zenon
    <2>. HIDE DEF V
    <2>9. PICK x, u, W : x = f[m] /\ u = order[k] /\ W = V(m)
      BY Zenon
    <2>10. \E to : Spread(Blocks!InsertAt(x, u, Blocks!CountLine(ls, u)), ls, to, W \cup {u})
      <3>1. /\ u \in Blocks!RulesAt(ls) /\ W \subseteq DOMAIN ls
            /\ Spread(x, ls, at, W) /\ \A v \in W : u < v
        BY <2>3, <2>5, <2>6, <2>7, <2>9, Zenon
      <3>. QED
        BY <3>1, SpreadMore
    <2>11. \E to : Spread(f[k], ls, to, V(k))
      BY <2>4, <2>8, <2>9, <2>10, Zenon
    <2>. QED
      BY <2>1, <2>2, <2>11
  <1>8. P = 0 .. c
    <2>. HIDE DEF P
    <2>1. P \in SUBSET (0 .. c)
      BY DEF P
    <2>. QED
      BY <1>2, <1>6, <1>7, <2>1, UpTo, Zenon
  <1>9. PICK at : Spread(f[c], ls, at, V(c))
    <2>1. c \in P
      <3>. HIDE DEF P
      <3>. QED
        BY <1>2, <1>8
    <2>. QED
      BY <2>1, Zenon
  <1>10. V(c) = U
    BY <1>2, Zenon
  <1>. QED
    BY <1>1, <1>5, <1>9, <1>10, Zenon

\* How far lines move.
LEMMA MovesFar ==
    ASSUME NEW N \in Nat, NEW U, NEW at, Moves(at, N, U)
    PROVE  \A j \in 0 .. N : at[j] \in j .. 2 * j
  <1>1. /\ at \in [0 .. N -> Nat] /\ at[0] = 0
        /\ \A j \in 1 .. N : at[j] = at[j - 1] + (IF j \in U THEN 2 ELSE 1)
    BY DEF Moves
  <1>. DEFINE P == {j \in 0 .. N : at[j] \in j .. 2 * j}
  <1>2. 0 \in P
    BY <1>1
  <1>3. ASSUME NEW m \in 0 .. N - 1, m \in P
        PROVE  m + 1 \in P
    <2>1. PICK k : k = m + 1
      OBVIOUS
    <2>2. k \in 1 .. N /\ k \in 0 .. N /\ k - 1 = m
      BY <2>1
    <2>3. at[k] = at[k - 1] + (IF k \in U THEN 2 ELSE 1)
      BY <1>1, <2>2, Zenon
    <2>4. at[k] = at[m] + 1 \/ at[k] = at[m] + 2
      BY <2>2, <2>3
    <2>5. at[m] \in m .. 2 * m
      BY <1>3
    <2>6. at[k] \in k .. 2 * k
      BY <2>1, <2>4, <2>5
    <2>. QED
      BY <2>1, <2>2, <2>6
  <1>4. P = 0 .. N
    <2>. HIDE DEF P
    <2>1. P \in SUBSET (0 .. N)
      BY DEF P
    <2>. QED
      BY <1>2, <1>3, <2>1, UpTo, Zenon
  <1>. QED
    BY <1>4

\* Each line of a spread file is an old one or a new one.
LEMMA MovesCover ==
    ASSUME NEW N \in Nat, NEW U, NEW at, Moves(at, N, U), NEW i \in 1 .. at[N]
    PROVE  \E j \in 1 .. N : i = at[j] \/ (j \in U /\ i = at[j] - 1)
  <1>1. /\ at \in [0 .. N -> Nat] /\ at[0] = 0
        /\ \A j \in 1 .. N : at[j] = at[j - 1] + (IF j \in U THEN 2 ELSE 1)
    BY DEF Moves
  <1>. DEFINE T == {j \in 0 .. N : i <= at[j]}
  <1>2. T \subseteq Nat /\ N \in T
    BY <1>1
  <1>3. PICK j \in T : \A k \in T : j <= k
    <2>. HIDE DEF T
    <2>. QED
      BY <1>2, LeastExists
  <1>4. j \in 0 .. N /\ i <= at[j] /\ i \in Nat /\ i >= 1
    BY <1>1, <1>3
  <1>5. j # 0
    BY <1>1, <1>4
  <1>6. PICK k : k = j - 1
    OBVIOUS
  <1>7. k \in 0 .. N /\ j \in 1 .. N /\ k < j
    BY <1>4, <1>5, <1>6
  <1>8. at[k] < i
    <2>1. k \notin T
      <3>. HIDE DEF T
      <3>. QED
        BY <1>3, <1>7
    <2>2. at[k] \in Nat
      BY <1>1, <1>7
    <2>. QED
      BY <1>4, <1>7, <2>1, <2>2
  <1>9. at[j] = at[k] + (IF j \in U THEN 2 ELSE 1)
    BY <1>1, <1>6, <1>7, Zenon
  <1>10. at[k] \in Nat /\ at[j] \in Nat
    BY <1>1, <1>7
  <1>11. i = at[j] \/ (j \in U /\ i = at[j] - 1)
    <2>. HIDE DEF T
    <2>. QED
      BY <1>4, <1>8, <1>9, <1>10
  <1>. QED
    BY <1>7, <1>11

(***************************************************************************)
(* Where a block comes to in a spread file: its lines stay together, and   *)
(* the new line of an uncounted rule is its last.                          *)
(***************************************************************************)
BlockMoves(new, ls, at, U, s, i) ==
    /\ i \in DOMAIN ls /\ i \in Nat /\ s \in 1 .. i
    /\ at[i] \in DOMAIN new /\ at[i] \in Nat /\ at[s - 1] \in Nat
    /\ \A j \in s .. i - 1 :
          /\ at[j] = at[s - 1] + 1 + (j - s)
          /\ j \in DOMAIN ls /\ at[j] \in DOMAIN new /\ new[at[j]] = Blocks!Edited(ls)[j]
    /\ i \in U => at[i] = at[s - 1] + 2 + (i - s)
    /\ i \notin U => at[i] = at[s - 1] + 1 + (i - s)
    /\ StartsAt(new, at[i], at[s - 1] + 1)

\* So blocks move in a spread file.
LEMMA BlockSpreads ==
    ASSUME NEW ls \in IniFiles, NEW U, U = Blocks!Uncounted(ls),
           NEW new, NEW at, Spread(new, ls, at, U),
           NEW i \in Blocks!RulesAt(ls), NEW s, StartsAt(ls, i, s)
    PROVE  BlockMoves(new, ls, at, U, s, i)
  <1>1. PICK N, ed, b : N = Len(ls) /\ ed = Blocks!Edited(ls) /\ b = s - 1
    BY Zenon
  <1>2. N \in Nat /\ DOMAIN ls = 1 .. N
    BY <1>1 DEF IniFiles
  <1>3. U \subseteq Blocks!RulesAt(ls) /\ i \in 1 .. N
    BY <1>2, Zenon DEF Blocks!Uncounted, Blocks!RulesAt
  <1>4. /\ i \in Nat /\ s \in 1 .. i /\ \A j \in s .. i - 1 : ls[j].kind = "comment"
        /\ s = 1 \/ ls[s - 1].kind # "comment"
    BY <1>2, <1>3, BlockFrom, Zenon DEF StartsAt
  <1>5. /\ new \in IniFiles /\ Moves(at, N, U)
        /\ \A j \in 1 .. N : at[j] \in DOMAIN new /\ new[at[j]] = ed[j]
        /\ \A u \in U : at[u] - 1 \in DOMAIN new /\ new[at[u] - 1] = Blocks!CountLine(ls, u)
    BY <1>1, <1>2, Zenon DEF Spread
  <1>6. /\ at \in [0 .. N -> Nat] /\ at[0] = 0
        /\ \A j \in 1 .. N : at[j] = at[j - 1] + (IF j \in U THEN 2 ELSE 1)
    BY <1>5, Zenon DEF Moves
  <1>7. b \in Nat /\ b \in 0 .. i - 1 /\ b \in 0 .. N /\ s = b + 1 /\ at[b] \in Nat
    BY <1>1, <1>2, <1>3, <1>4, <1>6
  <1>8. \A j \in s .. i - 1 : j \notin U
    <2>1. \A u \in U : ls[u].kind = "rule"
      BY <1>3, Zenon DEF Blocks!RulesAt
    <2>2. "rule" # "comment"
      OBVIOUS
    <2>. QED
      BY <1>4, <2>1, <2>2, Zenon
  <1>9. \A j \in b .. i - 1 : at[j] = at[b] + (j - b)
    <2>. DEFINE P == {j \in b .. i - 1 : at[j] = at[b] + (j - b)}
    <2>1. b \in P
      BY <1>7
    <2>2. ASSUME NEW m \in b .. (i - 1) - 1, m \in P
          PROVE  m + 1 \in P
      <3>1. PICK k : k = m + 1
        OBVIOUS
      <3>2. k \in s .. i - 1 /\ k \in b .. i - 1 /\ k - 1 = m /\ k \in 1 .. N /\ m \in 0 .. N
        BY <1>2, <1>3, <1>4, <1>7, <3>1
      <3>3. at[k] = at[m] + 1
        <4>1. at[k] = at[k - 1] + (IF k \in U THEN 2 ELSE 1)
          BY <1>6, <3>2, Zenon
        <4>. QED
          BY <1>8, <3>2, <4>1
      <3>4. at[m] = at[b] + (m - b)
        BY <2>2
      <3>5. at[k] = at[b] + (k - b)
        BY <1>7, <3>1, <3>2, <3>3, <3>4
      <3>. QED
        BY <3>1, <3>2, <3>5
    <2>3. P = b .. i - 1
      <3>. HIDE DEF P
      <3>1. P \in SUBSET (b .. i - 1)
        BY DEF P
      <3>2. i - 1 \in Nat
        BY <1>4
      <3>. QED
        BY <1>7, <2>1, <2>2, <3>1, <3>2, UpTo
    <2>. QED
      BY <2>3
  <1>10. \A j \in s .. i - 1 : /\ at[j] = at[b] + 1 + (j - s)
                               /\ j \in 1 .. N /\ at[j] \in DOMAIN new /\ new[at[j]] = ed[j]
    <2>1. \A j \in s .. i - 1 : j \in b .. i - 1 /\ j \in 1 .. N
      BY <1>2, <1>3, <1>4, <1>7
    <2>2. \A j \in s .. i - 1 : at[b] + (j - b) = at[b] + 1 + (j - s)
      BY <1>7
    <2>. QED
      BY <1>5, <1>9, <2>1, <2>2, Zenon
  <1>11. /\ i \in U => at[i] = at[b] + 2 + (i - s)
         /\ i \notin U => at[i] = at[b] + 1 + (i - s)
    <2>1. PICK k : k = i - 1
      OBVIOUS
    <2>2. k \in b .. i - 1 /\ k \in 0 .. N
      BY <1>2, <1>3, <1>7, <2>1
    <2>3. at[k] = at[b] + (k - b)
      BY <1>9, <2>2, Zenon
    <2>4. at[i] = at[k] + (IF i \in U THEN 2 ELSE 1)
      BY <1>3, <1>6, <2>1, Zenon
    <2>. QED
      BY <1>4, <1>7, <2>1, <2>3, <2>4
  <1>12. at[i] \in Nat /\ at[i] \in DOMAIN new
    BY <1>3, <1>5, <1>6
  <1>13. EditedRight(ls, ed)
    BY <1>1, EditedIs, Zenon
  <1>14. ASSUME NEW k \in at[b] + 1 .. at[i] - 1
         PROVE  new[k].kind = "comment"
    <2>1. PICK j : j = k - (at[b] + 1) + s
      OBVIOUS
    <2>2. CASE j \in s .. i - 1
      <3>1. at[j] = k
        <4>1. at[j] = at[b] + 1 + (j - s)
          BY <1>10, <2>2, Zenon
        <4>. QED
          BY <1>7, <2>1, <4>1
      <3>2. j \in 1 .. N /\ new[k] = ed[j]
        BY <1>10, <2>2, <3>1, Zenon
      <3>3. ed[j].kind = ls[j].kind
        BY <1>2, <1>13, <3>2, Zenon DEF EditedRight
      <3>. QED
        BY <1>4, <2>2, <3>2, <3>3, Zenon
    <2>3. CASE j \notin s .. i - 1
      <3>1. i \in U /\ k = at[i] - 1
        BY <1>4, <1>7, <1>11, <2>1, <2>3
      <3>2. new[k] = Blocks!CountLine(ls, i)
        BY <1>5, <3>1, Zenon
      <3>. QED
        BY <3>2, CountLineIs, Zenon
    <2>. QED
      BY <2>2, <2>3
  <1>15. at[b] + 1 \in 1 .. at[i]
    BY <1>4, <1>7, <1>11
  <1>16. at[b] + 1 = 1 \/ new[(at[b] + 1) - 1].kind # "comment"
    <2>1. CASE s = 1
      BY <1>6, <1>7, <2>1
    <2>2. CASE s # 1
      <3>1. b \in 1 .. N
        BY <1>4, <1>7, <2>2
      <3>2. new[at[b]] = ed[b] /\ ed[b].kind = ls[b].kind
        BY <1>2, <1>5, <1>13, <3>1, Zenon DEF EditedRight
      <3>3. ls[b].kind # "comment"
        BY <1>1, <1>4, <2>2, Zenon
      <3>4. (at[b] + 1) - 1 = at[b]
        BY <1>7
      <3>. QED
        BY <3>2, <3>3, <3>4, Zenon
    <2>. QED
      BY <2>1, <2>2
  <1>17. StartsAt(new, at[i], at[b] + 1)
    BY <1>14, <1>15, <1>16, Zenon DEF StartsAt
  <1>. QED
    BY <1>1, <1>2, <1>3, <1>4, <1>7, <1>10, <1>11, <1>12, <1>17, Zenon DEF BlockMoves

\* A place of the block, in the spread file.
Shifted(ls, at, s, i) == [p \in TokenPlaces(ls, s, i) |-> <<at[p[1]], p[2]>>]

\* The places of the line above line i.
NewPlaces(i) == <<<<i - 1, 1>>, <<i - 1, 2>>>>

\* Its tokens there are those of the block, put right.
PlaceMoves(new, ls, at, s, i, p) ==
    LET q == Shifted(ls, at, s, i)[p]
    IN  /\ q \in TokenPlaces(new, at[s - 1] + 1, at[i])
        /\ Blocks!TokenAt(new, q).t = Blocks!TokenAt(ls, p).t
        /\ p \in Blocks!Claims(ls, i) =>
              Blocks!TokenAt(new, q) = Blocks!Number(HitsOf[ls[i].rule])

\* So the places of a block move.
LEMMA PlaceMovesSo ==
    ASSUME NEW ls \in IniFiles, NEW U, U = Blocks!Uncounted(ls),
           NEW new \in IniFiles, NEW at, NEW i \in Blocks!RulesAt(ls), NEW s, StartsAt(ls, i, s),
           BlockMoves(new, ls, at, U, s, i), NEW p \in TokenPlaces(ls, s, i)
    PROVE  /\ PlaceMoves(new, ls, at, s, i, p)
           /\ DOMAIN new[at[p[1]]].tokens = DOMAIN ls[p[1]].tokens
  <1>1. PICK ed, j, k, q, r :
           /\ ed = Blocks!Edited(ls) /\ j = p[1] /\ k = p[2] /\ r = at[s - 1] + 1
           /\ q = Shifted(ls, at, s, i)[p]
    BY Zenon
  <1>2. i \in DOMAIN ls
    BY Zenon DEF Blocks!RulesAt
  <1>3. /\ p = <<j, k>> /\ j \in s .. i - 1 /\ j \in DOMAIN ls /\ k \in DOMAIN ls[j].tokens
        /\ Blocks!TokenAt(ls, p) = ls[j].tokens[k]
    <2>1. /\ p = <<p[1], p[2]>> /\ p[1] \in s .. i - 1 /\ p[1] \in DOMAIN ls
          /\ p[2] \in DOMAIN ls[p[1]].tokens
          /\ Blocks!TokenAt(ls, p) = ls[p[1]].tokens[p[2]]
      BY <1>2, PlaceIs
    <2>. QED
      BY <1>1, <2>1, Zenon
  <1>4. /\ i \in Nat /\ s \in 1 .. i /\ at[s - 1] \in Nat /\ at[i] \in Nat
        /\ at[j] = at[s - 1] + 1 + (j - s) /\ at[j] \in DOMAIN new /\ new[at[j]] = ed[j]
        /\ i \in U => at[i] = at[s - 1] + 2 + (i - s)
        /\ i \notin U => at[i] = at[s - 1] + 1 + (i - s)
    BY <1>1, <1>3, Zenon DEF BlockMoves
  <1>5. PICK w : w = ed[j].tokens
    OBVIOUS
  <1>6. /\ DOMAIN w = DOMAIN ls[j].tokens
        /\ w[k].t = ls[j].tokens[k].t
        /\ p \in Blocks!Claims(ls, i) => w[k] = Blocks!Number(HitsOf[ls[i].rule])
    <2>1. RecountedRight(ls, j, w)
      BY <1>1, <1>3, <1>5, EditedIs, Zenon DEF EditedRight
    <2>. QED
      BY <1>3, <2>1, Zenon DEF RecountedRight
  <1>7. q = <<at[j], k>>
    BY <1>1, Zenon DEF Shifted
  <1>8. q[1] = at[j] /\ q[2] = k
    BY <1>7
  <1>9. Blocks!TokenAt(new, q) = w[k]
    BY <1>4, <1>5, <1>8, Zenon DEF Blocks!TokenAt
  <1>10. at[j] \in r .. at[i] - 1 /\ at[j] \in Nat
    BY <1>1, <1>3, <1>4
  <1>11. k \in Nat
    BY <1>1, Zenon DEF TokenPlaces
  <1>12. q \in Nat \X Nat
    BY <1>7, <1>10, <1>11
  <1>13. q \in TokenPlaces(new, r, at[i])
    BY <1>3, <1>4, <1>5, <1>6, <1>8, <1>10, <1>12, Zenon DEF TokenPlaces
  <1>. QED
    BY <1>1, <1>3, <1>4, <1>5, <1>6, <1>9, <1>13, Zenon DEF PlaceMoves

\* What is joined above the line in the spread file.
LEMMA JoinSpreads ==
    ASSUME NEW ls \in IniFiles, NEW U, U = Blocks!Uncounted(ls),
           NEW new, NEW at, Spread(new, ls, at, U),
           NEW i \in Blocks!RulesAt(ls), NEW s, StartsAt(ls, i, s),
           BlockMoves(new, ls, at, U, s, i)
    PROVE  /\ i \notin U =>
                 Blocks!Join(new, at[i]) = Mapped(Shifted(ls, at, s, i), Blocks!Join(ls, i))
           /\ i \in U =>
                 Blocks!Join(new, at[i]) =
                     Mapped(Shifted(ls, at, s, i), Blocks!Join(ls, i)) \o NewPlaces(at[i])
  <1>1. PICK r, a, c, d, S, R, g, y, z :
           /\ r = at[s - 1] + 1 /\ a = at[i] /\ c = i - s /\ d = a - r
           /\ S = TokenPlaces(ls, s, i) /\ R = TokenPlaces(new, r, a)
           /\ g = Shifted(ls, at, s, i)
           /\ y = PlacesFrom(ls, s, i) /\ z = PlacesFrom(new, r, a)
    BY Zenon
  <1>2. new \in IniFiles /\ i \in DOMAIN ls
    BY Zenon DEF Spread, Blocks!RulesAt
  <1>3. /\ i \in Nat /\ s \in 1 .. i
        /\ a \in DOMAIN new /\ a \in Nat /\ at[s - 1] \in Nat
        /\ \A j \in s .. i - 1 : at[j] = at[s - 1] + 1 + (j - s) /\ j \in DOMAIN ls
        /\ i \in U => a = at[s - 1] + 2 + (i - s)
        /\ i \notin U => a = at[s - 1] + 1 + (i - s)
        /\ StartsAt(new, a, r)
    BY <1>1, Zenon DEF BlockMoves
  <1>4. /\ c \in Nat /\ d \in Nat /\ r \in Nat
        /\ i \in U => d = c + 1
        /\ i \notin U => d = c
    BY <1>1, <1>3
  <1>5. /\ Blocks!Join(ls, i) = FlattenSeq(y)
        /\ y \in Seq(Seq(S)) /\ DOMAIN y = 1 .. c
        /\ \A n \in 1 .. c : y[n] = Blocks!Places(ls, s - 1 + n)
    BY <1>1, <1>2, JoinFrom, Zenon
  <1>6. /\ Blocks!Join(new, a) = FlattenSeq(z)
        /\ z \in Seq(Seq(R)) /\ DOMAIN z = 1 .. d
        /\ \A n \in 1 .. d : z[n] = Blocks!Places(new, r - 1 + n)
    BY <1>1, <1>2, <1>3, JoinFrom, Zenon
  <1>7. MapsInto(g, S, R) /\ \A p \in S : g[p] = <<at[p[1]], p[2]>>
    <2>1. \A p \in S : PlaceMoves(new, ls, at, s, i, p)
      BY <1>1, <1>2, PlaceMovesSo, Zenon
    <2>2. \A p \in S : g[p] \in R
      BY <1>1, <2>1, Zenon DEF PlaceMoves
    <2>. QED
      BY <1>1, <2>2, Zenon DEF MapsInto, Shifted
  <1>8. ASSUME NEW n \in 1 .. c
        PROVE  n \in 1 .. d /\ z[n] = Mapped(g, y[n])
    <2>1. PICK j : j = s - 1 + n
      OBVIOUS
    <2>2. j \in s .. i - 1 /\ n \in 1 .. d /\ r - 1 + n = at[s - 1] + 1 + (j - s)
      BY <1>1, <1>3, <1>4, <2>1
    <2>3. at[j] = r - 1 + n /\ j \in DOMAIN ls
      BY <1>3, <2>2, Zenon
    <2>4. PICK w, m, x : w = ls[j].tokens /\ m = Len(ls[j].tokens) /\ x = Blocks!Places(ls, j)
      BY Zenon
    <2>5. /\ DOMAIN w = 1 .. m /\ m \in Nat
          /\ x \in Seq(S) /\ Len(x) = m /\ \A k \in 1 .. m : x[k] = <<j, k>> /\ <<j, k>> \in S
      <3>1. /\ j \in DOMAIN ls /\ m \in Nat /\ DOMAIN ls[j].tokens = 1 .. m
            /\ Blocks!Places(ls, j) \in Seq(TokenPlaces(ls, s, i))
            /\ Len(Blocks!Places(ls, j)) = m
            /\ \A k \in 1 .. m : /\ Blocks!Places(ls, j)[k] = <<j, k>>
                                 /\ <<j, k>> \in TokenPlaces(ls, s, i)
        BY <1>2, <2>2, <2>4, PlacesAre
      <3>. QED
        BY <1>1, <2>4, <3>1, Zenon
    <2>6. y[n] = x
      BY <1>5, <2>1, <2>4, Zenon
    <2>7. z[n] = [k \in DOMAIN new[at[j]].tokens |-> <<at[j], k>>]
      BY <1>6, <2>2, <2>3, Zenon DEF Blocks!Places
    <2>8. DOMAIN new[at[j]].tokens = 1 .. m
      <3>1. PICK o : o = Blocks!Edited(ls)[j]
        BY Zenon
      <3>2. new[at[j]] = o
        BY <2>2, <3>1, Zenon DEF BlockMoves
      <3>3. RecountedRight(ls, j, o.tokens)
        BY <2>3, <3>1, EditedIs, Zenon DEF EditedRight
      <3>. QED
        BY <2>4, <2>5, <3>2, <3>3, Zenon DEF RecountedRight
    <2>9. DOMAIN x = 1 .. m
      BY <2>5
    <2>10. \A k \in 1 .. m : g[x[k]] = <<at[j], k>>
      <3>. TAKE k \in 1 .. m
      <3>1. x[k] = <<j, k>> /\ <<j, k>> \in S
        BY <2>5, Zenon
      <3>2. (<<j, k>>)[1] = j /\ (<<j, k>>)[2] = k
        OBVIOUS
      <3>. QED
        BY <1>7, <3>1, <3>2, Zenon
    <2>11. Mapped(g, x) = [k \in 1 .. m |-> <<at[j], k>>]
      BY <2>9, <2>10, Zenon DEF Mapped
    <2>. QED
      BY <2>2, <2>6, <2>7, <2>8, <2>11, Zenon
  <1>. DEFINE first == [n \in 1 .. c |-> z[n]]
  <1>9. \A n \in 1 .. d : z[n] \in Seq(R)
    <2>1. PICK Q : Q = Seq(R)
      OBVIOUS
    <2>2. z \in Seq(Q)
      BY <1>6, <2>1, Zenon
    <2>3. \A n \in DOMAIN z : z[n] \in Q
      BY <2>2
    <2>4. \A n \in 1 .. d : z[n] \in Q
      BY <1>6, <2>3, Zenon
    <2>. QED
      BY <2>1, <2>4, Zenon
  <1>10. first \in Seq(Seq(R)) /\ DOMAIN first = 1 .. c /\ Len(first) = c
         /\ \A n \in 1 .. c : first[n] = z[n]
    <2>1. PICK Q : Q = Seq(R)
      OBVIOUS
    <2>2. \A n \in 1 .. c : z[n] \in Q
      BY <1>8, <1>9, <2>1, Zenon
    <2>3. first \in [1 .. c -> Q] /\ \A n \in 1 .. c : first[n] = z[n]
      BY <2>2, Zenon
    <2>. HIDE DEF first
    <2>4. first \in Seq(Q) /\ Len(first) = c /\ DOMAIN first = 1 .. c
      BY <1>4, <2>3
    <2>. QED
      BY <2>1, <2>3, <2>4, Zenon
  <1>11. FlattenSeq(first) = Mapped(g, FlattenSeq(y))
    <2>1. DOMAIN first = DOMAIN y /\ \A n \in DOMAIN y : first[n] = Mapped(g, y[n])
      <3>. HIDE DEF first
      <3>. QED
        BY <1>5, <1>8, <1>10, Zenon
    <2>2. MapsInto(g, S, R) /\ y \in Seq(Seq(S)) /\ first \in Seq(Seq(R))
      BY <1>5, <1>7, <1>10, Zenon
    <2>. HIDE DEF first
    <2>3. MapsFlat(g, S, first, y)
      BY <2>1, <2>2, MappedFlatten
    <2>. QED
      BY <2>3, Zenon DEF MapsFlat
  <1>. HIDE DEF first
  <1>12. CASE i \notin U
    <2>1. z = [n \in 1 .. d |-> z[n]] /\ first = [n \in 1 .. c |-> first[n]]
      BY <1>6, <1>10
    <2>2. z = first
      <3>1. d = c
        BY <1>4, <1>12
      <3>. QED
        BY <1>10, <2>1, <3>1, Zenon
    <2>. QED
      BY <1>1, <1>5, <1>6, <1>11, <1>12, <2>2, Zenon
  <1>13. CASE i \in U
    <2>1. d = c + 1 /\ d \in 1 .. d /\ r - 1 + d = a - 1
      BY <1>1, <1>3, <1>4, <1>13
    <2>2. PICK x : x = z[d]
      OBVIOUS
    <2>3. x \in Seq(R)
      BY <1>9, <2>1, <2>2, Zenon
    <2>4. z = Append(first, x)
      <3>1. PICK Q : Q = Seq(R)
        OBVIOUS
      <3>2. z \in Seq(Q) /\ first \in Seq(Q) /\ x \in Q
        BY <1>6, <1>10, <2>3, <3>1, Zenon
      <3>3. PICK w : w = Append(first, x)
        BY Zenon
      <3>4. /\ w \in Seq(Q) /\ DOMAIN w = 1 .. d
            /\ \A n \in 1 .. c : w[n] = first[n]
            /\ w[d] = x
        BY <1>4, <1>10, <2>1, <3>2, <3>3
      <3>5. \A n \in 1 .. d : n \in 1 .. c \/ n = d
        BY <1>4, <2>1
      <3>6. \A n \in 1 .. d : w[n] = z[n]
        BY <1>10, <2>2, <3>4, <3>5, Zenon
      <3>7. w = [n \in 1 .. d |-> w[n]] /\ z = [n \in 1 .. d |-> z[n]]
        BY <1>6, <3>4
      <3>. QED
        BY <3>3, <3>6, <3>7, Zenon
    <2>5. x = NewPlaces(a)
      <3>1. x = [k \in DOMAIN new[a - 1].tokens |-> <<a - 1, k>>]
        BY <1>6, <2>1, <2>2, Zenon DEF Blocks!Places
      <3>2. PICK v, h, o : /\ v = Blocks!Number(HitsOf[ls[i].rule]) /\ h = Blocks!Hits
                           /\ o = Blocks!CountLine(ls, i)
        BY Zenon
      <3>3. new[a - 1] = o
        BY <1>1, <1>13, <3>2, Zenon DEF Spread
      <3>4. o.tokens = <<v, h>>
        BY <3>2, CountLineIs, Zenon
      <3>5. DOMAIN <<v, h>> = 1 .. 2
        OBVIOUS
      <3>6. x = [k \in 1 .. 2 |-> <<a - 1, k>>]
        BY <3>1, <3>3, <3>4, <3>5, Zenon
      <3>7. PICK e, f : e = <<a - 1, 1>> /\ f = <<a - 1, 2>>
        OBVIOUS
      <3>8. [k \in 1 .. 2 |-> <<a - 1, k>>] = <<e, f>>
        BY <3>7
      <3>. QED
        BY <3>6, <3>7, <3>8, Zenon DEF NewPlaces
    <2>6. FlattenSeq(z) = FlattenSeq(first) \o x
      BY <1>10, <2>3, <2>4, FlattenOneMore, Zenon
    <2>. QED
      BY <1>1, <1>5, <1>6, <1>11, <1>13, <2>5, <2>6, Zenon
  <1>. QED
    BY <1>12, <1>13, Zenon

\* What the mapped part of the join is.
LEMMA MappedIs ==
    ASSUME NEW S, NEW R, NEW g, MapsInto(g, S, R), NEW J \in Seq(S)
    PROVE  /\ Mapped(g, J) \in Seq(R) /\ Len(Mapped(g, J)) = Len(J) /\ Len(J) \in Nat
           /\ \A m \in 1 .. Len(J) : J[m] \in S /\ Mapped(g, J)[m] = g[J[m]]
  <1>1. MapsConcat(g, R, J, J)
    BY MappedConcat
  <1>2. Mapped(g, J) \in Seq(R) /\ Len(Mapped(g, J)) = Len(J)
    BY <1>1, Zenon DEF MapsConcat
  <1>3. Len(J) \in Nat /\ DOMAIN J = 1 .. Len(J) /\ \A m \in 1 .. Len(J) : J[m] \in S
    OBVIOUS
  <1>4. \A m \in 1 .. Len(J) : Mapped(g, J)[m] = g[J[m]]
    BY <1>3, Zenon DEF Mapped
  <1>. QED
    BY <1>2, <1>3, <1>4, Zenon

\* The claims of what is joined.
ClaimsIn(ls, C, J, n) ==
    /\ \A p \in C : \E m \in 1 .. n - 1 :
          /\ p = J[m]
          /\ Blocks!TokenAt(ls, J[m]).t = "number" /\ Blocks!TokenAt(ls, J[m + 1]).t = "hits"
    /\ \A m \in 1 .. n - 1 :
          Blocks!TokenAt(ls, J[m]).t = "number" /\ Blocks!TokenAt(ls, J[m + 1]).t = "hits"
             => J[m] \in C

\* A claim is a number before the word, in what is joined.
LEMMA ClaimsAre ==
    ASSUME NEW ls, NEW i
    PROVE  ClaimsIn(ls, Blocks!Claims(ls, i), Blocks!Join(ls, i), Len(Blocks!Join(ls, i)))
  <1>1. PICK J : J = Blocks!Join(ls, i)
    BY Zenon
  <1>. DEFINE Two(m) == /\ Blocks!TokenAt(ls, J[m]).t = "number"
                        /\ Blocks!TokenAt(ls, J[m + 1]).t = "hits"
  <1>2. Blocks!Claims(ls, i) = {J[m] : m \in {k \in 1 .. Len(J) - 1 : Two(k)}}
    BY <1>1, Zenon DEF Blocks!Claims
  <1>3. /\ \A p \in Blocks!Claims(ls, i) : \E m \in 1 .. Len(J) - 1 : p = J[m] /\ Two(m)
        /\ \A m \in 1 .. Len(J) - 1 : Two(m) => J[m] \in Blocks!Claims(ls, i)
    <2>. HIDE DEF Two
    <2>. QED
      BY <1>2, Zenon
  <1>. QED
    BY <1>1, <1>3, Zenon DEF ClaimsIn

\* A rule of the spread file is right.
LEMMA RightMoves ==
    ASSUME NEW ls \in IniFiles, NEW U, U = Blocks!Uncounted(ls),
           NEW new, NEW at, Spread(new, ls, at, U), NEW i \in Blocks!RulesAt(ls)
    PROVE  RightAt(new, at[i])
  <1>1. new \in IniFiles /\ i \in DOMAIN ls
    BY Zenon DEF Spread, Blocks!RulesAt
  <1>2. PICK s : StartsAt(ls, i, s)
    BY <1>1, StartExists, Zenon
  <1>3. BlockMoves(new, ls, at, U, s, i)
    BY <1>2, BlockSpreads
  <1>4. PICK a, J, K, S, R, g, x, h :
           /\ a = at[i] /\ J = Blocks!Join(ls, i) /\ K = Blocks!Join(new, a)
           /\ S = TokenPlaces(ls, s, i) /\ R = TokenPlaces(new, at[s - 1] + 1, a)
           /\ g = Shifted(ls, at, s, i) /\ x = Mapped(g, J) /\ h = HitsOf[ls[i].rule]
    BY Zenon
  <1>5. PICK n : n = Len(J)
    OBVIOUS
  <1>6. (i \notin U => K = x) /\ (i \in U => K = x \o NewPlaces(a))
    <2>1. /\ i \notin U =>
                 Blocks!Join(new, at[i]) = Mapped(Shifted(ls, at, s, i), Blocks!Join(ls, i))
          /\ i \in U =>
                 Blocks!Join(new, at[i]) =
                     Mapped(Shifted(ls, at, s, i), Blocks!Join(ls, i)) \o NewPlaces(at[i])
      BY <1>2, <1>3, JoinSpreads
    <2>. QED
      BY <1>4, <2>1, Zenon
  <1>7. ASSUME NEW p \in S
        PROVE  /\ g[p] \in R
               /\ Blocks!TokenAt(new, g[p]).t = Blocks!TokenAt(ls, p).t
               /\ p \in Blocks!Claims(ls, i) => Blocks!TokenAt(new, g[p]) = Blocks!Number(h)
    <2>1. p \in TokenPlaces(ls, s, i)
      BY <1>4, Zenon
    <2>2. PlaceMoves(new, ls, at, s, i, p)
      BY <1>1, <1>2, <1>3, <2>1, PlaceMovesSo
    <2>. QED
      BY <1>4, <2>2, Zenon DEF PlaceMoves
  <1>8. J \in Seq(S)
    BY <1>1, <1>2, <1>4, JoinFrom, Zenon
  <1>9. /\ x \in Seq(R) /\ Len(x) = n /\ n \in Nat
        /\ \A m \in 1 .. n : J[m] \in S /\ x[m] = g[J[m]]
    <2>1. MapsInto(g, S, R)
      BY <1>7, Zenon DEF MapsInto
    <2>2. /\ Mapped(g, J) \in Seq(R) /\ Len(Mapped(g, J)) = Len(J) /\ Len(J) \in Nat
          /\ \A m \in 1 .. Len(J) : J[m] \in S /\ Mapped(g, J)[m] = g[J[m]]
      BY <1>8, <2>1, MappedIs
    <2>. QED
      BY <1>4, <1>5, <2>2, Zenon
  <1>10. ASSUME NEW m \in 1 .. n
         PROVE  /\ Blocks!TokenAt(new, x[m]).t = Blocks!TokenAt(ls, J[m]).t
                /\ J[m] \in Blocks!Claims(ls, i) => Blocks!TokenAt(new, x[m]) = Blocks!Number(h)
    BY <1>7, <1>9, Zenon
  <1>11. /\ ClaimsIn(ls, Blocks!Claims(ls, i), J, n)
         /\ ClaimsIn(new, Blocks!Claims(new, a), K, Len(K))
    <2>1. /\ ClaimsIn(ls, Blocks!Claims(ls, i), Blocks!Join(ls, i), Len(Blocks!Join(ls, i)))
          /\ ClaimsIn(new, Blocks!Claims(new, a), Blocks!Join(new, a), Len(Blocks!Join(new, a)))
      BY ClaimsAre
    <2>. QED
      BY <1>4, <1>5, <2>1, Zenon
  <1>12. ASSUME NEW m \in 1 .. n - 1,
                Blocks!TokenAt(new, x[m]).t = "number" /\ Blocks!TokenAt(new, x[m + 1]).t = "hits"
         PROVE  J[m] \in Blocks!Claims(ls, i) /\ Blocks!TokenAt(new, x[m]) = Blocks!Number(h)
    <2>1. m \in 1 .. n /\ m + 1 \in 1 .. n
      BY <1>9
    <2>2. Blocks!TokenAt(ls, J[m]).t = "number" /\ Blocks!TokenAt(ls, J[m + 1]).t = "hits"
      BY <1>10, <1>12, <2>1, Zenon
    <2>3. J[m] \in Blocks!Claims(ls, i)
      BY <1>11, <2>2, Zenon DEF ClaimsIn
    <2>. QED
      BY <1>10, <2>1, <2>3, Zenon
  <1>13. /\ a \in DOMAIN new /\ (new[a].demoted <=> ls[i].demoted) /\ new[a].rule = ls[i].rule
    <2>1. PICK ed : ed = Blocks!Edited(ls)
      BY Zenon
    <2>2. a \in DOMAIN new /\ new[a] = ed[i]
      BY <1>1, <1>4, <2>1, Zenon DEF Spread
    <2>3. EditedRight(ls, ed)
      BY <2>1, EditedIs, Zenon
    <2>4. (ed[i].demoted <=> ls[i].demoted) /\ ed[i].rule = ls[i].rule
      BY <1>1, <2>3, Zenon DEF EditedRight
    <2>. QED
      BY <2>2, <2>4, Zenon
  <1>14. CASE i \notin U
    <2>1. K = x /\ Len(K) = n
      BY <1>6, <1>9, <1>14, Zenon
    <2>2. ASSUME NEW p \in Blocks!Claims(new, a)
          PROVE  Blocks!TokenAt(new, p) = Blocks!Number(h)
      <3>1. PICK m \in 1 .. n - 1 :
               /\ p = x[m]
               /\ Blocks!TokenAt(new, x[m]).t = "number" /\ Blocks!TokenAt(new, x[m + 1]).t = "hits"
        BY <1>11, <2>1, Zenon DEF ClaimsIn
      <3>. QED
        BY <1>12, <3>1, Zenon
    <2>3. ASSUME ls[i].demoted
          PROVE  Blocks!Claims(new, a) # {}
      <3>1. Blocks!Claims(ls, i) # {}
        BY <1>14, <2>3, Zenon DEF Blocks!Uncounted
      <3>2. PICK p : p \in Blocks!Claims(ls, i)
        BY <3>1, Zenon
      <3>3. PICK m \in 1 .. n - 1 :
               Blocks!TokenAt(ls, J[m]).t = "number" /\ Blocks!TokenAt(ls, J[m + 1]).t = "hits"
        BY <1>11, <3>2, Zenon DEF ClaimsIn
      <3>4. m \in 1 .. n /\ m + 1 \in 1 .. n
        BY <1>9
      <3>5. Blocks!TokenAt(new, x[m]).t = "number" /\ Blocks!TokenAt(new, x[m + 1]).t = "hits"
        BY <1>10, <3>3, <3>4, Zenon
      <3>6. x[m] \in Blocks!Claims(new, a)
        BY <1>11, <2>1, <3>5, Zenon DEF ClaimsIn
      <3>. QED
        BY <3>6, Zenon
    <2>. QED
      BY <1>4, <1>13, <2>2, <2>3, Zenon DEF RightAt
  <1>15. CASE i \in U
    <2>1. PICK e, f, v : /\ e = <<a - 1, 1>> /\ f = <<a - 1, 2>>
                         /\ v = Blocks!Number(h)
      BY Zenon
    <2>2. NewPlaces(a) = <<e, f>>
      BY <2>1, Zenon DEF NewPlaces
    <2>3. Blocks!TokenAt(new, e) = v /\ Blocks!TokenAt(new, f) = Blocks!Hits
      <3>1. new[a - 1] = Blocks!CountLine(ls, i)
        BY <1>4, <1>15, Zenon DEF Spread
      <3>2. PICK o, w : o = Blocks!Hits /\ w = <<v, o>>
        BY Zenon
      <3>3. new[a - 1].tokens = w
        BY <1>4, <2>1, <3>1, <3>2, CountLineIs, Zenon
      <3>4. e[1] = a - 1 /\ e[2] = 1 /\ f[1] = a - 1 /\ f[2] = 2 /\ w[1] = v /\ w[2] = o
        BY <2>1, <3>2
      <3>. QED
        BY <3>2, <3>3, <3>4, Zenon DEF Blocks!TokenAt
    <2>4. v.t = "number" /\ Blocks!Hits.t = "hits"
      BY <2>1 DEF Blocks!Number, Blocks!Hits
    <2>5. Blocks!Claims(ls, i) = {}
      BY <1>15, Zenon DEF Blocks!Uncounted
    <2>6. /\ Len(K) = n + 2 /\ K[n + 1] = e /\ K[n + 2] = f
          /\ \A m \in 1 .. n : K[m] = x[m]
      <3>1. PICK T : T = R \cup {e, f}
        OBVIOUS
      <3>2. x \in Seq(T)
        BY <1>9, <3>1
      <3>3. PICK y : y = <<e, f>>
        OBVIOUS
      <3>4. y \in Seq(T) /\ Len(y) = 2 /\ y[1] = e /\ y[2] = f
        BY <3>1, <3>3
      <3>5. K = x \o y
        BY <1>6, <1>15, <2>2, <3>3, Zenon
      <3>6. /\ Len(K) = Len(x) + Len(y)
            /\ \A m \in 1 .. Len(x) + Len(y) :
                  K[m] = IF m <= Len(x) THEN x[m] ELSE y[m - Len(x)]
        BY <3>2, <3>4, <3>5, ConcatProperties
      <3>7. PICK j, k : j = n + 1 /\ k = n + 2
        OBVIOUS
      <3>8. /\ Len(K) = k
            /\ \A m \in 1 .. k : K[m] = IF m <= n THEN x[m] ELSE y[m - n]
        BY <1>9, <3>4, <3>6, <3>7
      <3>9. /\ j \in 1 .. k /\ ~ (j <= n) /\ j - n = 1
            /\ k \in 1 .. k /\ ~ (k <= n) /\ k - n = 2
            /\ \A m \in 1 .. n : m \in 1 .. k /\ m <= n
        BY <1>9, <3>7
      <3>10. K[j] = y[j - n] /\ K[k] = y[k - n]
        BY <3>8, <3>9, Zenon
      <3>11. \A m \in 1 .. n : K[m] = x[m]
        BY <3>8, <3>9, Zenon
      <3>. QED
        BY <3>4, <3>7, <3>8, <3>9, <3>10, <3>11, Zenon
    <2>7. ASSUME NEW m \in 1 .. Len(K) - 1,
                 Blocks!TokenAt(new, K[m]).t = "number" /\ Blocks!TokenAt(new, K[m + 1]).t = "hits"
          PROVE  Blocks!TokenAt(new, K[m]) = v
      <3>1. m \in 1 .. n - 1 \/ m = n \/ m = n + 1
        BY <1>9, <2>6
      <3>2. CASE m \in 1 .. n - 1
        <4>1. m \in 1 .. n /\ m + 1 \in 1 .. n
          BY <1>9, <3>2
        <4>2. K[m] = x[m] /\ K[m + 1] = x[m + 1]
          BY <2>6, <4>1, Zenon
        <4>. QED
          BY <1>12, <2>5, <2>7, <3>2, <4>2, Zenon
      <3>3. CASE m = n
        <4>1. Blocks!TokenAt(new, K[m + 1]).t = "number"
          BY <2>3, <2>4, <2>6, <3>3, Zenon
        <4>2. "number" # "hits"
          OBVIOUS
        <4>. QED
          BY <2>7, <4>1, <4>2, Zenon
      <3>4. CASE m = n + 1
        BY <2>3, <2>6, <3>4, Zenon
      <3>. QED
        BY <3>1, <3>2, <3>3, <3>4
    <2>8. ASSUME NEW p \in Blocks!Claims(new, a)
          PROVE  Blocks!TokenAt(new, p) = Blocks!Number(h)
      <3>1. PICK m \in 1 .. Len(K) - 1 :
               /\ p = K[m]
               /\ Blocks!TokenAt(new, K[m]).t = "number" /\ Blocks!TokenAt(new, K[m + 1]).t = "hits"
        BY <1>11, Zenon DEF ClaimsIn
      <3>. QED
        BY <2>1, <2>7, <3>1, Zenon
    <2>9. Blocks!Claims(new, a) # {}
      <3>1. PICK m : m = n + 1
        OBVIOUS
      <3>2. m \in 1 .. Len(K) - 1 /\ K[m] = e /\ K[m + 1] = f
        <4>1. m + 1 = n + 2 /\ m \in 1 .. (n + 2) - 1
          BY <1>9, <3>1
        <4>. QED
          BY <2>6, <3>1, <4>1, Zenon
      <3>3. K[m] \in Blocks!Claims(new, a)
        BY <1>11, <2>3, <2>4, <3>2, Zenon DEF ClaimsIn
      <3>. QED
        BY <3>3, Zenon
    <2>. QED
      BY <1>4, <1>13, <2>8, <2>9, Zenon DEF RightAt
  <1>. QED
    BY <1>14, <1>15

\* So a rewritten file is right.
LEMMA SpreadRight ==
    ASSUME NEW ls \in IniFiles, NEW U, U = Blocks!Uncounted(ls),
           NEW new, NEW at, Spread(new, ls, at, U)
    PROVE  Right(new)
  <1>1. PICK N, ed : N = Len(ls) /\ ed = Blocks!Edited(ls)
    BY Zenon
  <1>2. N \in Nat /\ DOMAIN ls = 1 .. N /\ EditedRight(ls, ed)
    BY <1>1, EditedIs DEF IniFiles
  <1>3. /\ new \in IniFiles /\ Moves(at, N, U) /\ Len(new) = at[N]
        /\ \A j \in 1 .. N : new[at[j]] = ed[j]
        /\ \A u \in U : new[at[u] - 1] = Blocks!CountLine(ls, u)
        /\ U \subseteq Blocks!RulesAt(ls)
    BY <1>1, <1>2, Zenon DEF Spread, Blocks!Uncounted
  <1>4. DOMAIN new = 1 .. at[N]
    BY <1>3 DEF IniFiles
  <1>5. ASSUME NEW k \in Blocks!RulesAt(new)
        PROVE  RightAt(new, k)
    <2>1. k \in 1 .. at[N] /\ new[k].kind = "rule"
      BY <1>4, Zenon DEF Blocks!RulesAt
    <2>2. PICK j \in 1 .. N : k = at[j] \/ (j \in U /\ k = at[j] - 1)
      BY <1>2, <1>3, <2>1, MovesCover
    <2>3. ~ (j \in U /\ k = at[j] - 1)
      <3>. SUFFICES ASSUME j \in U, k = at[j] - 1
                    PROVE  FALSE
        BY Zenon
      <3>1. new[k].kind = "comment"
        BY <1>3, CountLineIs, Zenon
      <3>2. "comment" # "rule"
        OBVIOUS
      <3>. QED
        BY <2>1, <3>1, <3>2, Zenon
    <2>4. k = at[j] /\ new[k] = ed[j] /\ ed[j].kind = ls[j].kind
      BY <1>2, <1>3, <2>2, <2>3, Zenon DEF EditedRight
    <2>5. j \in Blocks!RulesAt(ls)
      BY <1>2, <2>1, <2>4, Zenon DEF Blocks!RulesAt
    <2>6. RightAt(new, at[j])
      BY <2>5, RightMoves
    <2>. QED
      BY <2>4, <2>6, Zenon
  <1>. QED
    BY <1>5, Zenon DEF Right

\* Lines that were there are in order, and the others are counts.
OnlyNumbers(old, new) ==
    \E at \in [DOMAIN old -> DOMAIN new] :
        /\ \A j, k \in DOMAIN old : j < k => at[j] < at[k]
        /\ \A j \in DOMAIN old : Blocks!Shape(new[at[j]]) = Blocks!Shape(old[j])
        /\ \A i \in DOMAIN new :
              (\A j \in DOMAIN old : at[j] # i) =>
                  Blocks!Shape(new[i]).tokens = <<"number", "hits">>

\* A file is so beside itself.
LEMMA OnlyNumbersSame ==
    ASSUME NEW ls \in IniFiles
    PROVE  OnlyNumbers(ls, ls)
  <1>1. PICK N : N = Len(ls)
    OBVIOUS
  <1>2. N \in Nat /\ DOMAIN ls = 1 .. N
    BY <1>1 DEF IniFiles
  <1>. DEFINE at == [j \in 1 .. N |-> j]
  <1>3. at \in [1 .. N -> 1 .. N] /\ \A j \in 1 .. N : at[j] = j
    OBVIOUS
  <1>4. \A j, k \in 1 .. N : j < k => at[j] < at[k]
    OBVIOUS
  <1>. HIDE DEF at
  <1>5. \A i \in 1 .. N : ~ \A j \in 1 .. N : at[j] # i
    BY <1>3, Zenon
  <1>. QED
    BY <1>2, <1>3, <1>4, <1>5, Zenon DEF OnlyNumbers

\* And a spread file beside the one it was.
LEMMA SpreadOnly ==
    ASSUME NEW ls \in IniFiles, NEW U, U = Blocks!Uncounted(ls),
           NEW new, NEW at, Spread(new, ls, at, U)
    PROVE  /\ new \in IniFiles /\ OnlyNumbers(ls, new)
           /\ Len(new) \in Len(ls) .. 2 * Len(ls)
  <1>1. PICK N, ed : N = Len(ls) /\ ed = Blocks!Edited(ls)
    BY Zenon
  <1>2. N \in Nat /\ DOMAIN ls = 1 .. N /\ EditedRight(ls, ed)
    BY <1>1, EditedIs DEF IniFiles
  <1>3. /\ new \in IniFiles /\ Moves(at, N, U) /\ Len(new) = at[N]
        /\ \A j \in 1 .. N : at[j] \in DOMAIN new /\ new[at[j]] = ed[j]
        /\ \A u \in U : new[at[u] - 1] = Blocks!CountLine(ls, u)
        /\ U \subseteq Blocks!RulesAt(ls)
    BY <1>1, <1>2, Zenon DEF Spread, Blocks!Uncounted
  <1>4. DOMAIN new = 1 .. at[N]
    BY <1>3 DEF IniFiles
  <1>5. Len(new) \in N .. 2 * N
    BY <1>2, <1>3, MovesFar
  <1>6. \A j, k \in 0 .. N : j < k => at[j] < at[k]
    BY <1>3, Zenon DEF Moves
  <1>. DEFINE to == [j \in 1 .. N |-> at[j]]
  <1>7. to \in [1 .. N -> DOMAIN new] /\ \A j \in 1 .. N : to[j] = at[j]
    <2>. HIDE DEF Moves
    <2>. QED
      BY <1>3, Zenon
  <1>. HIDE DEF to
  <1>8. \A j, k \in 1 .. N : j < k => to[j] < to[k]
    <2>1. \A j \in 1 .. N : j \in 0 .. N
      BY <1>2
    <2>. QED
      BY <1>6, <1>7, <2>1, Zenon
  <1>9. ASSUME NEW j \in 1 .. N
        PROVE  Blocks!Shape(new[to[j]]) = Blocks!Shape(ls[j])
    <2>1. PICK x, o, w, q : x = ed[j] /\ o = ls[j] /\ w = x.tokens /\ q = o.tokens
      OBVIOUS
    <2>2. new[to[j]] = x
      BY <1>3, <1>7, <2>1, Zenon
    <2>3. x.kind = o.kind /\ x.rule = o.rule /\ RecountedRight(ls, j, w)
      BY <1>2, <2>1, Zenon DEF EditedRight
    <2>4. DOMAIN w = DOMAIN q /\ \A k \in DOMAIN w : w[k].t = q[k].t
      BY <2>1, <2>3, Zenon DEF RecountedRight
    <2>5. [k \in DOMAIN w |-> w[k].t] = [k \in DOMAIN q |-> q[k].t]
      BY <2>4, Zenon
    <2>6. Blocks!Shape(x) = Blocks!Shape(o)
      BY <2>1, <2>3, <2>5, Zenon DEF Blocks!Shape
    <2>. QED
      BY <2>1, <2>2, <2>6, Zenon
  <1>10. ASSUME NEW i \in DOMAIN new, \A j \in 1 .. N : to[j] # i
         PROVE  Blocks!Shape(new[i]).tokens = <<"number", "hits">>
    <2>1. i \in 1 .. at[N]
      BY <1>4
    <2>2. PICK j \in 1 .. N : i = at[j] \/ (j \in U /\ i = at[j] - 1)
      BY <1>2, <1>3, <2>1, MovesCover
    <2>3. j \in U /\ i = at[j] - 1
      BY <1>7, <1>10, <2>2, Zenon
    <2>4. PICK x, v, h, w : /\ x = new[i] /\ v = Blocks!Number(HitsOf[ls[j].rule])
                            /\ h = Blocks!Hits /\ w = x.tokens
      BY Zenon
    <2>5. w = <<v, h>>
      BY <1>3, <2>3, <2>4, CountLineIs, Zenon
    <2>6. v.t = "number" /\ h.t = "hits"
      BY <2>4 DEF Blocks!Number, Blocks!Hits
    <2>7. Blocks!Shape(x).tokens = [k \in DOMAIN w |-> w[k].t]
      <3>1. PICK y : y = [k \in DOMAIN w |-> w[k].t]
        BY Zenon
      <3>2. PICK a, b : a = x.kind /\ b = x.rule
        OBVIOUS
      <3>3. Blocks!Shape(x) = [kind |-> a, rule |-> b, tokens |-> y]
        BY <2>4, <3>1, <3>2, Zenon DEF Blocks!Shape
      <3>. QED
        BY <3>1, <3>3
    <2>8. [k \in DOMAIN w |-> w[k].t] = <<"number", "hits">>
      BY <2>5, <2>6
    <2>. QED
      BY <2>4, <2>7, <2>8, Zenon
  <1>11. OnlyNumbers(ls, new)
    BY <1>2, <1>7, <1>8, <1>9, <1>10, Zenon DEF OnlyNumbers
  <1>. QED
    BY <1>1, <1>3, <1>5, <1>11, Zenon

(***************************************************************************)
(* The inductive invariant behind ValeBlocks's: once written, each rule    *)
(* has no claim but what Vale reports, and one if it is demoted.           *)
(***************************************************************************)
BlocksInv ==
    script = "its blocks" =>
        /\ ini \in IniFiles /\ original \in IniFiles
        /\ Len(ini) \in Len(original) .. 2 * Len(original)
        /\ writes \in 0 .. 2
        /\ writes = 0 => ini = original
        /\ writes > 0 => Right(ini)
        /\ OnlyNumbers(original, ini)

\* At first the file is as it was.
LEMMA BlocksInit == ScriptsInit => BlocksInv
  <1>0. SUFFICES ASSUME ScriptsInit, script = "its blocks"
                PROVE  /\ ini \in IniFiles /\ original \in IniFiles
                       /\ Len(ini) \in Len(original) .. 2 * Len(original)
                       /\ writes \in 0 .. 2
                       /\ writes = 0 => ini = original
                       /\ writes > 0 => Right(ini)
                       /\ OnlyNumbers(original, ini)
    BY Zenon DEF BlocksInv
  <1>1. Blocks!Init
    BY <1>0, Zenon DEF ScriptsInit
  <1>2. ini \in Blocks!SeqOf(IniLines, MaxLines) /\ original = ini /\ writes = 0
    BY <1>1, Zenon DEF Blocks!Init
  <1>3. ini \in IniFiles
    <2>1. PICK K : K = Blocks!KnownLines
      BY Zenon
    <2>2. IniLines \subseteq K /\ MaxLines \in Nat
      BY <2>1, ConstantsAreRight, Zenon DEF Blocks!LinesAreKnown, Blocks!MaxLinesIsNat
    <2>3. PICK m \in 0 .. MaxLines : ini \in [1 .. m -> IniLines]
      BY <1>2 DEF Blocks!SeqOf
    <2>4. ini \in Seq(K)
      BY <2>2, <2>3
    <2>. QED
      BY <2>1, <2>4, Zenon DEF IniFiles
  <1>4. Len(ini) \in Len(ini) .. 2 * Len(ini)
    BY <1>3 DEF IniFiles
  <1>5. OnlyNumbers(ini, ini)
    BY <1>3, OnlyNumbersSame, Zenon
  <1>6. writes \in 0 .. 2 /\ ~ (writes > 0)
    BY <1>2
  <1>. QED
    BY <1>2, <1>3, <1>4, <1>5, <1>6, Zenon

\* The first rewrite makes it right, and another leaves it as it is.
LEMMA BlocksStep ==
    BlocksInv /\ [Embeds \/ CountsHits \/ Rewrites]_scriptVars => BlocksInv'
  <1>. SUFFICES ASSUME BlocksInv, [Embeds \/ CountsHits \/ Rewrites]_scriptVars
                PROVE  BlocksInv'
    OBVIOUS
  <1>1. CASE UNCHANGED scriptVars
    BY <1>1, Zenon DEF BlocksInv, scriptVars, blockVars
  <1>2. CASE Embeds
    <2>1. UNCHANGED <<script, ini, original, writes>>
      BY <1>2, Zenon DEF Embeds, blockVars
    <2>. QED
      BY <2>1, Zenon DEF BlocksInv
  <1>3. CASE CountsHits
    <2>1. UNCHANGED <<script, ini, original, writes>>
      BY <1>3, Zenon DEF CountsHits, blockVars
    <2>. QED
      BY <2>1, Zenon DEF BlocksInv
  <1>4. CASE Rewrites
    <2>0. script = "its blocks"
      BY <1>4, Zenon DEF Rewrites
    <2>1. /\ script' = script /\ original' = original
          /\ writes < 2 /\ writes' = writes + 1
      BY <1>4, Zenon DEF Rewrites, Blocks!Next, Blocks!Write
    <2>2. PICK new : new = ini' /\ new = Blocks!Rewritten(ini)
      BY <1>4, Zenon DEF Rewrites, Blocks!Next, Blocks!Write
    <2>3. /\ ini \in IniFiles /\ original \in IniFiles
          /\ Len(ini) \in Len(original) .. 2 * Len(original)
          /\ writes \in 0 .. 2
          /\ writes = 0 => ini = original
          /\ writes > 0 => Right(ini)
          /\ OnlyNumbers(original, ini)
      BY <2>0, Zenon DEF BlocksInv
    <2>4. /\ new \in IniFiles /\ Right(new) /\ OnlyNumbers(original, new)
          /\ Len(new) \in Len(original) .. 2 * Len(original)
      <3>1. CASE writes = 0
        <4>1. PICK at : Spread(new, original, at, Blocks!Uncounted(original))
          BY <2>2, <2>3, <3>1, RewriteSpreads, Zenon
        <4>. QED
          BY <2>3, <4>1, SpreadRight, SpreadOnly, Zenon
      <3>2. CASE writes # 0
        <4>1. writes > 0
          BY <2>3, <3>2
        <4>2. new = ini /\ Right(ini)
          BY <2>2, <2>3, <4>1, RightStays, Zenon
        <4>. QED
          BY <2>3, <4>2, Zenon
      <3>. QED
        BY <3>1, <3>2
    <2>5. writes' \in 0 .. 2 /\ writes' # 0
      BY <2>1, <2>3
    <2>. QED
      BY <2>1, <2>2, <2>3, <2>4, <2>5, Zenon DEF BlocksInv
  <1>. QED
    BY <1>1, <1>2, <1>3, <1>4, Zenon

\* What it says of the file is what ValeBlocks promises.
LEMMA BlocksPromise == BlocksInv => RewriteIsRight
  <1>. SUFFICES ASSUME BlocksInv, script = "its blocks"
                PROVE  Blocks!IInv
    BY Zenon DEF RewriteIsRight
  <1>1. /\ ini \in IniFiles /\ original \in IniFiles
        /\ Len(ini) \in Len(original) .. 2 * Len(original)
        /\ writes \in 0 .. 2
        /\ writes = 0 => ini = original
        /\ writes > 0 => Right(ini)
        /\ OnlyNumbers(original, ini)
    BY Zenon DEF BlocksInv
  <1>2. Blocks!TypeOK
    BY <1>1, Zenon DEF Blocks!TypeOK, IniFiles
  <1>3. Blocks!EveryRuleCounted
    <2>1. CASE writes > 0
      BY <1>1, <2>1, RightIsCounted, Zenon
    <2>2. CASE ~ (writes > 0)
      BY <2>2, Zenon DEF Blocks!EveryRuleCounted
    <2>. QED
      BY <2>1, <2>2, Zenon
  <1>4. Blocks!OnlyNumbersChange
    BY <1>1, Zenon DEF Blocks!OnlyNumbersChange, OnlyNumbers
  <1>5. Blocks!WritingTwiceIsOnce
    BY <1>1, RightStays, Zenon DEF Blocks!WritingTwiceIsOnce
  <1>. QED
    BY <1>1, <1>2, <1>3, <1>4, <1>5, Zenon DEF Blocks!IInv

(***************************************************************************)
(* vale-counts.cjs, blocks, join and edit: after a rewrite each rule is    *)
(* right by what stands above it, nothing is lost or reordered but for     *)
(* numbers and new counts, and another rewrite changes nothing, for every  *)
(* file and every report.                                                  *)
(***************************************************************************)
THEOREM RewriteRight == ScriptsSpec => []RewriteIsRight
  BY BlocksInit, BlocksStep, BlocksPromise, PTL DEF ScriptsSpec
=============================================================================
