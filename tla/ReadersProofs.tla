---------------------------- MODULE ReadersProofs ----------------------------
(***************************************************************************)
(* Theorems about the readers of tools/port-deps.cjs: NpmDeps, for any     *)
(* package.json, GoDeps, for any go.mod and any files, TomlTables, for any *)
(* keys and any values, CargoDeps, for any manifest of them, GoHeader, for *)
(* any lines, and GoImports, for any file.                                 *)
(***************************************************************************)
EXTENDS MCReaders, TLAPS, Recursion, SequenceTheorems, FiniteSetTheorems

-----------------------------------------------------------------------------
(* NpmDeps.                                                                *)

\* What is declared at run time: a name for each key of each section.
Declared ==
    UNION {{[name |-> Npm!NpmName(key, sections[s][key]), optional |-> Npm!Optional(key)] :
               key \in DOMAIN sections[s]} : s \in Npm!Runtime}

\* A repo is read at run time when a key of a runtime section installs it, and
\* optional when every such key is.
LEMMA NpmReads ==
    ASSUME NEW id \in NpmRepos \ {Package}
    PROVE  /\ id \in Npm!ReadTs.runtime
              <=> \E s \in Npm!Runtime : \E key \in DOMAIN sections[s] :
                     Npm!Installs(s, key) = id
           /\ id \in Npm!ReadTs.dev
              <=> /\ \E key \in DOMAIN sections["devDependencies"] :
                        Npm!Installs("devDependencies", key) = id
                  /\ id \notin Npm!ReadTs.runtime
           /\ id \in Npm!ReadTs.optional
              <=> /\ id \in Npm!ReadTs.runtime
                  /\ \A s \in Npm!Runtime : \A key \in DOMAIN sections[s] :
                        Npm!Installs(s, key) = id => Npm!Optional(key)
  <1>1. id \in NpmRepos /\ id # Package /\ id # Npm!NoId
    BY ConstantsAreRight DEF Npm!NoIdIsNoRepo
  <1>2. \A name : Npm!IdOf(name) = id <=> name = id
    BY <1>1 DEF Npm!IdOf
  <1>3. \A s, key : Npm!NpmName(key, sections[s][key]) = Npm!Installs(s, key)
    BY DEF Npm!NpmName, Npm!Installs
  <1>. DEFINE names == Npm!Names("devDependencies")
              ids == {Npm!IdOf(d.name) : d \in Declared} \ {Package, Npm!NoId}
  <1>4. /\ Npm!ReadTs.runtime = ids
        /\ Npm!ReadTs.optional =
              {i \in ids : \A d \in Declared : Npm!IdOf(d.name) = i => d.optional}
        /\ Npm!ReadTs.dev = {Npm!IdOf(name) : name \in names} \ (ids \cup {Package, Npm!NoId})
    BY DEF Npm!ReadTs, Npm!Fold, Declared
  <1>5. \A d \in Declared : \E s \in Npm!Runtime : \E key \in DOMAIN sections[s] :
           d.name = Npm!Installs(s, key) /\ d.optional = Npm!Optional(key)
    BY <1>3 DEF Declared
  <1>6. \A s \in Npm!Runtime : \A key \in DOMAIN sections[s] : \E d \in Declared :
           d.name = Npm!Installs(s, key) /\ d.optional = Npm!Optional(key)
    <2>1. ASSUME NEW s \in Npm!Runtime, NEW key \in DOMAIN sections[s]
          PROVE  \E d \in Declared :
                    d.name = Npm!Installs(s, key) /\ d.optional = Npm!Optional(key)
      <3>. DEFINE d == [name |-> Npm!NpmName(key, sections[s][key]),
                        optional |-> Npm!Optional(key)]
      <3>1. d \in Declared
        BY DEF Declared
      <3>2. d.name = Npm!Installs(s, key) /\ d.optional = Npm!Optional(key)
        BY <1>3
      <3>. QED
        BY <3>1, <3>2
    <2>. QED
      BY <2>1
  <1>7. id \in ids <=> \E d \in Declared : d.name = id
    BY <1>1, <1>2
  <1>8. id \in {Npm!IdOf(name) : name \in names}
        <=> \E key \in DOMAIN sections["devDependencies"] :
               Npm!Installs("devDependencies", key) = id
    BY <1>2, <1>3 DEF Npm!Names
  <1>. HIDE DEF ids, names
  <1>9. id \in Npm!ReadTs.runtime
        <=> \E s \in Npm!Runtime : \E key \in DOMAIN sections[s] : Npm!Installs(s, key) = id
    BY <1>4, <1>5, <1>6, <1>7
  <1>10. id \in Npm!ReadTs.dev
         <=> /\ \E key \in DOMAIN sections["devDependencies"] :
                   Npm!Installs("devDependencies", key) = id
             /\ id \notin Npm!ReadTs.runtime
    BY <1>1, <1>4, <1>8
  <1>11. id \in Npm!ReadTs.optional
         <=> /\ id \in Npm!ReadTs.runtime
             /\ \A d \in Declared : d.name = id => d.optional
    BY <1>2, <1>4
  <1>12. (\A d \in Declared : d.name = id => d.optional)
         <=> \A s \in Npm!Runtime : \A key \in DOMAIN sections[s] :
                Npm!Installs(s, key) = id => Npm!Optional(key)
    BY <1>5, <1>6
  <1>. QED
    BY <1>9, <1>10, <1>11, <1>12

\* A key that is not optional is required.
LEMMA OptionalOrRequired ==
    ASSUME NEW s \in Npm!Runtime, NEW key \in DOMAIN sections[s]
    PROVE  Npm!RequiredBy(key) <=> ~ Npm!Optional(key)
  BY DEF Npm!Runtime, Npm!RequiredBy, Npm!Optional

\* What is read is what is installed, and what is not required is optional.
LEMMA NpmFits ==
    /\ Npm!ReadTs.runtime \cup Npm!ReadTs.dev \subseteq NpmRepos \ {Package}
    /\ Npm!ReadTs.optional \subseteq Npm!ReadTs.runtime
    /\ Npm!ReadTs.runtime \cap Npm!ReadTs.dev = {}
    /\ Npm!EveryInstallRead
    /\ Npm!RequiredIsNotOptional
  <1>. DEFINE inUse == Npm!ReadTs.runtime
              optional == Npm!ReadTs.optional
              dev == Npm!ReadTs.dev
  <1>1. /\ optional \subseteq inUse /\ inUse \cap dev = {}
        /\ inUse \cup dev \subseteq NpmRepos \ {Package}
    BY DEF Npm!ReadTs, Npm!Fold, Npm!IdOf
  <1>2. Npm!EveryInstallRead
    <2>1. ASSUME NEW id \in NpmRepos \ {Package}
          PROVE  LET in(S) == \E s \in S : \E key \in DOMAIN sections[s] :
                                  Npm!Installs(s, key) = id
                 IN  /\ id \in inUse <=> in(Npm!Runtime)
                     /\ id \in dev <=> in({"devDependencies"}) /\ ~in(Npm!Runtime)
      BY NpmReads
    <2>. QED
      BY <2>1 DEF Npm!EveryInstallRead
  <1>3. Npm!RequiredIsNotOptional
    <2>1. ASSUME NEW id \in inUse
          PROVE  id \notin optional
                 <=> \E s \in Npm!Runtime : \E key \in DOMAIN sections[s] :
                        Npm!Installs(s, key) = id /\ Npm!RequiredBy(key)
      <3>1. id \in NpmRepos \ {Package}
        BY <1>1
      <3>2. id \in optional
            <=> \A s \in Npm!Runtime : \A key \in DOMAIN sections[s] :
                   Npm!Installs(s, key) = id => Npm!Optional(key)
        BY <2>1, <3>1, NpmReads
      <3>3. \A s \in Npm!Runtime : \A key \in DOMAIN sections[s] :
               Npm!RequiredBy(key) <=> ~ Npm!Optional(key)
        BY OptionalOrRequired
      <3>. HIDE DEF optional, inUse
      <3>. QED
        BY <3>2, <3>3
    <2>. QED
      BY <2>1 DEF Npm!RequiredIsNotOptional
  <1>. QED
    BY <1>1, <1>2, <1>3

\* Sections and notes are of keys.
KeysKnown ==
    /\ DOMAIN sections = Npm!Sections
    /\ \A s \in Npm!Sections : DOMAIN sections[s] \subseteq Keys
    /\ DOMAIN meta \subseteq Keys

\* One more entry is one more key.
LEMMA NpmKeeps ==
    ASSUME KeysKnown, [ReadersNext]_readerVars
    PROVE  KeysKnown'
  <1>1. ASSUME NEW s \in Npm!Sections, NEW key \in Keys, NEW spec \in Specifiers,
               Npm!Declare(s, key, spec)
        PROVE  KeysKnown'
    <2>1. /\ sections' = [sections EXCEPT ![s] = Npm!With(sections[s], key, spec)]
          /\ UNCHANGED meta
      BY <1>1 DEF Npm!Declare
    <2>2. DOMAIN Npm!With(sections[s], key, spec) \subseteq Keys
      BY DEF Npm!With, KeysKnown
    <2>. QED
      BY <2>1, <2>2 DEF KeysKnown
  <1>2. ASSUME NEW key \in Keys, NEW note \in Npm!Notes, Npm!Note(key, note)
        PROVE  KeysKnown'
    BY <1>2 DEF KeysKnown, Npm!Note, Npm!With
  <1>3. ASSUME NEW s, Npm!Break(s)
        PROVE  KeysKnown'
    BY <1>3 DEF KeysKnown, Npm!Break
  <1>4. CASE ReadsNpm
    BY <1>1, <1>2, <1>3, <1>4 DEF ReadsNpm, Npm!Next
  <1>5. CASE UNCHANGED npmVars
    BY <1>5 DEF KeysKnown, npmVars
  <1>6. ReadsNpm \/ UNCHANGED npmVars
    BY DEF ReadersNext, ReadsToml, ReadsCargo, ReadsHeader, ReadsImports, ReadsGo, readerVars
  <1>. QED
    BY <1>4, <1>5, <1>6

\* However package.json spells its dependencies, under whatever keys, aliases
\* and sections: the port's repos are those npm installs, and one is optional
\* exactly when nothing requires it.
THEOREM NpmRead == ReadersSpec => []NpmAsInstalled
  <1>1. ReadersInit => KeysKnown
    BY DEF ReadersInit, Npm!Init, KeysKnown
  <1>2. KeysKnown /\ [ReadersNext]_readerVars => KeysKnown'
    BY NpmKeeps
  <1>3. KeysKnown => NpmAsInstalled
    BY NpmFits DEF KeysKnown, NpmAsInstalled, Npm!TypeOK
  <1>. QED
    BY <1>1, <1>2, <1>3, PTL DEF ReadersSpec

-----------------------------------------------------------------------------
(* GoDeps.                                                                 *)

\* A sequence's places, and what stands there.
LEMMA Elements ==
    ASSUME NEW S, NEW s \in Seq(S)
    PROVE  /\ DOMAIN s = 1 .. Len(s) /\ Len(s) \in Nat
           /\ \A i \in DOMAIN s : s[i] \in S
  OBVIOUS

\* The first element, and the only one.
LEMMA FirstElement ==
    ASSUME NEW S, NEW s \in Seq(S), Len(s) >= 1
    PROVE  s[1] \in S /\ (Len(s) = 1 => s = <<s[1]>>)
  OBVIOUS

\* What stands in a sequence with one more element.
LEMMA OneMoreElement ==
    ASSUME NEW S, NEW s \in Seq(S), NEW e \in S
    PROVE  Go!ToSet(Append(s, e)) = Go!ToSet(s) \cup {e}
  <1>1. /\ DOMAIN s = 1 .. Len(s) /\ DOMAIN Append(s, e) = 1 .. Len(s) + 1
        /\ Len(s) \in Nat /\ Append(s, e)[Len(s) + 1] = e
        /\ \A i \in 1 .. Len(s) : Append(s, e)[i] = s[i]
    OBVIOUS
  <1>2. 1 .. Len(s) + 1 = (1 .. Len(s)) \cup {Len(s) + 1}
    BY <1>1
  <1>. QED
    BY <1>1, <1>2 DEF Go!ToSet

\* A path within another is no longer, and the same if it is as long.
LEMMA PrefixFits ==
    ASSUME NEW p \in Seq(STRING), NEW q \in Seq(STRING), Go!IsPrefix(p, q)
    PROVE  Len(p) <= Len(q) /\ (Len(p) = Len(q) => p = q)
  <1>1. Len(p) <= Len(q) /\ SubSeq(p, 1, Len(p)) = SubSeq(q, 1, Len(p))
    BY DEF Go!IsPrefix
  <1>2. ASSUME Len(p) = Len(q)
        PROVE  p = q
    <2>1. \A i \in 1 .. Len(p) : p[i] = q[i]
      <3>1. ASSUME NEW i \in 1 .. Len(p)
            PROVE  p[i] = q[i]
        <4>1. SubSeq(p, 1, Len(p))[i] = p[i] /\ SubSeq(q, 1, Len(p))[i] = q[i]
          BY <1>2
        <4>. QED
          BY <1>1, <4>1
      <3>. QED
        BY <3>1
    <2>. QED
      BY <1>2, <2>1
  <1>. QED
    BY <1>1, <1>2

\* A require that fits best, and is the first of its module, provides.
LEMMA BestProvides ==
    ASSUME requires \in Seq([path : Seq(STRING), indirect : BOOLEAN]),
           NEW path \in Seq(STRING), NEW r \in Go!DirectFor(path)
    PROVE  r \in Go!Provider(path) /\ ~ r.indirect
  <1>. DEFINE fits == {i \in DOMAIN requires : Go!Within(requires[i].path, path)}
              longest == {i \in fits : \A j \in fits :
                             Len(requires[j].path) <= Len(requires[i].path)}
  <1>1. /\ DOMAIN requires = 1 .. Len(requires) /\ Len(requires) \in Nat
        /\ \A i \in DOMAIN requires : requires[i].path \in Seq(STRING)
    <2>1. \A i \in DOMAIN requires : requires[i] \in [path : Seq(STRING), indirect : BOOLEAN]
      BY Elements, Zenon
    <2>. QED
      BY <2>1, Elements
  <1>2. PICK k \in DOMAIN requires : requires[k] = r
    BY <1>1 DEF Go!DirectFor, Go!ToSet
  <1>3. /\ Go!IsPrefix(r.path, path) /\ ~ r.indirect /\ r.path \in Seq(STRING)
        /\ \A i \in DOMAIN requires : Go!IsPrefix(requires[i].path, path) =>
              /\ Go!IsPrefix(requires[i].path, r.path)
              /\ requires[i].path = r.path => requires[i] = r
    BY <1>1, <1>2, Zenon DEF Go!DirectFor, Go!ToSet
  <1>4. k \in longest
    <2>1. k \in fits
      BY <1>2, <1>3 DEF Go!Within
    <2>2. ASSUME NEW j \in fits
          PROVE  Len(requires[j].path) <= Len(requires[k].path)
      <3>1. Go!IsPrefix(requires[j].path, r.path) /\ requires[j].path \in Seq(STRING)
        BY <1>1, <1>3 DEF Go!Within
      <3>. QED
        BY <1>2, <1>3, <3>1, PrefixFits
    <2>. HIDE DEF fits
    <2>. QED
      BY <2>1, <2>2
  <1>5. longest \subseteq Nat /\ longest \subseteq fits /\ fits \subseteq DOMAIN requires
    BY <1>1
  <1>6. PICK i \in longest : \A j \in longest : i <= j
    <2>. HIDE DEF longest
    <2>. QED
      BY <1>4, <1>5, LeastExists, Zenon
  <1>7. requires[i] = r
    <2>1. i \in fits /\ k \in fits /\ Len(requires[k].path) <= Len(requires[i].path)
      BY <1>4, <1>6
    <2>2. /\ Go!IsPrefix(requires[i].path, r.path) /\ requires[i].path \in Seq(STRING)
          /\ requires[i].path = r.path => requires[i] = r
      BY <1>1, <1>3, <2>1 DEF Go!Within
    <2>3. Len(requires[i].path) = Len(r.path)
      BY <1>2, <1>3, <2>1, <2>2, PrefixFits
    <2>. QED
      BY <1>3, <2>2, <2>3, PrefixFits
  <1>8. Go!Provider(path) = {requires[j] : j \in {m \in longest : \A n \in longest : m <= n}}
    BY DEF Go!Provider
  <1>. HIDE DEF longest
  <1>. QED
    BY <1>3, <1>6, <1>7, <1>8

\* Of a file that was read, that is walked and not left out, each import is
\* accounted for.
LEMMA FileAccounted ==
    ASSUME Go!IInv, modStatus # "unreadable",
           NEW i \in DOMAIN files, files[i].test \in BOOLEAN, ~ files[i].ignored,
           Go!ToSet(files[i].above) \cap Go!NotWalked = {},
           NEW path \in files[i].imports, ~ Go!IsPrefix(module, path), path[1] = Org
    PROVE  path[2] \in (IF files[i].test THEN tests ELSE runtime)
  <1>1. Go!Walked(files[i])
    BY DEF Go!Walked, Go!ToSet
  <1>2. path \in Go!Imports(files[i]) /\ Go!InOrg(path)
    BY DEF Go!Imports, Go!Within, Go!InOrg
  <1>3. path[2] \in Go!OrgIds(files[i])
    BY <1>2 DEF Go!OrgIds
  <1>. QED
    BY <1>1, <1>3 DEF Go!IInv, Go!SeenSoFar

\* So nothing the port is built from goes unseen.
LEMMA GoSees ==
    ASSUME Go!IInv
    PROVE  Go!NothingUnseen
  <1>. SUFFICES ASSUME modStatus = "read"
                PROVE  Go!NothingUnseen
    BY Zenon DEF Go!NothingUnseen
  <1>1. /\ \A i \in DOMAIN files : files[i] \in Files
        /\ requires \in Seq([path : Seq(STRING), indirect : BOOLEAN])
    BY DEF Go!IInv, Go!TypeOK
  <1>2. \A i \in DOMAIN files : /\ files[i].test \in BOOLEAN
                                /\ files[i].imports \subseteq Seq(STRING)
    BY <1>1, ConstantsAreRight DEF Go!FilesAreKnown
  <1>3. ASSUME NEW test \in BOOLEAN, NEW path \in Go!Built(test)
        PROVE  \E i \in DOMAIN files :
                  /\ files[i].test = test /\ ~ files[i].ignored
                  /\ Go!ToSet(files[i].above) \cap Go!NotWalked = {}
                  /\ path \in files[i].imports
    BY <1>3 DEF Go!Built
  <1>4. ASSUME NEW test \in BOOLEAN, NEW path \in Go!Built(test),
               ~ Go!IsPrefix(module, path), path[1] = Org
        PROVE  path[2] \in (IF test THEN tests ELSE runtime)
    <2>1. PICK i \in DOMAIN files :
              /\ files[i].test = test /\ ~ files[i].ignored
              /\ Go!ToSet(files[i].above) \cap Go!NotWalked = {}
              /\ path \in files[i].imports
      BY <1>3
    <2>. QED
      BY <1>2, <1>4, <2>1, FileAccounted
  <1>5. ASSUME NEW path \in Go!Built(FALSE), ~ Go!IsPrefix(module, path),
               path[1] \in Hosts, path[1] # Org, NEW r \in Go!DirectFor(path)
        PROVE  r.path \in external
    <2>1. PICK i \in DOMAIN files :
              /\ files[i].test = FALSE /\ ~ files[i].ignored
              /\ Go!ToSet(files[i].above) \cap Go!NotWalked = {}
              /\ path \in files[i].imports
      BY <1>3, Zenon
    <2>2. Go!Walked(files[i])
      BY <2>1 DEF Go!Walked, Go!ToSet
    <2>3. path \in Seq(STRING)
      BY <1>2, <2>1
    <2>4. path \in Go!Imports(files[i]) /\ Go!IsOther(path)
      BY <1>5, <2>1 DEF Go!Imports, Go!Within, Go!IsOther
    <2>5. r \in Go!Provider(path) /\ ~ r.indirect
      BY <1>1, <2>3, BestProvides
    <2>6. r.path \in Go!Externals(files[i])
      BY <2>4, <2>5 DEF Go!Externals
    <2>. QED
      BY <2>1, <2>2, <2>6 DEF Go!IInv, Go!SeenSoFar
  <1>6. \A path \in Go!Built(FALSE) :
           \/ Go!IsPrefix(module, path) \/ path[1] \notin Hosts
           \/ path[1] = Org /\ path[2] \in runtime
           \/ path[1] # Org /\ \A r \in Go!DirectFor(path) : r.path \in external
    BY <1>4, <1>5, Zenon
  <1>7. \A path \in Go!Built(TRUE) :
           Go!IsPrefix(module, path) \/ path[1] # Org \/ path[2] \in runtime \cup Go!Dev
    BY <1>4, Zenon DEF Go!Dev
  <1>8. \A id \in Go!Dev : \A path \in Go!Built(FALSE) :
           path[1] = Org /\ path[2] = id => Go!IsPrefix(module, path)
    BY <1>4, Zenon DEF Go!Dev
  <1>. QED
    BY <1>6, <1>7, <1>8, Zenon DEF Go!NothingUnseen

\* A file that is read has its imports added to what is read, or is refused.
LEMMA FileKeepsSeen ==
    ASSUME Go!IInv, NEW file \in Files, Go!ReadFile(file)
    PROVE  Go!SeenSoFar'
  <1>. DEFINE n == Len(files)
              counts == Go!Walked(file) /\ ~file.ignored
              strange == counts /\ \E path \in Go!Imports(file) :
                                       Go!InOrg(path) /\ ~Go!Named(path)
              ids == IF counts /\ ~strange THEN Go!OrgIds(file) ELSE {}
  <1>1. /\ files' = Append(files, file) /\ UNCHANGED <<modLines, block, module, requires>>
        /\ modStatus' = IF strange THEN "unreadable" ELSE modStatus
        /\ runtime' = runtime \cup (IF file.test THEN {} ELSE ids)
        /\ tests' = tests \cup (IF file.test THEN ids ELSE {})
        /\ external' = external \cup (IF counts /\ ~strange /\ ~file.test
                                      THEN Go!Externals(file) ELSE {})
    BY DEF Go!ReadFile, Go!modVars
  <1>2. files \in Seq(Files) /\ modStatus # "unreadable" /\ file.test \in BOOLEAN
    BY ConstantsAreRight DEF Go!IInv, Go!TypeOK, Go!ReadFile, Go!FilesAreKnown
  <1>3. /\ DOMAIN files' = 1 .. n + 1 /\ DOMAIN files = 1 .. n /\ n \in Nat
        /\ \A i \in 1 .. n : files'[i] = files[i]
        /\ files'[n + 1] = file
    BY <1>1, <1>2
  <1>4. ASSUME NEW f
        PROVE  /\ Go!Walked(f)' <=> Go!Walked(f)
               /\ Go!Imports(f)' = Go!Imports(f)
               /\ Go!OrgIds(f)' = Go!OrgIds(f)
               /\ Go!Externals(f)' = Go!Externals(f)
    <2>1. Go!Imports(f)' = Go!Imports(f)
      BY <1>1 DEF Go!Imports
    <2>2. \A path : Go!Provider(path)' = Go!Provider(path)
      BY <1>1 DEF Go!Provider
    <2>. QED
      BY <2>1, <2>2 DEF Go!Walked, Go!OrgIds, Go!Externals
  <1>. SUFFICES ASSUME modStatus' # "unreadable", NEW i \in 1 .. n + 1,
                       Go!Walked(files'[i]) /\ ~files'[i].ignored
                PROVE  /\ \A path \in Go!Imports(files'[i]) : Go!InOrg(path) => Go!Named(path)
                       /\ Go!OrgIds(files'[i])
                             \subseteq (IF files'[i].test THEN tests' ELSE runtime')
                       /\ ~files'[i].test => Go!Externals(files'[i]) \subseteq external'
    BY <1>3, <1>4 DEF Go!SeenSoFar
  <1>5. CASE i \in 1 .. n
    <2>1. files'[i] = files[i] /\ i \in DOMAIN files
      BY <1>3, <1>5
    <2>2. /\ \A path \in Go!Imports(files[i]) : Go!InOrg(path) => Go!Named(path)
          /\ Go!OrgIds(files[i]) \subseteq (IF files[i].test THEN tests ELSE runtime)
          /\ ~files[i].test => Go!Externals(files[i]) \subseteq external
      BY <1>2, <2>1 DEF Go!IInv, Go!SeenSoFar
    <2>3. tests \subseteq tests' /\ runtime \subseteq runtime' /\ external \subseteq external'
      BY <1>1
    <2>. QED
      BY <2>1, <2>2, <2>3
  <1>6. CASE i = n + 1
    <2>1. files'[i] = file /\ counts /\ ~ strange
      BY <1>1, <1>3, <1>6
    <2>. QED
      BY <1>1, <1>2, <2>1
  <1>. QED
    BY <1>3, <1>5, <1>6

\* One more file, or the end of them, keeps the rest of the types.
LEMMA FileTyped ==
    ASSUME Go!IInv, NEW file \in Files, Go!ReadFile(file)
    PROVE  Go!TypeOK'
  <1>. DEFINE counts == Go!Walked(file) /\ ~file.ignored
              strange == counts /\ \E path \in Go!Imports(file) :
                                       Go!InOrg(path) /\ ~Go!Named(path)
              ids == IF counts /\ ~strange THEN Go!OrgIds(file) ELSE {}
              known == {path[2] : path \in {p \in UNION {f.imports : f \in Files} :
                                               Go!InOrg(p) /\ Len(p) > 1}}
  <1>1. /\ files' = Append(files, file) /\ UNCHANGED <<modLines, block, module, requires>>
        /\ modStatus = "files" /\ modStatus' \in {"files", "unreadable"}
        /\ runtime' \cup tests' \subseteq runtime \cup tests \cup ids
    BY DEF Go!ReadFile, Go!modVars
  <1>2. files' \in Seq(Files)
    BY <1>1 DEF Go!IInv, Go!TypeOK
  <1>3. ids \subseteq known
    <2>1. ASSUME NEW id \in ids
          PROVE  id \in known
      <3>1. PICK p \in Go!Imports(file) : Go!InOrg(p) /\ id = p[2] /\ counts /\ ~ strange
        BY <2>1 DEF Go!OrgIds
      <3>2. p \in file.imports /\ Len(p) >= 3
        BY <3>1 DEF Go!Imports, Go!Named
      <3>3. Len(p) > 1
        <4>1. p \in Seq(STRING)
          BY <3>2, ConstantsAreRight DEF Go!FilesAreKnown
        <4>. QED
          BY <3>2, <4>1
      <3>. QED
        BY <3>1, <3>2, <3>3
    <2>. QED
      BY <2>1
  <1>4. runtime \cup tests \subseteq known
    BY DEF Go!IInv, Go!TypeOK
  <1>. HIDE DEF ids, known
  <1>5. runtime' \cup tests' \subseteq known
    BY <1>1, <1>3, <1>4
  <1>. QED
    BY <1>1, <1>2, <1>5 DEF Go!IInv, Go!TypeOK, known, Go!InOrg

\* A line's verb and arguments.
LEMMA LineTokens ==
    ASSUME NEW line \in ModLines, line.tokens # <<>>
    PROVE  /\ Head(line.tokens) = line.tokens[1] /\ Len(line.tokens) >= 1
           /\ line.tokens \in Seq(Seq(STRING) \ {Go!None}) /\ line.indirect \in BOOLEAN
           /\ Head(line.tokens) \in Seq(STRING) \ {Go!None}
           /\ Tail(line.tokens) \in Seq(Seq(STRING) \ {Go!None})
  <1>1. line.tokens \in Seq(Seq(STRING) \ {Go!None}) /\ line.indirect \in BOOLEAN
    BY ConstantsAreRight DEF Go!LinesAreTokens
  <1>2. ASSUME NEW S, NEW s \in Seq(S), s # <<>>
        PROVE  Head(s) = s[1] /\ Head(s) \in S /\ Tail(s) \in Seq(S) /\ Len(s) >= 1
    BY <1>2
  <1>. QED
    BY <1>1, <1>2

\* A directive that fits has paths as its arguments.
LEMMA DirectiveTyped ==
    ASSUME Go!TypeOK, NEW line \in ModLines, Go!DirectiveLine(line)
    PROVE  /\ module' \in Seq(STRING)
           /\ requires' \in Seq([path : Seq(STRING), indirect : BOOLEAN])
  <1>. DEFINE verb == IF block = Go!None THEN Head(line.tokens) ELSE block
              args == IF block = Go!None THEN Tail(line.tokens) ELSE line.tokens
  <1>1. line.tokens # <<>> /\ args \in Seq(Seq(STRING) \ {Go!None}) /\ line.indirect \in BOOLEAN
    BY LineTokens DEF Go!DirectiveLine
  <1>2. \/ Go!Fits(verb, args) /\ Go!Directive(verb, args, line.indirect)
        \/ UNCHANGED <<module, requires>>
    BY DEF Go!DirectiveLine
  <1>3. /\ module \in Seq(STRING)
        /\ requires \in Seq([path : Seq(STRING), indirect : BOOLEAN])
    BY DEF Go!TypeOK
  <1>. HIDE DEF verb, args
  <1>4. CASE Go!Fits(verb, args) /\ Go!Directive(verb, args, line.indirect)
    <2>1. ASSUME Len(args) >= 1
          PROVE  args[1] \in Seq(STRING)
      BY <1>1, <2>1
    <2>2. module' \in Seq(STRING)
      BY <1>1, <1>3, <1>4, <2>1 DEF Go!Fits, Go!Directive
    <2>3. CASE verb = <<"require">>
      <3>1. requires' = Append(requires, [path |-> args[1], indirect |-> line.indirect])
        BY <1>4, <2>3 DEF Go!Directive
      <3>2. args[1] \in Seq(STRING)
        BY <1>1, <1>4, <2>1, <2>3 DEF Go!Fits
      <3>3. [path |-> args[1], indirect |-> line.indirect]
            \in [path : Seq(STRING), indirect : BOOLEAN]
        BY <1>1, <3>2
      <3>. QED
        BY <1>3, <2>2, <3>1, <3>3
    <2>4. CASE verb # <<"require">>
      BY <1>3, <1>4, <2>2, <2>4 DEF Go!Directive
    <2>. QED
      BY <2>3, <2>4
  <1>. QED
    BY <1>2, <1>3, <1>4

\* Any other step keeps the types.
LEMMA ModTyped ==
    ASSUME Go!IInv,
           \/ \E line \in ModLines : \/ Go!Blank(line) \/ Go!OpenBlock(line)
                                     \/ Go!CloseBlock(line) \/ Go!DirectiveLine(line)
           \/ Go!EndOfMod \/ Go!EndOfFiles
    PROVE  Go!TypeOK'
  <1>1. UNCHANGED <<files, runtime, tests, external>>
    BY DEF Go!Blank, Go!OpenBlock, Go!CloseBlock, Go!DirectiveLine, Go!EndOfMod, Go!EndOfFiles,
       Go!fileVars
  <1>2. Go!TypeOK
    BY DEF Go!IInv
  <1>3. ASSUME NEW line \in ModLines, Go!ModLine(line)
        PROVE  modLines' \in Seq(ModLines) /\ modStatus = "go.mod"
    BY <1>2, <1>3 DEF Go!ModLine, Go!TypeOK
  <1>4. ASSUME NEW line \in ModLines, Go!Blank(line)
        PROVE  Go!TypeOK'
    BY <1>1, <1>2, <1>3, <1>4 DEF Go!Blank, Go!TypeOK, Go!InOrg
  <1>5. ASSUME NEW line \in ModLines, Go!OpenBlock(line)
        PROVE  Go!TypeOK'
    <2>1. Len(line.tokens) > 1
      BY <1>5 DEF Go!OpenBlock, Go!IsOpener
    <2>2. line.tokens # <<>>
      BY <2>1
    <2>3. Head(line.tokens) = line.tokens[1]
      BY <2>2, LineTokens
    <2>4. block' = block \/ block' = Head(line.tokens)
      BY <1>5, <2>3 DEF Go!OpenBlock
    <2>5. modStatus' \in {"go.mod", "unreadable"} /\ UNCHANGED <<module, requires>>
      BY <1>3, <1>5 DEF Go!OpenBlock
    <2>. QED
      BY <1>1, <1>2, <1>3, <1>5, <2>2, <2>4, <2>5 DEF Go!OpenBlock, Go!TypeOK, Go!InOrg
  <1>6. ASSUME NEW line \in ModLines, Go!CloseBlock(line)
        PROVE  Go!TypeOK'
    <2>1. modStatus' \in {"go.mod", "unreadable"} /\ UNCHANGED <<module, requires>>
      BY <1>3, <1>6 DEF Go!CloseBlock
    <2>. QED
      BY <1>1, <1>2, <1>3, <1>6, <2>1 DEF Go!CloseBlock, Go!TypeOK, Go!InOrg
  <1>7. ASSUME NEW line \in ModLines, Go!DirectiveLine(line)
        PROVE  Go!TypeOK'
    <2>1. modStatus' \in {"go.mod", "unreadable"} /\ UNCHANGED block
      BY <1>3, <1>7 DEF Go!DirectiveLine
    <2>2. modLines' \in Seq(ModLines) /\ modStatus = "go.mod"
      BY <1>3, <1>7 DEF Go!DirectiveLine
    <2>. QED
      BY <1>1, <1>2, <1>7, <2>1, <2>2, DirectiveTyped DEF Go!TypeOK, Go!InOrg
  <1>8. CASE Go!EndOfMod
    BY <1>1, <1>2, <1>8 DEF Go!EndOfMod, Go!modVars, Go!TypeOK, Go!InOrg
  <1>9. CASE Go!EndOfFiles
    BY <1>1, <1>2, <1>9 DEF Go!EndOfFiles, Go!modVars, Go!TypeOK, Go!InOrg
  <1>. QED
    BY <1>4, <1>5, <1>6, <1>7, <1>8, <1>9

\* What a go.mod says is said line by line: one more line changes nothing of
\* what those before it said.
LEMMA OneMoreLine ==
    ASSUME Go!TypeOK, NEW line \in ModLines, Go!ModLine(line), NEW n, n = Len(modLines)
    PROVE  /\ n \in Nat /\ DOMAIN modLines = 1 .. n
           /\ DOMAIN modLines' = 1 .. n + 1 /\ Len(modLines') = n + 1
           /\ modLines'[n + 1] = line /\ \A k \in 1 .. n : modLines'[k] = modLines[k]
           /\ \A k \in 1 .. n : /\ Go!Opens(k)' <=> Go!Opens(k)
                                /\ Go!Closes(k)' <=> Go!Closes(k)
           /\ \A k \in 1 .. n + 1 : Go!BlockOf(k)' = Go!BlockOf(k)
           /\ \A k \in 1 .. n : Go!Arguments(k)' = Go!Arguments(k)
  <1>1. /\ n \in Nat /\ DOMAIN modLines = 1 .. n
        /\ DOMAIN modLines' = 1 .. n + 1 /\ Len(modLines') = n + 1
        /\ modLines'[n + 1] = line /\ \A k \in 1 .. n : modLines'[k] = modLines[k]
    BY DEF Go!TypeOK, Go!ModLine
  <1>2. \A k \in 1 .. n : (Go!Opens(k)' <=> Go!Opens(k)) /\ (Go!Closes(k)' <=> Go!Closes(k))
    BY <1>1 DEF Go!Opens, Go!Closes
  <1>3. ASSUME NEW k \in 1 .. n + 1
        PROVE  Go!BlockOf(k)' = Go!BlockOf(k)
    <2>. DEFINE before == {i \in 1 .. k - 1 : /\ Go!Opens(i)
                                              /\ \A c \in i + 1 .. k - 1 : ~Go!Closes(c)}
                later == {i \in 1 .. k - 1 : /\ Go!Opens(i)'
                                             /\ \A c \in i + 1 .. k - 1 : ~Go!Closes(c)'}
    <2>1. \A i \in 1 .. k - 1 : i \in 1 .. n /\ \A c \in i + 1 .. k - 1 : c \in 1 .. n
      BY <1>1
    <2>2. before = later
      BY <1>2, <2>1
    <2>3. \A i \in later : modLines'[i] = modLines[i]
      BY <1>1, <2>1
    <2>4. Go!BlockOf(k)' = {modLines'[i].tokens[1] : i \in later}
      BY DEF Go!BlockOf
    <2>5. Go!BlockOf(k) = {modLines[i].tokens[1] : i \in before}
      BY DEF Go!BlockOf
    <2>. HIDE DEF before, later
    <2>. QED
      BY <2>2, <2>3, <2>4, <2>5
  <1>4. \A k \in 1 .. n : Go!Arguments(k)' = Go!Arguments(k)
    BY <1>1, <1>3 DEF Go!Arguments
  <1>. QED
    BY <1>1, <1>2, <1>3, <1>4

\* The block after a line: the one before it, unless the line closes it, or the
\* one it opens.
LEMMA BlockAfter ==
    ASSUME Go!TypeOK, NEW line \in ModLines, Go!ModLine(line), NEW n, n = Len(modLines)
    PROVE  Go!BlockOf(Len(modLines) + 1)'
           = (IF line.tokens = <<<<")">>>> THEN {} ELSE Go!BlockOf(n + 1))
             \cup (IF Len(line.tokens) = 2 /\ line.tokens[2] = <<"(">>
                   THEN {line.tokens[1]} ELSE {})
  <1>. DEFINE later == {i \in 1 .. n + 1 : /\ Go!Opens(i)'
                                           /\ \A c \in i + 1 .. n + 1 : ~Go!Closes(c)'}
              before == {i \in 1 .. n : /\ Go!Opens(i)
                                        /\ \A c \in i + 1 .. n : ~Go!Closes(c)}
              closing == line.tokens = <<<<")">>>>
              opening == Len(line.tokens) = 2 /\ line.tokens[2] = <<"(">>
  <1>1. /\ n \in Nat /\ Len(modLines') = n + 1 /\ modLines'[n + 1] = line
        /\ \A k \in 1 .. n : modLines'[k] = modLines[k]
        /\ \A k \in 1 .. n : /\ Go!Opens(k)' <=> Go!Opens(k)
                             /\ Go!Closes(k)' <=> Go!Closes(k)
    BY OneMoreLine
  <1>2. (Go!Opens(n + 1)' <=> opening) /\ (Go!Closes(n + 1)' <=> closing)
    BY <1>1 DEF Go!Opens, Go!Closes
  <1>3. closing => ~ opening
    OBVIOUS
  <1>4. Go!BlockOf(Len(modLines) + 1)' = {modLines'[i].tokens[1] : i \in later}
    <2>1. Go!BlockOf(Len(modLines) + 1)'
          = {modLines'[j].tokens[1] : j \in
                {i \in 1 .. Len(modLines') + 1 - 1 :
                    /\ Go!Opens(i)' /\ \A c \in i + 1 .. Len(modLines') + 1 - 1 : ~Go!Closes(c)'}}
      BY DEF Go!BlockOf
    <2>2. Len(modLines') + 1 - 1 = n + 1
      BY <1>1
    <2>. QED
      BY <2>1, <2>2
  <1>5. Go!BlockOf(n + 1) = {modLines[i].tokens[1] : i \in before}
    <2>1. Go!BlockOf(n + 1)
          = {modLines[j].tokens[1] : j \in
                {i \in 1 .. n + 1 - 1 :
                    /\ Go!Opens(i) /\ \A c \in i + 1 .. n + 1 - 1 : ~Go!Closes(c)}}
      BY DEF Go!BlockOf
    <2>2. n + 1 - 1 = n
      BY <1>1
    <2>. QED
      BY <2>1, <2>2
  <1>6. later = (IF closing THEN {} ELSE before) \cup (IF opening THEN {n + 1} ELSE {})
    <2>. HIDE DEF closing, opening
    <2>1. ASSUME NEW i \in 1 .. n
          PROVE  i \in later <=> i \in before /\ ~ closing
      <3>1. i + 1 .. n + 1 = (i + 1 .. n) \cup {n + 1} /\ i + 1 .. n \subseteq 1 .. n
        BY <1>1
      <3>. QED
        BY <1>1, <1>2, <3>1
    <2>2. n + 1 \in later <=> opening
      <3>1. n + 1 + 1 .. n + 1 = {}
        BY <1>1
      <3>. QED
        BY <1>1, <1>2, <3>1
    <2>3. before \subseteq 1 .. n /\ later \subseteq 1 .. n + 1
      OBVIOUS
    <2>4. 1 .. n + 1 = (1 .. n) \cup {n + 1} /\ n + 1 \notin 1 .. n
      BY <1>1
    <2>. HIDE DEF later, before
    <2>. QED
      BY <2>1, <2>2, <2>3, <2>4, Zenon
  <1>7. before \subseteq 1 .. n
    OBVIOUS
  <1>. HIDE DEF later, before, closing, opening
  <1>8. {modLines'[i].tokens[1] : i \in later}
        = (IF closing THEN {} ELSE {modLines[i].tokens[1] : i \in before})
          \cup (IF opening THEN {line.tokens[1]} ELSE {})
    <2>. DEFINE kept == IF closing THEN {} ELSE before
                new == IF opening THEN {n + 1} ELSE {}
    <2>1. {modLines'[i].tokens[1] : i \in kept \cup new}
          = {modLines'[i].tokens[1] : i \in kept} \cup {modLines'[i].tokens[1] : i \in new}
      <3>. HIDE DEF kept, new
      <3>. QED
        OBVIOUS
    <2>2. {modLines'[i].tokens[1] : i \in kept}
          = IF closing THEN {} ELSE {modLines[i].tokens[1] : i \in before}
      <3>1. \A i \in before : modLines'[i].tokens[1] = modLines[i].tokens[1]
        BY <1>1, <1>7
      <3>2. CASE closing
        BY <3>2
      <3>3. CASE ~ closing
        BY <3>1, <3>3
      <3>. QED
        BY <3>2, <3>3, Zenon
    <2>3. {modLines'[i].tokens[1] : i \in new} = IF opening THEN {line.tokens[1]} ELSE {}
      <3>1. CASE opening
        BY <1>1, <3>1
      <3>2. CASE ~ opening
        BY <3>2
      <3>. QED
        BY <3>1, <3>2, Zenon
    <2>4. later = kept \cup new
      BY <1>6
    <2>. HIDE DEF kept, new
    <2>. QED
      BY <2>1, <2>2, <2>3, <2>4
  <1>. QED
    BY <1>4, <1>5, <1>8, Zenon DEF closing, opening

\* The first argument, and the only one.
LEMMA FirstArgument ==
    ASSUME NEW args \in Seq(Seq(STRING) \ {Go!None}), Len(args) >= 1
    PROVE  /\ args[1] \in Seq(STRING) /\ args[1] # Go!None
           /\ Len(args) = 1 => args = <<args[1]>>
  BY FirstElement

\* What is said after a line: what was, and what the line says.
LEMMA SaysAfter ==
    ASSUME Go!TypeOK, NEW line \in ModLines, Go!ModLine(line), NEW n, n = Len(modLines),
           NEW verb
    PROVE  Go!Says(verb)'
           = Go!Says(verb)
             \cup (IF /\ ~(Len(line.tokens) = 2 /\ line.tokens[2] = <<"(">>)
                      /\ line.tokens # <<<<")">>>> /\ line.tokens # <<>>
                      /\ \/ Go!BlockOf(n + 1) = {verb}
                         \/ Go!BlockOf(n + 1) = {} /\ Head(line.tokens) = verb
                   THEN {n + 1} ELSE {})
  <1>1. /\ n \in Nat /\ DOMAIN modLines = 1 .. n /\ DOMAIN modLines' = 1 .. n + 1
        /\ modLines'[n + 1] = line /\ \A k \in 1 .. n : modLines'[k] = modLines[k]
        /\ \A k \in 1 .. n : /\ Go!Opens(k)' <=> Go!Opens(k)
                             /\ Go!Closes(k)' <=> Go!Closes(k)
        /\ \A k \in 1 .. n + 1 : Go!BlockOf(k)' = Go!BlockOf(k)
    BY OneMoreLine
  <1>. DEFINE said == /\ ~(Len(line.tokens) = 2 /\ line.tokens[2] = <<"(">>)
                      /\ line.tokens # <<<<")">>>> /\ line.tokens # <<>>
                      /\ \/ Go!BlockOf(n + 1) = {verb}
                         \/ Go!BlockOf(n + 1) = {} /\ Head(line.tokens) = verb
  <1>2. \A k \in 1 .. n : k \in Go!Says(verb)' <=> k \in Go!Says(verb)
    BY <1>1 DEF Go!Says
  <1>3. n + 1 \in Go!Says(verb)' <=> said
    <2>1. /\ Go!Opens(n + 1)' <=> Len(line.tokens) = 2 /\ line.tokens[2] = <<"(">>
          /\ Go!Closes(n + 1)' <=> line.tokens = <<<<")">>>>
      BY <1>1 DEF Go!Opens, Go!Closes
    <2>. QED
      BY <1>1, <2>1 DEF Go!Says
  <1>4. Go!Says(verb)' \subseteq 1 .. n + 1 /\ Go!Says(verb) \subseteq 1 .. n
    BY <1>1 DEF Go!Says
  <1>5. 1 .. n + 1 = (1 .. n) \cup {n + 1} /\ n + 1 \notin 1 .. n
    BY <1>1
  <1>. HIDE DEF said
  <1>6. Go!Says(verb)' = Go!Says(verb) \cup (IF said THEN {n + 1} ELSE {})
    BY <1>2, <1>3, <1>4, <1>5
  <1>. QED
    BY <1>6 DEF said

\* Go accepts no more than it did.
LEMMA AcceptedBefore ==
    ASSUME Go!TypeOK, NEW line \in ModLines, Go!ModLine(line), Go!GoAccepts',
           NEW n, n = Len(modLines)
    PROVE  /\ Go!GoAccepts
           /\ Len(line.tokens) = 2 /\ line.tokens[2] = <<"(">> => Go!BlockOf(n + 1) = {}
  <1>1. /\ n \in Nat /\ DOMAIN modLines = 1 .. n /\ DOMAIN modLines' = 1 .. n + 1
        /\ modLines'[n + 1] = line
        /\ \A k \in 1 .. n : Go!Opens(k)' <=> Go!Opens(k)
        /\ \A k \in 1 .. n + 1 : Go!BlockOf(k)' = Go!BlockOf(k)
    BY OneMoreLine
  <1>2. \A k \in 1 .. n + 1 : Go!Opens(k)' => Go!BlockOf(k)' = {}
    BY <1>1 DEF Go!GoAccepts
  <1>3. \A k \in 1 .. n : Go!Opens(k) => Go!BlockOf(k) = {}
    BY <1>1, <1>2
  <1>4. Go!Opens(n + 1)' <=> Len(line.tokens) = 2 /\ line.tokens[2] = <<"(">>
    BY <1>1 DEF Go!Opens
  <1>5. n + 1 \in 1 .. n + 1
    BY <1>1
  <1>. QED
    BY <1>1, <1>2, <1>3, <1>4, <1>5 DEF Go!GoAccepts

\* A line that says nothing new leaves what go.mod says as it was.
LEMMA NothingSaid ==
    ASSUME Go!TypeOK, Go!ModSoFar, modStatus # "unreadable",
           NEW line \in ModLines, Go!ModLine(line), UNCHANGED <<module, requires>>,
           Go!GoAccepts',
           NEW n, n = Len(modLines),
           \A verb \in {<<"module">>, <<"require">>} : Go!Says(verb)' = Go!Says(verb),
           Go!BlockOf(Len(modLines) + 1)' = (IF block' = Go!None THEN {} ELSE {block'})
    PROVE  Go!ModSoFar'
  <1>1. Go!GoAccepts
    BY AcceptedBefore
  <1>2. /\ DOMAIN modLines = 1 .. n
        /\ \A k \in 1 .. n : modLines'[k] = modLines[k] /\ Go!Arguments(k)' = Go!Arguments(k)
    BY OneMoreLine
  <1>3. /\ Go!Says(<<"module">>) \subseteq 1 .. n /\ Go!Says(<<"require">>) \subseteq 1 .. n
        /\ Go!Says(<<"module">>)' = Go!Says(<<"module">>)
        /\ Go!Says(<<"require">>)' = Go!Says(<<"require">>)
    BY <1>2 DEF Go!Says
  <1>4. /\ IF module = Go!None THEN Go!Says(<<"module">>) = {}
           ELSE \E k \in Go!Says(<<"module">>) :
                    Go!Says(<<"module">>) = {k} /\ Go!Arguments(k) = <<module>>
        /\ \A k \in Go!Says(<<"require">>) : Len(Go!Arguments(k)) = 2
        /\ {[path |-> Go!Arguments(k)[1], indirect |-> modLines[k].indirect] :
               k \in Go!Says(<<"require">>)} = Go!ToSet(requires)
    BY <1>1 DEF Go!ModSoFar
  <1>5. IF module' = Go!None THEN Go!Says(<<"module">>)' = {}
        ELSE \E k \in Go!Says(<<"module">>)' :
                 Go!Says(<<"module">>)' = {k} /\ Go!Arguments(k)' = <<module'>>
    BY <1>2, <1>3, <1>4
  <1>6. \A k \in Go!Says(<<"require">>)' : Len(Go!Arguments(k)') = 2
    BY <1>2, <1>3, <1>4
  <1>7. {[path |-> Go!Arguments(k)'[1], indirect |-> modLines'[k].indirect] :
            k \in Go!Says(<<"require">>)'} = Go!ToSet(requires)'
    <2>1. {[path |-> Go!Arguments(k)'[1], indirect |-> modLines'[k].indirect] :
              k \in Go!Says(<<"require">>)}
          = {[path |-> Go!Arguments(k)[1], indirect |-> modLines[k].indirect] :
                k \in Go!Says(<<"require">>)}
      BY <1>2, <1>3
    <2>2. Go!ToSet(requires)' = Go!ToSet(requires)
      BY DEF Go!ToSet
    <2>. QED
      BY <1>3, <1>4, <2>1, <2>2
  <1>. QED
    BY <1>5, <1>6, <1>7 DEF Go!ModSoFar

\* A blank line, and one that opens or closes a block, says nothing, and the
\* block that is open is the one the lines leave open.
LEMMA MarkKeeps ==
    ASSUME Go!IInv, NEW line \in ModLines,
           Go!Blank(line) \/ Go!OpenBlock(line) \/ Go!CloseBlock(line)
    PROVE  Go!ModSoFar'
  <1>. SUFFICES ASSUME modStatus' # "unreadable", Go!GoAccepts', NEW n, n = Len(modLines)
                PROVE  Go!ModSoFar'
    BY Zenon DEF Go!ModSoFar
  <1>1. /\ Go!TypeOK /\ Go!ModSoFar /\ Go!ModLine(line) /\ UNCHANGED <<module, requires>>
        /\ modStatus # "unreadable"
    BY DEF Go!IInv, Go!Blank, Go!OpenBlock, Go!CloseBlock, Go!ModLine
  <1>2. Go!GoAccepts
    BY <1>1, AcceptedBefore
  <1>3. Go!BlockOf(n + 1) = (IF block = Go!None THEN {} ELSE {block})
    BY <1>1, <1>2 DEF Go!ModSoFar
  <1>4. Go!BlockOf(Len(modLines) + 1)'
        = (IF line.tokens = <<<<")">>>> THEN {} ELSE Go!BlockOf(n + 1))
          \cup (IF Len(line.tokens) = 2 /\ line.tokens[2] = <<"(">>
                THEN {line.tokens[1]} ELSE {})
    BY <1>1, BlockAfter
  <1>5. ASSUME \/ line.tokens = <<>> \/ line.tokens = <<<<")">>>>
               \/ Len(line.tokens) = 2 /\ line.tokens[2] = <<"(">>
        PROVE  \A verb : Go!Says(verb)' = Go!Says(verb)
    <2>1. ASSUME NEW verb
          PROVE  Go!Says(verb)' = Go!Says(verb)
      <3>. DEFINE said == /\ ~(Len(line.tokens) = 2 /\ line.tokens[2] = <<"(">>)
                          /\ line.tokens # <<<<")">>>> /\ line.tokens # <<>>
                          /\ \/ Go!BlockOf(n + 1) = {verb}
                             \/ Go!BlockOf(n + 1) = {} /\ Head(line.tokens) = verb
      <3>1. Go!Says(verb)' = Go!Says(verb) \cup (IF said THEN {n + 1} ELSE {})
        BY <1>1, SaysAfter
      <3>2. ~ said
        BY <1>5
      <3>. HIDE DEF said
      <3>. QED
        BY <3>1, <3>2
    <2>. QED
      BY <2>1
  <1>6. CASE Go!Blank(line)
    <2>1. line.tokens = <<>> /\ block' = block
      BY <1>6 DEF Go!Blank
    <2>2. Len(line.tokens) # 2 /\ line.tokens # <<<<")">>>>
      BY <2>1
    <2>3. Go!BlockOf(Len(modLines) + 1)' = (IF block' = Go!None THEN {} ELSE {block'})
      BY <1>3, <1>4, <2>1, <2>2, Zenon
    <2>. QED
      BY <1>1, <1>5, <2>1, <2>3, NothingSaid, Zenon
  <1>7. CASE Go!OpenBlock(line)
    <2>1. /\ block = Go!None /\ Len(line.tokens) = 2 /\ line.tokens[2] = <<"(">>
          /\ block' = line.tokens[1]
      BY <1>7 DEF Go!OpenBlock, Go!IsOpener
    <2>2. line.tokens # <<<<")">>>> /\ line.tokens # <<>>
      BY <2>1
    <2>3. block' # Go!None
      BY <2>1, <2>2, LineTokens
    <2>4. Go!BlockOf(Len(modLines) + 1)' = (IF block' = Go!None THEN {} ELSE {block'})
      BY <1>3, <1>4, <2>1, <2>2, <2>3
    <2>. QED
      BY <1>1, <1>5, <2>1, <2>4, NothingSaid, Zenon
  <1>8. CASE Go!CloseBlock(line)
    <2>1. /\ line.tokens # <<>> /\ Head(line.tokens) = <<")">> /\ Len(line.tokens) = 1
          /\ block' = Go!None
      BY <1>8 DEF Go!CloseBlock, Go!IsCloser
    <2>2. line.tokens = <<<<")">>>>
      <3>1. line.tokens \in Seq(Seq(STRING) \ {Go!None}) /\ line.tokens[1] = <<")">>
        BY <2>1, LineTokens
      <3>. QED
        BY <2>1, <3>1
    <2>3. Go!BlockOf(Len(modLines) + 1)' = {}
      BY <1>4, <2>1, <2>2
    <2>. QED
      BY <1>1, <1>5, <2>1, <2>2, <2>3, NothingSaid
  <1>. QED
    BY <1>6, <1>7, <1>8

\* A directive that is read is one the line says, with its arguments: alone,
\* or of the block it stands in.
LEMMA DirectiveKeeps ==
    ASSUME Go!IInv, NEW line \in ModLines, Go!DirectiveLine(line)
    PROVE  Go!ModSoFar'
  <1>. SUFFICES ASSUME modStatus' # "unreadable", Go!GoAccepts', NEW n, n = Len(modLines)
                PROVE  Go!ModSoFar'
    BY Zenon DEF Go!ModSoFar
  <1>. DEFINE verb == IF block = Go!None THEN Head(line.tokens) ELSE block
              args == IF block = Go!None THEN Tail(line.tokens) ELSE line.tokens
              opening == Len(line.tokens) = 2 /\ line.tokens[2] = <<"(">>
              closing == line.tokens = <<<<")">>>>
  <1>1. /\ Go!TypeOK /\ Go!ModSoFar /\ Go!ModLine(line)
        /\ modStatus # "unreadable" /\ line.tokens # <<>> /\ block' = block
        /\ ~ Go!IsOpener(line) /\ ~ Go!IsCloser(line)
        /\ Go!Fits(verb, args) /\ Go!Directive(verb, args, line.indirect)
    BY DEF Go!IInv, Go!DirectiveLine, Go!ModLine
  <1>2. /\ Go!GoAccepts
        /\ opening => Go!BlockOf(n + 1) = {}
    BY <1>1, AcceptedBefore
  <1>3. Go!BlockOf(n + 1) = (IF block = Go!None THEN {} ELSE {block})
    BY <1>1, <1>2 DEF Go!ModSoFar
  <1>4. ~ opening
    BY <1>1, <1>2, <1>3 DEF Go!IsOpener
  <1>5. Go!BlockOf(Len(modLines) + 1)' = (IF closing THEN {} ELSE Go!BlockOf(n + 1))
    BY <1>1, <1>4, BlockAfter, Zenon
  <1>6. closing => block = Go!None /\ Head(line.tokens) = <<")">>
    BY <1>1 DEF Go!IsCloser
  <1>7. Go!BlockOf(Len(modLines) + 1)' = (IF block' = Go!None THEN {} ELSE {block'})
    BY <1>1, <1>3, <1>5, <1>6
  <1>8. ASSUME NEW v
        PROVE  Go!Says(v)' = Go!Says(v) \cup (IF ~ closing /\ verb = v THEN {n + 1} ELSE {})
    <2>1. Go!Says(v)' = Go!Says(v)
             \cup (IF /\ ~ opening /\ ~ closing /\ line.tokens # <<>>
                      /\ \/ Go!BlockOf(n + 1) = {v}
                         \/ Go!BlockOf(n + 1) = {} /\ Head(line.tokens) = v
                   THEN {n + 1} ELSE {})
      BY <1>1, SaysAfter
    <2>2. (\/ Go!BlockOf(n + 1) = {v}
           \/ Go!BlockOf(n + 1) = {} /\ Head(line.tokens) = v) <=> verb = v
      BY <1>3
    <2>. HIDE DEF opening, closing, verb
    <2>. QED
      BY <1>1, <1>4, <2>1, <2>2
  <1>9. CASE closing
    <2>1. verb = <<")">>
      BY <1>6, <1>9
    <2>2. UNCHANGED <<module, requires>>
      BY <1>1, <2>1 DEF Go!Directive
    <2>3. \A v : Go!Says(v)' = Go!Says(v)
      BY <1>8, <1>9
    <2>. QED
      BY <1>1, <1>7, <2>2, <2>3, NothingSaid, Zenon
  <1>10. CASE ~ closing
    <2>1. /\ n \in Nat /\ DOMAIN modLines = 1 .. n
          /\ modLines'[n + 1] = line
          /\ Go!BlockOf(n + 1)' = Go!BlockOf(n + 1)
          /\ \A k \in 1 .. n : /\ modLines'[k] = modLines[k]
                               /\ Go!Arguments(k)' = Go!Arguments(k)
      <3>1. \A k \in 1 .. n + 1 : Go!BlockOf(k)' = Go!BlockOf(k)
        BY <1>1, OneMoreLine, Zenon
      <3>2. n \in Nat
        BY <1>1, OneMoreLine
      <3>. QED
        BY <1>1, <3>1, <3>2, OneMoreLine
    <2>2. Go!Arguments(n + 1)' = args
      BY <1>3, <2>1 DEF Go!Arguments
    <2>3. args \in Seq(Seq(STRING) \ {Go!None})
      BY <1>1, LineTokens
    <2>4. /\ Go!Says(<<"module">>) \subseteq 1 .. n /\ Go!Says(<<"require">>) \subseteq 1 .. n
      BY <2>1 DEF Go!Says
    <2>5. /\ IF module = Go!None THEN Go!Says(<<"module">>) = {}
             ELSE \E k \in Go!Says(<<"module">>) :
                      Go!Says(<<"module">>) = {k} /\ Go!Arguments(k) = <<module>>
          /\ \A k \in Go!Says(<<"require">>) : Len(Go!Arguments(k)) = 2
          /\ {[path |-> Go!Arguments(k)[1], indirect |-> modLines[k].indirect] :
                 k \in Go!Says(<<"require">>)} = Go!ToSet(requires)
      BY <1>1, <1>2 DEF Go!ModSoFar
    <2>. DEFINE new == [path |-> args[1], indirect |-> line.indirect]
    <2>6. IF module' = Go!None THEN Go!Says(<<"module">>)' = {}
          ELSE \E k \in Go!Says(<<"module">>)' :
                   Go!Says(<<"module">>)' = {k} /\ Go!Arguments(k)' = <<module'>>
      <3>1. CASE verb = <<"module">>
        <4>1. Len(args) = 1 /\ module = Go!None /\ module' = args[1]
          BY <1>1, <3>1, Zenon DEF Go!Fits, Go!Directive
        <4>2. args = <<args[1]>> /\ args[1] # Go!None
          <5>. HIDE DEF args
          <5>. QED
            BY <2>3, <4>1, FirstArgument
        <4>3. Go!Says(<<"module">>)' = {n + 1}
          <5>1. Go!Says(<<"module">>) = {}
            BY <2>5, <4>1
          <5>. QED
            BY <1>8, <1>10, <3>1, <5>1
        <4>. HIDE DEF args
        <4>. QED
          BY <2>2, <4>1, <4>2, <4>3
      <3>2. CASE verb # <<"module">>
        <4>1. module' = module
          BY <1>1, <3>2 DEF Go!Directive
        <4>2. Go!Says(<<"module">>)' = Go!Says(<<"module">>)
          BY <1>8, <3>2, Zenon
        <4>. QED
          BY <2>1, <2>4, <2>5, <4>1, <4>2
      <3>. QED
        BY <3>1, <3>2
    <2>7. CASE verb = <<"require">>
      <3>1. Go!Says(<<"require">>)' = Go!Says(<<"require">>) \cup {n + 1}
        BY <1>8, <1>10, <2>7
      <3>2. Len(args) = 2 /\ requires' = Append(requires, new)
        BY <1>1, <2>7, Zenon DEF Go!Fits, Go!Directive
      <3>3. \A k \in Go!Says(<<"require">>)' : Len(Go!Arguments(k)') = 2
        <4>. HIDE DEF args
        <4>. QED
          BY <2>1, <2>2, <2>4, <2>5, <3>1, <3>2
      <3>4. Go!ToSet(requires)' = Go!ToSet(requires) \cup {new}
        <4>1. requires \in Seq([path : Seq(STRING), indirect : BOOLEAN])
          BY <1>1 DEF Go!TypeOK
        <4>2. new \in [path : Seq(STRING), indirect : BOOLEAN]
          <5>1. line.indirect \in BOOLEAN
            BY <1>1, LineTokens
          <5>2. args[1] \in Seq(STRING)
            <6>. HIDE DEF args, new
            <6>1. Len(args) >= 1
              BY <3>2
            <6>. QED
              BY <2>3, <6>1, FirstArgument
          <5>. QED
            BY <5>1, <5>2, Zenon
        <4>3. Go!ToSet(requires)' = Go!ToSet(requires')
          BY DEF Go!ToSet
        <4>4. Go!ToSet(Append(requires, new)) = Go!ToSet(requires) \cup {new}
          <5>1. ASSUME NEW S, requires \in Seq(S), new \in S
                PROVE  Go!ToSet(Append(requires, new)) = Go!ToSet(requires) \cup {new}
            <6>. HIDE DEF new
            <6>. QED
              BY <5>1, OneMoreElement
          <5>. QED
            BY <4>1, <4>2, <5>1, Zenon
        <4>. HIDE DEF new
        <4>. QED
          BY <3>2, <4>3, <4>4
      <3>5. {[path |-> Go!Arguments(k)'[1], indirect |-> modLines'[k].indirect] :
                k \in Go!Says(<<"require">>)'} = Go!ToSet(requires)'
        <4>1. {[path |-> Go!Arguments(k)'[1], indirect |-> modLines'[k].indirect] :
                  k \in Go!Says(<<"require">>) \cup {n + 1}}
              = {[path |-> Go!Arguments(k)'[1], indirect |-> modLines'[k].indirect] :
                    k \in Go!Says(<<"require">>)}
                \cup {[path |-> Go!Arguments(n + 1)'[1], indirect |-> modLines'[n + 1].indirect]}
          OBVIOUS
        <4>2. {[path |-> Go!Arguments(k)'[1], indirect |-> modLines'[k].indirect] :
                  k \in Go!Says(<<"require">>)}
              = {[path |-> Go!Arguments(k)[1], indirect |-> modLines[k].indirect] :
                    k \in Go!Says(<<"require">>)}
          BY <2>1, <2>4
        <4>3. [path |-> Go!Arguments(n + 1)'[1], indirect |-> modLines'[n + 1].indirect] = new
          BY <2>1, <2>2, Zenon
        <4>. HIDE DEF new
        <4>. QED
          BY <2>5, <3>1, <3>4, <4>1, <4>2, <4>3
      <3>. QED
        BY <1>7, <2>6, <3>3, <3>5 DEF Go!ModSoFar
    <2>8. CASE verb # <<"require">>
      <3>1. requires' = requires /\ Go!Says(<<"require">>)' = Go!Says(<<"require">>)
        BY <1>1, <1>8, <2>8, Zenon DEF Go!Directive
      <3>2. \A k \in Go!Says(<<"require">>)' : Len(Go!Arguments(k)') = 2
        BY <2>1, <2>4, <2>5, <3>1
      <3>3. {[path |-> Go!Arguments(k)'[1], indirect |-> modLines'[k].indirect] :
                k \in Go!Says(<<"require">>)'} = Go!ToSet(requires)'
        <4>1. {[path |-> Go!Arguments(k)'[1], indirect |-> modLines'[k].indirect] :
                  k \in Go!Says(<<"require">>)}
              = {[path |-> Go!Arguments(k)[1], indirect |-> modLines[k].indirect] :
                    k \in Go!Says(<<"require">>)}
          BY <2>1, <2>4
        <4>2. Go!ToSet(requires)' = Go!ToSet(requires)
          BY <3>1 DEF Go!ToSet
        <4>. QED
          BY <2>5, <3>1, <4>1, <4>2
      <3>. QED
        BY <1>7, <2>6, <3>2, <3>3 DEF Go!ModSoFar
    <2>. QED
      BY <2>7, <2>8
  <1>. QED
    BY <1>9, <1>10

\* A step that reads no line leaves what go.mod says as it was.
LEMMA ModStays ==
    ASSUME Go!ModSoFar, modStatus # "unreadable", UNCHANGED <<modLines, block, module, requires>>
    PROVE  Go!ModSoFar'
  <1>1. \A k : /\ Go!Opens(k)' <=> Go!Opens(k)
               /\ Go!Closes(k)' <=> Go!Closes(k)
    BY DEF Go!Opens, Go!Closes
  <1>2. \A k : Go!BlockOf(k)' = Go!BlockOf(k)
    BY <1>1 DEF Go!BlockOf
  <1>3. \A k : Go!Arguments(k)' = Go!Arguments(k)
    BY <1>2 DEF Go!Arguments
  <1>4. \A verb : Go!Says(verb)' = Go!Says(verb)
    BY <1>1, <1>2 DEF Go!Says
  <1>5. Go!GoAccepts' <=> Go!GoAccepts
    BY <1>1, <1>2 DEF Go!GoAccepts
  <1>6. Go!BlockOf(Len(modLines) + 1)' = Go!BlockOf(Len(modLines) + 1)
    BY <1>1 DEF Go!BlockOf
  <1>7. Go!ToSet(requires)' = Go!ToSet(requires)
    BY DEF Go!ToSet
  <1>8. {[path |-> Go!Arguments(k)'[1], indirect |-> modLines'[k].indirect] :
            k \in Go!Says(<<"require">>)'}
        = {[path |-> Go!Arguments(k)[1], indirect |-> modLines[k].indirect] :
              k \in Go!Says(<<"require">>)}
    BY <1>3, <1>4
  <1>. QED
    BY <1>3, <1>4, <1>5, <1>6, <1>7, <1>8 DEF Go!ModSoFar

\* A step that reads no file leaves what was seen as it was; while go.mod is
\* read there is none.
LEMMA SeenStays ==
    ASSUME Go!TypeOK, Go!SeenSoFar, modStatus # "unreadable",
           UNCHANGED <<files, runtime, tests, external>>,
           modStatus = "go.mod" \/ UNCHANGED <<module, requires>>
    PROVE  Go!SeenSoFar'
  <1>1. CASE modStatus = "go.mod"
    <2>1. files' = <<>>
      BY <1>1 DEF Go!TypeOK
    <2>. QED
      BY <2>1 DEF Go!SeenSoFar
  <1>2. CASE UNCHANGED <<module, requires>>
    <2>1. \A f : Go!Imports(f)' = Go!Imports(f)
      BY <1>2 DEF Go!Imports
    <2>2. \A path : Go!Provider(path)' = Go!Provider(path)
      BY <1>2 DEF Go!Provider
    <2>3. \A f : /\ Go!Walked(f)' <=> Go!Walked(f)
                 /\ Go!OrgIds(f)' = Go!OrgIds(f)
                 /\ Go!Externals(f)' = Go!Externals(f)
      BY <2>1, <2>2 DEF Go!Walked, Go!OrgIds, Go!Externals
    <2>. QED
      BY <2>1, <2>3 DEF Go!SeenSoFar
  <1>. QED
    BY <1>1, <1>2

\* It begins with nothing read.
LEMMA GoBegins ==
    ASSUME Go!Init
    PROVE  Go!IInv
  <1>1. Go!TypeOK
    <2>1. <<>> \in Seq(ModLines) /\ <<>> \in Seq(Files) /\ <<>> \in Seq(STRING)
          /\ <<>> \in Seq([path : Seq(STRING), indirect : BOOLEAN])
      OBVIOUS
    <2>. QED
      BY <2>1 DEF Go!Init, Go!TypeOK, Go!None
  <1>2. Go!ModSoFar
    <2>1. modLines = <<>> /\ block = Go!None /\ module = Go!None /\ requires = <<>>
      BY DEF Go!Init
    <2>2. DOMAIN modLines = {} /\ Len(modLines) + 1 = 1
      BY <2>1
    <2>3. \A verb : Go!Says(verb) = {}
      BY <2>2 DEF Go!Says
    <2>4. Go!BlockOf(Len(modLines) + 1) = {}
      BY <2>2 DEF Go!BlockOf
    <2>5. Go!ToSet(requires) = {}
      BY <2>1 DEF Go!ToSet
    <2>6. {[path |-> Go!Arguments(k)[1], indirect |-> modLines[k].indirect] :
              k \in Go!Says(<<"require">>)} = {}
      BY <2>3
    <2>. QED
      BY <2>1, <2>3, <2>4, <2>5, <2>6 DEF Go!ModSoFar
  <1>3. Go!SeenSoFar
    BY DEF Go!Init, Go!SeenSoFar
  <1>. QED
    BY <1>1, <1>2, <1>3 DEF Go!IInv

\* Every step of every reader keeps it.
LEMMA GoKeeps ==
    ASSUME Go!IInv, [ReadersNext]_readerVars
    PROVE  Go!IInv'
  <1>1. Go!TypeOK /\ Go!ModSoFar /\ Go!SeenSoFar
    BY DEF Go!IInv
  <1>2. ASSUME NEW line \in ModLines,
               \/ Go!Blank(line) \/ Go!OpenBlock(line)
               \/ Go!CloseBlock(line) \/ Go!DirectiveLine(line)
        PROVE  Go!IInv'
    <2>1. /\ UNCHANGED <<files, runtime, tests, external>>
          /\ modStatus = "go.mod"
      BY <1>2 DEF Go!Blank, Go!OpenBlock, Go!CloseBlock, Go!DirectiveLine, Go!ModLine, Go!fileVars
    <2>2. Go!SeenSoFar'
      BY <1>1, <2>1, SeenStays
    <2>3. Go!TypeOK'
      BY <1>2, ModTyped
    <2>4. Go!ModSoFar'
      BY <1>2, MarkKeeps, DirectiveKeeps
    <2>. QED
      BY <2>2, <2>3, <2>4 DEF Go!IInv
  <1>3. CASE Go!EndOfMod \/ Go!EndOfFiles
    <2>1. /\ UNCHANGED <<modLines, block, module, requires, files, runtime, tests, external>>
          /\ modStatus # "unreadable"
      BY <1>3 DEF Go!EndOfMod, Go!EndOfFiles, Go!modVars, Go!fileVars
    <2>2. Go!TypeOK'
      BY <1>3, ModTyped
    <2>. QED
      BY <1>1, <2>1, <2>2, ModStays, SeenStays DEF Go!IInv
  <1>4. ASSUME NEW file \in Files, Go!ReadFile(file)
        PROVE  Go!IInv'
    <2>1. /\ UNCHANGED <<modLines, block, module, requires>>
          /\ modStatus # "unreadable"
      BY <1>4 DEF Go!ReadFile, Go!modVars
    <2>. QED
      BY <1>1, <1>4, <2>1, ModStays, FileKeepsSeen, FileTyped DEF Go!IInv
  <1>5. CASE UNCHANGED goVars
    <2>1. CASE modStatus = "unreadable"
      <3>1. modStatus' = "unreadable"
        BY <1>5, <2>1 DEF goVars
      <3>2. Go!TypeOK'
        BY <1>1, <1>5 DEF goVars, Go!TypeOK, Go!InOrg
      <3>. QED
        BY <3>1, <3>2 DEF Go!IInv, Go!ModSoFar, Go!SeenSoFar
    <2>2. CASE modStatus # "unreadable"
      <3>1. UNCHANGED <<modLines, block, module, requires, files, runtime, tests, external>>
        BY <1>5 DEF goVars
      <3>2. Go!TypeOK'
        BY <1>1, <1>5 DEF goVars, Go!TypeOK, Go!InOrg
      <3>. QED
        BY <1>1, <2>2, <3>1, <3>2, ModStays, SeenStays DEF Go!IInv
    <2>. QED
      BY <2>1, <2>2
  <1>6. Go!Next \/ UNCHANGED goVars
    BY DEF ReadersNext, ReadsToml, ReadsCargo, ReadsNpm, ReadsHeader, ReadsImports, ReadsGo,
       readerVars
  <1>. QED
    BY <1>2, <1>3, <1>4, <1>5, <1>6 DEF Go!Next

\* What was read of a whole go.mod is what stands in it.
LEMMA ModFits ==
    ASSUME Go!IInv
    PROVE  Go!ModAsWritten
  <1>. SUFFICES ASSUME modStatus \in {"files", "read"}, Go!GoAccepts
                PROVE  Go!ModAsWritten
    BY DEF Go!ModAsWritten
  <1>1. block = Go!None /\ module # Go!None /\ modStatus # "unreadable"
    BY DEF Go!IInv, Go!TypeOK
  <1>2. Go!ModSoFar
    BY DEF Go!IInv
  <1>3. /\ Go!BlockOf(Len(modLines) + 1) = {}
        /\ \E k \in Go!Says(<<"module">>) :
              Go!Says(<<"module">>) = {k} /\ Go!Arguments(k) = <<module>>
        /\ \A k \in Go!Says(<<"require">>) : Len(Go!Arguments(k)) = 2
        /\ {[path |-> Go!Arguments(k)[1], indirect |-> modLines[k].indirect] :
               k \in Go!Says(<<"require">>)} = Go!ToSet(requires)
    BY <1>1, <1>2 DEF Go!ModSoFar
  <1>. QED
    BY <1>3 DEF Go!ModAsWritten

\* Whatever lines a go.mod has, if it is read and Go accepts it: it has one
\* module directive, every block is closed, and the requires are those of its
\* require directives, alone or in blocks, and nobody else's.
THEOREM ModRead == ReadersSpec => []ModAsWritten
  <1>1. ReadersInit => Go!IInv
    BY GoBegins DEF ReadersInit
  <1>2. Go!IInv /\ [ReadersNext]_readerVars => Go!IInv'
    BY GoKeeps
  <1>3. Go!IInv => ModAsWritten
    BY ModFits DEF ModAsWritten
  <1>. QED
    BY <1>1, <1>2, <1>3, PTL DEF ReadersSpec

\* Whatever files the walk finds, and whatever they import, under whatever
\* requires: nothing the port is built from goes unseen.
THEOREM GoSeesAll == ReadersSpec => []NothingUnseen
  <1>1. ReadersInit => Go!IInv
    BY GoBegins DEF ReadersInit
  <1>2. Go!IInv /\ [ReadersNext]_readerVars => Go!IInv'
    BY GoKeeps
  <1>3. Go!IInv => NothingUnseen
    BY GoSees DEF NothingUnseen
  <1>. QED
    BY <1>1, <1>2, <1>3, PTL DEF ReadersSpec

-----------------------------------------------------------------------------
(* TomlTables.                                                             *)

\* The paths of the tree.
Path == Seq(Names)

\* A path with one more key.
LEMMA OneMoreKey ==
    ASSUME NEW q \in Path, NEW x \in Names, NEW r, r = Append(q, x)
    PROVE  /\ r \in Path /\ r # <<>> /\ Len(r) = Len(q) + 1
           /\ Front(r) = q /\ Last(r) = x
           /\ \A i \in 1 .. Len(q) : r[i] = q[i]
  <1>1. /\ r \in Path /\ r # <<>> /\ Len(r) = Len(q) + 1 /\ r[Len(q) + 1] = x
        /\ \A i \in 1 .. Len(q) : r[i] = q[i]
    BY AppendProperties DEF Path
  <1>2. Len(q) \in Nat /\ Last(r) = x
    BY <1>1 DEF Path, Last
  <1>3. SubSeq(r, 1, Len(q)) = q
    <2>1. SubSeq(r, 1, Len(q)) \in Path /\ Len(SubSeq(r, 1, Len(q))) = Len(q)
      BY <1>1, <1>2 DEF Path
    <2>2. \A i \in 1 .. Len(q) : SubSeq(r, 1, Len(q))[i] = r[i]
      BY <1>1, <1>2 DEF Path
    <2>. QED
      BY <1>1, <2>1, <2>2, SeqEqual DEF Path
  <1>4. Front(r) = q
    <2>1. Len(r) - 1 = Len(q)
      BY <1>1, <1>2
    <2>. QED
      BY <1>3, <2>1 DEF Front
  <1>. QED
    BY <1>1, <1>2, <1>4

\* The same, of the path as it is written.
LEMMA AppendIs ==
    ASSUME NEW q \in Path, NEW x \in Names
    PROVE  /\ Append(q, x) \in Path /\ Append(q, x) # <<>> /\ Len(Append(q, x)) = Len(q) + 1
           /\ Front(Append(q, x)) = q /\ Last(Append(q, x)) = x
           /\ \A i \in 1 .. Len(q) : Append(q, x)[i] = q[i]
  BY OneMoreKey, Zenon

\* A path is the last key after those before it.
LEMMA KeysOfPath ==
    ASSUME NEW p \in Path, p # <<>>
    PROVE  /\ Front(p) \in Path /\ Last(p) \in Names
           /\ p = Append(Front(p), Last(p)) /\ Len(Front(p)) = Len(p) - 1
           /\ \A i \in 1 .. Len(p) - 1 : Front(p)[i] = p[i]
  <1>1. PICK q \in Path, x \in Names : p = Append(q, x)
    BY SequenceEmptyOrAppend DEF Path
  <1>2. /\ Front(p) = q /\ Last(p) = x /\ Len(p) = Len(q) + 1
        /\ \A i \in 1 .. Len(q) : p[i] = q[i]
    BY <1>1, OneMoreKey, Zenon
  <1>3. Len(q) \in Nat
    BY DEF Path
  <1>4. p = Append(Front(p), Last(p))
    BY <1>1, <1>2, Zenon
  <1>5. Len(Front(p)) = Len(p) - 1 /\ Len(p) - 1 = Len(q)
    BY <1>2, <1>3
  <1>6. \A i \in 1 .. Len(p) - 1 : Front(p)[i] = p[i]
    BY <1>2, <1>5
  <1>7. Front(p) \in Path /\ Last(p) \in Names
    BY <1>2, Zenon
  <1>. QED
    BY <1>4, <1>5, <1>6, <1>7

\* A path is a prefix of another when it has its first keys.
LEMMA PrefixIs ==
    ASSUME NEW p \in Path, NEW q \in Path
    PROVE  IsPrefix(p, q) <=> /\ Len(p) <= Len(q)
                              /\ \A i \in 1 .. Len(p) : p[i] = q[i]
  <1>1. ASSUME Len(p) <= Len(q), SubSeq(p, 1, Len(p)) = SubSeq(q, 1, Len(p)),
               NEW i \in 1 .. Len(p)
        PROVE  p[i] = q[i]
    <2>1. SubSeq(p, 1, Len(p))[i] = p[i] /\ SubSeq(q, 1, Len(p))[i] = q[i]
      BY <1>1 DEF Path
    <2>. QED
      BY <1>1, <2>1
  <1>2. ASSUME Len(p) <= Len(q), \A i \in 1 .. Len(p) : p[i] = q[i]
        PROVE  SubSeq(p, 1, Len(p)) = SubSeq(q, 1, Len(p))
    BY <1>2 DEF Path
  <1>. QED
    BY <1>1, <1>2 DEF IsPrefix

\* Paths as long as each other with the same keys are the same.
LEMMA SamePath ==
    ASSUME NEW p \in Path, NEW q \in Path, Len(p) = Len(q),
           \A i \in 1 .. Len(p) : p[i] = q[i]
    PROVE  p = q
  BY DEF Path

\* A path has a length, and only the root has none.
LEMMA LongAsNat ==
    ASSUME NEW p \in Path
    PROVE  Len(p) \in Nat /\ (p = <<>> <=> Len(p) = 0)
  BY DEF Path

\* Prefixes are ordered, and those of one path are one below the other.
LEMMA PrefixOrder ==
    ASSUME NEW p \in Path, NEW q \in Path, NEW r \in Path
    PROVE  /\ IsPrefix(p, p) /\ IsPrefix(<<>>, p)
           /\ IsPrefix(p, q) /\ IsPrefix(q, r) => IsPrefix(p, r)
           /\ IsPrefix(p, r) /\ IsPrefix(q, r) => IsPrefix(p, q) \/ IsPrefix(q, p)
           /\ IsPrefix(p, q) /\ Len(q) <= Len(p) => p = q
           /\ IsPrefix(p, q) /\ IsPrefix(q, p) => p = q
           /\ IsStrictPrefix(p, q) <=> IsPrefix(p, q) /\ Len(p) < Len(q)
           /\ IsPrefix(p, q) => Len(p) <= Len(q)
  <1>1. /\ Len(p) \in Nat /\ Len(q) \in Nat /\ Len(r) \in Nat
        /\ <<>> \in Path /\ Len(<<>>) = 0
    BY DEF Path
  <1>2. /\ IsPrefix(p, p) /\ IsPrefix(<<>>, p)
        /\ IsPrefix(p, q) => Len(p) <= Len(q)
    BY <1>1, PrefixIs
  <1>3. IsPrefix(p, q) /\ IsPrefix(q, r) => IsPrefix(p, r)
    BY <1>1, PrefixIs
  <1>4. IsPrefix(p, r) /\ IsPrefix(q, r) => IsPrefix(p, q) \/ IsPrefix(q, p)
    BY <1>1, PrefixIs
  <1>5. IsPrefix(p, q) /\ Len(q) <= Len(p) => p = q
    <2>1. IsPrefix(p, q) /\ Len(q) <= Len(p) =>
             Len(p) = Len(q) /\ \A i \in 1 .. Len(p) : p[i] = q[i]
      BY <1>1, PrefixIs
    <2>. QED
      BY <2>1, SamePath
  <1>6. IsPrefix(p, q) /\ IsPrefix(q, p) => p = q
    BY <1>1, <1>5, PrefixIs
  <1>7. IsStrictPrefix(p, q) <=> IsPrefix(p, q) /\ Len(p) < Len(q)
    BY <1>1, <1>2, <1>5 DEF IsStrictPrefix
  <1>. QED
    BY <1>2, <1>3, <1>4, <1>5, <1>6, <1>7

\* The prefixes of a path with one more key.
LEMMA PrefixOfOneMore ==
    ASSUME NEW p \in Path, NEW q \in Path, NEW r \in Path, Len(r) = Len(q) + 1,
           \A i \in 1 .. Len(q) : r[i] = q[i]
    PROVE  /\ IsPrefix(p, r) <=> IsPrefix(p, q) \/ p = r
           /\ IsStrictPrefix(p, r) <=> IsPrefix(p, q)
  <1>1. Len(p) \in Nat /\ Len(q) \in Nat
    BY LongAsNat
  <1>2. /\ IsPrefix(p, r) <=> Len(p) <= Len(r) /\ \A i \in 1 .. Len(p) : p[i] = r[i]
        /\ IsPrefix(p, q) <=> Len(p) <= Len(q) /\ \A i \in 1 .. Len(p) : p[i] = q[i]
    BY PrefixIs
  <1>3. Len(p) <= Len(q) => \A i \in 1 .. Len(p) : i \in 1 .. Len(q)
    BY <1>1
  <1>4. Len(p) <= Len(q) => (IsPrefix(p, r) <=> IsPrefix(p, q))
    BY <1>1, <1>2, <1>3
  <1>5. IsPrefix(p, r) /\ ~ (Len(p) <= Len(q)) => p = r
    BY <1>1, <1>2, PrefixOrder
  <1>6. IsPrefix(r, r)
    BY PrefixOrder
  <1>7. IsPrefix(p, r) <=> IsPrefix(p, q) \/ p = r
    BY <1>1, <1>2, <1>4, <1>5, <1>6
  <1>8. IsStrictPrefix(p, r) <=> IsPrefix(p, r) /\ Len(p) < Len(r)
    BY PrefixOrder
  <1>. QED
    BY <1>1, <1>2, <1>4, <1>7, <1>8

\* A path is above a longer one when it is above all but its last key.
LEMMA PrefixOfLonger ==
    ASSUME NEW p \in Path, NEW q \in Path, NEW x \in Names
    PROVE  /\ IsPrefix(p, Append(q, x)) <=> IsPrefix(p, q) \/ p = Append(q, x)
           /\ IsStrictPrefix(p, Append(q, x)) <=> IsPrefix(p, q)
  <1>1. /\ Append(q, x) \in Path /\ Len(Append(q, x)) = Len(q) + 1
        /\ \A i \in 1 .. Len(q) : Append(q, x)[i] = q[i]
    BY OneMoreKey, Zenon
  <1>. QED
    BY <1>1, PrefixOfOneMore, Zenon

\* A path below another one: key by key.
LEMMA KeysBelow ==
    ASSUME NEW from \in Path, NEW parts \in Path,
           NEW i \in 1 .. Len(parts)
    PROVE  LET r == from \o SubSeq(parts, 1, i)
           IN  /\ r \in Path /\ Len(r) = Len(from) + i
               /\ r = Append(from \o SubSeq(parts, 1, i - 1), parts[i])
               /\ parts[i] \in Names
               /\ from \o SubSeq(parts, 1, i - 1) \in Path
               /\ IsStrictPrefix(from, r) /\ IsPrefix(r, from \o parts)
  <1>. DEFINE r == from \o SubSeq(parts, 1, i)
              u == from \o SubSeq(parts, 1, i - 1)
  <1>1. /\ Len(parts) \in Nat /\ Len(from) \in Nat /\ i \in Nat
        /\ SubSeq(parts, 1, i) \in Path /\ Len(SubSeq(parts, 1, i)) = i
        /\ SubSeq(parts, 1, i - 1) \in Path /\ Len(SubSeq(parts, 1, i - 1)) = i - 1
        /\ \A k \in 1 .. i : SubSeq(parts, 1, i)[k] = parts[k]
        /\ \A k \in 1 .. i - 1 : SubSeq(parts, 1, i - 1)[k] = parts[k]
    BY DEF Path
  <1>2. /\ r \in Path /\ Len(r) = Len(from) + i
        /\ \A k \in 1 .. Len(r) : r[k] = IF k <= Len(from) THEN from[k] ELSE parts[k - Len(from)]
    <2>1. /\ r \in Path /\ Len(r) = Len(from) + i
          /\ \A k \in 1 .. Len(from) + i :
                r[k] = IF k <= Len(from) THEN from[k] ELSE SubSeq(parts, 1, i)[k - Len(from)]
      BY <1>1, ConcatProperties DEF Path
    <2>. HIDE DEF r
    <2>. QED
      BY <1>1, <2>1
  <1>3. /\ u \in Path /\ Len(u) = Len(from) + i - 1
        /\ \A k \in 1 .. Len(u) : u[k] = IF k <= Len(from) THEN from[k] ELSE parts[k - Len(from)]
    <2>1. /\ u \in Path /\ Len(u) = Len(from) + (i - 1)
          /\ \A k \in 1 .. Len(from) + (i - 1) :
                u[k] = IF k <= Len(from) THEN from[k] ELSE SubSeq(parts, 1, i - 1)[k - Len(from)]
      BY <1>1, ConcatProperties DEF Path
    <2>. HIDE DEF u
    <2>. QED
      BY <1>1, <2>1
  <1>4. /\ from \o parts \in Path /\ Len(from \o parts) = Len(from) + Len(parts)
        /\ \A k \in 1 .. Len(from) + Len(parts) :
              (from \o parts)[k] = IF k <= Len(from) THEN from[k] ELSE parts[k - Len(from)]
    BY ConcatProperties DEF Path
  <1>5. parts[i] \in Names
    BY DEF Path
  <1>. DEFINE e == Append(u, parts[i])
  <1>6. /\ e \in Path /\ Len(e) = Len(u) + 1
        /\ \A k \in 1 .. Len(u) : e[k] = u[k]
        /\ e[Len(u) + 1] = parts[i]
    <2>. HIDE DEF u
    <2>. QED
      BY <1>3, <1>5, AppendProperties DEF Path
  <1>. HIDE DEF r, u, e
  <1>7. r = e
    <2>1. Len(r) = Len(e)
      BY <1>1, <1>2, <1>3, <1>6
    <2>2. ASSUME NEW k \in 1 .. Len(r)
          PROVE  r[k] = e[k]
      BY <1>1, <1>2, <1>3, <1>6
    <2>. QED
      BY <1>2, <1>6, <2>1, <2>2, SamePath
  <1>8. IsPrefix(from, r) /\ Len(from) < Len(r)
    <2>1. Len(from) < Len(r) /\ \A k \in 1 .. Len(from) : from[k] = r[k]
      BY <1>1, <1>2
    <2>. QED
      BY <1>1, <1>2, <2>1, PrefixIs
  <1>9. IsPrefix(r, from \o parts)
    <2>1. Len(r) <= Len(from \o parts)
      BY <1>1, <1>2, <1>4
    <2>2. \A k \in 1 .. Len(r) : r[k] = (from \o parts)[k]
      BY <1>1, <1>2, <1>4
    <2>. QED
      BY <1>2, <1>4, <2>1, <2>2, PrefixIs, Zenon
  <1>. QED
    BY <1>2, <1>3, <1>5, <1>7, <1>8, <1>9, PrefixOrder, Zenon DEF r, u, e

-----------------------------------------------------------------------------

\* There is an item's name for each statement.
LEMMA ItemNamesAre ==
    /\ MaxStatements \in Nat /\ DOMAIN ItemNames = 1 .. MaxStatements
    /\ \A i \in 1 .. MaxStatements : ItemNames[i] \in Names /\ ItemNames[i] \in ToSet(ItemNames)
    /\ \A i, j \in 1 .. MaxStatements : ItemNames[i] = ItemNames[j] => i = j
    /\ \A x \in ToSet(ItemNames) : \E i \in 1 .. MaxStatements : x = ItemNames[i]
  <1>1. /\ MaxStatements \in Nat /\ DOMAIN ItemNames = 1 .. MaxStatements
        /\ \A i, j \in 1 .. MaxStatements : ItemNames[i] = ItemNames[j] => i = j
    BY ItemsAreNamed
  <1>2. /\ \A i \in 1 .. MaxStatements : ItemNames[i] \in ToSet(ItemNames)
        /\ \A x \in ToSet(ItemNames) : \E i \in 1 .. MaxStatements : x = ItemNames[i]
    BY <1>1 DEF ToSet
  <1>. QED
    BY <1>1, <1>2 DEF Names

\* A document that takes one more statement has room for it.
LEMMA FewStatements ==
    /\ MaxStatements \in Nat
    /\ \A n \in Nat : n < MaxStatements =>
          n \in 0 .. MaxStatements - 1 /\ n + 1 \in 1 .. MaxStatements
  BY ItemsAreNamed

\* The nodes that are not values.
LEMMA NodesAre ==
    /\ \A d, i \in BOOLEAN : /\ Table(d, i).t = "table" /\ Table(d, i).inline = i
                             /\ Table(d, i).defined = d
    /\ Tables.t = "aot" /\ Tables.inline = FALSE
    /\ Takes(Table(TRUE, FALSE)) /\ Takes(Table(FALSE, FALSE))
  BY DEF Table, Tables, Takes

\* A tree: what IInv says of the nodes alone.
Held(ns) ==
    \A p \in DOMAIN ns \ {<<>>} :
        /\ Front(p) \in DOMAIN ns
        /\ ns[Front(p)].t = (IF Last(p) \in ToSet(ItemNames) THEN "aot" ELSE "table")

Numbered(ns) ==
    \A p \in DOMAIN ns : ns[p].t = "aot" =>
        ns[p] = Tables /\ \E n \in 1 .. MaxStatements : Items(ns, p) = 1 .. n

Sound(ns) ==
    DOMAIN ns \subseteq Path /\ <<>> \in DOMAIN ns /\ Held(ns) /\ Numbered(ns)

\* What is above a node is a node, and holds something.
LEMMA AboveIsHeld ==
    ASSUME NEW ns, DOMAIN ns \subseteq Path, Held(ns),
           NEW p \in DOMAIN ns, NEW q \in Path, IsPrefix(q, p)
    PROVE  q \in DOMAIN ns /\ (q # p => ns[q].t \in {"aot", "table"})
  <1>1. CASE q = p
    BY <1>1
  <1>2. CASE q # p
    <2>. DEFINE T == {n \in Nat : \E r \in DOMAIN ns : IsStrictPrefix(q, r) /\ Len(r) = n}
    <2>1. Len(p) \in T
      BY <1>2, LongAsNat DEF IsStrictPrefix
    <2>2. PICK n \in T : \A m \in T : n <= m
      <3>1. T \subseteq Nat /\ T # {}
        BY <2>1
      <3>. HIDE DEF T
      <3>. QED
        BY <3>1, LeastExists, Zenon
    <2>3. PICK r \in DOMAIN ns : IsStrictPrefix(q, r) /\ Len(r) = n
      BY <2>2
    <2>4. r \in Path /\ r # <<>>
      <3>1. r \in Path /\ Len(q) < Len(r)
        BY <2>3, PrefixOrder
      <3>. QED
        BY <3>1, LongAsNat
    <2>5. /\ Front(r) \in DOMAIN ns /\ ns[Front(r)].t \in {"aot", "table"}
          /\ Front(r) \in Path /\ Len(Front(r)) = Len(r) - 1
      <3>1. Front(r) \in DOMAIN ns /\ ns[Front(r)].t \in {"aot", "table"}
        BY <2>3, <2>4 DEF Held
      <3>. QED
        BY <2>4, <3>1, KeysOfPath
    <2>6. IsPrefix(q, Front(r))
      <3>1. r = Append(Front(r), Last(r)) /\ Last(r) \in Names
        BY <2>4, KeysOfPath
      <3>2. IsStrictPrefix(q, Append(Front(r), Last(r))) <=> IsPrefix(q, Front(r))
        BY <2>5, <3>1, PrefixOfLonger
      <3>. QED
        BY <2>3, <3>1, <3>2, Zenon
    <2>7. q = Front(r)
      <3>1. CASE q # Front(r)
        <4>1. Len(Front(r)) \in T
          BY <2>5, <2>6, <3>1, LongAsNat DEF IsStrictPrefix
        <4>2. n <= Len(Front(r)) /\ n \in Nat
          BY <2>2, <4>1
        <4>. QED
          BY <2>3, <2>5, <4>2
      <3>. QED
        BY <3>1
    <2>. QED
      BY <2>5, <2>7
  <1>. QED
    BY <1>1, <1>2

\* The last item of an array.
LEMMA LastItemIs ==
    ASSUME NEW ns, NEW p, NEW n \in 1 .. MaxStatements, Items(ns, p) = 1 .. n
    PROVE  /\ LastItem(ns, p) = Append(p, ItemNames[n])
           /\ LastItem(ns, p) \in DOMAIN ns
           /\ NewItem(ns, p) = Append(p, ItemNames[n + 1])
  <1>1. Cardinality(1 .. n) = n
    <2>1. Cardinality(1 .. n) = IF 1 > n THEN 0 ELSE n - 1 + 1
      <3>1. 1 \in Int /\ n \in Int
        OBVIOUS
      <3>. QED
        BY <3>1, FS_Interval, Zenon
    <2>. QED
      BY <2>1
  <1>2. n \in Items(ns, p)
    <2>1. n \in 1 .. n
      OBVIOUS
    <2>. QED
      BY <2>1, Zenon
  <1>3. Append(p, ItemNames[n]) \in DOMAIN ns
    BY <1>2 DEF Items
  <1>. QED
    BY <1>1, <1>3 DEF LastItem, NewItem

\* The first item of an array has the first name.
LEMMA FirstItemIs ==
    ASSUME NEW ns, NEW p, Items(ns, p) = {}
    PROVE  NewItem(ns, p) = Append(p, ItemNames[1])
  BY FS_EmptySet DEF NewItem

\* So it is where a header that comes to the array goes.
LEMMA EnterIs ==
    ASSUME NEW ns, Sound(ns), NEW q \in Path
    PROVE  /\ Enter(ns, q) \in Path
           /\ q \in DOMAIN ns /\ ns[q].t = "aot" =>
                 \E n \in 1 .. MaxStatements : /\ Items(ns, q) = 1 .. n
                                   /\ Enter(ns, q) = Append(q, ItemNames[n])
                                   /\ Enter(ns, q) = LastItem(ns, q)
                                   /\ Enter(ns, q) \in DOMAIN ns
           /\ ~ (q \in DOMAIN ns /\ ns[q].t = "aot") => Enter(ns, q) = q
  <1>1. CASE q \in DOMAIN ns /\ ns[q].t = "aot"
    <2>1. PICK n \in 1 .. MaxStatements : Items(ns, q) = 1 .. n
      BY <1>1 DEF Sound, Numbered
    <2>2. Enter(ns, q) = LastItem(ns, q)
      BY <1>1 DEF Enter, Sound, Numbered
    <2>3. LastItem(ns, q) = Append(q, ItemNames[n]) /\ LastItem(ns, q) \in DOMAIN ns
      BY <2>1, LastItemIs
    <2>4. LastItem(ns, q) \in Path
      BY <2>3 DEF Sound
    <2>. QED
      BY <1>1, <2>1, <2>2, <2>3, <2>4
  <1>2. CASE ~ (q \in DOMAIN ns /\ ns[q].t = "aot")
    <2>1. Tables.t = "aot"
      BY DEF Tables
    <2>2. Enter(ns, q) = q
      BY <1>2, <2>1 DEF Enter
    <2>. QED
      BY <1>2, <2>2
  <1>. QED
    BY <1>1, <1>2

\* The last item of an array has a path.
LEMMA LastIsPath ==
    ASSUME NEW ns, Sound(ns), NEW q \in DOMAIN ns, ns[q].t = "aot"
    PROVE  LastItem(ns, q) \in Path
  BY EnterIs DEF Sound

\* The way of a header is gone key by key.
LEMMA WayIs ==
    ASSUME NEW ns, Sound(ns), NEW parts \in Path, parts # <<>>,
           NEW way, way = Way(ns, parts)
    PROVE  /\ DOMAIN way = 0 .. Len(parts) - 1 /\ way[0] = <<>>
           /\ \A i \in 0 .. Len(parts) - 1 : way[i] \in Path
           /\ \A i \in 1 .. Len(parts) - 1 :
                 way[i] = Enter(ns, Append(way[i - 1], parts[i]))
  <1>. DEFINE N == Len(parts) - 1
              Step(i, x) == Enter(ns, Append(x, parts[i]))
              Steps(f) == f = [i \in 0 .. N |-> IF i = 0 THEN <<>>
                                                ELSE Enter(ns, Append(f[i - 1], parts[i]))]
              F == [i \in 1 .. N |-> [x \in Path |-> Step(i, x)]]
  <1>1. N \in Nat /\ \A i \in 1 .. N : parts[i] \in Names
    BY DEF Path
  <1>2. \A i \in 1 .. N : \A x \in Path : Step(i, x) \in Path
    <2>1. ASSUME NEW i \in 1 .. N, NEW x \in Path
          PROVE  Step(i, x) \in Path
      <3>1. Append(x, parts[i]) \in Path
        BY <1>1, OneMoreKey, Zenon
      <3>. QED
        BY <3>1, EnterIs
    <2>. HIDE DEF Step
    <2>. QED
      BY <2>1
  <1>3. F \in [1 .. N -> [Path -> Path]] /\ <<>> \in Path
    <2>1. <<>> \in Path
      BY DEF Path
    <2>. HIDE DEF N, Step, Path
    <2>. QED
      BY <1>2, <2>1
  <1>4. PICK h \in [0 .. N -> Path] : TakesSteps(h, N, <<>>, F)
    <2>. HIDE DEF N, F, Path
    <2>. QED
      BY <1>1, <1>3, RecursionDefines
  <1>5. Steps(h)
    <2>1. \A i \in 1 .. N : h[i] = Step(i, h[i - 1])
      <3>1. \A i \in 1 .. N : i - 1 \in 0 .. N
        BY <1>1
      <3>. HIDE DEF N, Step, Path
      <3>. QED
        BY <1>4, <3>1, Zenon DEF TakesSteps
    <2>2. \A i \in 0 .. N : i # 0 => i \in 1 .. N
      BY <1>1
    <2>3. h = [i \in 0 .. N |-> h[i]] /\ h[0] = <<>>
      BY <1>4 DEF TakesSteps
    <2>. HIDE DEF N, F
    <2>. QED
      BY <2>1, <2>2, <2>3, Zenon
  <1>6. Steps(CHOOSE f : Steps(f))
    <2>. HIDE DEF Steps
    <2>. QED
      BY <1>5
  <1>7. way = CHOOSE f : Steps(f)
    BY DEF Way
  <1>8. Steps(way)
    <2>. HIDE DEF Steps
    <2>. QED
      BY <1>6, <1>7, Zenon
  <1>9. /\ DOMAIN way = 0 .. N /\ way[0] = <<>>
        /\ \A i \in 1 .. N : way[i] = Step(i, way[i - 1])
    <2>1. \A i \in 0 .. N : way[i] = IF i = 0 THEN <<>> ELSE Step(i, way[i - 1])
      <3>. HIDE DEF N
      <3>. QED
        BY <1>8, Zenon
    <2>2. DOMAIN way = 0 .. N
      <3>. HIDE DEF N
      <3>. QED
        BY <1>8
    <2>3. 0 \in 0 .. N /\ \A i \in 1 .. N : i \in 0 .. N /\ i # 0
      BY <1>1
    <2>. HIDE DEF N, Step, Steps
    <2>. QED
      BY <2>1, <2>2, <2>3
  <1>10. \A i \in 0 .. N : way[i] \in Path
    <2>. DEFINE P == {i \in 0 .. N : way[i] \in Path}
    <2>1. 0 \in P
      BY <1>1, <1>3, <1>9
    <2>2. ASSUME NEW n \in 0 .. N - 1, n \in P
          PROVE  n + 1 \in P
      <3>1. n + 1 \in 1 .. N /\ n + 1 - 1 = n
        BY <1>1
      <3>2. way[n + 1] = Step(n + 1, way[n])
        BY <1>9, <3>1
      <3>3. way[n] \in Path
        BY <2>2
      <3>4. Step(n + 1, way[n]) \in Path
        <4>. HIDE DEF Step
        <4>. QED
          BY <1>2, <3>1, <3>3
      <3>. QED
        BY <3>1, <3>2, <3>4
    <2>3. P = 0 .. N
      <3>1. P \in SUBSET (0 .. N)
        OBVIOUS
      <3>. HIDE DEF P, N
      <3>. QED
        BY <1>1, <2>1, <2>2, <3>1, UpTo
    <2>. QED
      BY <2>3
  <1>. QED
    BY <1>9, <1>10

\* One key deeper, the way is as open, and as much in the latest items.
LEMMA DeeperIsLatest ==
    ASSUME NEW ns, Sound(ns), NEW w \in Path, NEW x \in Names,
           Open(ns, w), Latest(ns, w), w \in DOMAIN ns => ns[w].t # "aot"
    PROVE  /\ Latest(ns, Append(w, x))
           /\ (Append(w, x) \in DOMAIN ns => ~ ns[Append(w, x)].inline)
                 => Open(ns, Append(w, x))
  <1>. DEFINE r == Append(w, x)
  <1>0. DOMAIN ns \subseteq Path
    BY DEF Sound
  <1>1. \A p \in DOMAIN ns : /\ IsPrefix(p, r) <=> IsPrefix(p, w) \/ p = r
                             /\ IsStrictPrefix(p, r) <=> IsPrefix(p, w)
    BY <1>0, PrefixOfLonger
  <1>2. r \in Path /\ IsPrefix(w, r)
    <2>1. r \in Path
      BY OneMoreKey, Zenon
    <2>2. IsPrefix(w, w)
      BY PrefixOrder
    <2>3. IsPrefix(w, r) <=> IsPrefix(w, w) \/ w = r
      BY PrefixOfLonger
    <2>. QED
      BY <2>1, <2>2, <2>3
  <1>. HIDE DEF r
  <1>3. ASSUME NEW p \in DOMAIN ns, ns[p].t = "aot", IsStrictPrefix(p, r)
        PROVE  IsPrefix(LastItem(ns, p), r)
    <2>1. IsPrefix(p, w) /\ p # w /\ p \in Path
      BY <1>0, <1>1, <1>3
    <2>2. IsPrefix(LastItem(ns, p), w)
      BY <1>3, <2>1 DEF Latest, IsStrictPrefix
    <2>3. LastItem(ns, p) \in Path
      BY <1>3, <2>1, EnterIs
    <2>. QED
      BY <1>2, <2>2, <2>3, PrefixOrder
  <1>4. Latest(ns, r)
    BY <1>3 DEF Latest
  <1>5. (r \in DOMAIN ns => ~ ns[r].inline) => Open(ns, r)
    BY <1>1 DEF Open
  <1>. QED
    BY <1>4, <1>5 DEF r

\* The keys of a header or of an assignment are no items.
LEMMA KeyedIs ==
    ASSUME NEW parts, Keyed(parts)
    PROVE  /\ parts \in Path /\ parts # <<>> /\ Len(parts) \in Nat \ {0}
           /\ \A i \in 1 .. Len(parts) : parts[i] \in Names /\ parts[i] \notin ToSet(ItemNames)
           /\ Last(parts) \in Names /\ Last(parts) \notin ToSet(ItemNames)
  <1>1. parts \in Seq(STRING \ ToSet(ItemNames)) /\ parts # <<>>
    BY DEF Keyed
  <1>2. /\ Len(parts) \in Nat \ {0}
        /\ \A i \in 1 .. Len(parts) : parts[i] \in STRING \ ToSet(ItemNames)
    BY <1>1
  <1>3. STRING \ ToSet(ItemNames) \subseteq Names
    BY DEF Names
  <1>4. parts \in Path
    BY <1>1, <1>3, SeqMonotonic DEF Path
  <1>5. Len(parts) \in 1 .. Len(parts)
    BY <1>2
  <1>. QED
    BY <1>1, <1>2, <1>3, <1>4, <1>5 DEF Last

\* One key further on the way of a header.
LEMMA WayStep ==
    ASSUME NEW ns, Sound(ns), NEW w \in Path, NEW x \in Names, Open(ns, w), Latest(ns, w),
           w \in DOMAIN ns => Takes(ns[w]),
           NEW v, v = Enter(ns, Append(w, x)), v \in DOMAIN ns => Takes(ns[v])
    PROVE  /\ v \in Path /\ Open(ns, v) /\ Latest(ns, v) /\ IsPrefix(w, v)
           /\ v \notin DOMAIN ns => v = Append(w, x)
  <1>. DEFINE r == Append(w, x)
  <1>1. r \in Path /\ IsPrefix(w, r)
    <2>1. r \in Path
      BY OneMoreKey, Zenon
    <2>2. IsStrictPrefix(w, r) <=> IsPrefix(w, w)
      BY PrefixOfLonger
    <2>. QED
      BY <2>1, <2>2, PrefixOrder DEF IsStrictPrefix
  <1>2. v \in Path
    BY <1>1, EnterIs
  <1>3. /\ Latest(ns, r)
        /\ (r \in DOMAIN ns => ~ ns[r].inline) => Open(ns, r)
    BY DeeperIsLatest DEF Takes
  <1>. HIDE DEF r
  <1>4. CASE ~ (r \in DOMAIN ns /\ ns[r].t = "aot")
    <2>1. v = r
      BY <1>1, <1>4, EnterIs, Zenon DEF r
    <2>2. r \in DOMAIN ns => ~ ns[r].inline
      BY <2>1 DEF Takes
    <2>. QED
      BY <1>1, <1>3, <2>1, <2>2 DEF r
  <1>5. CASE r \in DOMAIN ns /\ ns[r].t = "aot"
    <2>1. PICK n \in 1 .. MaxStatements : /\ v = Append(r, ItemNames[n]) /\ v = LastItem(ns, r)
                              /\ v \in DOMAIN ns
      BY <1>1, <1>5, EnterIs, Zenon DEF r
    <2>2. \A p \in Path : /\ IsPrefix(p, v) <=> IsPrefix(p, r) \/ p = v
                          /\ IsStrictPrefix(p, v) <=> IsPrefix(p, r)
      <3>1. ItemNames[n] \in Names
        BY ItemNamesAre
      <3>2. \A p \in Path :
               /\ IsPrefix(p, Append(r, ItemNames[n]))
                     <=> IsPrefix(p, r) \/ p = Append(r, ItemNames[n])
               /\ IsStrictPrefix(p, Append(r, ItemNames[n])) <=> IsPrefix(p, r)
        BY <1>1, <3>1, PrefixOfLonger
      <3>. QED
        BY <2>1, <3>2, Zenon
    <2>3. Open(ns, r)
      <3>1. ns[r] = Tables
        BY <1>5 DEF Sound, Numbered
      <3>2. ~ ns[r].inline
        BY <3>1, NodesAre, Zenon
      <3>. QED
        BY <1>3, <3>2
    <2>4. DOMAIN ns \subseteq Path
      BY DEF Sound
    <2>5. Open(ns, v)
      BY <2>1, <2>2, <2>3, <2>4 DEF Open, Takes
    <2>6. ASSUME NEW p \in DOMAIN ns, ns[p].t = "aot", IsStrictPrefix(p, v)
          PROVE  IsPrefix(LastItem(ns, p), v)
      <3>1. CASE p = r
        BY <1>2, <2>1, <3>1, PrefixOrder
      <3>2. CASE p # r
        <4>1. IsPrefix(LastItem(ns, p), r)
          BY <1>3, <2>2, <2>4, <2>6, <3>2 DEF Latest, IsStrictPrefix
        <4>2. IsPrefix(r, v)
          BY <1>1, <2>2, PrefixOrder
        <4>3. LastItem(ns, p) \in Path
          BY <2>4, <2>6, EnterIs
        <4>. QED
          BY <1>1, <1>2, <4>1, <4>2, <4>3, PrefixOrder
      <3>. QED
        BY <3>1, <3>2
    <2>7. IsPrefix(w, v)
      BY <1>1, <2>2
    <2>. QED
      BY <1>2, <2>1, <2>5, <2>6, <2>7 DEF Latest
  <1>. QED
    BY <1>4, <1>5

\* What is known of a way, up to place N.
WayFits(ns, way, N) ==
    /\ N \in Nat /\ DOMAIN way = 0 .. N /\ way[0] = <<>>
    /\ \A i \in 0 .. N :
          /\ way[i] \in Path /\ Open(ns, way[i]) /\ Latest(ns, way[i])
          /\ way[i] \in DOMAIN ns => Takes(ns[way[i]])
          /\ IsPrefix(way[i], way[N])
    /\ \A i \in 1 .. N : way[i] \notin DOMAIN ns =>
          /\ way[i] # <<>> /\ Front(way[i]) = way[i - 1]
          /\ Last(way[i]) \notin ToSet(ItemNames)

\* A way that is passable is open and in the latest items.
LEMMA WayHolds ==
    ASSUME NEW ns, Sound(ns), ns[<<>>] = Table(TRUE, FALSE), NEW parts, Keyed(parts),
           NEW way, way = Way(ns, parts), Passable(ns, way),
           NEW N, N = Len(parts) - 1
    PROVE  WayFits(ns, way, N)
  <1>1. /\ parts \in Path /\ parts # <<>> /\ N \in Nat
        /\ \A i \in 1 .. N : parts[i] \in Names /\ parts[i] \notin ToSet(ItemNames)
    BY KeyedIs
  <1>2. /\ DOMAIN way = 0 .. N /\ way[0] = <<>>
        /\ \A i \in 0 .. N : way[i] \in Path
        /\ \A i \in 1 .. N : way[i] = Enter(ns, Append(way[i - 1], parts[i]))
    BY <1>1, WayIs
  <1>3. \A i \in 0 .. N : way[i] \in DOMAIN ns => Takes(ns[way[i]])
    BY <1>2 DEF Passable
  <1>. DEFINE P == {i \in 0 .. N : /\ Open(ns, way[i]) /\ Latest(ns, way[i])
                                   /\ \A j \in 0 .. i : IsPrefix(way[j], way[i])}
  <1>4. 0 \in P
    <2>1. \A p \in DOMAIN ns : IsPrefix(p, <<>>) => p = <<>>
      <3>1. <<>> \in Path /\ DOMAIN ns \subseteq Path
        BY DEF Sound
      <3>2. \A p \in DOMAIN ns : IsPrefix(<<>>, p)
        BY <3>1, PrefixOrder
      <3>. QED
        BY <3>1, <3>2, PrefixOrder
    <2>2. Open(ns, <<>>) /\ Latest(ns, <<>>)
      <3>1. ~ ns[<<>>].inline
        BY NodesAre, Zenon
      <3>. QED
        BY <2>1, <3>1, Zenon DEF Open, Latest, IsStrictPrefix
    <2>3. IsPrefix(<<>>, <<>>)
      <3>1. <<>> \in Path
        BY DEF Path
      <3>. QED
        BY <3>1, PrefixOrder
    <2>4. 0 \in 0 .. N /\ \A j \in 0 .. 0 : j = 0
      BY <1>1
    <2>. QED
      BY <1>2, <2>2, <2>3, <2>4
  <1>5. ASSUME NEW n \in 0 .. N - 1, n \in P
        PROVE  n + 1 \in P /\ (way[n + 1] \notin DOMAIN ns => way[n + 1] = Append(way[n], parts[n + 1]))
    <2>1. n \in 0 .. N /\ n + 1 \in 0 .. N /\ n + 1 \in 1 .. N /\ n + 1 - 1 = n
      BY <1>1
    <2>2. way[n + 1] = Enter(ns, Append(way[n], parts[n + 1])) /\ parts[n + 1] \in Names
      <3>1. way[n + 1] = Enter(ns, Append(way[n + 1 - 1], parts[n + 1]))
        BY <1>2, <2>1
      <3>. QED
        BY <1>1, <2>1, <3>1
    <2>3. /\ way[n] \in Path /\ Open(ns, way[n]) /\ Latest(ns, way[n])
          /\ way[n] \in DOMAIN ns => Takes(ns[way[n]])
          /\ way[n + 1] \in DOMAIN ns => Takes(ns[way[n + 1]])
      BY <1>2, <1>3, <1>5, <2>1
    <2>4. /\ Open(ns, way[n + 1]) /\ Latest(ns, way[n + 1]) /\ IsPrefix(way[n], way[n + 1])
          /\ way[n + 1] \notin DOMAIN ns => way[n + 1] = Append(way[n], parts[n + 1])
      BY <2>2, <2>3, WayStep, Zenon
    <2>5. ASSUME NEW j \in 0 .. n + 1
          PROVE  IsPrefix(way[j], way[n + 1])
      <3>1. CASE j = n + 1
        BY <1>2, <2>1, <3>1, PrefixOrder
      <3>2. CASE j # n + 1
        <4>1. j \in 0 .. n /\ j \in 0 .. N
          BY <1>1, <2>1, <3>2
        <4>2. IsPrefix(way[j], way[n])
          BY <1>5, <4>1
        <4>. QED
          BY <1>2, <2>1, <2>4, <4>1, <4>2, PrefixOrder
      <3>. QED
        BY <3>1, <3>2
    <2>. QED
      BY <2>1, <2>4, <2>5
  <1>6. P = 0 .. N
    <2>1. P \in SUBSET (0 .. N) /\ 0 <= N
      BY <1>1
    <2>. HIDE DEF P
    <2>. QED
      BY <1>1, <1>4, <1>5, <2>1, UpTo, Zenon
  <1>7. ASSUME NEW i \in 0 .. N
        PROVE  /\ Open(ns, way[i]) /\ Latest(ns, way[i])
               /\ IsPrefix(way[i], way[N])
    <2>1. i \in P /\ N \in P /\ i \in 0 .. N
      BY <1>1, <1>6
    <2>. QED
      BY <2>1
  <1>8. ASSUME NEW i \in 1 .. N, way[i] \notin DOMAIN ns
        PROVE  /\ way[i] # <<>> /\ Front(way[i]) = way[i - 1]
               /\ Last(way[i]) \notin ToSet(ItemNames)
    <2>1. i - 1 \in 0 .. N - 1 /\ i - 1 \in 0 .. N /\ i - 1 + 1 = i
      BY <1>1
    <2>2. i - 1 \in P
      <3>. HIDE DEF P
      <3>. QED
        BY <1>6, <2>1
    <2>3. way[i] = Append(way[i - 1], parts[i])
      <3>. HIDE DEF P
      <3>1. way[i - 1 + 1] \notin DOMAIN ns => way[i - 1 + 1] = Append(way[i - 1], parts[i - 1 + 1])
        BY <1>5, <2>1, <2>2
      <3>. QED
        BY <1>8, <2>1, <3>1
    <2>4. way[i - 1] \in Path /\ parts[i] \in Names /\ parts[i] \notin ToSet(ItemNames)
      BY <1>1, <1>2, <2>1
    <2>5. /\ Append(way[i - 1], parts[i]) # <<>>
          /\ Front(Append(way[i - 1], parts[i])) = way[i - 1]
          /\ Last(Append(way[i - 1], parts[i])) = parts[i]
      BY <2>4, AppendIs, Zenon
    <2>. QED
      BY <2>3, <2>4, <2>5, Zenon
  <1>. HIDE DEF P
  <1>. QED
    BY <1>1, <1>2, <1>3, <1>7, <1>8 DEF WayFits

-----------------------------------------------------------------------------

\* The tree grows: every node stays, and a table made on the way to another
\* may be stated; a new one is where it may be, and not in an inline table.
Grown(ns, ms) ==
    /\ DOMAIN ns \subseteq DOMAIN ms /\ DOMAIN ms \subseteq Path
    /\ \A p \in DOMAIN ns :
          ms[p] = ns[p] \/ (ns[p] = Table(FALSE, FALSE) /\ ms[p] = Table(TRUE, FALSE))
    /\ \A p \in DOMAIN ms \ DOMAIN ns :
          /\ p # <<>> /\ Front(p) \in DOMAIN ms /\ Open(ns, p)
          /\ ms[Front(p)].t = (IF Last(p) \in ToSet(ItemNames) THEN "aot" ELSE "table")

\* The tables that are made: where there was a node, it stays.
LEMMA MadeIs ==
    ASSUME NEW ns, NEW paths, NEW table
    PROVE  /\ DOMAIN Made(ns, paths, table) = DOMAIN ns \cup paths
           /\ \A p \in DOMAIN ns : Made(ns, paths, table)[p] = ns[p]
           /\ \A p \in paths \ DOMAIN ns : Made(ns, paths, table)[p] = table
  BY DEF Made

\* A node of a tree that grew keeps its kind, and is what it was if it was stated.
LEMMA GrownKeeps ==
    ASSUME NEW ns, NEW ms, Grown(ns, ms), NEW p \in DOMAIN ns
    PROVE  /\ p \in DOMAIN ms /\ ms[p].t = ns[p].t /\ ms[p].inline = ns[p].inline
           /\ ns[p] # Table(FALSE, FALSE) => ms[p] = ns[p]
  <1>1. /\ p \in DOMAIN ms
        /\ ms[p] = ns[p] \/ (ns[p] = Table(FALSE, FALSE) /\ ms[p] = Table(TRUE, FALSE))
    BY Zenon DEF Grown
  <1>2. /\ Table(FALSE, FALSE).t = Table(TRUE, FALSE).t
        /\ Table(FALSE, FALSE).inline = Table(TRUE, FALSE).inline
    BY NodesAre, Zenon
  <1>. QED
    BY <1>1, <1>2, Zenon

\* A header's keys lead to a path.
Reaches(ns, parts, way, path) ==
    /\ Sound(ns) /\ ns[<<>>] = Table(TRUE, FALSE) /\ Keyed(parts)
    /\ way = Way(ns, parts) /\ Passable(ns, way)
    /\ path = Append(way[Len(parts) - 1], Last(parts))

WithHeader(ns, ms, way, path, node) == ms = Put(WithWay(ns, way), path, node)

WithItem(ns, ms, way, path, item) ==
    /\ item = NewItem(ns, path)
    /\ ms = Put(Put(WithWay(ns, way), path, Tables), item, Table(TRUE, FALSE))

\* A node may be stated where there is none, or where it was made on the way.
MayState(ns, path, node) ==
    path \in DOMAIN ns => \/ ns[path] = node
                          \/ ns[path] = Table(FALSE, FALSE) /\ node = Table(TRUE, FALSE)

\* The tables on the way to a node are made, and it.
MakesWay(ns, ms, path, node) ==
    /\ Grown(ns, ms) /\ path \in DOMAIN ms /\ ms[path] = node
    /\ path \in Path /\ path # <<>> /\ Open(ns, path) /\ Latest(ns, path)
    /\ \A p \in DOMAIN ms \ DOMAIN ns :
          /\ IsPrefix(p, path) /\ Last(p) \notin ToSet(ItemNames)
          /\ p # path => ms[p] = Table(FALSE, FALSE)

\* A header makes the tables on its way that are not there, and its own.
LEMMA HeaderGrows ==
    ASSUME NEW ns, NEW parts, NEW way, NEW path, Reaches(ns, parts, way, path),
           NEW node, node.t \in {"table", "aot"}, ~ node.inline,
           MayState(ns, path, node),
           NEW ms, WithHeader(ns, ms, way, path, node)
    PROVE  MakesWay(ns, ms, path, node)
  <1>. DEFINE N == Len(parts) - 1
              w == way[N]
              x == Last(parts)
  <1>0. /\ N = Len(parts) - 1 /\ w = way[N] /\ path = Append(w, Last(parts)) /\ x = Last(parts)
        /\ Sound(ns) /\ ns[<<>>] = Table(TRUE, FALSE) /\ Keyed(parts)
        /\ way = Way(ns, parts) /\ Passable(ns, way)
    BY DEF Reaches
  <1>. HIDE DEF N, w, x
  <1>1. /\ N \in Nat /\ DOMAIN way = 0 .. N /\ way[0] = <<>>
        /\ \A i \in 0 .. N :
              /\ way[i] \in Path /\ Open(ns, way[i]) /\ Latest(ns, way[i])
              /\ way[i] \in DOMAIN ns => Takes(ns[way[i]])
              /\ IsPrefix(way[i], way[N])
        /\ \A i \in 1 .. N : way[i] \notin DOMAIN ns =>
              /\ way[i] # <<>> /\ Front(way[i]) = way[i - 1]
              /\ Last(way[i]) \notin ToSet(ItemNames)
    <2>1. WayFits(ns, way, N)
      BY <1>0, WayHolds, Zenon
    <2>. QED
      BY <2>1 DEF WayFits
  <1>2. /\ w \in Path /\ Open(ns, w) /\ Latest(ns, w)
        /\ w \in DOMAIN ns => Takes(ns[w])
        /\ x \in Names /\ x \notin ToSet(ItemNames) /\ path = Append(w, x)
        /\ N \in 0 .. N
    <2>1. x \in Names /\ x \notin ToSet(ItemNames)
      BY <1>0, KeyedIs
    <2>2. N \in 0 .. N
      BY <1>1
    <2>3. /\ w \in Path /\ Open(ns, w) /\ Latest(ns, w)
          /\ w \in DOMAIN ns => Takes(ns[w])
      BY <1>0, <1>1, <2>2
    <2>. QED
      BY <1>0, <2>1, <2>2, <2>3
  <1>3. /\ path \in Path /\ path # <<>> /\ Front(path) = w /\ Last(path) = x
        /\ Len(path) = Len(w) + 1
    BY <1>2, AppendIs, Zenon
  <1>4. Latest(ns, path) /\ Open(ns, path)
    <2>1. path \in DOMAIN ns => ~ ns[path].inline
      <3>1. ~ Table(FALSE, FALSE).inline
        BY NodesAre, Zenon
      <3>. QED
        BY <3>1, Zenon DEF MayState
    <2>2. /\ Latest(ns, Append(w, x))
          /\ (Append(w, x) \in DOMAIN ns => ~ ns[Append(w, x)].inline)
               => Open(ns, Append(w, x))
      <3>1. w \in DOMAIN ns => ns[w].t # "aot"
        BY <1>2 DEF Takes
      <3>. QED
        BY <1>0, <1>2, <3>1, DeeperIsLatest
    <2>. QED
      BY <1>2, <2>1, <2>2, Zenon
  <1>5. /\ DOMAIN ms = DOMAIN ns \cup {way[i] : i \in 0 .. N} \cup {path}
        /\ ms[path] = node
        /\ \A p \in DOMAIN ns \ {path} : ms[p] = ns[p]
        /\ \A p \in {way[i] : i \in 0 .. N} \ (DOMAIN ns \cup {path}) : ms[p] = Table(FALSE, FALSE)
    <2>. DEFINE on == {way[i] : i \in DOMAIN way}
                made == Made(ns, on, Table(FALSE, FALSE))
    <2>1. on = {way[i] : i \in 0 .. N}
      BY <1>1
    <2>2. ms = Put(made, path, node)
      BY DEF WithWay, WithHeader
    <2>. HIDE DEF on
    <2>3. /\ DOMAIN made = DOMAIN ns \cup on
          /\ \A p \in DOMAIN ns : made[p] = ns[p]
          /\ \A p \in on \ DOMAIN ns : made[p] = Table(FALSE, FALSE)
      BY MadeIs, Zenon
    <2>. HIDE DEF made
    <2>4. /\ DOMAIN ms = DOMAIN made \cup {path} /\ ms[path] = node
          /\ \A p \in DOMAIN made \ {path} : ms[p] = made[p]
      <3>1. /\ DOMAIN Put(made, path, node) = DOMAIN made \cup {path}
            /\ Put(made, path, node)[path] = node
            /\ \A p \in DOMAIN made \ {path} : Put(made, path, node)[p] = made[p]
        BY DEF Put
      <3>. QED
        BY <2>2, <3>1, Zenon
    <2>. QED
      BY <2>1, <2>3, <2>4, Zenon
  <1>6. ASSUME NEW i \in 0 .. N
        PROVE  /\ way[i] \in DOMAIN ms /\ way[i] # path /\ ms[way[i]].t = "table"
               /\ IsPrefix(way[i], path)
    <2>1. way[i] \in DOMAIN ms
      BY <1>5
    <2>2. IsPrefix(way[i], w) /\ way[i] \in Path
      BY <1>0, <1>1
    <2>3. way[i] # path
      <3>1. Len(way[i]) <= Len(w) /\ Len(w) \in Nat
        BY <1>2, <2>2, PrefixOrder, LongAsNat
      <3>. QED
        BY <1>3, <3>1
    <2>4. ms[way[i]].t = "table"
      <3>1. CASE way[i] \in DOMAIN ns
        BY <1>1, <1>5, <2>3, <3>1 DEF Takes
      <3>2. CASE way[i] \notin DOMAIN ns
        <4>1. ms[way[i]] = Table(FALSE, FALSE)
          BY <1>5, <2>3, <3>2, Zenon
        <4>. QED
          BY <4>1, NodesAre, Zenon
      <3>. QED
        BY <3>1, <3>2
    <2>5. IsPrefix(way[i], path)
      <3>1. IsPrefix(way[i], Append(w, x)) <=> IsPrefix(way[i], w) \/ way[i] = Append(w, x)
        BY <1>2, <2>2, PrefixOfLonger
      <3>. QED
        BY <1>2, <2>2, <3>1, Zenon
    <2>. QED
      BY <2>1, <2>3, <2>4, <2>5
  <1>7. ASSUME NEW p \in DOMAIN ms \ DOMAIN ns
        PROVE  /\ p # <<>> /\ Front(p) \in DOMAIN ms /\ Open(ns, p)
               /\ ms[Front(p)].t = "table"
               /\ IsPrefix(p, path) /\ Last(p) \notin ToSet(ItemNames)
               /\ p # path => ms[p] = Table(FALSE, FALSE)
    <2>1. CASE p = path
      <3>1. w \in DOMAIN ms /\ ms[w].t = "table"
        BY <1>0, <1>2, <1>6
      <3>2. IsPrefix(path, path)
        BY <1>3, PrefixOrder
      <3>. QED
        BY <1>2, <1>3, <1>4, <2>1, <3>1, <3>2
    <2>2. CASE p # path
      <3>1. PICK i \in 0 .. N : p = way[i]
        BY <1>5, <2>2
      <3>2. i # 0
        BY <1>0, <1>1, <3>1 DEF Sound
      <3>3. i \in 1 .. N /\ i - 1 \in 0 .. N
        BY <1>1, <3>2
      <3>4. p # <<>> /\ Front(p) = way[i - 1] /\ Last(p) \notin ToSet(ItemNames)
        BY <1>1, <3>1, <3>3
      <3>5. Front(p) \in DOMAIN ms /\ ms[Front(p)].t = "table"
        BY <1>6, <3>3, <3>4
      <3>6. Open(ns, p) /\ IsPrefix(p, path) /\ ms[p] = Table(FALSE, FALSE)
        BY <1>1, <1>5, <1>6, <2>2, <3>1, Zenon
      <3>. QED
        BY <3>4, <3>5, <3>6
    <2>. QED
      BY <2>1, <2>2, Zenon
  <1>8. Grown(ns, ms)
    <2>1. DOMAIN ns \subseteq DOMAIN ms
      BY <1>5
    <2>2. DOMAIN ms \subseteq Path
      <3>1. DOMAIN ns \subseteq Path
        BY <1>0 DEF Sound
      <3>2. \A i \in 0 .. N : way[i] \in Path
        BY <1>1
      <3>. QED
        BY <1>3, <1>5, <3>1, <3>2
    <2>3. \A p \in DOMAIN ns :
             ms[p] = ns[p] \/ (ns[p] = Table(FALSE, FALSE) /\ ms[p] = Table(TRUE, FALSE))
      BY <1>5, Zenon DEF MayState
    <2>. QED
      BY <1>7, <2>1, <2>2, <2>3, Zenon DEF Grown
  <1>. QED
    BY <1>3, <1>4, <1>5, <1>7, <1>8, Zenon DEF MakesWay

\* The items of an array are those there were, where no other is put.
LEMMA ItemsStay ==
    ASSUME NEW ns, NEW ms, DOMAIN ns \subseteq DOMAIN ms, NEW p \in Path,
           \A r \in DOMAIN ms \ DOMAIN ns : Front(r) # p \/ Last(r) \notin ToSet(ItemNames)
    PROVE  Items(ms, p) = Items(ns, p) /\ LastItem(ms, p) = LastItem(ns, p)
  <1>1. ASSUME NEW i \in DOMAIN ItemNames, Append(p, ItemNames[i]) \in DOMAIN ms
        PROVE  Append(p, ItemNames[i]) \in DOMAIN ns
    <2>1. ItemNames[i] \in Names /\ ItemNames[i] \in ToSet(ItemNames)
      BY ItemNamesAre
    <2>2. /\ Front(Append(p, ItemNames[i])) = p
          /\ Last(Append(p, ItemNames[i])) = ItemNames[i]
      BY <2>1, AppendIs, Zenon
    <2>. QED
      BY <1>1, <2>1, <2>2, Zenon
  <1>2. Items(ms, p) = Items(ns, p)
    BY <1>1 DEF Items
  <1>. QED
    BY <1>2 DEF LastItem

\* What was open stays open, and in the latest items.
LEMMA GrownIsOpen ==
    ASSUME NEW ns, NEW ms, Grown(ns, ms), NEW q, Open(ns, q),
           \A p \in DOMAIN ms \ DOMAIN ns : IsPrefix(p, q) => ~ ms[p].inline
    PROVE  Open(ms, q)
  <1>1. ASSUME NEW p \in DOMAIN ns, IsPrefix(p, q)
        PROVE  ~ ms[p].inline
    <2>1. ms[p].inline = ns[p].inline
      BY GrownKeeps, Zenon
    <2>. QED
      BY <1>1, <2>1, Zenon DEF Open
  <1>. QED
    BY <1>1 DEF Open

\* A way through the latest items stays one, unless an array of it has one
\* more item.
LEMMA GrownIsLatest ==
    ASSUME NEW ns, NEW ms, Grown(ns, ms), NEW q, Latest(ns, q),
           \A p \in DOMAIN ms : ms[p].t = "aot" /\ IsStrictPrefix(p, q) =>
               \/ IsPrefix(LastItem(ms, p), q)
               \/ p \in DOMAIN ns /\ LastItem(ms, p) = LastItem(ns, p)
    PROVE  Latest(ms, q)
  <1>1. ASSUME NEW p \in DOMAIN ms, ms[p].t = "aot", IsStrictPrefix(p, q),
               p \in DOMAIN ns, LastItem(ms, p) = LastItem(ns, p)
        PROVE  IsPrefix(LastItem(ms, p), q)
    <2>1. ns[p].t = "aot"
      BY <1>1, GrownKeeps, Zenon
    <2>2. IsPrefix(LastItem(ns, p), q)
      BY <1>1, <2>1 DEF Latest
    <2>. QED
      BY <1>1, <2>2
  <1>. QED
    BY <1>1 DEF Latest

\* A tree that grew is a tree.
LEMMA GrownIsHeld ==
    ASSUME NEW ns, Sound(ns), NEW ms, Grown(ns, ms)
    PROVE  Held(ms)
  <1>1. ASSUME NEW p \in DOMAIN ns \ {<<>>}
        PROVE  /\ Front(p) \in DOMAIN ms
               /\ ms[Front(p)].t = (IF Last(p) \in ToSet(ItemNames) THEN "aot" ELSE "table")
    <2>1. /\ Front(p) \in DOMAIN ns
          /\ ns[Front(p)].t = (IF Last(p) \in ToSet(ItemNames) THEN "aot" ELSE "table")
      BY DEF Sound, Held
    <2>2. \A q \in DOMAIN ns : q \in DOMAIN ms /\ ms[q].t = ns[q].t
      BY GrownKeeps, Zenon
    <2>. QED
      BY <2>1, <2>2, Zenon
  <1>. QED
    BY <1>1 DEF Held, Grown

\* A statement of a kind adds to the tree, at the path q.
Adds(ns, ms, kind, q) ==
    /\ Grown(ns, ms) /\ q \in DOMAIN ms /\ Latest(ms, q)
    /\ q \in DOMAIN ns => ns[q] = Table(FALSE, FALSE)
    /\ kind = "item" =>
          /\ q # <<>> /\ Front(q) \in DOMAIN ms /\ ms[Front(q)] = Tables
          /\ q = LastItem(ms, Front(q))
          /\ \E n \in 0 .. MaxStatements - 1 :
                /\ Items(ns, Front(q)) = 1 .. n /\ Items(ms, Front(q)) = 1 .. n + 1
                /\ n > 0 => Front(q) \in DOMAIN ns /\ ns[Front(q)].t = "aot"
    /\ \A p \in DOMAIN ms : ms[p].t = "aot" =>
          \/ kind = "item" /\ p = Front(q)
          \/ /\ p \in DOMAIN ns /\ ms[p] = ns[p]
             /\ Items(ms, p) = Items(ns, p) /\ LastItem(ms, p) = LastItem(ns, p)
    /\ \A p \in DOMAIN ms \ DOMAIN ns :
          IsPrefix(p, q) \/ (kind = "key" /\ IsStrictPrefix(q, p))

\* A header adds no value, and where it leads is open.
Heads(ns, ms, q) ==
    /\ ms[q] = Table(TRUE, FALSE) /\ Open(ms, q)
    /\ \A p \in DOMAIN ms \ DOMAIN ns : ms[p].t \in {"table", "aot"}

\* A table header adds its table, and the tables on the way, and no more.
LEMMA TableAdds ==
    ASSUME NEW ns, NEW parts, NEW way, NEW path, Reaches(ns, parts, way, path),
           path \in DOMAIN ns => ns[path] = Table(FALSE, FALSE),
           NEW ms, WithHeader(ns, ms, way, path, Table(TRUE, FALSE))
    PROVE  Adds(ns, ms, "header", path) /\ Heads(ns, ms, path)
  <1>0. Sound(ns)
    BY DEF Reaches
  <1>1. Table(TRUE, FALSE).t \in {"table", "aot"} /\ ~ Table(TRUE, FALSE).inline
    BY NodesAre, Zenon
  <1>2. /\ Grown(ns, ms) /\ path \in DOMAIN ms /\ ms[path] = Table(TRUE, FALSE)
        /\ path \in Path /\ path # <<>> /\ Open(ns, path) /\ Latest(ns, path)
        /\ \A p \in DOMAIN ms \ DOMAIN ns :
              /\ IsPrefix(p, path) /\ Last(p) \notin ToSet(ItemNames)
              /\ p # path => ms[p] = Table(FALSE, FALSE)
    <2>0. MayState(ns, path, Table(TRUE, FALSE))
      BY DEF MayState
    <2>1. MakesWay(ns, ms, path, Table(TRUE, FALSE))
      <3>1. PICK node : node = Table(TRUE, FALSE)
        BY Zenon
      <3>2. /\ node.t \in {"table", "aot"} /\ ~ node.inline /\ MayState(ns, path, node)
            /\ WithHeader(ns, ms, way, path, node)
        BY <1>1, <2>0, <3>1, Zenon
      <3>3. MakesWay(ns, ms, path, node)
        BY <3>2, HeaderGrows
      <3>. QED
        BY <3>1, <3>3, Zenon
    <2>. QED
      BY <2>1, Zenon DEF MakesWay
  <1>3. \A p \in DOMAIN ms \ DOMAIN ns : ms[p].t = "table" /\ ~ ms[p].inline
    <2>1. \A p \in DOMAIN ms \ DOMAIN ns : ms[p] \in {Table(TRUE, FALSE), Table(FALSE, FALSE)}
      BY <1>2, Zenon
    <2>2. \A node \in {Table(TRUE, FALSE), Table(FALSE, FALSE)} :
             node.t = "table" /\ ~ node.inline
      BY NodesAre, Zenon
    <2>. QED
      BY <2>1, <2>2, Zenon
  <1>4. ASSUME NEW p \in DOMAIN ms, ms[p].t = "aot"
        PROVE  /\ p \in DOMAIN ns /\ ms[p] = ns[p]
               /\ Items(ms, p) = Items(ns, p) /\ LastItem(ms, p) = LastItem(ns, p)
    <2>1. p \in DOMAIN ns /\ p \in Path
      BY <1>2, <1>3, <1>4 DEF Grown
    <2>2. ns[p] # Table(FALSE, FALSE)
      <3>1. ns[p].t = "aot"
        BY <1>2, <1>4, <2>1, GrownKeeps, Zenon
      <3>. QED
        BY <3>1, NodesAre, Zenon
    <2>3. ms[p] = ns[p]
      BY <1>2, <2>1, <2>2, Zenon DEF Grown
    <2>4. DOMAIN ns \subseteq DOMAIN ms
      BY <1>2 DEF Grown
    <2>. QED
      BY <1>2, <2>1, <2>3, <2>4, ItemsStay, Zenon
  <1>5. Open(ms, path)
    BY <1>2, <1>3, GrownIsOpen
  <1>6. Latest(ms, path)
    BY <1>2, <1>4, GrownIsLatest, Zenon
  <1>7. Heads(ns, ms, path)
    BY <1>2, <1>3, <1>5 DEF Heads
  <1>. QED
    BY <1>2, <1>4, <1>6, <1>7, Zenon DEF Adds

\* A header of an array of tables adds its item, and no more.
LEMMA ArrayAdds ==
    ASSUME NEW ns, NEW parts, NEW way, NEW path, Reaches(ns, parts, way, path),
           MaxStatements > 0,
           path \in DOMAIN ns =>
              ns[path] = Tables /\ \E n \in 1 .. MaxStatements - 1 : Items(ns, path) = 1 .. n,
           NEW item, NEW ms, WithItem(ns, ms, way, path, item)
    PROVE  Adds(ns, ms, "item", item) /\ Heads(ns, ms, item)
  <1>1. Tables.t \in {"table", "aot"} /\ ~ Tables.inline
    BY NodesAre, Zenon
  <1>0. Sound(ns)
    BY DEF Reaches
  <1>2. PICK m1 : /\ WithHeader(ns, m1, way, path, Tables)
                  /\ ms = Put(m1, item, Table(TRUE, FALSE))
    BY Zenon DEF WithHeader, WithItem
  <1>3. /\ Grown(ns, m1) /\ path \in DOMAIN m1 /\ m1[path] = Tables
        /\ path \in Path /\ path # <<>> /\ Open(ns, path) /\ Latest(ns, path)
        /\ \A p \in DOMAIN m1 \ DOMAIN ns :
              /\ IsPrefix(p, path) /\ Last(p) \notin ToSet(ItemNames)
              /\ p # path => m1[p] = Table(FALSE, FALSE)
    <2>0. MayState(ns, path, Tables)
      BY DEF MayState
    <2>1. MakesWay(ns, m1, path, Tables)
      BY <1>1, <1>2, <2>0, HeaderGrows
    <2>. QED
      BY <2>1, Zenon DEF MakesWay
  <1>4. DOMAIN ns \subseteq DOMAIN m1 /\ DOMAIN m1 \subseteq Path /\ DOMAIN ns \subseteq Path
    BY <1>3 DEF Grown
  <1>5. PICK n \in 0 .. MaxStatements - 1 :
           /\ Items(ns, path) = 1 .. n
           /\ n > 0 => path \in DOMAIN ns /\ ns[path].t = "aot"
    <2>1. CASE path \in DOMAIN ns
      <3>1. PICK n \in 1 .. MaxStatements - 1 : Items(ns, path) = 1 .. n
        BY <2>1
      <3>2. n \in 0 .. MaxStatements - 1
        BY <3>1, FewStatements
      <3>. QED
        BY <1>1, <2>1, <3>1, <3>2, NodesAre
    <2>2. CASE path \notin DOMAIN ns
      <3>1. ASSUME NEW i \in DOMAIN ItemNames, Append(path, ItemNames[i]) \in DOMAIN ns
            PROVE  FALSE
        <4>1. ItemNames[i] \in Names
          BY ItemNamesAre
        <4>2. /\ Append(path, ItemNames[i]) # <<>>
              /\ Front(Append(path, ItemNames[i])) = path
          BY <1>3, <4>1, AppendIs
        <4>. QED
          BY <1>0, <2>2, <3>1, <4>2, Zenon DEF Sound, Held
      <3>2. Items(ns, path) = {}
        BY <3>1 DEF Items
      <3>3. 1 .. 0 = {} /\ 0 \in 0 .. MaxStatements - 1 /\ ~ (0 > 0)
        BY FewStatements
      <3>. QED
        BY <3>2, <3>3
    <2>. QED
      BY <2>1, <2>2
  <1>22. /\ n \in Nat /\ n + 1 \in 1 .. MaxStatements
         /\ n # 0 => n \in 1 .. MaxStatements
    BY <1>5, FewStatements
  <1>6. /\ item = Append(path, ItemNames[n + 1]) /\ n + 1 \in 1 .. MaxStatements
    <2>1. CASE n = 0
      <3>1. Items(ns, path) = {}
        BY <1>5, <2>1
      <3>. QED
        <4>1. NewItem(ns, path) = Append(path, ItemNames[1]) /\ n + 1 = 1
          BY <2>1, <3>1, FirstItemIs
        <4>. QED
          BY <1>22, <4>1 DEF WithItem
    <2>2. CASE n # 0
      <3>1. n \in 1 .. MaxStatements
        BY <1>22, <2>2
      <3>. QED
        <4>1. NewItem(ns, path) = Append(path, ItemNames[n + 1])
          BY <1>5, <3>1, LastItemIs
        <4>. QED
          BY <1>22, <3>1, <4>1 DEF WithItem
    <2>. QED
      BY <2>1, <2>2
  <1>7. /\ item \in Path /\ item # <<>> /\ Front(item) = path
        /\ Last(item) = ItemNames[n + 1] /\ Last(item) \in ToSet(ItemNames)
        /\ item # path
    <2>1. ItemNames[n + 1] \in Names /\ ItemNames[n + 1] \in ToSet(ItemNames)
      BY <1>6, ItemNamesAre
    <2>2. /\ item \in Path /\ item # <<>> /\ Front(item) = path /\ Last(item) = ItemNames[n + 1]
          /\ Len(item) = Len(path) + 1
      BY <1>3, <1>6, <2>1, AppendIs, Zenon
    <2>3. Len(path) \in Nat
      BY <1>3, LongAsNat
    <2>4. item # path
      BY <2>2, <2>3
    <2>. QED
      BY <2>1, <2>2, <2>4, Zenon
  <1>8. item \notin DOMAIN m1
    <2>1. item \notin DOMAIN ns
      <3>1. n + 1 \notin Items(ns, path) /\ n + 1 \in DOMAIN ItemNames
        BY <1>5, <1>6, <1>22, ItemNamesAre
      <3>. QED
        BY <1>6, <3>1, Zenon DEF Items
    <2>. QED
      BY <1>3, <1>7, <2>1, Zenon
  <1>9. /\ DOMAIN ms = DOMAIN m1 \cup {item} /\ ms[item] = Table(TRUE, FALSE)
        /\ \A p \in DOMAIN m1 : ms[p] = m1[p]
    <2>1. ms = Put(m1, item, Table(TRUE, FALSE))
      BY <1>2, Zenon
    <2>2. /\ DOMAIN Put(m1, item, Table(TRUE, FALSE)) = DOMAIN m1 \cup {item}
          /\ Put(m1, item, Table(TRUE, FALSE))[item] = Table(TRUE, FALSE)
          /\ \A p \in DOMAIN m1 : Put(m1, item, Table(TRUE, FALSE))[p] = m1[p]
      BY <1>8, Zenon DEF Put
    <2>. QED
      BY <2>1, <2>2, Zenon
  <1>10. /\ \A p \in Path : /\ IsPrefix(p, item) <=> IsPrefix(p, path) \/ p = item
                            /\ IsStrictPrefix(p, item) <=> IsPrefix(p, path)
         /\ IsPrefix(path, path) /\ IsPrefix(item, item)
    <2>1. ItemNames[n + 1] \in Names
      BY <1>6, ItemNamesAre
    <2>2. \A p \in Path :
             LET r == Append(path, ItemNames[n + 1])
             IN  /\ IsPrefix(p, r) <=> IsPrefix(p, path) \/ p = r
                 /\ IsStrictPrefix(p, r) <=> IsPrefix(p, path)
      BY <1>3, <2>1, PrefixOfLonger
    <2>3. IsPrefix(path, path) /\ IsPrefix(item, item)
      BY <1>3, <1>7, PrefixOrder
    <2>. QED
      BY <1>6, <2>2, <2>3, Zenon
  <1>11. Open(ns, item)
    BY <1>3, <1>4, <1>8, <1>10 DEF Open
  <1>12. Grown(ns, ms)
    <2>1. DOMAIN ns \subseteq DOMAIN ms /\ DOMAIN ms \subseteq Path
      BY <1>4, <1>7, <1>9
    <2>2. \A p \in DOMAIN ns :
             ms[p] = ns[p] \/ (ns[p] = Table(FALSE, FALSE) /\ ms[p] = Table(TRUE, FALSE))
      BY <1>3, <1>4, <1>9, Zenon DEF Grown
    <2>3. ASSUME NEW p \in DOMAIN m1 \ DOMAIN ns
          PROVE  /\ p # <<>> /\ Front(p) \in DOMAIN ms /\ Open(ns, p)
                 /\ ms[Front(p)].t = (IF Last(p) \in ToSet(ItemNames) THEN "aot" ELSE "table")
      <3>1. /\ p # <<>> /\ Front(p) \in DOMAIN m1 /\ Open(ns, p)
            /\ m1[Front(p)].t = (IF Last(p) \in ToSet(ItemNames) THEN "aot" ELSE "table")
        BY <1>3 DEF Grown
      <3>2. ms[Front(p)] = m1[Front(p)] /\ Front(p) \in DOMAIN ms
        BY <1>9, <3>1
      <3>. QED
        BY <3>1, <3>2, Zenon
    <2>4. /\ Front(item) \in DOMAIN ms
          /\ ms[Front(item)].t = (IF Last(item) \in ToSet(ItemNames) THEN "aot" ELSE "table")
      <3>1. ms[path] = Tables /\ path \in DOMAIN ms
        BY <1>3, <1>9
      <3>2. Tables.t = "aot"
        BY NodesAre
      <3>. QED
        BY <1>7, <3>1, <3>2, Zenon
    <2>. QED
      BY <1>7, <1>9, <1>11, <2>1, <2>2, <2>3, <2>4, Zenon DEF Grown
  <1>13. Items(ms, path) = 1 .. n + 1
    <2>1. Items(m1, path) = 1 .. n
      BY <1>3, <1>4, <1>5, ItemsStay, Zenon
    <2>2. ASSUME NEW i \in 1 .. MaxStatements
          PROVE  Append(path, ItemNames[i]) = item <=> i = n + 1
      <3>1. ItemNames[i] \in Names
        BY ItemNamesAre
      <3>2. Last(Append(path, ItemNames[i])) = ItemNames[i]
        BY <1>3, <3>1, AppendIs
      <3>3. ItemNames[i] = ItemNames[n + 1] => i = n + 1
        BY <1>6, ItemNamesAre
      <3>4. Append(path, ItemNames[i]) = item => ItemNames[i] = ItemNames[n + 1]
        BY <1>7, <3>2, Zenon
      <3>. QED
        BY <1>6, <3>3, <3>4, Zenon
    <2>3. Items(ms, path) = Items(m1, path) \cup {n + 1}
      BY <1>6, <1>9, <2>2, ItemNamesAre DEF Items
    <2>. QED
      BY <2>1, <2>3
  <1>14. LastItem(ms, path) = item
    BY <1>6, <1>13, LastItemIs
  <1>15. \A p \in DOMAIN ms \ DOMAIN ns : ms[p].t \in {"table", "aot"} /\ ~ ms[p].inline
    <2>1. \A p \in DOMAIN ms \ DOMAIN ns :
             ms[p] \in {Table(TRUE, FALSE), Table(FALSE, FALSE), Tables}
      BY <1>3, <1>9, Zenon
    <2>2. \A node \in {Table(TRUE, FALSE), Table(FALSE, FALSE), Tables} :
             node.t \in {"table", "aot"} /\ ~ node.inline
      BY NodesAre, Zenon
    <2>. QED
      BY <2>1, <2>2, Zenon
  <1>16. ASSUME NEW p \in DOMAIN ms, ms[p].t = "aot", p # path
         PROVE  /\ p \in DOMAIN ns /\ ms[p] = ns[p]
                /\ Items(ms, p) = Items(ns, p) /\ LastItem(ms, p) = LastItem(ns, p)
    <2>1. p \in DOMAIN ns
      <3>1. CASE p = item
        BY <1>9, <1>16, <3>1, NodesAre, Zenon
      <3>2. CASE p \in DOMAIN m1 \ DOMAIN ns
        BY <1>3, <1>9, <1>16, <3>2, NodesAre, Zenon
      <3>. QED
        BY <1>9, <3>1, <3>2
    <2>2. ns[p] # Table(FALSE, FALSE)
      <3>1. ns[p].t = "aot"
        BY <1>12, <1>16, <2>1, GrownKeeps, Zenon
      <3>. QED
        BY <3>1, NodesAre, Zenon
    <2>3. ms[p] = ns[p]
      BY <1>12, <2>1, <2>2, Zenon DEF Grown
    <2>4. \A r \in DOMAIN ms \ DOMAIN ns : Front(r) # p \/ Last(r) \notin ToSet(ItemNames)
      BY <1>3, <1>7, <1>9, <1>16, Zenon
    <2>5. DOMAIN ns \subseteq DOMAIN ms /\ p \in Path
      BY <1>4, <1>12, <2>1 DEF Grown
    <2>. QED
      BY <2>1, <2>3, <2>4, <2>5, ItemsStay
  <1>18. Open(ms, item)
    BY <1>11, <1>12, <1>15, GrownIsOpen
  <1>19. Latest(ms, item)
    <2>1. ASSUME NEW p \in DOMAIN ms, ms[p].t = "aot", IsStrictPrefix(p, item)
          PROVE  IsPrefix(LastItem(ms, p), item)
      <3>1. CASE p = path
        BY <1>10, <1>14, <3>1, Zenon
      <3>2. CASE p # path
        <4>1. p \in DOMAIN ns /\ LastItem(ms, p) = LastItem(ns, p) /\ ns[p].t = "aot"
          BY <1>16, <2>1, <3>2
        <4>2. IsStrictPrefix(p, path)
          BY <1>4, <1>10, <2>1, <3>2, <4>1 DEF IsStrictPrefix
        <4>3. IsPrefix(LastItem(ns, p), path)
          BY <1>3, <4>1, <4>2 DEF Latest
        <4>4. LastItem(ns, p) \in Path
          BY <1>0, <1>4, <4>1, LastIsPath
        <4>. QED
          BY <1>10, <4>1, <4>3, <4>4
      <3>. QED
        BY <3>1, <3>2
    <2>. QED
      BY <2>1 DEF Latest
  <1>20. Heads(ns, ms, item)
    BY <1>9, <1>15, <1>18 DEF Heads
  <1>21. \A p \in DOMAIN ms \ DOMAIN ns : IsPrefix(p, item)
    BY <1>3, <1>4, <1>9, <1>10, Zenon
  <1>. QED
    <2>1. Front(item) \in DOMAIN ms /\ ms[Front(item)] = Tables
      BY <1>3, <1>7, <1>9
    <2>2. /\ item = LastItem(ms, Front(item))
          /\ Items(ns, Front(item)) = 1 .. n /\ Items(ms, Front(item)) = 1 .. n + 1
          /\ n > 0 => Front(item) \in DOMAIN ns /\ ns[Front(item)].t = "aot"
      BY <1>5, <1>7, <1>13, <1>14, Zenon
    <2>3. \A p \in DOMAIN ms : ms[p].t = "aot" =>
             \/ p = Front(item)
             \/ /\ p \in DOMAIN ns /\ ms[p] = ns[p]
                /\ Items(ms, p) = Items(ns, p) /\ LastItem(ms, p) = LastItem(ns, p)
      BY <1>7, <1>16
    <2>4. item \in DOMAIN ms /\ item \notin DOMAIN ns
      BY <1>4, <1>8, <1>9
    <2>. QED
      BY <1>7, <1>12, <1>19, <1>20, <1>21, <2>1, <2>2, <2>3, <2>4, Zenon DEF Adds

-----------------------------------------------------------------------------

\* One assignment: what it puts, and on the way to it.
Puts(ns, ms, from, parts, node) ==
    /\ CanAssign(ns, from, parts)
    /\ ms = Put(Made(ns, Between(from, parts), Table(TRUE, FALSE)), from \o parts, node)

Assigned(ns, ms, from, b, node) ==
    /\ b \in Path /\ b \notin DOMAIN ns /\ b \in DOMAIN ms /\ ms[b] = node
    /\ DOMAIN ns \subseteq DOMAIN ms /\ DOMAIN ms \subseteq Path
    /\ \A p \in DOMAIN ns : ms[p] = ns[p]
    /\ \A p \in DOMAIN ms \ DOMAIN ns :
          /\ p # <<>> /\ Front(p) \in DOMAIN ms /\ ms[Front(p)].t = "table"
          /\ Last(p) \notin ToSet(ItemNames)
          /\ IsStrictPrefix(from, p) /\ IsPrefix(p, b)
          /\ p # b => ms[p] = Table(TRUE, FALSE)
    /\ \A p \in DOMAIN ns : IsStrictPrefix(from, p) /\ IsPrefix(p, b) => Takes(ns[p])
    /\ IsStrictPrefix(from, b)

\* An assignment adds its key, and the tables on the way, and no more.
LEMMA AssignGrows ==
    ASSUME NEW ns, DOMAIN ns \subseteq Path, NEW from \in DOMAIN ns, ns[from].t = "table",
           NEW parts, Keyed(parts), NEW node, NEW ms, Puts(ns, ms, from, parts, node)
    PROVE  Assigned(ns, ms, from, from \o parts, node)
  <1>. DEFINE L == Len(parts)
              b == from \o parts
              D(i) == from \o SubSeq(parts, 1, i)
              on == Between(from, parts)
  <1>1. /\ parts \in Path /\ L \in Nat \ {0} /\ from \in Path /\ Len(from) \in Nat
        /\ \A i \in 1 .. L : parts[i] \in Names /\ parts[i] \notin ToSet(ItemNames)
    BY KeyedIs, LongAsNat
  <1>2. D(0) = from /\ D(L) = b
    <2>1. SubSeq(parts, 1, 0) = <<>> /\ SubSeq(parts, 1, L) = parts
      BY <1>1, SubSeqEmpty, SubSeqFull DEF Path
    <2>2. from \o <<>> = from
      BY <1>1, ConcatEmptySeq DEF Path
    <2>. QED
      BY <2>1, <2>2, Zenon
  <1>3. \A i \in 1 .. L :
           /\ D(i) \in Path /\ D(i) # <<>> /\ Len(D(i)) = Len(from) + i
           /\ Front(D(i)) = D(i - 1) /\ Last(D(i)) = parts[i]
           /\ IsStrictPrefix(from, D(i)) /\ IsPrefix(D(i), b)
    <2>. SUFFICES ASSUME NEW i \in 1 .. L
                  PROVE  /\ D(i) \in Path /\ D(i) # <<>> /\ Len(D(i)) = Len(from) + i
                         /\ Front(D(i)) = D(i - 1) /\ Last(D(i)) = parts[i]
                         /\ IsStrictPrefix(from, D(i)) /\ IsPrefix(D(i), b)
      OBVIOUS
    <2>1. /\ D(i) \in Path /\ Len(D(i)) = Len(from) + i
          /\ D(i) = Append(D(i - 1), parts[i]) /\ D(i - 1) \in Path /\ parts[i] \in Names
          /\ IsStrictPrefix(from, D(i)) /\ IsPrefix(D(i), b)
      BY <1>1, KeysBelow, Zenon
    <2>. HIDE DEF D, b
    <2>2. D(i) # <<>> /\ Front(D(i)) = D(i - 1) /\ Last(D(i)) = parts[i]
      <3>1. \A u \in Path : \A x \in Names :
               Append(u, x) # <<>> /\ Front(Append(u, x)) = u /\ Last(Append(u, x)) = x
        BY AppendIs
      <3>2. PICK u : u = D(i - 1)
        OBVIOUS
      <3>3. u \in Path /\ D(i) = Append(u, parts[i])
        BY <2>1, <3>2, Zenon
      <3>4. D(i) # <<>> /\ Front(D(i)) = u /\ Last(D(i)) = parts[i]
        BY <2>1, <3>1, <3>3, Zenon
      <3>. QED
        BY <3>2, <3>4, Zenon
    <2>. QED
      BY <2>1, <2>2
  <1>4. on = {D(i) : i \in 1 .. L - 1}
    BY DEF Between
  <1>5. /\ b \notin DOMAIN ns
        /\ \A p \in on \cap DOMAIN ns : Takes(ns[p])
        /\ DOMAIN ms = DOMAIN ns \cup on \cup {b}
        /\ ms[b] = node
        /\ \A p \in DOMAIN ns : ms[p] = ns[p]
        /\ \A p \in on \ (DOMAIN ns \cup {b}) : ms[p] = Table(TRUE, FALSE)
    <2>1. /\ b \notin DOMAIN ns
          /\ \A p \in on \cap DOMAIN ns : Takes(ns[p])
      BY DEF Puts, CanAssign
    <2>2. ms = Put(Made(ns, on, Table(TRUE, FALSE)), b, node)
      BY DEF Puts
    <2>. HIDE DEF on, b
    <2>3. /\ DOMAIN ms = DOMAIN ns \cup on \cup {b}
          /\ ms[b] = node
          /\ \A p \in DOMAIN ns : ms[p] = ns[p]
          /\ \A p \in on \ (DOMAIN ns \cup {b}) : ms[p] = Table(TRUE, FALSE)
      <3>. DEFINE made == Made(ns, on, Table(TRUE, FALSE))
      <3>1. /\ DOMAIN made = DOMAIN ns \cup on
            /\ \A p \in DOMAIN ns : made[p] = ns[p]
            /\ \A p \in on \ DOMAIN ns : made[p] = Table(TRUE, FALSE)
        BY MadeIs, Zenon
      <3>2. ms = Put(made, b, node)
        BY <2>2
      <3>. HIDE DEF made
      <3>3. /\ DOMAIN Put(made, b, node) = DOMAIN made \cup {b}
            /\ Put(made, b, node)[b] = node
            /\ \A p \in DOMAIN made \ {b} : Put(made, b, node)[p] = made[p]
        BY DEF Put
      <3>4. /\ DOMAIN ms = DOMAIN made \cup {b} /\ ms[b] = node
            /\ \A p \in DOMAIN made \ {b} : ms[p] = made[p]
        BY <3>2, <3>3, Zenon
      <3>. QED
        BY <2>1, <3>1, <3>4, Zenon
    <2>. QED
      BY <2>1, <2>3, Zenon
  <1>. HIDE DEF D, on, b, L
  <1>6. L \in 1 .. L /\ b \in Path /\ IsStrictPrefix(from, b)
    BY <1>1, <1>2, <1>3
  <1>7. ASSUME NEW i \in 1 .. L, D(i) \notin DOMAIN ns
        PROVE  /\ Front(D(i)) \in DOMAIN ms /\ ms[Front(D(i))].t = "table"
    <2>1. Front(D(i)) = D(i - 1)
      BY <1>3
    <2>2. CASE i = 1
      <3>1. Front(D(i)) = from
        BY <1>2, <2>1, <2>2
      <3>2. from \in DOMAIN ms /\ ms[from].t = "table"
        BY <1>5
      <3>. QED
        BY <3>1, <3>2, Zenon
    <2>3. CASE i # 1
      <3>1. i - 1 \in 1 .. L - 1 /\ i - 1 \in 1 .. L
        BY <1>1, <2>3
      <3>2. D(i - 1) \in on /\ D(i - 1) # b
        <4>1. Len(D(i - 1)) = Len(from) + (i - 1) /\ Len(D(L)) = Len(from) + L
          BY <1>3, <1>6, <3>1, Zenon
        <4>2. Len(D(i - 1)) # Len(D(L))
          BY <1>1, <3>1, <4>1
        <4>. QED
          BY <1>2, <1>4, <3>1, <4>2
      <3>3. ms[D(i - 1)].t = "table" /\ D(i - 1) \in DOMAIN ms
        <4>1. CASE D(i - 1) \in DOMAIN ns
          BY <1>5, <3>2, <4>1 DEF Takes
        <4>2. CASE D(i - 1) \notin DOMAIN ns
          <5>1. ms[D(i - 1)] = Table(TRUE, FALSE) /\ D(i - 1) \in DOMAIN ms
            BY <1>5, <3>2, <4>2, Zenon
          <5>. QED
            BY <5>1, NodesAre, Zenon
        <4>. QED
          BY <4>1, <4>2
      <3>. QED
        BY <2>1, <3>3, Zenon
    <2>. QED
      BY <2>2, <2>3
  <1>8. ASSUME NEW p \in DOMAIN ms \ DOMAIN ns
        PROVE  /\ p # <<>> /\ Front(p) \in DOMAIN ms /\ ms[Front(p)].t = "table"
               /\ Last(p) \notin ToSet(ItemNames)
               /\ IsStrictPrefix(from, p) /\ IsPrefix(p, b)
               /\ p # b => ms[p] = Table(TRUE, FALSE)
    <2>1. PICK i \in 1 .. L : p = D(i)
      <3>1. p \in on \/ p = D(L)
        BY <1>2, <1>5
      <3>2. 1 .. L - 1 \subseteq 1 .. L
        BY <1>1
      <3>. QED
        BY <1>4, <1>6, <3>1, <3>2
    <2>2. p # <<>> /\ Last(p) \notin ToSet(ItemNames) /\ IsStrictPrefix(from, p) /\ IsPrefix(p, b)
      BY <1>1, <1>3, <2>1 DEF L
    <2>3. Front(p) \in DOMAIN ms /\ ms[Front(p)].t = "table"
      BY <1>7, <2>1
    <2>4. p # b => ms[p] = Table(TRUE, FALSE)
      BY <1>5, Zenon
    <2>. QED
      BY <2>2, <2>3, <2>4, Zenon
  <1>9. ASSUME NEW p \in DOMAIN ns, IsStrictPrefix(from, p), IsPrefix(p, b)
        PROVE  Takes(ns[p])
    <2>1. p \in Path /\ Len(p) \in Nat /\ Len(from) < Len(p) /\ Len(p) <= Len(b) /\ p # b
      BY <1>1, <1>5, <1>6, <1>9, PrefixOrder, LongAsNat
    <2>2. Len(b) = Len(from) + L
      BY <1>2, <1>3, <1>6
    <2>3. Len(p) # Len(b)
      BY <1>6, <1>9, <2>1, PrefixOrder
    <2>. DEFINE i == Len(p) - Len(from)
    <2>4. i \in 1 .. L - 1 /\ i \in 1 .. L /\ Len(from) + i = Len(p)
      BY <1>1, <2>1, <2>2, <2>3
    <2>. HIDE DEF i
    <2>5. D(i) \in Path /\ IsPrefix(D(i), b) /\ Len(D(i)) = Len(p)
      BY <1>3, <2>4
    <2>6. p = D(i)
      BY <1>6, <1>9, <2>1, <2>5, PrefixOrder
    <2>. QED
      BY <1>4, <1>5, <2>4, <2>6
  <1>10. DOMAIN ms \subseteq Path
    <2>1. \A i \in 1 .. L - 1 : i \in 1 .. L
      BY <1>1
    <2>. QED
      BY <1>3, <1>4, <1>5, <1>6, <2>1
  <1>. QED
    BY <1>5, <1>6, <1>8, <1>9, <1>10, Zenon DEF Assigned, b

\* What the trees that an assignment makes are made of.
TreesOf(ns, N) ==
    [ok : BOOLEAN, nodes : {ns} \cup UNION {[D -> N] : D \in SUBSET Path}]

Holds(ns, N) == DOMAIN ns \subseteq Path /\ \A p \in DOMAIN ns : ns[p] \in N

\* An assignment to a tree makes a tree, or is refused.
LEMMA AssignIsTree ==
    ASSUME NEW ns, NEW N, Holds(ns, N), Table(TRUE, FALSE) \in N,
           NEW x \in TreesOf(ns, N), NEW from \in Path, NEW parts, Keyed(parts), NEW node \in N
    PROVE  Assign(x, from, parts, node) \in TreesOf(ns, N)
  <1>. DEFINE U == {ns} \cup UNION {[D -> N] : D \in SUBSET Path}
              b == from \o parts
              on == Between(from, parts)
              m1 == Made(x.nodes, on, Table(TRUE, FALSE))
              m2 == Put(m1, b, node)
  <1>1. x.ok \in BOOLEAN /\ x.nodes \in U
    BY DEF TreesOf
  <1>2. Holds(x.nodes, N)
    <2>1. CASE x.nodes = ns
      BY <2>1
    <2>2. CASE x.nodes # ns
      <3>1. PICK D \in SUBSET Path : x.nodes \in [D -> N]
        BY <1>1, <2>2
      <3>. QED
        BY <3>1 DEF Holds
    <2>. QED
      BY <2>1, <2>2
  <1>3. on \subseteq Path /\ b \in Path
    <2>1. parts \in Path /\ Len(parts) \in Nat \ {0}
      BY KeyedIs
    <2>2. b \in Path
      BY <2>1 DEF Path
    <2>3. \A i \in 1 .. Len(parts) - 1 : i \in 1 .. Len(parts)
      BY <2>1
    <2>4. \A i \in 1 .. Len(parts) : from \o SubSeq(parts, 1, i) \in Path
      BY <2>1, KeysBelow
    <2>. QED
      BY <2>2, <2>3, <2>4, Zenon DEF Between
  <1>. HIDE DEF on, b
  <1>4. m1 \in [DOMAIN x.nodes \cup on -> N]
    BY <1>2, Zenon DEF Holds, Made
  <1>5. m2 \in [DOMAIN x.nodes \cup on \cup {b} -> N]
    <2>. HIDE DEF m1
    <2>1. DOMAIN m1 = DOMAIN x.nodes \cup on
      BY <1>4
    <2>. QED
      BY <1>4, <2>1 DEF Put
  <1>6. m2 \in U
    <2>1. DOMAIN x.nodes \cup on \cup {b} \in SUBSET Path
      BY <1>2, <1>3 DEF Holds
    <2>. HIDE DEF m2
    <2>. QED
      BY <1>5, <2>1
  <1>7. \/ Assign(x, from, parts, node) = [ok |-> TRUE, nodes |-> m2]
        \/ Assign(x, from, parts, node) = [ok |-> FALSE, nodes |-> x.nodes]
    BY DEF Assign, on, b
  <1>8. TreesOf(ns, N) = [ok : BOOLEAN, nodes : U]
    BY DEF TreesOf
  <1>. HIDE DEF U, m2
  <1>. QED
    BY <1>1, <1>6, <1>7, <1>8, Zenon

\* A value is assigned step by step.
Fills(h, L, tree, from, parts, value) ==
    /\ h[0] = Assign(tree, from, parts, value.node)
    /\ \A n \in 1 .. L :
          h[n] = Assign(h[n - 1], from \o parts, value.fields[n].parts, value.fields[n].node)

\* A value is assigned in steps: itself, and then a field in each.
LEMMA AssignValueIs ==
    ASSUME NEW ns, DOMAIN ns \subseteq Path, NEW from \in Path, NEW parts, Keyed(parts),
           NEW value, Valued(value), NEW L, L = Len(value.fields),
           NEW tree, tree = [ok |-> TRUE, nodes |-> ns],
           NEW all, all = AssignValue(tree, from, parts, value)
    PROVE  \E h : Fills(h, L, tree, from, parts, value) /\ all = h[L]
  <1>. DEFINE b == from \o parts
              N == {ns[p] : p \in DOMAIN ns} \cup {Table(TRUE, FALSE), value.node}
                      \cup {f.node : f \in ToSet(value.fields)}
              S == TreesOf(ns, N)
              First == Assign(tree, from, parts, value.node)
              Step(n, x) == Assign(x, b, value.fields[n].parts, value.fields[n].node)
              Steps(f) == f = [n \in 0 .. Len(value.fields) |->
                                  IF n = 0 THEN Assign(tree, from, parts, value.node)
                                  ELSE Assign(f[n - 1], from \o parts,
                                              value.fields[n].parts, value.fields[n].node)]
              F == [n \in 1 .. L |-> [x \in S |-> Step(n, x)]]
  <1>1. /\ L \in Nat
        /\ \A n \in 1 .. L : value.fields[n] \in ToSet(value.fields)
        /\ \A f \in ToSet(value.fields) : Keyed(f.parts)
    <2>1. value.fields \in Seq(ToSet(value.fields))
      BY DEF Valued
    <2>. QED
      BY <2>1 DEF Valued
  <1>2. Holds(ns, N) /\ Table(TRUE, FALSE) \in N /\ value.node \in N
        /\ \A n \in 1 .. L : value.fields[n].node \in N
    BY <1>1, Zenon DEF Holds
  <1>3. parts \in Path /\ b \in Path
    BY KeyedIs DEF Path
  <1>. HIDE DEF N
  <1>4. tree \in S
    BY DEF TreesOf
  <1>5. First \in S
    BY <1>2, <1>4, AssignIsTree, Zenon
  <1>6. \A n \in 1 .. L : \A x \in S : Step(n, x) \in S
    <2>1. ASSUME NEW n \in 1 .. L, NEW x \in S
          PROVE  Step(n, x) \in S
      <3>1. Keyed(value.fields[n].parts) /\ value.fields[n].node \in N
        BY <1>1, <1>2
      <3>. HIDE DEF b
      <3>. QED
        BY <1>2, <1>3, <3>1, AssignIsTree, Zenon
    <2>. HIDE DEF S, Step
    <2>. QED
      BY <2>1
  <1>7. F \in [1 .. L -> [S -> S]]
    <2>. HIDE DEF S, Step
    <2>. QED
      BY <1>6
  <1>8. PICK h \in [0 .. L -> S] : TakesSteps(h, L, First, F)
    <2>. HIDE DEF S, F, First
    <2>. QED
      BY <1>1, <1>5, <1>7, RecursionDefines, Zenon
  <1>9. Steps(h)
    <2>1. \A n \in 1 .. L : h[n] = Step(n, h[n - 1])
      <3>1. \A n \in 1 .. L : n - 1 \in 0 .. L
        BY <1>1
      <3>. HIDE DEF S, Step
      <3>. QED
        BY <1>8, <3>1, Zenon DEF TakesSteps
    <2>2. \A n \in 0 .. L : n # 0 => n \in 1 .. L
      BY <1>1
    <2>3. h = [n \in 0 .. L |-> h[n]] /\ h[0] = First
      BY <1>8 DEF TakesSteps
    <2>4. h = [n \in 0 .. L |-> IF n = 0 THEN First ELSE Step(n, h[n - 1])]
      <3>. HIDE DEF F, First, Step
      <3>. QED
        BY <2>1, <2>2, <2>3, Zenon
    <2>. QED
      BY <2>4, Zenon
  <1>10. Steps(CHOOSE f : Steps(f))
    <2>. HIDE DEF Steps
    <2>. QED
      BY <1>9
  <1>. DEFINE g == CHOOSE f : Steps(f)
  <1>11. all = g[L]
    BY DEF AssignValue
  <1>12. Steps(g)
    BY <1>10, Zenon
  <1>13. g = [n \in 0 .. L |-> IF n = 0 THEN First ELSE Step(n, g[n - 1])]
    <2>. HIDE DEF g
    <2>. QED
      BY <1>12, Zenon
  <1>. HIDE DEF g, First, Step
  <1>14. g[0] = First /\ \A n \in 1 .. L : g[n] = Step(n, g[n - 1])
    <2>1. \A n \in 0 .. L : g[n] = IF n = 0 THEN First ELSE Step(n, g[n - 1])
      BY <1>13, Zenon
    <2>2. 0 \in 0 .. L /\ \A n \in 1 .. L : n \in 0 .. L /\ n # 0
      BY <1>1
    <2>. QED
      BY <2>1, <2>2
  <1>15. Fills(g, L, tree, from, parts, value)
    BY <1>14 DEF Fills, First, Step
  <1>. QED
    BY <1>11, <1>15

\* The tree an assignment makes is the last of its steps, and none was refused.
LEMMA NoneRefused ==
    ASSUME NEW h, NEW L \in Nat, NEW ns, NEW tree, tree = [ok |-> TRUE, nodes |-> ns],
           NEW from, NEW parts, NEW value, Fills(h, L, tree, from, parts, value), h[L].ok
    PROVE  /\ Puts(ns, h[0].nodes, from, parts, value.node)
           /\ \A n \in 1 .. L : Puts(h[n - 1].nodes, h[n].nodes, from \o parts,
                                     value.fields[n].parts, value.fields[n].node)
  <1>1. ASSUME NEW x, NEW c, NEW keys, NEW node, Assign(x, c, keys, node).ok
        PROVE  x.ok /\ Puts(x.nodes, Assign(x, c, keys, node).nodes, c, keys, node)
    <2>. DEFINE y == Assign(x, c, keys, node)
    <2>1. CASE x.ok /\ CanAssign(x.nodes, c, keys)
      <3>1. y.nodes = Put(Made(x.nodes, Between(c, keys), Table(TRUE, FALSE)), c \o keys, node)
        BY <1>1, <2>1 DEF Assign
      <3>. QED
        BY <2>1, <3>1 DEF Puts
    <2>2. CASE ~ (x.ok /\ CanAssign(x.nodes, c, keys))
      <3>1. y = [ok |-> FALSE, nodes |-> x.nodes]
        BY <1>1, <2>2 DEF Assign
      <3>2. ~ y.ok
        BY <3>1
      <3>. QED
        BY <1>1, <3>2
    <2>. QED
      BY <2>1, <2>2
  <1>2. h[0] = Assign(tree, from, parts, value.node)
    BY DEF Fills
  <1>3. ASSUME NEW n \in 1 .. L, h[n].ok
        PROVE  /\ h[n - 1].ok
               /\ Puts(h[n - 1].nodes, h[n].nodes, from \o parts,
                       value.fields[n].parts, value.fields[n].node)
    <2>1. h[n] = Assign(h[n - 1], from \o parts, value.fields[n].parts, value.fields[n].node)
      BY DEF Fills
    <2>. DEFINE x == h[n - 1]
                y == h[n]
                keys == value.fields[n].parts
                node == value.fields[n].node
    <2>2. y = Assign(x, from \o parts, keys, node) /\ y.ok
      BY <1>3, <2>1, Zenon
    <2>. HIDE DEF x, y, keys, node
    <2>3. Assign(x, from \o parts, keys, node).ok
      BY <2>2, Zenon
    <2>4. /\ x.ok
          /\ Puts(x.nodes, Assign(x, from \o parts, keys, node).nodes, from \o parts, keys, node)
      BY <1>1, <2>3, Zenon
    <2>5. x.ok /\ Puts(x.nodes, y.nodes, from \o parts, keys, node)
      BY <2>2, <2>4, Zenon
    <2>. QED
      BY <2>5, Zenon DEF x, y, keys, node
  <1>. DEFINE P == {n \in 0 .. L : h[L - n].ok}
  <1>4. 0 \in P
    OBVIOUS
  <1>5. \A n \in 0 .. L - 1 : n \in P => n + 1 \in P
    <2>1. ASSUME NEW n \in 0 .. L - 1, n \in P
          PROVE  n + 1 \in P
      <3>1. L - n \in 1 .. L /\ h[L - n].ok /\ (L - n) - 1 = L - (n + 1) /\ n + 1 \in 0 .. L
        BY <2>1
      <3>2. h[(L - n) - 1].ok
        BY <1>3, <3>1
      <3>. QED
        BY <3>1, <3>2
    <2>. QED
      BY <2>1
  <1>6. P = 0 .. L
    <2>1. P \in SUBSET (0 .. L)
      OBVIOUS
    <2>. HIDE DEF P
    <2>. QED
      BY <1>4, <1>5, <2>1, UpTo
  <1>7. \A n \in 0 .. L : h[n].ok
    <2>1. ASSUME NEW n \in 0 .. L
          PROVE  h[n].ok
      <3>1. L - n \in 0 .. L /\ L - (L - n) = n
        OBVIOUS
      <3>. QED
        BY <1>6, <3>1
    <2>. QED
      BY <2>1
  <1>8. Puts(ns, h[0].nodes, from, parts, value.node)
    <2>1. h[0].ok /\ tree.nodes = ns
      BY <1>7
    <2>. QED
      BY <1>1, <1>2, <2>1, Zenon
  <1>. QED
    BY <1>3, <1>7, <1>8

\* After a value and the first n of its fields.
Filled(ns, m, from, b, value, n) ==
    /\ b \in Path /\ b \notin DOMAIN ns /\ b \in DOMAIN m /\ m[b] = value.node
    /\ IsStrictPrefix(from, b)
    /\ DOMAIN ns \subseteq DOMAIN m /\ DOMAIN m \subseteq Path
    /\ \A p \in DOMAIN ns : m[p] = ns[p]
    /\ \A p \in DOMAIN m \ DOMAIN ns :
          /\ p # <<>> /\ Front(p) \in DOMAIN m /\ m[Front(p)].t = "table"
          /\ Last(p) \notin ToSet(ItemNames) /\ IsStrictPrefix(from, p)
          /\ \/ IsPrefix(p, b) /\ (p # b => m[p] = Table(TRUE, FALSE))
             \/ /\ IsStrictPrefix(b, p)
                /\ \E k \in 1 .. n :
                      /\ IsPrefix(p, b \o value.fields[k].parts)
                      /\ p # b \o value.fields[k].parts => m[p] = Table(TRUE, FALSE)
    /\ \A k \in 1 .. n : LET e == b \o value.fields[k].parts
                         IN  e \in DOMAIN m \ DOMAIN ns /\ m[e] = value.fields[k].node
    /\ \A p \in DOMAIN ns : IsStrictPrefix(from, p) /\ IsPrefix(p, b) => Takes(ns[p])

\* One more field of an inline table keeps those before it.
LEMMA NextFilled ==
    ASSUME NEW ns, NEW m, NEW from \in Path, NEW b, NEW value, Valued(value), NEW n \in Nat,
           n + 1 \in 1 .. Len(value.fields), Filled(ns, m, from, b, value, n),
           NEW ms, Puts(m, ms, b, value.fields[n + 1].parts, value.fields[n + 1].node)
    PROVE  Filled(ns, ms, from, b, value, n + 1)
  <1>. DEFINE f == value.fields[n + 1]
              e == b \o f.parts
  <1>1. f \in ToSet(value.fields) /\ Keyed(f.parts) /\ value.node.t = "table"
    <2>1. value.fields \in Seq(ToSet(value.fields))
      BY DEF Valued
    <2>2. f \in ToSet(value.fields) /\ value.fields # <<>>
      BY <2>1
    <2>3. value.inline /\ value.node = Table(TRUE, TRUE)
      BY <2>2, Zenon DEF Valued
    <2>4. value.node.t = "table"
      BY <2>3, NodesAre, Zenon
    <2>. QED
      BY <2>2, <2>4 DEF Valued
  <1>. DEFINE Old(M, p) ==
                 \/ IsPrefix(p, b) /\ (p # b => M[p] = Table(TRUE, FALSE))
                 \/ /\ IsStrictPrefix(b, p)
                    /\ \E k \in 1 .. n :
                          /\ IsPrefix(p, b \o value.fields[k].parts)
                          /\ p # b \o value.fields[k].parts => M[p] = Table(TRUE, FALSE)
              New(M, p) ==
                 \/ IsPrefix(p, b) /\ (p # b => M[p] = Table(TRUE, FALSE))
                 \/ /\ IsStrictPrefix(b, p)
                    /\ \E k \in 1 .. n + 1 :
                          /\ IsPrefix(p, b \o value.fields[k].parts)
                          /\ p # b \o value.fields[k].parts => M[p] = Table(TRUE, FALSE)
  <1>2. /\ b \in Path /\ b \notin DOMAIN ns /\ b \in DOMAIN m /\ m[b] = value.node
        /\ IsStrictPrefix(from, b)
        /\ DOMAIN ns \subseteq DOMAIN m /\ DOMAIN m \subseteq Path
        /\ \A p \in DOMAIN ns : m[p] = ns[p]
        /\ \A p \in DOMAIN m \ DOMAIN ns :
              /\ p # <<>> /\ Front(p) \in DOMAIN m /\ m[Front(p)].t = "table"
              /\ Last(p) \notin ToSet(ItemNames) /\ IsStrictPrefix(from, p)
              /\ Old(m, p)
        /\ \A k \in 1 .. n : LET d == b \o value.fields[k].parts
                             IN  d \in DOMAIN m \ DOMAIN ns /\ m[d] = value.fields[k].node
        /\ \A p \in DOMAIN ns : IsStrictPrefix(from, p) /\ IsPrefix(p, b) => Takes(ns[p])
    BY Zenon DEF Filled
  <1>3. Assigned(m, ms, b, e, f.node)
    <2>1. m[b].t = "table"
      BY <1>1, <1>2, Zenon
    <2>. HIDE DEF Old, New
    <2>2. Puts(m, ms, b, f.parts, f.node)
      OBVIOUS
    <2>. HIDE DEF f
    <2>. QED
      BY <1>1, <1>2, <2>1, <2>2, AssignGrows
  <1>. HIDE DEF Old, f
  <1>4. /\ e \in Path /\ e \notin DOMAIN m /\ e \in DOMAIN ms /\ ms[e] = f.node
        /\ DOMAIN m \subseteq DOMAIN ms /\ DOMAIN ms \subseteq Path
        /\ \A p \in DOMAIN m : ms[p] = m[p]
        /\ \A p \in DOMAIN ms \ DOMAIN m :
              /\ p # <<>> /\ Front(p) \in DOMAIN ms /\ ms[Front(p)].t = "table"
              /\ Last(p) \notin ToSet(ItemNames)
              /\ IsStrictPrefix(b, p) /\ IsPrefix(p, e)
              /\ p # e => ms[p] = Table(TRUE, FALSE)
    BY <1>3, Zenon DEF Assigned
  <1>5. ASSUME NEW p \in DOMAIN m, Old(m, p)
        PROVE  New(ms, p)
    <2>1. ms[p] = m[p]
      BY <1>4
    <2>2. \A k \in 1 .. n : k \in 1 .. n + 1
      OBVIOUS
    <2>. QED
      BY <1>5, <2>1, <2>2, Zenon DEF Old
  <1>6. ASSUME NEW p \in DOMAIN ms \ DOMAIN m
        PROVE  New(ms, p)
    <2>1. IsStrictPrefix(b, p) /\ IsPrefix(p, e) /\ (p # e => ms[p] = Table(TRUE, FALSE))
      BY <1>4, Zenon
    <2>2. n + 1 \in 1 .. n + 1
      OBVIOUS
    <2>. QED
      BY <2>1, <2>2, Zenon DEF f
  <1>. HIDE DEF New
  <1>7. ASSUME NEW p \in DOMAIN ms \ DOMAIN ns
        PROVE  /\ p # <<>> /\ Front(p) \in DOMAIN ms /\ ms[Front(p)].t = "table"
               /\ Last(p) \notin ToSet(ItemNames) /\ IsStrictPrefix(from, p)
               /\ New(ms, p)
    <2>1. CASE p \in DOMAIN m
      <3>1. /\ p # <<>> /\ Front(p) \in DOMAIN m /\ m[Front(p)].t = "table"
            /\ Last(p) \notin ToSet(ItemNames) /\ IsStrictPrefix(from, p) /\ Old(m, p)
        BY <1>2, <1>7, <2>1
      <3>2. Front(p) \in DOMAIN ms /\ ms[Front(p)] = m[Front(p)]
        BY <1>4, <3>1
      <3>. QED
        BY <1>5, <2>1, <3>1, <3>2, Zenon
    <2>2. CASE p \notin DOMAIN m
      <3>1. IsStrictPrefix(from, p)
        <4>1. IsStrictPrefix(b, p) /\ p \in Path
          BY <1>4, <1>7, <2>2, Zenon
        <4>2. /\ IsPrefix(from, b) /\ Len(from) < Len(b) /\ IsPrefix(b, p) /\ Len(b) < Len(p)
          BY <1>2, <4>1, PrefixOrder
        <4>3. Len(from) \in Nat /\ Len(b) \in Nat /\ Len(p) \in Nat
          BY <1>2, <4>1, LongAsNat
        <4>4. IsPrefix(from, p) /\ Len(from) < Len(p)
          BY <1>2, <4>1, <4>2, <4>3, PrefixOrder
        <4>. QED
          BY <4>1, <4>4, PrefixOrder
      <3>. QED
        BY <1>4, <1>6, <1>7, <2>2, <3>1, Zenon
    <2>. QED
      BY <2>1, <2>2
  <1>8. ASSUME NEW k \in 1 .. n + 1
        PROVE  LET d == b \o value.fields[k].parts
               IN  d \in DOMAIN ms \ DOMAIN ns /\ ms[d] = value.fields[k].node
    <2>1. CASE k \in 1 .. n
      <3>. DEFINE d == b \o value.fields[k].parts
      <3>1. d \in DOMAIN m \ DOMAIN ns /\ m[d] = value.fields[k].node
        BY <1>2, <2>1
      <3>. HIDE DEF d
      <3>2. d \in DOMAIN ms \ DOMAIN ns /\ ms[d] = value.fields[k].node
        BY <1>4, <3>1
      <3>. QED
        BY <3>2 DEF d
    <2>2. CASE k = n + 1
      <3>1. e \in DOMAIN ms \ DOMAIN ns /\ ms[e] = f.node
        BY <1>2, <1>4
      <3>. QED
        BY <2>2, <3>1, Zenon DEF f
    <2>. QED
      BY <2>1, <2>2
  <1>9. /\ b \in DOMAIN ms /\ ms[b] = value.node
        /\ DOMAIN ns \subseteq DOMAIN ms
        /\ \A p \in DOMAIN ns : ms[p] = ns[p]
    BY <1>2, <1>4
  <1>. HIDE DEF e
  <1>. QED
    BY <1>2, <1>4, <1>7, <1>8, <1>9, Zenon DEF Filled, New

\* A value that is assigned is there with all its fields.
LEMMA AllFilled ==
    ASSUME NEW ns, DOMAIN ns \subseteq Path, NEW from \in DOMAIN ns, ns[from].t = "table",
           NEW parts, Keyed(parts), NEW value, Valued(value),
           NEW L, L = Len(value.fields), NEW tree, tree = [ok |-> TRUE, nodes |-> ns],
           NEW all, all = AssignValue(tree, from, parts, value), all.ok
    PROVE  Filled(ns, all.nodes, from, from \o parts, value, L)
  <1>. DEFINE b == from \o parts
  <1>1. from \in Path /\ L \in Nat
    <2>1. value.fields \in Seq(ToSet(value.fields))
      BY DEF Valued
    <2>. QED
      BY <2>1
  <1>2. PICK h : Fills(h, L, tree, from, parts, value) /\ all = h[L]
    BY <1>1, AssignValueIs
  <1>3. /\ Puts(ns, h[0].nodes, from, parts, value.node)
        /\ \A n \in 1 .. L : Puts(h[n - 1].nodes, h[n].nodes, b,
                                  value.fields[n].parts, value.fields[n].node)
    BY <1>1, <1>2, NoneRefused
  <1>. DEFINE P == {n \in 0 .. L : Filled(ns, h[n].nodes, from, b, value, n)}
  <1>4. 0 \in P
    <2>1. Assigned(ns, h[0].nodes, from, b, value.node)
      BY <1>3, AssignGrows
    <2>. DEFINE m == h[0].nodes
    <2>2. /\ b \in Path /\ b \notin DOMAIN ns /\ b \in DOMAIN m /\ m[b] = value.node
          /\ DOMAIN ns \subseteq DOMAIN m /\ DOMAIN m \subseteq Path
          /\ \A p \in DOMAIN ns : m[p] = ns[p]
          /\ \A p \in DOMAIN m \ DOMAIN ns :
                /\ p # <<>> /\ Front(p) \in DOMAIN m /\ m[Front(p)].t = "table"
                /\ Last(p) \notin ToSet(ItemNames)
                /\ IsStrictPrefix(from, p) /\ IsPrefix(p, b)
                /\ p # b => m[p] = Table(TRUE, FALSE)
          /\ \A p \in DOMAIN ns : IsStrictPrefix(from, p) /\ IsPrefix(p, b) => Takes(ns[p])
          /\ IsStrictPrefix(from, b)
      BY <2>1, Zenon DEF Assigned
    <2>. HIDE DEF m, b
    <2>3. Filled(ns, m, from, b, value, 0)
      <3>1. \A k \in 1 .. 0 : FALSE
        OBVIOUS
      <3>. QED
        BY <2>2, <3>1, Zenon DEF Filled
    <2>. QED
      BY <1>1, <2>3 DEF m
  <1>5. ASSUME NEW n \in 0 .. L - 1, n \in P
        PROVE  n + 1 \in P
    <2>1. n \in Nat /\ n + 1 \in 1 .. L /\ (n + 1) - 1 = n /\ n + 1 \in 0 .. L
      BY <1>1
    <2>2. Filled(ns, h[n].nodes, from, b, value, n)
      BY <1>5
    <2>3. Puts(h[n].nodes, h[n + 1].nodes, b, value.fields[n + 1].parts, value.fields[n + 1].node)
      BY <1>3, <2>1
    <2>. HIDE DEF b
    <2>4. Filled(ns, h[n + 1].nodes, from, b, value, n + 1)
      BY <1>1, <2>1, <2>2, <2>3, NextFilled
    <2>. QED
      BY <2>1, <2>4
  <1>6. P = 0 .. L
    <2>1. P \in SUBSET (0 .. L)
      OBVIOUS
    <2>. HIDE DEF P
    <2>. QED
      BY <1>1, <1>4, <1>5, <2>1, UpTo, Zenon
  <1>. QED
    BY <1>1, <1>2, <1>6

\* An assignment gives its value, and that of an inline table nothing else.
GivenBy(path, value) ==
    IF value.inline
    THEN {<<path \o f.parts, f.node>> : f \in ToSet(value.fields)}
    ELSE {<<path, value.node>>}

Scalars(ns) == {q \in DOMAIN ns : ns[q].t \notin {"table", "aot"}}

Gives(ns, ms, b, value) ==
    /\ b \notin DOMAIN ns /\ ms[b] = value.node
    /\ \A p \in DOMAIN ns : ms[p] = ns[p]
    /\ \A p \in DOMAIN ms \ DOMAIN ns : p \in Scalars(ms) => <<p, ms[p]>> \in GivenBy(b, value)
    /\ \A g \in GivenBy(b, value) : g[1] \in Scalars(ms) /\ ms[g[1]] = g[2]
    /\ value.inline =>
          \A p \in DOMAIN ms : IsStrictPrefix(b, p) =>
             \E f \in ToSet(value.fields) : IsPrefix(p, b \o f.parts)

\* What an assigned value adds: its scalars, and tables of its own.
LEMMA FilledGives ==
    ASSUME NEW ns, Sound(ns), NEW ms, NEW from \in Path, NEW b, NEW value, Valued(value),
           NEW L, L = Len(value.fields), Filled(ns, ms, from, b, value, L)
    PROVE  Gives(ns, ms, b, value)
  <1>. DEFINE e(k) == b \o value.fields[k].parts
  <1>1. /\ b \in Path /\ b \notin DOMAIN ns /\ b \in DOMAIN ms /\ ms[b] = value.node
        /\ DOMAIN ms \subseteq Path
        /\ \A p \in DOMAIN ns : ms[p] = ns[p]
        /\ \A p \in DOMAIN ms \ DOMAIN ns :
              \/ IsPrefix(p, b) /\ (p # b => ms[p] = Table(TRUE, FALSE))
              \/ /\ IsStrictPrefix(b, p)
                 /\ \E k \in 1 .. L :
                       /\ IsPrefix(p, e(k))
                       /\ p # e(k) => ms[p] = Table(TRUE, FALSE)
        /\ \A k \in 1 .. L : e(k) \in DOMAIN ms \ DOMAIN ns /\ ms[e(k)] = value.fields[k].node
    BY Zenon DEF Filled
  <1>2. /\ L \in Nat
        /\ \A k \in 1 .. L : value.fields[k] \in ToSet(value.fields)
        /\ \A f \in ToSet(value.fields) : \E k \in 1 .. L : f = value.fields[k]
        /\ \A f \in ToSet(value.fields) : Keyed(f.parts) /\ IsScalar(f.node)
        /\ value.inline \/ (IsScalar(value.node) /\ L = 0)
        /\ value.inline => value.node = Table(TRUE, TRUE)
    <2>1. value.fields \in Seq(ToSet(value.fields))
      BY DEF Valued
    <2>2. /\ L \in Nat
          /\ \A k \in 1 .. L : value.fields[k] \in ToSet(value.fields)
          /\ \A f \in ToSet(value.fields) : \E k \in 1 .. L : f = value.fields[k]
      BY <2>1 DEF ToSet
    <2>3. /\ \A f \in ToSet(value.fields) : Keyed(f.parts) /\ IsScalar(f.node)
          /\ value.inline \/ (IsScalar(value.node) /\ value.fields = <<>>)
          /\ value.inline => value.node = Table(TRUE, TRUE)
      BY Zenon DEF Valued
    <2>4. value.fields = <<>> => L = 0
      OBVIOUS
    <2>. QED
      BY <2>2, <2>3, <2>4, Zenon
  <1>3. /\ Table(TRUE, FALSE).t = "table" /\ Table(TRUE, TRUE).t = "table"
        /\ \A node : IsScalar(node) => node.t \notin {"table", "aot"}
    BY NodesAre, Zenon DEF IsScalar
  <1>4. ASSUME NEW p \in DOMAIN ms \ DOMAIN ns, p \in Scalars(ms)
        PROVE  <<p, ms[p]>> \in GivenBy(b, value)
    <2>0. ms[p] # Table(TRUE, FALSE) /\ ms[p] # Table(TRUE, TRUE)
      BY <1>3, <1>4, Zenon DEF Scalars
    <2>1. CASE IsPrefix(p, b) /\ (p # b => ms[p] = Table(TRUE, FALSE))
      <3>1. p = b /\ ~ value.inline
        BY <1>1, <1>2, <2>0, <2>1, Zenon
      <3>. QED
        BY <1>1, <3>1 DEF GivenBy
    <2>2. CASE \E k \in 1 .. L : /\ IsPrefix(p, e(k))
                                 /\ p # e(k) => ms[p] = Table(TRUE, FALSE)
      <3>1. PICK k \in 1 .. L : p = e(k)
        BY <2>0, <2>2, Zenon
      <3>2. value.inline
        BY <1>2
      <3>3. ms[p] = value.fields[k].node /\ value.fields[k] \in ToSet(value.fields)
        BY <1>1, <1>2, <3>1
      <3>. QED
        BY <3>1, <3>2, <3>3, Zenon DEF GivenBy
    <2>. QED
      BY <1>1, <1>4, <2>1, <2>2, Zenon
  <1>5. ASSUME NEW g \in GivenBy(b, value)
        PROVE  g[1] \in Scalars(ms) /\ ms[g[1]] = g[2]
    <2>1. CASE value.inline
      <3>1. PICK f \in ToSet(value.fields) : g = <<b \o f.parts, f.node>>
        BY <2>1 DEF GivenBy
      <3>2. PICK k \in 1 .. L : f = value.fields[k]
        BY <1>2
      <3>3. g[1] = e(k) /\ g[2] = f.node
        BY <3>1, <3>2, Zenon
      <3>4. g[1] \in DOMAIN ms /\ ms[g[1]] = f.node
        BY <1>1, <3>2, <3>3
      <3>. QED
        BY <1>2, <1>3, <3>3, <3>4, Zenon DEF Scalars
    <2>2. CASE ~ value.inline
      <3>1. g = <<b, value.node>>
        BY <2>2 DEF GivenBy
      <3>. QED
        BY <1>1, <1>2, <1>3, <2>2, <3>1 DEF Scalars
    <2>. QED
      BY <2>1, <2>2
  <1>6. ASSUME NEW p \in DOMAIN ms, IsStrictPrefix(b, p)
        PROVE  \E f \in ToSet(value.fields) : IsPrefix(p, b \o f.parts)
    <2>1. p \in Path /\ IsPrefix(b, p) /\ b # p
      BY <1>1, <1>6 DEF IsStrictPrefix
    <2>2. p \notin DOMAIN ns
      BY <1>1, <2>1, AboveIsHeld DEF Sound
    <2>3. ~ IsPrefix(p, b)
      BY <1>1, <2>1, PrefixOrder
    <2>4. PICK k \in 1 .. L : IsPrefix(p, e(k))
      BY <1>1, <2>2, <2>3, Zenon
    <2>. QED
      BY <1>2, <2>4
  <1>. QED
    BY <1>1, <1>4, <1>5, <1>6 DEF Gives

\* So an assignment adds to the tree at its key.
LEMMA FilledAdds ==
    ASSUME NEW ns, Sound(ns), NEW ms, NEW from \in DOMAIN ns, ns[from].t = "table",
           Open(ns, from), Latest(ns, from), NEW b, NEW value, Valued(value),
           NEW L, L = Len(value.fields), Filled(ns, ms, from, b, value, L)
    PROVE  Adds(ns, ms, "key", b) /\ Open(ms, from) /\ Latest(ms, from)
  <1>0. DOMAIN ns \subseteq Path /\ Held(ns) /\ from \in Path
    BY DEF Sound
  <1>1. /\ b \in Path /\ b \notin DOMAIN ns /\ b \in DOMAIN ms
        /\ IsStrictPrefix(from, b)
        /\ DOMAIN ns \subseteq DOMAIN ms /\ DOMAIN ms \subseteq Path
        /\ \A p \in DOMAIN ns : ms[p] = ns[p]
        /\ \A p \in DOMAIN ms \ DOMAIN ns :
              /\ p # <<>> /\ Front(p) \in DOMAIN ms /\ ms[Front(p)].t = "table"
              /\ Last(p) \notin ToSet(ItemNames) /\ IsStrictPrefix(from, p)
              /\ IsPrefix(p, b) \/ IsStrictPrefix(b, p)
        /\ \A p \in DOMAIN ns : IsStrictPrefix(from, p) /\ IsPrefix(p, b) => Takes(ns[p])
    BY Zenon DEF Filled
  <1>2. Gives(ns, ms, b, value)
    BY <1>0, FilledGives
  <1>3. \A p \in DOMAIN ms \ DOMAIN ns : ms[p].t # "aot"
    <2>1. /\ \A p \in DOMAIN ms \ DOMAIN ns :
                \/ p = b
                \/ ms[p] = Table(TRUE, FALSE)
                \/ \E k \in 1 .. L : p = b \o value.fields[k].parts
          /\ \A k \in 1 .. L : LET e == b \o value.fields[k].parts
                               IN  ms[e] = value.fields[k].node
          /\ ms[b] = value.node
      BY Zenon DEF Filled
    <2>2. /\ \A k \in 1 .. L : value.fields[k] \in ToSet(value.fields)
          /\ \A f \in ToSet(value.fields) : IsScalar(f.node)
          /\ value.node = Table(TRUE, TRUE) \/ IsScalar(value.node)
      <3>1. value.fields \in Seq(ToSet(value.fields))
        BY DEF Valued
      <3>2. \A k \in 1 .. L : value.fields[k] \in ToSet(value.fields)
        BY <3>1
      <3>3. /\ \A f \in ToSet(value.fields) : IsScalar(f.node)
            /\ value.node = Table(TRUE, TRUE) \/ IsScalar(value.node)
        BY Zenon DEF Valued
      <3>. QED
        BY <3>2, <3>3, Zenon
    <2>3. /\ Table(TRUE, FALSE).t # "aot" /\ Table(TRUE, TRUE).t # "aot"
          /\ \A node : IsScalar(node) => node.t # "aot"
      BY NodesAre, Zenon DEF IsScalar
    <2>4. /\ ms[b].t # "aot"
          /\ \A k \in 1 .. L : ms[b \o value.fields[k].parts].t # "aot"
      BY <2>1, <2>2, <2>3, Zenon
    <2>. QED
      BY <2>1, <2>3, <2>4, Zenon
  <1>4. ASSUME NEW r \in DOMAIN ns, IsPrefix(r, b)
        PROVE  /\ ~ ns[r].inline
               /\ ns[r].t = "aot" => IsStrictPrefix(r, from)
    <2>1. r \in Path /\ (IsPrefix(r, from) \/ IsPrefix(from, r))
      BY <1>0, <1>1, <1>4, PrefixOrder
    <2>2. CASE IsPrefix(r, from)
      <3>1. ~ ns[r].inline
        BY <2>2 DEF Open
      <3>2. ns[r].t = "aot" => r # from
        BY Zenon
      <3>. QED
        BY <2>2, <3>1, <3>2 DEF IsStrictPrefix
    <2>3. CASE IsPrefix(from, r) /\ r # from
      <3>1. IsStrictPrefix(from, r)
        BY <2>3 DEF IsStrictPrefix
      <3>2. Takes(ns[r])
        BY <1>1, <1>4, <3>1
      <3>3. ns[r].t = "table" /\ ~ ns[r].inline
        BY <3>2, Zenon DEF Takes
      <3>. QED
        BY <3>3, Zenon
    <2>4. CASE r = from
      <3>1. IsPrefix(from, from)
        BY <1>0, PrefixOrder
      <3>. QED
        BY <2>2, <2>4, <3>1
    <2>. QED
      BY <2>1, <2>2, <2>3, <2>4
  <1>5. ASSUME NEW p \in DOMAIN ms \ DOMAIN ns
        PROVE  Open(ns, p)
    <2>1. p \in Path
      BY <1>1, <1>5
    <2>2. ASSUME NEW r \in DOMAIN ns, IsPrefix(r, p)
          PROVE  IsPrefix(r, b)
      <3>0. r \in Path
        BY <1>0
      <3>1. CASE IsPrefix(p, b)
        BY <1>1, <2>1, <2>2, <3>0, <3>1, PrefixOrder
      <3>2. CASE IsStrictPrefix(b, p)
        <4>1. IsPrefix(b, p)
          BY <3>2 DEF IsStrictPrefix
        <4>2. IsPrefix(r, b) \/ IsPrefix(b, r)
          BY <1>1, <2>1, <2>2, <3>0, <4>1, PrefixOrder
        <4>3. ~ IsPrefix(b, r)
          BY <1>0, <1>1, AboveIsHeld
        <4>. QED
          BY <4>2, <4>3
      <3>. QED
        BY <1>1, <1>5, <3>1, <3>2
    <2>. QED
      BY <1>4, <2>2 DEF Open
  <1>6. Grown(ns, ms)
    <2>1. ASSUME NEW p \in DOMAIN ms \ DOMAIN ns
          PROVE  ms[Front(p)].t = (IF Last(p) \in ToSet(ItemNames) THEN "aot" ELSE "table")
      BY <1>1, <2>1, Zenon
    <2>. QED
      BY <1>1, <1>5, <2>1, Zenon DEF Grown
  <1>7. \A p \in DOMAIN ns : /\ Items(ms, p) = Items(ns, p)
                             /\ LastItem(ms, p) = LastItem(ns, p)
    BY <1>0, <1>1, ItemsStay
  <1>8. Latest(ms, from)
    BY <1>3, <1>6, <1>7, GrownIsLatest
  <1>9. Open(ms, from)
    <2>1. \A p \in DOMAIN ms \ DOMAIN ns : ~ IsPrefix(p, from)
      <3>1. ASSUME NEW p \in DOMAIN ms \ DOMAIN ns, IsPrefix(p, from)
            PROVE  FALSE
        BY <1>0, <1>1, <3>1, AboveIsHeld
      <3>. QED
        BY <3>1
    <2>. QED
      BY <1>6, <2>1, GrownIsOpen
  <1>10. Latest(ms, b)
    <2>1. ASSUME NEW p \in DOMAIN ms, ms[p].t = "aot", IsStrictPrefix(p, b)
          PROVE  IsPrefix(LastItem(ms, p), b)
      <3>1. p \in DOMAIN ns /\ ns[p].t = "aot" /\ IsPrefix(p, b)
        BY <1>1, <1>3, <2>1 DEF IsStrictPrefix
      <3>2. IsStrictPrefix(p, from)
        BY <1>4, <3>1
      <3>3. IsPrefix(LastItem(ns, p), from) /\ LastItem(ns, p) \in Path
        BY <3>1, <3>2, LastIsPath DEF Latest
      <3>4. IsPrefix(from, b)
        BY <1>1 DEF IsStrictPrefix
      <3>5. IsPrefix(LastItem(ns, p), b)
        BY <1>0, <1>1, <3>3, <3>4, PrefixOrder
      <3>. QED
        BY <1>7, <3>1, <3>5
    <2>. QED
      BY <2>1 DEF Latest
  <1>11. \A p \in DOMAIN ms : ms[p].t = "aot" =>
            /\ p \in DOMAIN ns /\ ms[p] = ns[p]
            /\ Items(ms, p) = Items(ns, p) /\ LastItem(ms, p) = LastItem(ns, p)
    BY <1>1, <1>3, <1>7
  <1>. QED
    BY <1>1, <1>6, <1>8, <1>9, <1>10, <1>11, Zenon DEF Adds

-----------------------------------------------------------------------------
\* One statement more.
States(kind, q, value) ==
    /\ Adds(nodes, nodes', kind, q)
    /\ doc' = Append(doc, [kind |-> kind, path |-> q, value |-> value])
    /\ Len(doc) < MaxStatements /\ status' = status
    /\ kind \in {"header", "item", "key"} /\ q \in Path /\ Valued(value)
    /\ nodes'[q] = IF kind = "key" THEN value.node ELSE Table(TRUE, FALSE)
    /\ IF kind = "key" THEN Gives(nodes, nodes', q, value)
       ELSE \A p \in DOMAIN nodes' \ DOMAIN nodes : nodes'[p].t \in {"table", "aot"}
    /\ current' \in DOMAIN nodes' /\ Takes(nodes'[current'])
    /\ Open(nodes', current') /\ Latest(nodes', current')

\* A statement is the last of a longer document.
LEMMA DocIsLonger ==
    ASSUME IInv, NEW kind, NEW q, NEW value, States(kind, q, value)
    PROVE  /\ Len(doc) \in 0 .. MaxStatements - 1 /\ DOMAIN doc = 1 .. Len(doc)
           /\ Len(doc') = Len(doc) + 1 /\ DOMAIN doc' = 1 .. Len(doc) + 1
           /\ \A i \in DOMAIN doc : doc'[i] = doc[i]
           /\ doc'[Len(doc) + 1] = [kind |-> kind, path |-> q, value |-> value]
           /\ doc' \in Seq(ToSet(doc'))
  <1>1. doc \in Seq(ToSet(doc)) /\ Len(doc) < MaxStatements
    BY DEF IInv, TypeOK, States
  <1>2. doc' = Append(doc, [kind |-> kind, path |-> q, value |-> value])
    BY DEF States
  <1>3. Len(doc) \in 0 .. MaxStatements - 1
    <2>1. Len(doc) \in Nat
      BY <1>1
    <2>. QED
      BY <1>1, <2>1, FewStatements
  <1>4. /\ DOMAIN doc = 1 .. Len(doc)
        /\ Len(doc') = Len(doc) + 1 /\ DOMAIN doc' = 1 .. Len(doc) + 1
        /\ \A i \in DOMAIN doc : doc'[i] = doc[i]
        /\ doc'[Len(doc) + 1] = [kind |-> kind, path |-> q, value |-> value]
    <2>. DEFINE T == ToSet(doc) \cup {[kind |-> kind, path |-> q, value |-> value]}
    <2>1. doc \in Seq(T)
      <3>1. ToSet(doc) \subseteq T
        OBVIOUS
      <3>. HIDE DEF T
      <3>. QED
        BY <1>1, <3>1, SeqMonotonic
    <2>2. [kind |-> kind, path |-> q, value |-> value] \in T
      OBVIOUS
    <2>. HIDE DEF T
    <2>. QED
      BY <1>2, <2>1, <2>2
  <1>5. doc' \in Seq(ToSet(doc'))
    <2>1. doc' = [i \in 1 .. Len(doc) + 1 |-> doc'[i]]
      BY <1>1, <1>2
    <2>2. \A i \in 1 .. Len(doc) + 1 : doc'[i] \in ToSet(doc')
      BY <1>4 DEF ToSet
    <2>3. Len(doc) + 1 \in Nat
      BY <1>3
    <2>. QED
      BY <2>1, <2>2, <2>3
  <1>. QED
    BY <1>3, <1>4, <1>5

\* What was stated is not a table made on the way, and stays.
LEMMA StatedStays ==
    ASSUME IInv, NEW kind, NEW q, NEW value, States(kind, q, value), NEW i \in DOMAIN doc
    PROVE  /\ doc[i].path \in DOMAIN nodes /\ doc[i].path \in DOMAIN nodes'
           /\ nodes[doc[i].path] # Table(FALSE, FALSE)
           /\ nodes'[doc[i].path] = nodes[doc[i].path]
           /\ nodes[doc[i].path] = IF doc[i].kind = "key" THEN doc[i].value.node
                                                          ELSE Table(TRUE, FALSE)
           /\ q # doc[i].path
  <1>1. /\ doc[i].path \in DOMAIN nodes
        /\ nodes[doc[i].path] = IF doc[i].kind = "key" THEN doc[i].value.node
                                                       ELSE Table(TRUE, FALSE)
    BY Zenon DEF IInv, StatedIsThere
  <1>2. Valued(doc[i].value)
    BY DEF IInv, TypeOK
  <1>3. /\ doc[i].value.node # Table(FALSE, FALSE)
        /\ Table(TRUE, FALSE) # Table(FALSE, FALSE)
    <2>1. IsScalar(doc[i].value.node) \/ doc[i].value.node = Table(TRUE, TRUE)
      BY <1>2, Zenon DEF Valued
    <2>2. /\ ~ IsScalar(Table(FALSE, FALSE))
          /\ Table(TRUE, TRUE) # Table(FALSE, FALSE) /\ Table(TRUE, FALSE) # Table(FALSE, FALSE)
      BY Zenon DEF IsScalar, Table
    <2>. QED
      BY <2>1, <2>2, Zenon
  <1>4. nodes[doc[i].path] # Table(FALSE, FALSE)
    BY <1>1, <1>3, Zenon
  <1>5. Grown(nodes, nodes') /\ (q \in DOMAIN nodes => nodes[q] = Table(FALSE, FALSE))
    BY Zenon DEF States, Adds
  <1>6. nodes'[doc[i].path] = nodes[doc[i].path] /\ doc[i].path \in DOMAIN nodes'
    BY <1>1, <1>4, <1>5, Zenon DEF Grown
  <1>. QED
    BY <1>1, <1>4, <1>5, <1>6, Zenon

\* The tree of a document is sound.
LEMMA NodesAreSound ==
    ASSUME IInv
    PROVE  Sound(nodes)
  <1>1. Len(doc) \in Nat /\ MaxStatements \in Nat /\ Len(doc) <= MaxStatements
    BY ItemsAreNamed DEF IInv, TypeOK
  <1>2. \A n \in 1 .. Len(doc) : n \in 1 .. MaxStatements
    BY <1>1
  <1>3. Numbered(nodes)
    BY <1>2 DEF IInv, ItemsInOrder, Numbered
  <1>4. <<>> \in DOMAIN nodes
    <2>1. current \in DOMAIN nodes /\ DOMAIN nodes \subseteq Path
      BY DEF IInv, TypeOK, Path
    <2>2. Held(nodes) /\ <<>> \in Path
      BY DEF IInv, IsATree, Held, Path
    <2>3. IsPrefix(<<>>, current)
      BY <2>1, <2>2, PrefixOrder
    <2>. QED
      BY <2>1, <2>2, <2>3, AboveIsHeld
  <1>. QED
    BY <1>3, <1>4 DEF IInv, TypeOK, IsATree, Held, Sound, Path

\* The invariant after a statement, part by part.
LEMMA TypeStays ==
    ASSUME IInv, NEW kind, NEW q, NEW value, States(kind, q, value)
    PROVE  TypeOK' /\ nodes'[<<>>] = Table(TRUE, FALSE) /\ CurrentIsOpen' /\ Held(nodes')
  <1>1. /\ Len(doc) \in 0 .. MaxStatements - 1 /\ DOMAIN doc = 1 .. Len(doc)
        /\ Len(doc') = Len(doc) + 1 /\ DOMAIN doc' = 1 .. Len(doc) + 1
        /\ \A i \in DOMAIN doc : doc'[i] = doc[i]
        /\ doc'[Len(doc) + 1] = [kind |-> kind, path |-> q, value |-> value]
        /\ doc' \in Seq(ToSet(doc'))
    BY DocIsLonger
  <1>2. /\ Grown(nodes, nodes') /\ Len(doc) < MaxStatements /\ status' = status
        /\ kind \in {"header", "item", "key"} /\ q \in Path /\ Valued(value)
        /\ current' \in DOMAIN nodes' /\ Takes(nodes'[current'])
        /\ Open(nodes', current') /\ Latest(nodes', current')
    BY DEF States, Adds
  <1>3. \A i \in DOMAIN doc' :
           /\ doc'[i].kind \in {"header", "item", "key"}
           /\ doc'[i].path \in Seq(Names) /\ Valued(doc'[i].value)
    <2>1. ASSUME NEW i \in DOMAIN doc
          PROVE  /\ doc'[i].kind \in {"header", "item", "key"}
                 /\ doc'[i].path \in Seq(Names) /\ Valued(doc'[i].value)
      BY <1>1, <2>1 DEF IInv, TypeOK
    <2>2. LET i == Len(doc) + 1
          IN  /\ doc'[i].kind \in {"header", "item", "key"}
              /\ doc'[i].path \in Seq(Names) /\ Valued(doc'[i].value)
      BY <1>1, <1>2 DEF Path
    <2>3. \A i \in DOMAIN doc' : i \in DOMAIN doc \/ i = Len(doc) + 1
      BY <1>1
    <2>. QED
      BY <2>1, <2>2, <2>3
  <1>4. Len(doc') <= MaxStatements
    BY <1>1, <1>2, ItemsAreNamed
  <1>5. TypeOK'
    <2>1. DOMAIN nodes' \subseteq Seq(Names) /\ status' \in {"reading", "refused"}
      BY <1>2 DEF IInv, TypeOK, Grown, Path
    <2>. QED
      BY <1>1, <1>2, <1>3, <1>4, <2>1 DEF TypeOK, Takes
  <1>6. nodes'[<<>>] = Table(TRUE, FALSE)
    <2>1. <<>> \in DOMAIN nodes
      BY NodesAreSound DEF Sound
    <2>2. Table(TRUE, FALSE) # Table(FALSE, FALSE)
      BY Zenon DEF Table
    <2>. QED
      BY <1>2, <2>1, <2>2, Zenon DEF IInv, Grown
  <1>7. CurrentIsOpen'
    BY <1>2 DEF CurrentIsOpen, Open, Latest, LastItem, Items
  <1>8. Held(nodes')
    BY <1>2, NodesAreSound, GrownIsHeld
  <1>. QED
    BY <1>5, <1>6, <1>7, <1>8

\* What was stated stays where it was stated, nothing is stated twice, and
\* no node comes from nowhere.
LEMMA StatedIsKept ==
    ASSUME IInv, NEW kind, NEW q, NEW value, States(kind, q, value)
    PROVE  StatedIsThere' /\ StatedOnce' /\ NothingElse'
  <1>1. /\ Len(doc) \in 0 .. MaxStatements - 1 /\ DOMAIN doc = 1 .. Len(doc)
        /\ Len(doc') = Len(doc) + 1 /\ DOMAIN doc' = 1 .. Len(doc) + 1
        /\ \A i \in DOMAIN doc : doc'[i] = doc[i]
        /\ doc'[Len(doc) + 1] = [kind |-> kind, path |-> q, value |-> value]
    BY DocIsLonger
  <1>2. \A i \in DOMAIN doc' : i \in DOMAIN doc \/ i = Len(doc) + 1
    BY <1>1
  <1>3. ASSUME NEW i \in DOMAIN doc
        PROVE  /\ doc'[i].path \in DOMAIN nodes'
               /\ nodes'[doc'[i].path] =
                     IF doc'[i].kind = "key" THEN doc'[i].value.node ELSE Table(TRUE, FALSE)
               /\ doc'[i].kind = "item" =>
                     doc'[i].path # <<>> /\ nodes'[Front(doc'[i].path)].t = "aot"
    <2>1. /\ doc[i].path \in DOMAIN nodes /\ doc[i].path \in DOMAIN nodes'
          /\ nodes'[doc[i].path] = nodes[doc[i].path]
          /\ nodes[doc[i].path] = IF doc[i].kind = "key" THEN doc[i].value.node
                                                         ELSE Table(TRUE, FALSE)
      BY StatedStays, Zenon
    <2>2. ASSUME doc[i].kind = "item"
          PROVE  doc[i].path # <<>> /\ nodes'[Front(doc[i].path)].t = "aot"
      <3>1. doc[i].path # <<>> /\ nodes[Front(doc[i].path)].t = "aot"
        BY <2>2, Zenon DEF IInv, StatedIsThere
      <3>2. Front(doc[i].path) \in DOMAIN nodes
        BY <2>1, <3>1 DEF IInv, IsATree
      <3>3. Grown(nodes, nodes')
        BY DEF States, Adds
      <3>4. nodes'[Front(doc[i].path)].t = nodes[Front(doc[i].path)].t
        BY <3>2, <3>3, GrownKeeps, Zenon
      <3>. QED
        BY <3>1, <3>4
    <2>3. doc'[i] = doc[i]
      BY <1>1
    <2>. QED
      BY <2>1, <2>2, <2>3, Zenon
  <1>4. LET i == Len(doc) + 1
        IN  /\ doc'[i].path \in DOMAIN nodes'
            /\ nodes'[doc'[i].path] =
                  IF doc'[i].kind = "key" THEN doc'[i].value.node ELSE Table(TRUE, FALSE)
            /\ doc'[i].kind = "item" =>
                  doc'[i].path # <<>> /\ nodes'[Front(doc'[i].path)].t = "aot"
    <2>1. /\ q \in DOMAIN nodes'
          /\ nodes'[q] = IF kind = "key" THEN value.node ELSE Table(TRUE, FALSE)
          /\ kind = "item" => q # <<>> /\ nodes'[Front(q)].t = "aot"
      <3>1. kind = "item" => q # <<>> /\ nodes'[Front(q)] = Tables
        BY DEF States, Adds
      <3>2. kind = "item" => q # <<>> /\ nodes'[Front(q)].t = "aot"
        BY <3>1, NodesAre, Zenon
      <3>. QED
        BY <3>2 DEF States, Adds
    <2>2. LET r == [kind |-> kind, path |-> q, value |-> value]
          IN  r.kind = kind /\ r.path = q /\ r.value = value
      OBVIOUS
    <2>. QED
      BY <1>1, <2>1, <2>2, Zenon
  <1>5. StatedIsThere'
    BY <1>2, <1>3, <1>4, Zenon DEF StatedIsThere
  <1>6. StatedOnce'
    <2>1. \A i \in DOMAIN doc : doc'[i].path = doc[i].path /\ doc[i].path # q
      BY <1>1, StatedStays, Zenon
    <2>2. doc'[Len(doc) + 1].path = q
      BY <1>1
    <2>3. \A i, j \in DOMAIN doc : i # j => doc[i].path # doc[j].path
      BY DEF IInv, StatedOnce
    <2>. QED
      BY <1>2, <2>1, <2>2, <2>3 DEF StatedOnce
  <1>7. NothingElse'
    <2>1. ASSUME NEW p \in DOMAIN nodes' \ {<<>>}
          PROVE  \E i \in DOMAIN doc' :
                    \/ IsPrefix(p, doc'[i].path)
                    \/ doc'[i].kind = "key" /\ IsStrictPrefix(doc'[i].path, p)
      <3>1. CASE p \in DOMAIN nodes
        <4>1. PICK i \in DOMAIN doc :
                 \/ IsPrefix(p, doc[i].path)
                 \/ doc[i].kind = "key" /\ IsStrictPrefix(doc[i].path, p)
          BY <2>1, <3>1 DEF IInv, NothingElse
        <4>2. i \in DOMAIN doc' /\ doc'[i] = doc[i]
          BY <1>1
        <4>. QED
          BY <4>1, <4>2, Zenon
      <3>2. CASE p \notin DOMAIN nodes
        <4>1. IsPrefix(p, q) \/ (kind = "key" /\ IsStrictPrefix(q, p))
          BY <2>1, <3>2 DEF States, Adds
        <4>2. /\ Len(doc) + 1 \in DOMAIN doc'
              /\ doc'[Len(doc) + 1].path = q /\ doc'[Len(doc) + 1].kind = kind
          BY <1>1
        <4>. QED
          BY <4>1, <4>2, Zenon
      <3>. QED
        BY <3>1, <3>2
    <2>. QED
      BY <2>1, Zenon DEF NothingElse
  <1>. QED
    BY <1>5, <1>6, <1>7

\* The items of an array keep their order, and the last stated is the last.
LEMMA ItemsAreKept ==
    ASSUME IInv, NEW kind, NEW q, NEW value, States(kind, q, value)
    PROVE  ItemsInOrder' /\ LastStatedIsLast'
  <1>1. /\ Len(doc) \in 0 .. MaxStatements - 1 /\ DOMAIN doc = 1 .. Len(doc)
        /\ Len(doc') = Len(doc) + 1 /\ DOMAIN doc' = 1 .. Len(doc) + 1
        /\ \A i \in DOMAIN doc : doc'[i] = doc[i]
        /\ doc'[Len(doc) + 1] = [kind |-> kind, path |-> q, value |-> value]
    BY DocIsLonger
  <1>2. /\ kind = "item" =>
              /\ q # <<>> /\ Front(q) \in DOMAIN nodes' /\ nodes'[Front(q)] = Tables
              /\ q = LastItem(nodes', Front(q))
              /\ \E n \in 0 .. MaxStatements - 1 :
                    /\ Items(nodes, Front(q)) = 1 .. n /\ Items(nodes', Front(q)) = 1 .. n + 1
                    /\ n > 0 => Front(q) \in DOMAIN nodes /\ nodes[Front(q)].t = "aot"
        /\ \A p \in DOMAIN nodes' : nodes'[p].t = "aot" =>
              \/ kind = "item" /\ p = Front(q)
              \/ /\ p \in DOMAIN nodes /\ nodes'[p] = nodes[p]
                 /\ Items(nodes', p) = Items(nodes, p) /\ LastItem(nodes', p) = LastItem(nodes, p)
    BY DEF States, Adds
  <1>3. ASSUME NEW p \in DOMAIN nodes', nodes'[p].t = "aot"
        PROVE  nodes'[p] = Tables /\ \E n \in 1 .. Len(doc') : Items(nodes', p) = 1 .. n
    <2>1. CASE kind = "item" /\ p = Front(q)
      <3>1. PICK n \in 0 .. MaxStatements - 1 :
               /\ Items(nodes, p) = 1 .. n /\ Items(nodes', p) = 1 .. n + 1
               /\ n > 0 => p \in DOMAIN nodes /\ nodes[p].t = "aot"
        BY <1>2, <2>1
      <3>2. n <= Len(doc)
        <4>1. CASE n = 0
          BY <1>1, <4>1
        <4>2. CASE n # 0
          <5>1. PICK m \in 1 .. Len(doc) : Items(nodes, p) = 1 .. m
            BY <3>1, <4>2 DEF IInv, ItemsInOrder
          <5>2. n \in 1 .. m /\ m \in 0 .. MaxStatements - 1
            BY <1>1, <3>1, <4>2, <5>1
          <5>. QED
            BY <1>1, <5>1, <5>2
        <4>. QED
          BY <4>1, <4>2
      <3>3. n + 1 \in 1 .. Len(doc')
        BY <1>1, <3>2
      <3>. QED
        BY <1>2, <2>1, <3>1, <3>3
    <2>2. CASE /\ p \in DOMAIN nodes /\ nodes'[p] = nodes[p]
               /\ Items(nodes', p) = Items(nodes, p)
      <3>1. nodes[p] = Tables /\ \E n \in 1 .. Len(doc) : Items(nodes, p) = 1 .. n
        BY <1>3, <2>2 DEF IInv, ItemsInOrder
      <3>2. \A n \in 1 .. Len(doc) : n \in 1 .. Len(doc')
        BY <1>1
      <3>. QED
        BY <2>2, <3>1, <3>2
    <2>. QED
      BY <1>2, <1>3, <2>1, <2>2
  <1>4. ItemsInOrder'
    BY <1>3 DEF ItemsInOrder, Items
  <1>5. ASSUME NEW i \in DOMAIN doc', doc'[i].kind = "item",
               \A k \in i + 1 .. Len(doc') :
                  ~ (doc'[k].kind = "item" /\ Front(doc'[k].path) = Front(doc'[i].path))
        PROVE  doc'[i].path = LastItem(nodes', Front(doc'[i].path))
    <2>1. CASE i = Len(doc) + 1
      <3>1. doc'[i].path = q /\ kind = "item"
        BY <1>1, <1>5, <2>1
      <3>. QED
        BY <1>2, <3>1
    <2>2. CASE i \in DOMAIN doc
      <3>. DEFINE array == Front(doc[i].path)
      <3>1. doc'[i] = doc[i] /\ doc[i].kind = "item"
        BY <1>1, <1>5, <2>2
      <3>2. \A k \in i + 1 .. Len(doc) : ~ (doc[k].kind = "item" /\ Front(doc[k].path) = array)
        <4>1. \A k \in i + 1 .. Len(doc) :
                 k \in i + 1 .. Len(doc') /\ k \in DOMAIN doc /\ doc'[k] = doc[k]
          BY <1>1, <2>2
        <4>. QED
          BY <1>5, <3>1, <4>1
      <3>3. doc[i].path = LastItem(nodes, array)
        BY <2>2, <3>1, <3>2 DEF IInv, LastStatedIsLast
      <3>4. ~ (kind = "item" /\ array = Front(q))
        <4>1. Len(doc) + 1 \in i + 1 .. Len(doc')
          BY <1>1, <2>2
        <4>2. doc'[Len(doc) + 1].kind = kind /\ doc'[Len(doc) + 1].path = q
          BY <1>1
        <4>. QED
          BY <1>5, <3>1, <4>1, <4>2
      <3>5. array \in DOMAIN nodes' /\ nodes'[array].t = "aot"
        <4>1. /\ doc[i].path \in DOMAIN nodes' /\ doc'[i].path # <<>>
              /\ nodes'[Front(doc'[i].path)].t = "aot"
          BY <2>2, <3>1, StatedIsKept, StatedStays, Zenon DEF StatedIsThere
        <4>2. Held(nodes')
          BY TypeStays, Zenon
        <4>. QED
          BY <3>1, <4>1, <4>2 DEF Held
      <3>6. LastItem(nodes', array) = LastItem(nodes, array)
        BY <1>2, <3>4, <3>5
      <3>. QED
        BY <3>1, <3>3, <3>6
    <2>. QED
      BY <1>1, <1>5, <2>1, <2>2
  <1>6. LastStatedIsLast'
    BY <1>5, Zenon DEF LastStatedIsLast, LastItem, Items
  <1>. QED
    BY <1>4, <1>6

\* A tree with a statement more is a tree, and no inline table has grown.
LEMMA StaysATree ==
    ASSUME IInv, NEW kind, NEW q, NEW value, States(kind, q, value)
    PROVE  IsATree'
  <1>1. /\ Len(doc) \in 0 .. MaxStatements - 1 /\ DOMAIN doc = 1 .. Len(doc)
        /\ DOMAIN doc' = 1 .. Len(doc) + 1
        /\ \A i \in DOMAIN doc : doc'[i] = doc[i]
        /\ doc'[Len(doc) + 1] = [kind |-> kind, path |-> q, value |-> value]
    BY DocIsLonger
  <1>2. ASSUME NEW i \in DOMAIN doc', doc'[i].kind = "key", doc'[i].value.inline,
               NEW p \in DOMAIN nodes', IsStrictPrefix(doc'[i].path, p)
        PROVE  \E f \in ToSet(doc'[i].value.fields) : IsPrefix(p, doc'[i].path \o f.parts)
    <2>1. CASE i = Len(doc) + 1
      <3>1. doc'[i].kind = kind /\ doc'[i].path = q /\ doc'[i].value = value
        BY <1>1, <2>1
      <3>2. Gives(nodes, nodes', q, value)
        BY <1>2, <3>1 DEF States
      <3>3. value.inline /\ IsStrictPrefix(q, p)
        BY <1>2, <3>1, Zenon
      <3>4. \E f \in ToSet(value.fields) : IsPrefix(p, q \o f.parts)
        BY <1>2, <3>2, <3>3, Zenon DEF Gives
      <3>. QED
        BY <3>1, <3>4, Zenon
    <2>2. CASE i \in DOMAIN doc
      <3>1. doc'[i] = doc[i]
        BY <1>1, <2>2
      <3>2. doc[i].kind = "key" /\ doc[i].value.inline /\ IsStrictPrefix(doc[i].path, p)
        BY <1>2, <3>1, Zenon
      <3>3. p \in DOMAIN nodes
        <4>1. doc[i].path \in DOMAIN nodes /\ nodes[doc[i].path] = doc[i].value.node
          BY <2>2, <3>2, StatedStays, Zenon
        <4>2. Valued(doc[i].value)
          BY <2>2 DEF IInv, TypeOK
        <4>3. nodes[doc[i].path] = Table(TRUE, TRUE)
          BY <3>2, <4>1, <4>2, Zenon DEF Valued
        <4>4. nodes[doc[i].path].inline
          BY <4>3, NodesAre, Zenon
        <4>5. IsPrefix(doc[i].path, p)
          BY <3>2 DEF IsStrictPrefix
        <4>6. ~ Open(nodes, p)
          BY <4>1, <4>4, <4>5, Zenon DEF Open
        <4>. QED
          BY <1>2, <4>6 DEF States, Adds, Grown
      <3>4. \E f \in ToSet(doc[i].value.fields) : IsPrefix(p, doc[i].path \o f.parts)
        BY <2>2, <3>2, <3>3, Zenon DEF IInv, IsATree
      <3>. QED
        BY <3>1, <3>4, Zenon
    <2>. QED
      BY <1>1, <1>2, <2>1, <2>2
  <1>3. Held(nodes')
    BY TypeStays, Zenon
  <1>4. \A p \in DOMAIN nodes' \ {<<>>} :
           /\ Front(p) \in DOMAIN nodes'
           /\ nodes'[Front(p)].t = (IF Last(p) \in ToSet(ItemNames) THEN "aot" ELSE "table")
    BY <1>3, Zenon DEF Held
  <1>5. \A i \in DOMAIN doc' :
           doc'[i].kind = "key" /\ doc'[i].value.inline =>
              \A p \in DOMAIN nodes' :
                 IsStrictPrefix(doc'[i].path, p) =>
                    \E f \in ToSet(doc'[i].value.fields) : IsPrefix(p, doc'[i].path \o f.parts)
    BY <1>2, Zenon
  <1>. QED
    BY <1>4, <1>5, Zenon DEF IsATree

\* What is stated is stated below the latest items.
LEMMA UnderLatestStays ==
    ASSUME IInv, NEW kind, NEW q, NEW value, States(kind, q, value)
    PROVE  UnderLatestItem'
  <1>1. /\ Len(doc) \in 0 .. MaxStatements - 1 /\ DOMAIN doc = 1 .. Len(doc)
        /\ Len(doc') = Len(doc) + 1 /\ DOMAIN doc' = 1 .. Len(doc) + 1
        /\ \A i \in DOMAIN doc : doc'[i] = doc[i]
        /\ doc'[Len(doc) + 1] = [kind |-> kind, path |-> q, value |-> value]
    BY DocIsLonger
  <1>2. ASSUME NEW i \in DOMAIN doc', NEW j \in DOMAIN doc', i < j, doc'[i].kind = "item",
               IsStrictPrefix(Front(doc'[i].path), doc'[j].path),
               \A k \in i + 1 .. j :
                  ~ (doc'[k].kind = "item" /\ Front(doc'[k].path) = Front(doc'[i].path))
        PROVE  IsPrefix(doc'[i].path, doc'[j].path)
    <2>1. CASE j \in DOMAIN doc
      <3>1. i \in DOMAIN doc /\ \A k \in i + 1 .. j : k \in DOMAIN doc
        BY <1>1, <1>2, <2>1
      <3>2. doc'[i] = doc[i] /\ doc'[j] = doc[j] /\ \A k \in i + 1 .. j : doc'[k] = doc[k]
        BY <1>1, <2>1, <3>1
      <3>. DEFINE array == Front(doc[i].path)
      <3>3. \A k \in i + 1 .. j : ~ (doc[k].kind = "item" /\ Front(doc[k].path) = array)
        BY <1>2, <3>2
      <3>4. i < j /\ doc[i].kind = "item" /\ IsStrictPrefix(array, doc[j].path)
        BY <1>2, <3>2
      <3>5. IsPrefix(doc[i].path, doc[j].path)
        BY <2>1, <3>1, <3>3, <3>4 DEF IInv, UnderLatestItem
      <3>. QED
        BY <3>2, <3>5
    <2>2. CASE j = Len(doc) + 1
      <3>. DEFINE array == Front(doc'[i].path)
      <3>1. doc'[j].path = q /\ j = Len(doc')
        BY <1>1, <2>2
      <3>2. LastStatedIsLast' /\ StatedIsThere' /\ Held(nodes')
        BY TypeStays, StatedIsKept, ItemsAreKept, Zenon
      <3>3. doc'[i].path = LastItem(nodes', array)
        BY <1>2, <3>1, <3>2, Zenon DEF LastStatedIsLast, LastItem, Items
      <3>4. array \in DOMAIN nodes' /\ nodes'[array].t = "aot"
        BY <1>2, <3>2, Zenon DEF StatedIsThere, Held
      <3>5. Latest(nodes', q)
        BY DEF States, Adds
      <3>. QED
        BY <1>2, <3>1, <3>3, <3>4, <3>5 DEF Latest
    <2>. QED
      BY <1>1, <1>2, <2>1, <2>2
  <1>. QED
    BY <1>2 DEF UnderLatestItem

\* What the statements of a document give.
GivenIn(d) ==
    UNION {IF d[i].kind # "key" THEN {} ELSE GivenBy(d[i].path, d[i].value) : i \in DOMAIN d}

\* What a document gave, as it was and as it will be.
LEMMA GivenIs ==
    /\ Given = GivenIn(doc)
    /\ Given' = GivenIn(doc')
  BY DEF Given, GivenIn, GivenBy

\* The tree holds the scalars stated, and no other.
LEMMA HoldsStays ==
    ASSUME IInv, NEW kind, NEW q, NEW value, States(kind, q, value)
    PROVE  HoldsWhatWasGiven'
  <1>1. /\ Len(doc) \in 0 .. MaxStatements - 1 /\ DOMAIN doc = 1 .. Len(doc)
        /\ DOMAIN doc' = 1 .. Len(doc) + 1
        /\ \A i \in DOMAIN doc : doc'[i] = doc[i]
        /\ doc'[Len(doc) + 1] = [kind |-> kind, path |-> q, value |-> value]
    BY DocIsLonger
  <1>. DEFINE new == IF kind = "key" THEN GivenBy(q, value) ELSE {}
  <1>2. GivenIn(doc') = GivenIn(doc) \cup new
    <2>1. ASSUME NEW g
          PROVE  g \in GivenIn(doc') <=> g \in GivenIn(doc) \cup new
      <3>. DEFINE Gave(d, i) == IF d[i].kind # "key" THEN {} ELSE GivenBy(d[i].path, d[i].value)
      <3>1. /\ g \in GivenIn(doc') <=> \E i \in DOMAIN doc' : g \in Gave(doc', i)
            /\ g \in GivenIn(doc) <=> \E i \in DOMAIN doc : g \in Gave(doc, i)
        BY DEF GivenIn
      <3>2. \A i \in DOMAIN doc : i \in DOMAIN doc' /\ Gave(doc', i) = Gave(doc, i)
        BY <1>1
      <3>3. Len(doc) + 1 \in DOMAIN doc' /\ Gave(doc', Len(doc) + 1) = new
        <4>1. LET r == [kind |-> kind, path |-> q, value |-> value]
              IN  r.kind = kind /\ r.path = q /\ r.value = value
          OBVIOUS
        <4>2. Gave(doc', Len(doc) + 1) = new
          BY <1>1, <4>1, Zenon
        <4>. QED
          BY <1>1, <4>2
      <3>4. \A i \in DOMAIN doc' : i \in DOMAIN doc \/ i = Len(doc) + 1
        BY <1>1
      <3>. HIDE DEF Gave, new
      <3>. QED
        BY <3>1, <3>2, <3>3, <3>4
    <2>. HIDE DEF new
    <2>. QED
      BY <2>1
  <1>3. {<<p, nodes[p]>> : p \in Scalars(nodes)} = GivenIn(doc)
    BY GivenIs DEF IInv, HoldsWhatWasGiven, Scalars
  <1>4. /\ \A p \in DOMAIN nodes : /\ p \in Scalars(nodes) <=> p \in Scalars(nodes')
                                   /\ p \in Scalars(nodes) => nodes'[p] = nodes[p]
    <2>1. ASSUME NEW p \in DOMAIN nodes
          PROVE  /\ p \in Scalars(nodes) <=> p \in Scalars(nodes')
                 /\ p \in Scalars(nodes) => nodes'[p] = nodes[p]
      <3>1. Grown(nodes, nodes')
        BY DEF States, Adds
      <3>2. /\ p \in DOMAIN nodes' /\ nodes'[p].t = nodes[p].t
            /\ nodes[p] # Table(FALSE, FALSE) => nodes'[p] = nodes[p]
        BY <3>1, GrownKeeps, Zenon
      <3>3. Table(FALSE, FALSE).t = "table"
        BY NodesAre, Zenon
      <3>. QED
        BY <3>2, <3>3, Zenon DEF Scalars
    <2>. QED
      BY <2>1
  <1>5. /\ \A p \in DOMAIN nodes' \ DOMAIN nodes :
              p \in Scalars(nodes') => <<p, nodes'[p]>> \in new
        /\ \A g \in new : g[1] \in Scalars(nodes') /\ nodes'[g[1]] = g[2] /\ g = <<g[1], g[2]>>
    <2>1. CASE kind = "key"
      <3>1. Gives(nodes, nodes', q, value)
        BY <2>1 DEF States
      <3>2. \A g \in GivenBy(q, value) : g = <<g[1], g[2]>>
        BY DEF GivenBy
      <3>. QED
        BY <2>1, <3>1, <3>2, Zenon DEF Gives
    <2>2. CASE kind # "key"
      <3>1. \A p \in DOMAIN nodes' \ DOMAIN nodes : nodes'[p].t \in {"table", "aot"}
        BY <2>2 DEF States
      <3>. QED
        BY <2>2, <3>1 DEF Scalars
    <2>. QED
      BY <2>1, <2>2
  <1>6. Scalars(nodes) \subseteq DOMAIN nodes /\ Scalars(nodes') \subseteq DOMAIN nodes'
    BY DEF Scalars
  <1>. HIDE DEF new
  <1>7. {<<p, nodes'[p]>> : p \in Scalars(nodes')} = GivenIn(doc')
    <2>1. ASSUME NEW p \in Scalars(nodes')
          PROVE  <<p, nodes'[p]>> \in GivenIn(doc')
      <3>1. CASE p \in DOMAIN nodes
        <4>1. p \in Scalars(nodes) /\ nodes'[p] = nodes[p]
          BY <1>4, <2>1, <3>1
        <4>2. <<p, nodes[p]>> \in GivenIn(doc)
          BY <1>3, <4>1
        <4>. QED
          BY <1>2, <4>1, <4>2
      <3>2. CASE p \notin DOMAIN nodes
        BY <1>2, <1>5, <1>6, <2>1, <3>2
      <3>. QED
        BY <3>1, <3>2
    <2>2. ASSUME NEW g \in GivenIn(doc')
          PROVE  \E p \in Scalars(nodes') : g = <<p, nodes'[p]>>
      <3>1. CASE g \in GivenIn(doc)
        <4>1. PICK p \in Scalars(nodes) : g = <<p, nodes[p]>>
          BY <1>3, <3>1
        <4>. QED
          BY <1>4, <1>6, <4>1
      <3>2. CASE g \in new
        BY <1>5, <3>2
      <3>. QED
        BY <1>2, <2>2, <3>1, <3>2
    <2>. QED
      BY <2>1, <2>2
  <1>. QED
    BY <1>7, GivenIs DEF HoldsWhatWasGiven, Scalars

\* A statement that is taken keeps the invariant.
LEMMA StatesKeeps ==
    ASSUME IInv, NEW kind, NEW q, NEW value, States(kind, q, value)
    PROVE  IInv'
  BY TypeStays, StatedIsKept, ItemsAreKept, StaysATree, UnderLatestStays, HoldsStays, Zenon
  DEF IInv

-----------------------------------------------------------------------------
\* What a refusal leaves.
LEMMA UnmovedKeeps ==
    ASSUME IInv, nodes' = nodes, current' = current, doc' = doc,
           status' \in {"reading", "refused"}
    PROVE  IInv'
  <1>1. TypeOK'
    BY DEF IInv, TypeOK
  <1>2. /\ nodes'[<<>>] = Table(TRUE, FALSE) /\ StatedIsThere' /\ NothingElse'
        /\ StatedOnce' /\ UnderLatestItem'
    BY Zenon DEF IInv, StatedIsThere, NothingElse, StatedOnce, UnderLatestItem
  <1>3. ItemsInOrder' /\ LastStatedIsLast' /\ CurrentIsOpen'
    BY Zenon DEF IInv, ItemsInOrder, LastStatedIsLast, CurrentIsOpen, LastItem, Items, Open, Latest
  <1>4. IsATree'
    BY DEF IInv, IsATree
  <1>5. HoldsWhatWasGiven'
    <2>1. GivenIn(doc') = GivenIn(doc)
      OBVIOUS
    <2>2. Given' = Given
      BY <2>1, GivenIs
    <2>. QED
      BY <2>2 DEF IInv, HoldsWhatWasGiven
  <1>. QED
    BY <1>1, <1>2, <1>3, <1>4, <1>5, Zenon DEF IInv

\* A document that is refused leaves the tree as it was.
LEMMA RefuseKeeps ==
    ASSUME IInv, Refuse
    PROVE  IInv'
  BY UnmovedKeeps DEF Refuse

\* A header has no value.
LEMMA NoValueIs ==
    Valued(NoValue)
  <1>1. /\ NoValue.inline = TRUE /\ NoValue.node = Table(TRUE, TRUE) /\ NoValue.fields = <<>>
    BY DEF NoValue, Inline
  <1>2. ToSet(<<>>) = {} /\ <<>> \in Seq({})
    BY DEF ToSet
  <1>. QED
    BY <1>1, <1>2, Zenon DEF Valued

\* A header that is read is a statement of its table.
LEMMA HeaderStates ==
    ASSUME NEW kind \in {"header", "item"}, NEW q,
           Adds(nodes, nodes', kind, q), Heads(nodes, nodes', q), q \in Path,
           current' = q, State(kind, q, NoValue), Len(doc) < MaxStatements, status' = status
    PROVE  States(kind, q, NoValue)
  <1>1. Takes(Table(TRUE, FALSE))
    BY NodesAre, Zenon
  <1>2. /\ q \in DOMAIN nodes' /\ Latest(nodes', q) /\ nodes'[q] = Table(TRUE, FALSE)
        /\ Open(nodes', q)
        /\ \A p \in DOMAIN nodes' \ DOMAIN nodes : nodes'[p].t \in {"table", "aot"}
    BY DEF Adds, Heads
  <1>3. Takes(nodes'[q])
    BY <1>1, <1>2, Zenon
  <1>4. kind # "key" /\ kind \in {"header", "item", "key"}
    OBVIOUS
  <1>5. doc' = Append(doc, [kind |-> kind, path |-> q, value |-> NoValue])
    BY DEF State
  <1>. QED
    BY <1>2, <1>3, <1>4, <1>5, NoValueIs, Zenon DEF States

\* A table header keeps the invariant, taken or refused.
LEMMA TableHeaderKeeps ==
    ASSUME IInv, NEW parts, Keyed(parts), TableHeader(parts)
    PROVE  IInv'
  <1>. DEFINE way == Way(nodes, parts)
              path == Append(way[Len(parts) - 1], Last(parts))
  <1>1. CASE Refuse
    BY <1>1, RefuseKeeps
  <1>2. CASE ~ Refuse
    <2>1. /\ Passable(nodes, way)
          /\ path \in DOMAIN nodes => nodes[path] = Table(FALSE, FALSE)
          /\ nodes' = Put(WithWay(nodes, way), path, Table(TRUE, FALSE))
          /\ current' = path /\ State("header", path, NoValue)
          /\ status' = status /\ Len(doc) < MaxStatements
      BY <1>2, Zenon DEF TableHeader, Reading
    <2>2. Reaches(nodes, parts, way, path)
      BY <2>1, NodesAreSound DEF Reaches, IInv
    <2>3. WithHeader(nodes, nodes', way, path, Table(TRUE, FALSE))
      BY <2>1 DEF WithHeader
    <2>. HIDE DEF way, path
    <2>4. Adds(nodes, nodes', "header", path) /\ Heads(nodes, nodes', path)
      BY <2>1, <2>2, <2>3, TableAdds, Zenon
    <2>5. path \in Path
      BY <2>4 DEF Adds, Grown
    <2>6. States("header", path, NoValue)
      BY <2>1, <2>4, <2>5, HeaderStates, Zenon
    <2>. QED
      BY <2>6, StatesKeeps
  <1>. QED
    BY <1>1, <1>2

\* So does a header of an array of tables.
LEMMA ArrayHeaderKeeps ==
    ASSUME IInv, NEW parts, Keyed(parts), ArrayHeader(parts)
    PROVE  IInv'
  <1>. DEFINE way == Way(nodes, parts)
              path == Append(way[Len(parts) - 1], Last(parts))
              item == NewItem(nodes, path)
  <1>1. CASE Refuse
    BY <1>1, RefuseKeeps
  <1>2. CASE ~ Refuse
    <2>1. /\ Passable(nodes, way)
          /\ path \in DOMAIN nodes => nodes[path] = Tables
          /\ nodes' = Put(Put(WithWay(nodes, way), path, Tables), item, Table(TRUE, FALSE))
          /\ current' = item /\ State("item", item, NoValue)
          /\ status' = status /\ Len(doc) < MaxStatements
      BY <1>2, Zenon DEF ArrayHeader, Reading
    <2>2. Reaches(nodes, parts, way, path)
      BY <2>1, NodesAreSound DEF Reaches, IInv
    <2>3. WithItem(nodes, nodes', way, path, item)
      BY <2>1 DEF WithItem
    <2>4. Len(doc) \in 0 .. MaxStatements - 1
      <3>1. doc \in Seq(ToSet(doc))
        BY DEF IInv, TypeOK
      <3>2. Len(doc) \in Nat
        BY <3>1
      <3>. QED
        BY <2>1, <3>2, FewStatements
    <2>. HIDE DEF way, path, item
    <2>5. path \in DOMAIN nodes => nodes[path] = Tables /\ \E n \in 1 .. MaxStatements - 1 : Items(nodes, path) = 1 .. n
      <3>1. Tables.t = "aot"
        BY NodesAre
      <3>2. \A n \in 1 .. Len(doc) : n \in 1 .. MaxStatements - 1
        <4>1. MaxStatements \in Nat
          BY FewStatements
        <4>. QED
          BY <2>4, <4>1
      <3>3. path \in DOMAIN nodes => \E n \in 1 .. Len(doc) : Items(nodes, path) = 1 .. n
        BY <2>1, <3>1 DEF IInv, ItemsInOrder
      <3>. QED
        BY <2>1, <3>2, <3>3
    <2>6. Adds(nodes, nodes', "item", item) /\ Heads(nodes, nodes', item)
      <3>1. MaxStatements > 0
        BY <2>4, FewStatements
      <3>. QED
        BY <2>2, <2>3, <2>5, <3>1, ArrayAdds
    <2>7. item \in Path
      BY <2>6 DEF Adds, Grown
    <2>8. States("item", item, NoValue)
      BY <2>1, <2>6, <2>7, HeaderStates, Zenon
    <2>. QED
      BY <2>8, StatesKeeps
  <1>. QED
    BY <1>1, <1>2

\* So does an assignment, of whatever value.
LEMMA StatementKeeps ==
    ASSUME IInv, NEW parts, Keyed(parts), NEW value, Valued(value), Statement(parts, value)
    PROVE  IInv'
  <1>. DEFINE tree == [ok |-> TRUE, nodes |-> nodes]
              all == AssignValue(tree, current, parts, value)
              b == current \o parts
              L == Len(value.fields)
  <1>1. CASE ~ all.ok
    BY <1>1, RefuseKeeps DEF Statement
  <1>2. CASE all.ok
    <2>1. /\ nodes' = all.nodes /\ State("key", b, value)
          /\ current' = current /\ status' = status /\ Len(doc) < MaxStatements
      BY <1>2 DEF Statement, Reading
    <2>2. /\ Sound(nodes) /\ current \in DOMAIN nodes /\ Takes(nodes[current])
          /\ Open(nodes, current) /\ Latest(nodes, current)
      BY NodesAreSound DEF IInv, TypeOK, CurrentIsOpen
    <2>3. nodes[current].t = "table" /\ DOMAIN nodes \subseteq Path /\ current \in Path
      BY <2>2 DEF Takes, Sound
    <2>4. Filled(nodes, nodes', current, b, value, L)
      <3>1. PICK t0 : t0 = tree
        BY Zenon
      <3>2. PICK a0 : a0 = all
        OBVIOUS
      <3>3. a0 = AssignValue(t0, current, parts, value) /\ a0.ok /\ nodes' = a0.nodes
        BY <1>2, <2>1, <3>1, <3>2, Zenon
      <3>4. t0 = [ok |-> TRUE, nodes |-> nodes]
        BY <3>1
      <3>. HIDE DEF tree, all
      <3>5. Filled(nodes, a0.nodes, current, current \o parts, value, Len(value.fields))
        BY <2>2, <2>3, <3>3, <3>4, AllFilled
      <3>. QED
        BY <3>3, <3>5, Zenon
    <2>. HIDE DEF tree, all, b, L
    <2>5. PICK L0 : L0 = Len(value.fields) /\ L0 = L
      BY Zenon DEF L
    <2>6. Filled(nodes, nodes', current, b, value, L0)
      BY <2>4, <2>5, Zenon
    <2>7. /\ Adds(nodes, nodes', "key", b) /\ Open(nodes', current) /\ Latest(nodes', current)
          /\ Gives(nodes, nodes', b, value)
      BY <2>2, <2>3, <2>5, <2>6, FilledAdds, FilledGives, Zenon
    <2>8. /\ b \in Path /\ current \in DOMAIN nodes' /\ nodes'[current] = nodes[current]
          /\ nodes'[b] = value.node
      BY <2>2, <2>6 DEF Filled
    <2>9. Takes(nodes'[current])
      BY <2>2, <2>8, Zenon
    <2>10. doc' = Append(doc, [kind |-> "key", path |-> b, value |-> value])
      BY <2>1 DEF State
    <2>11. States("key", b, value)
      BY <2>1, <2>7, <2>8, <2>9, <2>10, Zenon DEF States
    <2>. QED
      BY <2>11, StatesKeeps
  <1>. QED
    BY <1>1, <1>2

\* So does whatever is read next, of any keys and values.
LEMMA ReadsKeeps ==
    ASSUME IInv, NEW headers, NEW keys, NEW values,
           \A parts \in headers \cup keys : Keyed(parts), \A value \in values : Valued(value),
           Reads(headers, keys, values)
    PROVE  IInv'
  <1>1. ASSUME NEW parts \in headers, TableHeader(parts)
        PROVE  IInv'
    BY <1>1, TableHeaderKeeps
  <1>2. ASSUME NEW parts \in headers, ArrayHeader(parts)
        PROVE  IInv'
    BY <1>2, ArrayHeaderKeeps
  <1>3. ASSUME NEW parts \in keys, NEW value \in values, Statement(parts, value)
        PROVE  IInv'
    BY <1>3, StatementKeeps
  <1>4. ASSUME Malformed
        PROVE  IInv'
    BY <1>4, RefuseKeeps DEF Malformed
  <1>. QED
    BY <1>1, <1>2, <1>3, <1>4 DEF Reads

\* A document of no statements is a tree of no nodes but the root.
LEMMA BeginsATree ==
    ASSUME Init
    PROVE  IInv
  <1>1. /\ DOMAIN nodes = {<<>>} /\ nodes[<<>>] = Table(TRUE, FALSE)
        /\ current = <<>> /\ status = "reading" /\ doc = <<>>
    BY DEF Init
  <1>2. /\ Takes(nodes[<<>>]) /\ nodes[<<>>].t = "table" /\ ~ nodes[<<>>].inline
    BY <1>1, NodesAre, Zenon
  <1>3. DOMAIN doc = {} /\ Len(doc) = 0 /\ doc \in Seq(ToSet(doc)) /\ <<>> \in Seq(Names)
    BY <1>1
  <1>4. TypeOK
    <2>1. current \in DOMAIN nodes /\ DOMAIN nodes \subseteq Seq(Names) /\ Takes(nodes[current])
      BY <1>1, <1>2, <1>3, Zenon
    <2>2. Len(doc) <= MaxStatements
      BY <1>3, ItemsAreNamed
    <2>3. \A i \in DOMAIN doc : FALSE
      BY <1>3
    <2>. QED
      BY <1>1, <1>3, <2>1, <2>2, <2>3, Zenon DEF TypeOK
  <1>5. StatedIsThere /\ ItemsInOrder /\ LastStatedIsLast /\ NothingElse
    BY <1>1, <1>2, <1>3, Zenon DEF StatedIsThere, ItemsInOrder, LastStatedIsLast, NothingElse
  <1>6. CurrentIsOpen
    BY <1>1, <1>2, Zenon DEF CurrentIsOpen, Open, Latest
  <1>7. IsATree /\ StatedOnce /\ UnderLatestItem
    BY <1>1, <1>3 DEF IsATree, StatedOnce, UnderLatestItem
  <1>8. HoldsWhatWasGiven
    BY <1>1, <1>2, <1>3, Zenon DEF HoldsWhatWasGiven, Given
  <1>. QED
    BY <1>1, <1>4, <1>5, <1>6, <1>7, <1>8 DEF IInv

\* Whatever reader runs, its tree keeps the invariant.
LEMMA TreeIsSound == ReadersSpec => []IInv
  <1>1. ReadersInit => IInv
    BY BeginsATree DEF ReadersInit
  <1>2. IInv /\ [ReadersNext]_readerVars => IInv'
    <2>. SUFFICES ASSUME IInv, [ReadersNext]_readerVars
                  PROVE  IInv'
      OBVIOUS
    <2>1. CASE ReadsToml
      <3>1. Reads(TomlHeaders, TomlKeys, TomlValues)
        BY <2>1 DEF ReadsToml
      <3>2. /\ \A parts \in TomlHeaders \cup TomlKeys : Keyed(parts)
            /\ \A value \in TomlValues : Valued(value)
        BY ConstantsAreRight
      <3>. QED
        BY <3>1, <3>2, ReadsKeeps
    <2>2. CASE ReadsCargo
      <3>1. Reads(HeaderKeys, StatementKeys, Values)
        BY <2>2 DEF ReadsCargo, Next
      <3>. QED
        BY <3>1, KeysAreKeyed, ValuesAreValued, ReadsKeeps
    <2>3. CASE vars' = vars
      <3>1. nodes' = nodes /\ current' = current /\ doc' = doc /\ status' = status
        BY <2>3 DEF vars
      <3>2. status' \in {"reading", "refused"}
        BY <3>1 DEF IInv, TypeOK
      <3>. QED
        BY <3>1, <3>2, UnmovedKeeps
    <2>. QED
      BY <2>1, <2>2, <2>3
      DEF ReadersNext, ReadsNpm, ReadsHeader, ReadsImports, ReadsGo, readerVars
  <1>. QED
    BY <1>1, <1>2, PTL DEF ReadersSpec

(***************************************************************************)
(* The tree is that of the document, whatever its keys and its values.     *)
(***************************************************************************)
THEOREM TreeRead == ReadersSpec => []TreeIsTheDocument
  <1>1. IInv => TreeIsTheDocument
    BY DEF TreeIsTheDocument
  <1>. QED
    BY <1>1, TreeIsSound, PTL

-----------------------------------------------------------------------------
(* CargoDeps.                                                              *)

\* A path with one more key, whatever the key.
LEMMA AnyKey ==
    ASSUME NEW q \in Path, NEW x
    PROVE  /\ Front(Append(q, x)) = q /\ Last(Append(q, x)) = x /\ Append(q, x) # <<>>
           /\ \A r \in Path : IsPrefix(Append(q, x), r) => Append(q, x) \in Path
  <1>. DEFINE T == Names \cup {x}
              s == Append(q, x)
  <1>1. q \in Seq(T) /\ x \in T /\ \A r \in Path : r \in Seq(T)
    <2>1. Names \subseteq T /\ x \in T
      OBVIOUS
    <2>. HIDE DEF T
    <2>. QED
      BY <2>1, SeqMonotonic DEF Path
  <1>. HIDE DEF T
  <1>2. /\ s \in Seq(T) /\ s # <<>> /\ Len(s) = Len(q) + 1 /\ s[Len(q) + 1] = x
        /\ \A i \in 1 .. Len(q) : s[i] = q[i]
    BY <1>1, AppendProperties
  <1>. HIDE DEF s
  <1>3. Len(q) \in Nat /\ Last(s) = x
    BY <1>1, <1>2 DEF Last
  <1>4. Front(s) = q
    <2>1. /\ SubSeq(s, 1, Len(q)) \in Seq(T) /\ Len(SubSeq(s, 1, Len(q))) = Len(q)
          /\ \A i \in 1 .. Len(q) : SubSeq(s, 1, Len(q))[i] = q[i]
      BY <1>1, <1>2, <1>3
    <2>2. SubSeq(s, 1, Len(q)) = q
      BY <1>1, <2>1
    <2>3. Len(s) - 1 = Len(q)
      BY <1>2, <1>3
    <2>. QED
      BY <2>2, <2>3 DEF Front
  <1>5. ASSUME NEW r \in Path, IsPrefix(s, r)
        PROVE  s \in Path
    <2>1. Len(s) <= Len(r) /\ SubSeq(s, 1, Len(s)) = SubSeq(r, 1, Len(s))
      BY <1>5 DEF IsPrefix
    <2>2. SubSeq(s, 1, Len(s)) = s
      BY <1>2, SubSeqFull
    <2>3. Len(s) \in Nat /\ Len(r) \in Nat
      BY <1>2, <1>3, <1>5 DEF Path
    <2>4. SubSeq(r, 1, Len(s)) \in Path
      BY <1>5, <2>1, <2>3 DEF Path
    <2>. QED
      BY <2>1, <2>2, <2>4, Zenon
  <1>. QED
    BY <1>2, <1>3, <1>4, <1>5 DEF s

\* The prefixes of a path are its beginnings.
LEMMA Beginnings ==
    ASSUME NEW q, NEW r \in Path
    PROVE  q \in {SubSeq(r, 1, n) : n \in 0 .. Len(r)} <=> q \in Path /\ IsPrefix(q, r)
  <1>0. Len(r) \in Nat
    BY LongAsNat
  <1>1. ASSUME NEW n \in 0 .. Len(r), q = SubSeq(r, 1, n)
        PROVE  q \in Path /\ IsPrefix(q, r)
    <2>1. q \in Path /\ Len(q) = n /\ \A i \in 1 .. n : q[i] = r[i]
      BY <1>0, <1>1 DEF Path
    <2>. QED
      BY <1>0, <2>1, PrefixIs
  <1>2. ASSUME q \in Path, IsPrefix(q, r)
        PROVE  \E n \in 0 .. Len(r) : q = SubSeq(r, 1, n)
    <2>1. Len(q) <= Len(r) /\ \A i \in 1 .. Len(q) : q[i] = r[i]
      BY <1>2, PrefixIs
    <2>2. Len(q) \in 0 .. Len(r)
      BY <1>0, <1>2, <2>1, LongAsNat
    <2>3. SubSeq(r, 1, Len(q)) \in Path /\ Len(SubSeq(r, 1, Len(q))) = Len(q)
          /\ \A i \in 1 .. Len(q) : SubSeq(r, 1, Len(q))[i] = r[i]
      BY <1>0, <2>2 DEF Path
    <2>4. q = SubSeq(r, 1, Len(q))
      BY <1>2, <2>1, <2>3, SamePath, Zenon
    <2>. QED
      BY <2>2, <2>4, Zenon
  <1>. QED
    BY <1>1, <1>2

\* What a document states is in its tree, and a scalar is what was stated.
LEMMA StatedAreNodes ==
    ASSUME IInv, NEW st \in Stated
    PROVE  /\ st[1] \in DOMAIN nodes /\ st[1] \in Path
           /\ st[1] \in Scalars(nodes) => st[2] = nodes[st[1]]
  <1>0. DOMAIN nodes \subseteq Path
    BY NodesAreSound DEF Sound
  <1>1. CASE st \in {<<doc[i].path, doc[i].value.node>> :
                        i \in {j \in DOMAIN doc : ~ doc[j].value.inline}}
    <2>1. PICK i \in DOMAIN doc : st = <<doc[i].path, doc[i].value.node>>
      BY <1>1
    <2>2. /\ doc[i].path \in DOMAIN nodes
          /\ nodes[doc[i].path] = IF doc[i].kind = "key" THEN doc[i].value.node
                                                         ELSE Table(TRUE, FALSE)
      BY Zenon DEF IInv, StatedIsThere
    <2>3. Table(TRUE, FALSE).t = "table"
      BY NodesAre, Zenon
    <2>4. st[1] = doc[i].path /\ st[2] = doc[i].value.node
      BY <2>1
    <2>. QED
      BY <1>0, <2>2, <2>3, <2>4, Zenon DEF Scalars
  <1>2. CASE st \in {<<doc[i].path, NoValue.node>> :
                        i \in {j \in DOMAIN doc : doc[j].value.inline}}
    <2>1. PICK i \in DOMAIN doc : st = <<doc[i].path, NoValue.node>> /\ doc[i].value.inline
      BY <1>2
    <2>2. /\ doc[i].path \in DOMAIN nodes
          /\ nodes[doc[i].path] = IF doc[i].kind = "key" THEN doc[i].value.node
                                                         ELSE Table(TRUE, FALSE)
      BY Zenon DEF IInv, StatedIsThere
    <2>3. Table(TRUE, FALSE).t = "table" /\ Table(TRUE, TRUE).t = "table"
      BY NodesAre, Zenon
    <2>4. doc[i].value.node = Table(TRUE, TRUE)
      <3>1. Valued(doc[i].value)
        BY DEF IInv, TypeOK
      <3>. QED
        BY <2>1, <3>1, Zenon DEF Valued
    <2>5. st[1] = doc[i].path
      BY <2>1
    <2>. QED
      BY <1>0, <2>2, <2>3, <2>4, <2>5, Zenon DEF Scalars
  <1>3. CASE st \in Given
    <2>1. PICK p \in Scalars(nodes) : st = <<p, nodes[p]>>
      BY <1>3 DEF IInv, HoldsWhatWasGiven, Scalars
    <2>2. p \in DOMAIN nodes
      BY DEF Scalars
    <2>. QED
      BY <1>0, <2>1, <2>2
  <1>. QED
    BY <1>1, <1>2, <1>3 DEF Stated

\* There is a node on the way to what was stated only; a scalar was stated.
LEMMA NodesAreStated ==
    ASSUME IInv, NEW p \in DOMAIN nodes, p # <<>>
    PROVE  /\ \E st \in Stated : IsPrefix(p, st[1])
           /\ p \in Scalars(nodes) => <<p, nodes[p]>> \in Stated
  <1>0. Sound(nodes) /\ p \in Path
    BY NodesAreSound DEF Sound
  <1>1. ASSUME p \in Scalars(nodes)
        PROVE  <<p, nodes[p]>> \in Stated
    BY <1>1 DEF IInv, HoldsWhatWasGiven, Scalars, Stated
  <1>2. PICK i \in DOMAIN doc : \/ IsPrefix(p, doc[i].path)
                                \/ doc[i].kind = "key" /\ IsStrictPrefix(doc[i].path, p)
    BY DEF IInv, NothingElse
  <1>3. CASE IsPrefix(p, doc[i].path)
    <2>1. \E st \in Stated : st[1] = doc[i].path
      <3>1. CASE doc[i].value.inline
        <4>1. <<doc[i].path, NoValue.node>> \in Stated
          BY <3>1 DEF Stated
        <4>. QED
          BY <4>1
      <3>2. CASE ~ doc[i].value.inline
        <4>1. <<doc[i].path, doc[i].value.node>> \in Stated
          BY <3>2 DEF Stated
        <4>. QED
          BY <4>1
      <3>. QED
        BY <3>1, <3>2
    <2>. QED
      BY <1>1, <1>3, <2>1, Zenon
  <1>4. CASE doc[i].kind = "key" /\ IsStrictPrefix(doc[i].path, p)
    <2>1. /\ doc[i].path \in DOMAIN nodes /\ nodes[doc[i].path] = doc[i].value.node
          /\ Valued(doc[i].value)
      BY <1>4, Zenon DEF IInv, StatedIsThere, TypeOK
    <2>2. doc[i].path \in Path /\ IsPrefix(doc[i].path, p) /\ doc[i].path # p
      BY <1>0, <1>4, <2>1 DEF Sound, IsStrictPrefix
    <2>3. nodes[doc[i].path].t \in {"aot", "table"}
      BY <1>0, <2>2, AboveIsHeld DEF Sound
    <2>4. doc[i].value.inline
      <3>1. ~ IsScalar(doc[i].value.node)
        BY <2>1, <2>3 DEF IsScalar
      <3>. QED
        BY <2>1, <3>1, Zenon DEF Valued
    <2>5. PICK f \in ToSet(doc[i].value.fields) : IsPrefix(p, doc[i].path \o f.parts)
      BY <1>4, <2>4, Zenon DEF IInv, IsATree
    <2>6. <<doc[i].path \o f.parts, f.node>> \in Stated
      <3>1. <<doc[i].path \o f.parts, f.node>> \in Given
        BY <1>4, <2>4, Zenon DEF Given
      <3>. QED
        BY <3>1, Zenon DEF Stated
    <2>7. \E st \in Stated : st[1] = doc[i].path \o f.parts
      BY <2>6, Zenon
    <2>. QED
      BY <1>1, <2>5, <2>7, Zenon
  <1>. QED
    BY <1>2, <1>3, <1>4

\* The beginnings of what a document states are the nodes of its tree.
PrefixesStated == UNION {{SubSeq(st[1], 1, n) : n \in 0 .. Len(st[1])} : st \in Stated}

\* What a manifest stated and what the tree has are the same paths.
LEMMA PrefixesAreNodes ==
    ASSUME IInv, NEW p
    PROVE  p \in PrefixesStated <=> p \in DOMAIN nodes /\ Stated # {}
  <1>0. DOMAIN nodes \subseteq Path /\ Held(nodes)
    BY NodesAreSound DEF Sound
  <1>1. ASSUME p \in PrefixesStated
        PROVE  p \in DOMAIN nodes /\ Stated # {}
    <2>1. PICK st \in Stated : p \in {SubSeq(st[1], 1, n) : n \in 0 .. Len(st[1])}
      BY <1>1 DEF PrefixesStated
    <2>2. st[1] \in DOMAIN nodes /\ st[1] \in Path
      BY StatedAreNodes
    <2>3. p \in Path /\ IsPrefix(p, st[1])
      BY <2>1, <2>2, Beginnings
    <2>. QED
      BY <1>0, <2>2, <2>3, AboveIsHeld
  <1>2. ASSUME p \in DOMAIN nodes, Stated # {}
        PROVE  p \in PrefixesStated
    <2>1. PICK st \in Stated : IsPrefix(p, st[1])
      <3>1. CASE p = <<>>
        <4>1. PICK st \in Stated : TRUE
          BY <1>2
        <4>2. IsPrefix(<<>>, st[1])
          BY StatedAreNodes, PrefixOrder
        <4>. QED
          BY <3>1, <4>2
      <3>2. CASE p # <<>>
        BY <1>2, <3>2, NodesAreStated, Zenon
      <3>. QED
        BY <3>1, <3>2
    <2>2. p \in Path /\ st[1] \in Path
      BY <1>0, <1>2, StatedAreNodes
    <2>3. p \in {SubSeq(st[1], 1, n) : n \in 0 .. Len(st[1])}
      BY <2>1, <2>2, Beginnings
    <2>. QED
      BY <2>3 DEF PrefixesStated
  <1>. QED
    BY <1>1, <1>2

\* A table has a key that is mentioned, and no other.
LEMMA HasIs ==
    ASSUME IInv, NEW q \in Path, NEW x
    PROVE  /\ Has(q, x) <=> x \in KeysIn(q)
           /\ Has(q, x) <=> Mentions(Append(q, x))
           /\ Has(q, x) => Append(q, x) \in Path /\ x \in Names
  <1>0. DOMAIN nodes \subseteq Path /\ Held(nodes)
    BY NodesAreSound DEF Sound
  <1>1. /\ Front(Append(q, x)) = q /\ Last(Append(q, x)) = x /\ Append(q, x) # <<>>
        /\ \A r \in Path : IsPrefix(Append(q, x), r) => Append(q, x) \in Path
    BY AnyKey
  <1>2. ASSUME Has(q, x)
        PROVE  /\ x \in KeysIn(q) /\ Mentions(Append(q, x))
               /\ Append(q, x) \in Path /\ x \in Names
    <2>1. Append(q, x) \in DOMAIN nodes /\ Append(q, x) \in Path
      BY <1>0, <1>2 DEF Has
    <2>2. x \in KeysIn(q)
      BY <1>1, <2>1, Zenon DEF KeysIn
    <2>3. Mentions(Append(q, x))
      BY <1>1, <2>1, NodesAreStated, Zenon DEF Mentions
    <2>4. x \in Names
      BY <1>1, <2>1, KeysOfPath, Zenon
    <2>. QED
      BY <2>1, <2>2, <2>3, <2>4
  <1>3. ASSUME x \in KeysIn(q)
        PROVE  Has(q, x)
    <2>1. PICK r \in DOMAIN nodes : r # <<>> /\ Front(r) = q /\ Last(r) = x
      BY <1>3 DEF KeysIn
    <2>2. r = Append(Front(r), Last(r))
      BY <1>0, <2>1, KeysOfPath
    <2>. QED
      BY <2>1, <2>2, Zenon DEF Has
  <1>4. ASSUME Mentions(Append(q, x))
        PROVE  Has(q, x)
    <2>1. PICK st \in Stated : IsPrefix(Append(q, x), st[1])
      BY <1>4 DEF Mentions
    <2>2. st[1] \in DOMAIN nodes /\ st[1] \in Path
      BY StatedAreNodes
    <2>3. Append(q, x) \in Path
      BY <1>1, <2>1, <2>2
    <2>4. Append(q, x) \in DOMAIN nodes
      BY <1>0, <2>1, <2>2, <2>3, AboveIsHeld
    <2>. QED
      BY <2>4 DEF Has
  <1>. QED
    BY <1>2, <1>3, <1>4

\* A path of two keys.
LEMMA OneAndOne ==
    ASSUME NEW a, NEW b
    PROVE  Append(<<a>>, b) = <<a, b>>
  <1>. DEFINE T == {a, b}
              s == <<a>>
  <1>1. s \in Seq(T) /\ a \in T /\ b \in T /\ Len(s) = 1 /\ s[1] = a
    OBVIOUS
  <1>. HIDE DEF s, T
  <1>2. /\ Append(s, b) \in Seq(T) /\ Len(Append(s, b)) = 2
        /\ Append(s, b)[1] = a /\ Append(s, b)[2] = b
    <2>1. /\ Append(s, b) \in Seq(T) /\ Len(Append(s, b)) = Len(s) + 1
          /\ Append(s, b)[Len(s) + 1] = b
          /\ \A i \in 1 .. Len(s) : Append(s, b)[i] = s[i]
      <3>1. s \in Seq(T) /\ b \in T
        BY <1>1
      <3>. QED
        BY <3>1, AppendProperties
    <2>. QED
      BY <1>1, <2>1
  <1>3. <<a, b>> \in Seq(T) /\ Len(<<a, b>>) = 2 /\ <<a, b>>[1] = a /\ <<a, b>>[2] = b
    BY <1>1
  <1>4. \A i \in 1 .. 2 : i = 1 \/ i = 2
    OBVIOUS
  <1>5. Append(s, b) = <<a, b>>
    BY <1>2, <1>3, <1>4, SeqEqual, Zenon
  <1>. QED
    BY <1>5 DEF s

\* The scopes are the root and the targets there are.
LEMMA ScopesAre ==
    ASSUME IInv, NEW s
    PROVE  /\ s \in Scopes <=> s = <<>> \/ (s \in DOMAIN nodes /\ Len(s) = 2 /\ s[1] = "target")
           /\ s \in Scopes => s \in Path /\ s \in DOMAIN nodes
  <1>0. DOMAIN nodes \subseteq Path /\ <<>> \in DOMAIN nodes
    BY NodesAreSound DEF Sound
  <1>1. ASSUME NEW key \in KeysIn(<<"target">>), s = <<"target", key>>
        PROVE  s \in DOMAIN nodes /\ Len(s) = 2 /\ s[1] = "target"
    <2>1. PICK r \in DOMAIN nodes : r # <<>> /\ Front(r) = <<"target">> /\ Last(r) = key
      BY <1>1 DEF KeysIn
    <2>2. r = Append(Front(r), Last(r))
      BY <1>0, <2>1, KeysOfPath, Zenon
    <2>3. r = Append(<<"target">>, key)
      BY <2>1, <2>2, Zenon
    <2>4. Append(<<"target">>, key) = <<"target", key>>
      BY OneAndOne
    <2>5. s \in DOMAIN nodes
      BY <1>1, <2>3, <2>4, Zenon
    <2>. QED
      BY <1>1, <2>5
  <1>2. ASSUME s \in DOMAIN nodes, Len(s) = 2, s[1] = "target"
        PROVE  \E key \in KeysIn(<<"target">>) : s = <<"target", key>>
    <2>1. s \in Path /\ s # <<>>
      BY <1>0, <1>2
    <2>2. /\ Front(s) \in Path /\ Len(Front(s)) = Len(s) - 1
          /\ s = Append(Front(s), Last(s))
          /\ \A i \in 1 .. Len(s) - 1 : Front(s)[i] = s[i]
      BY <2>1, KeysOfPath
    <2>3. Len(Front(s)) = 1 /\ Front(s)[1] = "target"
      BY <1>2, <2>2
    <2>. DEFINE f == Front(s)
                x == Last(s)
    <2>4. f \in Path /\ Len(f) = 1 /\ f[1] = "target" /\ s = Append(f, x)
      BY <2>2, <2>3, Zenon
    <2>5. f = <<"target">>
      <3>. HIDE DEF f
      <3>. QED
        BY <2>4 DEF Path
    <2>6. x \in KeysIn(<<"target">>)
      BY <1>2, <2>1, <2>5 DEF KeysIn
    <2>. HIDE DEF f, x
    <2>7. s = Append(<<"target">>, x)
      BY <2>4, <2>5, Zenon
    <2>8. s = <<"target", x>>
      BY <2>7, OneAndOne
    <2>. QED
      BY <2>6, <2>8
  <1>. QED
    BY <1>0, <1>1, <1>2 DEF Scopes

SpelledIn(scope, kind) == {Append(scope, key) : key \in Spelling(scope, kind)}

\* The tables read are those of each scope, in each spelling.
LEMMA TablesReadAre ==
    ASSUME NEW dev, NEW table
    PROVE  table \in TablesRead(dev) <=>
              \E scope \in Scopes, kind \in {k \in CARGO_TABLES : k.dev = dev} :
                 table \in SpelledIn(scope, kind)
  <1>1. TablesRead(dev) =
           UNION {SpelledIn(scope, kind) :
                     scope \in Scopes, kind \in {k \in CARGO_TABLES : k.dev = dev}}
    BY DEF TablesRead, SpelledIn
  <1>. QED
    BY <1>1

\* A dependency table that is read is one the document states.
LEMMA TablesAre ==
    ASSUME IInv, NEW dev
    PROVE  /\ StatedTables(dev) = TablesRead(dev)
           /\ TablesRead(dev) \subseteq DOMAIN nodes
  <1>0. DOMAIN nodes \subseteq Path
    BY NodesAreSound DEF Sound
  <1>. DEFINE scopes == {p \in PrefixesStated : p = <<>> \/ (Len(p) = 2 /\ p[1] = "target")}
  <1>1. StatedTables(dev) =
           {p \in PrefixesStated :
              /\ p # <<>> /\ Front(p) \in scopes
              /\ \E kind \in CARGO_TABLES :
                   /\ kind.dev = dev
                   /\ \/ Last(p) = kind.key
                      \/ Last(p) = kind.old /\ ~ Mentions(Append(Front(p), kind.key))}
    BY DEF StatedTables, PrefixesStated
  <1>2. ASSUME NEW p \in StatedTables(dev)
        PROVE  p \in TablesRead(dev)
    <2>1. PICK kind \in CARGO_TABLES :
             /\ kind.dev = dev
             /\ \/ Last(p) = kind.key
                \/ Last(p) = kind.old /\ ~ Mentions(Append(Front(p), kind.key))
      BY <1>1
    <2>2. p \in PrefixesStated /\ p # <<>> /\ Front(p) \in scopes
      BY <1>1
    <2>3. p \in DOMAIN nodes /\ p \in Path /\ Front(p) \in DOMAIN nodes
      BY <1>0, <2>2, PrefixesAreNodes
    <2>4. Front(p) \in Scopes
      BY <2>2, <2>3, ScopesAre
    <2>5. p = Append(Front(p), Last(p)) /\ Front(p) \in Path
      BY <2>2, <2>3, KeysOfPath
    <2>6. Has(Front(p), Last(p))
      BY <2>3, <2>5, Zenon DEF Has
    <2>7. Last(p) \in Spelling(Front(p), kind)
      <3>1. CASE Last(p) = kind.key
        BY <2>6, <3>1 DEF Spelling
      <3>2. CASE Last(p) = kind.old /\ ~ Mentions(Append(Front(p), kind.key))
        <4>1. ~ Has(Front(p), kind.key) /\ Last(p) \in KeysIn(Front(p))
          BY <2>5, <2>6, <3>2, HasIs
        <4>. QED
          BY <3>2, <4>1 DEF Spelling
      <3>. QED
        BY <2>1, <3>1, <3>2
    <2>8. p \in {Append(Front(p), key) : key \in Spelling(Front(p), kind)}
      BY <2>5, <2>7
    <2>. QED
      BY <2>1, <2>4, <2>8, TablesReadAre DEF SpelledIn
  <1>3. ASSUME NEW table \in TablesRead(dev)
        PROVE  table \in StatedTables(dev) /\ table \in DOMAIN nodes
    <2>1. PICK scope \in Scopes, kind \in {k \in CARGO_TABLES : k.dev = dev} :
             table \in {Append(scope, key) : key \in Spelling(scope, kind)}
      BY <1>3, TablesReadAre DEF SpelledIn
    <2>2. PICK key \in Spelling(scope, kind) : table = Append(scope, key)
      BY <2>1
    <2>3. scope \in Path /\ scope \in DOMAIN nodes
      BY ScopesAre
    <2>4. Has(scope, key)
      BY <2>3, HasIs DEF Spelling
    <2>5. /\ table \in DOMAIN nodes /\ Front(table) = scope /\ Last(table) = key
          /\ table # <<>>
      BY <2>2, <2>3, <2>4, AnyKey DEF Has
    <2>6. Stated # {}
      BY <2>5, NodesAreStated, Zenon
    <2>7. table \in PrefixesStated /\ scope \in PrefixesStated
      BY <2>3, <2>5, <2>6, PrefixesAreNodes
    <2>8. scope \in scopes
      BY <2>7, ScopesAre
    <2>9. key = kind.key \/ (key = kind.old /\ ~ Mentions(Append(scope, kind.key)))
      <3>1. CASE Has(scope, kind.key)
        BY <3>1 DEF Spelling
      <3>2. CASE ~ Has(scope, kind.key)
        BY <2>3, <3>2, HasIs DEF Spelling
      <3>. QED
        BY <3>1, <3>2
    <2>10. \/ Last(table) = kind.key
           \/ Last(table) = kind.old /\ ~ Mentions(Append(Front(table), kind.key))
      BY <2>5, <2>9, Zenon
    <2>11. Front(table) \in scopes
      BY <2>5, <2>8, Zenon
    <2>. HIDE DEF scopes
    <2>. QED
      BY <1>1, <2>1, <2>5, <2>7, <2>10, <2>11
  <1>. QED
    BY <1>2, <1>3

\* The dependencies that are read are those the document states.
LEMMA DepsAre ==
    ASSUME IInv, NEW dev, NEW d
    PROVE  d \in StatedDeps(dev) <=>
              \E table \in TablesRead(dev) : \E key \in KeysIn(table) : d = Append(table, key)
  <1>0. DOMAIN nodes \subseteq Path /\ Held(nodes)
    BY NodesAreSound DEF Sound
  <1>1. ASSUME d \in StatedDeps(dev)
        PROVE  \E table \in TablesRead(dev) : \E key \in KeysIn(table) : d = Append(table, key)
    <2>1. PICK p \in StatedTables(dev) :
             d \in {SubSeq(st[1], 1, Len(p) + 1) :
                       st \in {x \in Stated : IsStrictPrefix(p, x[1])}}
      BY <1>1 DEF StatedDeps
    <2>2. PICK st \in Stated : IsStrictPrefix(p, st[1]) /\ d = SubSeq(st[1], 1, Len(p) + 1)
      BY <2>1
    <2>3. p \in TablesRead(dev) /\ p \in Path /\ st[1] \in Path /\ st[1] \in DOMAIN nodes
      BY <1>0, TablesAre, StatedAreNodes
    <2>4. IsPrefix(p, st[1]) /\ Len(p) < Len(st[1]) /\ Len(p) \in Nat /\ Len(st[1]) \in Nat
      BY <2>2, <2>3, PrefixOrder, LongAsNat
    <2>5. Len(p) + 1 \in 0 .. Len(st[1])
      BY <2>4
    <2>6. d \in Path /\ IsPrefix(d, st[1]) /\ Len(d) = Len(p) + 1
          /\ \A i \in 1 .. Len(p) + 1 : d[i] = st[1][i]
      <3>1. d \in Path /\ IsPrefix(d, st[1])
        BY <2>2, <2>3, <2>5, Beginnings, Zenon
      <3>2. Len(d) = Len(p) + 1 /\ \A i \in 1 .. Len(p) + 1 : d[i] = st[1][i]
        BY <2>2, <2>3, <2>5 DEF Path
      <3>. QED
        BY <3>1, <3>2
    <2>7. d \in DOMAIN nodes /\ d # <<>>
      BY <1>0, <2>3, <2>4, <2>6, AboveIsHeld, LongAsNat
    <2>8. /\ Front(d) \in Path /\ Len(Front(d)) = Len(p)
          /\ d = Append(Front(d), Last(d))
          /\ \A i \in 1 .. Len(p) : Front(d)[i] = d[i]
      BY <2>4, <2>6, <2>7, KeysOfPath
    <2>9. \A i \in 1 .. Len(p) : p[i] = st[1][i]
      BY <2>3, <2>4, PrefixIs
    <2>10. Front(d) = p
      <3>1. \A i \in 1 .. Len(p) : i \in 1 .. Len(p) + 1
        BY <2>4
      <3>. QED
        BY <2>3, <2>6, <2>8, <2>9, <3>1, SamePath
    <2>11. Last(d) \in KeysIn(p)
      BY <2>7, <2>10 DEF KeysIn
    <2>. QED
      BY <2>3, <2>8, <2>10, <2>11, Zenon
  <1>2. ASSUME NEW table \in TablesRead(dev), NEW key \in KeysIn(table), d = Append(table, key)
        PROVE  d \in StatedDeps(dev)
    <2>1. table \in StatedTables(dev) /\ table \in Path
      BY <1>0, TablesAre
    <2>2. d \in DOMAIN nodes /\ d \in Path /\ d # <<>> /\ Front(d) = table
      <3>1. Has(table, key)
        BY <2>1, HasIs
      <3>. QED
        BY <1>0, <1>2, <2>1, <3>1, AnyKey DEF Has
    <2>3. PICK st \in Stated : IsPrefix(d, st[1])
      BY <2>2, NodesAreStated, Zenon
    <2>4. st[1] \in Path
      BY StatedAreNodes
    <2>5. Len(d) = Len(table) + 1 /\ Len(table) \in Nat
          /\ \A i \in 1 .. Len(table) : table[i] = d[i]
      <3>1. /\ Len(Front(d)) = Len(d) - 1
            /\ \A i \in 1 .. Len(d) - 1 : Front(d)[i] = d[i]
        BY <2>2, KeysOfPath
      <3>2. Len(d) \in Nat /\ Len(table) \in Nat
        BY <2>1, <2>2, LongAsNat
      <3>. QED
        BY <2>2, <3>1, <3>2
    <2>6. IsPrefix(table, d)
      <3>1. Len(table) <= Len(d)
        BY <2>5
      <3>. QED
        BY <2>1, <2>2, <2>5, <3>1, PrefixIs
    <2>7. IsPrefix(table, st[1]) /\ Len(d) <= Len(st[1])
      BY <2>1, <2>2, <2>3, <2>4, <2>6, PrefixOrder
    <2>8. IsStrictPrefix(table, st[1])
      <3>1. Len(table) < Len(st[1])
        BY <2>4, <2>5, <2>7, LongAsNat
      <3>. QED
        BY <2>1, <2>4, <2>7, <3>1, PrefixOrder
    <2>9. d = SubSeq(st[1], 1, Len(table) + 1)
      <3>1. PICK n \in 0 .. Len(st[1]) : d = SubSeq(st[1], 1, n)
        BY <2>2, <2>3, <2>4, Beginnings
      <3>2. Len(st[1]) \in Nat /\ Len(SubSeq(st[1], 1, n)) = n
        BY <2>4, <3>1 DEF Path
      <3>. QED
        BY <2>5, <3>1, <3>2
    <2>. QED
      BY <2>1, <2>8, <2>9 DEF StatedDeps
  <1>. QED
    BY <1>1, <1>2

\* A field of a dependency that can be read has the value that was stated.
LEMMA FieldIs ==
    ASSUME IInv, NEW e \in DOMAIN nodes, Readable(e), NEW k \in {"package", "optional"}
    PROVE  /\ Has(e, k) => <<Append(e, k), At(e, k)>> \in Stated
           /\ \A st \in Stated : st[1] = Append(e, k) => Has(e, k) /\ st[2] = At(e, k)
  <1>0. DOMAIN nodes \subseteq Path /\ Held(nodes) /\ e \in Path
    BY NodesAreSound DEF Sound
  <1>1. Append(e, k) # <<>> /\ Front(Append(e, k)) = e
    BY <1>0, AnyKey
  <1>2. ASSUME Has(e, k)
        PROVE  Append(e, k) \in Scalars(nodes) /\ Append(e, k) \in DOMAIN nodes
    <2>1. Append(e, k) \in DOMAIN nodes
      BY <1>2 DEF Has
    <2>2. nodes[e].t \in {"table", "aot"}
      BY <1>0, <1>1, <2>1, Zenon DEF Held
    <2>3. nodes[Append(e, k)].t \in {"string", "bool"}
      BY <1>2, <2>2 DEF Readable, At
    <2>. QED
      BY <2>1, <2>3 DEF Scalars
  <1>3. ASSUME Has(e, k)
        PROVE  <<Append(e, k), At(e, k)>> \in Stated
    BY <1>1, <1>2, <1>3, NodesAreStated, Zenon DEF At
  <1>4. ASSUME NEW st \in Stated, st[1] = Append(e, k)
        PROVE  Has(e, k) /\ st[2] = At(e, k)
    <2>1. Has(e, k)
      BY <1>4, StatedAreNodes, Zenon DEF Has
    <2>2. st[1] \in Scalars(nodes)
      BY <1>2, <1>4, <2>1, Zenon
    <2>3. st[2] = nodes[st[1]]
      BY <2>2, StatedAreNodes
    <2>. QED
      BY <1>4, <2>1, <2>3, Zenon DEF At
  <1>. QED
    BY <1>3, <1>4

\* So a dependency has the crate and the option that were stated.
Named(dep) == IF Renamed(dep) = {} THEN {Last(dep)} ELSE Renamed(dep)

Optional(dep) == \E st \in Stated : st[1] = Append(dep, "optional") /\ st[2].v = "true"

\* A dependency is read under its name, or under the package it renames, and
\* is optional when it says so.
LEMMA DeclarationIs ==
    ASSUME IInv, NEW table \in Path, NEW key \in KeysIn(table), Readable(Append(table, key))
    PROVE  /\ Named(Append(table, key)) = {Declaration(table, key).name}
           /\ Declaration(table, key).optional <=> Optional(Append(table, key))
  <1>. DEFINE e == Append(table, key)
  <1>1. e \in DOMAIN nodes /\ Last(e) = key
    BY HasIs, AnyKey DEF Has
  <1>. DEFINE name == IF Has(e, "package") THEN At(e, "package").v ELSE key
              opt == Has(e, "optional") /\ At(e, "optional").v = "true"
  <1>2. Declaration(table, key).name = name /\ (Declaration(table, key).optional <=> opt)
    BY Zenon DEF Declaration
  <1>. HIDE DEF e
  <1>3. Readable(e)
    BY DEF e
  <1>4. Named(e) = {name}
    <2>1. CASE Has(e, "package")
      <3>1. <<Append(e, "package"), At(e, "package")>> \in Stated
        BY <1>1, <1>3, <2>1, FieldIs, Zenon
      <3>2. \A st \in Stated : st[1] = Append(e, "package") => st[2] = At(e, "package")
        BY <1>1, <1>3, FieldIs, Zenon
      <3>3. Renamed(e) = {At(e, "package").v}
        BY <3>1, <3>2 DEF Renamed
      <3>. QED
        BY <2>1, <3>3 DEF Named
    <2>2. CASE ~ Has(e, "package")
      <3>1. \A st \in Stated : st[1] # Append(e, "package")
        BY <1>1, <1>3, <2>2, FieldIs, Zenon
      <3>2. Renamed(e) = {}
        BY <3>1 DEF Renamed
      <3>. QED
        BY <1>1, <2>2, <3>2 DEF Named
    <2>. QED
      BY <2>1, <2>2
  <1>5. opt <=> Optional(e)
    <2>1. ASSUME opt
          PROVE  Optional(e)
      <3>1. <<Append(e, "optional"), At(e, "optional")>> \in Stated
        BY <1>1, <1>3, <2>1, FieldIs, Zenon
      <3>. QED
        BY <2>1, <3>1 DEF Optional
    <2>2. ASSUME Optional(e)
          PROVE  opt
      BY <1>1, <1>3, <2>2, FieldIs, Zenon DEF Optional
    <2>. QED
      BY <2>1, <2>2
  <1>. QED
    BY <1>2, <1>4, <1>5, Zenon DEF e

\* There is a declaration for each key of the tables read.
LEMMA DeclarationsAre ==
    ASSUME NEW dev, NEW decl
    PROVE  decl \in Declarations(dev) <=>
              \E table \in TablesRead(dev) : \E key \in KeysIn(table) :
                 decl = Declaration(table, key)
  BY DEF Declarations

\* Every dependency of a manifest that is read can be read.
LEMMA DepsAreReadable ==
    ASSUME IInv, Understood, NEW dev \in BOOLEAN,
           NEW table, table \in TablesRead(dev), NEW key, key \in KeysIn(table)
    PROVE  table \in Path /\ Readable(Append(table, key))
  <1>1. table \in Path
    BY TablesAre, NodesAreSound DEF Sound
  <1>2. table \in TablesRead(TRUE) \cup TablesRead(FALSE)
    BY Zenon
  <1>. QED
    BY <1>1, <1>2, Zenon DEF Understood

\* The crates declared are the crates stated.
LEMMA CratesAre ==
    ASSUME IInv, Understood, NEW dev \in BOOLEAN
    PROVE  {d.name : d \in Declarations(dev)} = CratesStated(dev)
  <1>1. \A x : x \in CratesStated(dev) <=> \E dep \in StatedDeps(dev) : x \in Named(dep)
    BY DEF CratesStated, Named
  <1>2. ASSUME NEW d \in Declarations(dev)
        PROVE  d.name \in CratesStated(dev)
    <2>1a. PICK table \in TablesRead(dev) :
              \E key \in KeysIn(table) : d = Declaration(table, key)
      BY DeclarationsAre
    <2>1. PICK key \in KeysIn(table) : d = Declaration(table, key)
      BY <2>1a
    <2>2. Named(Append(table, key)) = {Declaration(table, key).name}
      BY DepsAreReadable, DeclarationIs
    <2>3. Append(table, key) \in StatedDeps(dev)
      BY DepsAre, Zenon
    <2>. QED
      BY <1>1, <2>1, <2>2, <2>3
  <1>3. ASSUME NEW x \in CratesStated(dev)
        PROVE  \E d \in Declarations(dev) : x = d.name
    <2>1. PICK dep \in StatedDeps(dev) : x \in Named(dep)
      BY <1>1
    <2>2a. PICK table \in TablesRead(dev) :
              \E key \in KeysIn(table) : dep = Append(table, key)
      BY DepsAre
    <2>2. PICK key \in KeysIn(table) : dep = Append(table, key)
      BY <2>2a
    <2>3. Named(Append(table, key)) = {Declaration(table, key).name}
      BY DepsAreReadable, DeclarationIs
    <2>4. Declaration(table, key) \in Declarations(dev)
      BY DeclarationsAre
    <2>. QED
      BY <2>1, <2>2, <2>3, <2>4
  <1>. QED
    BY <1>2, <1>3

\* However a dependency is spelled, it is read.
LEMMA EverySpellingIsRead ==
    ASSUME IInv
    PROVE  EverySpellingRead
  <1>. SUFFICES ASSUME Understood
                PROVE  /\ ReadRs.runtime = (CratesStated(FALSE) \cap Repos) \ {Crate}
                       /\ ReadRs.dev = (CratesStated(TRUE) \cap Repos)
                                          \ ({Crate} \cup ReadRs.runtime)
    BY Zenon DEF EverySpellingRead
  <1>. DEFINE run == {d.name : d \in Declarations(FALSE)}
              dev == {d.name : d \in Declarations(TRUE)}
              ids == {IdOf(d.name) : d \in Declarations(FALSE)} \ {Crate, NoId}
  <1>1. run = CratesStated(FALSE) /\ dev = CratesStated(TRUE)
    BY CratesAre, Zenon
  <1>2. ReadRs.runtime = ids /\ ReadRs.dev = {IdOf(name) : name \in dev} \ (ids \cup {Crate, NoId})
    BY DEF ReadRs, Fold
  <1>3. NoId \notin Repos
    BY ConstantsAreRight DEF NoIdIsNoRepo
  <1>4. ids = {IdOf(name) : name \in run} \ {Crate, NoId}
    BY Zenon
  <1>. HIDE DEF run, dev, ids
  <1>5. \A names : {IdOf(name) : name \in names} \ {NoId} = names \cap Repos
    BY <1>3 DEF IdOf
  <1>6. ids = (run \cap Repos) \ {Crate}
    BY <1>4, <1>5
  <1>7. {IdOf(name) : name \in dev} \ {NoId} = dev \cap Repos
    BY <1>5
  <1>. QED
    BY <1>1, <1>2, <1>6, <1>7, Zenon

\* A dependency is optional when every declaration of it is.
LEMMA OptionalIsRead ==
    ASSUME IInv
    PROVE  OptionalUnlessRequired
  <1>. SUFFICES ASSUME Understood, NEW id \in ReadRs.runtime
                PROVE  id \notin ReadRs.optional <=>
                          \E dep \in StatedDeps(FALSE) :
                             /\ id \in (IF Renamed(dep) = {} THEN {Last(dep)} ELSE Renamed(dep))
                             /\ ~ \E st \in Stated :
                                   st[1] = Append(dep, "optional") /\ st[2].v = "true"
    BY Zenon DEF OptionalUnlessRequired
  <1>. DEFINE given == Declarations(FALSE)
              ids == {IdOf(d.name) : d \in given} \ {Crate, NoId}
  <1>0. PICK dev \in BOOLEAN :
           /\ given = Declarations(dev) /\ StatedDeps(FALSE) = StatedDeps(dev)
    BY Zenon
  <1>1. /\ ReadRs.runtime = ids
        /\ ReadRs.optional = {i \in ids : \A d \in given : IdOf(d.name) = i => d.optional}
    BY DEF ReadRs, Fold
  <1>2. NoId \notin Repos
    BY ConstantsAreRight DEF NoIdIsNoRepo
  <1>3. id \in ids /\ id # NoId
    BY <1>1, Zenon
  <1>4. \A name : IdOf(name) = id <=> name = id
    <2>1. id \in Repos
      BY <1>3, Zenon DEF IdOf
    <2>. QED
      BY <1>2, <1>3, <2>1 DEF IdOf
  <1>5. id \notin ReadRs.optional <=> \E d \in given : d.name = id /\ ~ d.optional
    BY <1>1, <1>3, <1>4, Zenon
  <1>6. ASSUME NEW d \in given, d.name = id, ~ d.optional
        PROVE  \E dep \in StatedDeps(dev) : id \in Named(dep) /\ ~ Optional(dep)
    <2>1a. PICK table \in TablesRead(dev) :
              \E key \in KeysIn(table) : d = Declaration(table, key)
      <3>. HIDE DEF given
      <3>1. d \in Declarations(dev)
        BY <1>0, <1>6, Zenon
      <3>. QED
        BY <3>1, DeclarationsAre
    <2>1. PICK key \in KeysIn(table) : d = Declaration(table, key)
      BY <2>1a
    <2>. DEFINE dep == Append(table, key)
    <2>2. /\ Named(dep) = {Declaration(table, key).name}
          /\ Declaration(table, key).optional <=> Optional(dep)
      BY DepsAreReadable, DeclarationIs
    <2>3. dep \in StatedDeps(dev)
      BY DepsAre, Zenon
    <2>. HIDE DEF dep
    <2>4. id \in Named(dep)
      BY <1>6, <2>1, <2>2
    <2>5. ~ Optional(dep)
      BY <1>6, <2>1, <2>2, Zenon
    <2>. QED
      BY <2>3, <2>4, <2>5
  <1>7. ASSUME NEW dep \in StatedDeps(dev), id \in Named(dep), ~ Optional(dep)
        PROVE  \E d \in given : d.name = id /\ ~ d.optional
    <2>1a. PICK table \in TablesRead(dev) :
              \E key \in KeysIn(table) : dep = Append(table, key)
      BY <1>0, DepsAre
    <2>1. PICK key \in KeysIn(table) : dep = Append(table, key)
      BY <2>1a
    <2>2. /\ Named(Append(table, key)) = {Declaration(table, key).name}
          /\ Declaration(table, key).optional <=> Optional(Append(table, key))
      BY DepsAreReadable, DeclarationIs
    <2>3. Declaration(table, key) \in given
      BY <1>0, DeclarationsAre, Zenon
    <2>4. Declaration(table, key).name = id
      BY <1>7, <2>1, <2>2
    <2>5. ~ Declaration(table, key).optional
      BY <1>7, <2>1, <2>2, Zenon
    <2>. QED
      BY <2>3, <2>4, <2>5, Zenon
  <1>. HIDE DEF given
  <1>. QED
    BY <1>0, <1>5, <1>6, <1>7, Zenon DEF Named, Optional

(***************************************************************************)
(* However a dependency is spelled, it is read, and it is optional exactly *)
(* when nothing requires it: in a manifest of any keys and any values.     *)
(***************************************************************************)
THEOREM CargoRead == ReadersSpec => []CargoAsStated
  <1>1. IInv => CargoAsStated
    BY EverySpellingIsRead, OptionalIsRead DEF CargoAsStated
  <1>. QED
    BY <1>1, TreeIsSound, PTL

-----------------------------------------------------------------------------
(* GoHeader.                                                               *)

\* GoHeader flattens as the module of its instance does.
LEMMA HeaderFlattens ==
    \A ss : Header!FlattenSeq(ss) = FlattenSeq(ss)
  BY DEF FlattenSeq, Header!FlattenSeq

\* What a text is made of.
HeaderPieces == Header!Pieces \cup {Header!Newline}

\* One line more is that much more text.
LEMMA TextGrows ==
    ASSUME Header!TypeOK, NEW line \in HeaderLines, lines' = Append(lines, line)
    PROVE  /\ Header!Text' = Header!Text \o Append(line, Header!Newline)
           /\ Header!Text \in Seq(HeaderPieces)
           /\ Append(line, Header!Newline) \in Seq(HeaderPieces)
  <1>. DEFINE S == Seq(HeaderPieces)
              Of(l) == Append(l, Header!Newline)
              ss == [n \in DOMAIN lines |-> Of(lines[n])]
              tt == [n \in DOMAIN lines' |-> Of(lines'[n])]
  <1>1. /\ lines \in Seq(HeaderLines) /\ lines' \in Seq(HeaderLines)
        /\ Len(lines') = Len(lines) + 1 /\ lines'[Len(lines) + 1] = line
        /\ \A i \in 1 .. Len(lines) : lines'[i] = lines[i]
    <2>1. lines \in Seq(HeaderLines)
      BY Zenon DEF Header!TypeOK
    <2>2. /\ Append(lines, line) \in Seq(HeaderLines)
          /\ Len(Append(lines, line)) = Len(lines) + 1
          /\ Append(lines, line)[Len(lines) + 1] = line
          /\ \A i \in 1 .. Len(lines) : Append(lines, line)[i] = lines[i]
      BY <2>1, AppendProperties
    <2>. QED
      BY <2>1, <2>2, Zenon
  <1>2. \A l \in HeaderLines : Of(l) \in S
    <2>1. ASSUME NEW l \in HeaderLines
          PROVE  Of(l) \in S
      <3>1. l \in Seq(Header!Pieces)
        BY ConstantsAreRight DEF Header!LinesOfPieces
      <3>2. l \in Seq(HeaderPieces) /\ Header!Newline \in HeaderPieces
        <4>1. Header!Pieces \subseteq HeaderPieces /\ Header!Newline \in HeaderPieces
          BY DEF HeaderPieces
        <4>. QED
          BY <3>1, <4>1, SeqMonotonic
      <3>. QED
        BY <3>2, AppendProperties
    <2>. QED
      BY <2>1
  <1>3. Header!Text = FlattenSeq(ss) /\ Header!Text' = FlattenSeq(tt)
    <2>1. Header!Text = Header!FlattenSeq(ss) /\ Header!Text' = Header!FlattenSeq(tt)
      BY DEF Header!Text, Header!Newline
    <2>. HIDE DEF ss, tt
    <2>. QED
      BY <2>1, HeaderFlattens
  <1>4. Len(lines) \in Nat /\ DOMAIN lines = 1 .. Len(lines) /\ DOMAIN lines' = 1 .. Len(lines) + 1
    BY <1>1
  <1>. HIDE DEF Of
  <1>5. ss \in Seq(S) /\ Len(ss) = Len(lines) /\ \A i \in 1 .. Len(lines) : ss[i] = Of(lines[i])
    <2>1. \A i \in 1 .. Len(lines) : Of(lines[i]) \in S
      BY <1>1, <1>2, <1>4
    <2>. HIDE DEF S
    <2>. QED
      BY <1>4, <2>1
  <1>6. /\ tt \in Seq(S) /\ Len(tt) = Len(lines) + 1
        /\ \A i \in 1 .. Len(lines) + 1 : tt[i] = Of(lines'[i])
    <2>1. \A i \in 1 .. Len(lines) + 1 : Of(lines'[i]) \in S
      BY <1>1, <1>2, <1>4
    <2>2. Len(lines) + 1 \in Nat
      BY <1>4
    <2>. HIDE DEF S
    <2>. QED
      BY <1>4, <2>1, <2>2
  <1>. HIDE DEF ss, tt
  <1>7. Of(line) \in S
    BY <1>2
  <1>8. tt = Append(ss, Of(line))
    <2>1. /\ Append(ss, Of(line)) \in Seq(S) /\ Len(Append(ss, Of(line))) = Len(lines) + 1
          /\ Append(ss, Of(line))[Len(lines) + 1] = Of(line)
          /\ \A i \in 1 .. Len(lines) : Append(ss, Of(line))[i] = ss[i]
      <3>. HIDE DEF S
      <3>. QED
        BY <1>5, <1>7, AppendProperties
    <2>2. \A i \in 1 .. Len(lines) + 1 : i \in 1 .. Len(lines) \/ i = Len(lines) + 1
      BY <1>4
    <2>3. \A i \in 1 .. Len(lines) + 1 : tt[i] = Append(ss, Of(line))[i]
      BY <1>1, <1>5, <1>6, <2>1, <2>2
    <2>. HIDE DEF S
    <2>. QED
      BY <1>6, <2>1, <2>3, SeqEqual
  <1>9. /\ FlattenSeq(Append(ss, Of(line))) = FlattenSeq(ss) \o Of(line)
        /\ FlattenSeq(ss) \in S
    BY <1>5, <1>7, FlattenOneMore, Zenon
  <1>. QED
    BY <1>3, <1>7, <1>8, <1>9, Zenon DEF Of

\* What each piece of a text is in depends on those before it.
LEMMA ModesAre ==
    ASSUME NEW text \in Seq(HeaderPieces), NEW mode, mode = Header!Modes(text)
    PROVE  /\ DOMAIN mode = 1 .. Len(text) + 1 /\ mode[1] = "code"
           /\ \A k \in 1 .. Len(text) : mode[k + 1] = Header!After(mode[k], text[k])
  <1>. DEFINE N == Len(text)
              M == {"code", "block", "line"}
              Step(i, x) == Header!After(x, text[i])
              Steps(f) == f = [k \in 1 .. N + 1 |-> IF k = 1 THEN "code"
                                                    ELSE Header!After(f[k - 1], text[k - 1])]
              F == [i \in 1 .. N |-> [x \in M |-> Step(i, x)]]
  <1>1. N \in Nat
    OBVIOUS
  <1>2. F \in [1 .. N -> [M -> M]] /\ "code" \in M
    <2>1. \A i \in 1 .. N : \A x \in M : Step(i, x) \in M
      BY DEF Header!After
    <2>2. "code" \in M
      OBVIOUS
    <2>. HIDE DEF N, M, Step
    <2>. QED
      BY <2>1, <2>2
  <1>3. PICK h \in [0 .. N -> M] : TakesSteps(h, N, "code", F)
    <2>. HIDE DEF N, F, M
    <2>. QED
      BY <1>1, <1>2, RecursionDefines, Zenon
  <1>4. h[0] = "code" /\ \A i \in 1 .. N : h[i] = Step(i, h[i - 1])
    <2>1. \A i \in 1 .. N : i - 1 \in 0 .. N
      BY <1>1
    <2>. HIDE DEF N, Step, M
    <2>. QED
      BY <1>3, <2>1, Zenon DEF TakesSteps
  <1>. DEFINE g == [k \in 1 .. N + 1 |-> h[k - 1]]
  <1>5. Steps(g)
    <2>1. \A k \in 1 .. N + 1 : g[k] = h[k - 1]
      OBVIOUS
    <2>2. \A k \in 1 .. N + 1 : k # 1 => k - 1 \in 1 .. N /\ k - 1 \in 1 .. N + 1
      BY <1>1
    <2>3. \A k \in 1 .. N + 1 : k # 1 => h[k - 1] = Step(k - 1, g[k - 1])
      <3>. HIDE DEF N, Step, g
      <3>. QED
        BY <1>4, <2>1, <2>2
    <2>4. g = [k \in 1 .. N + 1 |-> g[k]]
      OBVIOUS
    <2>5. 1 - 1 = 0
      OBVIOUS
    <2>. HIDE DEF g, N
    <2>. QED
      BY <1>4, <2>1, <2>3, <2>4, <2>5, Zenon
  <1>. HIDE DEF g
  <1>6. Steps(CHOOSE f : Steps(f))
    <2>. HIDE DEF Steps
    <2>. QED
      BY <1>5
  <1>7. mode = CHOOSE f : Steps(f)
    BY DEF Header!Modes
  <1>8. Steps(mode)
    <2>. HIDE DEF Steps
    <2>. QED
      BY <1>6, <1>7, Zenon
  <1>9. /\ DOMAIN mode = 1 .. N + 1
        /\ \A k \in 1 .. N + 1 : mode[k] = IF k = 1 THEN "code" ELSE Step(k - 1, mode[k - 1])
    <2>. HIDE DEF N
    <2>. QED
      BY <1>8, Zenon
  <1>10. 1 \in 1 .. N + 1
    BY <1>1
  <1>11. \A k \in 1 .. N : mode[k + 1] = Step(k, mode[k])
    <2>1. ASSUME NEW k \in 1 .. N
          PROVE  mode[k + 1] = Step(k, mode[k])
      <3>1. PICK j : j = k + 1
        OBVIOUS
      <3>2. j \in 1 .. N + 1 /\ j # 1 /\ j - 1 = k
        BY <1>1, <3>1
      <3>3. mode[j] = Step(j - 1, mode[j - 1])
        <4>. HIDE DEF N, Step
        <4>. QED
          BY <1>9, <3>2
      <3>. HIDE DEF Step
      <3>. QED
        BY <3>1, <3>2, <3>3
    <2>. HIDE DEF Step
    <2>. QED
      BY <2>1
  <1>. QED
    BY <1>9, <1>10, <1>11

\* Where the reader is depends on the pieces before.
LEMMA WalkIs ==
    ASSUME NEW line \in Seq(Header!Pieces), NEW star \in BOOLEAN,
           NEW place, place = Header!Walk(line, star)
    PROVE  /\ place[0] = IF star THEN "star" ELSE "header"
           /\ \A i \in 1 .. Len(line) : place[i] = Header!On(place[i - 1], line[i])
           /\ \A i \in 0 .. Len(line) : place[i] \in {"header", "star", "comment", "over"}
  <1>. DEFINE N == Len(line)
              M == {"header", "star", "comment", "over"}
              e0 == IF star THEN "star" ELSE "header"
              Step(i, x) == Header!On(x, line[i])
              Steps(f) == f = [i \in 0 .. N |-> IF i = 0 THEN (IF star THEN "star" ELSE "header")
                                                ELSE Header!On(f[i - 1], line[i])]
              F == [i \in 1 .. N |-> [x \in M |-> Step(i, x)]]
  <1>1. N \in Nat
    OBVIOUS
  <1>2. /\ F \in [1 .. N -> [M -> M]] /\ e0 \in M
        /\ \A i \in 1 .. N : \A x \in M : Step(i, x) \in M
    <2>1. \A i \in 1 .. N : \A x \in M : Step(i, x) \in M
      BY DEF Header!On
    <2>2. e0 \in M
      OBVIOUS
    <2>. HIDE DEF N, M, Step, e0
    <2>. QED
      BY <2>1, <2>2
  <1>3. PICK h \in [0 .. N -> M] : TakesSteps(h, N, e0, F)
    <2>. HIDE DEF N, F, M, e0
    <2>. QED
      BY <1>1, <1>2, RecursionDefines, Zenon
  <1>4. h[0] = e0 /\ \A i \in 1 .. N : h[i] = Step(i, h[i - 1])
    <2>1. \A i \in 1 .. N : i - 1 \in 0 .. N
      BY <1>1
    <2>. HIDE DEF N, Step, M, e0
    <2>. QED
      BY <1>3, <2>1, Zenon DEF TakesSteps
  <1>5. Steps(h)
    <2>1. \A i \in 0 .. N : i # 0 => i \in 1 .. N
      BY <1>1
    <2>2. h = [i \in 0 .. N |-> h[i]]
      BY <1>3
    <2>. HIDE DEF N, F, M
    <2>. QED
      BY <1>4, <2>1, <2>2, Zenon
  <1>6. Steps(CHOOSE f : Steps(f))
    <2>. HIDE DEF Steps
    <2>. QED
      BY <1>5
  <1>7. place = CHOOSE f : Steps(f)
    BY DEF Header!Walk
  <1>8. Steps(place)
    <2>. HIDE DEF Steps
    <2>. QED
      BY <1>6, <1>7, Zenon
  <1>9. /\ place[0] = e0
        /\ \A i \in 1 .. N : place[i] = Step(i, place[i - 1])
    <2>1. \A i \in 0 .. N : place[i] = IF i = 0 THEN e0 ELSE Step(i, place[i - 1])
      <3>. HIDE DEF N
      <3>. QED
        BY <1>8, Zenon
    <2>2. 0 \in 0 .. N /\ \A i \in 1 .. N : i \in 0 .. N /\ i # 0
      BY <1>1
    <2>. HIDE DEF N, Step, Steps, e0
    <2>. QED
      BY <2>1, <2>2
  <1>10. \A i \in 0 .. N : place[i] \in M
    <2>. DEFINE P == {i \in 0 .. N : place[i] \in M}
    <2>1. 0 \in P
      BY <1>1, <1>9
    <2>2. ASSUME NEW n \in 0 .. N - 1, n \in P
          PROVE  n + 1 \in P
      <3>1. PICK j : j = n + 1
        OBVIOUS
      <3>2. j \in 1 .. N /\ j - 1 = n /\ j \in 0 .. N
        BY <1>1, <3>1
      <3>3. place[j] = Step(j, place[j - 1]) /\ place[n] \in M
        <4>. HIDE DEF Step, N, M
        <4>. QED
          BY <1>9, <2>2, <3>2
      <3>4. place[j] \in M
        <4>. HIDE DEF Step, N, M
        <4>. QED
          BY <1>2, <3>2, <3>3
      <3>. QED
        BY <3>1, <3>2, <3>4
    <2>3. P = 0 .. N
      <3>. HIDE DEF P, N
      <3>1. P \in SUBSET (0 .. N)
        BY DEF P
      <3>. QED
        BY <1>1, <2>1, <2>2, <3>1, UpTo
    <2>. QED
      BY <2>3
  <1>. QED
    BY <1>9, <1>10
\* The modes of a text of N pieces, and with w after it.
MoreModes(N, w, m, m2) ==
    /\ \A k \in 1 .. N + 1 : m2[k] = m[k]
    /\ \A i \in 1 .. Len(w) : m2[N + i + 1] = Header!After(m2[N + i], w[i])

\* The text so far stays as it is when more is read.
LEMMA ModesOfMore ==
    ASSUME NEW text \in Seq(HeaderPieces), NEW w \in Seq(HeaderPieces)
    PROVE  MoreModes(Len(text), w, Header!Modes(text), Header!Modes(text \o w))
  <1>0. PICK m, m2 : m = Header!Modes(text) /\ m2 = Header!Modes(text \o w)
    OBVIOUS
  <1>. DEFINE N == Len(text)
              L == Len(w)
              P == {k \in 1 .. N + 1 : m2[k] = m[k]}
  <1>1. /\ N \in Nat /\ L \in Nat /\ text \o w \in Seq(HeaderPieces) /\ Len(text \o w) = N + L
        /\ \A k \in 1 .. N : (text \o w)[k] = text[k]
        /\ \A i \in 1 .. L : (text \o w)[N + i] = w[i]
    BY ConcatProperties
  <1>2. m[1] = "code" /\ \A k \in 1 .. N : m[k + 1] = Header!After(m[k], text[k])
    BY <1>0, ModesAre
  <1>3. /\ m2[1] = "code"
        /\ \A k \in 1 .. N + L : m2[k + 1] = Header!After(m2[k], (text \o w)[k])
    <2>1. PICK tt \in Seq(HeaderPieces) : tt = text \o w
      BY <1>1, Zenon
    <2>2. m2 = Header!Modes(tt) /\ Len(tt) = N + L
      BY <1>0, <1>1, <2>1
    <2>3. m2[1] = "code" /\ \A k \in 1 .. Len(tt) : m2[k + 1] = Header!After(m2[k], tt[k])
      BY <2>2, ModesAre, Zenon
    <2>. HIDE DEF N, L
    <2>. QED
      BY <2>1, <2>2, <2>3
  <1>4. P = 1 .. N + 1
    <2>1. 1 \in P
      BY <1>1, <1>2, <1>3
    <2>2. ASSUME NEW k \in 1 .. (N + 1) - 1, k \in P
          PROVE  k + 1 \in P
      <3>1. k \in 1 .. N /\ k \in 1 .. N + L /\ k + 1 \in 1 .. N + 1
        BY <1>1
      <3>2. m2[k] = m[k]
        BY <2>2
      <3>. HIDE DEF N, L
      <3>3. m2[k + 1] = m[k + 1]
        BY <1>1, <1>2, <1>3, <3>1, <3>2, Zenon
      <3>. QED
        BY <3>1, <3>3
    <2>. HIDE DEF P, N
    <2>3. P \in SUBSET (1 .. N + 1)
      BY DEF P
    <2>. QED
      BY <1>1, <2>1, <2>2, <2>3, UpTo
  <1>5. ASSUME NEW i \in 1 .. L
        PROVE  m2[N + i + 1] = Header!After(m2[N + i], w[i])
    <2>1. PICK k : k = N + i
      OBVIOUS
    <2>2. k \in 1 .. N + L /\ k + 1 = N + i + 1
      BY <1>1, <2>1
    <2>. HIDE DEF N, L
    <2>3. m2[k + 1] = Header!After(m2[k], (text \o w)[k])
      BY <1>3, <2>2, Zenon
    <2>4. (text \o w)[k] = w[i]
      BY <1>1, <2>1
    <2>. QED
      BY <2>1, <2>2, <2>3, <2>4
  <1>6. MoreModes(N, w, m, m2)
    BY <1>4, <1>5 DEF MoreModes
  <1>. HIDE DEF P
  <1>. QED
    BY <1>0, <1>6

\* The pieces of a line that end the header, in their modes.
Ends(line, mm, j) == mm[j - 1] = "code" /\ line[j] \in {"code", "*/"}

\* What a line that is read is in, at each of its places.
InPlace(place) ==
    CASE place = "header" -> "code" [] place = "star" -> "block" [] OTHER -> "line"

\* Within a line the reader is where the text is, until the header ends.
LEMMA PlacesAndModes ==
    ASSUME NEW line \in Seq(Header!Pieces), NEW star \in BOOLEAN,
           NEW place, place = Header!Walk(line, star), NEW mm,
           mm[0] = IF star THEN "block" ELSE "code",
           \A i \in 1 .. Len(line) : mm[i] = Header!After(mm[i - 1], line[i])
    PROVE  /\ \A i \in 0 .. Len(line) : place[i] # "over" => mm[i] = InPlace(place[i])
           /\ place[Len(line)] # "over" => \A j \in 1 .. Len(line) : ~ Ends(line, mm, j)
           /\ place[Len(line)] \in {"header", "star", "comment", "over"}
  <1>. DEFINE N == Len(line)
              Good(i) == place[i] # "over" =>
                            mm[i] = InPlace(place[i]) /\ \A j \in 1 .. i : ~ Ends(line, mm, j)
              P == {i \in 0 .. N : Good(i)}
  <1>1. N \in Nat /\ \A i \in 1 .. N : line[i] \in Header!Pieces
    OBVIOUS
  <1>2. /\ place[0] = IF star THEN "star" ELSE "header"
        /\ \A i \in 1 .. N : place[i] = Header!On(place[i - 1], line[i])
        /\ \A i \in 0 .. N : place[i] \in {"header", "star", "comment", "over"}
    BY WalkIs
  <1>3. 0 \in P
    <2>1. Good(0)
      BY <1>1, <1>2 DEF InPlace
    <2>. QED
      BY <1>1, <2>1
  <1>4. ASSUME NEW n \in 0 .. N - 1, n \in P
        PROVE  n + 1 \in P
    <2>0. PICK i : i = n + 1
      OBVIOUS
    <2>1. i \in 1 .. N /\ i - 1 = n /\ i \in 0 .. N /\ n \in 0 .. N
      BY <1>1, <2>0
    <2>2. Good(n)
      BY <1>4
    <2>3. /\ place[i] = Header!On(place[n], line[i]) /\ mm[i] = Header!After(mm[n], line[i])
          /\ line[i] \in Header!Pieces /\ place[n] \in {"header", "star", "comment", "over"}
      <3>1. place[i] = Header!On(place[i - 1], line[i]) /\ mm[i] = Header!After(mm[i - 1], line[i])
        BY <1>2, <2>1
      <3>. HIDE DEF N
      <3>. QED
        BY <1>1, <1>2, <2>1, <3>1
    <2>4. \A j \in 1 .. i : j \in 1 .. n \/ j = i
      BY <2>1
    <2>5. ASSUME place[i] # "over"
          PROVE  /\ place[n] # "over" /\ mm[i] = InPlace(place[i])
                 /\ ~ (mm[n] = "code" /\ line[i] \in {"code", "*/"})
      <3>1. place[n] # "over"
        BY <2>3, <2>5 DEF Header!On
      <3>2. mm[n] = InPlace(place[n])
        BY <2>2, <3>1
      <3>. HIDE DEF Good, P, N
      <3>3. CASE place[n] = "header"
        BY <2>3, <2>5, <3>2, <3>3, Zenon DEF Header!On, Header!After, InPlace, Header!Pieces,
          Header!LineComments, Header!Constraints, Header!Newline
      <3>4. CASE place[n] = "star"
        BY <2>3, <2>5, <3>2, <3>4, Zenon DEF Header!On, Header!After, InPlace, Header!Pieces,
          Header!LineComments, Header!Constraints, Header!Newline
      <3>5. CASE place[n] = "comment"
        BY <2>3, <2>5, <3>2, <3>5, Zenon DEF Header!On, Header!After, InPlace, Header!Pieces,
          Header!LineComments, Header!Constraints, Header!Newline
      <3>. QED
        BY <2>3, <3>1, <3>3, <3>4, <3>5
    <2>6. Good(i)
      <3>. SUFFICES ASSUME place[i] # "over"
                    PROVE  mm[i] = InPlace(place[i]) /\ \A j \in 1 .. i : ~ Ends(line, mm, j)
        OBVIOUS
      <3>1. mm[i] = InPlace(place[i]) /\ \A j \in 1 .. n : ~ Ends(line, mm, j)
        BY <2>2, <2>5
      <3>2. ~ Ends(line, mm, i)
        BY <2>1, <2>5 DEF Ends
      <3>. QED
        BY <2>4, <3>1, <3>2
    <2>. QED
      BY <2>0, <2>1, <2>6
  <1>5. P = 0 .. N
    <2>. HIDE DEF P, N
    <2>1. P \in SUBSET (0 .. N)
      BY DEF P
    <2>. QED
      BY <1>1, <1>3, <1>4, <2>1, UpTo, Zenon
  <1>6. \A i \in 0 .. N : Good(i)
    BY <1>5
  <1>7. N \in 0 .. N
    BY <1>1
  <1>. QED
    BY <1>2, <1>6, <1>7
\* The constraints of a text, and those of one with a line more.
MoreBuilds(text, line, star, m, tt, m2, place) ==
    /\ Header!GoBuilds(tt, m2) =
          Header!GoBuilds(text, m)
              \cup (IF Header!IsConstraint(line, star) THEN {Len(text) + 1} ELSE {})
    /\ \A k \in DOMAIN text : tt[k] = text[k]
    /\ Len(text) + 1 \in DOMAIN tt
    /\ DOMAIN text \subseteq DOMAIN tt
    /\ Header!IsConstraint(line, star) => tt[Len(text) + 1] = Head(line)
    /\ tt[Len(tt)] = Header!Newline
    /\ place # "over" =>
          /\ m2[Len(tt) + 1] = IF place = "star" THEN "block" ELSE "code"
          /\ Header!NoComment(tt, m2) = {}

\* A text of comments, to the end of a line.
TextIn(text, m, star) ==
    /\ text = <<>> \/ text[Len(text)] = Header!Newline
    /\ m[Len(text) + 1] = IF star THEN "block" ELSE "code"
    /\ Header!NoComment(text, m) = {}

\* A line more has one constraint more if it begins with one outside of
\* block comments, and none that end the header if the reader has not seen
\* any.
LEMMA BuildsOfMore ==
    ASSUME NEW text \in Seq(HeaderPieces), NEW line \in Seq(Header!Pieces),
           NEW star \in BOOLEAN, TextIn(text, Header!Modes(text), star)
    PROVE  MoreBuilds(text, line, star, Header!Modes(text),
                      text \o Append(line, Header!Newline),
                      Header!Modes(text \o Append(line, Header!Newline)),
                      Header!Walk(line, star)[Len(line)])
  <1>0. PICK m, w, m2, place :
           /\ m = Header!Modes(text) /\ w = Append(line, Header!Newline)
           /\ m2 = Header!Modes(text \o w) /\ place = Header!Walk(line, star)[Len(line)]
    BY Zenon
  <1>0a. /\ text = <<>> \/ text[Len(text)] = Header!Newline
         /\ m[Len(text) + 1] = IF star THEN "block" ELSE "code"
         /\ Header!NoComment(text, m) = {}
    BY <1>0, Zenon DEF TextIn
  <1>. DEFINE N == Len(text)
              L == Len(line)
              at1 == N + 1
  <1>1. /\ N \in Nat /\ L \in Nat /\ w \in Seq(HeaderPieces) /\ Len(w) = L + 1
        /\ \A i \in 1 .. L : w[i] = line[i] /\ line[i] \in Header!Pieces
        /\ w[L + 1] = Header!Newline
    <2>1. Header!Pieces \subseteq HeaderPieces /\ Header!Newline \in HeaderPieces
      BY DEF HeaderPieces
    <2>2. line \in Seq(HeaderPieces)
      BY <2>1, SeqMonotonic
    <2>3. \A i \in 1 .. L : line[i] \in Header!Pieces
      OBVIOUS
    <2>. QED
      BY <1>0, <2>1, <2>2, <2>3, AppendProperties
  <1>2. PICK tt : tt = text \o w
    BY Zenon
  <1>3. /\ tt \in Seq(HeaderPieces) /\ Len(tt) = N + L + 1
        /\ DOMAIN tt = 1 .. N + L + 1 /\ DOMAIN text = 1 .. N
        /\ \A k \in 1 .. N : tt[k] = text[k]
        /\ \A i \in 1 .. L + 1 : tt[N + i] = w[i]
    BY <1>1, <1>2, ConcatProperties
  <1>4. /\ \A k \in 1 .. N + 1 : m2[k] = m[k]
        /\ \A i \in 1 .. L + 1 : m2[N + i + 1] = Header!After(m2[N + i], w[i])
    <2>1. /\ \A k \in 1 .. N + 1 : m2[k] = m[k]
          /\ \A i \in 1 .. Len(w) : m2[N + i + 1] = Header!After(m2[N + i], w[i])
      <3>1. w \in Seq(HeaderPieces)
        BY <1>1
      <3>. HIDE DEF N, L
      <3>2. MoreModes(Len(text), w, Header!Modes(text), Header!Modes(text \o w))
        BY <3>1, ModesOfMore
      <3>3. MoreModes(N, w, m, m2)
        BY <1>0, <3>2, Zenon DEF N
      <3>. QED
        BY <3>3, Zenon DEF MoreModes
    <2>. HIDE DEF N, L
    <2>. QED
      BY <1>1, <2>1
  <1>. DEFINE mm == [i \in 0 .. L |-> m2[N + i + 1]]
  <1>5. /\ mm[0] = IF star THEN "block" ELSE "code"
        /\ \A i \in 1 .. L : mm[i] = Header!After(mm[i - 1], line[i])
        /\ \A i \in 0 .. L : mm[i] = m2[N + i + 1]
    <2>1. 0 \in 0 .. L /\ N + 1 \in 1 .. N + 1 /\ N + 0 + 1 = N + 1
      BY <1>1
    <2>2. mm[0] = IF star THEN "block" ELSE "code"
      BY <1>0a, <1>4, <2>1
    <2>3. ASSUME NEW i \in 1 .. L
          PROVE  mm[i] = Header!After(mm[i - 1], line[i])
      <3>1. i \in 0 .. L /\ i - 1 \in 0 .. L /\ i \in 1 .. L + 1 /\ N + (i - 1) + 1 = N + i
        BY <1>1
      <3>2. mm[i] = m2[N + i + 1] /\ mm[i - 1] = m2[N + i]
        BY <3>1
      <3>. HIDE DEF mm, N, L
      <3>. QED
        BY <1>1, <1>4, <3>1, <3>2
    <2>. QED
      BY <2>2, <2>3, Zenon
  <1>. HIDE DEF mm
  <1>6. /\ \A i \in 0 .. L : Header!Walk(line, star)[i] # "over" => mm[i] = InPlace(Header!Walk(line, star)[i])
        /\ place # "over" => \A j \in 1 .. L : ~ Ends(line, mm, j)
        /\ place \in {"header", "star", "comment", "over"}
    BY <1>0, <1>5, PlacesAndModes
  <1>7. \A c \in 1 .. N : m2[c] = "code" => tt[c] \notin {"code", "*/"}
    <2>1. \A c \in 1 .. N : c \in 1 .. N + 1 /\ m2[c] = m[c]
      BY <1>1, <1>4
    <2>2. \A c \in DOMAIN text : ~ (m[c] = "code" /\ text[c] \in {"code", "*/"})
      BY <1>0a DEF Header!NoComment
    <2>. QED
      BY <1>3, <2>1, <2>2, Zenon
  <1>8. \A k \in 1 .. N + L + 1 : k \in 1 .. N \/ k = N + 1 \/ k - N \in 2 .. L + 1
    BY <1>1
  <1>9. ASSUME NEW k \in 1 .. N
        PROVE  k \in Header!GoBuilds(tt, m2) <=> k \in Header!GoBuilds(text, m)
    <2>1. \A c \in 1 .. k : c \in 1 .. N /\ c \in 1 .. N + 1
      BY <1>1
    <2>2. \A c \in 1 .. k : tt[c] = text[c] /\ m2[c] = m[c]
      BY <1>3, <1>4, <2>1
    <2>3. k \in 1 .. k /\ (k # 1 => k - 1 \in 1 .. k) /\ k \in DOMAIN text /\ k \in DOMAIN tt
      BY <1>1, <1>3
    <2>4. tt[k] = text[k] /\ m2[k] = m[k] /\ (k # 1 => tt[k - 1] = text[k - 1])
      BY <2>2, <2>3
    <2>. HIDE DEF N, L
    <2>. QED
      BY <2>2, <2>3, <2>4 DEF Header!GoBuilds
  <1>10. w[1] = tt[N + 1] /\ m2[N + 1] = IF star THEN "block" ELSE "code"
    <2>1. 1 \in 1 .. L + 1 /\ N + 1 \in 1 .. N + 1
      BY <1>1
    <2>. QED
      BY <1>0a, <1>3, <1>4, <2>1
  <1>11. Header!Newline \notin Header!Pieces /\ Header!Constraints \subseteq Header!Pieces
         /\ {"code", "*/"} \cap Header!Constraints = {}
    BY Zenon DEF Header!Newline, Header!Pieces, Header!LineComments, Header!Constraints
  <1>12. Header!IsConstraint(line, star) <=> (tt[N + 1] \in Header!Constraints /\ m2[N + 1] = "code")
    <2>1. CASE line = <<>>
      <3>1. L = 0
        BY <2>1
      <3>2. tt[N + 1] = Header!Newline
        BY <1>1, <1>10, <3>1
      <3>. QED
        BY <1>11, <2>1, <3>2 DEF Header!IsConstraint
    <2>2. CASE line # <<>>
      <3>1. 1 \in 1 .. L /\ Head(line) = line[1]
        BY <2>2
      <3>2. tt[N + 1] = Head(line)
        BY <1>1, <1>10, <3>1
      <3>. QED
        BY <1>10, <2>2, <3>2 DEF Header!IsConstraint
    <2>. QED
      BY <2>1, <2>2
  <1>13. N + 1 \in Header!GoBuilds(tt, m2) <=> Header!IsConstraint(line, star)
    <2>1. N + 1 \in DOMAIN tt /\ (N + 1) - 1 = N
      BY <1>1, <1>3
    <2>2. N + 1 = 1 \/ tt[(N + 1) - 1] = Header!Newline
      <3>1. CASE text = <<>>
        BY <3>1
      <3>2. CASE text # <<>>
        <4>1. N \in 1 .. N
          BY <3>2
        <4>2. text[N] = Header!Newline
          BY <1>0a, <3>2
        <4>3. tt[N] = Header!Newline
          BY <1>3, <4>1, <4>2
        <4>. QED
          BY <2>1, <4>3
      <3>. QED
        BY <3>1, <3>2
    <2>3. \A c \in 1 .. N + 1 : c \in 1 .. N \/ c = N + 1
      BY <1>1
    <2>4. tt[N + 1] \in Header!Constraints =>
             \A c \in 1 .. N + 1 : m2[c] = "code" => tt[c] \notin {"code", "*/"}
      BY <1>7, <1>11, <2>3
    <2>. HIDE DEF N, L
    <2>. QED
      BY <1>12, <2>1, <2>2, <2>4 DEF Header!GoBuilds
  <1>14. ASSUME NEW k \in 1 .. N + L + 1, k - N \in 2 .. L + 1
         PROVE  k \notin Header!GoBuilds(tt, m2)
    <2>1. PICK i \in 1 .. L : k - 1 = N + i
      <3>1. k - N - 1 \in 1 .. L /\ k - 1 = N + (k - N - 1)
        BY <1>1, <1>14
      <3>. QED
        BY <3>1, Zenon
    <2>2. i \in 1 .. L + 1 /\ k # 1
      BY <1>1, <2>1
    <2>3. tt[k - 1] = line[i] /\ line[i] \in Header!Pieces
      <3>. HIDE DEF N, L
      <3>. QED
        BY <1>1, <1>3, <2>1, <2>2
    <2>. HIDE DEF N, L
    <2>. QED
      BY <1>11, <2>2, <2>3 DEF Header!GoBuilds
  <1>15. Header!GoBuilds(tt, m2) =
            Header!GoBuilds(text, m)
                \cup (IF Header!IsConstraint(line, star) THEN {N + 1} ELSE {})
    <2>1. Header!GoBuilds(tt, m2) \subseteq 1 .. N + L + 1 /\ Header!GoBuilds(text, m) \subseteq 1 .. N
      BY <1>3 DEF Header!GoBuilds
    <2>2. \A k \in 1 .. N : k \in 1 .. N + L + 1 /\ k # N + 1
      BY <1>1
    <2>3. N + 1 \in 1 .. N + L + 1
      BY <1>1
    <2>. HIDE DEF N, L
    <2>. QED
      BY <1>8, <1>9, <1>13, <1>14, <2>1, <2>2, <2>3
  <1>16. ASSUME place # "over"
         PROVE  /\ m2[Len(tt) + 1] = IF place = "star" THEN "block" ELSE "code"
                /\ Header!NoComment(tt, m2) = {}
    <2>1. L \in 0 .. L /\ L + 1 \in 1 .. L + 1 /\ N + (L + 1) + 1 = Len(tt) + 1 /\ N + (L + 1) = N + L + 1
      BY <1>1, <1>3
    <2>2. mm[L] = InPlace(place)
      BY <1>0, <1>6, <1>16, <2>1
    <2>3. m2[N + (L + 1)] = mm[L]
      BY <1>5, <2>1
    <2>4. m2[Len(tt) + 1] = Header!After(mm[L], Header!Newline)
      <3>1. m2[N + (L + 1) + 1] = Header!After(m2[N + (L + 1)], w[L + 1])
        <4>. HIDE DEF N, L
        <4>. QED
          BY <1>4, <2>1
      <3>. QED
        BY <1>1, <2>1, <2>3, <3>1
    <2>5. m2[Len(tt) + 1] = IF place = "star" THEN "block" ELSE "code"
      <3>. HIDE DEF N, L
      <3>. QED
        BY <1>6, <1>16, <2>2, <2>4 DEF Header!After, InPlace, Header!Newline,
          Header!LineComments, Header!Constraints
    <2>6. ASSUME NEW k \in 1 .. N + L + 1
          PROVE  ~ (m2[k] = "code" /\ tt[k] \in {"code", "*/"})
      <3>1. CASE k \in 1 .. N
        BY <1>7, <3>1
      <3>2. CASE k = N + L + 1
        <4>1. tt[N + (L + 1)] = Header!Newline
          <5>. HIDE DEF N, L
          <5>. QED
            BY <1>1, <1>3, <2>1
        <4>2. tt[k] = Header!Newline
          BY <2>1, <3>2, <4>1
        <4>. QED
          BY <4>2 DEF Header!Newline
      <3>3. CASE k \notin 1 .. N /\ k # N + L + 1
        <4>1. PICK j \in 1 .. L : k = N + j
          <5>1. k - N \in 1 .. L /\ k = N + (k - N)
            BY <1>1, <3>3
          <5>. QED
            BY <5>1, Zenon
        <4>2. j \in 1 .. L + 1 /\ j - 1 \in 0 .. L /\ N + (j - 1) + 1 = k
          BY <1>1, <4>1
        <4>3. ~ Ends(line, mm, j)
          BY <1>6, <1>16
        <4>4. mm[j - 1] = m2[N + (j - 1) + 1] /\ tt[k] = line[j]
          <5>. HIDE DEF N, L
          <5>. QED
            BY <1>1, <1>3, <1>5, <4>1, <4>2
        <4>5. mm[j - 1] = m2[k]
          BY <4>2, <4>4
        <4>. HIDE DEF N, L
        <4>. QED
          BY <4>3, <4>4, <4>5 DEF Ends
      <3>. QED
        BY <3>1, <3>2, <3>3
    <2>7. Header!NoComment(tt, m2) = {}
      <3>. HIDE DEF N, L
      <3>. QED
        BY <1>3, <2>6 DEF Header!NoComment
    <2>. QED
      BY <2>5, <2>7
  <1>17. /\ \A k \in DOMAIN text : tt[k] = text[k]
         /\ N + 1 \in DOMAIN tt /\ DOMAIN text \subseteq DOMAIN tt
         /\ tt[Len(tt)] = Header!Newline
    <2>1. N + 1 \in 1 .. N + L + 1 /\ L + 1 \in 1 .. L + 1 /\ N + (L + 1) = N + L + 1
          /\ 1 .. N \subseteq 1 .. N + L + 1
      BY <1>1
    <2>2. tt[N + (L + 1)] = w[L + 1]
      <3>. HIDE DEF N, L
      <3>. QED
        BY <1>3, <2>1
    <2>. HIDE DEF N, L
    <2>. QED
      BY <1>1, <1>3, <2>1, <2>2
  <1>18. Header!IsConstraint(line, star) => tt[N + 1] = Head(line)
    <2>. SUFFICES ASSUME Header!IsConstraint(line, star)
                  PROVE  tt[N + 1] = Head(line)
      OBVIOUS
    <2>1. line # <<>>
      BY DEF Header!IsConstraint
    <2>2. 1 \in 1 .. L /\ Head(line) = line[1]
      BY <2>1
    <2>. QED
      BY <1>1, <1>10, <2>2
  <1>. QED
    <2>1. MoreBuilds(text, line, star, m, tt, m2, place)
      BY <1>15, <1>16, <1>17, <1>18 DEF MoreBuilds
    <2>. QED
      BY <1>0, <1>2, <2>1, Zenon

\* GoHeader counts as the module of its instance does.
LEMMA HeaderCounts ==
    \A S : Header!Cardinality(S) = Cardinality(S)
  BY DEF Cardinality, Header!Cardinality

\* Neither no constraint nor one is more than one.
LEMMA OneAtMost ==
    ~ (0 > 1) /\ ~ (1 > 1)
  OBVIOUS

\* The verdict of a header whose constraints are known.
LEMMA VerdictOf ==
    ASSUME NEW text, NEW builds, NEW ls, NEW top, NEW g,
           IF g = "" THEN builds = {} ELSE \E k \in DOMAIN text : builds = {k} /\ text[k] = g,
           Header!PlusBuildCounts(ls) <=>
              \E n \in 1 .. top : Header!IsPlusBuild(ls[n])
    PROVE  Header!Verdict(g, ls, top) = Header!GoVerdict(text, builds, ls)
  <1>1. CASE g = ""
    <2>1. builds = {} /\ Header!Cardinality(builds) = 0
      BY <1>1, HeaderCounts, FS_EmptySet, Zenon
    <2>2. ~ (Header!Cardinality(builds) > 1)
      BY <2>1, OneAtMost, Zenon
    <2>3. Header!GoVerdict(text, builds, ls) =
             IF Header!PlusBuildCounts(ls) THEN "ignored" ELSE "compiled"
      BY <2>1, <2>2, Zenon DEF Header!GoVerdict
    <2>4. Header!Verdict(g, ls, top) =
             IF \E n \in 1 .. top : Header!IsPlusBuild(ls[n])
             THEN "ignored" ELSE "compiled"
      BY <1>1, Zenon DEF Header!Verdict
    <2>. QED
      BY <2>3, <2>4, Zenon
  <1>2. CASE g # ""
    <2>1. PICK k : builds = {k} /\ text[k] = g
      BY <1>2, Zenon
    <2>2. Header!Cardinality(builds) = 1
      BY <2>1, HeaderCounts, FS_Singleton, Zenon
    <2>3. builds # {} /\ ((\E j \in builds : text[j] = "//go:build ignore") <=> g = "//go:build ignore")
      BY <2>1, Zenon
    <2>4. ~ (Header!Cardinality(builds) > 1)
      BY <2>2, OneAtMost, Zenon
    <2>5. Header!GoVerdict(text, builds, ls) =
             IF g = "//go:build ignore" THEN "ignored" ELSE "compiled"
      BY <2>3, <2>4, Zenon DEF Header!GoVerdict
    <2>. QED
      BY <1>2, <2>5, Zenon DEF Header!Verdict
  <1>. QED
    BY <1>1, <1>2, Zenon

\* A +build line counts up to the last blank line of the comments that come
\* first.
LEMMA PlusLines ==
    ASSUME NEW ls \in Seq(HeaderLines), NEW top \in 0 .. Len(ls),
           top # 0 => Header!BlankAfter(ls, top),
           \A n \in DOMAIN ls : Header!BlankAfter(ls, n) => n <= top
    PROVE  Header!PlusBuildCounts(ls) <=>
              \E n \in 1 .. top : Header!IsPlusBuild(ls[n])
  <1>1. ASSUME NEW n \in 1 .. top, Header!IsPlusBuild(ls[n])
        PROVE  Header!PlusBuildCounts(ls)
    <2>1. n \in DOMAIN ls /\ top \in DOMAIN ls /\ Header!BlankAfter(ls, top)
      BY <1>1
    <2>2. n # top
      BY <1>1, <2>1, Zenon DEF Header!BlankAfter, Header!IsPlusBuild
    <2>3. n < top
      BY <1>1, <2>2
    <2>. QED
      BY <1>1, <2>1, <2>2, <2>3 DEF Header!PlusBuildCounts
  <1>2. ASSUME Header!PlusBuildCounts(ls)
        PROVE  \E n \in 1 .. top : Header!IsPlusBuild(ls[n])
    <2>1. PICK n \in DOMAIN ls, blank \in DOMAIN ls :
             /\ n < blank /\ Header!BlankAfter(ls, blank)
             /\ Header!IsPlusBuild(ls[n])
      BY <1>2 DEF Header!PlusBuildCounts
    <2>2. n \in 1 .. top
      <3>1. blank <= top /\ n \in 1 .. Len(ls) /\ blank \in 1 .. Len(ls)
        BY <2>1
      <3>. QED
        BY <2>1, <3>1
    <2>. QED
      BY <2>1, <2>2
  <1>. QED
    BY <1>1, <1>2

\* A line that begins with a line comment is one to its end.
LEMMA CommentToTheEnd ==
    ASSUME NEW line \in Seq(Header!Pieces), Header!StartsComment(line)
    PROVE  Header!Walk(line, FALSE)[Len(line)] = "comment"
  <1>1. PICK star \in BOOLEAN : ~ star
    BY Zenon
  <1>2. PICK place : place = Header!Walk(line, star)
    OBVIOUS
  <1>. DEFINE N == Len(line)
              P == {i \in 1 .. N : place[i] = "comment"}
  <1>3. /\ place[0] = "header" /\ \A i \in 1 .. N : place[i] = Header!On(place[i - 1], line[i])
    BY <1>1, <1>2, WalkIs
  <1>4. N \in Nat /\ 1 \in 1 .. N /\ line[1] \in Header!LineComments /\ N \in 1 .. N
    BY DEF Header!StartsComment
  <1>5. 1 \in P
    <2>1. place[1] = Header!On(place[1 - 1], line[1]) /\ 1 - 1 = 0
      BY <1>3, <1>4
    <2>2. place[1] = Header!On("header", line[1])
      BY <1>3, <2>1
    <2>. QED
      BY <1>4, <2>2 DEF Header!On
  <1>6. ASSUME NEW n \in 1 .. N - 1, n \in P
        PROVE  n + 1 \in P
    <2>0. PICK i : i = n + 1
      OBVIOUS
    <2>1. i \in 1 .. N /\ i - 1 = n
      BY <1>4, <2>0
    <2>2. place[i] = Header!On(place[i - 1], line[i]) /\ place[n] = "comment"
      BY <1>3, <1>6, <2>1
    <2>3. place[i] = "comment"
      BY <2>1, <2>2 DEF Header!On
    <2>. QED
      BY <2>0, <2>1, <2>3
  <1>7. P = 1 .. N
    <2>. HIDE DEF P, N
    <2>1. P \in SUBSET (1 .. N)
      BY DEF P
    <2>. QED
      BY <1>4, <1>5, <1>6, <2>1, UpTo
  <1>8. place[N] = "comment"
    BY <1>4, <1>7
  <1>. QED
    <2>1. star = FALSE
      BY <1>1
    <2>. QED
      BY <1>2, <1>8, <2>1, Zenon

\* The lines of a file are the pieces they are made of, and one is read.
LEMMA HeaderLineRead ==
    ASSUME Header!TypeOK, NEW line \in HeaderLines, lines' = Append(lines, line)
    PROVE  /\ line \in Seq(Header!Pieces) /\ lines' \in Seq(HeaderLines)
           /\ Len(lines) \in Nat /\ Len(lines') = Len(lines) + 1
           /\ DOMAIN lines = 1 .. Len(lines) /\ DOMAIN lines' = 1 .. Len(lines) + 1
           /\ lines'[Len(lines) + 1] = line
           /\ \A i \in 1 .. Len(lines) : lines'[i] = lines[i]
  <1>1. line \in Seq(Header!Pieces)
    BY ConstantsAreRight DEF Header!LinesOfPieces
  <1>2. lines \in Seq(HeaderLines)
    BY Zenon DEF Header!TypeOK
  <1>3. /\ Append(lines, line) \in Seq(HeaderLines)
        /\ Len(Append(lines, line)) = Len(lines) + 1
        /\ Append(lines, line)[Len(lines) + 1] = line
        /\ \A i \in 1 .. Len(lines) : Append(lines, line)[i] = lines[i]
    BY <1>2, AppendProperties
  <1>4. PICK ls : ls = lines' /\ ls = Append(lines, line)
    OBVIOUS
  <1>5. /\ ls \in Seq(HeaderLines) /\ Len(ls) = Len(lines) + 1
        /\ ls[Len(lines) + 1] = line /\ \A i \in 1 .. Len(lines) : ls[i] = lines[i]
    BY <1>3, <1>4, Zenon
  <1>6. Len(lines) \in Nat /\ DOMAIN lines = 1 .. Len(lines) /\ DOMAIN ls = 1 .. Len(lines) + 1
    BY <1>2, <1>5
  <1>. QED
    BY <1>1, <1>4, <1>5, <1>6, Zenon

\* A file to decide on is left out or compiled.
LEMMA VerdictIsOne ==
    \A g, ls, top : Header!Verdict(g, ls, top) \in {"ignored", "compiled"}
  BY Zenon DEF Header!Verdict

\* A line is read into the types.
LEMMA HeaderTypeKept ==
    ASSUME Header!TypeOK, NEW line \in HeaderLines, Header!ReadLine(line)
    PROVE  Header!TypeOK'
  <1>1. /\ lines' = Append(lines, line) /\ end' = Header!EndAfter(line, Len(lines'))
        /\ ended' = (ended \/ (line # <<>> /\ ~ Header!StartsComment(line)))
        /\ goBuild' = IF Header!IsConstraint(line, inStar) /\ goBuild = "" THEN Head(line) ELSE goBuild
        /\ inStar' = (Header!Walk(line, inStar)[Len(line)] = "star")
        /\ verdict' \in {"unreadable", "reading", Header!Verdict(goBuild', lines', end')}
    BY Zenon DEF Header!ReadLine
  <1>2. /\ line \in Seq(Header!Pieces) /\ lines' \in Seq(HeaderLines)
        /\ Len(lines) \in Nat /\ Len(lines') = Len(lines) + 1
    BY <1>1, HeaderLineRead, Zenon
  <1>3. /\ end \in 0 .. Len(lines) /\ ended \in BOOLEAN /\ inStar \in BOOLEAN
        /\ goBuild \in Header!Constraints \cup {""} /\ (inStar => ended)
    BY Zenon DEF Header!TypeOK
  <1>4. end' \in 0 .. Len(lines')
    <2>1. end' = IF line = <<>> /\ ~ended THEN Len(lines') ELSE end
      BY <1>1, Zenon DEF Header!EndAfter
    <2>2. end \in 0 .. Len(lines)
      BY <1>3, Zenon
    <2>3. PICK N : N = Len(lines')
      BY Zenon
    <2>4. N \in 0 .. N /\ end \in 0 .. N
      BY <1>2, <2>2, <2>3
    <2>. QED
      BY <2>1, <2>3, <2>4, Zenon
  <1>5. goBuild' \in Header!Constraints \cup {""}
    BY <1>1, <1>3, Zenon DEF Header!IsConstraint
  <1>6. ended' \in BOOLEAN /\ inStar' \in BOOLEAN
    BY <1>1, Zenon
  <1>7. verdict' \in Header!Verdicts
    BY <1>1, VerdictIsOne, Zenon DEF Header!Verdicts
  <1>8. inStar' => ended'
    <2>1. CASE inStar
      BY <1>1, <1>3, <2>1, Zenon
    <2>2. CASE ~ inStar /\ line = <<>>
      <3>1. Header!Walk(line, inStar)[0] = "header" /\ Len(line) = 0
        BY <1>2, <1>3, <2>2, WalkIs, Zenon
      <3>2. "header" # "star"
        OBVIOUS
      <3>. QED
        BY <1>1, <3>1, <3>2, Zenon
    <2>3. CASE ~ inStar /\ Header!StartsComment(line)
      <3>1. inStar = FALSE
        BY <1>3, <2>3, Zenon
      <3>2. Header!Walk(line, inStar)[Len(line)] = "comment"
        BY <1>2, <2>3, <3>1, CommentToTheEnd, Zenon
      <3>3. "comment" # "star"
        OBVIOUS
      <3>. QED
        BY <1>1, <3>2, <3>3, Zenon
    <2>. QED
      BY <1>1, <2>1, <2>2, <2>3, Zenon
  <1>. QED
    BY <1>2, <1>4, <1>5, <1>6, <1>7, <1>8, Zenon DEF Header!TypeOK

\* The last blank line of the comments that come first is kept.
LEMMA HeaderLinesKept ==
    ASSUME Header!TypeOK, Header!LinesSoFar, NEW line \in HeaderLines, Header!ReadLine(line)
    PROVE  Header!LinesSoFar'
  <1>1. /\ lines' = Append(lines, line) /\ end' = Header!EndAfter(line, Len(lines'))
        /\ ended' = (ended \/ (line # <<>> /\ ~ Header!StartsComment(line)))
    BY Zenon DEF Header!ReadLine
  <1>2. PICK ls, N : ls = lines' /\ N = Len(lines)
    BY Zenon
  <1>3. /\ N \in Nat /\ Len(ls) = N + 1
        /\ DOMAIN lines = 1 .. N /\ DOMAIN ls = 1 .. N + 1
        /\ ls[N + 1] = line /\ \A i \in 1 .. N : ls[i] = lines[i]
    BY <1>1, <1>2, HeaderLineRead, Zenon
  <1>4. /\ end \in 0 .. N /\ ended \in BOOLEAN
    BY <1>2, Zenon DEF Header!TypeOK
  <1>5. /\ ended <=> \E i \in 1 .. N : lines[i] # <<>> /\ ~ Header!StartsComment(lines[i])
        /\ end # 0 => Header!BlankAfter(lines, end)
        /\ \A n \in 1 .. N : Header!BlankAfter(lines, n) => n <= end
    BY <1>3, Zenon DEF Header!LinesSoFar
  <1>6. \A i \in 1 .. N + 1 : i \in 1 .. N \/ i = N + 1
    BY <1>3
  <1>7. 1 .. N \subseteq 1 .. N + 1 /\ N + 1 \in 1 .. N + 1
    BY <1>3
  <1>8. ended' <=> \E i \in 1 .. N + 1 : ls[i] # <<>> /\ ~ Header!StartsComment(ls[i])
    <2>1. (\E i \in 1 .. N + 1 : ls[i] # <<>> /\ ~ Header!StartsComment(ls[i]))
             <=> (\E i \in 1 .. N : lines[i] # <<>> /\ ~ Header!StartsComment(lines[i]))
                     \/ (line # <<>> /\ ~ Header!StartsComment(line))
      BY <1>3, <1>6, <1>7
    <2>. QED
      BY <1>1, <1>5, <2>1, Zenon
  <1>9. \A n \in 1 .. N : Header!BlankAfter(ls, n) <=> Header!BlankAfter(lines, n)
    <2>1. ASSUME NEW n \in 1 .. N
          PROVE  Header!BlankAfter(ls, n) <=> Header!BlankAfter(lines, n)
      <3>1. \A i \in 1 .. n : i \in 1 .. N
        BY <1>3
      <3>2. ls[n] = lines[n] /\ \A i \in 1 .. n : ls[i] = lines[i]
        BY <1>3, <3>1
      <3>. QED
        BY <3>2, Zenon DEF Header!BlankAfter
    <2>. QED
      BY <2>1
  <1>10. Header!BlankAfter(ls, N + 1) <=> line = <<>> /\ ~ ended
    <2>1. CASE line # <<>>
      BY <1>3, <2>1, Zenon DEF Header!BlankAfter
    <2>2. CASE line = <<>>
      <3>1. Header!BlankAfter(ls, N + 1) <=>
               \A i \in 1 .. N : lines[i] = <<>> \/ Header!StartsComment(lines[i])
        BY <1>3, <1>6, <1>7, <2>2 DEF Header!BlankAfter
      <3>. QED
        BY <1>5, <2>2, <3>1, Zenon
    <2>. QED
      BY <2>1, <2>2
  <1>11. end' = IF line = <<>> /\ ~ ended THEN N + 1 ELSE end
    BY <1>1, <1>2, <1>3, Zenon DEF Header!EndAfter
  <1>12. end' # 0 => Header!BlankAfter(ls, end')
    <2>1. CASE line = <<>> /\ ~ ended
      BY <1>10, <1>11, <2>1, Zenon
    <2>2. CASE ~ (line = <<>> /\ ~ ended)
      <3>1. end' = end
        BY <1>11, <2>2, Zenon
      <3>2. end # 0 => end \in 1 .. N
        BY <1>3, <1>4
      <3>. QED
        BY <1>5, <1>9, <3>1, <3>2, Zenon
    <2>. QED
      BY <2>1, <2>2
  <1>13. \A n \in 1 .. N + 1 : Header!BlankAfter(ls, n) => n <= end'
    <2>1. end <= end' /\ (Header!BlankAfter(ls, N + 1) => end' = N + 1)
      <3>1. end <= N + 1 /\ end <= end
        BY <1>3, <1>4
      <3>. QED
        BY <1>10, <1>11, <3>1, Zenon
    <2>2. end' \in Int
      <3>1. N + 1 \in Int /\ end \in Int
        BY <1>3, <1>4
      <3>. QED
        BY <1>11, <3>1, Zenon
    <2>3. ASSUME NEW n \in 1 .. N, Header!BlankAfter(ls, n)
          PROVE  n <= end'
      <3>1. n <= end
        BY <1>5, <1>9, <2>3, Zenon
      <3>2. end \in Int /\ n \in Int
        BY <1>4
      <3>. QED
        BY <2>1, <2>2, <3>1, <3>2
    <2>4. N + 1 <= N + 1
      BY <1>3
    <2>. QED
      BY <1>6, <2>1, <2>3, <2>4, Zenon
  <1>14. DOMAIN lines' = 1 .. N + 1
    BY <1>2, <1>3, Zenon
  <1>. QED
    BY <1>2, <1>8, <1>12, <1>13, <1>14, Zenon DEF Header!LinesSoFar

\* The text is followed, and what a header is left out for is what Go
\* leaves it out for.
LEMMA HeaderTextKept ==
    ASSUME Header!TypeOK, Header!LinesSoFar, Header!TextSoFar,
           NEW line \in HeaderLines, Header!ReadLine(line)
    PROVE  Header!TextSoFar' /\ Header!IgnoresAsGoDoes'
  <1>1. /\ verdict = "reading"
        /\ lines' = Append(lines, line)
        /\ goBuild' = IF Header!IsConstraint(line, inStar) /\ goBuild = "" THEN Head(line) ELSE goBuild
        /\ inStar' = (Header!Walk(line, inStar)[Len(line)] = "star")
        /\ verdict' = IF Header!IsConstraint(line, inStar) /\ goBuild # "" THEN "unreadable"
                      ELSE IF Header!Walk(line, inStar)[Len(line)] # "over" THEN "reading"
                      ELSE Header!Verdict(goBuild', lines', end')
    BY Zenon DEF Header!ReadLine
  <1>2. PICK text, w, m, m2, place :
           /\ text = Header!Text /\ w = Append(line, Header!Newline)
           /\ m = Header!Modes(text) /\ m2 = Header!Modes(text \o w)
           /\ place = Header!Walk(line, inStar)[Len(line)]
    BY Zenon
  <1>3. PICK tt : tt = text \o w
    BY Zenon
  <1>4. tt = Header!Text' /\ text \in Seq(HeaderPieces)
    BY <1>1, <1>2, <1>3, TextGrows, Zenon
  <1>5. line \in Seq(Header!Pieces) /\ inStar \in BOOLEAN
    <2>1. inStar \in BOOLEAN
      BY Zenon DEF Header!TypeOK
    <2>. QED
      BY <1>1, <2>1, HeaderLineRead, Zenon
  <1>6. PICK builds, builds2 :
           builds = Header!GoBuilds(text, m) /\ builds2 = Header!GoBuilds(tt, m2)
    OBVIOUS
  <1>7. /\ text = <<>> \/ text[Len(text)] = Header!Newline
        /\ m[Len(text) + 1] = IF inStar THEN "block" ELSE "code"
        /\ Header!NoComment(text, m) = {}
        /\ IF goBuild = "" THEN builds = {}
           ELSE \E k \in DOMAIN text : builds = {k} /\ text[k] = goBuild
    BY <1>1, <1>2, <1>6, Zenon DEF Header!TextSoFar
  <1>8. PICK one : one = Len(text) + 1
    OBVIOUS
  <1>9. /\ builds2 = builds \cup (IF Header!IsConstraint(line, inStar) THEN {one} ELSE {})
        /\ \A k \in DOMAIN text : tt[k] = text[k]
        /\ one \in DOMAIN tt /\ DOMAIN text \subseteq DOMAIN tt
        /\ Header!IsConstraint(line, inStar) => tt[one] = Head(line)
        /\ tt[Len(tt)] = Header!Newline
        /\ place # "over" =>
              /\ m2[Len(tt) + 1] = IF place = "star" THEN "block" ELSE "code"
              /\ Header!NoComment(tt, m2) = {}
    <2>1. TextIn(text, Header!Modes(text), inStar)
      BY <1>2, <1>7, Zenon DEF TextIn
    <2>2. MoreBuilds(text, line, inStar, Header!Modes(text),
                     text \o Append(line, Header!Newline),
                     Header!Modes(text \o Append(line, Header!Newline)),
                     Header!Walk(line, inStar)[Len(line)])
      BY <1>4, <1>5, <2>1, BuildsOfMore
    <2>3. MoreBuilds(text, line, inStar, m, tt, m2, place)
      BY <1>2, <1>3, <2>2, Zenon
    <2>. QED
      BY <1>6, <1>8, <2>3, Zenon DEF MoreBuilds
  <1>10. one \notin DOMAIN text
    BY <1>4, <1>8
  <1>11. Header!PlusBuildCounts(lines') <=> \E n \in 1 .. end' : Header!IsPlusBuild(lines'[n])
    <2>1. PICK ls, top : ls = lines' /\ top = end'
      OBVIOUS
    <2>2. /\ ls \in Seq(HeaderLines) /\ top \in 0 .. Len(ls)
      BY <2>1, HeaderTypeKept, Zenon DEF Header!TypeOK
    <2>3. /\ top # 0 => Header!BlankAfter(ls, top)
          /\ \A n \in DOMAIN ls : Header!BlankAfter(ls, n) => n <= top
      BY <2>1, HeaderLinesKept, Zenon DEF Header!LinesSoFar
    <2>4. Header!PlusBuildCounts(ls) <=> \E n \in 1 .. top : Header!IsPlusBuild(ls[n])
      BY <2>2, <2>3, PlusLines, Zenon
    <2>. QED
      BY <2>1, <2>4, Zenon
  <1>12. Header!GoSays' = Header!GoVerdict(tt, builds2, lines')
    BY <1>2, <1>3, <1>4, <1>6, Zenon DEF Header!GoSays
  <1>13. CASE Header!IsConstraint(line, inStar) /\ goBuild # ""
    <2>1. PICK k \in DOMAIN text : builds = {k}
      BY <1>7, <1>13, Zenon
    <2>2. k # one /\ builds2 = {k, one}
      BY <1>9, <1>10, <1>13, <2>1, Zenon
    <2>3. Header!Cardinality(builds2) = 2
      <3>1. Cardinality({k}) = 1 /\ IsFiniteSet({k})
        BY FS_Singleton, Zenon
      <3>2. Cardinality({k} \cup {one}) = 2 /\ {k} \cup {one} = {k, one}
        <4>1. one \notin {k}
          BY <2>2
        <4>2. Cardinality({k} \cup {one}) = Cardinality({k}) + 1
          BY <3>1, <4>1, FS_AddElement, Zenon
        <4>. QED
          BY <3>1, <4>2
      <3>. QED
        BY <2>2, <3>2, HeaderCounts, Zenon
    <2>4. Header!Cardinality(builds2) > 1
      BY <2>3
    <2>5. Header!GoSays' = "unreadable"
      BY <1>12, <2>2, <2>4, Zenon DEF Header!GoVerdict
    <2>6. verdict' = "unreadable"
      BY <1>1, <1>13, Zenon
    <2>7. "unreadable" # "reading"
      OBVIOUS
    <2>. QED
      BY <2>5, <2>6, <2>7, Zenon DEF Header!TextSoFar, Header!IgnoresAsGoDoes
  <1>14. CASE ~ (Header!IsConstraint(line, inStar) /\ goBuild # "")
    <2>1. IF goBuild' = "" THEN builds2 = {}
          ELSE \E k \in DOMAIN tt : builds2 = {k} /\ tt[k] = goBuild'
      <3>1. CASE Header!IsConstraint(line, inStar)
        <4>1. goBuild = "" /\ goBuild' = Head(line)
          BY <1>1, <1>14, <3>1, Zenon
        <4>2. builds2 = {one} /\ tt[one] = goBuild'
          <5>1. builds = {}
            BY <1>7, <4>1, Zenon
          <5>2. builds2 = {one}
            BY <1>9, <3>1, <5>1
          <5>. QED
            BY <1>9, <3>1, <4>1, <5>2, Zenon
        <4>3. goBuild' # ""
          BY <3>1, <4>1, Zenon DEF Header!IsConstraint, Header!Constraints
        <4>. QED
          BY <1>9, <4>2, <4>3, Zenon
      <3>2. CASE ~ Header!IsConstraint(line, inStar)
        <4>1. goBuild' = goBuild
          BY <1>1, <3>2, Zenon
        <4>2. builds2 = builds
          BY <1>9, <3>2
        <4>3. CASE goBuild = ""
          BY <1>7, <4>1, <4>2, <4>3, Zenon
        <4>4. CASE goBuild # ""
          <5>1. PICK k \in DOMAIN text : builds = {k} /\ text[k] = goBuild
            BY <1>7, <4>4, Zenon
          <5>2. k \in DOMAIN tt /\ tt[k] = text[k]
            BY <1>9
          <5>. QED
            BY <4>1, <4>2, <4>4, <5>1, <5>2, Zenon
        <4>. QED
          BY <4>3, <4>4, Zenon
      <3>. QED
        BY <3>1, <3>2, Zenon
    <2>2. CASE place # "over"
      <3>1. verdict' = "reading"
        BY <1>1, <1>2, <1>14, <2>2, Zenon
      <3>2. Header!IgnoresAsGoDoes'
        BY <3>1, Zenon DEF Header!IgnoresAsGoDoes
      <3>3. inStar' <=> place = "star"
        BY <1>1, <1>2, Zenon
      <3>4. /\ m2[Len(tt) + 1] = IF inStar' THEN "block" ELSE "code"
            /\ Header!NoComment(tt, m2) = {}
        BY <1>9, <2>2, <3>3, Zenon
      <3>5. m2 = Header!Modes(Header!Text')
        BY <1>2, <1>3, <1>4, Zenon
      <3>6. Header!TextSoFar'
        BY <1>4, <1>6, <1>9, <2>1, <3>4, <3>5, Zenon DEF Header!TextSoFar
      <3>. QED
        BY <3>2, <3>6
    <2>3. CASE place = "over"
      <3>1. verdict' = Header!Verdict(goBuild', lines', end')
        BY <1>1, <1>2, <1>14, <2>3, Zenon
      <3>2. Header!Verdict(goBuild', lines', end') = Header!GoVerdict(tt, builds2, lines')
        BY <1>11, <2>1, VerdictOf, Zenon
      <3>3. verdict' # "reading"
        <4>1. "ignored" # "reading" /\ "compiled" # "reading"
          OBVIOUS
        <4>. QED
          BY <3>1, <4>1, VerdictIsOne, Zenon
      <3>. QED
        BY <1>12, <3>1, <3>2, <3>3, Zenon DEF Header!TextSoFar, Header!IgnoresAsGoDoes
    <2>. QED
      BY <2>2, <2>3
  <1>. QED
    BY <1>13, <1>14, Zenon

\* At the end of the file, too.
LEMMA HeaderEndKeeps ==
    ASSUME Header!IInv, Header!EndOfFile
    PROVE  Header!IInv'
  <1>1. /\ verdict = "reading" /\ verdict' = Header!Verdict(goBuild, lines, end)
        /\ lines' = lines /\ end' = end /\ ended' = ended /\ inStar' = inStar /\ goBuild' = goBuild
    BY Zenon DEF Header!EndOfFile
  <1>2. Header!TypeOK /\ Header!TextSoFar /\ Header!LinesSoFar
    BY Zenon DEF Header!IInv
  <1>3. Header!TypeOK'
    <2>1. verdict' \in Header!Verdicts
      BY <1>1, VerdictIsOne, Zenon DEF Header!Verdicts
    <2>. QED
      BY <1>1, <1>2, <2>1, Zenon DEF Header!TypeOK
  <1>4. Header!LinesSoFar'
    BY <1>1, <1>2, Zenon DEF Header!LinesSoFar
  <1>5. verdict' # "reading"
    <2>1. "ignored" # "reading" /\ "compiled" # "reading"
      OBVIOUS
    <2>. QED
      BY <1>1, <2>1, VerdictIsOne, Zenon
  <1>6. PICK text, builds : text = Header!Text /\ builds = Header!GoBuilds(text, Header!Modes(text))
    OBVIOUS
  <1>7. IF goBuild = "" THEN builds = {}
        ELSE \E k \in DOMAIN text : builds = {k} /\ text[k] = goBuild
    BY <1>1, <1>2, <1>6, Zenon DEF Header!TextSoFar
  <1>8. Header!PlusBuildCounts(lines) <=> \E n \in 1 .. end : Header!IsPlusBuild(lines[n])
    <2>1. lines \in Seq(HeaderLines) /\ end \in 0 .. Len(lines)
      BY <1>2, Zenon DEF Header!TypeOK
    <2>2. /\ end # 0 => Header!BlankAfter(lines, end)
          /\ \A n \in DOMAIN lines : Header!BlankAfter(lines, n) => n <= end
      BY <1>2, Zenon DEF Header!LinesSoFar
    <2>. QED
      BY <2>1, <2>2, PlusLines, Zenon
  <1>9. Header!Verdict(goBuild, lines, end) = Header!GoVerdict(text, builds, lines)
    BY <1>7, <1>8, VerdictOf, Zenon
  <1>10. Header!Text' = text
    BY <1>1, <1>6, Zenon DEF Header!Text
  <1>11. Header!GoSays' = Header!GoVerdict(text, builds, lines)
    BY <1>1, <1>6, <1>10, Zenon DEF Header!GoSays
  <1>. QED
    BY <1>1, <1>3, <1>4, <1>5, <1>9, <1>11, Zenon
      DEF Header!IInv, Header!TextSoFar, Header!IgnoresAsGoDoes

\* An empty text has no constraint.
LEMMA HeaderBegins ==
    ASSUME Header!Init
    PROVE  Header!IInv
  <1>1. /\ lines = <<>> /\ end = 0 /\ ended = FALSE /\ inStar = FALSE /\ goBuild = ""
        /\ verdict = "reading"
    BY Zenon DEF Header!Init
  <1>2. Len(lines) = 0 /\ DOMAIN lines = {} /\ lines \in Seq(HeaderLines)
    <2>1. lines = <<>>
      BY <1>1, Zenon
    <2>. QED
      BY <2>1
  <1>3. end \in 0 .. Len(lines)
    <2>1. 0 \in 0 .. 0
      OBVIOUS
    <2>. QED
      BY <1>1, <1>2, <2>1, Zenon
  <1>4. Header!TypeOK
    BY <1>1, <1>2, <1>3, Zenon DEF Header!TypeOK, Header!Verdicts
  <1>5. Header!LinesSoFar
    BY <1>1, <1>2, Zenon DEF Header!LinesSoFar
  <1>6. PICK text : text = Header!Text
    OBVIOUS
  <1>7. text = <<>>
    <2>. DEFINE ss == [n \in DOMAIN lines |-> Append(lines[n], Header!Newline)]
    <2>1. text = Header!FlattenSeq(ss)
      BY <1>6 DEF Header!Text, Header!Newline
    <2>2. ss = <<>>
      <3>1. PICK d : d = DOMAIN lines
        OBVIOUS
      <3>. QED
        BY <1>2
    <2>3. FlattenSeq(<<>>) = <<>>
      BY DEF FlattenSeq
    <2>. HIDE DEF ss
    <2>. QED
      BY <2>1, <2>2, <2>3, HeaderFlattens, Zenon
  <1>8. Header!Modes(text)[Len(text) + 1] = "code"
    <2>1. text \in Seq(HeaderPieces) /\ Len(text) + 1 = 1
      BY <1>7
    <2>. QED
      BY <2>1, ModesAre
  <1>9. Header!NoComment(text, Header!Modes(text)) = {} /\ Header!GoBuilds(text, Header!Modes(text)) = {}
    <2>1. DOMAIN text = {}
      BY <1>7
    <2>. QED
      BY <2>1, Zenon DEF Header!NoComment, Header!GoBuilds
  <1>10. Header!TextSoFar
    BY <1>1, <1>6, <1>7, <1>8, <1>9, Zenon DEF Header!TextSoFar
  <1>. QED
    BY <1>1, <1>4, <1>5, <1>10, Zenon DEF Header!IInv, Header!IgnoresAsGoDoes

\* Every step of the readers keeps the invariant of GoHeader.
LEMMA HeaderKeeps ==
    Header!IInv /\ [ReadersNext]_readerVars => Header!IInv'
  <1>. SUFFICES ASSUME Header!IInv, [ReadersNext]_readerVars
                PROVE  Header!IInv'
    OBVIOUS
  <1>1. CASE headerVars' = headerVars
    <2>1. /\ lines' = lines /\ end' = end /\ ended' = ended /\ inStar' = inStar
          /\ goBuild' = goBuild /\ verdict' = verdict
      BY <1>1, Zenon DEF headerVars
    <2>2. Header!Text' = Header!Text
      BY <2>1, Zenon DEF Header!Text
    <2>. QED
      BY <2>1, <2>2, Zenon DEF Header!IInv, Header!TypeOK, Header!TextSoFar,
        Header!LinesSoFar, Header!IgnoresAsGoDoes, Header!GoSays
  <1>2. CASE ReadsHeader
    <2>1. CASE \E line \in HeaderLines : Header!ReadLine(line)
      <3>1. PICK line \in HeaderLines : Header!ReadLine(line)
        BY <2>1
      <3>2. Header!TypeOK /\ Header!TextSoFar /\ Header!LinesSoFar
        BY Zenon DEF Header!IInv
      <3>. QED
        BY <3>1, <3>2, HeaderTypeKept, HeaderLinesKept, HeaderTextKept, Zenon DEF Header!IInv
    <2>2. CASE Header!EndOfFile
      BY <2>2, HeaderEndKeeps
    <2>. QED
      BY <1>2, <2>1, <2>2, Zenon DEF ReadsHeader, Header!Next
  <1>. QED
    BY <1>1, <1>2, Zenon DEF readerVars, ReadersNext, ReadsToml, ReadsCargo, ReadsNpm,
      ReadsImports, ReadsGo

\* Whatever comments come first in a file, however they nest and span
\* lines, it is left out exactly when Go leaves it out.
THEOREM HeaderAsGoDoes == ReadersSpec => []Header!IgnoresAsGoDoes
  <1>1. ReadersInit => Header!IInv
    BY HeaderBegins DEF ReadersInit
  <1>2. Header!IInv /\ [ReadersNext]_readerVars => Header!IInv'
    BY HeaderKeeps
  <1>3. Header!IInv => Header!IgnoresAsGoDoes
    BY DEF Header!IInv
  <1>. QED
    BY <1>1, <1>2, <1>3, PTL DEF ReadersSpec

-----------------------------------------------------------------------------
(* GoImports.                                                              *)

\* GoImports flattens as the module of its instance does.
LEMMA ImportsFlattens ==
    \A ss : Imports!FlattenSeq(ss) = FlattenSeq(ss)
  BY DEF FlattenSeq, Imports!FlattenSeq

\* A sequence of sequences from one of them on.
LEMMA FromSteps ==
    ASSUME NEW T, NEW ss \in Seq(Seq(T))
    PROVE  /\ Imports!From(ss, 1) = Imports!FlattenSeq(ss)
           /\ Imports!From(ss, Len(ss) + 1) = <<>>
           /\ \A i \in 1 .. Len(ss) : Imports!From(ss, i) = ss[i] \o Imports!From(ss, i + 1)
           /\ \A i \in 1 .. Len(ss) + 1 : Imports!From(ss, i) \in Seq(T)
  <1>. DEFINE S == Seq(T)
              N == Len(ss)
  <1>1. ss \in Seq(S) /\ N \in Nat /\ \A i \in 1 .. N : ss[i] \in S
    OBVIOUS
  <1>2. \A i : Imports!From(ss, i) = FlattenSeq(SubSeq(ss, i, N))
    BY ImportsFlattens, Zenon DEF Imports!From
  <1>3. \A i \in 1 .. N + 1 : SubSeq(ss, i, N) \in Seq(S)
    <2>1. ASSUME NEW i \in 1 .. N + 1
          PROVE  SubSeq(ss, i, N) \in Seq(S)
      <3>1. i \in Int /\ N \in Int /\ \A j \in i .. N : ss[j] \in S
        BY <1>1
      <3>. HIDE DEF S, N
      <3>. QED
        BY <3>1, SubSeqProperties
    <2>. QED
      BY <2>1
  <1>4. Imports!From(ss, 1) = Imports!FlattenSeq(ss)
    <2>1. SubSeq(ss, 1, N) = ss
      <3>. HIDE DEF S
      <3>. QED
        BY <1>1, SubSeqFull
    <2>2. Imports!From(ss, 1) = FlattenSeq(SubSeq(ss, 1, N))
      BY <1>2, Zenon
    <2>. QED
      BY <2>1, <2>2, ImportsFlattens, Zenon
  <1>5. Imports!From(ss, N + 1) = <<>>
    <2>1. N + 1 \in Int /\ N \in Int /\ N < N + 1
      BY <1>1
    <2>2. SubSeq(ss, N + 1, N) = <<>>
      <3>. HIDE DEF N, S
      <3>. QED
        BY <2>1, SubSeqEmpty
    <2>3. FlattenSeq(<<>>) = <<>>
      BY DEF FlattenSeq
    <2>4. Imports!From(ss, N + 1) = FlattenSeq(SubSeq(ss, N + 1, N))
      BY <1>2, Zenon
    <2>. QED
      BY <2>2, <2>3, <2>4, Zenon
  <1>6. ASSUME NEW i \in 1 .. N
        PROVE  Imports!From(ss, i) = ss[i] \o Imports!From(ss, i + 1)
    <2>1. PICK tt, uu : tt = SubSeq(ss, i, N) /\ uu = SubSeq(ss, i + 1, N)
      BY Zenon
    <2>2. N \in i .. N /\ i \in 1 .. N + 1
      BY <1>1
    <2>3. Head(tt) = ss[i] /\ Tail(tt) = uu
      <3>. HIDE DEF N, S
      <3>1. i \in 1 .. Len(ss) /\ N = Len(ss)
        BY DEF N
      <3>. QED
        BY <1>1, <2>1, <2>2, <3>1, HeadTailOfSubSeq
    <2>4. tt \in Seq(S)
      BY <1>3, <2>1, <2>2
    <2>5. Len(tt) = N - i + 1
      <3>1. i \in Int /\ N \in Int /\ i <= N /\ \A j \in i .. N : ss[j] \in S
        BY <1>1
      <3>. HIDE DEF N, S
      <3>. QED
        BY <2>1, <3>1, SubSeqProperties
    <2>6. tt # <<>> /\ Head(tt) = tt[1]
      <3>1. Len(tt) # 0
        BY <1>1, <2>5
      <3>. HIDE DEF S, N
      <3>. QED
        BY <2>4, <3>1
    <2>7. tt \in Seq(Seq(T))
      BY <2>4
    <2>8. FlattenSeq(tt) = tt[1] \o FlattenSeq(Tail(tt))
      BY <2>6, <2>7, FlattenFirst
    <2>9. Imports!From(ss, i) = FlattenSeq(tt) /\ Imports!From(ss, i + 1) = FlattenSeq(uu)
      BY <1>2, <2>1, Zenon
    <2>. QED
      BY <2>3, <2>6, <2>8, <2>9, Zenon
  <1>7. ASSUME NEW i \in 1 .. N + 1
        PROVE  Imports!From(ss, i) \in S
    <2>1. PICK tt : tt = SubSeq(ss, i, N)
      BY Zenon
    <2>2. tt \in Seq(Seq(T))
      BY <1>3, <2>1
    <2>3. <<>> \in Seq(T)
      OBVIOUS
    <2>4. FlattenSeq(tt) \in Seq(T)
      BY <2>2, <2>3, FlattenOneMore
    <2>. QED
      BY <1>2, <2>1, <2>4, Zenon
  <1>. QED
    BY <1>4, <1>5, <1>6, <1>7, Zenon

\* Nothing is left at the end.
LEMMA TakeNone ==
    ASSUME NEW T, NEW s \in Seq(T), NEW p \in 1 .. Len(s) + 1,
           SubSeq(s, p, Len(s)) = <<>>
    PROVE  p = Len(s) + 1
  <1>. SUFFICES ASSUME p # Len(s) + 1
                PROVE  FALSE
    OBVIOUS
  <1>1. p \in Int /\ Len(s) \in Int /\ p <= Len(s) /\ \A i \in p .. Len(s) : s[i] \in T
    OBVIOUS
  <1>2. SubSeq(s, p, Len(s)) = <<s[p]>> \o SubSeq(s, p + 1, Len(s))
    <2>1. p \in 1 .. Len(s) /\ Len(s) \in p .. Len(s)
      BY <1>1
    <2>. QED
      BY <2>1, SubSeqRecursiveFirst, Zenon
  <1>3. SubSeq(s, p + 1, Len(s)) \in Seq(T) /\ <<s[p]>> \in Seq(T)
    <2>1. p + 1 \in Int /\ \A i \in p + 1 .. Len(s) : s[i] \in T
      BY <1>1
    <2>2. <<s[p]>> \in Seq(T)
      BY <1>1
    <2>. QED
      BY <1>1, <2>1, <2>2, SubSeqProperties
  <1>4. <<s[p]>> = <<>>
    BY <1>2, <1>3, ConcatSimplifications, Zenon
  <1>. QED
    BY <1>4

\* The words of a file.
Alphabet == Imports!Tokens

\* How tokens differ.
LEMMA TokensDiffer ==
    /\ \A p : Imports!String(p).t = "string" /\ Imports!String(p).v = p
    /\ \A p : /\ Imports!String(p) # Imports!Punct(";") /\ Imports!String(p) # Imports!Punct("(")
              /\ Imports!String(p) # Imports!Punct(")") /\ ~ Imports!IsAlias(Imports!String(p))
    /\ Imports!Word("import").t # "bad" /\ Imports!Word("name").t # "bad" /\ Imports!Eof.t # "bad"
    /\ Imports!Punct(";").t # "bad" /\ Imports!Word("name").t = "word"
    /\ Imports!Punct(";").t # "string" /\ Imports!Punct("(").t # "string"
    /\ Imports!Punct(")").t # "string" /\ Imports!Punct(".").t # "string"
    /\ Imports!Word("name").t # "string"
    /\ Imports!IsAlias(Imports!Word("name")) /\ Imports!IsAlias(Imports!Punct("."))
    /\ ~ Imports!IsAlias(Imports!Punct(";")) /\ ~ Imports!IsAlias(Imports!Punct("("))
    /\ ~ Imports!IsAlias(Imports!Punct(")"))
    /\ Imports!Punct(";") # Imports!Punct(")") /\ Imports!Punct("(") # Imports!Punct(")")
    /\ Imports!Punct(".") # Imports!Punct(";") /\ Imports!Punct(".") # Imports!Punct("(")
    /\ Imports!Punct(".") # Imports!Punct(")")
    /\ Imports!Word("name") # Imports!Punct(";") /\ Imports!Word("name") # Imports!Punct("(")
    /\ Imports!Word("name") # Imports!Punct(")") /\ Imports!Word("name") # Imports!Word("import")
    /\ Imports!Word("import") # Imports!Punct(";")
    /\ Imports!Eof # Imports!Punct(";") /\ Imports!Eof # Imports!Word("import")
  BY Zenon DEF Imports!String, Imports!Word, Imports!Punct, Imports!Eof, Imports!IsAlias

\* The words are words of the alphabet.
LEMMA Words ==
    /\ Imports!Word("package") \in Alphabet /\ Imports!Word("name") \in Alphabet
    /\ Imports!Word("import") \in Alphabet
    /\ Imports!Punct(";") \in Alphabet /\ Imports!Punct("(") \in Alphabet
    /\ Imports!Punct(")") \in Alphabet /\ Imports!Punct(".") \in Alphabet
    /\ \A p \in Paths : Imports!String(p) \in Alphabet
    /\ Imports!String("text") \in Alphabet /\ Imports!Bad \in Alphabet
  BY Zenon DEF Alphabet, Imports!Tokens

\* The imports of a file that was written.
LEMMA DeclsAre ==
    ASSUME NEW decl \in Imports!Decls
    PROVE  /\ decl.group \in BOOLEAN /\ decl.specs \in Seq(Imports!Specs)
           /\ ~ decl.group => Len(decl.specs) = 1
  <1>1. CASE decl \in [group : {FALSE}, specs : [1 .. 1 -> Imports!Specs]]
    <2>1. decl.group = FALSE /\ decl.specs \in [1 .. 1 -> Imports!Specs]
      BY <1>1, Zenon
    <2>2. decl.specs \in Seq(Imports!Specs) /\ Len(decl.specs) = 1
      <3>1. PICK n, q : n \in Nat /\ n = 1 /\ q = decl.specs
        OBVIOUS
      <3>2. q \in [1 .. n -> Imports!Specs]
        BY <2>1, <3>1, Zenon
      <3>3. n \in Nat
        BY <3>1, Zenon
      <3>4. q \in Seq(Imports!Specs) /\ Len(q) = n
        BY <3>2, <3>3
      <3>. QED
        BY <3>1, <3>4, Zenon
    <2>. QED
      BY <2>1, <2>2, Zenon
  <1>2. CASE decl \in [group : {TRUE}, specs : Imports!SeqOf(Imports!Specs, MaxSpecs)]
    <2>1. decl.group = TRUE /\ decl.specs \in Imports!SeqOf(Imports!Specs, MaxSpecs)
      BY <1>2, Zenon
    <2>2. PICK m \in 0 .. MaxSpecs : decl.specs \in [1 .. m -> Imports!Specs]
      BY <2>1 DEF Imports!SeqOf
    <2>3. m \in Nat
      BY ConstantsAreRight DEF Imports!BoundsAreNat
    <2>4. decl.specs \in Seq(Imports!Specs)
      BY <2>2, <2>3
    <2>. QED
      BY <2>1, <2>4, Zenon
  <1>. QED
    BY <1>1, <1>2, Zenon DEF Imports!Decls

\* One import of a file.
LEMMA SpecsAre ==
    ASSUME NEW spec \in Imports!Specs
    PROVE  /\ spec.path \in Paths
           /\ spec.alias = <<>> \/ \E a \in {Imports!Word("name"), Imports!Punct(".")} : spec.alias = <<a>>
           /\ spec.alias \in Seq(Alphabet) /\ <<Imports!String(spec.path)>> \in Seq(Alphabet)
           /\ Imports!SpecTokens(spec) \in Seq(Alphabet)
           /\ Imports!SpecTokens(spec) = spec.alias \o <<Imports!String(spec.path)>>
  <1>1. /\ spec.path \in Paths
        /\ spec.alias \in {<<>>, <<Imports!Word("name")>>, <<Imports!Punct(".")>>}
    BY Zenon DEF Imports!Specs
  <1>2. spec.alias = <<>> \/ \E a \in {Imports!Word("name"), Imports!Punct(".")} : spec.alias = <<a>>
    BY <1>1, Zenon
  <1>3. PICK x, y : x = spec.alias /\ y = Imports!String(spec.path)
    OBVIOUS
  <1>4. y \in Alphabet
    BY <1>1, <1>3, Words, Zenon
  <1>5. x \in Seq(Alphabet)
    <2>1. \A a \in Alphabet : <<a>> \in Seq(Alphabet)
      OBVIOUS
    <2>2. <<>> \in Seq(Alphabet)
      OBVIOUS
    <2>. QED
      BY <1>2, <1>3, <2>1, <2>2, Words, Zenon
  <1>6. Append(x, y) = x \o <<y>> /\ Append(x, y) \in Seq(Alphabet) /\ <<y>> \in Seq(Alphabet)
    BY <1>4, <1>5, AppendIsConcat, AppendProperties
  <1>. QED
    BY <1>1, <1>2, <1>3, <1>5, <1>6, Zenon DEF Imports!SpecTokens

\* A semicolon, or none.
LEMMA StopIs ==
    ASSUME NEW semicolons \in BOOLEAN
    PROVE  /\ Imports!Stop(semicolons) \in Seq(Alphabet)
           /\ Imports!Stop(semicolons) = <<>> \/ Imports!Stop(semicolons) = <<Imports!Punct(";")>>
  <1>1. <<>> \in Seq(Alphabet) /\ \A a \in Alphabet : <<a>> \in Seq(Alphabet)
    OBVIOUS
  <1>. QED
    BY <1>1, Words, Zenon DEF Imports!Stop

\* The words of the imports of a declaration, from one of them on.
LEMMA SpecsTokensAre ==
    ASSUME NEW specs \in Seq(Imports!Specs), NEW semicolons \in BOOLEAN, NEW words,
           words = Imports!SpecsTokens(specs, semicolons)
    PROVE  /\ words \in Seq(Seq(Alphabet)) /\ Len(words) = Len(specs)
           /\ \A k \in 1 .. Len(specs) :
                 words[k] = Imports!SpecTokens(specs[k]) \o Imports!Stop(semicolons)
  <1>. DEFINE S == Seq(Alphabet)
              W(k) == Imports!SpecTokens(specs[k]) \o Imports!Stop(semicolons)
  <1>1. Len(specs) \in Nat /\ DOMAIN specs = 1 .. Len(specs)
    OBVIOUS
  <1>2. ASSUME NEW k \in 1 .. Len(specs)
        PROVE  W(k) \in S
    <2>1. PICK x, y : x = Imports!SpecTokens(specs[k]) /\ y = Imports!Stop(semicolons)
      OBVIOUS
    <2>2. specs[k] \in Imports!Specs
      OBVIOUS
    <2>3. x \in Seq(Alphabet) /\ y \in Seq(Alphabet)
      BY <2>1, <2>2, SpecsAre, StopIs, Zenon
    <2>4. x \o y \in Seq(Alphabet)
      BY <2>3, ConcatProperties
    <2>. QED
      BY <2>1, <2>4, Zenon
  <1>3. words = [k \in 1 .. Len(specs) |-> W(k)]
    BY <1>1, Zenon DEF Imports!SpecsTokens
  <1>. HIDE DEF S, W
  <1>4. words \in Seq(S) /\ Len(words) = Len(specs) /\ \A k \in 1 .. Len(specs) : words[k] = W(k)
    <2>1. PICK n \in Nat : n = Len(specs)
      BY <1>1, Zenon
    <2>2. words = [k \in 1 .. n |-> W(k)] /\ \A k \in 1 .. n : W(k) \in S
      BY <1>2, <1>3, <2>1
    <2>3. words \in [1 .. n -> S] /\ \A k \in 1 .. n : words[k] = W(k)
      BY <2>2
    <2>4. words \in Seq(S) /\ Len(words) = n
      BY <2>1, <2>3
    <2>. QED
      BY <2>1, <2>3, <2>4
  <1>. QED
    BY <1>4 DEF S, W

\* The words of a declaration, from those of its imports.
DeclWords(decl, tokens, words, stop) ==
    /\ tokens \in Seq(Alphabet)
    /\ decl.group =>
          tokens = <<Imports!Word("import")>>
                   \o (<<Imports!Punct("(")>>
                       \o (Imports!From(words, 1) \o (<<Imports!Punct(")")>> \o stop)))
    /\ ~ decl.group =>
          tokens = <<Imports!Word("import")>>
                   \o (decl.specs[1].alias \o (<<Imports!String(decl.specs[1].path)>> \o stop))

\* They are read so.
LEMMA DeclTokensAre ==
    ASSUME NEW decl \in Imports!Decls, NEW semicolons \in BOOLEAN
    PROVE  DeclWords(decl, Imports!DeclTokens(decl, semicolons),
                     Imports!SpecsTokens(decl.specs, semicolons), Imports!Stop(semicolons))
  <1>0. PICK words, stop :
           words = Imports!SpecsTokens(decl.specs, semicolons) /\ stop = Imports!Stop(semicolons)
    OBVIOUS
  <1>1. PICK specs : specs = decl.specs
    OBVIOUS
  <1>2. specs \in Seq(Imports!Specs)
    BY <1>1, DeclsAre, Zenon
  <1>3. words \in Seq(Seq(Alphabet)) /\ Len(words) = Len(specs) /\ stop \in Seq(Alphabet)
    <2>1. words = Imports!SpecsTokens(specs, semicolons)
      BY <1>0, <1>1, Zenon
    <2>2. words \in Seq(Seq(Alphabet)) /\ Len(words) = Len(specs)
      BY <1>2, <2>1, SpecsTokensAre, Zenon
    <2>. QED
      BY <1>0, <2>2, StopIs, Zenon
  <1>4. PICK all : all = Imports!FlattenSeq(words)
    OBVIOUS
  <1>5. all = Imports!From(words, 1) /\ all \in Seq(Alphabet)
    <2>1. Imports!From(words, 1) = Imports!FlattenSeq(words)
      BY <1>3, FromSteps, Zenon
    <2>2. 1 \in 1 .. Len(words) + 1
      BY <1>3
    <2>3. Imports!From(words, 1) \in Seq(Alphabet)
      BY <1>3, <2>2, FromSteps, Zenon
    <2>. QED
      BY <1>4, <2>1, <2>3, Zenon
  <1>6. PICK im, open, close :
           /\ im = <<Imports!Word("import")>> /\ open = <<Imports!Punct("(")>>
           /\ close = <<Imports!Punct(")")>>
    BY Zenon
  <1>7. im \in Seq(Alphabet) /\ open \in Seq(Alphabet) /\ close \in Seq(Alphabet)
    <2>1. \A a \in Alphabet : <<a>> \in Seq(Alphabet)
      OBVIOUS
    <2>. QED
      BY <1>6, <2>1, Words, Zenon
  <1>8. CASE decl.group
    <2>1. Imports!DeclTokens(decl, semicolons) = im \o (((open \o all) \o close) \o stop)
      BY <1>0, <1>4, <1>6, <1>8, Zenon DEF Imports!DeclTokens
    <2>2. /\ ((open \o all) \o close) \o stop = open \o (all \o (close \o stop))
          /\ all \o (close \o stop) \in Seq(Alphabet)
      <3>1. Grouped(Alphabet, open, all, close, stop)
        BY <1>3, <1>5, <1>7, Regroup
      <3>. QED
        BY <3>1, Zenon DEF Grouped
    <2>3. im \o (open \o (all \o (close \o stop))) \in Seq(Alphabet)
      <3>1. PICK u : u = all \o (close \o stop)
        BY Zenon
      <3>2. u \in Seq(Alphabet)
        BY <2>2, <3>1
      <3>3. im \o (open \o u) \in Seq(Alphabet)
        <4>1. Grouped(Alphabet, im, open, u, u)
          BY <1>7, <3>2, Regroup
        <4>. QED
          BY <4>1, Zenon DEF Grouped
      <3>. QED
        BY <3>1, <3>3, Zenon
    <2>. QED
      BY <1>0, <1>5, <1>6, <1>8, <2>1, <2>2, <2>3, Zenon DEF DeclWords
  <1>9. CASE ~ decl.group
    <2>1. Imports!DeclTokens(decl, semicolons) = im \o all
      BY <1>0, <1>4, <1>6, <1>9, Zenon DEF Imports!DeclTokens
    <2>2. Len(specs) = 1
      BY <1>1, <1>9, DeclsAre, Zenon
    <2>3. 1 \in 1 .. Len(specs) /\ Len(words) + 1 = 1 + 1 /\ 1 \in 1 .. Len(words)
      BY <1>3, <2>2
    <2>4. PICK spec, x, y : spec = specs[1] /\ x = spec.alias /\ y = <<Imports!String(spec.path)>>
      BY Zenon
    <2>5. /\ x \in Seq(Alphabet) /\ y \in Seq(Alphabet) /\ Imports!SpecTokens(spec) = x \o y
      <3>1. spec \in Imports!Specs
        BY <1>2, <2>3, <2>4
      <3>. QED
        BY <2>4, <3>1, SpecsAre, Zenon
    <2>6. words[1] = (x \o y) \o stop
      <3>1. words = Imports!SpecsTokens(specs, semicolons)
        BY <1>0, <1>1, Zenon
      <3>2. words[1] = Imports!SpecTokens(specs[1]) \o Imports!Stop(semicolons)
        BY <1>2, <2>3, <3>1, SpecsTokensAre, Zenon
      <3>. QED
        BY <1>0, <2>4, <2>5, <3>2, Zenon
    <2>7. /\ (x \o y) \o stop = x \o (y \o stop) /\ x \o (y \o stop) \in Seq(Alphabet)
      <3>1. Grouped(Alphabet, x, y, stop, stop)
        BY <1>3, <2>5, Regroup
      <3>. QED
        BY <3>1, Zenon DEF Grouped
    <2>8. all = words[1]
      <3>1. PICK w1 : w1 = words[1]
        OBVIOUS
      <3>2. Imports!From(words, 1) = w1 \o Imports!From(words, 1 + 1)
        BY <1>3, <2>3, <3>1, FromSteps, Zenon
      <3>3. Imports!From(words, Len(words) + 1) = <<>>
        BY <1>3, FromSteps, Zenon
      <3>4. w1 \in Seq(Alphabet)
        BY <2>6, <2>7, <3>1, Zenon
      <3>5. w1 \o <<>> = w1
        BY <3>4, ConcatEmptySeq
      <3>. QED
        BY <1>5, <2>3, <3>1, <3>2, <3>3, <3>5, Zenon
    <2>9. im \o (x \o (y \o stop)) \in Seq(Alphabet)
      <3>1. PICK u : u = x \o (y \o stop)
        BY Zenon
      <3>2. im \o u \in Seq(Alphabet)
        BY <1>7, <2>7, <3>1, ConcatProperties
      <3>. QED
        BY <3>1, <3>2, Zenon
    <2>. QED
      BY <1>0, <1>1, <1>6, <1>9, <2>1, <2>4, <2>6, <2>7, <2>8, <2>9, Zenon DEF DeclWords
  <1>. QED
    BY <1>8, <1>9

\* A file as it was written.
IsFile(f) ==
    f.decls \in Seq(Imports!Decls) /\ f.semicolons \in BOOLEAN /\ f.rest \in Imports!Rests

\* What follows the imports.
LEMMA RestIs ==
    ASSUME NEW f, IsFile(f)
    PROVE  /\ f.rest \in Seq(Alphabet)
           /\ \/ f.rest = <<>>
              \/ \E z \in Seq(Alphabet) : f.rest = <<Imports!Word("name")>> \o z
  <1>1. CASE f.rest = <<>>
    <2>1. <<>> \in Seq(Alphabet)
      OBVIOUS
    <2>. QED
      BY <1>1, <2>1, Zenon
  <1>2. CASE f.rest # <<>>
    <2>1. PICK a, b, c : /\ a = Imports!Word("name") /\ b = Imports!String("text")
                         /\ c = Imports!Word("import")
      OBVIOUS
    <2>2. f.rest = <<a, b, c, b>>
      BY <1>2, <2>1, Zenon DEF IsFile, Imports!Rests
    <2>3. a \in Alphabet /\ b \in Alphabet /\ c \in Alphabet
      BY <2>1, Words, Zenon
    <2>4. <<a, b, c, b>> \in Seq(Alphabet) /\ <<b, c, b>> \in Seq(Alphabet) /\ <<a>> \in Seq(Alphabet)
      BY <2>3
    <2>5. <<a, b, c, b>> = <<a>> \o <<b, c, b>>
      OBVIOUS
    <2>. QED
      BY <2>1, <2>2, <2>4, <2>5, Zenon
  <1>. QED
    BY <1>1, <1>2, Zenon

\* The file from a declaration on.
LEMMA DeclsLeftAre ==
    ASSUME NEW f, IsFile(f), NEW n, n = Len(f.decls)
    PROVE  /\ n \in Nat /\ DOMAIN f.decls = 1 .. n /\ \A i \in 1 .. n : f.decls[i] \in Imports!Decls
           /\ \A i \in 1 .. n + 1 : Imports!DeclsLeft(f, i) \in Seq(Alphabet)
           /\ \A i \in 1 .. n :
                 Imports!DeclsLeft(f, i) =
                    Imports!DeclTokens(f.decls[i], f.semicolons) \o Imports!DeclsLeft(f, i + 1)
           /\ Imports!DeclsLeft(f, n + 1) = f.rest
           /\ Imports!DeclsLeft(f, 1) =
                 Imports!FlattenSeq(Imports!DeclsTokens(f.decls, f.semicolons)) \o f.rest
  <1>. DEFINE S == Seq(Alphabet)
              W(i) == Imports!DeclTokens(f.decls[i], f.semicolons)
  <1>1. PICK ds, words, rest :
           /\ ds = f.decls /\ words = Imports!DeclsTokens(f.decls, f.semicolons) /\ rest = f.rest
    OBVIOUS
  <1>2. ds \in Seq(Imports!Decls) /\ n = Len(ds) /\ rest \in S
    BY <1>1, RestIs, Zenon DEF IsFile
  <1>3. n \in Nat /\ DOMAIN ds = 1 .. n /\ \A i \in 1 .. n : ds[i] \in Imports!Decls
    BY <1>2
  <1>4. ASSUME NEW i \in 1 .. n
        PROVE  W(i) \in S
    <2>1. f.decls[i] \in Imports!Decls /\ f.semicolons \in BOOLEAN
      BY <1>1, <1>3, Zenon DEF IsFile
    <2>. QED
      BY <2>1, DeclTokensAre, Zenon DEF DeclWords
  <1>5. words = [i \in 1 .. n |-> W(i)]
    BY <1>1, <1>3, Zenon DEF Imports!DeclsTokens
  <1>6. words \in Seq(Seq(Alphabet)) /\ Len(words) = n /\ \A i \in 1 .. n : words[i] = W(i)
    <2>. HIDE DEF S, W
    <2>1. words \in Seq(S) /\ Len(words) = n /\ \A i \in 1 .. n : words[i] = W(i)
      BY <1>3, <1>4, <1>5
    <2>. QED
      BY <2>1, Zenon DEF S
  <1>. HIDE DEF S
  <1>7. /\ Imports!From(words, 1) = Imports!FlattenSeq(words)
        /\ Imports!From(words, n + 1) = <<>>
        /\ \A i \in 1 .. n : Imports!From(words, i) = words[i] \o Imports!From(words, i + 1)
        /\ \A i \in 1 .. n + 1 : Imports!From(words, i) \in S
    <2>1. /\ Imports!From(words, 1) = Imports!FlattenSeq(words)
          /\ Imports!From(words, Len(words) + 1) = <<>>
          /\ \A i \in 1 .. Len(words) : Imports!From(words, i) = words[i] \o Imports!From(words, i + 1)
          /\ \A i \in 1 .. Len(words) + 1 : Imports!From(words, i) \in Seq(Alphabet)
      BY <1>6, FromSteps, Zenon
    <2>. QED
      BY <1>6, <2>1, Zenon DEF S
  <1>8. \A i : Imports!DeclsLeft(f, i) = Imports!From(words, i) \o rest
    BY <1>1, Zenon DEF Imports!DeclsLeft
  <1>9. \A i \in 1 .. n : i \in 1 .. n + 1 /\ i + 1 \in 1 .. n + 1
    BY <1>3
  <1>10. ASSUME NEW i \in 1 .. n + 1
         PROVE  Imports!DeclsLeft(f, i) \in S
    <2>1. PICK x : x = Imports!From(words, i)
      OBVIOUS
    <2>2. x \in S
      BY <1>7, <2>1
    <2>3. x \o rest \in S
      BY <1>2, <2>2, ConcatProperties DEF S
    <2>. QED
      BY <1>8, <2>1, <2>3, Zenon
  <1>11. ASSUME NEW i \in 1 .. n
         PROVE  Imports!DeclsLeft(f, i) = W(i) \o Imports!DeclsLeft(f, i + 1)
    <2>1. PICK w, x : w = words[i] /\ x = Imports!From(words, i + 1)
      OBVIOUS
    <2>2. w \in Seq(Alphabet) /\ x \in Seq(Alphabet) /\ rest \in Seq(Alphabet) /\ w = W(i)
      <3>. HIDE DEF W
      <3>. QED
        BY <1>2, <1>4, <1>6, <1>7, <1>9, <2>1, Zenon DEF S
    <2>3. (w \o x) \o rest = w \o (x \o rest)
      BY <2>2, ConcatAssociative
    <2>4. Imports!From(words, i) = w \o x
      BY <1>7, <2>1, Zenon
    <2>. QED
      BY <1>8, <2>1, <2>2, <2>3, <2>4, Zenon
  <1>12. Imports!DeclsLeft(f, n + 1) = rest
    <2>1. <<>> \o rest = rest
      BY <1>2, ConcatEmptySeq DEF S
    <2>. QED
      BY <1>7, <1>8, <2>1, Zenon
  <1>. HIDE DEF W
  <1>13. \A i \in 1 .. n : Imports!DeclsLeft(f, i) = W(i) \o Imports!DeclsLeft(f, i + 1)
    BY <1>11
  <1>14. \A i \in 1 .. n + 1 : Imports!DeclsLeft(f, i) \in S
    BY <1>10
  <1>. QED
    BY <1>1, <1>3, <1>7, <1>8, <1>12, <1>13, <1>14, Zenon DEF S, W

\* The file from an import on: its alias, if it has one, and its path; and
\* from a declaration on.
LEMMA SpecsLeftAre ==
    ASSUME NEW f, IsFile(f), NEW i \in DOMAIN f.decls,
           NEW decl, decl = f.decls[i], NEW n, n = Len(decl.specs)
    PROVE  /\ n \in Nat /\ decl.group \in BOOLEAN /\ (~ decl.group => n = 1)
           /\ \A k \in 1 .. n : decl.specs[k] \in Imports!Specs
           /\ \A k \in 1 .. n + 1 : Imports!SpecsLeft(f, i, k) \in Seq(Alphabet)
           /\ \A k \in 1 .. n :
                 Imports!SpecsLeft(f, i, k) =
                    decl.specs[k].alias
                    \o (<<Imports!String(decl.specs[k].path)>>
                        \o (Imports!Stop(f.semicolons) \o Imports!SpecsLeft(f, i, k + 1)))
           /\ Imports!SpecsLeft(f, i, n + 1) =
                 <<Imports!Punct(")")>>
                 \o (Imports!Stop(f.semicolons) \o Imports!DeclsLeft(f, i + 1))
           /\ Imports!DeclsLeft(f, i) =
                 <<Imports!Word("import")>>
                 \o (IF decl.group THEN <<Imports!Punct("(")>> \o Imports!SpecsLeft(f, i, 1)
                     ELSE decl.specs[1].alias
                          \o (<<Imports!String(decl.specs[1].path)>>
                              \o (Imports!Stop(f.semicolons) \o Imports!DeclsLeft(f, i + 1))))
           /\ i \in 1 .. Len(f.decls) /\ Len(f.decls) \in Nat
           /\ Imports!Stop(f.semicolons) \o Imports!DeclsLeft(f, i + 1) \in Seq(Alphabet)
  <1>. DEFINE S == Seq(Alphabet)
  <1>1. PICK specs, words, stop, d :
           /\ specs = decl.specs /\ words = Imports!SpecsTokens(decl.specs, f.semicolons)
           /\ stop = Imports!Stop(f.semicolons) /\ d = Imports!DeclsLeft(f, i + 1)
    OBVIOUS
  <1>2. /\ Len(f.decls) \in Nat /\ DOMAIN f.decls = 1 .. Len(f.decls)
        /\ decl \in Imports!Decls /\ d \in S
        /\ Imports!DeclsLeft(f, i) = Imports!DeclTokens(decl, f.semicolons) \o d
    <2>1. PICK m : m = Len(f.decls)
      BY Zenon
    <2>2. /\ m \in Nat /\ DOMAIN f.decls = 1 .. m
          /\ \A j \in 1 .. m : f.decls[j] \in Imports!Decls
          /\ \A j \in 1 .. m + 1 : Imports!DeclsLeft(f, j) \in S
          /\ \A j \in 1 .. m :
                Imports!DeclsLeft(f, j) =
                   Imports!DeclTokens(f.decls[j], f.semicolons) \o Imports!DeclsLeft(f, j + 1)
      BY <2>1, DeclsLeftAre, Zenon
    <2>3. i \in 1 .. m
      BY <2>2
    <2>4. m \in Nat
      BY <2>2, Zenon
    <2>5. i + 1 \in 1 .. m + 1
      BY <2>3, <2>4
    <2>. QED
      BY <1>1, <2>1, <2>2, <2>3, <2>5, Zenon
  <1>3. /\ specs \in Seq(Imports!Specs) /\ decl.group \in BOOLEAN /\ (~ decl.group => n = 1)
        /\ f.semicolons \in BOOLEAN
    BY <1>1, <1>2, DeclsAre, Zenon DEF IsFile
  <1>4. n \in Nat /\ n = Len(specs) /\ \A k \in 1 .. n : specs[k] \in Imports!Specs
    <2>1. n = Len(specs)
      BY <1>1
    <2>. QED
      BY <1>3, <2>1
  <1>5. /\ words \in Seq(Seq(Alphabet)) /\ Len(words) = n
        /\ \A k \in 1 .. n : words[k] = Imports!SpecTokens(specs[k]) \o stop
        /\ stop \in Seq(Alphabet)
    <2>1. words = Imports!SpecsTokens(specs, f.semicolons)
      BY <1>1, Zenon
    <2>2. /\ words \in Seq(Seq(Alphabet)) /\ Len(words) = Len(specs)
          /\ \A k \in 1 .. Len(specs) :
                words[k] = Imports!SpecTokens(specs[k]) \o Imports!Stop(f.semicolons)
      BY <1>3, <2>1, SpecsTokensAre, Zenon
    <2>. QED
      BY <1>1, <1>3, <1>4, <2>2, StopIs, Zenon
  <1>6. /\ Imports!From(words, n + 1) = <<>>
        /\ \A k \in 1 .. n : Imports!From(words, k) = words[k] \o Imports!From(words, k + 1)
        /\ \A k \in 1 .. n + 1 : Imports!From(words, k) \in Seq(Alphabet)
    <2>1. /\ Imports!From(words, Len(words) + 1) = <<>>
          /\ \A k \in 1 .. Len(words) : Imports!From(words, k) = words[k] \o Imports!From(words, k + 1)
          /\ \A k \in 1 .. Len(words) + 1 : Imports!From(words, k) \in Seq(Alphabet)
      BY <1>5, FromSteps, Zenon
    <2>. QED
      BY <1>5, <2>1, Zenon
  <1>7. PICK im, open, close, e :
           /\ im = <<Imports!Word("import")>> /\ open = <<Imports!Punct("(")>>
           /\ close = <<Imports!Punct(")")>> /\ e = close \o (stop \o d)
    BY Zenon
  <1>8. im \in S /\ open \in S /\ close \in S /\ stop \in S
    <2>1. \A a \in Alphabet : <<a>> \in Seq(Alphabet)
      OBVIOUS
    <2>. QED
      BY <1>5, <1>7, <2>1, Words, Zenon
  <1>. HIDE DEF S
  <1>9. e \in S /\ stop \o d \in S
    <2>1. Grouped(Alphabet, close, stop, d, d)
      BY <1>2, <1>8, Regroup DEF S
    <2>. QED
      BY <1>7, <2>1, Zenon DEF Grouped, S
  <1>10. \A k : Imports!SpecsLeft(f, i, k) = Imports!From(words, k) \o e
    BY <1>1, <1>7, Zenon DEF Imports!SpecsLeft
  <1>11. \A k \in 1 .. n : k \in 1 .. n + 1 /\ k + 1 \in 1 .. n + 1
    BY <1>4
  <1>12. ASSUME NEW k \in 1 .. n + 1
         PROVE  Imports!SpecsLeft(f, i, k) \in S
    <2>1. PICK x : x = Imports!From(words, k)
      OBVIOUS
    <2>2. x \in S
      BY <1>6, <2>1, Zenon DEF S
    <2>3. x \o e \in S
      BY <1>9, <2>2, ConcatProperties DEF S
    <2>. QED
      BY <1>10, <2>1, <2>3, Zenon
  <1>13. ASSUME NEW k \in 1 .. n
         PROVE  Imports!SpecsLeft(f, i, k) =
                    specs[k].alias
                    \o (<<Imports!String(specs[k].path)>>
                        \o (stop \o Imports!SpecsLeft(f, i, k + 1)))
    <2>1. PICK x, y, w, z, fe :
             /\ x = specs[k].alias /\ y = <<Imports!String(specs[k].path)>>
             /\ w = words[k] /\ z = Imports!From(words, k + 1) /\ fe = z \o e
      BY Zenon
    <2>2. x \in S /\ y \in S /\ w = (x \o y) \o stop /\ z \in S
      BY <1>4, <1>5, <1>6, <1>11, <2>1, SpecsAre, Zenon DEF S
    <2>3. fe \in S
      BY <1>9, <2>1, <2>2, ConcatProperties DEF S
    <2>4. Grouped(Alphabet, x, y, stop, fe)
      BY <1>8, <2>2, <2>3, Regroup DEF S
    <2>5. w \in S
      BY <2>2, <2>4, Zenon DEF Grouped, S
    <2>6. (w \o z) \o e = w \o fe
      <3>0. w \in Seq(Alphabet) /\ z \in Seq(Alphabet) /\ e \in Seq(Alphabet)
        BY <1>9, <2>2, <2>5, Zenon DEF S
      <3>1. (w \o z) \o e = w \o (z \o e)
        BY <3>0, ConcatAssociative
      <3>. QED
        BY <2>1, <3>1, Zenon
    <2>7. w \o fe = x \o (y \o (stop \o fe))
      BY <2>2, <2>4, Zenon DEF Grouped
    <2>8. Imports!SpecsLeft(f, i, k) = (w \o z) \o e /\ Imports!SpecsLeft(f, i, k + 1) = fe
      BY <1>6, <1>10, <2>1, Zenon
    <2>. QED
      BY <2>1, <2>6, <2>7, <2>8, Zenon
  <1>14. Imports!SpecsLeft(f, i, n + 1) = e
    <2>1. <<>> \o e = e
      BY <1>9, ConcatEmptySeq DEF S
    <2>. QED
      BY <1>6, <1>10, <2>1, Zenon
  <1>17. /\ decl.group =>
               Imports!DeclTokens(decl, f.semicolons) =
                  <<Imports!Word("import")>>
                  \o (<<Imports!Punct("(")>>
                      \o (Imports!From(words, 1) \o (<<Imports!Punct(")")>> \o stop)))
         /\ ~ decl.group =>
               Imports!DeclTokens(decl, f.semicolons) =
                  <<Imports!Word("import")>>
                  \o (decl.specs[1].alias \o (<<Imports!String(decl.specs[1].path)>> \o stop))
    <2>1. PICK semicolons : semicolons = f.semicolons
      OBVIOUS
    <2>2. semicolons \in BOOLEAN /\ decl \in Imports!Decls
      BY <1>2, <1>3, <2>1, Zenon
    <2>3. DeclWords(decl, Imports!DeclTokens(decl, semicolons),
                    Imports!SpecsTokens(decl.specs, semicolons), Imports!Stop(semicolons))
      BY <2>2, DeclTokensAre
    <2>. QED
      BY <1>1, <2>1, <2>3, Zenon DEF DeclWords
  <1>15. CASE decl.group
    <2>1. PICK f1, x, dt, s1 :
             /\ f1 = Imports!From(words, 1) /\ x = f1 \o (close \o stop)
             /\ dt = Imports!DeclTokens(decl, f.semicolons) /\ s1 = Imports!SpecsLeft(f, i, 1)
      BY Zenon
    <2>2. 1 \in 1 .. n + 1
      BY <1>4
    <2>3. f1 \in S
      BY <1>6, <2>1, <2>2, Zenon DEF S
    <2>4. dt = im \o (open \o x)
      BY <1>7, <1>15, <1>17, <2>1, Zenon
    <2>5. Grouped(Alphabet, f1, close, stop, d)
      BY <1>2, <1>8, <2>3, Regroup DEF S
    <2>6. x \in S /\ x \o d = f1 \o (close \o (stop \o d))
      BY <2>1, <2>5, Zenon DEF Grouped, S
    <2>7. Grouped(Alphabet, im, open, x, d)
      BY <1>2, <1>8, <2>6, Regroup DEF S
    <2>8. dt \o d = im \o (open \o (x \o d))
      BY <2>4, <2>7, Zenon DEF Grouped
    <2>9. s1 = x \o d
      BY <1>7, <1>10, <2>1, <2>6, Zenon
    <2>. QED
      BY <1>1, <1>2, <1>3, <1>4, <1>7, <1>9, <1>12, <1>13, <1>14, <1>15, <2>1, <2>8, <2>9, Zenon
        DEF S
  <1>16. CASE ~ decl.group
    <2>1. PICK x, y, dt :
             /\ x = specs[1].alias /\ y = <<Imports!String(specs[1].path)>>
             /\ dt = Imports!DeclTokens(decl, f.semicolons)
      BY Zenon
    <2>2. x \in S /\ y \in S
      <3>1. 1 \in 1 .. n
        BY <1>3, <1>4, <1>16
      <3>. QED
        BY <1>4, <2>1, <3>1, SpecsAre, Zenon DEF S
    <2>3. dt = im \o (x \o (y \o stop))
      BY <1>1, <1>7, <1>16, <1>17, <2>1, Zenon
    <2>4. Grouped(Alphabet, y, stop, d, d)
      BY <1>2, <1>8, <2>2, Regroup DEF S
    <2>5. PICK v : v = y \o stop
      BY Zenon
    <2>6. v \in S /\ v \o d = y \o (stop \o d)
      BY <2>4, <2>5, Zenon DEF Grouped, S
    <2>7. Grouped(Alphabet, im, x, v, d)
      BY <1>2, <1>8, <2>2, <2>6, Regroup DEF S
    <2>8. dt \o d = im \o (x \o (y \o (stop \o d)))
      BY <2>3, <2>5, <2>6, <2>7, Zenon DEF Grouped
    <2>. QED
      BY <1>1, <1>2, <1>3, <1>4, <1>7, <1>9, <1>12, <1>13, <1>14, <1>16, <2>1, <2>8, Zenon
        DEF S
  <1>. QED
    BY <1>15, <1>16, Zenon

\* The paths of a declaration.
LEMMA PathsInAre ==
    ASSUME NEW decl \in Imports!Decls, NEW n, n = Len(decl.specs)
    PROVE  /\ n \in Nat /\ Imports!PathsIn(decl) \in Seq(Paths) /\ Len(Imports!PathsIn(decl)) = n
           /\ \A k \in 1 .. n : Imports!PathsIn(decl)[k] = decl.specs[k].path
  <1>1. PICK specs, paths : specs = decl.specs /\ paths = Imports!PathsIn(decl)
    OBVIOUS
  <1>2. specs \in Seq(Imports!Specs)
    BY <1>1, DeclsAre, Zenon
  <1>3. n \in Nat /\ DOMAIN specs = 1 .. n /\ \A k \in 1 .. n : specs[k] \in Imports!Specs
    BY <1>1, <1>2
  <1>. DEFINE P(k) == specs[k].path
  <1>4. paths = [k \in 1 .. n |-> P(k)]
    BY <1>1, <1>3, Zenon DEF Imports!PathsIn
  <1>5. \A k \in 1 .. n : P(k) \in Paths
    BY <1>3, SpecsAre, Zenon
  <1>6. \A k \in 1 .. n : P(k) = specs[k].path
    OBVIOUS
  <1>. HIDE DEF P
  <1>7. paths \in Seq(Paths) /\ Len(paths) = n /\ \A k \in 1 .. n : paths[k] = P(k)
    BY <1>3, <1>4, <1>5
  <1>. QED
    BY <1>1, <1>3, <1>6, <1>7, Zenon

\* The paths from an import on, and from a declaration on.
LEMMA PathsLeftAre ==
    ASSUME NEW f, IsFile(f), NEW m, m = Len(f.decls)
    PROVE  /\ m \in Nat /\ DOMAIN f.decls = 1 .. m
           /\ \A i \in 1 .. m + 1 : Imports!PathsLeft(f, i) \in Seq(Paths)
           /\ \A i \in 1 .. m :
                 Imports!PathsLeft(f, i) = Imports!PathsIn(f.decls[i]) \o Imports!PathsLeft(f, i + 1)
           /\ Imports!PathsLeft(f, m + 1) = <<>>
           /\ Imports!PathsLeft(f, 1) = Imports!PathsOf(f.decls)
  <1>. DEFINE S == Seq(Paths)
              W(i) == Imports!PathsIn(f.decls[i])
  <1>1. PICK ds, words : ds = f.decls /\ words = Imports!DeclsPaths(f.decls)
    OBVIOUS
  <1>2. ds \in Seq(Imports!Decls) /\ m = Len(ds)
    BY <1>1, Zenon DEF IsFile
  <1>3. m \in Nat /\ DOMAIN ds = 1 .. m /\ \A i \in 1 .. m : ds[i] \in Imports!Decls
    BY <1>2
  <1>4. ASSUME NEW i \in 1 .. m
        PROVE  W(i) \in S
    <2>1. f.decls[i] \in Imports!Decls
      BY <1>1, <1>3, Zenon
    <2>. QED
      BY <2>1, PathsInAre, Zenon
  <1>5. words = [i \in 1 .. m |-> W(i)]
    BY <1>1, <1>3, Zenon DEF Imports!DeclsPaths
  <1>6. words \in Seq(Seq(Paths)) /\ Len(words) = m /\ \A i \in 1 .. m : words[i] = W(i)
    <2>. HIDE DEF S, W
    <2>1. words \in Seq(S) /\ Len(words) = m /\ \A i \in 1 .. m : words[i] = W(i)
      BY <1>3, <1>4, <1>5
    <2>. QED
      BY <2>1, Zenon DEF S
  <1>7. /\ Imports!From(words, 1) = Imports!FlattenSeq(words)
        /\ Imports!From(words, m + 1) = <<>>
        /\ \A i \in 1 .. m : Imports!From(words, i) = words[i] \o Imports!From(words, i + 1)
        /\ \A i \in 1 .. m + 1 : Imports!From(words, i) \in Seq(Paths)
    <2>1. /\ Imports!From(words, 1) = Imports!FlattenSeq(words)
          /\ Imports!From(words, Len(words) + 1) = <<>>
          /\ \A i \in 1 .. Len(words) : Imports!From(words, i) = words[i] \o Imports!From(words, i + 1)
          /\ \A i \in 1 .. Len(words) + 1 : Imports!From(words, i) \in Seq(Paths)
      BY <1>6, FromSteps, Zenon
    <2>. QED
      BY <1>6, <2>1, Zenon
  <1>8. \A i : Imports!PathsLeft(f, i) = Imports!From(words, i)
    BY <1>1, Zenon DEF Imports!PathsLeft
  <1>9. Imports!PathsOf(f.decls) = Imports!FlattenSeq(words)
    BY <1>1, Zenon DEF Imports!PathsOf
  <1>. QED
    BY <1>1, <1>3, <1>6, <1>7, <1>8, <1>9, Zenon

\* The paths from an import of a declaration on.
LEMMA SpecPathsLeftAre ==
    ASSUME NEW f, IsFile(f), NEW i \in DOMAIN f.decls,
           NEW decl, decl = f.decls[i], NEW n, n = Len(decl.specs)
    PROVE  /\ n \in Nat
           /\ \A k \in 1 .. n + 1 : Imports!SpecPathsLeft(f, i, k) \in Seq(Paths)
           /\ \A k \in 1 .. n :
                 /\ decl.specs[k].path \in Paths
                 /\ Imports!SpecPathsLeft(f, i, k) =
                       <<decl.specs[k].path>> \o Imports!SpecPathsLeft(f, i, k + 1)
           /\ Imports!SpecPathsLeft(f, i, n + 1) = Imports!PathsLeft(f, i + 1)
           /\ Imports!SpecPathsLeft(f, i, 1) = Imports!PathsLeft(f, i)
  <1>1. PICK m : m = Len(f.decls)
    BY Zenon
  <1>2. /\ m \in Nat /\ DOMAIN f.decls = 1 .. m
        /\ \A j \in 1 .. m + 1 : Imports!PathsLeft(f, j) \in Seq(Paths)
        /\ \A j \in 1 .. m :
              Imports!PathsLeft(f, j) = Imports!PathsIn(f.decls[j]) \o Imports!PathsLeft(f, j + 1)
    BY <1>1, PathsLeftAre, Zenon
  <1>3. i \in 1 .. m /\ i + 1 \in 1 .. m + 1
    BY <1>2
  <1>4. decl \in Imports!Decls
    <2>1. f.decls \in Seq(Imports!Decls)
      BY Zenon DEF IsFile
    <2>2. PICK ds : ds = f.decls
      OBVIOUS
    <2>3. \A j \in DOMAIN ds : ds[j] \in Imports!Decls
      BY <2>1, <2>2
    <2>. QED
      BY <2>2, <2>3, Zenon
  <1>5. PICK paths, z : paths = Imports!PathsIn(decl) /\ z = Imports!PathsLeft(f, i + 1)
    OBVIOUS
  <1>6. /\ n \in Nat /\ paths \in Seq(Paths) /\ Len(paths) = n
        /\ \A k \in 1 .. n : paths[k] = decl.specs[k].path
    BY <1>4, <1>5, PathsInAre, Zenon
  <1>7. z \in Seq(Paths) /\ Imports!PathsLeft(f, i) = paths \o z
    BY <1>2, <1>3, <1>5, Zenon
  <1>8. \A k : Imports!SpecPathsLeft(f, i, k) = SubSeq(paths, k, n) \o z
    BY <1>5, <1>6, Zenon DEF Imports!SpecPathsLeft
  <1>9. \A k \in 1 .. n + 1 : SubSeq(paths, k, n) \in Seq(Paths)
    <2>1. ASSUME NEW k \in 1 .. n + 1
          PROVE  SubSeq(paths, k, n) \in Seq(Paths)
      <3>1. k \in Int /\ n \in Int /\ \A j \in k .. n : paths[j] \in Paths
        BY <1>6
      <3>. QED
        BY <3>1, SubSeqProperties
    <2>. QED
      BY <2>1
  <1>10. ASSUME NEW k \in 1 .. n + 1
         PROVE  Imports!SpecPathsLeft(f, i, k) \in Seq(Paths)
    <2>1. PICK x : x = SubSeq(paths, k, n)
      BY Zenon
    <2>2. x \in Seq(Paths)
      BY <1>9, <2>1, Zenon
    <2>3. x \o z \in Seq(Paths)
      BY <1>7, <2>2, ConcatProperties
    <2>. QED
      BY <1>8, <2>1, <2>3, Zenon
  <1>11. ASSUME NEW k \in 1 .. n
         PROVE  /\ decl.specs[k].path \in Paths
                /\ Imports!SpecPathsLeft(f, i, k) =
                      <<decl.specs[k].path>> \o Imports!SpecPathsLeft(f, i, k + 1)
    <2>1. PICK x, p : x = SubSeq(paths, k + 1, n) /\ p = paths[k]
      BY Zenon
    <2>2. k \in 1 .. n + 1 /\ k + 1 \in 1 .. n + 1 /\ k \in 1 .. Len(paths) /\ n \in k .. Len(paths)
      BY <1>6
    <2>3. SubSeq(paths, k, n) = <<p>> \o x
      BY <1>6, <2>1, <2>2, SubSeqRecursiveFirst, Zenon
    <2>4. x \in Seq(Paths) /\ p \in Paths
      BY <1>6, <1>9, <2>1, <2>2
    <2>5. (<<p>> \o x) \o z = <<p>> \o (x \o z)
      <3>1. <<p>> \in Seq(Paths)
        BY <2>4
      <3>. QED
        BY <1>7, <2>4, <3>1, ConcatAssociative
    <2>6. p = decl.specs[k].path
      BY <1>6, <2>1, Zenon
    <2>. QED
      BY <1>8, <2>1, <2>3, <2>4, <2>5, <2>6, Zenon
  <1>12. Imports!SpecPathsLeft(f, i, n + 1) = z
    <2>1. n + 1 \in Int /\ n \in Int /\ n < n + 1
      BY <1>6
    <2>2. SubSeq(paths, n + 1, n) = <<>>
      BY <2>1, SubSeqEmpty
    <2>3. <<>> \o z = z
      BY <1>7, ConcatEmptySeq
    <2>. QED
      BY <1>8, <2>2, <2>3, Zenon
  <1>13. Imports!SpecPathsLeft(f, i, 1) = paths \o z
    <2>1. SubSeq(paths, 1, n) = paths
      BY <1>6, SubSeqFull
    <2>. QED
      BY <1>8, <2>1, Zenon
  <1>. QED
    BY <1>5, <1>6, <1>7, <1>10, <1>11, <1>12, <1>13, Zenon

\* What a reader can report.
Sayable == Paths \cup {"text"}

\* One path more has been said.
LEMMA SaidOneMore ==
    ASSUME NEW said \in Seq(Sayable), NEW p \in Paths, NEW z \in Seq(Paths)
    PROVE  said \o (<<p>> \o z) = Append(said, p) \o z
  <1>1. p \in Sayable /\ z \in Seq(Sayable)
    <2>1. Paths \subseteq Sayable
      BY Zenon DEF Sayable
    <2>. QED
      BY <2>1
  <1>2. <<p>> \in Seq(Sayable) /\ Append(said, p) = said \o <<p>>
    BY <1>1, AppendIsConcat
  <1>3. (said \o <<p>>) \o z = said \o (<<p>> \o z)
    BY <1>1, <1>2, ConcatAssociative
  <1>. QED
    BY <1>2, <1>3, Zenon

\* Where a reader of a whole file is once it took a token, and what is left.
Follows(f, place, g, tok, z, said) ==
    \/ place = "clause" /\ tok = Imports!Word("package") /\ Imports!IsLeft(f, "name", g, z, said)
    \/ place = "name" /\ tok = Imports!Word("name") /\ Imports!IsLeft(f, "top", g, z, said)
    \/ /\ place \in {"top", "spec"} /\ tok = Imports!Punct(";")
       /\ Imports!IsLeft(f, place, g, z, said)
    \/ place = "top" /\ tok = Imports!Word("import") /\ Imports!IsLeft(f, "import", g, z, said)
    \/ place = "top" /\ tok = Imports!Word("name") /\ Imports!IsLeft(f, "returned", g, z, said)
    \/ place = "import" /\ tok = Imports!Punct("(") /\ Imports!IsLeft(f, "spec", TRUE, z, said)
    \/ /\ place \in {"import", "spec"} /\ tok \in {Imports!Word("name"), Imports!Punct(".")}
       /\ Imports!IsLeft(f, "path", place = "spec", z, said)
    \/ /\ place \in {"import", "spec", "path"}
       /\ \E p \in Paths :
             /\ tok = Imports!String(p)
             /\ Imports!IsLeft(f, IF place = "spec" \/ (place = "path" /\ g) THEN "spec" ELSE "top",
                               g, z, Append(said, p))
    \/ place = "spec" /\ tok = Imports!Punct(")") /\ Imports!IsLeft(f, "top", FALSE, z, said)

\* A whole file goes on as its grammar says, or is over.
GoesOn(f, place, g, left, said) ==
    \/ \E tok \in Alphabet : \E z \in Seq(Alphabet) :
          left = <<tok>> \o z /\ Follows(f, place, g, tok, z, said)
    \/ place = "top" /\ left = <<>> /\ Imports!IsLeft(f, "returned", g, left, said)

\* The token after which it does.
LEMMA GoesOnAfter ==
    ASSUME NEW f, NEW place, NEW g, NEW said, NEW tok \in Alphabet, NEW z \in Seq(Alphabet),
           Follows(f, place, g, tok, z, said)
    PROVE  GoesOn(f, place, g, <<tok>> \o z, said)
  BY Zenon DEF GoesOn

\* The declarations left are those of the file.
LEMMA TopOf ==
    ASSUME NEW f, IsFile(f), NEW i \in 1 .. Len(f.decls) + 1, NEW g,
           NEW said, said \o Imports!PathsLeft(f, i) = Imports!PathsOf(f.decls)
    PROVE  /\ Imports!DeclsLeft(f, i) \in Seq(Alphabet)
           /\ Imports!IsLeft(f, "top", g, Imports!DeclsLeft(f, i), said)
           /\ Imports!Stop(f.semicolons) \o Imports!DeclsLeft(f, i) \in Seq(Alphabet)
           /\ Imports!IsLeft(f, "top", g, Imports!Stop(f.semicolons) \o Imports!DeclsLeft(f, i), said)
  <1>1. PICK d, stop : d = Imports!DeclsLeft(f, i) /\ stop = Imports!Stop(f.semicolons)
    OBVIOUS
  <1>2. d \in Seq(Alphabet) /\ stop \in Seq(Alphabet)
    <2>1. PICK m : m = Len(f.decls)
      BY Zenon
    <2>2. \A j \in 1 .. m + 1 : Imports!DeclsLeft(f, j) \in Seq(Alphabet)
      BY <2>1, DeclsLeftAre, Zenon
    <2>3. f.semicolons \in BOOLEAN
      BY Zenon DEF IsFile
    <2>. QED
      BY <1>1, <2>1, <2>2, <2>3, StopIs, Zenon
  <1>3. stop \o d \in Seq(Alphabet)
    BY <1>2, ConcatProperties
  <1>4. Imports!LeftAtTop(f, d, said) /\ Imports!LeftAtTop(f, stop \o d, said)
    BY <1>1, Zenon DEF Imports!LeftAtTop
  <1>. QED
    BY <1>1, <1>2, <1>3, <1>4, Zenon DEF Imports!IsLeft

\* And the imports left of a group.
LEMMA SpecOf ==
    ASSUME NEW f, IsFile(f), NEW i \in DOMAIN f.decls, f.decls[i].group,
           NEW k \in 1 .. Len(f.decls[i].specs) + 1, NEW g,
           NEW said, said \o Imports!SpecPathsLeft(f, i, k) = Imports!PathsOf(f.decls)
    PROVE  /\ Imports!SpecsLeft(f, i, k) \in Seq(Alphabet)
           /\ Imports!IsLeft(f, "spec", g, Imports!SpecsLeft(f, i, k), said)
           /\ Imports!Stop(f.semicolons) \o Imports!SpecsLeft(f, i, k) \in Seq(Alphabet)
           /\ Imports!IsLeft(f, "spec", g, Imports!Stop(f.semicolons) \o Imports!SpecsLeft(f, i, k), said)
  <1>1. PICK d, stop, decl, n :
           /\ d = Imports!SpecsLeft(f, i, k) /\ stop = Imports!Stop(f.semicolons)
           /\ decl = f.decls[i] /\ n = Len(decl.specs)
    BY Zenon
  <1>2. d \in Seq(Alphabet) /\ stop \in Seq(Alphabet)
    <2>1. \A j \in 1 .. n + 1 : Imports!SpecsLeft(f, i, j) \in Seq(Alphabet)
      BY <1>1, SpecsLeftAre, Zenon
    <2>2. f.semicolons \in BOOLEAN
      BY Zenon DEF IsFile
    <2>. QED
      BY <1>1, <2>1, <2>2, StopIs, Zenon
  <1>3. stop \o d \in Seq(Alphabet)
    BY <1>2, ConcatProperties
  <1>4. Imports!LeftAtSpec(f, d, said) /\ Imports!LeftAtSpec(f, stop \o d, said)
    BY <1>1, Zenon DEF Imports!LeftAtSpec
  <1>. QED
    BY <1>1, <1>2, <1>3, <1>4, Zenon DEF Imports!IsLeft

\* The path of an import is next, and is said.
PathNext(f, decl, i, k, g, said) ==
    \E p \in Paths : \E z \in Seq(Alphabet) :
        /\ Imports!PathOn(f, i, k) = <<Imports!String(p)>> \o z
        /\ Imports!IsLeft(f, IF decl.group THEN "spec" ELSE "top", g, z, Append(said, p))

\* So it goes on at an import.
LEMMA PathOf ==
    ASSUME NEW f, IsFile(f), NEW i \in DOMAIN f.decls, NEW decl, decl = f.decls[i],
           NEW k \in 1 .. Len(decl.specs), NEW g, NEW said \in Seq(Sayable),
           said \o Imports!SpecPathsLeft(f, i, k) = Imports!PathsOf(f.decls)
    PROVE  PathNext(f, decl, i, k, g, said)
  <1>1. PICK n, m : n = Len(decl.specs) /\ m = Len(f.decls)
    BY Zenon
  <1>2. PICK p, stop, s2, d2, z, pl :
           /\ p = decl.specs[k].path /\ stop = Imports!Stop(f.semicolons)
           /\ s2 = Imports!SpecsLeft(f, i, k + 1) /\ d2 = Imports!DeclsLeft(f, i + 1)
           /\ z = stop \o (IF decl.group THEN s2 ELSE d2)
           /\ pl = Imports!SpecPathsLeft(f, i, k + 1)
    BY Zenon
  <1>3. /\ n \in Nat /\ p \in Paths /\ pl \in Seq(Paths)
        /\ Imports!SpecPathsLeft(f, i, k) = <<p>> \o pl
        /\ Imports!SpecPathsLeft(f, i, n + 1) = Imports!PathsLeft(f, i + 1)
    <2>1. /\ n \in Nat
          /\ \A j \in 1 .. n + 1 : Imports!SpecPathsLeft(f, i, j) \in Seq(Paths)
          /\ \A j \in 1 .. n :
                /\ decl.specs[j].path \in Paths
                /\ Imports!SpecPathsLeft(f, i, j) =
                      <<decl.specs[j].path>> \o Imports!SpecPathsLeft(f, i, j + 1)
          /\ Imports!SpecPathsLeft(f, i, n + 1) = Imports!PathsLeft(f, i + 1)
      BY <1>1, SpecPathsLeftAre, Zenon
    <2>2. k \in 1 .. n /\ k + 1 \in 1 .. n + 1
      BY <1>1, <2>1
    <2>. QED
      BY <1>2, <2>1, <2>2, Zenon
  <1>4. k + 1 \in 1 .. n + 1
    BY <1>1, <1>3
  <1>5. Append(said, p) \o pl = Imports!PathsOf(f.decls)
    <2>1. said \o (<<p>> \o pl) = Append(said, p) \o pl
      BY <1>3, SaidOneMore, Zenon
    <2>. QED
      BY <1>3, <2>1, Zenon
  <1>6. Imports!PathOn(f, i, k) = <<Imports!String(p)>> \o z
    BY <1>2, Zenon DEF Imports!PathOn
  <1>7. decl.group \in BOOLEAN /\ (~ decl.group => n = 1) /\ i \in 1 .. m /\ m \in Nat
    BY <1>1, SpecsLeftAre, Zenon
  <1>8. CASE decl.group
    <2>1. z = stop \o s2
      BY <1>2, <1>8
    <2>2. z \in Seq(Alphabet) /\ Imports!IsLeft(f, "spec", g, z, Append(said, p))
      BY <1>1, <1>2, <1>4, <1>5, <1>8, <2>1, SpecOf, Zenon
    <2>. QED
      BY <1>2, <1>3, <1>6, <1>8, <2>2, Zenon DEF PathNext
  <1>9. CASE ~ decl.group
    <2>1. z = stop \o d2
      BY <1>2, <1>9
    <2>2. k = n /\ i + 1 \in 1 .. m + 1
      <3>1. n = 1 /\ k \in 1 .. n /\ i \in 1 .. m /\ m \in Nat
        BY <1>1, <1>7, <1>9, Zenon
      <3>2. \A q \in 1 .. n : n = 1 => q = n
        OBVIOUS
      <3>3. \A q \in 1 .. m : q + 1 \in 1 .. m + 1
        BY <3>1
      <3>. QED
        BY <3>1, <3>2, <3>3, Zenon
    <2>3. Append(said, p) \o Imports!PathsLeft(f, i + 1) = Imports!PathsOf(f.decls)
      BY <1>2, <1>3, <1>5, <2>2, Zenon
    <2>4. z \in Seq(Alphabet) /\ Imports!IsLeft(f, "top", g, z, Append(said, p))
      BY <1>1, <1>2, <2>1, <2>2, <2>3, TopOf, Zenon
    <2>. QED
      BY <1>2, <1>3, <1>6, <1>9, <2>4, Zenon DEF PathNext
  <1>. QED
    BY <1>7, <1>8, <1>9

\* An alias, if an import has one.
IsAlias(x) == x = <<>> \/ \E a \in {Imports!Word("name"), Imports!Punct(".")} : x = <<a>>

\* An import is words: its path with or without an alias.
LEMMA SpecTyped ==
    ASSUME NEW f, IsFile(f), NEW i \in DOMAIN f.decls, NEW decl, decl = f.decls[i],
           NEW k \in 1 .. Len(decl.specs)
    PROVE  /\ Imports!PathOn(f, i, k) \in Seq(Alphabet)
           /\ decl.specs[k].alias \o Imports!PathOn(f, i, k) \in Seq(Alphabet)
           /\ IsAlias(decl.specs[k].alias)
  <1>1. PICK n, stop, spec, x, y, s2, d2 :
           /\ n = Len(decl.specs) /\ stop = Imports!Stop(f.semicolons) /\ spec = decl.specs[k]
           /\ x = spec.alias /\ y = <<Imports!String(spec.path)>>
           /\ s2 = Imports!SpecsLeft(f, i, k + 1) /\ d2 = Imports!DeclsLeft(f, i + 1)
    BY Zenon
  <1>2. /\ n \in Nat /\ \A j \in 1 .. n : decl.specs[j] \in Imports!Specs
        /\ \A j \in 1 .. n + 1 : Imports!SpecsLeft(f, i, j) \in Seq(Alphabet)
        /\ stop \o d2 \in Seq(Alphabet)
    BY <1>1, SpecsLeftAre, Zenon
  <1>3. k \in 1 .. n /\ k + 1 \in 1 .. n + 1
    BY <1>1, <1>2
  <1>4. s2 \in Seq(Alphabet) /\ spec \in Imports!Specs
    BY <1>1, <1>2, <1>3, Zenon
  <1>5. x \in Seq(Alphabet) /\ y \in Seq(Alphabet)
    BY <1>1, <1>4, SpecsAre, Zenon
  <1>6. stop \in Seq(Alphabet)
    <2>1. f.semicolons \in BOOLEAN
      BY Zenon DEF IsFile
    <2>. QED
      BY <1>1, <2>1, StopIs, Zenon
  <1>7. PICK z : z = stop \o (IF decl.group THEN s2 ELSE d2)
    BY Zenon
  <1>8. z \in Seq(Alphabet)
    <2>1. stop \o s2 \in Seq(Alphabet)
      BY <1>4, <1>6, ConcatProperties
    <2>2. z = stop \o s2 \/ z = stop \o d2
      BY <1>7, Zenon
    <2>. QED
      BY <1>2, <2>1, <2>2, Zenon
  <1>9. y \o z \in Seq(Alphabet) /\ x \o (y \o z) \in Seq(Alphabet)
    <2>1. Grouped(Alphabet, x, y, z, z)
      BY <1>5, <1>8, Regroup
    <2>. QED
      BY <2>1, Zenon DEF Grouped
  <1>10. Imports!PathOn(f, i, k) = y \o z
    BY <1>1, <1>7, Zenon DEF Imports!PathOn
  <1>. QED
    BY <1>1, <1>4, <1>9, <1>10, SpecsAre, Zenon DEF IsAlias

\* So is what follows the word import.
LEMMA ImportTyped ==
    ASSUME NEW f, IsFile(f), NEW i \in DOMAIN f.decls, NEW decl, decl = f.decls[i]
    PROVE  /\ decl.group \in BOOLEAN
           /\ decl.group => <<Imports!Punct("(")>> \o Imports!SpecsLeft(f, i, 1) \in Seq(Alphabet)
           /\ decl.group => 1 \in 1 .. Len(decl.specs) + 1
           /\ ~ decl.group =>
                 /\ 1 \in 1 .. Len(decl.specs)
                 /\ decl.specs[1].alias \o Imports!PathOn(f, i, 1) \in Seq(Alphabet)
  <1>1. PICK n, s1, open :
           n = Len(decl.specs) /\ s1 = Imports!SpecsLeft(f, i, 1) /\ open = <<Imports!Punct("(")>>
    BY Zenon
  <1>2. /\ n \in Nat /\ decl.group \in BOOLEAN /\ (~ decl.group => n = 1)
        /\ \A j \in 1 .. n + 1 : Imports!SpecsLeft(f, i, j) \in Seq(Alphabet)
    BY <1>1, SpecsLeftAre, Zenon
  <1>3. 1 \in 1 .. n + 1 /\ (n = 1 => 1 \in 1 .. n)
    BY <1>2
  <1>4. open \o s1 \in Seq(Alphabet)
    <2>1. s1 \in Seq(Alphabet)
      BY <1>1, <1>2, <1>3, Zenon
    <2>2. \A a \in Alphabet : <<a>> \in Seq(Alphabet)
      OBVIOUS
    <2>3. open \in Seq(Alphabet)
      BY <1>1, <2>2, Words, Zenon
    <2>. QED
      BY <2>1, <2>3, ConcatProperties
  <1>5. ASSUME ~ decl.group
        PROVE  /\ 1 \in 1 .. Len(decl.specs)
               /\ decl.specs[1].alias \o Imports!PathOn(f, i, 1) \in Seq(Alphabet)
    <2>1. 1 \in 1 .. Len(decl.specs)
      BY <1>1, <1>2, <1>3, <1>5, Zenon
    <2>. QED
      BY <2>1, SpecTyped, Zenon
  <1>. QED
    BY <1>1, <1>2, <1>3, <1>4, <1>5, Zenon

\* A whole file goes on from its first token.
LEMMA ClauseGoesOn ==
    ASSUME NEW f, IsFile(f), NEW g
    PROVE  /\ GoesOn(f, "clause", g,
                     <<Imports!Word("package")>> \o (<<Imports!Word("name")>> \o Imports!DeclsLeft(f, 1)),
                     <<>>)
           /\ GoesOn(f, "name", g, <<Imports!Word("name")>> \o Imports!DeclsLeft(f, 1), <<>>)
  <1>1. PICK d, a, b, all :
           /\ d = Imports!DeclsLeft(f, 1) /\ a = Imports!Word("package") /\ b = Imports!Word("name")
           /\ all = Imports!PathsOf(f.decls)
    OBVIOUS
  <1>2. all = Imports!PathsLeft(f, 1) /\ all \in Seq(Paths) /\ 1 \in 1 .. Len(f.decls) + 1
    <2>1. PICK m : m = Len(f.decls)
      BY Zenon
    <2>2. /\ m \in Nat
          /\ \A i \in 1 .. m + 1 : Imports!PathsLeft(f, i) \in Seq(Paths)
          /\ Imports!PathsLeft(f, 1) = Imports!PathsOf(f.decls)
      BY <2>1, PathsLeftAre, Zenon
    <2>3. 1 \in 1 .. m + 1
      BY <2>2
    <2>. QED
      BY <1>1, <2>1, <2>2, <2>3, Zenon
  <1>3. <<>> \o Imports!PathsLeft(f, 1) = Imports!PathsOf(f.decls)
    <2>1. <<>> \o all = all
      BY <1>2, ConcatEmptySeq
    <2>. QED
      BY <1>1, <1>2, <2>1, Zenon
  <1>4. d \in Seq(Alphabet) /\ Imports!IsLeft(f, "top", g, d, <<>>)
    BY <1>1, <1>2, <1>3, TopOf, Zenon
  <1>5. a \in Alphabet /\ b \in Alphabet
    BY <1>1, Words, Zenon
  <1>6. <<b>> \o d \in Seq(Alphabet)
    <2>1. <<b>> \in Seq(Alphabet)
      BY <1>5
    <2>. QED
      BY <1>4, <2>1, ConcatProperties
  <1>7. Follows(f, "name", g, b, d, <<>>)
    BY <1>1, <1>4, Zenon DEF Follows
  <1>8. Follows(f, "clause", g, a, <<b>> \o d, <<>>)
    <2>1. Imports!IsLeft(f, "name", g, <<b>> \o d, <<>>)
      BY <1>1, Zenon DEF Imports!IsLeft
    <2>. QED
      BY <1>1, <2>1, Zenon DEF Follows
  <1>. QED
    BY <1>1, <1>4, <1>5, <1>6, <1>7, <1>8, GoesOnAfter, Zenon

\* It goes on after a semicolon, where it stood.
LEMMA StopGoesOn ==
    ASSUME NEW f, IsFile(f), NEW place \in {"top", "spec"}, NEW g, NEW said,
           NEW left \in Seq(Alphabet), Imports!IsLeft(f, place, g, left, said),
           GoesOn(f, place, g, left, said)
    PROVE  GoesOn(f, place, g, Imports!Stop(f.semicolons) \o left, said)
  <1>1. PICK stop, semi : stop = Imports!Stop(f.semicolons) /\ semi = Imports!Punct(";")
    BY Zenon
  <1>2. stop = <<>> \/ stop = <<semi>>
    <2>1. f.semicolons \in BOOLEAN
      BY Zenon DEF IsFile
    <2>. QED
      BY <1>1, <2>1, StopIs, Zenon
  <1>3. CASE stop = <<>>
    <2>1. <<>> \o left = left
      BY ConcatEmptySeq
    <2>. QED
      BY <1>1, <1>3, <2>1, Zenon
  <1>4. CASE stop = <<semi>>
    <2>1. Follows(f, place, g, semi, left, said)
      BY <1>1, Zenon DEF Follows
    <2>2. semi \in Alphabet
      BY <1>1, Words, Zenon
    <2>. QED
      BY <1>1, <1>4, <2>1, <2>2, GoesOnAfter, Zenon
  <1>. QED
    BY <1>2, <1>3, <1>4

\* It goes on with a declaration, or with what follows the imports.
LEMMA TopGoesOn ==
    ASSUME NEW f, IsFile(f), NEW g, NEW said \in Seq(Sayable), NEW left,
           Imports!LeftAtTop(f, left, said)
    PROVE  GoesOn(f, "top", g, left, said)
  <1>1. PICK i \in 1 .. Len(f.decls) + 1 :
           /\ left \in {Imports!DeclsLeft(f, i), Imports!Stop(f.semicolons) \o Imports!DeclsLeft(f, i)}
           /\ said \o Imports!PathsLeft(f, i) = Imports!PathsOf(f.decls)
    BY Zenon DEF Imports!LeftAtTop
  <1>2. PICK d, m : d = Imports!DeclsLeft(f, i) /\ m = Len(f.decls)
    BY Zenon
  <1>3. d \in Seq(Alphabet) /\ Imports!IsLeft(f, "top", g, d, said)
    BY <1>1, <1>2, TopOf, Zenon
  <1>4. m \in Nat /\ DOMAIN f.decls = 1 .. m /\ Imports!PathsLeft(f, m + 1) = <<>>
    BY <1>2, PathsLeftAre, Zenon
  <1>5. GoesOn(f, "top", g, d, said)
    <2>1. CASE i = m + 1
      <3>1. d = f.rest
        BY <1>2, <2>1, DeclsLeftAre, Zenon
      <3>2. said = Imports!PathsOf(f.decls)
        <4>1. said \o <<>> = said
          BY ConcatEmptySeq
        <4>. QED
          BY <1>1, <1>4, <2>1, <4>1, Zenon
      <3>3. CASE f.rest = <<>>
        <4>1. Imports!IsLeft(f, "returned", g, d, said)
          BY <3>2, Zenon DEF Imports!IsLeft
        <4>. QED
          BY <3>1, <3>3, <4>1, Zenon DEF GoesOn
      <3>4. CASE \E z \in Seq(Alphabet) : f.rest = <<Imports!Word("name")>> \o z
        <4>1. PICK z \in Seq(Alphabet) : f.rest = <<Imports!Word("name")>> \o z
          BY <3>4, Zenon
        <4>2. Imports!IsLeft(f, "returned", g, z, said)
          BY <3>2, Zenon DEF Imports!IsLeft
        <4>3. Follows(f, "top", g, Imports!Word("name"), z, said)
          BY <4>2, Zenon DEF Follows
        <4>. QED
          BY <3>1, <4>1, <4>3, Words, GoesOnAfter, Zenon
      <3>. QED
        BY <3>3, <3>4, RestIs, Zenon
    <2>2. CASE i # m + 1
      <3>1. i \in 1 .. m
        BY <1>2, <1>4, <2>2
      <3>2. PICK decl, n, im : decl = f.decls[i] /\ n = Len(decl.specs) /\ im = Imports!Word("import")
        BY Zenon
      <3>3. i \in DOMAIN f.decls
        BY <1>4, <3>1, Zenon
      <3>4. PICK z : z = IF decl.group THEN <<Imports!Punct("(")>> \o Imports!SpecsLeft(f, i, 1)
                         ELSE decl.specs[1].alias \o Imports!PathOn(f, i, 1)
        BY Zenon
      <3>5. d = <<im>> \o z
        <4>1. d = <<im>>
                  \o (IF decl.group THEN <<Imports!Punct("(")>> \o Imports!SpecsLeft(f, i, 1)
                      ELSE decl.specs[1].alias
                           \o (<<Imports!String(decl.specs[1].path)>>
                               \o (Imports!Stop(f.semicolons) \o Imports!DeclsLeft(f, i + 1))))
          BY <1>2, <3>2, <3>3, SpecsLeftAre, Zenon
        <4>2. ~ decl.group =>
                 Imports!PathOn(f, i, 1) =
                    <<Imports!String(decl.specs[1].path)>>
                    \o (Imports!Stop(f.semicolons) \o Imports!DeclsLeft(f, i + 1))
          BY <3>2, Zenon DEF Imports!PathOn
        <4>3. CASE decl.group
          <5>1. z = <<Imports!Punct("(")>> \o Imports!SpecsLeft(f, i, 1)
            BY <3>4, <4>3, Zenon
          <5>. QED
            BY <4>1, <4>3, <5>1, Zenon
        <4>4. CASE ~ decl.group
          <5>1. z = decl.specs[1].alias \o Imports!PathOn(f, i, 1)
            BY <3>4, <4>4, Zenon
          <5>. QED
            BY <4>1, <4>2, <4>4, <5>1, Zenon
        <4>. QED
          BY <4>3, <4>4
      <3>6. Imports!LeftAtImport(f, z, said)
        <4>1. Imports!SpecPathsLeft(f, i, 1) = Imports!PathsLeft(f, i)
          BY <3>2, <3>3, SpecPathsLeftAre, Zenon
        <4>. QED
          BY <1>1, <3>2, <3>3, <3>4, <4>1, Zenon DEF Imports!LeftAtImport
      <3>7. Imports!IsLeft(f, "import", g, z, said)
        BY <3>6, Zenon DEF Imports!IsLeft
      <3>8. Follows(f, "top", g, im, z, said)
        BY <3>2, <3>7, Zenon DEF Follows
      <3>9. im \in Alphabet /\ z \in Seq(Alphabet)
        <4>1. im \in Alphabet
          BY <3>2, Words, Zenon
        <4>2. z \in Seq(Alphabet)
          <5>1. CASE decl.group
            <6>1. z = <<Imports!Punct("(")>> \o Imports!SpecsLeft(f, i, 1)
              BY <3>4, <5>1, Zenon
            <6>. QED
              BY <3>2, <3>3, <5>1, <6>1, ImportTyped, Zenon
          <5>2. CASE ~ decl.group
            <6>1. z = decl.specs[1].alias \o Imports!PathOn(f, i, 1)
              BY <3>4, <5>2, Zenon
            <6>. QED
              BY <3>2, <3>3, <5>2, <6>1, ImportTyped, Zenon
          <5>. QED
            BY <5>1, <5>2
        <4>. QED
          BY <4>1, <4>2
      <3>. QED
        BY <3>5, <3>8, <3>9, GoesOnAfter, Zenon
    <2>. QED
      BY <2>1, <2>2
  <1>6. GoesOn(f, "top", g, Imports!Stop(f.semicolons) \o d, said)
    BY <1>3, <1>5, StopGoesOn, Zenon
  <1>. QED
    BY <1>1, <1>2, <1>5, <1>6, Zenon

\* It goes on with an import: an alias, or the path at once.
LEMMA AliasedGoesOn ==
    ASSUME NEW f, IsFile(f), NEW i \in DOMAIN f.decls, NEW decl, decl = f.decls[i],
           NEW k \in 1 .. Len(decl.specs), NEW g, NEW said \in Seq(Sayable),
           said \o Imports!SpecPathsLeft(f, i, k) = Imports!PathsOf(f.decls),
           NEW place, place = IF decl.group THEN "spec" ELSE "import"
    PROVE  GoesOn(f, place, g, decl.specs[k].alias \o Imports!PathOn(f, i, k), said)
  <1>1. PICK x, on : x = decl.specs[k].alias /\ on = Imports!PathOn(f, i, k)
    OBVIOUS
  <1>2. /\ on \in Seq(Alphabet)
        /\ x = <<>> \/ \E a \in {Imports!Word("name"), Imports!Punct(".")} : x = <<a>>
    <2>1. Imports!PathOn(f, i, k) \in Seq(Alphabet)
      BY SpecTyped, Zenon
    <2>2. IsAlias(decl.specs[k].alias)
      BY SpecTyped, Zenon
    <2>. QED
      BY <1>1, <2>1, <2>2, Zenon DEF IsAlias
  <1>3. decl.group \in BOOLEAN
    BY ImportTyped, Zenon
  <1>4. "spec" # "import" /\ place \in {"import", "spec"}
    BY Zenon
  <1>5. CASE x = <<>>
    <2>0. PathNext(f, decl, i, k, g, said)
      BY PathOf, Zenon
    <2>1. PICK p \in Paths, z \in Seq(Alphabet) :
             /\ on = <<Imports!String(p)>> \o z
             /\ Imports!IsLeft(f, IF decl.group THEN "spec" ELSE "top", g, z, Append(said, p))
      BY <1>1, <2>0, Zenon DEF PathNext
    <2>2. "import" # "path" /\ "spec" # "path"
      OBVIOUS
    <2>3. Imports!IsLeft(f, IF place = "spec" \/ (place = "path" /\ g) THEN "spec" ELSE "top",
                         g, z, Append(said, p))
      BY <1>3, <1>4, <2>1, <2>2, Zenon
    <2>4. Follows(f, place, g, Imports!String(p), z, said)
      BY <1>4, <2>3, Zenon DEF Follows
    <2>5. GoesOn(f, place, g, on, said)
      BY <2>1, <2>4, Words, GoesOnAfter, Zenon
    <2>6. <<>> \o on = on
      BY <1>2, ConcatEmptySeq
    <2>. QED
      BY <1>1, <1>5, <2>5, <2>6, Zenon
  <1>6. CASE \E a \in {Imports!Word("name"), Imports!Punct(".")} : x = <<a>>
    <2>1. PICK a \in {Imports!Word("name"), Imports!Punct(".")} : x = <<a>>
      BY <1>6
    <2>2. DOMAIN decl.specs = 1 .. Len(decl.specs)
      <3>1. \A n : n = Len(decl.specs) => DOMAIN decl.specs = 1 .. n
        <4>1. PICK specs : specs = decl.specs
          OBVIOUS
        <4>2. decl \in Imports!Decls
          BY DeclsLeftAre, Zenon
        <4>3. specs \in Seq(Imports!Specs)
          BY <4>1, <4>2, DeclsAre, Zenon
        <4>4. DOMAIN specs = 1 .. Len(specs)
          BY <4>3
        <4>. QED
          BY <4>1, <4>4, Zenon
      <3>. QED
        BY <3>1, Zenon
    <2>3. (place = "spec") = decl.group
      BY <1>3, <1>4, Zenon
    <2>4. Imports!LeftAtPath(f, place = "spec", on, said)
      BY <1>1, <2>2, <2>3, Zenon DEF Imports!LeftAtPath
    <2>5. Imports!IsLeft(f, "path", place = "spec", on, said)
      BY <2>4, Zenon DEF Imports!IsLeft
    <2>6. Follows(f, place, g, a, on, said)
      BY <1>4, <2>5, Zenon DEF Follows
    <2>7. a \in Alphabet
      BY Words, Zenon
    <2>. QED
      BY <1>1, <1>2, <2>1, <2>6, <2>7, GoesOnAfter, Zenon
  <1>. QED
    BY <1>2, <1>5, <1>6

\* It goes on with a group of imports, or with one.
LEMMA ImportGoesOn ==
    ASSUME NEW f, IsFile(f), NEW g, NEW said \in Seq(Sayable), NEW left,
           Imports!LeftAtImport(f, left, said)
    PROVE  GoesOn(f, "import", g, left, said)
  <1>1. PICK i \in DOMAIN f.decls :
           /\ left = IF f.decls[i].group THEN <<Imports!Punct("(")>> \o Imports!SpecsLeft(f, i, 1)
                     ELSE f.decls[i].specs[1].alias \o Imports!PathOn(f, i, 1)
           /\ said \o Imports!SpecPathsLeft(f, i, 1) = Imports!PathsOf(f.decls)
    BY Zenon DEF Imports!LeftAtImport
  <1>2. PICK decl, s1, open :
           decl = f.decls[i] /\ s1 = Imports!SpecsLeft(f, i, 1) /\ open = Imports!Punct("(")
    OBVIOUS
  <1>3. CASE decl.group
    <2>1. left = <<open>> \o s1
      BY <1>1, <1>2, <1>3, Zenon
    <2>2. 1 \in 1 .. Len(decl.specs) + 1
      BY <1>2, <1>3, ImportTyped, Zenon
    <2>3. s1 \in Seq(Alphabet) /\ Imports!IsLeft(f, "spec", TRUE, s1, said)
      BY <1>1, <1>2, <1>3, <2>2, SpecOf, Zenon
    <2>4. Follows(f, "import", g, open, s1, said)
      BY <1>2, <2>3, Zenon DEF Follows
    <2>. QED
      BY <1>2, <2>1, <2>3, <2>4, Words, GoesOnAfter, Zenon
  <1>4. CASE ~ decl.group
    <2>1. left = decl.specs[1].alias \o Imports!PathOn(f, i, 1)
      BY <1>1, <1>2, <1>4, Zenon
    <2>2. 1 \in 1 .. Len(decl.specs)
      BY <1>2, <1>4, ImportTyped, Zenon
    <2>3. "import" = IF decl.group THEN "spec" ELSE "import"
      BY <1>4, Zenon
    <2>. QED
      BY <1>1, <1>2, <2>1, <2>2, <2>3, AliasedGoesOn, Zenon
  <1>. QED
    BY <1>3, <1>4

\* It goes on with an import of a group, or with its end.
LEMMA SpecGoesOn ==
    ASSUME NEW f, IsFile(f), NEW g, NEW said \in Seq(Sayable), NEW left,
           Imports!LeftAtSpec(f, left, said)
    PROVE  GoesOn(f, "spec", g, left, said)
  <1>0. PICK i \in DOMAIN f.decls :
           \E k \in 1 .. Len(f.decls[i].specs) + 1 :
              /\ f.decls[i].group
              /\ left \in {Imports!SpecsLeft(f, i, k),
                           Imports!Stop(f.semicolons) \o Imports!SpecsLeft(f, i, k)}
              /\ said \o Imports!SpecPathsLeft(f, i, k) = Imports!PathsOf(f.decls)
    BY Zenon DEF Imports!LeftAtSpec
  <1>1. PICK k \in 1 .. Len(f.decls[i].specs) + 1 :
           /\ f.decls[i].group
           /\ left \in {Imports!SpecsLeft(f, i, k),
                        Imports!Stop(f.semicolons) \o Imports!SpecsLeft(f, i, k)}
           /\ said \o Imports!SpecPathsLeft(f, i, k) = Imports!PathsOf(f.decls)
    BY <1>0, Zenon
  <1>2. PICK decl, n, s, close :
           /\ decl = f.decls[i] /\ n = Len(decl.specs) /\ s = Imports!SpecsLeft(f, i, k)
           /\ close = Imports!Punct(")")
    BY Zenon
  <1>3. s \in Seq(Alphabet) /\ Imports!IsLeft(f, "spec", g, s, said)
    BY <1>1, <1>2, SpecOf, Zenon
  <1>4. n \in Nat /\ k \in 1 .. n + 1
    BY <1>1, <1>2, SpecsLeftAre, Zenon
  <1>5. GoesOn(f, "spec", g, s, said)
    <2>1. CASE k = n + 1
      <3>1. PICK z : z = Imports!Stop(f.semicolons) \o Imports!DeclsLeft(f, i + 1)
        BY Zenon
      <3>2. s = <<close>> \o z
        BY <1>2, <2>1, <3>1, SpecsLeftAre, Zenon
      <3>3. said \o Imports!PathsLeft(f, i + 1) = Imports!PathsOf(f.decls)
        BY <1>1, <1>2, <2>1, SpecPathsLeftAre, Zenon
      <3>4. i + 1 \in 1 .. Len(f.decls) + 1
        <4>1. PICK m : m = Len(f.decls)
          BY Zenon
        <4>2. i \in 1 .. m /\ m \in Nat
          BY <1>2, <4>1, SpecsLeftAre, Zenon
        <4>3. i + 1 \in 1 .. m + 1
          BY <4>2
        <4>. QED
          BY <4>1, <4>3, Zenon
      <3>5. z \in Seq(Alphabet) /\ Imports!IsLeft(f, "top", FALSE, z, said)
        BY <3>1, <3>3, <3>4, TopOf, Zenon
      <3>6. Follows(f, "spec", g, close, z, said)
        BY <1>2, <3>5, Zenon DEF Follows
      <3>. QED
        BY <1>2, <3>2, <3>5, <3>6, Words, GoesOnAfter, Zenon
    <2>2. CASE k # n + 1
      <3>1. k \in 1 .. n
        BY <1>4, <2>2
      <3>2. s = decl.specs[k].alias \o Imports!PathOn(f, i, k)
        <4>1. s = decl.specs[k].alias
                  \o (<<Imports!String(decl.specs[k].path)>>
                      \o (Imports!Stop(f.semicolons) \o Imports!SpecsLeft(f, i, k + 1)))
          BY <1>2, <3>1, SpecsLeftAre, Zenon
        <4>2. Imports!PathOn(f, i, k) =
                 <<Imports!String(decl.specs[k].path)>>
                 \o (Imports!Stop(f.semicolons) \o Imports!SpecsLeft(f, i, k + 1))
          BY <1>1, <1>2, Zenon DEF Imports!PathOn
        <4>. QED
          BY <4>1, <4>2, Zenon
      <3>3. "spec" = IF decl.group THEN "spec" ELSE "import"
        BY <1>1, <1>2, Zenon
      <3>4. k \in 1 .. Len(decl.specs)
        BY <1>2, <3>1, Zenon
      <3>. QED
        BY <1>1, <1>2, <3>2, <3>3, <3>4, AliasedGoesOn, Zenon
    <2>. QED
      BY <2>1, <2>2
  <1>6. GoesOn(f, "spec", g, Imports!Stop(f.semicolons) \o s, said)
    BY <1>3, <1>5, StopGoesOn, Zenon
  <1>. QED
    BY <1>1, <1>2, <1>5, <1>6, Zenon

\* It goes on with the path of an import.
LEMMA PathGoesOn ==
    ASSUME NEW f, IsFile(f), NEW g, NEW said \in Seq(Sayable), NEW left,
           Imports!LeftAtPath(f, g, left, said)
    PROVE  GoesOn(f, "path", g, left, said)
  <1>0. PICK i \in DOMAIN f.decls :
           \E k \in DOMAIN f.decls[i].specs :
              /\ g = f.decls[i].group
              /\ left = Imports!PathOn(f, i, k)
              /\ said \o Imports!SpecPathsLeft(f, i, k) = Imports!PathsOf(f.decls)
    BY Zenon DEF Imports!LeftAtPath
  <1>1. PICK k \in DOMAIN f.decls[i].specs :
           /\ g = f.decls[i].group
           /\ left = Imports!PathOn(f, i, k)
           /\ said \o Imports!SpecPathsLeft(f, i, k) = Imports!PathsOf(f.decls)
    BY <1>0, Zenon
  <1>2. PICK decl : decl = f.decls[i]
    OBVIOUS
  <1>3. k \in 1 .. Len(decl.specs)
    <2>1. decl \in Imports!Decls
      BY <1>2, DeclsLeftAre, Zenon
    <2>2. PICK specs : specs = decl.specs
      OBVIOUS
    <2>3. specs \in Seq(Imports!Specs)
      BY <2>1, <2>2, DeclsAre, Zenon
    <2>4. k \in DOMAIN specs
      BY <1>1, <1>2, <2>2, Zenon
    <2>5. k \in 1 .. Len(specs)
      BY <2>3, <2>4
    <2>. QED
      BY <2>2, <2>5, Zenon
  <1>10. PathNext(f, decl, i, k, g, said)
    BY <1>1, <1>2, <1>3, PathOf, Zenon
  <1>4. PICK p \in Paths, z \in Seq(Alphabet) :
           /\ left = <<Imports!String(p)>> \o z
           /\ Imports!IsLeft(f, IF decl.group THEN "spec" ELSE "top", g, z, Append(said, p))
    BY <1>1, <1>10, Zenon DEF PathNext
  <1>5. Imports!IsLeft(f, IF "path" = "spec" \/ ("path" = "path" /\ g) THEN "spec" ELSE "top",
                       g, z, Append(said, p))
    <2>1. "path" # "spec"
      OBVIOUS
    <2>. QED
      BY <1>1, <1>2, <1>4, <2>1, Zenon
  <1>6. Follows(f, "path", g, Imports!String(p), z, said)
    BY <1>5, Zenon DEF Follows
  <1>. QED
    BY <1>4, <1>6, Words, GoesOnAfter, Zenon

\* A whole file goes on at each place it is read to.
LEMMA WholeGoesOn ==
    ASSUME NEW f, IsFile(f), NEW place, place # "returned", NEW g, NEW said \in Seq(Sayable),
           NEW left, Imports!IsLeft(f, place, g, left, said)
    PROVE  GoesOn(f, place, g, left, said)
  BY ClauseGoesOn, TopGoesOn, ImportGoesOn, SpecGoesOn, PathGoesOn, Zenon DEF Imports!IsLeft

\* What is next at each place.
NextAt(f, place, g, tok, z, said) ==
    /\ place \in {"clause", "name", "top", "import", "spec", "path"}
    /\ place = "clause" =>
          tok = Imports!Word("package") /\ Imports!IsLeft(f, "name", g, z, said)
    /\ place = "name" => tok = Imports!Word("name") /\ Imports!IsLeft(f, "top", g, z, said)
    /\ place = "top" =>
          \/ tok = Imports!Punct(";") /\ Imports!IsLeft(f, "top", g, z, said)
          \/ tok = Imports!Word("import") /\ Imports!IsLeft(f, "import", g, z, said)
          \/ tok = Imports!Word("name") /\ Imports!IsLeft(f, "returned", g, z, said)
    /\ place = "import" =>
          \/ tok = Imports!Punct("(") /\ Imports!IsLeft(f, "spec", TRUE, z, said)
          \/ /\ tok \in {Imports!Word("name"), Imports!Punct(".")}
             /\ Imports!IsLeft(f, "path", FALSE, z, said)
          \/ \E p \in Paths :
                /\ tok = Imports!String(p)
                /\ Imports!IsLeft(f, "top", g, z, Append(said, p))
    /\ place = "spec" =>
          \/ tok = Imports!Punct(";") /\ Imports!IsLeft(f, "spec", g, z, said)
          \/ /\ tok \in {Imports!Word("name"), Imports!Punct(".")}
             /\ Imports!IsLeft(f, "path", TRUE, z, said)
          \/ \E p \in Paths :
                /\ tok = Imports!String(p)
                /\ Imports!IsLeft(f, "spec", g, z, Append(said, p))
          \/ tok = Imports!Punct(")") /\ Imports!IsLeft(f, "top", FALSE, z, said)
    /\ place = "path" =>
          \E p \in Paths :
             /\ tok = Imports!String(p)
             /\ Imports!IsLeft(f, IF g THEN "spec" ELSE "top", g, z, Append(said, p))

\* A token that follows is one of those.
LEMMA FollowsAt ==
    ASSUME NEW f, NEW place, NEW g, NEW tok, NEW z, NEW said, Follows(f, place, g, tok, z, said)
    PROVE  NextAt(f, place, g, tok, z, said)
  <1>1. place \in {"clause", "name", "top", "import", "spec", "path"}
    BY Zenon DEF Follows
  <1>2. ASSUME place = "clause"
        PROVE  tok = Imports!Word("package") /\ Imports!IsLeft(f, "name", g, z, said)
    BY <1>2, Zenon DEF Follows
  <1>3. ASSUME place = "name"
        PROVE  tok = Imports!Word("name") /\ Imports!IsLeft(f, "top", g, z, said)
    BY <1>3, Zenon DEF Follows
  <1>4. ASSUME place = "top"
        PROVE  \/ tok = Imports!Punct(";") /\ Imports!IsLeft(f, "top", g, z, said)
               \/ tok = Imports!Word("import") /\ Imports!IsLeft(f, "import", g, z, said)
               \/ tok = Imports!Word("name") /\ Imports!IsLeft(f, "returned", g, z, said)
    BY <1>4, Zenon DEF Follows
  <1>5. ASSUME place = "import"
        PROVE  \/ tok = Imports!Punct("(") /\ Imports!IsLeft(f, "spec", TRUE, z, said)
               \/ /\ tok \in {Imports!Word("name"), Imports!Punct(".")}
                  /\ Imports!IsLeft(f, "path", FALSE, z, said)
               \/ \E p \in Paths :
                     /\ tok = Imports!String(p)
                     /\ Imports!IsLeft(f, "top", g, z, Append(said, p))
    <2>1. /\ ("import" = "spec") = FALSE
          /\ (IF "import" = "spec" \/ ("import" = "path" /\ g) THEN "spec" ELSE "top") = "top"
      BY Zenon
    <2>. QED
      BY <1>5, <2>1, Zenon DEF Follows
  <1>6. ASSUME place = "spec"
        PROVE  \/ tok = Imports!Punct(";") /\ Imports!IsLeft(f, "spec", g, z, said)
               \/ /\ tok \in {Imports!Word("name"), Imports!Punct(".")}
                  /\ Imports!IsLeft(f, "path", TRUE, z, said)
               \/ \E p \in Paths :
                     /\ tok = Imports!String(p)
                     /\ Imports!IsLeft(f, "spec", g, z, Append(said, p))
               \/ tok = Imports!Punct(")") /\ Imports!IsLeft(f, "top", FALSE, z, said)
    <2>1. /\ ("spec" = "spec") = TRUE
          /\ (IF "spec" = "spec" \/ ("spec" = "path" /\ g) THEN "spec" ELSE "top") = "spec"
      BY Zenon
    <2>. QED
      BY <1>6, <2>1, Zenon DEF Follows
  <1>7. ASSUME place = "path"
        PROVE  \E p \in Paths :
                  /\ tok = Imports!String(p)
                  /\ Imports!IsLeft(f, IF g THEN "spec" ELSE "top", g, z, Append(said, p))
    <2>1. (IF "path" = "spec" \/ ("path" = "path" /\ g) THEN "spec" ELSE "top")
             = (IF g THEN "spec" ELSE "top")
      BY Zenon
    <2>2. PICK p \in Paths :
             /\ tok = Imports!String(p)
             /\ Imports!IsLeft(f, IF place = "spec" \/ (place = "path" /\ g) THEN "spec" ELSE "top",
                               g, z, Append(said, p))
      BY <1>7, Zenon DEF Follows
    <2>. QED
      BY <1>7, <2>1, <2>2, Zenon
  <1>. QED
    BY <1>1, <1>2, <1>3, <1>4, <1>5, <1>6, <1>7, Zenon DEF NextAt

\* How the places of the reader go with its being in a group.
LEMMA GroupAt ==
    ASSUME Imports!TypeOK
    PROVE  /\ group \in BOOLEAN /\ (at = "spec" => group = TRUE)
           /\ at \in {"clause", "name", "top", "import", "returned"} => group = FALSE
  BY Zenon DEF Imports!TypeOK

\* A reader that takes the next token of a whole file is at its next place.
LEMMA ReadsFollow ==
    ASSUME Imports!TypeOK, Imports!Reads, NEW f, NEW z,
           Follows(f, at, group, Imports!Token, z, out)
    PROVE  Imports!IsLeft(f, at', group', z, out') /\ pos' = pos + 1
  <1>1. PICK tok : tok = Imports!Token
    OBVIOUS
  <1>2. NextAt(f, at, group, tok, z, out)
    BY <1>1, FollowsAt, Zenon
  <1>3. CASE Imports!Clause
    BY <1>1, <1>2, <1>3, Zenon DEF NextAt, Imports!Clause, Imports!Takes
  <1>4. CASE Imports!Name
    BY <1>1, <1>2, <1>4, Zenon DEF NextAt, Imports!Name, Imports!Takes
  <1>5. CASE Imports!Separator
    <2>1. /\ tok = Imports!Punct(";") /\ pos' = pos + 1 /\ group' = group /\ out' = out
          /\ \/ at = "top" /\ at' = "top"
             \/ at = "spec" /\ at' = "spec"
      BY <1>1, <1>5, Zenon DEF Imports!Separator, Imports!Takes
    <2>2. Imports!IsLeft(f, at, group, z, out)
      BY <1>2, <2>1, TokensDiffer, Zenon DEF NextAt
    <2>. QED
      BY <2>1, <2>2, Zenon
  <1>6. CASE Imports!Import
    <2>1. /\ tok = Imports!Word("import") /\ pos' = pos + 1 /\ group' = group /\ out' = out
          /\ at = "top" /\ at' = "import"
      BY <1>1, <1>6, Zenon DEF Imports!Import, Imports!Takes
    <2>2. Imports!IsLeft(f, "import", group, z, out)
      BY <1>2, <2>1, TokensDiffer, Zenon DEF NextAt
    <2>. QED
      BY <2>1, <2>2, Zenon
  <1>7. CASE Imports!OpenGroup
    <2>1. /\ tok = Imports!Punct("(") /\ pos' = pos + 1 /\ group' = TRUE /\ out' = out
          /\ at = "import" /\ at' = "spec"
      BY <1>1, <1>7, Zenon DEF Imports!OpenGroup, Imports!Takes
    <2>2. Imports!IsLeft(f, "spec", TRUE, z, out)
      <3>1. tok \notin {Imports!Word("name"), Imports!Punct(".")}
        BY <2>1, TokensDiffer, Zenon
      <3>2. \A p \in Paths : tok # Imports!String(p)
        BY <2>1, TokensDiffer, Zenon
      <3>. QED
        BY <1>2, <2>1, <3>1, <3>2, Zenon DEF NextAt
    <2>. QED
      BY <2>1, <2>2, Zenon
  <1>8. CASE Imports!Alias
    <2>1. /\ Imports!IsAlias(tok) /\ pos' = pos + 1 /\ group' = group /\ out' = out
          /\ at = IF group THEN "spec" ELSE "import"
          /\ at' = "path"
      BY <1>1, <1>8, Zenon DEF Imports!Alias, Imports!Takes
    <2>2. Imports!IsLeft(f, "path", group, z, out)
      <3>1. CASE group
        <4>1. at = "spec" /\ group = TRUE
          BY <2>1, <3>1, GroupAt, Zenon
        <4>2. Imports!IsLeft(f, "path", TRUE, z, out)
          BY <1>2, <2>1, <4>1, TokensDiffer, Zenon DEF NextAt
        <4>. QED
          BY <4>1, <4>2, Zenon
      <3>2. CASE ~ group
        <4>1. at = "import" /\ group = FALSE
          BY <2>1, <3>2, GroupAt, Zenon
        <4>2. Imports!IsLeft(f, "path", FALSE, z, out)
          BY <1>2, <2>1, <4>1, TokensDiffer, Zenon DEF NextAt
        <4>. QED
          BY <4>1, <4>2, Zenon
      <3>. QED
        BY <3>1, <3>2
    <2>. QED
      BY <2>1, <2>2, Zenon
  <1>9. CASE Imports!Path
    <2>1. /\ tok.t = "string" /\ pos' = pos + 1 /\ group' = group /\ out' = Append(out, tok.v)
          /\ at \in {IF group THEN "spec" ELSE "import", "path"}
          /\ at' = IF group THEN "spec" ELSE "top"
      BY <1>1, <1>9, Zenon DEF Imports!Path, Imports!Takes
    <2>2. \E p \in Paths :
             /\ tok = Imports!String(p)
             /\ Imports!IsLeft(f, IF group THEN "spec" ELSE "top", group, z, Append(out, p))
      <3>1. CASE at = "path"
        BY <1>2, <3>1, Zenon DEF NextAt
      <3>2. CASE at = "spec"
        <4>1. group
          BY <3>2, GroupAt, Zenon
        <4>2. \E p \in Paths :
                 tok = Imports!String(p) /\ Imports!IsLeft(f, "spec", group, z, Append(out, p))
          <5>1. tok # Imports!Punct(";") /\ tok # Imports!Punct(")")
            BY <2>1, TokensDiffer, Zenon
          <5>2. tok \notin {Imports!Word("name"), Imports!Punct(".")}
            BY <2>1, TokensDiffer, Zenon
          <5>. QED
            BY <1>2, <3>2, <5>1, <5>2, Zenon DEF NextAt
        <4>. QED
          BY <4>1, <4>2, Zenon
      <3>3. CASE at = "import"
        <4>1. ~ group
          BY <3>3, GroupAt, Zenon
        <4>2. \E p \in Paths :
                 tok = Imports!String(p) /\ Imports!IsLeft(f, "top", group, z, Append(out, p))
          <5>1. tok # Imports!Punct("(")
            BY <2>1, TokensDiffer, Zenon
          <5>2. tok \notin {Imports!Word("name"), Imports!Punct(".")}
            BY <2>1, TokensDiffer, Zenon
          <5>. QED
            BY <1>2, <3>3, <5>1, <5>2, Zenon DEF NextAt
        <4>. QED
          BY <4>1, <4>2, Zenon
      <3>. QED
        BY <2>1, <3>1, <3>2, <3>3, Zenon
    <2>3. PICK p \in Paths :
             /\ tok = Imports!String(p)
             /\ Imports!IsLeft(f, IF group THEN "spec" ELSE "top", group, z, Append(out, p))
      BY <2>2
    <2>4. tok.v = p
      BY <2>3, TokensDiffer, Zenon
    <2>. QED
      BY <2>1, <2>3, <2>4, Zenon
  <1>10. CASE Imports!CloseGroup
    <2>1. /\ tok = Imports!Punct(")") /\ pos' = pos + 1 /\ group' = FALSE /\ out' = out
          /\ at = "spec" /\ at' = "top"
      BY <1>1, <1>10, Zenon DEF Imports!CloseGroup, Imports!Takes
    <2>2. Imports!IsLeft(f, "top", FALSE, z, out)
      BY <1>2, <2>1, TokensDiffer, Zenon DEF NextAt
    <2>. QED
      BY <2>1, <2>2, Zenon
  <1>11. CASE Imports!Return
    <2>1. /\ tok \notin {Imports!Punct(";"), Imports!Word("import")}
          /\ pos' = pos + 1 /\ group' = group /\ out' = out
          /\ at = "top" /\ at' = "returned"
      BY <1>1, <1>11, Zenon DEF Imports!Return, Imports!Takes
    <2>2. Imports!IsLeft(f, "returned", group, z, out)
      BY <1>2, <2>1, Zenon DEF NextAt
    <2>. QED
      BY <2>1, <2>2, Zenon
  <1>. QED
    BY <1>3, <1>4, <1>5, <1>6, <1>7, <1>8, <1>9, <1>10, <1>11, Zenon DEF Imports!Reads

\* None of them is refused.
LEMMA FollowsUnderstood ==
    ASSUME NEW f, NEW z, Follows(f, at, group, Imports!Token, z, out)
    PROVE  Imports!Understood
  <1>1. PICK tok : tok = Imports!Token
    OBVIOUS
  <1>2. NextAt(f, at, group, tok, z, out)
    BY <1>1, FollowsAt, Zenon
  <1>3. CASE at = "clause"
    <2>1. tok = Imports!Word("package")
      BY <1>2, <1>3, Zenon DEF NextAt
    <2>. QED
      BY <1>1, <1>3, <2>1 DEF Imports!Understood
  <1>4. CASE at = "name"
    <2>1. tok.t = "word"
      BY <1>2, <1>4, TokensDiffer, Zenon DEF NextAt
    <2>. QED
      BY <1>1, <1>4, <2>1 DEF Imports!Understood
  <1>5. CASE at = "top"
    <2>1. tok.t # "bad"
      BY <1>2, <1>5, TokensDiffer, Zenon DEF NextAt
    <2>. QED
      BY <1>1, <1>5, <2>1 DEF Imports!Understood
  <1>6. CASE at = "import"
    <2>1. tok.t = "string" \/ Imports!IsAlias(tok) \/ tok = Imports!Punct("(")
      BY <1>2, <1>6, TokensDiffer, Zenon DEF NextAt
    <2>. QED
      BY <1>1, <1>6, <2>1 DEF Imports!Understood
  <1>7. CASE at = "spec"
    <2>1. \/ tok.t = "string" \/ Imports!IsAlias(tok)
          \/ tok \in {Imports!Punct(";"), Imports!Punct(")")}
      BY <1>2, <1>7, TokensDiffer, Zenon DEF NextAt
    <2>. QED
      BY <1>1, <1>7, <2>1, Zenon DEF Imports!Understood
  <1>8. CASE at = "path"
    <2>1. tok.t = "string"
      BY <1>2, <1>8, TokensDiffer, Zenon DEF NextAt
    <2>. QED
      BY <1>1, <1>8, <2>1 DEF Imports!Understood
  <1>. QED
    BY <1>2, <1>3, <1>4, <1>5, <1>6, <1>7, <1>8, Zenon DEF NextAt

\* The kinds of the tokens.
LEMMA KindsDiffer ==
    /\ Imports!Eof.t = "eof" /\ Imports!Bad.t = "bad"
    /\ \A v : Imports!Word(v).t = "word" /\ Imports!Punct(v).t = "punct"
    /\ \A v : Imports!String(v).t = "string" /\ Imports!String(v).v = v
  BY DEF Imports!Eof, Imports!Bad, Imports!Word, Imports!Punct, Imports!String

\* A string of a file can be reported.
LEMMA StringTokens ==
    ASSUME NEW tok \in Alphabet, tok.t = "string"
    PROVE  tok.v \in Sayable /\ tok = Imports!String(tok.v)
  <1>1. \E path \in Sayable : tok = Imports!String(path)
    <2>1. \A v : tok # Imports!Word(v) /\ tok # Imports!Punct(v)
      <3>1. "word" # "string" /\ "punct" # "string"
        OBVIOUS
      <3>. QED
        BY <3>1, KindsDiffer, Zenon
    <2>2. tok # Imports!Bad
      <3>1. "bad" # "string"
        OBVIOUS
      <3>. QED
        BY <3>1, KindsDiffer, Zenon
    <2>. QED
      BY <2>1, <2>2, Zenon DEF Alphabet, Imports!Tokens, Sayable
  <1>. QED
    BY <1>1, KindsDiffer, Zenon

\* The token the reader is at.
LEMMA TokenIs ==
    ASSUME Imports!TypeOK, at # "returned"
    PROVE  /\ Len(source) \in Nat /\ pos \in 1 .. Len(source) + 1 /\ source \in Seq(Alphabet)
           /\ pos = Len(source) + 1 => Imports!Token = Imports!Eof
           /\ pos # Len(source) + 1 =>
                 /\ pos \in 1 .. Len(source) /\ Imports!Token = source[pos]
                 /\ Imports!Token \in Alphabet
  <1>1. source \in Seq(Alphabet) /\ Len(source) \in Nat
    <2>1. source \in Seq(Alphabet)
      BY Zenon DEF Imports!TypeOK, Alphabet
    <2>. QED
      BY <2>1
  <1>2. pos \in 1 .. Len(source) + 1
    BY Zenon DEF Imports!TypeOK
  <1>3. ASSUME pos = Len(source) + 1
        PROVE  Imports!Token = Imports!Eof
    <2>1. ~ (pos <= Len(source))
      BY <1>1, <1>3
    <2>. QED
      BY <2>1, Zenon DEF Imports!Token
  <1>4. ASSUME pos # Len(source) + 1
        PROVE  /\ pos \in 1 .. Len(source) /\ Imports!Token = source[pos]
               /\ Imports!Token \in Alphabet
    <2>1. pos \in 1 .. Len(source) /\ pos <= Len(source)
      BY <1>1, <1>2, <1>4
    <2>2. Imports!Token = source[pos]
      BY <2>1, Zenon DEF Imports!Token
    <2>3. source[pos] \in Alphabet
      BY <1>1, <2>1
    <2>. QED
      BY <2>1, <2>2, <2>3, Zenon
  <1>. QED
    BY <1>1, <1>2, <1>3, <1>4, Zenon

\* A step that takes a token.
Took(place, next, g, said) ==
    /\ at = place /\ at' = next /\ pos' = pos + 1 /\ group' = g /\ out' = said
    /\ decls' = decls /\ damaged' = damaged /\ source' = source

\* What each step of the reader takes, and what it makes of it.
LEMMA TakenBy ==
    ASSUME Imports!Reads, Imports!TypeOK
    PROVE  \/ Imports!Token = Imports!Word("package") /\ Took("clause", "name", group, out)
           \/ Imports!Token.t = "word" /\ Took("name", "top", group, out)
           \/ Imports!Token = Imports!Punct(";") /\ Took("top", "top", group, out)
           \/ Imports!Token = Imports!Punct(";") /\ Took("spec", "spec", group, out)
           \/ Imports!Token = Imports!Word("import") /\ Took("top", "import", group, out)
           \/ Imports!Token = Imports!Punct("(") /\ Took("import", "spec", TRUE, out)
           \/ Imports!IsAlias(Imports!Token) /\ Took("spec", "path", group, out)
           \/ Imports!IsAlias(Imports!Token) /\ Took("import", "path", group, out)
           \/ /\ Imports!Token.t = "string"
              /\ Took(at, IF group THEN "spec" ELSE "top", group, Append(out, Imports!Token.v))
              /\ at \in {"spec", "import", "path"}
           \/ Imports!Token = Imports!Punct(")") /\ Took("spec", "top", FALSE, out)
           \/ /\ Imports!Token # Imports!Word("import")
              /\ Took("top", "returned", group, out)
  <1>1. CASE Imports!Clause
    BY <1>1, Zenon DEF Imports!Clause, Imports!Takes, Took
  <1>2. CASE Imports!Name
    BY <1>2, Zenon DEF Imports!Name, Imports!Takes, Took
  <1>3. CASE Imports!Separator
    BY <1>3, Zenon DEF Imports!Separator, Imports!Takes, Took
  <1>4. CASE Imports!Import
    BY <1>4, Zenon DEF Imports!Import, Imports!Takes, Took
  <1>5. CASE Imports!OpenGroup
    BY <1>5, Zenon DEF Imports!OpenGroup, Imports!Takes, Took
  <1>6. CASE Imports!Alias
    BY <1>6, Zenon DEF Imports!Alias, Imports!Takes, Took
  <1>7. CASE Imports!Path
    <2>1. PICK place \in {IF group THEN "spec" ELSE "import", "path"} :
             Imports!Takes(place, IF group THEN "spec" ELSE "top")
      BY <1>7, Zenon DEF Imports!Path
    <2>2. at = place /\ place \in {"spec", "import", "path"}
      BY <2>1, Zenon DEF Imports!Takes
    <2>3. /\ Imports!Token.t = "string" /\ group' = group /\ out' = Append(out, Imports!Token.v)
      BY <1>7, Zenon DEF Imports!Path
    <2>. QED
      BY <2>1, <2>2, <2>3, Zenon DEF Imports!Takes, Took
  <1>8. CASE Imports!CloseGroup
    BY <1>8, Zenon DEF Imports!CloseGroup, Imports!Takes, Took
  <1>9. CASE Imports!Return
    <2>1. Imports!Token # Imports!Word("import")
      BY <1>9, Zenon DEF Imports!Return
    <2>2. Took("top", "returned", group, out)
      BY <1>9, Zenon DEF Imports!Return, Imports!Takes, Took
    <2>. QED
      BY <2>1, <2>2, Zenon
  <1>. QED
    BY <1>1, <1>2, <1>3, <1>4, <1>5, <1>6, <1>7, <1>8, <1>9, Zenon DEF Imports!Reads

\* A token other than the end of the file is taken, unless the reader returns.
LEMMA TokenIsThere ==
    ASSUME Imports!Reads, Imports!TypeOK, at' # "returned"
    PROVE  /\ Len(source) \in Nat /\ pos \in 1 .. Len(source) /\ Imports!Token = source[pos]
           /\ Imports!Token \in Alphabet
  <1>1. Imports!Token # Imports!Eof
    <2>1. /\ "eof" # "word" /\ "eof" # "punct" /\ "eof" # "string"
      OBVIOUS
    <2>2. \A tok : Imports!IsAlias(tok) => tok.t \in {"word", "punct"}
      BY KindsDiffer, Zenon DEF Imports!IsAlias
    <2>3. Imports!Token.t \in {"word", "punct", "string"}
      BY <2>2, TakenBy, KindsDiffer, Zenon DEF Took
    <2>. QED
      BY <2>1, <2>3, KindsDiffer, Zenon
  <1>2. at # "returned"
    BY TakenBy, Zenon DEF Took
  <1>. QED
    BY <1>1, <1>2, TokenIs, Zenon

\* The reader's variables keep their types.
LEMMA ImportsTyped ==
    ASSUME Imports!TypeOK, Imports!Next
    PROVE  Imports!TypeOK' /\ decls' = decls /\ damaged' = damaged /\ source' = source
  <1>1. CASE Imports!Refuse
    <2>1. /\ at # "returned" /\ at' = "unreadable" /\ decls' = decls /\ damaged' = damaged
          /\ source' = source /\ pos' = pos /\ group' = group /\ out' = out
      BY <1>1, Zenon DEF Imports!Refuse
    <2>2. at' \in Imports!Places /\ at' # "returned" /\ at' # "spec"
          /\ at' \notin {"clause", "name", "top", "import", "returned"}
      BY <2>1, Zenon DEF Imports!Places
    <2>3. pos' \in 1 .. Len(source') + (IF at' = "returned" THEN 2 ELSE 1)
      BY <2>1, <2>2, Zenon DEF Imports!TypeOK
    <2>. QED
      BY <2>1, <2>2, <2>3, Zenon DEF Imports!TypeOK
  <1>2. CASE Imports!Reads
    <2>1. decls' = decls /\ damaged' = damaged /\ source' = source /\ pos' = pos + 1
          /\ at # "returned"
      BY <1>2, TakenBy, Zenon DEF Took
    <2>2. at' \in Imports!Places
      BY <1>2, TakenBy, Zenon DEF Took, Imports!Places
    <2>3. /\ group' \in BOOLEAN /\ (at' = "spec" => group')
          /\ at' \in {"clause", "name", "top", "import", "returned"} => ~ group'
      <3>1. group' = group \/ group' = TRUE \/ group' = FALSE
        BY <1>2, TakenBy, Zenon DEF Took
      <3>2. at' = "spec" => group'
        <4>1. /\ "spec" # "name" /\ "spec" # "top" /\ "spec" # "import" /\ "spec" # "path"
              /\ "spec" # "returned"
          OBVIOUS
        <4>2. (IF group THEN "spec" ELSE "top") = "spec" => group
          BY <4>1, Zenon
        <4>3. at' = "spec" => group' = TRUE \/ (group' = group /\ (at = "spec" \/ group))
          BY <1>2, <4>1, <4>2, TakenBy, Zenon DEF Took
        <4>4. at = "spec" => group
          BY Zenon DEF Imports!TypeOK
        <4>5. CASE group' = TRUE
          BY <4>5, Zenon
        <4>6. CASE group' = group /\ group
          BY <4>6, Zenon
        <4>. QED
          BY <4>3, <4>4, <4>5, <4>6
      <3>3. at' \in {"clause", "name", "top", "import", "returned"} => ~ group'
        BY <1>2, TakenBy, GroupAt, Zenon DEF Took
      <3>. QED
        BY <3>1, <3>2, <3>3, GroupAt, Zenon
    <2>4. out' \in Seq(Sayable)
      <3>1. out \in Seq(Sayable)
        BY Zenon DEF Imports!TypeOK, Sayable
      <3>2. CASE out' = out
        BY <3>1, <3>2
      <3>3. CASE Imports!Token.t = "string" /\ out' = Append(out, Imports!Token.v) /\ at' # "returned"
        <4>1. Imports!Token.v \in Sayable
          BY <1>2, <3>3, TokenIsThere, StringTokens, Zenon
        <4>. QED
          BY <3>1, <3>3, <4>1
      <3>. QED
        BY <1>2, <3>2, <3>3, TakenBy, Zenon DEF Took
    <2>5. /\ pos' \in 1 .. Len(source') + (IF at' = "returned" THEN 2 ELSE 1)
          /\ at' = "returned" => pos' # 1
      <3>1. Len(source) \in Nat /\ pos \in 1 .. Len(source) + 1
        BY <2>1, TokenIs, Zenon
      <3>2. CASE at' = "returned"
        <4>1. pos + 1 \in 1 .. Len(source) + 2 /\ pos + 1 # 1
          BY <3>1
        <4>. QED
          BY <2>1, <3>2, <4>1, Zenon
      <3>3. CASE at' # "returned"
        <4>1. pos \in 1 .. Len(source)
          BY <1>2, <3>3, TokenIsThere, Zenon
        <4>2. pos + 1 \in 1 .. Len(source) + 1
          BY <3>1, <4>1
        <4>. QED
          BY <2>1, <3>3, <4>2, Zenon
      <3>. QED
        BY <3>2, <3>3
    <2>. QED
      BY <2>1, <2>2, <2>3, <2>4, <2>5, Zenon DEF Imports!TypeOK, Sayable
  <1>. QED
    BY <1>1, <1>2 DEF Imports!Next

\* GoImports counts as the module of its instance does.
LEMMA ImportsCounts ==
    \A S : Imports!Cardinality(S) = Cardinality(S)
  BY DEF Cardinality, Imports!Cardinality

\* One more of the numbers up to n has a property, or none.
LEMMA OneMoreOf ==
    ASSUME NEW n \in Nat, NEW A \in SUBSET (1 .. n), NEW B, NEW k, k = n + 1,
           B = A \/ B = A \cup {k}
    PROVE  /\ IsFiniteSet(A) /\ Cardinality(A) \in Nat
           /\ B = A => Cardinality(B) = Cardinality(A)
           /\ B = A \cup {k} => Cardinality(B) = Cardinality(A) + 1
  <1>1. IsFiniteSet(A) /\ Cardinality(A) \in Nat
    <2>1. IsFiniteSet(1 .. n)
      <3>1. 1 \in Int /\ n \in Int
        OBVIOUS
      <3>. QED
        BY <3>1, FS_Interval
    <2>2. IsFiniteSet(A)
      BY <2>1, FS_Subset, Zenon
    <2>. QED
      BY <2>2, FS_CardinalityType
  <1>2. k \notin A
    OBVIOUS
  <1>. QED
    BY <1>1, <1>2, FS_AddElement

\* The places of a token among one more.
LEMMA PlacesGrow ==
    ASSUME NEW tok, NEW text, NEW n \in Nat, NEW m, m = n + 1
    PROVE  /\ Imports!Cardinality(Imports!PlacesOf(tok, text, n)) \in Nat
           /\ Imports!Cardinality(Imports!PlacesOf(tok, text, m)) =
                 Imports!Cardinality(Imports!PlacesOf(tok, text, n))
                 + (IF text[m] = tok THEN 1 ELSE 0)
  <1>1. PICK A, B : A = Imports!PlacesOf(tok, text, n) /\ B = Imports!PlacesOf(tok, text, m)
    OBVIOUS
  <1>2. A = {k \in 1 .. n : text[k] = tok} /\ B = {k \in 1 .. m : text[k] = tok}
    BY <1>1, Zenon DEF Imports!PlacesOf
  <1>3. A \in SUBSET (1 .. n)
    BY <1>2
  <1>4. /\ text[m] = tok => B = A \cup {m}
        /\ text[m] # tok => B = A
    BY <1>2
  <1>5. CASE text[m] = tok
    <2>1. B = A \cup {m}
      BY <1>4, <1>5
    <2>2. Cardinality(A) \in Nat /\ Cardinality(B) = Cardinality(A) + 1
      BY <1>3, <2>1, OneMoreOf
    <2>3. Imports!Cardinality(A) = Cardinality(A) /\ Imports!Cardinality(B) = Cardinality(B)
      BY ImportsCounts, Zenon
    <2>. QED
      BY <1>1, <1>5, <2>2, <2>3, Zenon
  <1>6. CASE text[m] # tok
    <2>1. B = A
      BY <1>4, <1>6
    <2>2. Cardinality(A) \in Nat
      BY <1>3, <2>1, OneMoreOf
    <2>3. Imports!Cardinality(A) = Cardinality(A)
      BY ImportsCounts, Zenon
    <2>4. Cardinality(A) + 0 = Cardinality(A)
      BY <2>2
    <2>. QED
      BY <1>1, <1>6, <2>1, <2>2, <2>3, <2>4, Zenon
  <1>. QED
    BY <1>5, <1>6

\* The strings among one more, and where each comes among them.
LEMMA StringsGrow ==
    ASSUME NEW text, NEW n \in Nat, NEW m, m = n + 1
    PROVE  /\ Imports!Cardinality(Imports!StringsOf(text, n)) \in Nat
           /\ Imports!Cardinality(Imports!StringsOf(text, m)) =
                 Imports!Cardinality(Imports!StringsOf(text, n))
                 + (IF text[m].t = "string" THEN 1 ELSE 0)
           /\ text[m].t = "string" =>
                 Imports!StringsOf(text, m) = Imports!StringsOf(text, n) \cup {m}
           /\ text[m].t # "string" => Imports!StringsOf(text, m) = Imports!StringsOf(text, n)
           /\ \A k \in Imports!StringsOf(text, n) :
                 Imports!Cardinality(Imports!StringsOf(text, k))
                    \in 1 .. Imports!Cardinality(Imports!StringsOf(text, n))
  <1>1. PICK A, B : A = Imports!StringsOf(text, n) /\ B = Imports!StringsOf(text, m)
    OBVIOUS
  <1>. DEFINE P(k) == text[k].t = "string"
  <1>2. A = {k \in 1 .. n : P(k)} /\ B = {k \in 1 .. m : P(k)}
    BY <1>1, Zenon DEF Imports!StringsOf
  <1>3. P(m) <=> text[m].t = "string"
    OBVIOUS
  <1>4. \A k : Imports!StringsOf(text, k) = {j \in 1 .. k : P(j)}
    BY Zenon DEF Imports!StringsOf
  <1>. HIDE DEF P
  <1>5. A \in SUBSET (1 .. n)
    BY <1>2
  <1>6. /\ P(m) => B = A \cup {m}
        /\ ~ P(m) => B = A
    BY <1>2
  <1>7. \A S : Imports!Cardinality(S) = Cardinality(S)
    BY ImportsCounts, Zenon
  <1>8. IsFiniteSet(A) /\ Cardinality(A) \in Nat
    BY <1>5, OneMoreOf
  <1>9. ASSUME NEW k \in A
        PROVE  Cardinality(Imports!StringsOf(text, k)) \in 1 .. Cardinality(A)
    <2>1. PICK C : C = Imports!StringsOf(text, k)
      OBVIOUS
    <2>2. C = {j \in 1 .. k : P(j)} /\ k \in 1 .. n /\ P(k)
      BY <1>2, <1>4, <2>1
    <2>3. C \subseteq A /\ k \in C
      BY <1>2, <2>2
    <2>4. Cardinality(C) <= Cardinality(A) /\ Cardinality(C) \in Nat /\ IsFiniteSet(C)
      BY <1>8, <2>3, FS_Subset, FS_CardinalityType
    <2>5. Cardinality(C) # 0
      BY <2>3, <2>4, FS_EmptySet
    <2>. QED
      BY <1>8, <2>1, <2>4, <2>5
  <1>10. CASE P(m)
    <2>1. B = A \cup {m}
      BY <1>6, <1>10
    <2>2. Cardinality(B) = Cardinality(A) + 1
      BY <1>5, <2>1, OneMoreOf
    <2>. QED
      BY <1>1, <1>3, <1>7, <1>8, <1>9, <1>10, <2>1, <2>2, Zenon
  <1>11. CASE ~ P(m)
    <2>1. B = A
      BY <1>6, <1>11
    <2>2. Cardinality(A) + 0 = Cardinality(A)
      BY <1>8
    <2>. QED
      BY <1>1, <1>3, <1>7, <1>8, <1>9, <1>11, <2>1, <2>2, Zenon
  <1>. QED
    BY <1>10, <1>11

\* What was reported stays so over a token that is no string, and over a
\* string that is reported.
LEMMA ReportedGrows ==
    ASSUME NEW said \in Seq(Sayable), NEW text, NEW n \in Nat, NEW m, m = n + 1,
           Imports!AllReported(said, text, n), text[m] \in Alphabet
    PROVE  /\ text[m].t # "string" => Imports!AllReported(said, text, m)
           /\ text[m].t = "string" => Imports!AllReported(Append(said, text[m].v), text, m)
  <1>. DEFINE C(k) == Imports!Cardinality(Imports!StringsOf(text, k))
              D(k) == Imports!StringsOf(text, k)
  <1>1. Len(said) = C(n) /\ \A k \in D(n) : text[k] = Imports!String(said[C(k)])
    BY Zenon DEF Imports!AllReported
  <1>2. /\ C(n) \in Nat /\ C(m) = C(n) + (IF text[m].t = "string" THEN 1 ELSE 0)
        /\ text[m].t = "string" => D(m) = D(n) \cup {m}
        /\ text[m].t # "string" => D(m) = D(n)
        /\ \A k \in D(n) : C(k) \in 1 .. C(n)
    BY StringsGrow
  <1>3. \A s : Len(s) = C(m) /\ (\A k \in D(m) : text[k] = Imports!String(s[C(k)]))
                  => Imports!AllReported(s, text, m)
    BY Zenon DEF Imports!AllReported
  <1>. HIDE DEF C, D
  <1>4. ASSUME text[m].t # "string"
        PROVE  Imports!AllReported(said, text, m)
    <2>1. C(m) = C(n) + 0 /\ D(m) = D(n)
      BY <1>2, <1>4, Zenon
    <2>2. C(m) = C(n)
      BY <1>2, <2>1
    <2>. QED
      BY <1>1, <1>3, <2>1, <2>2, Zenon
  <1>5. ASSUME text[m].t = "string"
        PROVE  Imports!AllReported(Append(said, text[m].v), text, m)
    <2>1. PICK v, t : v = text[m].v /\ t = Append(said, v)
      BY Zenon
    <2>2. v \in Sayable /\ text[m] = Imports!String(v)
      BY <1>5, <2>1, StringTokens, Zenon
    <2>3. C(m) = C(n) + 1 /\ D(m) = D(n) \cup {m}
      BY <1>2, <1>5, Zenon
    <2>4. /\ Len(t) = Len(said) + 1 /\ t[Len(said) + 1] = v
          /\ \A q \in 1 .. Len(said) : t[q] = said[q]
      BY <2>1, <2>2, AppendProperties
    <2>5. Len(t) = C(m) /\ t[C(m)] = v
      BY <1>1, <2>3, <2>4, Zenon
    <2>6. \A k \in D(n) : t[C(k)] = said[C(k)]
      BY <1>1, <1>2, <2>4, Zenon
    <2>7. \A k \in D(m) : text[k] = Imports!String(t[C(k)])
      BY <1>1, <2>2, <2>3, <2>5, <2>6, Zenon
    <2>. QED
      BY <1>3, <2>1, <2>5, <2>7, Zenon
  <1>. QED
    BY <1>4, <1>5

\* What a token that is taken does to the group and the report.
LEMMA TookGroups ==
    ASSUME Imports!Reads, Imports!TypeOK, at' # "returned"
    PROVE  /\ Imports!Token.t = "string" => out' = Append(out, Imports!Token.v)
           /\ Imports!Token.t # "string" => out' = out
           /\ \/ Imports!Token = Imports!Punct("(") /\ group = FALSE /\ group' = TRUE
              \/ Imports!Token = Imports!Punct(")") /\ group = TRUE /\ group' = FALSE
              \/ /\ Imports!Token \notin {Imports!Punct("("), Imports!Punct(")")}
                 /\ group' = group
  <1>1. PICK tok : tok = Imports!Token
    OBVIOUS
  <1>2. /\ Imports!Punct("(") # Imports!Punct(")")
        /\ \A v : Imports!Word(v) \notin {Imports!Punct("("), Imports!Punct(")")}
    <2>1. "word" # "punct"
      OBVIOUS
    <2>. QED
      BY <2>1, TokensDiffer, KindsDiffer, Zenon
  <1>3. /\ Imports!Punct(";") \notin {Imports!Punct("("), Imports!Punct(")")}
    BY Zenon DEF Imports!Punct
  <1>4. /\ \A t : t.t = "word" => t.t # "string" /\ t \notin {Imports!Punct("("), Imports!Punct(")")}
        /\ \A t : t.t = "string" => t \notin {Imports!Punct("("), Imports!Punct(")")}
        /\ \A t : Imports!IsAlias(t) =>
                     t.t # "string" /\ t \notin {Imports!Punct("("), Imports!Punct(")")}
        /\ \A v : Imports!Punct(v).t # "string" /\ Imports!Word(v).t # "string"
    <2>1. "word" # "punct" /\ "string" # "punct" /\ "word" # "string"
      OBVIOUS
    <2>2. Imports!Punct(".") \notin {Imports!Punct("("), Imports!Punct(")")}
      BY DEF Imports!Punct
    <2>. QED
      BY <2>1, <2>2, KindsDiffer, Zenon DEF Imports!IsAlias
  <1>5. /\ tok.t = "string" => out' = Append(out, tok.v)
        /\ tok.t # "string" => out' = out
    BY <1>1, <1>4, TakenBy, Zenon DEF Took
  <1>6. \/ tok = Imports!Punct("(") /\ group = FALSE /\ group' = TRUE
        \/ tok = Imports!Punct(")") /\ group = TRUE /\ group' = FALSE
        \/ tok \notin {Imports!Punct("("), Imports!Punct(")")} /\ group' = group
    <2>1. \/ tok = Imports!Punct("(") /\ Took("import", "spec", TRUE, out)
          \/ tok = Imports!Punct(")") /\ Took("spec", "top", FALSE, out)
          \/ tok \notin {Imports!Punct("("), Imports!Punct(")")} /\ group' = group
      BY <1>1, <1>2, <1>3, <1>4, TakenBy, Zenon DEF Took
    <2>. QED
      BY <2>1, GroupAt, Zenon DEF Took
  <1>. QED
    BY <1>1, <1>5, <1>6, Zenon

\* A reader counts its groups, and reports what it reads, at each step.
LEMMA ReadSoFarKept ==
    ASSUME Imports!TypeOK, Imports!ReadSoFar, Imports!Next
    PROVE  Imports!ReadSoFar'
  <1>. DEFINE O(n) == Imports!Cardinality(Imports!PlacesOf(Imports!Punct("("), source, n))
              C(n) == Imports!Cardinality(Imports!PlacesOf(Imports!Punct(")"), source, n))
              A(s, n) == Imports!AllReported(s, source, n)
              n0 == Imports!Taken
  <1>1. /\ O(n0) = C(n0) + (IF group THEN 1 ELSE 0)
        /\ A(out, n0)
    BY Zenon DEF Imports!ReadSoFar
  <1>2. source' = source /\ at # "returned"
    <2>1. at # "returned"
      <3>1. CASE Imports!Refuse
        BY <3>1, Zenon DEF Imports!Refuse
      <3>2. CASE Imports!Reads
        BY <3>2, TakenBy, Zenon DEF Took
      <3>. QED
        BY <3>1, <3>2 DEF Imports!Next
    <2>. QED
      BY <2>1, ImportsTyped, Zenon
  <1>3. Len(source) \in Nat /\ pos \in 1 .. Len(source) + 1
    BY <1>2, TokenIs, Zenon
  <1>4. n0 = pos - 1
    BY <1>2, Zenon DEF Imports!Taken
  <1>5. n0 \in Nat /\ pos = n0 + 1 /\ pos \in Nat /\ (pos + 1) - 2 = n0 /\ (pos + 1) - 1 = pos
    <2>. HIDE DEF n0
    <2>. QED
      BY <1>3, <1>4
  <1>6. \A n : /\ O(n) = C(n) + (IF group' THEN 1 ELSE 0)
               /\ A(out', n)
               /\ n = Imports!Taken'
               /\ at' = "returned" /\ pos' - 1 \in DOMAIN source => source[pos' - 1] # Imports!Word("import")
               => Imports!ReadSoFar'
    BY <1>2, Zenon DEF Imports!ReadSoFar
  <1>. HIDE DEF O, C, A, n0
  <1>7. CASE Imports!Refuse
    <2>1. at' = "unreadable" /\ pos' = pos /\ group' = group /\ out' = out /\ "unreadable" # "returned"
      BY <1>7, Zenon DEF Imports!Refuse
    <2>2. n0 = Imports!Taken'
      BY <1>4, <2>1, Zenon DEF Imports!Taken
    <2>. QED
      BY <1>1, <1>6, <2>1, <2>2, Zenon
  <1>8. CASE Imports!Reads /\ at' = "returned"
    <2>1. /\ pos' = pos + 1 /\ group' = group /\ out' = out
          /\ Imports!Token # Imports!Word("import")
      <3>1. /\ "returned" # "name" /\ "returned" # "top" /\ "returned" # "spec"
            /\ "returned" # "import" /\ "returned" # "path"
        OBVIOUS
      <3>. QED
        BY <1>8, <3>1, TakenBy, Zenon DEF Took
    <2>2. n0 = Imports!Taken'
      <3>1. Imports!Taken' = pos' - 2
        BY <1>8, Zenon DEF Imports!Taken
      <3>. QED
        BY <1>5, <2>1, <3>1, Zenon
    <2>3. pos \in DOMAIN source => source[pos] # Imports!Word("import")
      <3>1. pos \in DOMAIN source => pos <= Len(source)
        <4>1. source \in Seq(Alphabet)
          BY <1>2, TokenIs, Zenon
        <4>. QED
          BY <1>3, <4>1
      <3>2. pos \in DOMAIN source => Imports!Token = source[pos]
        BY <3>1, Zenon DEF Imports!Token
      <3>. QED
        BY <2>1, <3>2, Zenon
    <2>4. pos' - 1 \in DOMAIN source => source[pos' - 1] # Imports!Word("import")
      BY <1>5, <2>1, <2>3, Zenon
    <2>. QED
      BY <1>1, <1>6, <2>1, <2>2, <2>4, Zenon
  <1>9. CASE Imports!Reads /\ at' # "returned"
    <2>1. PICK tok, k : tok = Imports!Token /\ k = pos
      OBVIOUS
    <2>2. tok = source[k] /\ tok \in Alphabet
      BY <1>9, <2>1, TokenIsThere, Zenon
    <2>3. pos' = pos + 1
      BY <1>9, TakenBy, Zenon DEF Took
    <2>4. k = Imports!Taken' /\ k = n0 + 1 /\ n0 \in Nat
      <3>1. Imports!Taken' = pos' - 1
        BY <1>9, Zenon DEF Imports!Taken
      <3>. QED
        BY <1>5, <2>1, <2>3, <3>1, Zenon
    <2>5. A(out', k)
      <3>1. out \in Seq(Sayable)
        BY Zenon DEF Imports!TypeOK, Sayable
      <3>2. /\ tok.t # "string" => A(out, k)
            /\ tok.t = "string" => A(Append(out, tok.v), k)
        BY <1>1, <2>2, <2>4, <3>1, ReportedGrows DEF A
      <3>. QED
        BY <1>9, <2>1, <3>2, TookGroups, Zenon
    <2>6. /\ O(n0) \in Nat /\ O(k) = O(n0) + (IF tok = Imports!Punct("(") THEN 1 ELSE 0)
          /\ C(n0) \in Nat /\ C(k) = C(n0) + (IF tok = Imports!Punct(")") THEN 1 ELSE 0)
      <3>1. PICK open, close, text, n :
               /\ open = Imports!Punct("(") /\ close = Imports!Punct(")")
               /\ text = source /\ n = n0
        OBVIOUS
      <3>2. n \in Nat /\ k = n + 1 /\ text[k] = tok
        BY <2>2, <2>4, <3>1, Zenon
      <3>3. \A t : /\ Imports!Cardinality(Imports!PlacesOf(t, text, n)) \in Nat
                   /\ Imports!Cardinality(Imports!PlacesOf(t, text, k)) =
                         Imports!Cardinality(Imports!PlacesOf(t, text, n))
                         + (IF text[k] = t THEN 1 ELSE 0)
        BY <3>2, PlacesGrow
      <3>. QED
        BY <3>1, <3>2, <3>3, Zenon DEF O, C
    <2>7. O(k) = C(k) + (IF group' THEN 1 ELSE 0)
      <3>1. PICK o, c, ok, ck : o = O(n0) /\ c = C(n0) /\ ok = O(k) /\ ck = C(k)
        OBVIOUS
      <3>2. o \in Nat /\ c \in Nat /\ o = c + (IF group THEN 1 ELSE 0)
        BY <1>1, <2>6, <3>1, Zenon
      <3>3. CASE tok = Imports!Punct("(") /\ group = FALSE /\ group' = TRUE
        <4>1. Imports!Punct("(") # Imports!Punct(")")
          BY TokensDiffer, Zenon
        <4>2. ok = o + 1 /\ ck = c + 0 /\ o = c + 0
          BY <2>6, <3>1, <3>2, <3>3, <4>1, Zenon
        <4>3. ok = ck + 1
          BY <3>2, <4>2
        <4>. QED
          BY <3>1, <3>3, <4>3, Zenon
      <3>4. CASE tok = Imports!Punct(")") /\ group = TRUE /\ group' = FALSE
        <4>1. Imports!Punct("(") # Imports!Punct(")")
          BY TokensDiffer, Zenon
        <4>2. ok = o + 0 /\ ck = c + 1 /\ o = c + 1
          BY <2>6, <3>1, <3>2, <3>4, <4>1, Zenon
        <4>3. ok = ck + 0
          BY <3>2, <4>2
        <4>. QED
          BY <3>1, <3>4, <4>3, Zenon
      <3>5. CASE tok \notin {Imports!Punct("("), Imports!Punct(")")} /\ group' = group
        <4>1. ok = o + 0 /\ ck = c + 0
          BY <2>6, <3>1, <3>5, Zenon
        <4>2. ok = o /\ ck = c
          BY <3>2, <4>1
        <4>. QED
          BY <3>1, <3>2, <3>5, <4>2, Zenon
      <3>. QED
        BY <1>9, <2>1, <3>3, <3>4, <3>5, TookGroups, Zenon
    <2>. QED
      BY <1>6, <1>9, <2>4, <2>5, <2>7, Zenon
  <1>. QED
    BY <1>7, <1>8, <1>9 DEF Imports!Next

\* What is left of a whole file goes as its grammar says at each step.
LEMMA WholeSoFarKept ==
    ASSUME Imports!TypeOK, Imports!WholeSoFar, Imports!Next
    PROVE  Imports!WholeSoFar'
  <1>1. decls' = decls /\ damaged' = damaged /\ source' = source
    BY ImportsTyped, Zenon
  <1>. SUFFICES ASSUME ~ damaged
                PROVE  \E semicolons \in BOOLEAN, rest \in Imports!Rests :
                          Imports!IsLeft([decls |-> decls, semicolons |-> semicolons, rest |-> rest],
                                         at', group', SubSeq(source, pos', Len(source)), out')
    BY <1>1, Zenon DEF Imports!WholeSoFar
  <1>2. PICK semicolons \in BOOLEAN, rest \in Imports!Rests :
           Imports!IsLeft([decls |-> decls, semicolons |-> semicolons, rest |-> rest],
                          at, group, SubSeq(source, pos, Len(source)), out)
    BY Zenon DEF Imports!WholeSoFar
  <1>3. PICK f : f = [decls |-> decls, semicolons |-> semicolons, rest |-> rest]
    BY Zenon
  <1>4. IsFile(f)
    <2>1. f.decls = decls /\ f.semicolons = semicolons /\ f.rest = rest
      BY <1>3
    <2>2. decls \in Seq(Imports!Decls)
      BY Zenon DEF Imports!TypeOK
    <2>. QED
      BY <2>1, <2>2, Zenon DEF IsFile
  <1>5. PICK left : left = SubSeq(source, pos, Len(source))
    BY Zenon
  <1>6. Imports!IsLeft(f, at, group, left, out)
    BY <1>2, <1>3, <1>5, Zenon
  <1>7. at # "returned"
    <2>1. CASE Imports!Refuse
      BY <2>1, Zenon DEF Imports!Refuse
    <2>2. CASE Imports!Reads
      BY <2>2, TakenBy, Zenon DEF Took
    <2>. QED
      BY <2>1, <2>2 DEF Imports!Next
  <1>8. out \in Seq(Sayable) /\ source \in Seq(Alphabet) /\ pos \in 1 .. Len(source) + 1
    <2>1. out \in Seq(Sayable)
      BY Zenon DEF Imports!TypeOK, Sayable
    <2>. QED
      BY <1>7, <2>1, TokenIs, Zenon
  <1>9. GoesOn(f, at, group, left, out)
    BY <1>4, <1>6, <1>7, <1>8, WholeGoesOn, Zenon
  <1>10. Imports!IsLeft(f, at', group', SubSeq(source, pos', Len(source)), out')
    <2>1. CASE \E tok \in Alphabet : \E z \in Seq(Alphabet) :
                  left = <<tok>> \o z /\ Follows(f, at, group, tok, z, out)
      <3>1. PICK tok \in Alphabet, z \in Seq(Alphabet) :
               left = <<tok>> \o z /\ Follows(f, at, group, tok, z, out)
        BY <2>1, Zenon
      <3>2. pos \in 1 .. Len(source) /\ source[pos] = tok /\ SubSeq(source, pos + 1, Len(source)) = z
        <4>1. PICK s, p : s = source /\ p = pos
          OBVIOUS
        <4>2. s \in Seq(Alphabet) /\ p \in 1 .. Len(s) + 1 /\ SubSeq(s, p, Len(s)) = <<tok>> \o z
          BY <1>5, <1>8, <3>1, <4>1, Zenon
        <4>3. p \in 1 .. Len(s) /\ s[p] = tok /\ SubSeq(s, p + 1, Len(s)) = z
          BY <4>2, TakeOne, Zenon
        <4>. QED
          BY <4>1, <4>3, Zenon
      <3>3. Imports!Token = tok
        <4>1. pos <= Len(source)
          BY <3>2
        <4>. QED
          BY <3>2, <4>1, Zenon DEF Imports!Token
      <3>4. Follows(f, at, group, Imports!Token, z, out)
        BY <3>1, <3>3, Zenon
      <3>5. Imports!Reads
        <4>1. Imports!Understood
          BY <3>4, FollowsUnderstood, Zenon
        <4>. QED
          BY <4>1, Zenon DEF Imports!Next, Imports!Refuse
      <3>6. Imports!IsLeft(f, at', group', z, out') /\ pos' = pos + 1
        BY <3>4, <3>5, ReadsFollow, Zenon
      <3>. QED
        BY <3>2, <3>6, Zenon
    <2>2. CASE at = "top" /\ left = <<>> /\ Imports!IsLeft(f, "returned", group, left, out)
      <3>1. SubSeq(source, pos, Len(source)) = <<>>
        BY <1>5, <2>2, Zenon
      <3>2. pos = Len(source) + 1
        BY <1>8, <3>1, TakeNone
      <3>3. Imports!Token = Imports!Eof
        BY <1>7, <3>2, TokenIs, Zenon
      <3>4. /\ Imports!Token # Imports!Punct(";") /\ Imports!Token # Imports!Word("import")
            /\ Imports!Token.t # "bad"
        BY <3>3, TokensDiffer, Zenon
      <3>5. at' = "returned" /\ out' = out
        <4>1. Imports!Reads
          <5>1. Imports!Understood
            BY <2>2, <3>4, Zenon DEF Imports!Understood
          <5>. QED
            BY <5>1, Zenon DEF Imports!Next, Imports!Refuse
        <4>2. /\ "top" # "clause" /\ "top" # "name" /\ "top" # "spec" /\ "top" # "import"
              /\ "top" # "path"
          OBVIOUS
        <4>. QED
          BY <2>2, <3>4, <4>1, <4>2, TakenBy, Zenon DEF Took
      <3>6. out = Imports!PathsOf(f.decls)
        BY <2>2, Zenon DEF Imports!IsLeft
      <3>. QED
        BY <3>5, <3>6, Zenon DEF Imports!IsLeft
    <2>. QED
      BY <1>9, <2>1, <2>2, Zenon DEF GoesOn
  <1>. QED
    BY <1>3, <1>10, Zenon

\* A pair, from its parts.
LEMMA PairIs ==
    ASSUME NEW T, NEW a \in T, NEW b \in T
    PROVE  <<a, b>> = <<a>> \o <<b>>
  <1>1. PICK x, y, u, v : x = <<a>> /\ y = <<b>> /\ u = x \o y /\ v = <<a, b>>
    BY Zenon
  <1>2. x \in Seq(T) /\ y \in Seq(T) /\ Len(x) = 1 /\ Len(y) = 1 /\ x[1] = a /\ y[1] = b
    BY <1>1
  <1>3. v \in Seq(T) /\ Len(v) = 2 /\ v[1] = a /\ v[2] = b
    BY <1>1
  <1>4. /\ u \in Seq(T) /\ Len(u) = Len(x) + Len(y)
        /\ \A i \in 1 .. Len(x) + Len(y) : u[i] = IF i <= Len(x) THEN x[i] ELSE y[i - Len(x)]
    BY <1>1, <1>2, ConcatProperties
  <1>5. Len(u) = 2 /\ u[1] = a /\ u[2] = b
    BY <1>2, <1>4
  <1>6. u = v
    <2>1. Len(u) = Len(v) /\ \A i \in 1 .. Len(u) : u[i] = v[i]
      BY <1>3, <1>5
    <2>. QED
      BY <1>3, <1>4, <2>1, SeqEqual
  <1>. QED
    BY <1>1, <1>6, Zenon

\* A file as it was written, from its first token.
LEMMA FileIs ==
    ASSUME NEW f, IsFile(f), NEW text, text = Imports!FileTokens(f.decls, f.semicolons, f.rest)
    PROVE  /\ text \in Seq(Alphabet)
           /\ text = <<Imports!Word("package")>> \o (<<Imports!Word("name")>> \o Imports!DeclsLeft(f, 1))
  <1>1. PICK p, n, all, rest, m :
           /\ p = Imports!Word("package") /\ n = Imports!Word("name")
           /\ all = Imports!FlattenSeq(Imports!DeclsTokens(f.decls, f.semicolons))
           /\ rest = f.rest /\ m = Len(f.decls)
    BY Zenon
  <1>2. p \in Alphabet /\ n \in Alphabet /\ rest \in Seq(Alphabet)
    BY <1>1, Words, RestIs, Zenon
  <1>3. all \in Seq(Alphabet)
    <2>1. f.decls \in Seq(Imports!Decls) /\ f.semicolons \in BOOLEAN
      BY Zenon DEF IsFile
    <2>2. PICK ds, words : ds = f.decls /\ words = Imports!DeclsTokens(f.decls, f.semicolons)
      OBVIOUS
    <2>. DEFINE S == Seq(Alphabet)
                W(i) == Imports!DeclTokens(ds[i], f.semicolons)
    <2>3. words = [i \in DOMAIN ds |-> W(i)]
      BY <2>2, Zenon DEF Imports!DeclsTokens
    <2>4. \A i \in DOMAIN ds : W(i) \in S
      <3>1. \A i \in DOMAIN ds : ds[i] \in Imports!Decls
        BY <2>1, <2>2
      <3>. QED
        BY <2>1, <3>1, DeclTokensAre, Zenon DEF DeclWords
    <2>5. DOMAIN ds = 1 .. m /\ m \in Nat
      BY <1>1, <2>1, <2>2
    <2>6. words \in Seq(Seq(Alphabet))
      <3>. HIDE DEF S, W
      <3>1. words \in Seq(S)
        BY <2>3, <2>4, <2>5
      <3>. QED
        BY <3>1, Zenon DEF S
    <2>7. <<>> \in Seq(Alphabet)
      OBVIOUS
    <2>8. FlattenSeq(words) \in Seq(Alphabet)
      BY <2>6, <2>7, FlattenOneMore
    <2>. QED
      BY <1>1, <2>2, <2>8, ImportsFlattens, Zenon
  <1>4. PICK a, b, c, d : a = <<p>> /\ b = <<n>> /\ c = <<p, n>> /\ d = Imports!DeclsLeft(f, 1)
    BY Zenon
  <1>5. a \in Seq(Alphabet) /\ b \in Seq(Alphabet) /\ c = a \o b
    <2>1. \A t \in Alphabet : <<t>> \in Seq(Alphabet)
      OBVIOUS
    <2>2. <<p, n>> = <<p>> \o <<n>>
      BY <1>2, PairIs
    <2>. QED
      BY <1>2, <1>4, <2>1, <2>2, Zenon
  <1>6. text = (c \o all) \o rest
    BY <1>1, <1>4, Zenon DEF Imports!FileTokens
  <1>7. Grouped(Alphabet, a, b, all, rest)
    BY <1>2, <1>3, <1>5, Regroup
  <1>8. text = a \o (b \o (all \o rest)) /\ b \o (all \o rest) \in Seq(Alphabet)
    BY <1>5, <1>6, <1>7, Zenon DEF Grouped
  <1>9. d = all \o rest
    BY <1>1, <1>4, DeclsLeftAre, Zenon
  <1>10. a \o (b \o d) \in Seq(Alphabet)
    <2>1. PICK u : u = b \o d
      BY Zenon
    <2>2. u \in Seq(Alphabet)
      BY <1>8, <1>9, <2>1, Zenon
    <2>3. a \o u \in Seq(Alphabet)
      BY <1>5, <2>2, ConcatProperties
    <2>. QED
      BY <2>1, <2>3, Zenon
  <1>. QED
    BY <1>1, <1>4, <1>8, <1>9, <1>10, Zenon

\* A damaged file is of the same tokens.
LEMMA DamagedIs ==
    ASSUME NEW text \in Seq(Alphabet), NEW other \in Imports!Damage(text)
    PROVE  other \in Seq(Alphabet)
  <1>0. Imports!Slips \subseteq Alphabet
    BY Words, Zenon DEF Imports!Slips
  <1>3. other \in UNION {{Imports!RemoveAt(text, k)}
                           \cup {[text EXCEPT ![k] = tok] : tok \in Imports!Slips} : k \in DOMAIN text}
    BY Zenon DEF Imports!Damage
  <1>1. CASE \E k \in DOMAIN text : other = Imports!RemoveAt(text, k)
    <2>1. PICK k \in DOMAIN text : other = Imports!RemoveAt(text, k)
      BY <1>1
    <2>2. PICK x, y : x = SubSeq(text, 1, k - 1) /\ y = SubSeq(text, k + 1, Len(text))
      BY Zenon
    <2>3. other = x \o y
      BY <2>1, <2>2, Zenon DEF Imports!RemoveAt
    <2>4. x \in Seq(Alphabet) /\ y \in Seq(Alphabet)
      <3>1. /\ k - 1 \in Int /\ k + 1 \in Int /\ 1 \in Int /\ Len(text) \in Int
            /\ \A i \in 1 .. k - 1 : text[i] \in Alphabet
            /\ \A i \in k + 1 .. Len(text) : text[i] \in Alphabet
        BY <2>1
      <3>. QED
        BY <2>2, <3>1, SubSeqProperties
    <2>. QED
      BY <2>3, <2>4, ConcatProperties
  <1>2. CASE \E k \in DOMAIN text :
                \E tok \in Imports!Slips : other = [text EXCEPT ![k] = tok]
    <2>1. PICK k \in DOMAIN text, tok \in Imports!Slips :
             other = [text EXCEPT ![k] = tok]
      BY <1>2, Zenon
    <2>2. tok \in Alphabet
      BY <1>0
    <2>3. k \in 1 .. Len(text)
      OBVIOUS
    <2>. QED
      BY <2>1, <2>2, <2>3, ExceptSeq
  <1>. QED
    <2>1. \/ \E k \in DOMAIN text : other = Imports!RemoveAt(text, k)
          \/ \E k \in DOMAIN text : \E tok \in Imports!Slips : other = [text EXCEPT ![k] = tok]
      BY <1>3
    <2>. QED
      BY <1>1, <1>2, <2>1

\* A file begins whole or damaged, nothing of it read.
LEMMA ImportsBegins ==
    ASSUME Imports!Init
    PROVE  Imports!IInv
  <1>1. /\ decls \in Imports!SeqOf(Imports!Decls, MaxDecls)
        /\ pos = 1 /\ at = "clause" /\ group = FALSE /\ out = <<>>
    BY Zenon DEF Imports!Init
  <1>2. decls \in Seq(Imports!Decls)
    <2>1. PICK m \in 0 .. MaxDecls : decls \in [1 .. m -> Imports!Decls]
      BY <1>1 DEF Imports!SeqOf
    <2>2. m \in Nat
      BY ConstantsAreRight DEF Imports!BoundsAreNat
    <2>. QED
      BY <2>1, <2>2
  <1>3. PICK semicolons \in BOOLEAN, rest \in Imports!Rests :
           \/ damaged = FALSE /\ source = Imports!FileTokens(decls, semicolons, rest)
           \/ damaged = TRUE /\ source \in Imports!Damage(Imports!FileTokens(decls, semicolons, rest))
    BY Zenon DEF Imports!Init
  <1>4. PICK f, text :
           /\ f = [decls |-> decls, semicolons |-> semicolons, rest |-> rest]
           /\ text = Imports!FileTokens(decls, semicolons, rest)
    BY Zenon
  <1>5. f.decls = decls /\ f.semicolons = semicolons /\ f.rest = rest
    BY <1>4
  <1>6. IsFile(f) /\ text = Imports!FileTokens(f.decls, f.semicolons, f.rest)
    BY <1>2, <1>4, <1>5, Zenon DEF IsFile
  <1>7. /\ text \in Seq(Alphabet)
        /\ text = <<Imports!Word("package")>> \o (<<Imports!Word("name")>> \o Imports!DeclsLeft(f, 1))
    BY <1>6, FileIs, Zenon
  <1>8. source \in Seq(Alphabet) /\ damaged \in BOOLEAN
    BY <1>3, <1>4, <1>7, DamagedIs, Zenon
  <1>9. Len(source) \in Nat
    BY <1>8
  <1>10. Imports!TypeOK
    <2>1. /\ at \in Imports!Places /\ at # "returned" /\ at # "spec"
      BY <1>1 DEF Imports!Places
    <2>2. pos \in 1 .. Len(source) + (IF at = "returned" THEN 2 ELSE 1)
      BY <1>1, <1>9, <2>1
    <2>3. out \in Seq(Sayable)
      BY <1>1
    <2>. QED
      BY <1>1, <1>2, <1>8, <2>1, <2>2, <2>3, Zenon DEF Imports!TypeOK, Sayable, Alphabet
  <1>11. Imports!ReadSoFar
    <2>1. Imports!Taken = 0
      <3>1. at # "returned"
        BY <1>1
      <3>2. Imports!Taken = pos - 1
        BY <3>1, Zenon DEF Imports!Taken
      <3>. QED
        BY <1>1, <3>2
    <2>2. \A tok : Imports!PlacesOf(tok, source, 0) = {}
      BY DEF Imports!PlacesOf
    <2>3. Imports!StringsOf(source, 0) = {}
      BY DEF Imports!StringsOf
    <2>4. Imports!Cardinality({}) = 0
      BY ImportsCounts, FS_EmptySet
    <2>5. Len(out) = 0 /\ 0 = 0 + 0
      BY <1>1
    <2>6. Imports!AllReported(out, source, 0)
      BY <2>3, <2>4, <2>5, Zenon DEF Imports!AllReported
    <2>7. at # "returned"
      BY <1>1
    <2>. QED
      BY <1>1, <2>1, <2>2, <2>4, <2>5, <2>6, <2>7, Zenon DEF Imports!ReadSoFar
  <1>12. Imports!WholeSoFar
    <2>. SUFFICES ASSUME ~ damaged
                  PROVE  Imports!IsLeft(f, at, group, SubSeq(source, pos, Len(source)), out)
      BY <1>4, Zenon DEF Imports!WholeSoFar
    <2>1. source = text
      BY <1>3, <1>4, Zenon
    <2>2. SubSeq(source, 1, Len(source)) = source
      BY <1>8, SubSeqFull
    <2>. QED
      BY <1>1, <1>7, <2>1, <2>2, Zenon DEF Imports!IsLeft
  <1>. QED
    BY <1>10, <1>11, <1>12, Zenon DEF Imports!IInv

\* The reader of imports keeps its invariant while it runs.
LEMMA ImportsKeeps ==
    (reader = "imports" => Imports!IInv) /\ [ReadersNext]_readerVars
        => (reader' = "imports" => Imports!IInv')
  <1>. SUFFICES ASSUME reader = "imports" => Imports!IInv, [ReadersNext]_readerVars,
                       reader' = "imports"
                PROVE  Imports!IInv'
    OBVIOUS
  <1>1. reader' = reader
    BY Zenon DEF readerVars, ReadersNext, ReadsToml, ReadsCargo, ReadsNpm, ReadsHeader,
      ReadsImports, ReadsGo
  <1>2. reader = "imports" /\ Imports!TypeOK /\ Imports!ReadSoFar /\ Imports!WholeSoFar
    BY <1>1, Zenon DEF Imports!IInv
  <1>3. CASE importVars' = importVars
    <2>1. /\ decls' = decls /\ damaged' = damaged /\ source' = source /\ pos' = pos /\ at' = at
          /\ group' = group /\ out' = out
      BY <1>3, Zenon DEF importVars
    <2>2. Imports!Taken' = Imports!Taken
      BY <2>1, Zenon DEF Imports!Taken
    <2>3. Imports!TypeOK'
      BY <1>2, <2>1, Zenon DEF Imports!TypeOK
    <2>4. Imports!ReadSoFar'
      BY <1>2, <2>1, <2>2, Zenon DEF Imports!ReadSoFar
    <2>5. Imports!WholeSoFar'
      BY <1>2, <2>1, Zenon DEF Imports!WholeSoFar
    <2>. QED
      BY <2>3, <2>4, <2>5, Zenon DEF Imports!IInv
  <1>4. CASE ReadsImports
    <2>1. Imports!Next
      BY <1>4, Zenon DEF ReadsImports
    <2>. QED
      BY <1>2, <2>1, ImportsTyped, ReadSoFarKept, WholeSoFarKept, Zenon DEF Imports!IInv
  <1>5. ~ ReadsToml /\ ~ ReadsCargo /\ ~ ReadsNpm /\ ~ ReadsHeader /\ ~ ReadsGo
    <2>1. /\ "imports" # "toml" /\ "imports" # "cargo" /\ "imports" # "npm" /\ "imports" # "header"
          /\ "imports" # "go"
      OBVIOUS
    <2>. QED
      BY <1>2, <2>1, Zenon DEF ReadsToml, ReadsCargo, ReadsNpm, ReadsHeader, ReadsGo
  <1>. QED
    BY <1>3, <1>4, <1>5, Zenon DEF readerVars, ReadersNext

\* A file of Go is left out exactly when Go leaves it out; a whole one has
\* its imports read, all and in order; a damaged one is not read part way.
THEOREM FilesRead == ReadersSpec => []FilesReadAsGoDoes
  <1>. DEFINE I == Header!IInv /\ (reader = "imports" => Imports!IInv)
  <1>1. ReadersInit => I
    BY HeaderBegins, ImportsBegins, Zenon DEF ReadersInit
  <1>2. I /\ [ReadersNext]_readerVars => I'
    BY HeaderKeeps, ImportsKeeps, Zenon
  <1>3. I => FilesReadAsGoDoes
    <2>. SUFFICES ASSUME I
                  PROVE  FilesReadAsGoDoes
      OBVIOUS
    <2>. SUFFICES ASSUME reader = "imports"
                  PROVE  Imports!WholeFilesRead /\ Imports!NothingHidden
      BY Zenon DEF FilesReadAsGoDoes
    <2>1. Imports!TypeOK /\ Imports!ReadSoFar /\ Imports!WholeSoFar
      BY Zenon DEF Imports!IInv
    <2>2. Imports!WholeFilesRead
      <3>. SUFFICES ASSUME ~ damaged
                    PROVE  /\ at # "unreadable"
                           /\ at = "returned" => out = Imports!PathsOf(decls)
        BY Zenon DEF Imports!WholeFilesRead
      <3>1. PICK semicolons \in BOOLEAN, rest \in Imports!Rests :
               Imports!IsLeft([decls |-> decls, semicolons |-> semicolons, rest |-> rest],
                              at, group, SubSeq(source, pos, Len(source)), out)
        BY <2>1, Zenon DEF Imports!WholeSoFar
      <3>2. PICK f : f = [decls |-> decls, semicolons |-> semicolons, rest |-> rest]
        BY Zenon
      <3>3. f.decls = decls /\ Imports!IsLeft(f, at, group, SubSeq(source, pos, Len(source)), out)
        BY <3>1, <3>2
      <3>. QED
        BY <3>3, Zenon DEF Imports!IsLeft
    <2>3. Imports!NothingHidden
      <3>. SUFFICES ASSUME at = "returned"
                    PROVE  Imports!NothingHidden
        BY Zenon DEF Imports!NothingHidden
      <3>1. group = FALSE
        BY <2>1, GroupAt, Zenon
      <3>. DEFINE C(tok) == Imports!Cardinality(Imports!PlacesOf(tok, source, Imports!Taken))
      <3>2. C(Imports!Punct("(")) = C(Imports!Punct(")")) + 0
        BY <2>1, <3>1, Zenon DEF Imports!ReadSoFar
      <3>3. C(Imports!Punct("(")) = C(Imports!Punct(")"))
        <4>1. C(Imports!Punct(")")) \in Nat
          <5>1. Imports!Taken \in Nat
            <6>1. Imports!Taken = pos - 2
              BY Zenon DEF Imports!Taken
            <6>2. pos \in 1 .. Len(source) + 2 /\ pos # 1 /\ source \in Seq(Imports!Tokens)
              BY <2>1, Zenon DEF Imports!TypeOK
            <6>. QED
              BY <6>1, <6>2
          <5>2. PICK n, text, close :
                   n = Imports!Taken /\ text = source /\ close = Imports!Punct(")")
            OBVIOUS
          <5>3. n \in Nat
            BY <5>1, <5>2, Zenon
          <5>4. Imports!Cardinality(Imports!PlacesOf(close, text, n)) \in Nat
            BY <5>3, PlacesGrow
          <5>. QED
            BY <5>2, <5>4, Zenon
        <4>2. PICK c, d : c = C(Imports!Punct("(")) /\ d = C(Imports!Punct(")"))
          OBVIOUS
        <4>. HIDE DEF C
        <4>3. d \in Nat /\ c = d + 0
          BY <3>2, <4>1, <4>2, Zenon
        <4>4. c = d
          BY <4>3
        <4>. QED
          BY <4>2, <4>4, Zenon
      <3>. QED
        BY <2>1, <3>3, Zenon DEF Imports!NothingHidden, Imports!ReadSoFar
    <2>. QED
      BY <2>2, <2>3
  <1>. QED
    BY <1>1, <1>2, <1>3, PTL DEF ReadersSpec
=============================================================================
