---------------------------- MODULE PortDepsProofs ----------------------------
(***************************************************************************)
(* Theorems about PortDeps: for any repos, any manifests and registers a   *)
(* maintainer may write, and any number of edits.                          *)
(***************************************************************************)
EXTENDS PortDeps, TLAPS, SequenceTheorems

-----------------------------------------------------------------------------
(* Lists of ports.                                                         *)

Items(l) == {l[i] : i \in DOMAIN l}

\* What is in two lists, one after the other.
LEMMA ItemsOfBoth ==
    ASSUME NEW l \in Seq(PORTS), NEW m \in Seq(PORTS)
    PROVE  l \o m \in Seq(PORTS) /\ Items(l \o m) = Items(l) \cup Items(m)
  <1>. DEFINE c == l \o m
  <1>1. Len(l) \in Nat /\ Len(m) \in Nat /\ DOMAIN l = 1 .. Len(l) /\ DOMAIN m = 1 .. Len(m)
    OBVIOUS
  <1>2. /\ c \in Seq(PORTS) /\ Len(c) = Len(l) + Len(m)
        /\ \A i \in 1 .. Len(l) + Len(m) : c[i] = IF i <= Len(l) THEN l[i] ELSE m[i - Len(l)]
    BY ConcatProperties
  <1>. HIDE DEF c
  <1>3. DOMAIN c = 1 .. Len(l) + Len(m)
    BY <1>2
  <1>4. ASSUME NEW x \in Items(c)
        PROVE  x \in Items(l) \cup Items(m)
    <2>1. PICK i \in 1 .. Len(l) + Len(m) : x = c[i]
      BY <1>3, <1>4 DEF Items
    <2>2. CASE i <= Len(l)
      BY SMTT(20), <1>1, <1>2, <2>1, <2>2 DEF Items
    <2>3. CASE ~ (i <= Len(l))
      <3>1. i - Len(l) \in DOMAIN m
        BY <1>1, <2>3
      <3>. QED
        BY <1>2, <2>1, <2>3, <3>1 DEF Items
    <2>. QED
      BY <2>2, <2>3
  <1>5. ASSUME NEW x \in Items(l)
        PROVE  x \in Items(c)
    <2>1. PICK i \in DOMAIN l : x = l[i]
      BY <1>5 DEF Items
    <2>2. i \in 1 .. Len(l) + Len(m) /\ i <= Len(l)
      BY <1>1
    <2>. QED
      BY <1>2, <1>3, <2>1, <2>2 DEF Items
  <1>6. ASSUME NEW x \in Items(m)
        PROVE  x \in Items(c)
    <2>1. PICK i \in DOMAIN m : x = m[i]
      BY <1>6 DEF Items
    <2>2. i + Len(l) \in 1 .. Len(l) + Len(m) /\ (i + Len(l) <= Len(l) <=> FALSE)
          /\ i + Len(l) - Len(l) = i
      BY <1>1
    <2>. QED
      BY <1>2, <1>3, <2>1, <2>2 DEF Items
  <1>7. Items(c) = Items(l) \cup Items(m)
    BY <1>4, <1>5, <1>6
  <1>. QED
    BY <1>2, <1>7 DEF c

\* A sorted list is one of ports, and tells which ports they are.
LEMMA SortedTells ==
    /\ \A S : Sorted(S) \in Seq(PORTS)
    /\ \A S, T \in SUBSET PORTS : Sorted(S) = Sorted(T) => S = T
  <1>1. ASSUME NEW S, NEW p \in PORTS
        PROVE  Listed(p, S) \in Seq(PORTS) /\ Items(Listed(p, S)) = {p} \cap S
    <2>1. <<>> \in Seq(PORTS) /\ Items(<<>>) = {}
      BY DEF Items
    <2>2. <<p>> \in Seq(PORTS) /\ Items(<<p>>) = {p}
      <3>1. DOMAIN <<p>> = {1} /\ <<p>>[1] = p
        OBVIOUS
      <3>. QED
        BY <3>1 DEF Items
    <2>. QED
      BY <2>1, <2>2 DEF Listed
  <1>2. ASSUME NEW S
        PROVE  Sorted(S) \in Seq(PORTS) /\ Items(Sorted(S)) = S \cap PORTS
    <2>. DEFINE g == Listed("go", S)
                r == Listed("rs", S)
                t == Listed("ts", S)
    <2>1. /\ g \in Seq(PORTS) /\ r \in Seq(PORTS) /\ t \in Seq(PORTS)
          /\ Items(g) = {"go"} \cap S /\ Items(r) = {"rs"} \cap S /\ Items(t) = {"ts"} \cap S
      BY <1>1 DEF PORTS
    <2>2. Sorted(S) = g \o r \o t
      BY DEF Sorted
    <2>. HIDE DEF g, r, t
    <2>3. g \o r \in Seq(PORTS) /\ Items(g \o r) = Items(g) \cup Items(r)
      BY <2>1, ItemsOfBoth
    <2>4. (g \o r) \o t \in Seq(PORTS) /\ Items((g \o r) \o t) = Items(g \o r) \cup Items(t)
      BY <2>1, <2>3, ItemsOfBoth
    <2>. QED
      BY <2>1, <2>2, <2>3, <2>4 DEF PORTS
  <1>3. ASSUME NEW S \in SUBSET PORTS, NEW T \in SUBSET PORTS, Sorted(S) = Sorted(T)
        PROVE  S = T
    <2>1. S \cap PORTS = T \cap PORTS
      BY <1>2, <1>3
    <2>. QED
      BY <2>1
  <1>. QED
    BY <1>2, <1>3

-----------------------------------------------------------------------------
(* What a check says of what is there.                                     *)

\* Everything can be read.
LEMMA ReadableIs ==
    Unreadable = {} <=> /\ \A p \in PORTS : manifests[p].kind # "unreadable"
                        /\ register.kind # "not JSON"
  <1>1. /\ DOMAIN ReadInOrder = {1, 2, 3, 4}
        /\ ReadInOrder[1] = "ts" /\ ReadInOrder[2] = "go" /\ ReadInOrder[3] = "rs"
        /\ ReadInOrder[4] = "register"
    BY DEF ReadInOrder
  <1>2. /\ CannotBeRead("ts") <=> manifests["ts"].kind = "unreadable"
        /\ CannotBeRead("go") <=> manifests["go"].kind = "unreadable"
        /\ CannotBeRead("rs") <=> manifests["rs"].kind = "unreadable"
        /\ CannotBeRead("register") <=> register.kind = "not JSON"
    BY DEF CannotBeRead
  <1>3. Unreadable = {} <=> \A i \in {1, 2, 3, 4} : ~ CannotBeRead(ReadInOrder[i])
    BY <1>1 DEF Unreadable
  <1>4. (\A i \in {1, 2, 3, 4} : ~ CannotBeRead(ReadInOrder[i])) <=>
            /\ ~ CannotBeRead("ts") /\ ~ CannotBeRead("go") /\ ~ CannotBeRead("rs")
            /\ ~ CannotBeRead("register")
    BY <1>1
  <1>. QED
    BY <1>2, <1>3, <1>4 DEF PORTS

\* The names of the ports are no problem exactly when they are one name.
LEMMA NamesAgree ==
    ASSUME TypeOK, \A p \in PORTS : manifests[p].kind # "unreadable"
    PROVE  NameProblems(manifests) = {} <=> OneName
  <1>1. \A p \in PORTS : /\ manifests[p].kind \in {"absent", "read"}
                         /\ manifests[p].id \in Ids \cup {NoId}
    BY DEF TypeOK, Manifest, ManifestKinds
  <1>2. Present(manifests) = {p \in PORTS : manifests[p].kind = "read"}
    BY <1>1 DEF Present
  <1>. DEFINE here == Present(manifests)
              named == {p \in here : manifests[p].id # NoId}
  <1>3. NameProblems(manifests) = {} <=>
            /\ here \ named = {}
            /\ {p \in named : \E q \in named : manifests[p].id # manifests[q].id} = {}
    BY DEF NameProblems
  <1>4. ASSUME OneName
        PROVE  NameProblems(manifests) = {}
    <2>1. PICK id \in Ids : \A p \in here : manifests[p].id = id
      BY <1>2, <1>4 DEF OneName
    <2>2. id # NoId
      BY NoIdIsNone
    <2>. QED
      BY <1>3, <2>1, <2>2
  <1>5. ASSUME NameProblems(manifests) = {}
        PROVE  OneName
    <2>1. \A p, q \in here : manifests[p].id # NoId /\ manifests[p].id = manifests[q].id
      BY <1>3, <1>5
    <2>2. CASE here = {}
      BY <1>2, <2>2, ThisIsAnId DEF OneName
    <2>3. CASE here # {}
      <3>1. PICK p \in here : TRUE
        BY <2>3
      <3>2. manifests[p].id \in Ids
        BY <1>1, <1>2, <2>1
      <3>. QED
        BY <1>2, <2>1, <3>1, <3>2 DEF OneName
    <2>. QED
      BY <2>2, <2>3
  <1>. QED
    BY <1>4, <1>5

\* The register's shape is right when it is absent or has no fault.
LEMMA RegisterTrusted ==
    ASSUME TypeOK
    PROVE  RegisterProblems(register) = {} <=>
              register.kind \in {"absent", "object"} /\ register.faults = {}
  <1>1. RegisterProblems(register) = {} <=>
            {register.kind} \ {"absent", "object"} = {} /\ register.faults = {}
    BY DEF RegisterProblems
  <1>. QED
    BY <1>1

\* What PassesIfExplained asks of one repo.
ExplainedId(id) ==
    LET holders == {p \in PORTS : /\ manifests[p].kind = "read"
                                  /\ id \in manifests[p].deps
                                  /\ id # manifests[p].id}
        others == {p \in PORTS : manifests[p].kind = "read"} \ holders
    IN  IF holders # {} /\ others # {}
        THEN /\ id \in DOMAIN register.differ
             /\ LET entry == register.differ[id]
                IN  /\ entry.object /\ entry.faults = {}
                    /\ entry.ports = Sorted(holders)
        ELSE id \notin DOMAIN register.differ

\* The problems with one repo, given a register that records something.
LEMMA IdExplained ==
    ASSUME TypeOK, \A p \in PORTS : manifests[p].kind # "unreadable",
           register.kind \in {"absent", "object"}, NEW id \in Ids
    PROVE  /\ IdProblems(manifests, Recorded(register), id) = {} <=> ExplainedId(id)
           /\ ExplainedId(id) =>
                 /\ Differs(manifests, id) <=> id \in DOMAIN Recorded(register)
                 /\ Differs(manifests, id) =>
                       Recorded(register)[id].ports = Sorted(In(manifests, id))
  <1>1. \A p \in PORTS : manifests[p].kind \in {"absent", "read"}
    BY DEF TypeOK, Manifest, ManifestKinds
  <1>2. Present(manifests) = {p \in PORTS : manifests[p].kind = "read"}
    BY <1>1 DEF Present
  <1>3. Recorded(register) = register.differ
    BY DEF Recorded, TypeOK, IsRegister
  <1>. DEFINE have == In(manifests, id)
              here == {p \in PORTS : manifests[p].kind = "read"}
              differ == register.differ
  <1>4. have = {p \in PORTS : /\ manifests[p].kind = "read"
                              /\ id \in manifests[p].deps
                              /\ id # manifests[p].id}
    BY <1>2 DEF In, Runtime
  <1>5. Differs(manifests, id) <=> have # {} /\ here \ have # {}
    BY <1>2, <1>4 DEF Differs
  <1>6. ExplainedId(id) <=>
            IF Differs(manifests, id)
            THEN /\ id \in DOMAIN differ
                 /\ differ[id].object /\ differ[id].faults = {}
                 /\ differ[id].ports = Sorted(have)
            ELSE id \notin DOMAIN differ
    BY <1>4, <1>5 DEF ExplainedId
  <1>7. id \in DOMAIN Differences(manifests) <=> Differs(manifests, id)
    BY DEF Differences
  <1>8. EntryProblems(differ[id], id, have) = {} <=>
            /\ differ[id].object /\ differ[id].faults = {}
            /\ differ[id].ports = Sorted(have)
    <2>1. EntryProblems(differ[id], id, have) = {} <=>
             (IF differ[id].object
              THEN differ[id].faults
                   \cup (IF differ[id].ports = Sorted(have) THEN {} ELSE {"ports"})
              ELSE {"not an object"}) = {}
      BY DEF EntryProblems
    <2>. QED
      BY <2>1
  <1>9. CASE id \notin DOMAIN differ
    <2>1. IdProblems(manifests, differ, id) = {} <=> {id} \cap DOMAIN Differences(manifests) = {}
      BY <1>9 DEF IdProblems
    <2>. QED
      BY <1>3, <1>6, <1>7, <1>9, <2>1
  <1>10. CASE id \in DOMAIN differ
    <2>1. IdProblems(manifests, differ, id) = {} <=>
             Differs(manifests, id) /\ EntryProblems(differ[id], id, have) = {}
      BY <1>10 DEF IdProblems
    <2>. QED
      BY <1>3, <1>6, <1>8, <1>10, <2>1
  <1>. QED
    BY <1>9, <1>10

\* The comparison finds nothing exactly when everything is explained.
LEMMA NoProblems ==
    ASSUME TypeOK, Unreadable = {}
    PROVE  Compare(manifests, register) = {} <=>
              /\ OneName
              /\ register.kind \in {"absent", "object"} /\ register.faults = {}
              /\ Explained
  <1>1. \A p \in PORTS : manifests[p].kind # "unreadable"
    BY ReadableIs
  <1>2. Compare(manifests, register) = {} <=>
            /\ NameProblems(manifests) = {}
            /\ RegisterProblems(register) = {}
            /\ \A id \in Ids : IdProblems(manifests, Recorded(register), id) = {}
    BY DEF Compare
  <1>3. Explained <=> \A id \in Ids : ExplainedId(id)
    BY DEF Explained, ExplainedId
  <1>4. CASE register.kind \in {"absent", "object"}
    <2>1. \A id \in Ids : IdProblems(manifests, Recorded(register), id) = {} <=> ExplainedId(id)
      BY <1>1, <1>4, IdExplained
    <2>. QED
      BY <1>1, <1>2, <1>3, <2>1, NamesAgree, RegisterTrusted
  <1>5. CASE register.kind \notin {"absent", "object"}
    BY <1>2, <1>5, RegisterTrusted
  <1>. QED
    BY <1>4, <1>5

\* A check that passes sees the differences that the register names.
LEMMA PassPins ==
    ASSUME TypeOK, Unreadable = {}, Compare(manifests, register) = {}
    PROVE  Pins(register, Differences(manifests))
  <1>1. /\ \A p \in PORTS : manifests[p].kind # "unreadable"
        /\ register.kind \in {"absent", "object"} /\ Explained
    BY ReadableIs, NoProblems
  <1>2. \A id \in Ids : ExplainedId(id)
    BY <1>1 DEF Explained, ExplainedId
  <1>3. \A id \in Ids :
           /\ Differs(manifests, id) <=> id \in DOMAIN Recorded(register)
           /\ Differs(manifests, id) =>
                 Recorded(register)[id].ports = Sorted(In(manifests, id))
    BY <1>1, <1>2, IdExplained
  <1>4. DOMAIN Recorded(register) \subseteq Ids
    BY DEF Recorded, TypeOK, IsRegister
  <1>5. DOMAIN Recorded(register) = {i \in Ids : Differs(manifests, i)}
    BY <1>3, <1>4
  <1>6. \A id \in Ids : In(manifests, id) \subseteq PORTS
    BY DEF In, Present
  <1>7. Differences(manifests) = [id \in DOMAIN Recorded(register) |-> In(manifests, id)]
    BY <1>5 DEF Differences
  <1>8. \A id \in DOMAIN Recorded(register) : Differences(manifests)[id] = In(manifests, id)
    BY <1>7
  <1>9. Differences(manifests)
           = [id \in DOMAIN Recorded(register) |-> Differences(manifests)[id]]
    BY <1>7
  <1>. QED
    BY <1>3, <1>4, <1>6, <1>8, <1>9 DEF Pins

\* A register names one set of differences.
LEMMA PinsOne ==
    ASSUME NEW reg, NEW d, NEW e, Pins(reg, d), Pins(reg, e)
    PROVE  d = e
  <1>1. \A id \in DOMAIN Recorded(reg) : d[id] = e[id]
    BY SortedTells DEF Pins
  <1>. QED
    BY <1>1 DEF Pins

-----------------------------------------------------------------------------
(* Registers and manifests, as they are written.                           *)

Reg(k, F, d) == [kind |-> k, faults |-> F, differ |-> d]

\* The register with one or two of its parts changed.
AsObject(d) == [register EXCEPT !.kind = "object", !.differ = d]
NoDiffer == [register EXCEPT !.kind = "no differ", !.differ = <<>>]
Differing(d) == [register EXCEPT !.differ = d]
Faulty(F) == [register EXCEPT !.faults = F]
Spoiled(k) == [NoRegister EXCEPT !.kind = k]

\* A register with one of its fields changed.
LEMMA RegisterUpdated ==
    ASSUME register = Reg(register.kind, register.faults, register.differ)
    PROVE  /\ \A d : AsObject(d) = Reg("object", register.faults, d)
           /\ NoDiffer = Reg("no differ", register.faults, <<>>)
           /\ \A d : Differing(d) = Reg(register.kind, register.faults, d)
           /\ \A F : Faulty(F) = Reg(register.kind, F, register.differ)
           /\ \A k : Spoiled(k) = Reg(k, {}, <<>>)
  <1>. DEFINE a == register.kind
              b == register.faults
              c == register.differ
  <1>1. register = Reg(a, b, c) /\ NoRegister = Reg("absent", {}, <<>>)
    BY DEF Reg, NoRegister
  <1>. HIDE DEF a, b, c
  <1>2. ASSUME NEW k, NEW d
        PROVE  [register EXCEPT !.kind = k, !.differ = d] = Reg(k, b, d)
    <2>. DEFINE t == [register EXCEPT !.kind = k]
    <2>1. [register EXCEPT !.kind = k, !.differ = d] = [t EXCEPT !.differ = d]
      OBVIOUS
    <2>2. t = Reg(k, b, c)
      BY <1>1 DEF Reg
    <2>. HIDE DEF t
    <2>3. [t EXCEPT !.differ = d] = Reg(k, b, d)
      BY <2>2 DEF Reg
    <2>. QED
      BY <2>1, <2>3
  <1>3. ASSUME NEW d
        PROVE  AsObject(d) = Reg("object", b, d)
    BY <1>2 DEF AsObject
  <1>4. NoDiffer = Reg("no differ", b, <<>>)
    BY <1>2 DEF NoDiffer
  <1>5. ASSUME NEW d
        PROVE  Differing(d) = Reg(a, b, d)
    BY <1>1 DEF Differing, Reg
  <1>6. ASSUME NEW F
        PROVE  Faulty(F) = Reg(a, F, c)
    BY <1>1 DEF Faulty, Reg
  <1>7. ASSUME NEW k
        PROVE  Spoiled(k) = Reg(k, {}, <<>>)
    <2>. DEFINE x == "absent"
                f == {}
                d == <<>>
    <2>1. NoRegister = Reg(x, f, d)
      BY <1>1
    <2>. HIDE DEF x, f, d
    <2>2. Spoiled(k) = Reg(k, f, d)
      BY <2>1 DEF Spoiled, Reg
    <2>. QED
      BY <2>2 DEF f, d
  <1>. QED
    BY <1>3, <1>4, <1>5, <1>6, <1>7 DEF a, b, c

\* What may be written into a register.
LEMMA RegisterWritten ==
    ASSUME IsRegister(register)
    PROVE  /\ \A d : DOMAIN d \subseteq Ids /\ (\A id \in DOMAIN d : d[id] \in Entries) =>
                 IsRegister(AsObject(d))
           /\ IsRegister(AsObject(<<>>)) /\ IsRegister(NoDiffer)
           /\ \A d : DOMAIN d \subseteq DOMAIN register.differ
                     /\ (\A id \in DOMAIN d : d[id] = register.differ[id])
                     /\ DOMAIN register.differ # {} =>
                        IsRegister(Differing(d))
           /\ \A F \in SUBSET RegisterFaults : IsRegister(Faulty(F))
           /\ \A k \in RegisterKinds : IsRegister(Spoiled(k))
  <1>1. /\ register = Reg(register.kind, register.faults, register.differ)
        /\ register.kind \in RegisterKinds /\ register.faults \subseteq RegisterFaults
        /\ DOMAIN register.differ \subseteq Ids
        /\ \A id \in DOMAIN register.differ : register.differ[id] \in Entries
        /\ register.kind # "object" => register.differ = <<>>
    BY DEF IsRegister, Reg
  <1>2. /\ \A d : AsObject(d) = Reg("object", register.faults, d)
        /\ NoDiffer = Reg("no differ", register.faults, <<>>)
        /\ \A d : Differing(d) = Reg(register.kind, register.faults, d)
        /\ \A F : Faulty(F) = Reg(register.kind, F, register.differ)
        /\ \A k : Spoiled(k) = Reg(k, {}, <<>>)
    BY <1>1, RegisterUpdated
  <1>3. \A k, F, d : IsRegister(Reg(k, F, d)) <=>
           /\ k \in RegisterKinds /\ F \subseteq RegisterFaults
           /\ DOMAIN d \subseteq Ids /\ \A id \in DOMAIN d : d[id] \in Entries
           /\ k # "object" => d = <<>>
    BY DEF IsRegister, Reg
  <1>4. DOMAIN <<>> = {}
    OBVIOUS
  <1>5. DOMAIN <<>> \subseteq Ids /\ \A id \in DOMAIN <<>> : <<>>[id] \in Entries
    BY <1>4
  <1>6. "object" \in RegisterKinds /\ "no differ" \in RegisterKinds
    BY DEF RegisterKinds
  <1>7. ASSUME NEW d, DOMAIN d \subseteq Ids, \A id \in DOMAIN d : d[id] \in Entries
        PROVE  IsRegister(AsObject(d))
    BY <1>1, <1>2, <1>3, <1>6, <1>7
  <1>8. IsRegister(AsObject(<<>>)) /\ IsRegister(NoDiffer)
    BY <1>1, <1>2, <1>3, <1>5, <1>6
  <1>9. ASSUME NEW d, DOMAIN d \subseteq DOMAIN register.differ,
               \A id \in DOMAIN d : d[id] = register.differ[id],
               DOMAIN register.differ # {}
        PROVE  IsRegister(Differing(d))
    <2>1. register.kind = "object"
      BY <1>1, <1>4, <1>9
    <2>2. DOMAIN d \subseteq Ids /\ \A id \in DOMAIN d : d[id] \in Entries
      BY <1>1, <1>9
    <2>. QED
      BY <1>1, <1>2, <1>3, <2>1, <2>2
  <1>10. ASSUME NEW F \in SUBSET RegisterFaults
         PROVE  IsRegister(Faulty(F))
    BY <1>1, <1>2, <1>3
  <1>11. ASSUME NEW k \in RegisterKinds
         PROVE  IsRegister(Spoiled(k))
    BY <1>2, <1>3, <1>5
  <1>. QED
    BY <1>7, <1>8, <1>9, <1>10, <1>11

\* Every entry written by hand, or on advice, is one.
LEMMA EntriesWritten ==
    /\ WrittenEntries \subseteq Entries
    /\ \A S : [object |-> TRUE, ports |-> Sorted(S), faults |-> {}] \in Entries
    /\ \A e \in Entries : \A S : [e EXCEPT !.ports = Sorted(S)] \in Entries
    /\ \A e \in Entries : \A f : [e EXCEPT !.faults = @ \ {f}] \in Entries
  <1>1. \A S : Sorted(S) \in Seq(PORTS)
    BY SortedTells
  <1>2. <<"ts", "go">> \in Seq(PORTS) /\ <<>> \in Seq(PORTS)
    BY DEF PORTS
  <1>3. WrittenEntries \subseteq Entries
    <2>1. ASSUME NEW e \in [object : {TRUE},
                            ports : {Sorted(S) : S \in SUBSET PORTS} \cup {<<"ts", "go">>},
                            faults : {{}} \cup {{f} : f \in EntryFaults \cap Slips}]
          PROVE  e \in Entries
      <3>1. e = [object |-> e.object, ports |-> e.ports, faults |-> e.faults]
        OBVIOUS
      <3>2. e.object \in BOOLEAN
        OBVIOUS
      <3>3. e.ports \in Seq(PORTS)
        <4>1. e.ports \in {Sorted(S) : S \in SUBSET PORTS} \cup {<<"ts", "go">>}
          OBVIOUS
        <4>. QED
          BY <1>1, <1>2, <4>1
      <3>4. e.faults \subseteq EntryFaults
        <4>1. e.faults \in {{}} \cup {{f} : f \in EntryFaults \cap Slips}
          OBVIOUS
        <4>. QED
          BY <4>1
      <3>. QED
        BY <3>1, <3>2, <3>3, <3>4 DEF Entries
    <2>2. [object |-> FALSE, ports |-> <<>>, faults |-> {}] \in Entries
      BY <1>2 DEF Entries
    <2>. QED
      BY <2>1, <2>2 DEF WrittenEntries
  <1>4. \A S : [object |-> TRUE, ports |-> Sorted(S), faults |-> {}] \in Entries
    BY <1>1 DEF Entries
  <1>5. \A e \in Entries : \A S : [e EXCEPT !.ports = Sorted(S)] \in Entries
    BY <1>1 DEF Entries
  <1>6. \A e \in Entries : \A f : [e EXCEPT !.faults = @ \ {f}] \in Entries
    BY DEF Entries
  <1>. QED
    BY <1>3, <1>4, <1>5, <1>6

\* Advice that fits leaves entries of repos of the org.
LEMMA AdviceFits ==
    ASSUME TypeOK, NEW prob, prob.what \in AboutRepos => prob.at \in Ids,
           NEW d \in Advice(prob)
    PROVE  DOMAIN d \subseteq Ids /\ \A id \in DOMAIN d : d[id] \in Entries
  <1>. DEFINE differ == Recorded(register)
              whole == [object |-> TRUE, ports |-> Sorted(prob.have), faults |-> {}]
              at == prob.at
  <1>1. DOMAIN differ \subseteq Ids /\ \A id \in DOMAIN differ : differ[id] \in Entries
    <2>1. DOMAIN <<>> = {}
      OBVIOUS
    <2>. QED
      BY <2>1 DEF Recorded, TypeOK, IsRegister
  <1>2. whole \in Entries
    BY EntriesWritten
  <1>. HIDE DEF differ, whole
  <1>3. \/ prob.what \in AboutRepos /\ d = With(differ, at, whole)
        \/ d = Without(differ, at)
        \/ at \in DOMAIN differ /\ d = [differ EXCEPT ![at].ports = Sorted(prob.have)]
        \/ at \in DOMAIN differ /\ d = [differ EXCEPT ![at].faults = @ \ {prob.what}]
    BY DEF Advice, AboutRepos, differ, whole
  <1>4. CASE prob.what \in AboutRepos /\ d = With(differ, at, whole)
    BY <1>1, <1>2, <1>4 DEF With
  <1>5. CASE d = Without(differ, at)
    BY <1>1, <1>5 DEF Without
  <1>6. CASE at \in DOMAIN differ /\ d = [differ EXCEPT ![at].ports = Sorted(prob.have)]
    <2>1. d = [differ EXCEPT ![at] = [differ[at] EXCEPT !.ports = Sorted(prob.have)]]
      BY <1>6
    <2>2. [differ[at] EXCEPT !.ports = Sorted(prob.have)] \in Entries
      BY <1>1, <1>6, EntriesWritten
    <2>. QED
      BY <1>1, <2>1, <2>2
  <1>7. CASE at \in DOMAIN differ /\ d = [differ EXCEPT ![at].faults = @ \ {prob.what}]
    <2>1. d = [differ EXCEPT ![at] = [differ[at] EXCEPT !.faults = @ \ {prob.what}]]
      BY <1>7
    <2>2. [differ[at] EXCEPT !.faults = @ \ {prob.what}] \in Entries
      BY <1>1, <1>7, EntriesWritten
    <2>. QED
      BY <1>1, <2>1, <2>2
  <1>. QED
    BY <1>3, <1>4, <1>5, <1>6, <1>7

\* Every problem that is reported is about the org.
LEMMA ProblemsFit ==
    ASSUME NEW prob \in Compare(manifests, register)
    PROVE  prob.have \subseteq PORTS /\ (prob.what \in AboutRepos => prob.at \in Ids)
  <1>1. \A what, at, have : /\ Problem(what, at, have).what = what
                            /\ Problem(what, at, have).at = at
                            /\ Problem(what, at, have).have = have
    BY DEF Problem
  <1>2. CASE prob \in NameProblems(manifests)
    <2>1. \E at : prob = Problem("unnamed", at, {}) \/ prob = Problem("disagree", at, {})
      BY <1>2 DEF NameProblems
    <2>2. prob.what \in {"unnamed", "disagree"} /\ prob.have = {}
      BY <1>1, <2>1
    <2>. QED
      BY <2>2 DEF AboutRepos, EntryFaults
  <1>3. CASE prob \in RegisterProblems(register)
    <2>1. \E at : prob = Problem("register", at, {})
      BY <1>3 DEF RegisterProblems
    <2>2. prob.what = "register" /\ prob.have = {}
      BY <1>1, <2>1
    <2>. QED
      BY <2>2 DEF AboutRepos, EntryFaults
  <1>4. ASSUME NEW id \in Ids, prob \in IdProblems(manifests, Recorded(register), id)
        PROVE  prob.have \subseteq PORTS /\ prob.at \in Ids
    <2>1. In(manifests, id) \subseteq PORTS
      BY DEF In, Present
    <2>. DEFINE have == In(manifests, id)
    <2>. HIDE DEF have
    <2>2. ASSUME NEW entry, prob \in EntryProblems(entry, id, have)
          PROVE  \E what : prob = Problem(what, id, have)
      BY <2>2 DEF EntryProblems
    <2>3. \E what : prob = Problem(what, id, have)
      BY <1>4, <2>2 DEF IdProblems, have
    <2>4. prob.at = id /\ prob.have = have
      BY <1>1, <2>3
    <2>. QED
      BY <2>1, <2>4 DEF have
  <1>. QED
    BY <1>2, <1>3, <1>4 DEF Compare

-----------------------------------------------------------------------------
(* The invariant.                                                          *)

\* What PassesIfExplained says a check that passes has seen.
AllExplained ==
    /\ \A p \in PORTS : manifests[p].kind # "unreadable"
    /\ OneName
    /\ register.kind \in {"absent", "object"}
    /\ register.faults = {}
    /\ Explained

Inv == IInv /\ PassesIfExplained

\* At first some ports agree, and there is no register.
LEMMA InitInv == Init => Inv
  <1>. SUFFICES ASSUME Init
                PROVE  Inv
    OBVIOUS
  <1>1. manifests \in [PORTS -> Manifest]
    <2>1. PICK deps \in SUBSET (Ids \ {This}) :
             manifests \in [PORTS -> {NoManifest, NamedFor(This, deps)}]
      BY DEF Init
    <2>2. NoManifest \in Manifest /\ NamedFor(This, deps) \in Manifest
      BY ThisIsAnId DEF NoManifest, NamedFor, Manifest, ManifestKinds
    <2>. QED
      BY <2>1, <2>2
  <1>2. IsRegister(register)
    <2>1. DOMAIN <<>> = {}
      OBVIOUS
    <2>. QED
      BY <2>1 DEF Init, NoRegister, IsRegister, RegisterKinds
  <1>3. TypeOK
    BY <1>1, <1>2, MaxEditsIsNat DEF Init, TypeOK, NoReport
  <1>. QED
    BY <1>3 DEF Init, Inv, IInv, TodoFits, PassedIsPinned, PassesIfExplained

\* A step by hand leaves no report that could be out of date.
LEMMA HandKeeps ==
    ASSUME Inv, ByHand, UNCHANGED <<todo, passed>>,
           manifests' \in [PORTS -> Manifest], IsRegister(register')
    PROVE  Inv'
  <1>1. TypeOK'
    BY MaxEditsIsNat DEF Inv, IInv, TypeOK, ByHand, NoReport
  <1>2. TodoFits' /\ PassedIsPinned'
    BY DEF Inv, IInv, TodoFits, PassedIsPinned
  <1>3. PassesIfExplained'
    BY DEF ByHand, PassesIfExplained
  <1>. QED
    BY <1>1, <1>2, <1>3 DEF Inv, IInv

\* Acting on a problem keeps what only the check itself could break.
LEMMA ActedKeeps ==
    ASSUME Inv, NEW prob, Acted(prob),
           manifests' \in [PORTS -> Manifest], IsRegister(register')
    PROVE  Inv'
  <1>1. TypeOK'
    BY DEF Inv, IInv, TypeOK, Acted, NoReport
  <1>2. TodoFits' /\ PassedIsPinned'
    BY DEF Inv, IInv, TodoFits, PassedIsPinned, Acted
  <1>3. PassesIfExplained'
    BY DEF Acted, PassesIfExplained
  <1>. QED
    BY <1>1, <1>2, <1>3 DEF Inv, IInv

\* A check leaves manifests and register alone.
LEMMA CheckKeeps ==
    ASSUME Inv, CannotRead \/ Check
    PROVE  Inv'
  <1>1. UNCHANGED <<manifests, register, edits>>
    BY DEF CannotRead, Check
  <1>2. AllExplained' <=> AllExplained
    BY <1>1 DEF AllExplained, OneName, Explained
  <1>3. CASE CannotRead
    <2>1. TypeOK'
      BY <1>1, <1>3 DEF Inv, IInv, TypeOK, CannotRead, NoReport
    <2>2. TodoFits'
      <3>. DEFINE at == ReadInOrder[Min(Unreadable)]
      <3>1. todo' = {Problem("unreadable", at, {})}
        BY <1>3 DEF CannotRead
      <3>. HIDE DEF at
      <3>2. \A prob \in todo' : prob.what = "unreadable" /\ prob.have = {}
        BY <3>1 DEF Problem
      <3>3. "unreadable" \notin AboutRepos
        BY DEF AboutRepos, EntryFaults
      <3>. QED
        BY <3>2, <3>3 DEF TodoFits
    <2>3. PassedIsPinned'
      BY <1>3 DEF Inv, IInv, PassedIsPinned, CannotRead
    <2>4. ~ AllExplained
      BY <1>3, ReadableIs DEF CannotRead, AllExplained
    <2>5. PassesIfExplained'
      <3>1. report' = 2
        BY <1>3 DEF CannotRead
      <3>. QED
        BY <1>2, <2>4, <3>1 DEF PassesIfExplained, AllExplained
    <2>. QED
      BY <2>1, <2>2, <2>3, <2>5 DEF Inv, IInv
  <1>4. CASE Check
    <2>. DEFINE problems == Compare(manifests, register)
    <2>1. /\ Unreadable = {}
          /\ report' = IF problems = {} THEN 0 ELSE 1
          /\ todo' = problems
          /\ passed' = IF problems = {}
                       THEN [register |-> register, differ |-> Differences(manifests)]
                       ELSE passed
      BY <1>4 DEF Check
    <2>2. TypeOK'
      <3>1. report' \in 0 .. 3
        BY <2>1
      <3>. QED
        BY <1>1, <3>1 DEF Inv, IInv, TypeOK, NoReport
    <2>3. TodoFits'
      BY <2>1, ProblemsFit DEF TodoFits
    <2>4. PassedIsPinned'
      <3>1. CASE problems = {}
        <4>1. /\ passed'.register = register
              /\ passed'.differ = Differences(manifests)
          BY <2>1, <3>1
        <4>2. Pins(register, Differences(manifests))
          BY <2>1, <3>1, PassPins DEF Inv, IInv
        <4>. QED
          BY <4>1, <4>2 DEF PassedIsPinned
      <3>2. CASE problems # {}
        BY <2>1, <3>2 DEF Inv, IInv, PassedIsPinned
      <3>. QED
        BY <3>1, <3>2
    <2>5. PassesIfExplained'
      <3>1. problems = {} <=> AllExplained
        BY <2>1, ReadableIs, NoProblems DEF Inv, IInv, AllExplained
      <3>2. report' = 0 <=> AllExplained'
        BY <1>2, <2>1, <3>1
      <3>. QED
        BY <3>2 DEF PassesIfExplained, AllExplained
    <2>. QED
      BY <2>2, <2>3, <2>4, <2>5 DEF Inv, IInv
  <1>. QED
    BY <1>3, <1>4

\* What is written by hand is a manifest and a register.
LEMMA EditKeeps ==
    /\ \A p \in PORTS : Inv /\ EditManifest(p) => Inv'
    /\ \A id \in Ids : Inv /\ (WriteEntry(id) \/ DeleteEntry(id)) => Inv'
    /\ Inv /\ SpoilRegister => Inv'
  <1>1. ASSUME Inv
        PROVE  IsRegister(register) /\ manifests \in [PORTS -> Manifest]
    BY <1>1 DEF Inv, IInv, TypeOK
  <1>2. ASSUME NEW p \in PORTS, Inv, EditManifest(p)
        PROVE  Inv'
    <2>1. WrittenManifests \subseteq Manifest
      BY DEF WrittenManifests, NoManifest, NamedFor, Manifest, ManifestKinds
    <2>2. ByHand /\ UNCHANGED <<register, todo, passed>> /\ manifests' \in [PORTS -> Manifest]
      BY <1>1, <1>2, <2>1 DEF EditManifest
    <2>. QED
      BY <1>1, <1>2, <2>2, HandKeeps
  <1>3. ASSUME NEW id \in Ids, Inv, WriteEntry(id)
        PROVE  Inv'
    <2>1. PICK entry \in WrittenEntries :
             register' = [register EXCEPT !.kind = "object",
                                          !.differ = With(@, id, entry)]
      BY <1>3 DEF WriteEntry
    <2>. DEFINE d == With(register.differ, id, entry)
    <2>2. register' = AsObject(d)
      BY <2>1 DEF AsObject
    <2>3. DOMAIN d \subseteq Ids /\ \A i \in DOMAIN d : d[i] \in Entries
      BY <1>1, <1>3, EntriesWritten DEF With, IsRegister
    <2>. HIDE DEF d
    <2>4. IsRegister(register')
      BY <1>1, <1>3, <2>2, <2>3, RegisterWritten
    <2>5. ByHand /\ UNCHANGED <<manifests, todo, passed>>
      BY <1>3 DEF WriteEntry
    <2>. QED
      BY <1>1, <1>3, <2>4, <2>5, HandKeeps
  <1>4. ASSUME NEW id \in Ids, Inv, DeleteEntry(id)
        PROVE  Inv'
    <2>. DEFINE d == Without(register.differ, id)
    <2>1. register' = Differing(d)
      BY <1>4 DEF DeleteEntry, Differing
    <2>2. /\ DOMAIN d \subseteq DOMAIN register.differ
          /\ \A i \in DOMAIN d : d[i] = register.differ[i]
          /\ DOMAIN register.differ # {}
      BY <1>4 DEF Without, DeleteEntry
    <2>. HIDE DEF d
    <2>3. IsRegister(register')
      BY <1>1, <1>4, <2>1, <2>2, RegisterWritten
    <2>4. ByHand /\ UNCHANGED <<manifests, todo, passed>>
      BY <1>4 DEF DeleteEntry
    <2>. QED
      BY <1>1, <1>4, <2>3, <2>4, HandKeeps
  <1>5. ASSUME Inv, SpoilRegister
        PROVE  Inv'
    <2>1. \/ \E k \in {"absent", "not JSON", "not an object"} : register' = Spoiled(k)
          \/ register' = NoDiffer
          \/ \E f \in RegisterFaults : register' = Faulty(register.faults \cup {f})
      BY <1>5 DEF SpoilRegister, Spoiled, NoDiffer, Faulty
    <2>2. {"absent", "not JSON", "not an object"} \subseteq RegisterKinds
      BY DEF RegisterKinds
    <2>3. \A f \in RegisterFaults : register.faults \cup {f} \in SUBSET RegisterFaults
      BY <1>1, <1>5 DEF IsRegister
    <2>4. IsRegister(register')
      BY <1>1, <1>5, <2>1, <2>2, <2>3, RegisterWritten
    <2>5. ByHand /\ UNCHANGED <<manifests, todo, passed>>
      BY <1>5 DEF SpoilRegister
    <2>. QED
      BY <1>1, <1>5, <2>4, <2>5, HandKeeps
  <1>. QED
    BY <1>2, <1>3, <1>4, <1>5

\* So is what is written on a report's advice.
LEMMA FixKeeps ==
    ASSUME Inv, NEW what, FixRegister(what) \/ FixManifests(what)
    PROVE  Inv'
  <1>1. IsRegister(register) /\ manifests \in [PORTS -> Manifest]
    BY DEF Inv, IInv, TypeOK
  <1>2. CASE FixRegister(what)
    <2>1. PICK prob \in todo :
             /\ \/ \E differ \in Advice(prob) : register' = AsObject(differ)
                \/ register' = Faulty(register.faults \ {prob.at})
                \/ register' = AsObject(<<>>)
                \/ register' = Spoiled("object")
             /\ Acted(prob)
             /\ UNCHANGED manifests
      BY <1>2 DEF FixRegister, AsObject, Faulty, Spoiled
    <2>2. \A d \in Advice(prob) : DOMAIN d \subseteq Ids /\ \A id \in DOMAIN d : d[id] \in Entries
      BY AdviceFits DEF Inv, IInv, TodoFits
    <2>3. register.faults \ {prob.at} \in SUBSET RegisterFaults
      BY <1>1 DEF IsRegister
    <2>4. "object" \in RegisterKinds
      BY DEF RegisterKinds
    <2>5. IsRegister(register')
      BY <1>1, <2>1, <2>2, <2>3, <2>4, RegisterWritten
    <2>. QED
      BY <1>1, <2>1, <2>5, ActedKeeps
  <1>3. CASE FixManifests(what)
    <2>1. PICK prob \in {pr \in todo : pr.what = what} :
             /\ \/ /\ prob.what \in {"unnamed", "disagree"}
                   /\ manifests' =
                        [p \in PORTS |-> IF manifests[p].kind = "read" /\ prob.at \in {p, This}
                                         THEN [manifests[p] EXCEPT !.id = This]
                                         ELSE manifests[p]]
                \/ /\ prob.what = "unreadable" /\ prob.at \in PORTS
                   /\ \E deps \in SUBSET Ids :
                         manifests' = [manifests EXCEPT ![prob.at] = NamedFor(This, deps)]
                \/ /\ prob.what = "unrecorded"
                   /\ manifests' =
                        [p \in PORTS |-> IF manifests[p].kind = "read"
                                         THEN [manifests[p] EXCEPT !.deps = @ \cup {prob.at}]
                                         ELSE manifests[p]]
             /\ Acted(prob)
             /\ UNCHANGED register
      BY <1>3 DEF FixManifests
    <2>2. \A p \in PORTS : [manifests[p] EXCEPT !.id = This] \in Manifest
      BY <1>1, ThisIsAnId DEF Manifest
    <2>3. \A deps \in SUBSET Ids : NamedFor(This, deps) \in Manifest
      BY ThisIsAnId DEF NamedFor, Manifest, ManifestKinds
    <2>4. prob.what = "unrecorded" =>
             \A p \in PORTS : [manifests[p] EXCEPT !.deps = @ \cup {prob.at}] \in Manifest
      <3>1. prob.what = "unrecorded" => prob.at \in Ids
        BY DEF Inv, IInv, TodoFits, AboutRepos
      <3>. QED
        BY <1>1, <3>1 DEF Manifest
    <2>5. manifests' \in [PORTS -> Manifest]
      BY <1>1, <2>1, <2>2, <2>3, <2>4
    <2>. QED
      BY <1>1, <2>1, <2>5, ActedKeeps
  <1>. QED
    BY <1>2, <1>3

\* Every reachable state satisfies it.
LEMMA Inductive == Spec => []Inv
  <1>1. Init => Inv
    BY InitInv
  <1>2. Inv /\ [Next]_vars => Inv'
    <2>1. ASSUME Inv, Next
          PROVE  Inv'
      BY <2>1, CheckKeeps, EditKeeps, FixKeeps DEF Next
    <2>2. ASSUME Inv, UNCHANGED vars
          PROVE  Inv'
      <3>1. UNCHANGED <<manifests, register, report, todo, passed, edits>>
        BY <2>2 DEF vars
      <3>2. TypeOK' /\ TodoFits' /\ PassedIsPinned'
        BY <2>2, <3>1 DEF Inv, IInv, TypeOK, TodoFits, PassedIsPinned
      <3>3. AllExplained' <=> AllExplained
        BY <3>1 DEF AllExplained, OneName, Explained
      <3>4. PassesIfExplained'
        BY <2>2, <3>1, <3>3 DEF Inv, PassesIfExplained, AllExplained
      <3>. QED
        BY <3>2, <3>4 DEF Inv, IInv
    <2>. QED
      BY <2>1, <2>2
  <1>. QED
    BY <1>1, <1>2, PTL DEF Spec

\* Whatever is written by hand or on advice, however late, the register holds
\* entries of the org's repos, and the register of the last check that passed
\* names every difference that check saw.
THEOREM Invariance == Spec => []IInv
  <1>1. Inv => IInv
    BY DEF Inv
  <1>. QED
    BY <1>1, Inductive, PTL

\* A check passes exactly on manifests that can be read and carry one name,
\* with a register that says no more and no less than what differs.
THEOREM PassesOnlyExplained == Spec => []PassesIfExplained
  <1>1. Inv => PassesIfExplained
    BY DEF Inv
  <1>. QED
    BY <1>1, Inductive, PTL

\* Two checks that pass over one register saw the same differences.
THEOREM RegisterPins == Spec => RegisterPinsDifferences
  <1>1. ASSUME Inv, Next, report' = 0, passed # Nothing, passed.register = register'
        PROVE  passed.differ = Differences(manifests)'
    <2>1. Check /\ Compare(manifests, register) = {}
      <3>1. report' # 0 \/ Check
        BY <1>1 DEF Next, CannotRead, EditManifest, WriteEntry, DeleteEntry, SpoilRegister,
                    ByHand, FixRegister, FixManifests, Acted, NoReport
      <3>. QED
        BY <1>1, <3>1 DEF Check
    <2>2. UNCHANGED <<manifests, register>> /\ Unreadable = {}
      BY <2>1 DEF Check
    <2>3. Pins(register, Differences(manifests))
      BY <1>1, <2>1, <2>2, PassPins DEF Inv, IInv
    <2>4. Pins(register, passed.differ)
      BY <1>1, <2>2 DEF Inv, IInv, PassedIsPinned
    <2>5. passed.differ = Differences(manifests)
      BY <2>3, <2>4, PinsOne
    <2>. QED
      BY <2>2, <2>5
  <1>2. Inv /\ [Next]_vars =>
            [(report' = 0 /\ passed # Nothing /\ passed.register = register')
                => passed.differ = Differences(manifests)']_vars
    BY <1>1
  <1>. QED
    BY <1>2, Inductive, PTL DEF Spec, RegisterPinsDifferences
=============================================================================
