---------------------------- MODULE ReleaseProofs ----------------------------
(***************************************************************************)
(* Theorems about Release for any number of runs, commits and failures:    *)
(* the inductive invariant IInv, and the safety properties it gives.       *)
(***************************************************************************)
EXTENDS Release, TLAPS, FiniteSetTheorems, SequenceTheorems, Recursion

\* A run that was started is at a commit of main, and so at a version.
LEMMA StartedHasVersion ==
    ASSUME IInv, NEW r \in Runs, Started(r)
    PROVE  HasVersion(sha[r], V(r)) /\ V(r) \in Versions
  <1>1. sha[r] \in 0 .. Tip /\ sha[r] # 0
    BY DEF IInv, TypeOK, RunsTyped, JobsInOrder, None
  <1>2. version \in Seq(Versions) /\ Tip \in Nat
    BY BoundsAreNumbers DEF IInv, TypeOK, Commits
  <1>3. sha[r] \in 1 .. Len(version)
    BY <1>1, <1>2 DEF Tip
  <1>. QED
    BY <1>2, <1>3, ElementOfSeq DEF HasVersion, V, Tip

\* A job that moves leaves every other job where it is.
LEMMA AtMoves ==
    ASSUME pc \in [Runs -> [Jobs -> Steps]], NEW r \in Runs, NEW job \in Jobs,
           NEW here, NEW there, At(r, job, here, there)
    PROVE  /\ pc[r][job] = here /\ pc'[r][job] = there
           /\ \A q \in Runs, other \in Jobs :
                 q # r \/ other # job => pc'[q][other] = pc[q][other]
  BY DEF At

\* A job moves from one step to another.
LEMMA AtTyped ==
    ASSUME pc \in [Runs -> [Jobs -> Steps]], NEW r \in Runs, NEW job \in Jobs,
           NEW here, NEW there \in Steps, At(r, job, here, there)
    PROVE  /\ pc' \in [Runs -> [Jobs -> Steps]]
           /\ pc[r][job] = here /\ pc'[r][job] = there
           /\ \A q \in Runs, other \in Jobs :
                 <<q, other>> # <<r, job>> => pc'[q][other] = pc[q][other]
  BY DEF At

(***************************************************************************)
(* Once a go/v tag is there, Highest is the highest version with one.      *)
(***************************************************************************)
LEMMA HighestIsTagged ==
    ASSUME NEW v \in Versions, GoTagged(v)
    PROVE  /\ Highest \in Versions /\ GoTagged(Highest)
           /\ \A w \in Versions : GoTagged(w) => w <= Highest
  <1>. DEFINE S == {w \in Versions : GoTagged(w)}
  <1>1. S \subseteq 0 .. MaxCommits /\ S # {} /\ MaxCommits \in Nat
    BY BoundsAreNumbers DEF Versions
  <1>2. PICK x \in S : \A y \in S : y <= x
    <2>. HIDE DEF S
    <2>. QED
      BY <1>1, GreatestExists
  <1>. QED
    BY <1>2 DEF Highest, GoTagged

\* The jobs after publish-npm work on the go/v tag, which is there.
LEMMA WorksOnGoTag ==
    ASSUME IInv, NEW r \in Runs, NEW job \in {"clib", "crates"},
           pc[r][job] \notin {"not started", "skipped"}
    PROVE  /\ Started(r) /\ V(r) \in Versions /\ GoTagged(V(r))
           /\ HasVersion(tag[<<"go", V(r)>>], V(r))
  <1>1. Started(r) /\ GoTagged(V(r))
    BY DEF IInv, JobsInOrder, Started
  <1>. QED
    BY <1>1, StartedHasVersion DEF IInv, TypeOK, GoTagged

\* The tags a run may create are of its own version.
LEMMA WantedTags ==
    ASSUME NEW r \in Runs
    PROVE  /\ Wanted(r) \subseteq Lines \X {V(r)}
           /\ <<"ts", V(r)>> \in Wanted(r)
  <1>. DEFINE L == {l \in Lines : l = "go" => event[r] = "dispatch, go"}
  <1>1. L \subseteq Lines /\ "ts" \in L
    BY DEF Lines
  <1>2. Wanted(r) = {<<l, V(r)>> : l \in L}
    BY Zenon DEF Wanted
  <1>. HIDE DEF L
  <1>. QED
    BY <1>1, <1>2

\* Before the first release there is nothing to be wrong.
LEMMA InitIInv == Init => IInv
  <1>. SUFFICES ASSUME Init PROVE IInv
    OBVIOUS
  <1>1. Versions \subseteq Nat /\ 1 \in Versions /\ 1 \in Commits /\ None \notin Versions
    BY BoundsAreNumbers DEF Versions, Commits, None
  <1>2. Tip = 1 /\ version \in Seq(Versions) /\ version[1] = 1
    <2>1. version = <<1>>
      BY DEF Init
    <2>. QED
      BY <1>1, <2>1 DEF Tip
  <1>3. TypeOK
    <2>1. RunsTyped
      <3>1. pc \in [Runs -> [Jobs -> Steps]] /\ event \in [Runs -> Events]
        BY DEF Init, Steps, Idle, Events
      <3>2. sha \in [Runs -> 0 .. Tip] /\ anchor \in [Runs -> 0 .. Tip]
        <4>1. 0 \in 0 .. Tip
          BY <1>2
        <4>. QED
          BY <4>1 DEF Init, None
      <3>3. missing \in [Runs -> SUBSET Tags]
        BY DEF Init
      <3>4. highest \in [Runs -> Versions \cup {None}] /\ seen \in [Runs -> Versions \cup {None}]
        BY DEF Init
      <3>. QED
        BY <3>1, <3>2, <3>3, <3>4 DEF RunsTyped
    <2>2. page \in [Versions -> Pages] /\ latest \in Versions \cup {None}
      BY DEF Init, Pages, NoPage
    <2>3. /\ DOMAIN tag = {} /\ DOMAIN npm = {} /\ DOMAIN crate = {}
          /\ failures \in 0 .. MaxFailures
      <3>1. DOMAIN tag = {} /\ DOMAIN npm = {} /\ DOMAIN crate = {}
        BY DEF Init
      <3>2. failures = 0
        BY DEF Init
      <3>. QED
        BY <3>1, <3>2, BoundsAreNumbers
    <2>4. \A r \in Runs : highest[r] = None /\ pc[r]["clib"] = "not started"
      BY DEF Init, Jobs
    <2>. QED
      BY <1>1, <1>2, <2>1, <2>2, <2>3, <2>4 DEF TypeOK
  <1>4. VersionsInOrder
    BY <1>2 DEF VersionsInOrder
  <1>5. JobsInOrder /\ AnchorFits /\ EditsWhatItRead
    BY DEF Init, JobsInOrder, Started, AnchorFits, EditsWhatItRead, Jobs
  <1>6. GoFollowsTs /\ BuiltFromGoTag
    BY <1>1 DEF Init, GoFollowsTs, BuiltFromGoTag, GoTagged, NoPage
  <1>. QED
    BY <1>3, <1>4, <1>5, <1>6 DEF IInv

-----------------------------------------------------------------------------
(* What no step takes back.                                                *)

(***************************************************************************)
(* main only gains commits, and a new one raises the version by one, if at *)
(* all.                                                                    *)
(***************************************************************************)
LEMMA VersionGrows ==
    ASSUME IInv, [Next]_vars
    PROVE  /\ version' \in Seq(Versions) /\ Tip' \in Commits /\ Tip \in Nat /\ Tip' \in Nat
           /\ Tip <= Tip' /\ \A c \in 1 .. Tip : version'[c] = version[c]
           /\ VersionsInOrder'
  <1>1. /\ version \in Seq(Versions) /\ Tip \in 1 .. MaxCommits /\ MaxCommits \in Nat
        /\ \A c \in 1 .. Tip : version[c] <= c
    BY BoundsAreNumbers DEF IInv, TypeOK, VersionsInOrder, Commits
  <1>2. CASE Merge
    <2>1. PICK v \in {version[Tip], version[Tip] + 1} : version' = Append(version, v)
      BY <1>2 DEF Merge
    <2>2. version[Tip] \in 1 .. MaxCommits /\ version[Tip] <= Tip /\ Tip < MaxCommits
      BY <1>1, <1>2, ElementOfSeq DEF Merge, Tip, Versions
    <2>3. v \in Versions /\ v <= Tip + 1
      BY <1>1, <2>2 DEF Versions
    <2>4. /\ version' \in Seq(Versions) /\ Tip' = Tip + 1
          /\ \A c \in 1 .. Tip : version'[c] = version[c]
          /\ version'[Tip + 1] = v
      BY <1>1, <2>1, <2>3, AppendProperties DEF Tip
    <2>. QED
      BY <1>1, <2>2, <2>3, <2>4 DEF Commits, VersionsInOrder
  <1>3. CASE UNCHANGED version
    BY <1>1, <1>3 DEF Commits, VersionsInOrder, Tip
  <1>. QED
    BY <1>2, <1>3 DEF Next, vars, Dispatch, PushTag, Start, Rerun, Step, Checkout, Decide,
       ViewNpm, Publish, Tag, HandOver, Ensure, Artifacts, ReadPage, EditPage, ReadCrate,
       PublishCrate, NpmUnseen, Fail

(***************************************************************************)
(* A tag stays where it is, and npm keeps a version it serves.             *)
(***************************************************************************)
LEMMA TagsStay ==
    ASSUME IInv, [Next]_vars
    PROVE  /\ \A t \in DOMAIN tag : t \in DOMAIN tag' /\ tag'[t] = tag[t]
           /\ \A v \in DOMAIN npm : v \in DOMAIN npm' /\ npm'[v] = npm[v]
  <1>1. CASE UNCHANGED <<tag, npm>>
    BY <1>1
  <1>2. ASSUME NEW r \in Runs, PushTag(r)
        PROVE  UNCHANGED npm /\ \A t \in DOMAIN tag : t \in DOMAIN tag' /\ tag'[t] = tag[t]
    BY <1>2 DEF PushTag, Put, Start, served
  <1>3. ASSUME NEW r \in Runs, Tag(r)
        PROVE  UNCHANGED npm /\ \A t \in DOMAIN tag : t \in DOMAIN tag' /\ tag'[t] = tag[t]
    BY <1>3 DEF Tag, served
  <1>4. ASSUME NEW r \in Runs, Publish(r)
        PROVE  UNCHANGED tag /\ \A v \in DOMAIN npm : v \in DOMAIN npm' /\ npm'[v] = npm[v]
    BY <1>4 DEF Publish, Put
  <1>. QED
    BY <1>1, <1>2, <1>3, <1>4 DEF Next, vars, served, Merge, Dispatch, Start, Rerun, Step,
       Checkout, Decide, ViewNpm, HandOver, Ensure, Artifacts, ReadPage, EditPage, ReadCrate,
       PublishCrate, NpmUnseen, Fail

(***************************************************************************)
(* A run that was started stays at its commit, whatever the others do.     *)
(***************************************************************************)
LEMMA RunsKeepTheirCommit ==
    ASSUME IInv, [Next]_vars, NEW r \in Runs, Started(r)
    PROVE  /\ Started(r)'
           /\ sha'[r] = sha[r] /\ event'[r] = event[r] /\ V(r)' = V(r)
  <1>1. /\ pc \in [Runs -> [Jobs -> Steps]] /\ sha \in [Runs -> 0 .. Tip]
        /\ event \in [Runs -> Events] /\ "publish-npm" \in Jobs
    BY DEF IInv, TypeOK, RunsTyped, Jobs
  <1>2. ASSUME NEW q \in Runs, NEW e, NEW c, Start(q, e, c)
        PROVE  Started(r)' /\ sha'[r] = sha[r] /\ event'[r] = event[r]
    BY <1>1, <1>2 DEF Start, At, Started
  <1>3. ASSUME NEW q \in Runs, NEW job \in Jobs, NEW here, NEW there,
               At(q, job, here, there), there # "not started"
        PROVE  Started(r)'
    BY <1>1, <1>3 DEF At, Started
  <1>4. ASSUME NEW q \in Runs, HandOver(q) \/ Fail(q)
        PROVE  Started(r)'
    <2>1. CASE HandOver(q)
      BY <1>1, <2>1 DEF HandOver, Started
    <2>2. CASE Fail(q)
      BY <1>1, <2>2 DEF Fail, Started
    <2>. QED
      BY <1>4, <2>1, <2>2
  <1>5. ASSUME NEW q \in Runs, Rerun(q) \/ Step(q) \/ NpmUnseen(q) \/ Fail(q)
        PROVE  UNCHANGED <<sha, event>>
    BY <1>5 DEF Rerun, Step, Checkout, Decide, ViewNpm, Publish, Tag, HandOver, Ensure,
       Artifacts, ReadPage, EditPage, ReadCrate, PublishCrate, NpmUnseen, Fail, run
  <1>6. ASSUME NEW q \in Runs, Rerun(q) \/ Step(q) \/ NpmUnseen(q)
        PROVE  Started(r)'
    <2>1. CASE Rerun(q)
      BY <1>3, <2>1 DEF Rerun, Jobs
    <2>2. CASE Checkout(q) \/ Decide(q) \/ ViewNpm(q) \/ Publish(q) \/ Tag(q) \/ NpmUnseen(q)
      BY <1>3, <2>2 DEF Checkout, Decide, ViewNpm, Publish, Tag, NpmUnseen, Jobs
    <2>3. CASE Ensure(q) \/ Artifacts(q) \/ ReadPage(q) \/ EditPage(q) \/ ReadCrate(q) \/ PublishCrate(q)
      BY <1>3, <2>3 DEF Ensure, Artifacts, ReadPage, EditPage, ReadCrate, PublishCrate, Jobs
    <2>. QED
      BY <1>4, <1>6, <2>1, <2>2, <2>3 DEF Step
  <1>7. Started(r)' /\ sha'[r] = sha[r] /\ event'[r] = event[r]
    <2>1. CASE Merge \/ UNCHANGED vars
      BY <2>1 DEF Merge, vars, run, Started
    <2>2. CASE \E q \in Runs : Dispatch(q) \/ PushTag(q)
      BY <1>2, <2>2 DEF Dispatch, PushTag
    <2>3. CASE \E q \in Runs : Rerun(q) \/ Step(q) \/ NpmUnseen(q) \/ Fail(q)
      BY <1>4, <1>5, <1>6, <2>3
    <2>. QED
      BY <2>1, <2>2, <2>3 DEF Next
  <1>. QED
    BY <1>7, VersionGrows, StartedHasVersion DEF V, HasVersion

-----------------------------------------------------------------------------
(* The type invariant.                                                     *)

(***************************************************************************)
(* The jobs of a run are always at one of their steps.                     *)
(***************************************************************************)
LEMMA JobsAtSteps ==
    ASSUME IInv, [Next]_vars
    PROVE  pc' \in [Runs -> [Jobs -> Steps]]
  <1>1. pc \in [Runs -> [Jobs -> Steps]]
    BY DEF IInv, TypeOK, RunsTyped
  <1>2. CASE Merge \/ UNCHANGED vars
    BY <1>1, <1>2 DEF Merge, vars
  <1>3. ASSUME NEW r \in Runs, Dispatch(r) \/ PushTag(r) \/ Rerun(r)
        PROVE  pc' \in [Runs -> [Jobs -> Steps]]
    BY <1>1, <1>3, AtTyped DEF Dispatch, PushTag, Start, Rerun, Jobs, Steps
  <1>4. ASSUME NEW r \in Runs, Checkout(r) \/ Decide(r) \/ ViewNpm(r) \/ NpmUnseen(r)
        PROVE  pc' \in [Runs -> [Jobs -> Steps]]
    BY <1>1, <1>4, AtTyped DEF Checkout, Decide, ViewNpm, NpmUnseen, Jobs, Steps, Idle
  <1>5. ASSUME NEW r \in Runs, Publish(r) \/ Tag(r)
        PROVE  pc' \in [Runs -> [Jobs -> Steps]]
    BY <1>1, <1>5, AtTyped DEF Publish, Tag, Jobs, Steps, Idle
  <1>6. ASSUME NEW r \in Runs, HandOver(r) \/ Fail(r)
        PROVE  pc' \in [Runs -> [Jobs -> Steps]]
    <2>1. CASE HandOver(r)
      BY <1>1, <2>1 DEF HandOver, Steps, Idle
    <2>2. CASE Fail(r)
      <3>1. PICK job \in Jobs : pc' = [pc EXCEPT ![r][job] = "failed"]
        BY <2>2 DEF Fail
      <3>. QED
        BY <1>1, <3>1 DEF Steps, Idle
    <2>. QED
      BY <1>6, <2>1, <2>2
  <1>7. ASSUME NEW r \in Runs, Ensure(r) \/ Artifacts(r) \/ ReadPage(r) \/ EditPage(r)
        PROVE  pc' \in [Runs -> [Jobs -> Steps]]
    BY <1>1, <1>7, AtTyped DEF Ensure, Artifacts, ReadPage, EditPage, Jobs, Steps, Idle
  <1>8. ASSUME NEW r \in Runs, ReadCrate(r) \/ PublishCrate(r)
        PROVE  pc' \in [Runs -> [Jobs -> Steps]]
    BY <1>1, <1>8, AtTyped DEF ReadCrate, PublishCrate, Jobs, Steps, Idle
  <1>. QED
    BY <1>2, <1>3, <1>4, <1>5, <1>6, <1>7, <1>8 DEF Next, Step

(***************************************************************************)
(* What a run remembers keeps its type.  Whether it remembers the tags it  *)
(* read tells whether it is about to edit the Release.                     *)
(***************************************************************************)
LEMMA MemoryTyped ==
    ASSUME IInv, [Next]_vars
    PROVE  /\ highest' \in [Runs -> Versions \cup {None}]
           /\ seen' \in [Runs -> Versions \cup {None}]
           /\ \A r \in Runs : highest'[r] # None <=> pc'[r]["clib"] = "edit"
  <1>. DEFINE P == /\ highest' \in [Runs -> Versions \cup {None}]
                   /\ seen' \in [Runs -> Versions \cup {None}]
                   /\ \A r \in Runs : highest'[r] # None <=> pc'[r]["clib"] = "edit"
  <1>1. /\ pc \in [Runs -> [Jobs -> Steps]] /\ "clib" \in Jobs /\ "publish-npm" \in Jobs
        /\ highest \in [Runs -> Versions \cup {None}]
        /\ seen \in [Runs -> Versions \cup {None}] /\ latest \in Versions \cup {None}
        /\ \A r \in Runs : highest[r] # None <=> pc[r]["clib"] = "edit"
        /\ None \notin Versions
    BY BoundsAreNumbers DEF IInv, TypeOK, RunsTyped, Jobs, Versions, None
  <1>. DEFINE Same == /\ UNCHANGED <<highest, seen>>
                      /\ \A r \in Runs : pc'[r]["clib"] = "edit" <=> pc[r]["clib"] = "edit"
  <1>2. Same => P
    BY <1>1
  <1>3. CASE Merge \/ UNCHANGED vars
    BY <1>2, <1>3 DEF Merge, vars, run
  <1>4. ASSUME NEW r \in Runs, NEW job \in Jobs, NEW here, NEW there, At(r, job, here, there),
               job = "clib" => here # "edit" /\ there # "edit", UNCHANGED <<highest, seen>>
        PROVE  Same
    BY <1>1, <1>4, AtMoves
  <1>5. ASSUME NEW r \in Runs, Dispatch(r) \/ PushTag(r) \/ Rerun(r)
        PROVE  Same
    <2>1. CASE Dispatch(r) \/ PushTag(r)
      BY <1>1, <1>4, <2>1 DEF Dispatch, PushTag, Start
    <2>2. CASE Rerun(r)
      BY <1>1, <1>4, <2>2 DEF Rerun, run
    <2>. QED
      BY <1>5, <2>1, <2>2
  <1>6. ASSUME NEW r \in Runs,
               Checkout(r) \/ Decide(r) \/ ViewNpm(r) \/ NpmUnseen(r) \/ Publish(r) \/ Tag(r)
        PROVE  Same
    BY <1>1, <1>4, <1>6 DEF Checkout, Decide, ViewNpm, NpmUnseen, Publish, Tag, run
  <1>7. ASSUME NEW r \in Runs, HandOver(r)
        PROVE  Same
    <2>1. pc[r]["clib"] = "not started"
      BY <1>7 DEF IInv, JobsInOrder, HandOver
    <2>. QED
      BY <1>1, <1>7, <2>1 DEF HandOver, run
  <1>8. ASSUME NEW r \in Runs, Ensure(r) \/ Artifacts(r)
        PROVE  Same
    BY <1>1, <1>8 DEF At, Ensure, Artifacts, run
  <1>9. ASSUME NEW r \in Runs, ReadPage(r)
        PROVE  P
    <2>1. V(r) \in Versions /\ GoTagged(V(r))
      BY <1>9, WorksOnGoTag DEF ReadPage, At
    <2>2. Highest \in Versions
      BY <2>1, HighestIsTagged
    <2>. QED
      BY <1>1, <1>9, <2>2 DEF ReadPage, At
  <1>10. ASSUME NEW r \in Runs, EditPage(r)
         PROVE  P
    BY <1>1, <1>10 DEF EditPage, At, Forget
  <1>11. ASSUME NEW r \in Runs, ReadCrate(r) \/ PublishCrate(r)
         PROVE  Same
    BY <1>1, <1>11, AtMoves DEF Jobs, ReadCrate, PublishCrate, run
  <1>12. ASSUME NEW r \in Runs, Fail(r)
         PROVE  P
    <2>1. PICK job \in Jobs : /\ pc' = [pc EXCEPT ![r][job] = "failed"]
                              /\ pc[r][job] \notin Idle
                              /\ IF job = "clib" THEN Forget(r) ELSE UNCHANGED <<highest, seen>>
      BY <1>12 DEF Fail
    <2>2. CASE job = "clib"
      BY <1>1, <2>1, <2>2 DEF Forget
    <2>3. CASE job # "clib"
      BY <1>1, <1>2, <2>1, <2>3
    <2>. QED
      BY <2>2, <2>3
  <1>. QED
    BY <1>2, <1>3, <1>4, <1>5, <1>6, <1>7, <1>8, <1>9, <1>10, <1>11, <1>12 DEF Next, Step

(***************************************************************************)
(* What a Tag step writes: tags of the run's own version, at its anchor,   *)
(* none of which was there.                                                *)
(***************************************************************************)
LEMMA TagWrites ==
    ASSUME IInv, NEW r \in Runs, Tag(r), tag' # tag
    PROVE  /\ tag' = [t \in DOMAIN tag \cup missing[r] |->
                         IF t \in missing[r] THEN anchor[r] ELSE tag[t]]
           /\ missing[r] \cap DOMAIN tag = {}
           /\ missing[r] \subseteq Lines \X {V(r)}
           /\ HasVersion(anchor[r], V(r)) /\ V(r) \in Versions /\ V(r) \in DOMAIN npm
           /\ <<"go", V(r)>> \in missing[r] =>
                 \/ <<"ts", V(r)>> \in missing[r]
                 \/ <<"ts", V(r)>> \in DOMAIN tag /\ tag[<<"ts", V(r)>>] = anchor[r]
  <1>1. pc[r]["publish-npm"] = "tag" /\ "publish-npm" \in Jobs
    BY DEF Tag, At, Jobs
  <1>2. V(r) \in Versions
    BY <1>1, StartedHasVersion DEF Started
  <1>3. AnchorFits
    BY DEF IInv
  <1>. QED
    BY <1>1, <1>2, <1>3 DEF AnchorFits, Tag

\* Only versions main has had are tagged, at a commit that has the version.
LEMMA TagsTyped ==
    ASSUME IInv, [Next]_vars
    PROVE  /\ DOMAIN tag' \subseteq Tags
           /\ \A t \in DOMAIN tag' : tag'[t] \in 1 .. Tip' /\ version'[tag'[t]] = t[2]
  <1>. DEFINE P == /\ DOMAIN tag' \subseteq Tags
                   /\ \A t \in DOMAIN tag' : tag'[t] \in 1 .. Tip' /\ version'[tag'[t]] = t[2]
  <1>1. /\ DOMAIN tag \subseteq Tags
        /\ \A t \in DOMAIN tag : tag[t] \in 1 .. Tip' /\ version'[tag[t]] = t[2]
    <2>1. /\ DOMAIN tag \subseteq Tags
          /\ \A t \in DOMAIN tag : tag[t] \in 1 .. Tip /\ version[tag[t]] = t[2]
      BY DEF IInv, TypeOK, HasVersion
    <2>. QED
      BY <2>1, VersionGrows
  <1>2. CASE UNCHANGED tag
    BY <1>1, <1>2
  <1>3. ASSUME NEW r \in Runs, PushTag(r)
        PROVE  P
    <2>1. tag' = Put(tag, <<"ts", version[Tip]>>, Tip) /\ UNCHANGED version
      BY <1>3 DEF PushTag, Start
    <2>2. Tip \in 1 .. Tip' /\ version'[Tip] = version[Tip] /\ version[Tip] \in Versions
      <3>1. version \in Seq(Versions) /\ Tip \in 1 .. MaxCommits
        BY DEF IInv, TypeOK, Commits
      <3>. QED
        BY <2>1, <3>1, BoundsAreNumbers, ElementOfSeq DEF Tip
    <2>3. <<"ts", version[Tip]>> \in Tags
      BY <2>2 DEF Tags, Lines
    <2>. QED
      BY <1>1, <2>1, <2>2, <2>3 DEF Put
  <1>4. ASSUME NEW r \in Runs, Tag(r), tag' # tag
        PROVE  P
    <2>1. /\ tag' = [t \in DOMAIN tag \cup missing[r] |->
                        IF t \in missing[r] THEN anchor[r] ELSE tag[t]]
          /\ missing[r] \subseteq Lines \X {V(r)} /\ V(r) \in Versions
          /\ HasVersion(anchor[r], V(r))
      BY <1>4, TagWrites
    <2>2. anchor[r] \in 1 .. Tip' /\ version'[anchor[r]] = V(r)
      BY <2>1, VersionGrows DEF HasVersion
    <2>3. missing[r] \subseteq Tags /\ \A t \in missing[r] : t[2] = V(r)
      BY <2>1 DEF Tags
    <2>. QED
      BY <1>1, <2>1, <2>2, <2>3
  <1>5. ASSUME NEW r \in Runs, Step(r), ~Tag(r)
        PROVE  UNCHANGED tag
    BY <1>5 DEF Step, Checkout, Decide, ViewNpm, Publish, HandOver, Ensure, Artifacts,
       ReadPage, EditPage, ReadCrate, PublishCrate
  <1>. QED
    BY <1>2, <1>3, <1>4, <1>5 DEF Next, vars, Merge, Dispatch, Rerun, NpmUnseen, Fail

\* What npm and crates.io serve was built from a commit that has the version.
LEMMA ServedTyped ==
    ASSUME IInv, [Next]_vars
    PROVE  /\ \A v \in DOMAIN npm' : npm'[v] \in 1 .. Tip' /\ version'[npm'[v]] = v
           /\ \A v \in DOMAIN crate' : crate'[v] \in 1 .. Tip' /\ version'[crate'[v]] = v
  <1>1. /\ \A v \in DOMAIN npm : npm[v] \in 1 .. Tip' /\ version'[npm[v]] = v
        /\ \A v \in DOMAIN crate : crate[v] \in 1 .. Tip' /\ version'[crate[v]] = v
    <2>1. /\ \A v \in DOMAIN npm : npm[v] \in 1 .. Tip /\ version[npm[v]] = v
          /\ \A v \in DOMAIN crate : crate[v] \in 1 .. Tip /\ version[crate[v]] = v
      BY DEF IInv, TypeOK, HasVersion
    <2>. QED
      BY <2>1, VersionGrows
  <1>2. CASE UNCHANGED <<npm, crate>>
    BY <1>1, <1>2
  <1>3. ASSUME NEW r \in Runs, Publish(r)
        PROVE  /\ UNCHANGED crate
               /\ \A v \in DOMAIN npm' : npm'[v] \in 1 .. Tip' /\ version'[npm'[v]] = v
    <2>1. HasVersion(sha[r], V(r))
      BY <1>3, StartedHasVersion DEF Publish, At, Started
    <2>2. sha[r] \in 1 .. Tip' /\ version'[sha[r]] = V(r)
      BY <2>1, VersionGrows DEF HasVersion
    <2>. QED
      BY <1>1, <1>3, <2>2 DEF Publish, Put
  <1>4. ASSUME NEW r \in Runs, PublishCrate(r)
        PROVE  /\ UNCHANGED npm
               /\ \A v \in DOMAIN crate' : crate'[v] \in 1 .. Tip' /\ version'[crate'[v]] = v
    <2>1. HasVersion(tag[<<"go", V(r)>>], V(r))
      BY <1>4, WorksOnGoTag DEF PublishCrate, At
    <2>2. tag[<<"go", V(r)>>] \in 1 .. Tip' /\ version'[tag[<<"go", V(r)>>]] = V(r)
      BY <2>1, VersionGrows DEF HasVersion
    <2>. QED
      BY <1>1, <1>4, <2>2 DEF PublishCrate, Put
  <1>5. ASSUME NEW r \in Runs, Step(r), ~Publish(r), ~PublishCrate(r)
        PROVE  UNCHANGED <<npm, crate>>
    BY <1>5 DEF Step, Checkout, Decide, ViewNpm, Tag, HandOver, Ensure, Artifacts, ReadPage,
       EditPage, ReadCrate, served
  <1>. QED
    BY <1>1, <1>2, <1>3, <1>4, <1>5
    DEF Next, vars, Merge, Dispatch, PushTag, Start, Rerun, NpmUnseen, Fail, served

\* The GitHub Releases, and which of them is the latest.
LEMMA PagesTyped ==
    ASSUME IInv, [Next]_vars
    PROVE  page' \in [Versions -> Pages] /\ latest' \in Versions \cup {None}
  <1>1. /\ page \in [Versions -> Pages] /\ latest \in Versions \cup {None}
        /\ Tip \in Commits
    BY DEF IInv, TypeOK
  <1>2. CASE UNCHANGED <<page, latest>>
    BY <1>1, <1>2
  <1>3. ASSUME NEW r \in Runs, Ensure(r)
        PROVE  page' \in [Versions -> Pages] /\ UNCHANGED latest
    BY <1>1, <1>3 DEF Ensure, Pages
  <1>4. ASSUME NEW r \in Runs, Artifacts(r)
        PROVE  page' \in [Versions -> Pages] /\ UNCHANGED latest
    <2>1. HasVersion(tag[<<"go", V(r)>>], V(r))
      BY <1>4, WorksOnGoTag DEF Artifacts, At
    <2>2. tag[<<"go", V(r)>>] \in Commits
      BY <1>1, <2>1, BoundsAreNumbers DEF HasVersion, Commits
    <2>. QED
      BY ZenonT(30), <1>1, <1>4, <2>2 DEF Artifacts, Pages
  <1>5. ASSUME NEW r \in Runs, EditPage(r)
        PROVE  page' \in [Versions -> Pages] /\ latest' \in Versions \cup {None}
    <2>1. V(r) \in Versions
      BY <1>5, WorksOnGoTag DEF EditPage, At
    <2>. QED
      BY <1>1, <1>5, <2>1 DEF EditPage, Pages
  <1>6. ASSUME NEW r \in Runs, Step(r), ~Ensure(r), ~Artifacts(r), ~EditPage(r)
        PROVE  UNCHANGED <<page, latest>>
    BY <1>6 DEF Step, Checkout, Decide, ViewNpm, Publish, Tag, HandOver, ReadPage, ReadCrate,
       PublishCrate, served
  <1>. QED
    BY <1>1, <1>2, <1>3, <1>4, <1>5, <1>6
    DEF Next, vars, Merge, Dispatch, PushTag, Start, Rerun, NpmUnseen, Fail, served

\* The events, commits, anchors and missing tags of the runs.
LEMMA ChoicesTyped ==
    ASSUME IInv, [Next]_vars
    PROVE  /\ event' \in [Runs -> Events] /\ sha' \in [Runs -> 0 .. Tip']
           /\ missing' \in [Runs -> SUBSET Tags] /\ anchor' \in [Runs -> 0 .. Tip']
  <1>1. /\ event \in [Runs -> Events] /\ sha \in [Runs -> 0 .. Tip']
        /\ missing \in [Runs -> SUBSET Tags] /\ anchor \in [Runs -> 0 .. Tip']
        /\ Tip \in 0 .. Tip'
    <2>1. /\ event \in [Runs -> Events] /\ sha \in [Runs -> 0 .. Tip]
          /\ missing \in [Runs -> SUBSET Tags] /\ anchor \in [Runs -> 0 .. Tip]
      BY DEF IInv, TypeOK, RunsTyped
    <2>2. 0 .. Tip \subseteq 0 .. Tip' /\ Tip \in 0 .. Tip'
      BY VersionGrows
    <2>. QED
      BY <2>1, <2>2
  <1>2. CASE UNCHANGED <<event, sha, missing, anchor>>
    BY <1>1, <1>2
  <1>3. ASSUME NEW r \in Runs, NEW e \in Events, Start(r, e, Tip)
        PROVE  /\ event' \in [Runs -> Events] /\ sha' \in [Runs -> 0 .. Tip']
               /\ UNCHANGED <<missing, anchor>>
    BY <1>1, <1>3 DEF Start
  <1>4. ASSUME NEW r \in Runs, Checkout(r)
        PROVE  /\ missing' \in [Runs -> SUBSET Tags] /\ anchor' \in [Runs -> 0 .. Tip']
               /\ UNCHANGED <<event, sha>>
    <2>1. V(r) \in Versions
      BY <1>4, StartedHasVersion DEF Checkout, At, Started
    <2>2. Wanted(r) \subseteq Tags
      BY <2>1, WantedTags DEF Tags
    <2>3. \A t \in DOMAIN tag : tag[t] \in 0 .. Tip'
      <3>1. \A t \in DOMAIN tag : tag[t] \in DOMAIN version /\ tag[t] \in 1 .. Tip
        BY DEF IInv, TypeOK, HasVersion, Tip
      <3>. QED
        BY <3>1, VersionGrows
    <2>4. ASSUME Wanted(r) \cap DOMAIN tag # {}
          PROVE  <<IF <<"ts", V(r)>> \in Wanted(r) \cap DOMAIN tag THEN "ts" ELSE "go", V(r)>>
                    \in DOMAIN tag
      BY <2>4 DEF Wanted, Lines
    <2>5. sha[r] \in 0 .. Tip'
      BY <1>1
    <2>. QED
      BY <1>1, <1>4, <2>2, <2>3, <2>4, <2>5 DEF Checkout
  <1>5. ASSUME NEW r \in Runs, Step(r), ~Checkout(r)
        PROVE  UNCHANGED <<event, sha, missing, anchor>>
    BY <1>5 DEF Step, Decide, ViewNpm, Publish, Tag, HandOver, Ensure, Artifacts, ReadPage,
       EditPage, ReadCrate, PublishCrate, run
  <1>. QED
    BY <1>1, <1>2, <1>3, <1>4, <1>5
    DEF Next, vars, Merge, Dispatch, PushTag, Rerun, NpmUnseen, Fail, run, Events

\* Every step keeps the types.
LEMMA TypeStays ==
    ASSUME IInv, [Next]_vars
    PROVE  TypeOK'
  <1>1. failures' \in 0 .. MaxFailures
    <2>1. failures \in 0 .. MaxFailures /\ MaxFailures \in Nat
      BY BoundsAreNumbers DEF IInv, TypeOK
    <2>2. UNCHANGED failures \/ (failures < MaxFailures /\ failures' = failures + 1)
      BY ZenonT(30) DEF Next, vars, Merge, Dispatch, PushTag, Start, Rerun, Step, Checkout, Decide,
         ViewNpm, Publish, Tag, HandOver, Ensure, Artifacts, ReadPage, EditPage, ReadCrate,
         PublishCrate, NpmUnseen, Fail
    <2>. QED
      BY <2>1, <2>2
  <1>2. RunsTyped'
    BY JobsAtSteps, MemoryTyped, ChoicesTyped DEF RunsTyped
  <1>. QED
    BY <1>1, <1>2, VersionGrows, TagsTyped, ServedTyped, PagesTyped, MemoryTyped
    DEF TypeOK, HasVersion

-----------------------------------------------------------------------------
(* The other parts of the invariant.                                       *)

\* What one run does leaves the jobs of the others where they are.
LEMMA OneRunMoves ==
    ASSUME IInv, [Next]_vars, NEW r \in Runs
    PROVE  \/ pc'[r] = pc[r]
           \/ Dispatch(r) \/ PushTag(r) \/ Rerun(r) \/ Step(r) \/ NpmUnseen(r) \/ Fail(r)
  <1>1. pc \in [Runs -> [Jobs -> Steps]]
    BY DEF IInv, TypeOK, RunsTyped
  <1>2. ASSUME NEW q \in Runs, q # r, NEW job, NEW here, NEW there, At(q, job, here, there)
        PROVE  pc'[r] = pc[r]
    BY <1>1, <1>2 DEF At
  <1>3. ASSUME NEW q \in Runs, q # r, Dispatch(q) \/ PushTag(q) \/ Rerun(q)
        PROVE  pc'[r] = pc[r]
    BY <1>2, <1>3 DEF Dispatch, PushTag, Start, Rerun
  <1>4. ASSUME NEW q \in Runs, q # r, Step(q) \/ NpmUnseen(q), ~HandOver(q)
        PROVE  pc'[r] = pc[r]
    BY <1>2, <1>4 DEF Step, Checkout, Decide, ViewNpm, Publish, Tag, Ensure, Artifacts,
       ReadPage, EditPage, ReadCrate, PublishCrate, NpmUnseen
  <1>5. ASSUME NEW q \in Runs, q # r, HandOver(q) \/ Fail(q)
        PROVE  pc'[r] = pc[r]
    BY <1>1, <1>5 DEF HandOver, Fail
  <1>6. CASE Merge \/ UNCHANGED vars
    BY <1>6 DEF Merge, vars
  <1>. QED
    BY <1>3, <1>4, <1>5, <1>6 DEF Next

(***************************************************************************)
(* The order of a run's jobs.                                              *)
(***************************************************************************)
LEMMA JobsStayInOrder ==
    ASSUME IInv, [Next]_vars
    PROVE  JobsInOrder'
  <1>. DEFINE Ordered(r) ==
                 /\ pc'[r]["publish-npm"] # "not started" => sha'[r] # None
                 /\ \A job \in {"clib", "crates"} :
                       /\ pc'[r][job] # "not started" => pc'[r]["publish-npm"] = "done"
                       /\ pc'[r][job] \notin {"not started", "skipped"} =>
                              <<"go", version'[sha'[r]]>> \in DOMAIN tag'
  <1>. SUFFICES ASSUME NEW r \in Runs PROVE Ordered(r)
    BY DEF JobsInOrder, Started, GoTagged, V
  <1>1. /\ pc \in [Runs -> [Jobs -> Steps]] /\ Jobs = {"publish-npm", "clib", "crates"}
        /\ pc[r]["publish-npm"] # "not started" => sha[r] # None
        /\ \A job \in {"clib", "crates"} :
              /\ pc[r][job] # "not started" => pc[r]["publish-npm"] = "done"
              /\ pc[r][job] \notin {"not started", "skipped"} => <<"go", V(r)>> \in DOMAIN tag
    BY DEF GoTagged, IInv, TypeOK, RunsTyped, JobsInOrder, Started, Jobs
  <1>2. pc[r]["publish-npm"] # "not started" =>
           /\ sha'[r] = sha[r]
           /\ <<"go", V(r)>> \in DOMAIN tag => <<"go", version'[sha'[r]]>> \in DOMAIN tag'
    BY RunsKeepTheirCommit, TagsStay DEF Started, V
  <1>3. CASE pc'[r] = pc[r]
    BY <1>1, <1>2, <1>3
  <1>4. ASSUME NEW e, Start(r, e, Tip)
        PROVE  Ordered(r)
    <2>0. At(r, "publish-npm", "not started", "checkout") /\ "publish-npm" \in Jobs
      BY <1>1, <1>4 DEF Start
    <2>1. /\ pc[r]["publish-npm"] = "not started" /\ pc'[r]["publish-npm"] = "checkout"
          /\ \A job \in {"clib", "crates"} : pc'[r][job] = pc[r][job]
      BY <1>1, <2>0 DEF At
    <2>2. sha'[r] # None
      <3>1. sha \in [Runs -> 0 .. Tip] /\ Tip \in 1 .. MaxCommits
        BY DEF IInv, TypeOK, RunsTyped, Commits
      <3>2. sha' = [sha EXCEPT ![r] = Tip]
        BY <1>4 DEF Start
      <3>. QED
        BY <3>1, <3>2, BoundsAreNumbers DEF None
    <2>. QED
      BY <1>1, <2>1, <2>2
  <1>5. ASSUME NEW here, here \notin {"not started", "done"}, NEW there, there # "not started",
               At(r, "publish-npm", here, there)
        PROVE  Ordered(r)
    <2>1. /\ pc[r]["publish-npm"] = here /\ pc'[r]["publish-npm"] = there
          /\ \A job \in {"clib", "crates"} : pc'[r][job] = pc[r][job]
      BY <1>1, <1>5 DEF At
    <2>. QED
      BY <1>1, <1>2, <1>5, <2>1
  <1>6. ASSUME NEW job \in {"clib", "crates"}, NEW here, here \notin {"not started", "skipped"},
               NEW there, At(r, job, here, there)
        PROVE  Ordered(r)
    <2>1. /\ pc[r][job] = here /\ pc'[r]["publish-npm"] = pc[r]["publish-npm"]
          /\ \A other \in {"clib", "crates"} : other # job => pc'[r][other] = pc[r][other]
      BY <1>1, <1>6 DEF At
    <2>. QED
      BY <1>1, <1>2, <1>6, <2>1
  <1>7. CASE Rerun(r)
    <2>1. CASE \E stop \in {"failed", "refused"} : At(r, "publish-npm", stop, "checkout")
      BY <1>5, <2>1
    <2>2. CASE \E job \in {"clib", "crates"} : At(r, job, "failed", "called")
      BY <1>6, <2>2
    <2>. QED
      BY <1>1, <1>7, <2>1, <2>2 DEF Rerun
  <1>8. CASE Checkout(r) \/ Decide(r) \/ ViewNpm(r) \/ NpmUnseen(r) \/ Publish(r) \/ Tag(r)
    BY <1>5, <1>8 DEF Checkout, Decide, ViewNpm, NpmUnseen, Publish, Tag
  <1>9. CASE Ensure(r) \/ Artifacts(r) \/ ReadPage(r) \/ EditPage(r)
    BY <1>6, <1>9 DEF Ensure, Artifacts, ReadPage, EditPage
  <1>10. CASE ReadCrate(r) \/ PublishCrate(r)
    BY <1>6, <1>10 DEF ReadCrate, PublishCrate
  <1>11. CASE HandOver(r)
    <2>1. /\ pc[r]["publish-npm"] = "hand over" /\ pc'[r]["publish-npm"] = "done"
          /\ \A job \in {"clib", "crates"} :
                pc'[r][job] = IF <<"go", V(r)>> \in DOMAIN tag THEN "called" ELSE "skipped"
      BY <1>1, <1>11 DEF HandOver
    <2>. QED
      BY <1>1, <1>2, <2>1
  <1>12. CASE Fail(r)
    <2>1. PICK job \in Jobs : pc[r][job] \notin Idle /\ At(r, job, pc[r][job], "failed")
      BY <1>12 DEF Fail, At
    <2>2. pc[r][job] \notin {"not started", "done", "skipped"}
      BY <2>1 DEF Idle
    <2>3. CASE job = "publish-npm"
      BY <1>5, <2>1, <2>2, <2>3
    <2>4. CASE job \in {"clib", "crates"}
      BY <1>6, <2>1, <2>2, <2>4
    <2>. QED
      BY <1>1, <2>3, <2>4
  <1>. QED
    BY <1>3, <1>4, <1>7, <1>8, <1>9, <1>10, <1>11, <1>12, OneRunMoves
    DEF Step, Dispatch, PushTag

(***************************************************************************)
(* Only its own checkout gives a run an anchor and tags to create.  Past   *)
(* it, the run goes on to the tags once npm has its version.               *)
(***************************************************************************)
LEMMA PastTheCheckout ==
    ASSUME IInv, [Next]_vars, NEW r \in Runs, ~Checkout(r),
           pc'[r]["publish-npm"] \in {"decide", "view npm", "publish", "tag"}
    PROVE  /\ missing'[r] = missing[r] /\ anchor'[r] = anchor[r]
           /\ pc[r]["publish-npm"] \in {"decide", "view npm", "publish", "tag"}
           /\ pc'[r]["publish-npm"] = "tag" =>
                 pc[r]["publish-npm"] = "tag" \/ V(r) \in DOMAIN npm'
  <1>. DEFINE S == {"decide", "view npm", "publish", "tag"}
              Goes(here, there) ==
                 there \in S => here \in S /\ (there = "tag" => here = "tag" \/ V(r) \in DOMAIN npm')
  <1>1. /\ pc \in [Runs -> [Jobs -> Steps]] /\ "publish-npm" \in Jobs
        /\ missing \in [Runs -> SUBSET Tags] /\ anchor \in [Runs -> 0 .. Tip]
    BY DEF IInv, TypeOK, RunsTyped, Jobs
  <1>2. missing'[r] = missing[r] /\ anchor'[r] = anchor[r]
    <2>1. ASSUME NEW q \in Runs, q # r, Checkout(q)
          PROVE  missing'[r] = missing[r] /\ anchor'[r] = anchor[r]
      BY <1>1, <2>1 DEF Checkout
    <2>2. ASSUME NEW q \in Runs, Step(q), ~Checkout(q)
          PROVE  UNCHANGED <<missing, anchor>>
      BY <2>2 DEF Step, Decide, ViewNpm, Publish, Tag, HandOver, Ensure, Artifacts, ReadPage,
         EditPage, ReadCrate, PublishCrate, run
    <2>3. CASE UNCHANGED <<missing, anchor>>
      BY <2>3
    <2>. QED
      BY <2>1, <2>2, <2>3
      DEF Next, vars, run, Merge, Dispatch, PushTag, Start, Rerun, NpmUnseen, Fail
  <1>3. Goes(pc[r]["publish-npm"], pc'[r]["publish-npm"])
    <2>1. CASE pc'[r] = pc[r]
      BY <2>1
    <2>2. ASSUME NEW here, NEW there, At(r, "publish-npm", here, there), Goes(here, there)
          PROVE  Goes(pc[r]["publish-npm"], pc'[r]["publish-npm"])
      BY <1>1, <2>2 DEF At
    <2>3. ASSUME NEW job \in Jobs, job # "publish-npm", NEW here, NEW there, At(r, job, here, there)
          PROVE  pc'[r]["publish-npm"] = pc[r]["publish-npm"]
      BY <1>1, <2>3 DEF At
    <2>4. CASE Dispatch(r) \/ PushTag(r) \/ Rerun(r)
      BY <2>2, <2>3, <2>4 DEF Dispatch, PushTag, Start, Rerun, Jobs
    <2>5. CASE Decide(r) \/ ViewNpm(r) \/ NpmUnseen(r)
      <3>1. UNCHANGED npm
        BY <2>5 DEF Decide, ViewNpm, NpmUnseen, served
      <3>. QED
        BY <2>2, <2>5, <3>1 DEF Decide, ViewNpm, NpmUnseen
    <2>6. CASE Publish(r) \/ Tag(r)
      BY <2>2, <2>6 DEF Publish, Tag, Put
    <2>7. CASE HandOver(r)
      BY <1>1, <2>7 DEF HandOver
    <2>8. CASE Ensure(r) \/ Artifacts(r) \/ ReadPage(r) \/ EditPage(r)
      BY <2>3, <2>8 DEF Ensure, Artifacts, ReadPage, EditPage, Jobs
    <2>9. CASE ReadCrate(r) \/ PublishCrate(r)
      BY <2>3, <2>9 DEF ReadCrate, PublishCrate, Jobs
    <2>10. CASE Fail(r)
      <3>1. PICK job \in Jobs : At(r, job, pc[r][job], "failed")
        BY <2>10 DEF Fail, At
      <3>. QED
        BY <2>2, <2>3, <3>1
    <2>. QED
      BY <2>1, <2>4, <2>5, <2>6, <2>7, <2>8, <2>9, <2>10, OneRunMoves DEF Step
  <1>. QED
    BY <1>2, <1>3

\* The commit a run tags stays one of the run's version.
LEMMA AnchorStillFits ==
    ASSUME IInv, [Next]_vars
    PROVE  AnchorFits'
  <1>. DEFINE ts(r) == <<"ts", version'[sha'[r]]>>
              go(r) == <<"go", version'[sha'[r]]>>
              Fits(r) == /\ missing'[r] \subseteq Lines \X {version'[sha'[r]]}
                         /\ anchor'[r] \in 1 .. Tip' /\ version'[anchor'[r]] = version'[sha'[r]]
                         /\ go(r) \in missing'[r] =>
                               \/ ts(r) \in missing'[r]
                               \/ ts(r) \in DOMAIN tag' /\ tag'[ts(r)] = anchor'[r]
  <1>1. ASSUME NEW r \in Runs,
               pc'[r]["publish-npm"] \in {"decide", "view npm", "publish", "tag"}
        PROVE  Fits(r) /\ (pc'[r]["publish-npm"] = "tag" => version'[sha'[r]] \in DOMAIN npm')
    <2>1. CASE ~Checkout(r)
      <3>1. /\ missing'[r] = missing[r] /\ anchor'[r] = anchor[r]
            /\ pc[r]["publish-npm"] \in {"decide", "view npm", "publish", "tag"}
            /\ pc'[r]["publish-npm"] = "tag" =>
                  pc[r]["publish-npm"] = "tag" \/ V(r) \in DOMAIN npm'
        BY <1>1, <2>1, PastTheCheckout
      <3>2. version'[sha'[r]] = V(r)
        BY <3>1, RunsKeepTheirCommit DEF V, Started
      <3>3. /\ missing[r] \subseteq Lines \X {V(r)}
            /\ anchor[r] \in 1 .. Tip /\ version[anchor[r]] = V(r)
            /\ <<"go", V(r)>> \in missing[r] =>
                  \/ <<"ts", V(r)>> \in missing[r]
                  \/ <<"ts", V(r)>> \in DOMAIN tag /\ tag[<<"ts", V(r)>>] = anchor[r]
            /\ pc[r]["publish-npm"] = "tag" => V(r) \in DOMAIN npm
        BY <3>1 DEF IInv, AnchorFits, HasVersion
      <3>4. anchor[r] \in 1 .. Tip' /\ version'[anchor[r]] = V(r)
        BY <3>3, VersionGrows
      <3>. QED
        BY <3>1, <3>2, <3>3, <3>4, TagsStay
    <2>2. CASE Checkout(r)
      <3>1. V(r) \in Versions /\ HasVersion(sha[r], V(r)) /\ version'[sha'[r]] = V(r)
        BY <2>2, StartedHasVersion, RunsKeepTheirCommit DEF Checkout, At, Started, V
      <3>2. UNCHANGED <<tag, version>> /\ pc'[r]["publish-npm"] # "tag"
        <4>1. pc \in [Runs -> [Jobs -> Steps]] /\ "publish-npm" \in Jobs
          BY DEF IInv, TypeOK, RunsTyped, Jobs
        <4>. QED
          BY <2>2, <4>1 DEF Checkout, At
      <3>. DEFINE found == Wanted(r) \cap DOMAIN tag
                  first == IF <<"ts", V(r)>> \in found THEN "ts" ELSE "go"
      <3>3. /\ missing'[r] = IF Dispatched(r) THEN Wanted(r) \ found ELSE {}
            /\ anchor'[r] = IF Dispatched(r) /\ found # {} THEN tag[<<first, V(r)>>] ELSE sha[r]
        <4>1. missing \in [Runs -> SUBSET Tags] /\ anchor \in [Runs -> 0 .. Tip]
          BY DEF IInv, TypeOK, RunsTyped
        <4>. QED
          BY <2>2, <4>1 DEF Checkout
      <3>4. Wanted(r) \subseteq Lines \X {V(r)} /\ <<"ts", V(r)>> \in Wanted(r)
        BY WantedTags
      <3>5. found # {} => <<first, V(r)>> \in found
        BY <3>4 DEF Lines
      <3>6. \A t \in found : HasVersion(tag[t], V(r))
        BY <3>4 DEF IInv, TypeOK
      <3>7. HasVersion(anchor'[r], V(r))
        BY <3>1, <3>3, <3>5, <3>6
      <3>8. anchor'[r] \in 1 .. Tip' /\ version'[anchor'[r]] = V(r)
        BY <3>7, VersionGrows DEF HasVersion
      <3>9. missing'[r] \subseteq Lines \X {V(r)}
        BY <3>3, <3>4
      <3>10. <<"go", V(r)>> \in missing'[r] =>
                \/ <<"ts", V(r)>> \in missing'[r]
                \/ <<"ts", V(r)>> \in DOMAIN tag /\ tag[<<"ts", V(r)>>] = anchor'[r]
        BY <3>3, <3>4
      <3>. QED
        BY <3>1, <3>2, <3>8, <3>9, <3>10
    <2>. QED
      BY <2>1, <2>2
  <1>. QED
    BY <1>1 DEF AnchorFits, HasVersion, V

\* A go/v tag that was not there is one that a Tag step was to create.
LEMMA NewGoTag ==
    ASSUME IInv, [Next]_vars, NEW v, <<"go", v>> \in DOMAIN tag', <<"go", v>> \notin DOMAIN tag
    PROVE  \E r \in Runs : Tag(r) /\ tag' # tag /\ <<"go", v>> \in missing[r]
  <1>1. tag' # tag
    OBVIOUS
  <1>2. ASSUME NEW r \in Runs, PushTag(r)
        PROVE  FALSE
    BY <1>2 DEF PushTag, Put
  <1>3. ASSUME NEW r \in Runs, Step(r)
        PROVE  Tag(r)
    BY <1>1, <1>3 DEF Step, Checkout, Decide, ViewNpm, Publish, HandOver, Ensure, Artifacts,
       ReadPage, EditPage, ReadCrate, PublishCrate
  <1>4. PICK r \in Runs : Tag(r)
    BY <1>1, <1>2, <1>3 DEF Next, vars, Merge, Dispatch, Start, Rerun, NpmUnseen, Fail
  <1>5. DOMAIN tag' = DOMAIN tag \cup missing[r]
    BY <1>1, <1>4 DEF Tag
  <1>. QED
    BY <1>1, <1>4, <1>5

\* The Go tag stays where the ts tag is, of a version npm has.
LEMMA GoStillFollowsTs ==
    ASSUME IInv, [Next]_vars
    PROVE  GoFollowsTs'
  <1>. SUFFICES ASSUME NEW v \in Versions, <<"go", v>> \in DOMAIN tag'
                PROVE  /\ <<"ts", v>> \in DOMAIN tag' /\ tag'[<<"ts", v>>] = tag'[<<"go", v>>]
                       /\ v \in DOMAIN npm'
    BY DEF GoFollowsTs, GoTagged
  <1>1. CASE <<"go", v>> \in DOMAIN tag
    <2>1. /\ <<"ts", v>> \in DOMAIN tag /\ tag[<<"ts", v>>] = tag[<<"go", v>>]
          /\ v \in DOMAIN npm
      BY <1>1 DEF IInv, GoFollowsTs, GoTagged
    <2>. QED
      BY <1>1, <2>1, TagsStay
  <1>2. CASE <<"go", v>> \notin DOMAIN tag
    <2>1. PICK r \in Runs : Tag(r) /\ tag' # tag /\ <<"go", v>> \in missing[r]
      BY <1>2, NewGoTag
    <2>2. /\ tag' = [t \in DOMAIN tag \cup missing[r] |->
                        IF t \in missing[r] THEN anchor[r] ELSE tag[t]]
          /\ missing[r] \subseteq Lines \X {V(r)} /\ V(r) \in DOMAIN npm
          /\ <<"go", V(r)>> \in missing[r] =>
                \/ <<"ts", V(r)>> \in missing[r]
                \/ <<"ts", V(r)>> \in DOMAIN tag /\ tag[<<"ts", V(r)>>] = anchor[r]
      BY <2>1, TagWrites
    <2>3. v = V(r)
      BY <2>1, <2>2
    <2>4. v \in DOMAIN npm'
      BY <2>2, <2>3, TagsStay
    <2>5. <<"ts", v>> \in DOMAIN tag' /\ tag'[<<"ts", v>>] = anchor[r]
      BY <2>1, <2>2, <2>3
    <2>6. tag'[<<"go", v>>] = anchor[r]
      BY <2>1, <2>2
    <2>. QED
      BY <2>4, <2>5, <2>6
  <1>. QED
    BY <1>1, <1>2

\* A Release never loses its manifest.
LEMMA ManifestsStay ==
    ASSUME IInv, [Next]_vars, NEW v \in Versions, page[v].manifest
    PROVE  page'[v].manifest
  <1>1. page \in [Versions -> Pages]
    BY DEF IInv, TypeOK
  <1>2. CASE UNCHANGED page
    BY <1>2
  <1>3. ASSUME NEW r \in Runs, Ensure(r) \/ EditPage(r)
        PROVE  page'[v].manifest
    BY <1>1, <1>3 DEF Ensure, EditPage, Pages
  <1>4. ASSUME NEW r \in Runs, Artifacts(r)
        PROVE  page'[v].manifest
    BY <1>1, <1>4 DEF Artifacts, Pages
  <1>5. ASSUME NEW r \in Runs, Step(r), ~Ensure(r), ~EditPage(r), ~Artifacts(r)
        PROVE  UNCHANGED page
    BY <1>5 DEF Step, Checkout, Decide, ViewNpm, Publish, Tag, HandOver, ReadPage, ReadCrate,
       PublishCrate, served
  <1>. QED
    BY <1>2, <1>3, <1>4, <1>5
    DEF Next, vars, Merge, Dispatch, PushTag, Start, Rerun, NpmUnseen, Fail, served

\* The crate and the Release stay built from the Go tag.
LEMMA StillBuiltFromGoTag ==
    ASSUME IInv, [Next]_vars
    PROVE  BuiltFromGoTag'
  <1>. DEFINE Built(v, c) == <<"go", v>> \in DOMAIN tag' /\ c = tag'[<<"go", v>>]
  <1>. SUFFICES ASSUME NEW v \in Versions
                PROVE  /\ v \in DOMAIN crate' => Built(v, crate'[v])
                       /\ page'[v].from # None => Built(v, page'[v].from)
                       /\ page'[v].is = "public" =>
                             page'[v].manifest /\ <<"go", v>> \in DOMAIN tag'
                       /\ latest' = v => <<"go", v>> \in DOMAIN tag'
    BY DEF BuiltFromGoTag, GoTagged
  <1>1. /\ v \in DOMAIN crate => Built(v, crate[v])
        /\ page[v].from # None => Built(v, page[v].from)
        /\ page[v].is = "public" => page[v].manifest /\ <<"go", v>> \in DOMAIN tag'
        /\ latest = v => <<"go", v>> \in DOMAIN tag'
    BY TagsStay DEF IInv, BuiltFromGoTag, GoTagged
  <1>2. page \in [Versions -> Pages]
    BY DEF IInv, TypeOK
  <1>3. CASE UNCHANGED <<crate, page, latest>>
    BY <1>1, <1>3
  <1>4. ASSUME NEW r \in Runs, Ensure(r)
        PROVE  /\ UNCHANGED <<crate, latest>>
               /\ page'[v].from = page[v].from
               /\ page'[v].is = "public" => page[v].is = "public"
    BY <1>2, <1>4 DEF Ensure, Pages
  <1>5. ASSUME NEW r \in Runs, Artifacts(r)
        PROVE  /\ UNCHANGED <<crate, latest>>
               /\ page'[v].from # None => Built(v, page'[v].from)
               /\ page'[v].is = page[v].is
    <2>1. <<"go", V(r)>> \in DOMAIN tag
      BY <1>5, WorksOnGoTag DEF Artifacts, At, GoTagged
    <2>2. Built(V(r), tag[<<"go", V(r)>>])
      BY <2>1, TagsStay
    <2>3. /\ v # V(r) => page'[v] = page[v]
          /\ page'[v].is = page[v].is
          /\ page'[v].from \in {page[v].from, tag[<<"go", V(r)>>]}
      BY <1>2, <1>5 DEF Artifacts, Pages
    <2>4. UNCHANGED <<crate, latest>>
      BY <1>5 DEF Artifacts
    <2>. QED
      BY <1>1, <2>2, <2>3, <2>4
  <1>6. ASSUME NEW r \in Runs, EditPage(r)
        PROVE  /\ UNCHANGED crate
               /\ page'[v].from = page[v].from
               /\ page'[v].is = "public" =>
                     page[v].manifest /\ <<"go", v>> \in DOMAIN tag'
               /\ latest' = v => <<"go", v>> \in DOMAIN tag'
    <2>1. pc[r]["clib"] = "edit" /\ UNCHANGED <<crate, tag>>
      BY <1>6 DEF EditPage, At
    <2>2. <<"go", V(r)>> \in DOMAIN tag /\ page[V(r)].manifest
      BY <2>1, WorksOnGoTag DEF GoTagged, IInv, EditsWhatItRead
    <2>3. page' = [page EXCEPT ![V(r)].is = "public"] /\ latest' \in {V(r), latest}
      BY <1>6 DEF EditPage
    <2>. QED
      BY <1>1, <1>2, <2>1, <2>2, <2>3 DEF Pages
  <1>7. ASSUME NEW r \in Runs, PublishCrate(r)
        PROVE  /\ UNCHANGED <<page, latest>>
               /\ v \in DOMAIN crate' => Built(v, crate'[v])
    <2>1. <<"go", V(r)>> \in DOMAIN tag
      BY <1>7, WorksOnGoTag DEF PublishCrate, At, GoTagged
    <2>2. Built(V(r), tag[<<"go", V(r)>>])
      BY <2>1, TagsStay
    <2>3. UNCHANGED crate \/ crate' = Put(crate, V(r), tag[<<"go", V(r)>>])
      BY <1>7 DEF PublishCrate
    <2>4. UNCHANGED <<page, latest>>
      BY <1>7 DEF PublishCrate
    <2>. QED
      BY <1>1, <2>2, <2>3, <2>4 DEF Put
  <1>8. ASSUME NEW r \in Runs, Step(r), ~Ensure(r), ~Artifacts(r), ~EditPage(r), ~PublishCrate(r)
        PROVE  UNCHANGED <<crate, page, latest>>
    BY <1>8 DEF Step, Checkout, Decide, ViewNpm, Publish, Tag, HandOver, ReadPage, ReadCrate,
       served
  <1>9. page[v].manifest => page'[v].manifest
    BY ManifestsStay
  <1>10. ASSUME NEW r \in Runs, Step(r)
         PROVE  /\ v \in DOMAIN crate' => Built(v, crate'[v])
                /\ page'[v].from # None => Built(v, page'[v].from)
                /\ page'[v].is = "public" => page'[v].manifest /\ <<"go", v>> \in DOMAIN tag'
                /\ latest' = v => <<"go", v>> \in DOMAIN tag'
    <2>. HIDE DEF Built
    <2>. QED
      BY <1>1, <1>3, <1>4, <1>5, <1>6, <1>7, <1>8, <1>9, <1>10
  <1>. QED
    BY <1>3, <1>10
    DEF Next, vars, Merge, Dispatch, PushTag, Start, Rerun, NpmUnseen, Fail, served

\* What the publish script read of the Release it edits stays true.
LEMMA StillEditsWhatItRead ==
    ASSUME IInv, [Next]_vars
    PROVE  EditsWhatItRead'
  <1>. SUFFICES ASSUME NEW r \in Runs, pc'[r]["clib"] = "edit"
                PROVE  page'[version'[sha'[r]]].manifest /\ seen'[r] <= highest'[r]
    BY DEF EditsWhatItRead, V
  <1>1. /\ pc \in [Runs -> [Jobs -> Steps]] /\ "clib" \in Jobs
        /\ highest \in [Runs -> Versions \cup {None}]
        /\ seen \in [Runs -> Versions \cup {None}]
    BY DEF IInv, TypeOK, RunsTyped, Jobs
  <1>2. CASE ReadPage(r)
    <2>1. /\ pc[r]["clib"] = "publish" /\ page[V(r)].manifest
          /\ highest' = [highest EXCEPT ![r] = Highest] /\ seen' = [seen EXCEPT ![r] = latest]
          /\ UNCHANGED page
      BY <1>1, <1>2 DEF ReadPage, At, served
    <2>2. V(r) \in Versions /\ GoTagged(V(r)) /\ Started(r)
      BY <2>1, WorksOnGoTag
    <2>3. page'[version'[sha'[r]]].manifest
      BY <2>1, <2>2, RunsKeepTheirCommit DEF V
    <2>4. latest <= Highest
      <3>1. Highest \in Nat /\ \A w \in Versions : GoTagged(w) => w <= Highest
        BY <2>2, HighestIsTagged DEF Versions
      <3>2. latest = 0 \/ (latest \in Versions /\ GoTagged(latest))
        BY DEF IInv, TypeOK, BuiltFromGoTag, None
      <3>. QED
        BY <3>1, <3>2
    <2>. QED
      BY <1>1, <2>1, <2>3, <2>4
  <1>3. CASE ~ReadPage(r)
    <2>1. pc[r]["clib"] = "edit"
      <3>1. ASSUME NEW job \in Jobs, NEW here, NEW there, At(r, job, here, there),
                   job = "clib" => there # "edit"
            PROVE  pc[r]["clib"] = "edit"
        BY <1>1, <3>1 DEF At
      <3>2. CASE Dispatch(r) \/ PushTag(r)
        BY <3>1, <3>2 DEF Dispatch, PushTag, Start, Jobs
      <3>3. CASE Rerun(r)
        BY <3>1, <3>3 DEF Rerun, Jobs
      <3>4. CASE Checkout(r) \/ Decide(r) \/ ViewNpm(r) \/ NpmUnseen(r) \/ Publish(r) \/ Tag(r)
        BY <3>1, <3>4 DEF Checkout, Decide, ViewNpm, NpmUnseen, Publish, Tag, Jobs
      <3>5. CASE Ensure(r) \/ Artifacts(r) \/ EditPage(r)
        BY <3>1, <3>5 DEF Ensure, Artifacts, EditPage, Jobs
      <3>6. CASE ReadCrate(r) \/ PublishCrate(r)
        BY <3>1, <3>6 DEF ReadCrate, PublishCrate, Jobs
      <3>7. CASE HandOver(r)
        BY <1>1, <3>7 DEF HandOver
      <3>8. CASE Fail(r)
        <4>1. PICK job \in Jobs : At(r, job, pc[r][job], "failed")
          BY <3>8 DEF Fail, At
        <4>. QED
          BY <3>1, <4>1
      <3>. QED
        BY <1>3, <3>2, <3>3, <3>4, <3>5, <3>6, <3>7, <3>8, OneRunMoves DEF Step
    <2>2. page[V(r)].manifest /\ seen[r] <= highest[r] /\ V(r) \in Versions /\ Started(r)
      BY <2>1, WorksOnGoTag DEF IInv, EditsWhatItRead
    <2>3. highest'[r] = highest[r] /\ seen'[r] = seen[r]
      <3>1. ASSUME NEW q \in Runs, ReadPage(q) \/ EditPage(q) \/ Fail(q)
            PROVE  highest'[r] = highest[r] /\ seen'[r] = seen[r]
        <4>1. CASE q # r
          BY <1>1, <3>1, <4>1 DEF ReadPage, EditPage, Fail, Forget
        <4>2. CASE q = r
          BY <1>1, <1>3, <3>1, <4>2 DEF EditPage, Fail, Forget, At
        <4>. QED
          BY <4>1, <4>2
      <3>2. ASSUME NEW q \in Runs, Step(q), ~ReadPage(q), ~EditPage(q)
            PROVE  UNCHANGED <<highest, seen>>
        BY <3>2 DEF Step, Checkout, Decide, ViewNpm, Publish, Tag, HandOver, Ensure, Artifacts,
           ReadCrate, PublishCrate, run
      <3>. QED
        BY <3>1, <3>2 DEF Next, vars, run, Merge, Dispatch, PushTag, Start, Rerun, NpmUnseen
    <2>. QED
      BY <2>2, <2>3, ManifestsStay, RunsKeepTheirCommit DEF V
  <1>. QED
    BY <1>2, <1>3

-----------------------------------------------------------------------------
(* The theorems.                                                           *)

(***************************************************************************)
(* The inductive invariant holds in every state that any runs, commits and *)
(* failures lead to.                                                       *)
(***************************************************************************)
THEOREM Invariance == Spec => []IInv
  <1>1. IInv /\ [Next]_vars => IInv'
    BY TypeStays, VersionGrows, JobsStayInOrder, AnchorStillFits, GoStillFollowsTs,
       StillBuiltFromGoTag, StillEditsWhatItRead DEF IInv
  <1>. QED
    BY <1>1, InitIInv, PTL DEF Spec

\* Every variable of release.yml and of what it publishes keeps its type.
THEOREM TypeCorrect == Spec => []TypeOK
  <1>1. IInv => TypeOK
    BY DEF IInv
  <1>. QED
    BY <1>1, Invariance, PTL

(***************************************************************************)
(* The ts and go tags of a version, its crate and its C libraries come from*)
(* one commit, whichever runs released and repaired it.                    *)
(***************************************************************************)
THEOREM ReleasedTogether == Spec => []TaggedTogether
  <1>1. ASSUME IInv
        PROVE  TaggedTogether
    <2>. SUFFICES
           ASSUME NEW v \in Versions
           PROVE  Cardinality({tag[t] : t \in {t \in DOMAIN tag : t[2] = v}}
                                 \cup {crate[w] : w \in DOMAIN crate \cap {v}}
                                 \cup ({page[v].from} \ {None})) <= 1
      BY DEF TaggedTogether
    <2>. DEFINE ts == <<"ts", v>>
                go == <<"go", v>>
                tagged == {tag[t] : t \in {t \in DOMAIN tag : t[2] = v}}
                crated == {crate[w] : w \in DOMAIN crate \cap {v}}
                built == {page[v].from} \ {None}
    <2>1. \A t \in DOMAIN tag : t[2] = v => t = ts \/ t = go
      BY <1>1 DEF IInv, TypeOK, Tags, Lines
    <2>2. go \in DOMAIN tag => ts \in DOMAIN tag /\ tag[ts] = tag[go]
      BY <1>1 DEF IInv, GoFollowsTs, GoTagged
    <2>3. tagged \subseteq {tag[ts]} /\ (ts \notin DOMAIN tag => tagged = {})
      BY <2>1, <2>2
    <2>4. /\ v \in DOMAIN crate => go \in DOMAIN tag /\ crate[v] = tag[go]
          /\ page[v].from # None => go \in DOMAIN tag /\ page[v].from = tag[go]
      BY <1>1 DEF IInv, BuiltFromGoTag, GoTagged
    <2>5. crated \subseteq {tag[ts]} /\ built \subseteq {tag[ts]}
      BY <2>2, <2>4
    <2>6. tagged \cup crated \cup built \in {{}, {tag[ts]}}
      BY <2>3, <2>5
    <2>. HIDE DEF tagged, crated, built
    <2>7. Cardinality(tagged \cup crated \cup built) <= 1
      <3>1. Cardinality({}) = 0 /\ Cardinality({tag[ts]}) = 1
        BY FS_EmptySet, FS_Singleton
      <3>. QED
        BY <2>6, <3>1
    <2>. QED
      BY <2>7 DEF tagged, crated, built
  <1>. QED
    BY <1>1, Invariance, PTL

(***************************************************************************)
(* No go/v tag, and so no Go release, exists for a version that npm has not*)
(* got.                                                                    *)
(***************************************************************************)
THEOREM GoAfterNpm == Spec => []GoTagAfterNpm
  <1>1. ASSUME IInv
        PROVE  GoTagAfterNpm
    <2>1. \A t \in DOMAIN tag : t[1] = "go" => t[2] \in Versions /\ t = <<"go", t[2]>>
      BY <1>1 DEF IInv, TypeOK, Tags
    <2>2. \A v \in Versions : <<"go", v>> \in DOMAIN tag => v \in DOMAIN npm
      BY <1>1 DEF IInv, GoFollowsTs, GoTagged
    <2>. QED
      BY <2>1, <2>2 DEF GoTagAfterNpm
  <1>. QED
    BY <1>1, Invariance, PTL

(***************************************************************************)
(* A public GitHub Release has its manifest, and npm has its version.      *)
(***************************************************************************)
THEOREM PublicReleasesComplete == Spec => []PublicIsComplete
  <1>1. IInv => PublicIsComplete
    BY DEF IInv, BuiltFromGoTag, GoFollowsTs, PublicIsComplete
  <1>. QED
    BY <1>1, Invariance, PTL

(***************************************************************************)
(* Whoever publishes a Release moves "Latest" to a version no lower than it*)
(* was at when that run read the tags, or leaves it where it is.           *)
(***************************************************************************)
THEOREM LatestNotTakenBack == Spec => LateRepairKeepsLatest
  <1>. DEFINE A == \A r \in Runs :
                      pc[r]["clib"] = "edit" /\ pc'[r]["clib"] = "done" /\ latest' # latest
                         => latest' >= seen[r]
  <1>1. ASSUME IInv, [Next]_vars
        PROVE  A
    <2>. SUFFICES ASSUME NEW r \in Runs,
                         pc[r]["clib"] = "edit", pc'[r]["clib"] = "done", latest' # latest
                  PROVE  latest' >= seen[r]
      OBVIOUS
    <2>1. pc \in [Runs -> [Jobs -> Steps]] /\ "clib" \in Jobs
      BY <1>1 DEF IInv, TypeOK, RunsTyped, Jobs
    <2>2. \A q \in Runs : Step(q) => EditPage(q)
      BY DEF Step, Checkout, Decide, ViewNpm, Publish, Tag, HandOver, Ensure, Artifacts,
         ReadPage, ReadCrate, PublishCrate, served
    <2>3. PICK q \in Runs : EditPage(q)
      BY <1>1, <2>2
      DEF Next, vars, Merge, Dispatch, PushTag, Start, Rerun, NpmUnseen, Fail, served
    <2>4. q = r
      BY <2>1, <2>3 DEF EditPage, At
    <2>5. latest' = highest[r]
      BY <2>3, <2>4 DEF EditPage
    <2>6. seen[r] <= highest[r] /\ seen[r] \in Nat /\ highest[r] \in Nat
      BY <1>1, BoundsAreNumbers
      DEF IInv, EditsWhatItRead, TypeOK, RunsTyped, Versions, None
    <2>. QED
      BY <2>5, <2>6
  <1>2. Spec => [][A]_vars
    BY <1>1, Invariance, PTL DEF Spec
  <1>. QED
    BY <1>2 DEF LateRepairKeepsLatest
=============================================================================
