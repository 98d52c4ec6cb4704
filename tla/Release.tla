------------------------------ MODULE Release ------------------------------
(***************************************************************************)
(* How a version is released: release.yml, and the two workflows it calls, *)
(* clib-release.yml and crates-release.yml.  Maintainers merge commits to  *)
(* main, dispatch a run on it or push a ts/v tag, and re-run jobs that     *)
(* failed; runs overlap (the workflow names no concurrency group), and a   *)
(* step may fail at any point.  What npm, crates.io and the remote's tags  *)
(* hold cannot be taken back.                                              *)
(***************************************************************************)
EXTENDS Naturals, Sequences, FiniteSets

CONSTANTS
    Runs,            \* the runs of release.yml there may be
    TagsByHand,      \* whether maintainers push ts/v tags themselves
    MaxCommits,      \* bound: the commits of main
    MaxFailures      \* bound: the transient failures, over all runs

ASSUME RunsAreMany == IsFiniteSet(Runs)
ASSUME BoundsAreNumbers == MaxCommits \in Nat \ {0} /\ MaxFailures \in Nat
ASSUME TagsByHandIsBoolean == TagsByHand \in BOOLEAN

VARIABLES
    version,         \* ts/package.json's version at each commit of main
    tag,             \* the remote's tags: <<line, version>> -> commit
    npm,             \* what npm serves: version -> the commit it was built from
    crate,           \* and crates.io
    page,            \* the GitHub Release of each go/v tag
    latest,          \* the Release marked "Latest", or None
    pc,              \* where each job of each run is
    event,           \* what started the run
    sha,             \* the commit it runs at
    missing,         \* steps.tags.outputs.missing
    anchor,          \* steps.tags.outputs.anchor
    highest,         \* $HIGHEST of its publish script, or None
    seen,            \* history: the latest Release when that was read
    failures

served == <<npm, crate, page, latest>>
run == <<event, sha, missing, anchor, highest, seen>>
vars == <<version, tag, served, pc, run, failures>>

None == 0
Commits == 1 .. MaxCommits
Versions == 1 .. MaxCommits
Tip == Len(version)
Lines == {"ts", "go"}
Tags == Lines \X Versions
Jobs == {"publish-npm", "clib", "crates"}

V(r) == version[sha[r]]

NoPage == [is |-> "none", manifest |-> FALSE, from |-> None]

At(r, job, here, there) ==
    pc[r][job] = here /\ pc' = [pc EXCEPT ![r][job] = there]

\* The map f with key k, which it may not have, at v.
Put(f, k, v) == [x \in DOMAIN f \cup {k} |-> IF x = k THEN v ELSE f[x]]

Init ==
    /\ version = <<1>>
    /\ tag = [t \in {} |-> None]
    /\ npm = [v \in {} |-> None]
    /\ crate = [v \in {} |-> None]
    /\ page = [v \in Versions |-> NoPage]
    /\ latest = None
    /\ pc = [r \in Runs |-> [job \in Jobs |-> "not started"]]
    /\ event = [r \in Runs |-> "none"]
    /\ sha = [r \in Runs |-> None]
    /\ missing = [r \in Runs |-> {}]
    /\ anchor = [r \in Runs |-> None]
    /\ highest = [r \in Runs |-> None]
    /\ seen = [r \in Runs |-> None]
    /\ failures = 0

-----------------------------------------------------------------------------
(* The maintainers.                                                        *)

\* A pull request is merged; it bumps the version or does not.
Merge ==
    /\ Tip < MaxCommits
    /\ \E v \in {version[Tip], version[Tip] + 1} : version' = Append(version, v)
    /\ UNCHANGED <<tag, served, pc, run, failures>>

Start(r, e, c) ==
    /\ At(r, "publish-npm", "not started", "checkout")
    /\ event' = [event EXCEPT ![r] = e]
    /\ sha' = [sha EXCEPT ![r] = c]
    /\ UNCHANGED <<version, served, missing, anchor, highest, seen, failures>>

\* A dispatch is refused from anywhere but main, so it runs at main's head.
Dispatch(r) ==
    /\ \E e \in {"dispatch, go", "dispatch, no go"} : Start(r, e, Tip)
    /\ UNCHANGED tag

\* npm run repo-tag, or admin/publish.sh: the ts/v tag comes first.
PushTag(r) ==
    /\ TagsByHand
    /\ <<"ts", version[Tip]>> \notin DOMAIN tag
    /\ tag' = Put(tag, <<"ts", version[Tip]>>, Tip)
    /\ Start(r, "push", Tip)

(***************************************************************************)
(* "Re-run failed jobs": the job starts again, at the same commit.  clib   *)
(* starts at its first step; what its last step alone would do again is    *)
(* among what it may do from there.                                        *)
(***************************************************************************)
Rerun(r) ==
    /\ \/ \E stop \in {"failed", "refused"} : At(r, "publish-npm", stop, "checkout")
       \/ \E job \in Jobs \ {"publish-npm"} : At(r, job, "failed", "called")
    /\ UNCHANGED <<version, tag, served, run, failures>>

-----------------------------------------------------------------------------
(* The publish-npm job.                                                    *)

Dispatched(r) == event[r] # "push"

\* The tags a run would create: go/v only if asked to.
Wanted(r) ==
    {<<l, V(r)>> : l \in {l \in Lines : l = "go" => event[r] = "dispatch, go"}}

\* Slip: the tags go at the run's own commit, whatever is tagged already.
CheckoutAtHead(r) ==
    /\ At(r, "publish-npm", "checkout", IF Dispatched(r) THEN "decide" ELSE "view npm")
    /\ missing' = [missing EXCEPT ![r] = IF Dispatched(r) THEN Wanted(r) \ DOMAIN tag ELSE {}]
    /\ anchor' = [anchor EXCEPT ![r] = sha[r]]
    /\ UNCHANGED <<version, tag, served, event, sha, highest, seen, failures>>

(***************************************************************************)
(* The checkout brings the tags as they are now.  A tag that exists anchors*)
(* the others: ts/v is looked at first.  A push run creates none.          *)
(***************************************************************************)
Checkout(r) ==
    LET found == Wanted(r) \cap DOMAIN tag
        first == IF <<"ts", V(r)>> \in found THEN "ts" ELSE "go"
    IN  /\ At(r, "publish-npm", "checkout", IF Dispatched(r) THEN "decide" ELSE "view npm")
        /\ missing' = [missing EXCEPT ![r] = IF Dispatched(r) THEN Wanted(r) \ found ELSE {}]
        /\ anchor' = [anchor EXCEPT ![r] = IF Dispatched(r) /\ found # {}
                                           THEN tag[<<first, V(r)>>] ELSE sha[r]]
        /\ UNCHANGED <<version, tag, served, event, sha, highest, seen, failures>>

\* Slip: a version that npm already has is refused.
DecideIfNotOnNpm(r) ==
    /\ At(r, "publish-npm", "decide",
          IF missing[r] # {} /\ V(r) \notin DOMAIN npm THEN "view npm" ELSE "refused")
    /\ UNCHANGED <<version, tag, served, run, failures>>

\* Slip: the tags are written before the package is published.
DecideThenTag(r) ==
    /\ At(r, "publish-npm", "decide", IF missing[r] # {} THEN "tag" ELSE "refused")
    /\ UNCHANGED <<version, tag, served, run, failures>>

(***************************************************************************)
(* Nothing left to create is "bump the version first".  An anchor other    *)
(* than the run's commit is a repair, and npm must have the version.       *)
(***************************************************************************)
Decide(r) ==
    /\ At(r, "publish-npm", "decide",
          IF missing[r] # {} /\ (anchor[r] = sha[r] \/ V(r) \in DOMAIN npm)
          THEN "view npm" ELSE "refused")
    /\ UNCHANGED <<version, tag, served, run, failures>>

\* npm view: a version that npm has is not published again.
ViewNpm(r) ==
    /\ At(r, "publish-npm", "view npm", IF V(r) \in DOMAIN npm THEN "tag" ELSE "publish")
    /\ UNCHANGED <<version, tag, served, run, failures>>

(***************************************************************************)
(* npm view cannot tell a registry that does not answer from one that has  *)
(* not got the version: a repair is refused, a publication attempted.      *)
(***************************************************************************)
NpmUnseen(r) ==
    /\ failures < MaxFailures
    /\ failures' = failures + 1
    /\ \/ At(r, "publish-npm", "decide", "refused") /\ missing[r] # {} /\ anchor[r] # sha[r]
       \/ At(r, "publish-npm", "view npm", "publish")
    /\ V(r) \in DOMAIN npm
    /\ UNCHANGED <<version, tag, served, run>>

\* Slip: what is published is main as it is by now.
PublishMain(r) ==
    /\ At(r, "publish-npm", "publish", "tag")
    /\ V(r) \notin DOMAIN npm
    /\ npm' = Put(npm, V(r), Tip)
    /\ UNCHANGED <<version, tag, crate, page, latest, run, failures>>

\* What is published is the commit the run checked out; npm refuses a second.
Publish(r) ==
    /\ \/ /\ At(r, "publish-npm", "publish", "tag")
          /\ V(r) \notin DOMAIN npm
          /\ npm' = Put(npm, V(r), sha[r])
       \/ /\ At(r, "publish-npm", "publish", "failed")
          /\ V(r) \in DOMAIN npm
          /\ UNCHANGED npm
    /\ UNCHANGED <<version, tag, crate, page, latest, run, failures>>

(***************************************************************************)
(* git push --atomic: every missing tag, or, if one has appeared since the *)
(* checkout, none.                                                         *)
(***************************************************************************)
Tag(r) ==
    /\ \/ /\ At(r, "publish-npm", "tag", "hand over")
          /\ missing[r] \cap DOMAIN tag = {}
          /\ tag' = [t \in DOMAIN tag \cup missing[r] |->
                        IF t \in missing[r] THEN anchor[r] ELSE tag[t]]
       \/ /\ At(r, "publish-npm", "tag", "failed")
          /\ missing[r] \cap DOMAIN tag # {}
          /\ UNCHANGED tag
    /\ UNCHANGED <<version, served, run, failures>>

\* The other jobs are called if go/v is on the remote by now.
HandOver(r) ==
    /\ pc[r]["publish-npm"] = "hand over"
    /\ LET called == <<"go", V(r)>> \in DOMAIN tag
       IN  pc' = [pc EXCEPT ![r] = [job \in Jobs |->
                     IF job = "publish-npm" THEN "done"
                     ELSE IF called THEN "called" ELSE "skipped"]]
    /\ UNCHANGED <<version, tag, served, run, failures>>

-----------------------------------------------------------------------------
(* The clib job: clib-release.yml.                                         *)

\* A missing Release is created on the tag as a draft.
Ensure(r) ==
    /\ At(r, "clib", "called", "build")
    /\ IF page[V(r)].is = "none"
       THEN page' = [page EXCEPT ![V(r)].is = "draft"]
       ELSE UNCHANGED page
    /\ UNCHANGED <<version, tag, npm, crate, latest, run, failures>>

(***************************************************************************)
(* The shared build, of the tag, is not in this repository: it attaches    *)
(* libraries with their manifest, or it succeeds with nothing to attach.   *)
(***************************************************************************)
Artifacts(r) ==
    /\ At(r, "clib", "build", "publish")
    /\ \/ page' = [page EXCEPT ![V(r)].manifest = TRUE,
                               ![V(r)].from = tag[<<"go", V(r)>>]]
       \/ UNCHANGED page
    /\ UNCHANGED <<version, tag, npm, crate, latest, run, failures>>

\* The highest version with a go/v tag.
Highest == CHOOSE v \in Versions :
              /\ <<"go", v>> \in DOMAIN tag
              /\ \A w \in Versions : <<"go", w>> \in DOMAIN tag => w <= v

\* Slip: the manifest is not looked for.
ReadPageAnyway(r) ==
    /\ At(r, "clib", "publish", IF page[V(r)].is = "draft" THEN "edit" ELSE "done")
    /\ IF page[V(r)].is = "draft"
       THEN /\ highest' = [highest EXCEPT ![r] = Highest]
            /\ seen' = [seen EXCEPT ![r] = latest]
       ELSE UNCHANGED <<highest, seen>>
    /\ UNCHANGED <<version, tag, served, event, sha, missing, anchor, failures>>

(***************************************************************************)
(* A Release is not published without a manifest.  For a draft with one,   *)
(* the tags are read: "Latest" is only for the highest version.            *)
(***************************************************************************)
ReadPage(r) ==
    /\ At(r, "clib", "publish",
          IF ~page[V(r)].manifest THEN "failed"
          ELSE IF page[V(r)].is = "draft" THEN "edit" ELSE "done")
    /\ IF page[V(r)].manifest /\ page[V(r)].is = "draft"
       THEN /\ highest' = [highest EXCEPT ![r] = Highest]
            /\ seen' = [seen EXCEPT ![r] = latest]
       ELSE UNCHANGED <<highest, seen>>
    /\ UNCHANGED <<version, tag, served, event, sha, missing, anchor, failures>>

Forget(r) ==
    /\ highest' = [highest EXCEPT ![r] = None]
    /\ seen' = [seen EXCEPT ![r] = None]

\* Slip: whatever is published last is the latest.
EditPageLatest(r) ==
    /\ At(r, "clib", "edit", "done")
    /\ page' = [page EXCEPT ![V(r)].is = "public"]
    /\ latest' = V(r)
    /\ Forget(r)
    /\ UNCHANGED <<version, tag, npm, crate, event, sha, missing, anchor, failures>>

\* gh release edit, some seconds after the tags were read.
EditPage(r) ==
    /\ At(r, "clib", "edit", "done")
    /\ page' = [page EXCEPT ![V(r)].is = "public"]
    /\ latest' = IF highest[r] = V(r) THEN V(r) ELSE latest
    /\ Forget(r)
    /\ UNCHANGED <<version, tag, npm, crate, event, sha, missing, anchor, failures>>

-----------------------------------------------------------------------------
(* The crates job: crates-release.yml.                                     *)

(***************************************************************************)
(* The tag is checked out, its version read, and crates.io asked for it:   *)
(* there is nothing to do if it has it.                                    *)
(***************************************************************************)
ReadCrate(r) ==
    /\ At(r, "crates", "called",
          IF version[tag[<<"go", V(r)>>]] # V(r) THEN "failed"
          ELSE IF V(r) \in DOMAIN crate THEN "done" ELSE "publish")
    /\ UNCHANGED <<version, tag, served, run, failures>>

\* cargo publish, from the tag: crates.io refuses a version it has.
PublishCrate(r) ==
    /\ \/ /\ At(r, "crates", "publish", "done")
          /\ V(r) \notin DOMAIN crate
          /\ crate' = Put(crate, V(r), tag[<<"go", V(r)>>])
       \/ /\ At(r, "crates", "publish", "failed")
          /\ V(r) \in DOMAIN crate
          /\ UNCHANGED crate
    /\ UNCHANGED <<version, tag, npm, page, latest, run, failures>>

-----------------------------------------------------------------------------
Idle == {"not started", "done", "skipped", "refused", "failed"}

(***************************************************************************)
(* A runner, a registry or the network gives out before a step, which is   *)
(* also after the one before it: what that one did stays done.             *)
(***************************************************************************)
Fail(r) ==
    /\ failures < MaxFailures
    /\ failures' = failures + 1
    /\ \E job \in Jobs : /\ pc[r][job] \notin Idle
                         /\ pc' = [pc EXCEPT ![r][job] = "failed"]
                         /\ IF job = "clib" THEN Forget(r) ELSE UNCHANGED <<highest, seen>>
    /\ UNCHANGED <<version, tag, served, event, sha, missing, anchor>>

Step(r) ==
    \/ Checkout(r) \/ Decide(r) \/ ViewNpm(r) \/ Publish(r) \/ Tag(r) \/ HandOver(r)
    \/ Ensure(r) \/ Artifacts(r) \/ ReadPage(r) \/ EditPage(r)
    \/ ReadCrate(r) \/ PublishCrate(r)

Next ==
    \/ Merge
    \/ \E r \in Runs : Dispatch(r) \/ PushTag(r) \/ Rerun(r) \/ Step(r) \/ NpmUnseen(r) \/ Fail(r)

Spec == Init /\ [][Next]_vars

(***************************************************************************)
(* GitHub runs what has started, and a maintainer who sees a failed job    *)
(* re-runs it.  Nobody has to merge, to dispatch or to push.               *)
(***************************************************************************)
FairSpec == Spec /\ \A r \in Runs : WF_vars(Step(r)) /\ WF_vars(Rerun(r))

-----------------------------------------------------------------------------
(* Properties.                                                             *)

Events == {"none", "dispatch, go", "dispatch, no go", "push"}

Steps ==
    Idle \cup {"checkout", "decide", "view npm", "publish", "tag", "hand over",
               "called", "build", "edit"}

Pages == [is : {"none", "draft", "public"}, manifest : BOOLEAN, from : Commits \cup {None}]

RunsTyped ==
    /\ pc \in [Runs -> [Jobs -> Steps]]
    /\ event \in [Runs -> Events]
    /\ sha \in [Runs -> 0 .. Tip]
    /\ missing \in [Runs -> SUBSET Tags]
    /\ anchor \in [Runs -> 0 .. Tip]
    /\ highest \in [Runs -> Versions \cup {None}]
    /\ seen \in [Runs -> Versions \cup {None}]

\* A commit of main at which the version is v.
HasVersion(c, v) == c \in 1 .. Tip /\ version[c] = v

(***************************************************************************)
(* Every variable has its type: what is served was built from a commit of  *)
(* main, and only versions main has had are tagged.                        *)
(***************************************************************************)
TypeOK ==
    /\ version \in Seq(Versions) /\ Tip \in Commits
    /\ DOMAIN tag \subseteq Tags
    /\ \A t \in DOMAIN tag : HasVersion(tag[t], t[2])
    /\ \A v \in DOMAIN npm : HasVersion(npm[v], v)
    /\ \A v \in DOMAIN crate : HasVersion(crate[v], v)
    /\ page \in [Versions -> Pages]
    /\ latest \in Versions \cup {None}
    /\ RunsTyped
    /\ \A r \in Runs : highest[r] # None <=> pc[r]["clib"] = "edit"
    /\ failures \in 0 .. MaxFailures

(***************************************************************************)
(* The two tags of a version, its crate and its C libraries all come from  *)
(* one commit, whatever was half done before, by whichever run, and however*)
(* far main has moved since.                                               *)
(***************************************************************************)
TaggedTogether ==
    \A v \in Versions :
        LET from == {tag[t] : t \in {t \in DOMAIN tag : t[2] = v}}
                       \cup {crate[w] : w \in DOMAIN crate \cap {v}}
                       \cup ({page[v].from} \ {None})
        IN  Cardinality(from) <= 1

\* A go/v tag, which is the Go release, exists only for a version npm has.
GoTagAfterNpm == \A t \in DOMAIN tag : t[1] = "go" => t[2] \in DOMAIN npm

(***************************************************************************)
(* No public Release is without its manifest, and none is public before the*)
(* version is on npm.                                                      *)
(***************************************************************************)
PublicIsComplete ==
    \A v \in Versions :
        page[v].is = "public" => page[v].manifest /\ v \in DOMAIN npm

(***************************************************************************)
(* A version that is released late, or repaired, does not take "Latest"    *)
(* from a newer one: whoever publishes moves it to a version no lower than *)
(* it was at when that run read the tags, or leaves it alone.              *)
(***************************************************************************)
LateRepairKeepsLatest ==
    [][\A r \in Runs :
         pc[r]["clib"] = "edit" /\ pc'[r]["clib"] = "done" /\ latest' # latest
            => latest' >= seen[r]]_vars

(***************************************************************************)
(* The comment at clib-release.yml:120 has a backfill or a late repair of  *)
(* an older tag never displace the highest.  It may, when the newer version*)
(* is tagged and published after the older one's run read the tags.        *)
(***************************************************************************)
LatestNotDisplaced == [][latest' >= latest]_vars

(***************************************************************************)
(* A version that npm serves is tagged in the end: no half-finished release*)
(* is refused for good, if its failed job is run again.                    *)
(***************************************************************************)
HalfReleasesFinish ==
    \A v \in Versions : v \in DOMAIN npm ~> <<"ts", v>> \in DOMAIN tag

(***************************************************************************)
(* The comment at release.yml:158 has a repair name the commit the release *)
(* actually happened at: the tags name the commit npm was published from.  *)
(* They need not, when the first run failed before it tagged anything.     *)
(***************************************************************************)
TagsNameWhatNpmServes ==
    \A t \in DOMAIN tag : t[2] \in DOMAIN npm => tag[t] = npm[t[2]]
-----------------------------------------------------------------------------
(* The inductive invariant of the safety properties.                       *)

\* A version is raised by one, if at all.
VersionsInOrder == \A c \in 1 .. Tip : version[c] <= c

Started(r) == pc[r]["publish-npm"] # "not started"

GoTagged(v) == <<"go", v>> \in DOMAIN tag

(***************************************************************************)
(* A run that was started has a commit.  The other jobs of a run come after*)
(* it is through with its own, and then the go/v tag they work on is there.*)
(***************************************************************************)
JobsInOrder ==
    \A r \in Runs :
        /\ Started(r) => sha[r] # None
        /\ \A job \in {"clib", "crates"} :
              /\ pc[r][job] # "not started" => pc[r]["publish-npm"] = "done"
              /\ pc[r][job] \notin {"not started", "skipped"} => GoTagged(V(r))

(***************************************************************************)
(* Between the checkout and the tags: what is missing was asked for, the   *)
(* go/v tag is never to be without ts/v, and the anchor is what is tagged  *)
(* already.  Nothing is tagged that npm has not got.                       *)
(***************************************************************************)
AnchorFits ==
    \A r \in Runs :
        /\ pc[r]["publish-npm"] \in {"decide", "view npm", "publish", "tag"} =>
              /\ missing[r] \subseteq Lines \X {V(r)}
              /\ HasVersion(anchor[r], V(r))
              /\ <<"go", V(r)>> \in missing[r] =>
                    \/ <<"ts", V(r)>> \in missing[r]
                    \/ <<"ts", V(r)>> \in DOMAIN tag /\ tag[<<"ts", V(r)>>] = anchor[r]
        /\ pc[r]["publish-npm"] = "tag" => V(r) \in DOMAIN npm

\* The go/v tag of a version is where ts/v is, and comes after npm.
GoFollowsTs ==
    \A v \in Versions : GoTagged(v) =>
        /\ <<"ts", v>> \in DOMAIN tag /\ tag[<<"ts", v>>] = tag[<<"go", v>>]
        /\ v \in DOMAIN npm

\* Crate and libraries are built from the go/v tag.
BuiltFromGoTag ==
    \A v \in Versions :
        /\ v \in DOMAIN crate => GoTagged(v) /\ crate[v] = tag[<<"go", v>>]
        /\ page[v].from # None => GoTagged(v) /\ page[v].from = tag[<<"go", v>>]
        /\ page[v].is = "public" => page[v].manifest /\ GoTagged(v)
        /\ latest = v => GoTagged(v)

\* A run about to edit a Release saw its manifest, and the tags.
EditsWhatItRead ==
    \A r \in Runs : pc[r]["clib"] = "edit" =>
        page[V(r)].manifest /\ seen[r] <= highest[r]

IInv ==
    /\ TypeOK
    /\ VersionsInOrder /\ JobsInOrder /\ AnchorFits
    /\ GoFollowsTs /\ BuiltFromGoTag /\ EditsWhatItRead
=============================================================================
