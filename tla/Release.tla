------------------------------- MODULE Release -------------------------------
(***************************************************************************)
(* How a version is released: .github/workflows/publish.yml builds an      *)
(* image of every commit of main, an acceptance run on a licensed          *)
(* database leaves an evidence file, pushing the file starts               *)
(* release-service.yml, which creates two tags and a release, and          *)
(* release-documentation.yml, started by hand, releases what the second    *)
(* tag points at.  Runs of the workflows overlap, die at any step, and are *)
(* started again.                                                          *)
(*                                                                         *)
(* The constants of the workflows are those of one version.  What a job    *)
(* works out from the commits it names is read from main when a property   *)
(* or a check needs it.                                                    *)
(***************************************************************************)
EXTENDS Integers, Sequences, FiniteSets

CONSTANTS
    Jobs,         \* runs of release-service.yml
    DocJobs,      \* runs of release-documentation.yml
    Submissions,  \* [commit -> what it may bring as evidence], see IsSubmission
    MaxCommits,   \* bound on main
    MaxBuilds,    \* [commit -> bound on the images pushed for it]
    None

\* A source that is on no path to main.
Unmerged == 0

\* Where the documented commit is written down.
Documented == {"docs", "build", "notes", "publication", "provenance"}

\* The evidence file of an acceptance run, and the documentation of the commit
\* it is pushed with: the commit the file says was tested, the image it says was
\* tested (which build of which commit), whether the rest of the file is what
\* was reviewed, and the commit that is documented, which is written down in five
\* places: in documentation/contracts (docs), in documentation/manifest.yaml
\* (build), in release-documentation.yml (notes) and in the two scripts it runs,
\* generate_documentation_publication.py (publication) and
\* generate_documentation_release_evidence.py (provenance).  Every evidence file
\* has its own completedAt, so the push stands for the file.
IsSubmission(e) ==
    /\ DOMAIN e = {"source", "image", "reviewed"} \cup Documented
    /\ \A f \in {"source"} \cup Documented : e[f] \in Nat
    /\ e.image \in Nat \X (Nat \ {0})
    /\ e.reviewed \in BOOLEAN

ASSUME ReleaseAssumption ==
    /\ MaxCommits \in Nat
    /\ MaxBuilds \in [1 .. MaxCommits -> Nat]
    /\ \A c \in 1 .. MaxCommits : \A e \in Submissions[c] : IsSubmission(e) /\ e # None
    /\ \A c, p \in 1 .. MaxCommits : [commit |-> c, evidence |-> p] # None

VARIABLES
    main,      \* sequence of commits [api: the commit its OpenAPI document is
               \* as old as, evidence: None or a submission]
    builds,    \* [commit -> the build its image tag names, 0 for none]
    tags,      \* [tag -> None or [commit, evidence: the push in its message]]
    drafts,    \* [tag -> drafts of its release], see DocAssets for those of "docs"
    releases,  \* [tag -> None or the published release]
    job,       \* [Jobs -> [step, push: GITHUB_SHA, seen: push in the tag's message]]
    docjob     \* [DocJobs -> [step, commit]]

vars == <<main, builds, tags, drafts, releases, job, docjob>>
remote == <<tags, drafts, releases>>

Commits == 1 .. Len(main)
Pushes == {c \in Commits : main[c].evidence # None}
Evidence(p) == main[p].evidence

Kinds == {"service", "docs"}
Ended == {"idle", "done", "failed", "died"}

\* What generate_service_release.py writes of a push: the assets name the source,
\* the image, the evidence and the documentation contracts.
ServiceAssets(p) == [source |-> Evidence(p).source, image |-> Evidence(p).image,
                     evidence |-> p, docs |-> Evidence(p).docs, api |-> main[p].api]

\* What a release of the documentation says of a commit: source-binding.json, the
\* release notes, and manifest and provenance each name a source of their own.
\* The assets are being uploaded by a run, or all there ("whole"), or the run that
\* uploaded them is gone ("left").
DocAssets(c, upload) ==
    [source |-> Evidence(c).publication, notes |-> Evidence(c).notes,
     provenance |-> Evidence(c).provenance, docs |-> Evidence(c).docs,
     commit |-> c, api |-> main[c].api, upload |-> upload]

Init ==
    /\ main = << >>
    /\ builds = [c \in 1 .. MaxCommits |-> 0]
    /\ tags = [k \in Kinds |-> None]
    /\ drafts = [k \in Kinds |-> {}]
    /\ releases = [k \in Kinds |-> None]
    /\ job = [j \in Jobs |-> [step |-> "idle", push |-> 0, seen |-> 0]]
    /\ docjob = [d \in DocJobs |-> [step |-> "ended", commit |-> 0]]

-----------------------------------------------------------------------------
(* Commits, images and evidence. *)

\* The commit that last changed the OpenAPI document.
LastApi == IF main = << >> THEN 1 ELSE main[Len(main)].api

\* A source commit is merged; it may change the OpenAPI document.
PushSource ==
    /\ Len(main) < MaxCommits
    /\ \E api \in {LastApi, Len(main) + 1} :
          main' = Append(main, [api |-> api, evidence |-> None])
    /\ UNCHANGED <<builds, remote, job, docjob>>

\* A run of publish.yml builds the commit's image and moves its tag to it; run
\* again, it builds another.  A commit of evidence alone has none.
PublishImage(c) ==
    /\ builds[c] < MaxBuilds[c]
    /\ builds' = [builds EXCEPT ![c] = @ + 1]
    /\ UNCHANGED <<main, remote, job, docjob>>

\* compose_real_kes_evidence.py writes what the environment of the acceptance run
\* says of source and image: the image is one that was pushed, the source need
\* not be the one it was built from.
Accepted(e) ==
    /\ e.image[1] \in Commits
    /\ e.image[2] <= builds[e.image[1]]
    /\ e.source <= Len(main)

\* The evidence file is merged, with the documentation of that commit.
PushEvidence ==
    /\ Len(main) < MaxCommits
    /\ \E e \in Submissions[Len(main) + 1] :
          /\ Accepted(e)
          /\ main' = Append(main, [api |-> LastApi, evidence |-> e])
    /\ UNCHANGED <<builds, remote, job, docjob>>

-----------------------------------------------------------------------------
(* A run of release-service.yml. *)

At(j, step) == job[j].step = step

\* Fault: a run that is started again has the push of the one before.
MoveKeeping(j, step) == job' = [job EXCEPT ![j].step = step]

Move(j, step) ==
    job' = [job EXCEPT ![j] = IF step \in Ended THEN [step |-> step, push |-> 0, seen |-> 0]
                              ELSE [@ EXCEPT !.step = step]]

\* The step fails, or goes on to the next.
Check(j, step, holds, next) ==
    /\ At(j, step)
    /\ Move(j, IF holds THEN next ELSE "failed")
    /\ UNCHANGED <<main, builds, remote, docjob>>

\* The push starts a run, and a run that ended is started again with its push.
Start(j, p) ==
    /\ job[j].step \in Ended
    /\ \A i \in Jobs : job[i].push # p
    /\ job' = [job EXCEPT ![j] = [step |-> "verify", push |-> p, seen |-> 0]]
    /\ UNCHANGED <<main, builds, remote, docjob>>

Source(j) == Evidence(job[j].push).source
Image(j) == Evidence(job[j].push).image

\* The source is an ancestor of main.
Verify(j) == Check(j, "verify", Source(j) \in Commits, "resolve")

\* The image tag of the source still names the image of the evidence.
Resolve(j) ==
    Check(j, "resolve", Image(j)[1] = Source(j) /\ Image(j)[2] = builds[Image(j)[1]], "compose")

\* The steps of ensure_tag, for the two tags: ls-remote and push.
LookFor == [service |-> "look_for_service_tag", docs |-> "look_for_docs_tag"]
PushOf == [service |-> "push_service_tag", docs |-> "push_docs_tag"]

\* The image and the evidence are those reviewed, the documentation contracts of
\* the push those of the source: generate_service_release.py composes the assets.
Reviewed(p) == Evidence(p).reviewed
Bound(p) ==
    LET source == Evidence(p).source
    IN  main[p].api = main[source].api /\ Evidence(p).docs = source

Compose(j) ==
    Check(j, "compose", Bound(job[j].push) /\ Reviewed(job[j].push), LookFor["service"])

Target(j, k) == IF k = "service" THEN Source(j) ELSE job[j].push
AfterTag(k) == IF k = "service" THEN LookFor["docs"] ELSE "grep"

\* ensure_tag returns; the message of the service tag is looked at again.
Tagged(j, k, evidence) ==
    job' = [job EXCEPT ![j] = [step |-> AfterTag(k), push |-> @.push,
                               seen |-> IF k = "service" THEN evidence ELSE @.seen]]

\* Fault: ensure_tag takes no tag it did not create.
LookForNone(j, k) ==
    /\ At(j, LookFor[k])
    /\ Move(j, IF tags[k] = None THEN PushOf[k] ELSE "failed")
    /\ UNCHANGED <<main, builds, remote, docjob>>

\* ensure_tag: a tag that is there has to point at the target; its message is read.
Look(j, k) ==
    /\ At(j, LookFor[k])
    /\ \/ tags[k] = None /\ Move(j, PushOf[k])
       \/ tags[k] # None /\ tags[k].commit # Target(j, k) /\ Move(j, "failed")
       \/ /\ tags[k] # None /\ tags[k].commit = Target(j, k)
          /\ Tagged(j, k, tags[k].evidence)
    /\ UNCHANGED <<main, builds, remote, docjob>>

\* Fault: the tag is pushed with --force.
PushForced(j, k) ==
    /\ At(j, PushOf[k])
    /\ tags' = [tags EXCEPT ![k] = [commit |-> Target(j, k), evidence |-> job[j].push]]
    /\ Tagged(j, k, job[j].push)
    /\ UNCHANGED <<main, builds, drafts, releases, docjob>>

\* ensure_tag pushes the tag it did not find; if it is there by now, git refuses.
Push(j, k) ==
    /\ At(j, PushOf[k])
    /\ \/ tags[k] # None /\ Move(j, "failed") /\ UNCHANGED tags
       \/ /\ tags[k] = None
          /\ tags' = [tags EXCEPT ![k] = [commit |-> Target(j, k), evidence |-> job[j].push]]
          /\ Tagged(j, k, job[j].push)
    /\ UNCHANGED <<main, builds, drafts, releases, docjob>>

\* Fault: the message of the service tag is not read again.
GrepNothing(j) == Check(j, "grep", TRUE, "publish")

\* The message of the service tag has to hold this run's evidence.
Grep(j) == Check(j, "grep", job[j].seen = job[j].push, "publish")

\* A release that is there must be immutable, which a draft is not; otherwise gh
\* creates a draft and uploads the assets.  (Only gh itself publishes it, when all
\* are uploaded; how many there are of a draft that was left does not matter.)
Draft(j) ==
    /\ At(j, "publish")
    /\ \/ releases["service"] # None /\ Move(j, "done") /\ UNCHANGED drafts
       \/ /\ releases["service"] = None /\ drafts["service"] # {}
          /\ Move(j, "failed") /\ UNCHANGED drafts
       \/ /\ releases["service"] = None /\ drafts["service"] = {}
          /\ drafts' = [drafts EXCEPT !["service"] = {ServiceAssets(job[j].push)}]
          /\ Move(j, "upload")
    /\ UNCHANGED <<main, builds, tags, releases, docjob>>

\* gh publishes it.  (No other run can have done so since the draft was created;
\* GitHub would refuse.)
Publish(j) ==
    /\ At(j, "upload")
    /\ releases["service"] = None
    /\ releases' = [releases EXCEPT !["service"] = ServiceAssets(job[j].push)]
    /\ drafts' = [drafts EXCEPT !["service"] = @ \ {ServiceAssets(job[j].push)}]
    /\ Move(j, "done")
    /\ UNCHANGED <<main, builds, tags, docjob>>

\* The runner is lost, a command times out, or the run is cancelled.
Die(j) ==
    /\ job[j].step \notin Ended
    /\ Move(j, "died")
    /\ UNCHANGED <<main, builds, remote, docjob>>

Step(j) ==
    \/ Verify(j) \/ Resolve(j) \/ Compose(j)
    \/ \E k \in Kinds : Look(j, k) \/ Push(j, k)
    \/ Grep(j) \/ Draft(j) \/ Publish(j)

-----------------------------------------------------------------------------
(* A run of release-documentation.yml. *)

MoveDocs(d, step) ==
    docjob' = [docjob EXCEPT ![d] = [step |-> step, commit |-> IF step = "ended" THEN 0 ELSE @.commit]]
EndDocs(d) == MoveDocs(d, "ended")

\* It is dispatched by hand: a tag that a workflow pushes starts no other.
StartDocs(d) ==
    /\ docjob[d].step = "ended"
    /\ tags["docs"] # None
    /\ docjob' = [docjob EXCEPT ![d] = [step |-> "compose", commit |-> tags["docs"].commit]]
    /\ UNCHANGED <<main, builds, remote, job>>

\* The notes' source is an ancestor of the tagged commit.
NotesAreMerged(c) == Evidence(c).notes \in 1 .. c

\* Fault: the build's source is not compared with the one that is published.
ComposeDocsUnbound(d) ==
    LET c == docjob[d].commit
    IN  /\ docjob[d].step = "compose"
        /\ MoveDocs(d, IF NotesAreMerged(c) /\ Evidence(c).docs = Evidence(c).build
                       THEN "draft" ELSE "ended")
        /\ UNCHANGED <<main, builds, remote, job>>

\* The contracts are those that the manifest's source yields, which is the source
\* of the build, and generate_documentation_publication.py publishes no other.
\* generate_documentation_release_evidence.py compares its own with nothing.
ComposeDocs(d) ==
    LET c == docjob[d].commit
        e == Evidence(c)
    IN  /\ docjob[d].step = "compose"
        /\ MoveDocs(d, IF NotesAreMerged(c) /\ e.docs = e.build /\ e.build = e.publication
                       THEN "draft" ELSE "ended")
        /\ UNCHANGED <<main, builds, remote, job>>

\* The draft the run uploads to.
Uploading(d) == DocAssets(docjob[d].commit, d)

\* gh creates a draft, if the tag has no release, whatever drafts there are,
DraftDocs(d) ==
    /\ docjob[d].step = "draft"
    /\ \/ releases["docs"] # None /\ EndDocs(d) /\ UNCHANGED drafts
       \/ /\ releases["docs"] = None
          /\ drafts' = [drafts EXCEPT !["docs"] = @ \cup {Uploading(d)}]
          /\ MoveDocs(d, "upload")
    /\ UNCHANGED <<main, builds, tags, releases, job>>

\* and uploads the assets, unless another run published the draft meanwhile: a
\* release that is published takes none.
UploadDocs(d) ==
    /\ docjob[d].step = "upload"
    /\ \/ Uploading(d) \notin drafts["docs"] /\ EndDocs(d) /\ UNCHANGED drafts
       \/ /\ Uploading(d) \in drafts["docs"]
          /\ drafts' = [drafts EXCEPT !["docs"] =
                           (@ \ {Uploading(d)}) \cup {DocAssets(docjob[d].commit, "whole")}]
          /\ MoveDocs(d, "edit")
    /\ UNCHANGED <<main, builds, tags, releases, job>>

\* gh edits the release it finds for the tag: the published one, or one of the
\* drafts, which it publishes, whichever run it is of and whatever it holds.
PublishDocs(d) ==
    /\ docjob[d].step = "edit"
    /\ \/ releases["docs"] # None /\ UNCHANGED <<drafts, releases>>
       \/ /\ releases["docs"] = None
          /\ \E a \in drafts["docs"] :
                /\ releases' = [releases EXCEPT !["docs"] = a]
                /\ drafts' = [drafts EXCEPT !["docs"] = @ \ {a}]
    /\ EndDocs(d)
    /\ UNCHANGED <<main, builds, tags, job>>

\* The run is lost or fails; what it had uploaded stays.
DieDocs(d) ==
    /\ docjob[d].step # "ended"
    /\ IF docjob[d].step = "upload" /\ Uploading(d) \in drafts["docs"]
       THEN drafts' = [drafts EXCEPT !["docs"] =
                         (@ \ {Uploading(d)}) \cup {DocAssets(docjob[d].commit, "left")}]
       ELSE UNCHANGED drafts
    /\ EndDocs(d)
    /\ UNCHANGED <<main, builds, tags, releases, job>>

-----------------------------------------------------------------------------

Next ==
    \/ PushSource \/ PushEvidence
    \/ \E c \in Commits : PublishImage(c)
    \/ \E j \in Jobs : (\E p \in Pushes : Start(j, p)) \/ Step(j) \/ Die(j)
    \/ \E d \in DocJobs :
          \/ StartDocs(d) \/ ComposeDocs(d) \/ DraftDocs(d) \/ UploadDocs(d) \/ PublishDocs(d)
          \/ DieDocs(d)

Spec == Init /\ [][Next]_vars
=============================================================================
