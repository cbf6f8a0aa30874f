-------------------------- MODULE ReleaseProperties --------------------------
(* What has to hold of the releases and the tags they are of. *)
EXTENDS Release

JobSteps == {"verify", "resolve", "compose", "grep", "publish", "upload"}
            \cup {LookFor[k] : k \in Kinds} \cup {PushOf[k] : k \in Kinds}
DocSteps == {"compose", "draft", "upload", "edit"}

AnySubmission == UNION {Submissions[c] : c \in 1 .. MaxCommits}
AssetsOfService == {ServiceAssets(p) : p \in Pushes}
Uploads == DocJobs \cup {"whole", "left"}
AssetsOfDocs == {DocAssets(c, u) : c \in Pushes, u \in Uploads}

\* Every variable keeps its type; a run that ended holds nothing.
TypeOK ==
    /\ main \in Seq([api : 1 .. MaxCommits, evidence : AnySubmission \cup {None}])
    /\ Len(main) <= MaxCommits
    /\ builds \in [1 .. MaxCommits -> Nat]
    /\ tags \in [Kinds -> [commit : Commits, evidence : Pushes] \cup {None}]
    /\ drafts \in [Kinds -> SUBSET (AssetsOfService \cup AssetsOfDocs)]
    /\ releases \in [Kinds -> AssetsOfService \cup AssetsOfDocs \cup {None}]
    /\ job \in [Jobs -> [step : JobSteps, push : Pushes, seen : Pushes \cup {0}]
                        \cup [step : Ended, push : {0}, seen : {0}]]
    /\ docjob \in [DocJobs -> [step : DocSteps, commit : Pushes]
                              \cup [step : {"ended"}, commit : {0}]]

\* A published service release is of one piece: its evidence is in the message of
\* its tag, was reviewed, and was taken of the commit the tag points at and of an
\* image built from that commit; its contracts document that commit; and the
\* documentation tag is of the push that brought the evidence.
\* (release-service.yml:36-139, README.md:62-64)
ReleaseIsBound ==
    LET r == releases["service"]
        e == Evidence(r.evidence)
    IN  r # None =>
            /\ tags["service"] = [commit |-> r.source, evidence |-> r.evidence]
            /\ tags["docs"] # None /\ tags["docs"].commit = r.evidence
            /\ r.source \in Commits
            /\ e.source = r.source /\ e.image = r.image /\ e.reviewed
            /\ r.image[1] = r.source /\ r.image[2] \in 1 .. builds[r.source]
            /\ r.docs = r.source /\ r.api = main[r.source].api

\* The two releases of a version describe the same source, whichever workflow
\* came first, however its runs overlapped and whoever published whose draft: the
\* contracts and the source binding of the documentation are of the source that
\* was released, and of its tag; the notes name a commit that was merged before.
\* Which one they name, and which one manifest and provenance name, is compared
\* with nothing, so nothing can be said of it.
\* (release-service.yml:70-71, release-documentation.yml:42-47, 72-74,
\* generate_documentation_publication.py:64)
ReleasesAgree ==
    LET s == releases["service"]
        d == releases["docs"]
    IN  /\ d # None => /\ d.commit = tags["docs"].commit
                      /\ d.docs = d.source /\ d.notes \in 1 .. d.commit
        /\ s # None /\ d # None => d.source = s.source /\ d.api = s.api

\* "completed earlier tags and releases are never moved or replaced" (README.md:63)
NeverMoved ==
    [][\A k \in Kinds : /\ tags[k] # None => tags'[k] = tags[k]
                        /\ releases[k] # None => releases'[k] = releases[k]]_vars

-----------------------------------------------------------------------------

\* The push of j is in order and nothing is in its way: no other evidence was
\* pushed, the image was not built again, and no draft was left by a run that died.
InOrder(j) ==
    LET p == job[j].push
        e == Evidence(p)
    IN  /\ e.source \in Commits /\ Bound(p) /\ Reviewed(p)
        /\ e.image = <<e.source, builds[e.source]>>
        /\ Pushes = {p}
        /\ At(j, "publish") => drafts["service"] = {}

\* A run whose push is in order does not fail, whatever earlier runs of the push
\* left behind: it finishes their work. (release-service.yml:103-139)
RerunsFinish ==
    [][\A j \in Jobs : job[j].step \notin Ended /\ InOrder(j) => job'[j].step # "failed"]_vars
=============================================================================
