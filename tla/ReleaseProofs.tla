---------------------------- MODULE ReleaseProofs ----------------------------
(***************************************************************************)
(* For any number of runs, commits, builds and pushes of evidence: tags    *)
(* and releases never move, a published release is of one piece, and the   *)
(* releases of service and documentation agree, and a run whose push is in *)
(* order does not fail.  The invariant says of every run what the steps it *)
(* has passed have established, and that nothing that happens later takes  *)
(* it back; a second one says whose push a tag was made for.               *)
(***************************************************************************)
EXTENDS ReleaseProperties, TLAPS

\* The steps after a check, by what it established.
AfterGrep == {"publish", "upload"}
AfterDocs == AfterGrep \cup {"grep"}
AfterService == AfterDocs \cup {LookFor["docs"], PushOf["docs"]}
AfterCompose == AfterService \cup {LookFor["service"], PushOf["service"]}
AfterResolve == AfterCompose \cup {"compose"}
AfterVerify == AfterResolve \cup {"resolve"}

\* The image of the evidence was built from its source.
OwnImage(p) ==
    LET e == Evidence(p)
    IN  e.image[1] = e.source /\ e.image[2] \in 1 .. builds[e.source]

\* What a run of release-service.yml knows at its step.
JobFacts(j) ==
    LET step == job[j].step
        p == job[j].push
    IN  /\ step \in AfterVerify => Source(j) \in Commits
        /\ step \in AfterResolve => OwnImage(p)
        /\ step \in AfterCompose => Bound(p) /\ Reviewed(p)
        /\ step \in AfterService =>
              /\ tags["service"] # None
              /\ tags["service"].commit = Source(j)
              /\ tags["service"].evidence = job[j].seen
        /\ step \in AfterDocs => tags["docs"] # None /\ tags["docs"].commit = p
        /\ step \in AfterGrep => job[j].seen = p

\* What a run of release-documentation.yml knows at its step.
DocFacts(d) ==
    LET c == docjob[d].commit
        e == Evidence(c)
    IN  docjob[d].step # "ended" =>
            /\ tags["docs"] # None /\ tags["docs"].commit = c
            /\ docjob[d].step # "compose" => e.docs = e.publication /\ NotesAreMerged(c)

\* A published service release is what the run of one push composed.
ServiceRelease ==
    LET r == releases["service"]
        p == r.evidence
    IN  r # None =>
            /\ p \in Pushes /\ r = ServiceAssets(p)
            /\ Evidence(p).source \in Commits
            /\ OwnImage(p) /\ Bound(p) /\ Reviewed(p)
            /\ tags["service"] = [commit |-> r.source, evidence |-> p]
            /\ tags["docs"] # None /\ tags["docs"].commit = p

\* Drafts and release of the documentation are of the commit that was tagged.
DocRelease ==
    \A a \in drafts["docs"] \cup ({releases["docs"]} \ {None}) :
        LET c == tags["docs"].commit
        IN  /\ tags["docs"] # None
            /\ \E u \in Uploads : a = DocAssets(c, u)
            /\ Evidence(c).docs = Evidence(c).publication /\ NotesAreMerged(c)

\* The invariant.
RInv ==
    /\ TypeOK
    /\ tags["docs"] # None => tags["docs"].commit \in Pushes
    /\ \A j \in Jobs : JobFacts(j)
    /\ \A d \in DocJobs : DocFacts(d)
    /\ ServiceRelease
    /\ DocRelease

-----------------------------------------------------------------------------

\* History only grows: commits stay, tags stay, image tags count upwards.
Forward ==
    /\ Commits \subseteq Commits'
    /\ \A c \in Commits : main'[c] = main[c]
    /\ builds' \in [1 .. MaxCommits -> Nat]
    /\ \A c \in 1 .. MaxCommits : builds[c] <= builds'[c]
    /\ \A k \in Kinds : tags[k] # None => tags'[k] = tags[k]

\* There are no more commits than the bound allows.
LEMMA Bounded ==
  ASSUME TypeOK
  PROVE  /\ Commits \subseteq 1 .. MaxCommits
         /\ Pushes \subseteq Commits
<1>1. Len(main) \in Nat /\ Len(main) <= MaxCommits
  BY DEF TypeOK
<1> QED BY <1>1, ReleaseAssumption DEF Commits, Pushes

\* A merged commit leaves the others alone.
LEMMA AppendForward ==
  ASSUME TypeOK, NEW c, main' = Append(main, c), UNCHANGED <<builds, tags>>
  PROVE  Forward
<1>1. main \in Seq([api : 1 .. MaxCommits, evidence : AnySubmission \cup {None}])
  BY DEF TypeOK
<1>2. /\ Len(main') = Len(main) + 1
      /\ \A i \in 1 .. Len(main) : main'[i] = main[i]
      /\ Len(main) \in Nat
  BY <1>1
<1>3. builds \in [1 .. MaxCommits -> Nat] /\ builds' = builds
  BY DEF TypeOK
<1>4. Commits \subseteq Commits' /\ \A i \in Commits : main'[i] = main[i]
  BY <1>2 DEF Commits
<1>5. builds' \in [1 .. MaxCommits -> Nat] /\ \A i \in 1 .. MaxCommits : builds[i] <= builds'[i]
  BY <1>3
<1> QED BY <1>4, <1>5 DEF Forward

\* Nothing but the builds and tags that are new changes in any other step.
LEMMA SameForward ==
  ASSUME TypeOK, UNCHANGED <<main, builds, tags>>
  PROVE  Forward
<1>1. builds' \in [1 .. MaxCommits -> Nat] /\ \A i \in 1 .. MaxCommits : builds[i] <= builds'[i]
  BY DEF TypeOK
<1> QED BY <1>1 DEF Forward, Commits

\* What a push brought stays what it was, and what was established of it stays
\* established.
LEMMA PushForward ==
  ASSUME TypeOK, Forward, NEW p \in Pushes
  PROVE  /\ p \in Pushes' /\ main'[p] = main[p]
         /\ Evidence(p).source \in Commits => Evidence(p).source \in Commits'
         /\ Evidence(p).source \in Commits /\ Bound(p) => Bound(p)'
         /\ Reviewed(p) => Reviewed(p)'
         /\ Evidence(p).source \in Commits /\ OwnImage(p) => OwnImage(p)'
<1>1. p \in Commits /\ p \in Commits' /\ main'[p] = main[p]
  BY DEF Pushes, Forward
<1>2. p \in Pushes'
  BY <1>1 DEF Pushes
<1>3. ASSUME Evidence(p).source \in Commits, OwnImage(p)
      PROVE  OwnImage(p)'
  <2>1. Evidence(p).source \in 1 .. MaxCommits
    BY <1>3, ReleaseAssumption DEF Commits, TypeOK
  <2>2. /\ builds[Evidence(p).source] \in Nat /\ builds'[Evidence(p).source] \in Int
        /\ builds[Evidence(p).source] <= builds'[Evidence(p).source]
    BY <2>1 DEF TypeOK, Forward
  <2> QED BY <1>1, <1>3, <2>2 DEF OwnImage, Evidence
<1> QED BY <1>1, <1>2, <1>3 DEF Forward, Evidence, Bound, Reviewed

\* Which steps come after which.
LEMMA Steps ==
  /\ AfterGrep \subseteq AfterDocs /\ AfterDocs \subseteq AfterService
  /\ AfterService \subseteq AfterCompose /\ AfterCompose \subseteq AfterResolve
  /\ AfterResolve \subseteq AfterVerify
  /\ JobSteps = AfterVerify \cup {"verify"}
  /\ \A step \in Ended : step \notin JobSteps /\ step \notin AfterVerify
<1>1. {LookFor[k] : k \in Kinds} = {LookFor["docs"], LookFor["service"]}
  BY DEF Kinds
<1>2. {PushOf[k] : k \in Kinds} = {PushOf["docs"], PushOf["service"]}
  BY DEF Kinds
<1> QED
  BY <1>1, <1>2 DEF JobSteps, AfterVerify, AfterResolve, AfterCompose, AfterService, AfterDocs, AfterGrep,
                    Ended, LookFor, PushOf

\* A run that did not move still knows what it knew.
LEMMA JobFrame ==
  ASSUME TypeOK, Forward, NEW j \in Jobs, JobFacts(j), job'[j] = job[j]
  PROVE  JobFacts(j)'
<1>1. CASE job[j].step \in Ended
  BY <1>1, Steps DEF JobFacts
<1>2. CASE job[j].step \notin Ended
  <2>1. job[j].push \in Pushes
    BY <1>2 DEF TypeOK
  <2>2. Source(j)' = Source(j)
    BY <2>1, PushForward DEF Source, Evidence
  <2>3. /\ Source(j) \in Commits => Source(j)' \in Commits'
        /\ Source(j) \in Commits /\ Bound(job[j].push) => Bound(job[j].push)'
        /\ Source(j) \in Commits /\ OwnImage(job[j].push) => OwnImage(job[j].push)'
        /\ Reviewed(job[j].push) => Reviewed(job[j].push)'
    <3>1. \A q \in Pushes : main'[q] = main[q]
      BY PushForward
    <3> QED BY <2>1, <2>2, PushForward DEF Source
  <2>4. \A k \in Kinds : tags[k] # None => tags'[k] = tags[k]
    BY DEF Forward
  <2> QED BY <2>2, <2>3, <2>4, Steps DEF JobFacts, Kinds
<1> QED BY <1>1, <1>2

\* The same of a run of release-documentation.yml.
LEMMA DocFrame ==
  ASSUME TypeOK, Forward, NEW d \in DocJobs, DocFacts(d), docjob'[d] = docjob[d]
  PROVE  DocFacts(d)'
<1>1. CASE docjob[d].step = "ended"
  BY <1>1 DEF DocFacts
<1>2. CASE docjob[d].step # "ended"
  <2>1. docjob[d].commit \in Pushes
    BY <1>2 DEF TypeOK
  <2> QED BY <2>1, PushForward DEF DocFacts, Forward, Evidence, Kinds, NotesAreMerged
<1> QED BY <1>1, <1>2

\* Nor does a release of which nothing was changed.
LEMMA ReleaseFrame ==
  ASSUME TypeOK, Forward, ServiceRelease, releases'["service"] = releases["service"]
  PROVE  ServiceRelease'
<1> SUFFICES ASSUME releases["service"] # None
             PROVE  ServiceRelease'
  BY DEF ServiceRelease
<1> DEFINE p == releases["service"].evidence
<1>1. p \in Pushes /\ p \in Pushes' /\ main'[p] = main[p]
  BY PushForward DEF ServiceRelease
<1>2. /\ Evidence(p).source \in Commits /\ OwnImage(p) /\ Bound(p) /\ Reviewed(p)
      /\ tags["service"] = [commit |-> releases["service"].source, evidence |-> p]
      /\ tags["docs"] # None /\ tags["docs"].commit = p
      /\ releases["service"] = ServiceAssets(p)
  BY DEF ServiceRelease
<1>3. /\ Evidence(p).source \in Commits' /\ OwnImage(p)' /\ Bound(p)' /\ Reviewed(p)'
  <2>1. \A q \in Pushes :
          /\ Evidence(q).source \in Commits => Evidence(q).source \in Commits'
          /\ Evidence(q).source \in Commits /\ Bound(q) => Bound(q)'
          /\ Reviewed(q) => Reviewed(q)'
          /\ Evidence(q).source \in Commits /\ OwnImage(q) => OwnImage(q)'
    BY PushForward
  <2> QED BY <1>1, <1>2, <2>1
<1>4. tags'["service"] = tags["service"] /\ tags'["docs"] = tags["docs"]
  <2>1. tags["service"] # None
    <3>1. releases["service"].source = Evidence(p).source
      BY <1>2 DEF ServiceAssets
    <3>2. Evidence(p).source \in 1 .. MaxCommits /\ p \in 1 .. MaxCommits
      BY <1>1, <1>2, Bounded
    <3> QED BY <1>2, <3>1, <3>2, ReleaseAssumption
  <2> QED BY <1>2, <2>1 DEF Forward, Kinds
<1>5. ServiceAssets(p)' = ServiceAssets(p)
  BY <1>1 DEF ServiceAssets, Evidence
<1> QED BY <1>1, <1>2, <1>3, <1>4, <1>5 DEF ServiceRelease, Evidence

\* The same of the release of the documentation.
LEMMA DocReleaseFrame ==
  ASSUME TypeOK, Forward, DocRelease,
         tags["docs"] # None => tags["docs"].commit \in Pushes,
         releases'["docs"] = releases["docs"], drafts'["docs"] = drafts["docs"]
  PROVE  DocRelease'
<1> SUFFICES ASSUME NEW a \in drafts["docs"] \cup ({releases["docs"]} \ {None})
             PROVE  /\ tags'["docs"] # None
                    /\ \E u \in Uploads : a = DocAssets(tags["docs"].commit, u)'
                    /\ Evidence(tags["docs"].commit)'.docs = Evidence(tags["docs"].commit)'.publication
                    /\ NotesAreMerged(tags["docs"].commit)'
  BY DEF DocRelease
<1>1. tags["docs"] # None /\ tags'["docs"] = tags["docs"] /\ tags["docs"].commit \in Pushes
  BY DEF DocRelease, Forward, Kinds
<1>2. main'[tags["docs"].commit] = main[tags["docs"].commit]
  BY <1>1, PushForward
<1> QED BY <1>1, <1>2 DEF DocRelease, DocAssets, Evidence, NotesAreMerged

\* What was well typed still is when there are more commits and pushes.
LEMMA Retyped ==
  ASSUME TypeOK, Forward
  PROVE  /\ tags \in [Kinds -> [commit : Commits', evidence : Pushes'] \cup {None}]
         /\ drafts \in [Kinds -> SUBSET (AssetsOfService' \cup AssetsOfDocs')]
         /\ releases \in [Kinds -> AssetsOfService' \cup AssetsOfDocs' \cup {None}]
         /\ job \in [Jobs -> [step : JobSteps, push : Pushes', seen : Pushes' \cup {0}]
                             \cup [step : Ended, push : {0}, seen : {0}]]
         /\ docjob \in [DocJobs -> [step : DocSteps, commit : Pushes']
                                   \cup [step : {"ended"}, commit : {0}]]
<1>1. Commits \subseteq Commits' /\ Pushes \subseteq Pushes'
  BY PushForward DEF Forward
<1>2. AssetsOfService \subseteq AssetsOfService' /\ AssetsOfDocs \subseteq AssetsOfDocs'
  <2>1. \A p \in Pushes : p \in Pushes' /\ main'[p] = main[p]
    BY PushForward
  <2> QED BY <2>1 DEF AssetsOfService, AssetsOfDocs, ServiceAssets, DocAssets, Evidence
<1>3. tags \in [Kinds -> [commit : Commits', evidence : Pushes'] \cup {None}]
  BY <1>1 DEF TypeOK
<1>4. /\ drafts \in [Kinds -> SUBSET (AssetsOfService' \cup AssetsOfDocs')]
      /\ releases \in [Kinds -> AssetsOfService' \cup AssetsOfDocs' \cup {None}]
  BY <1>2 DEF TypeOK
<1>5. job \in [Jobs -> [step : JobSteps, push : Pushes', seen : Pushes' \cup {0}]
                      \cup [step : Ended, push : {0}, seen : {0}]]
  BY <1>1 DEF TypeOK
<1>6. docjob \in [DocJobs -> [step : DocSteps, commit : Pushes']
                            \cup [step : {"ended"}, commit : {0}]]
  BY <1>1 DEF TypeOK
<1> QED BY <1>3, <1>4, <1>5, <1>6

-----------------------------------------------------------------------------

\* A step of one run keeps the invariant if what it writes is what it knows.
LEMMA RunWrites ==
  ASSUME RInv, Forward, NEW j \in Jobs, UNCHANGED <<main, builds, docjob>>,
         tags' \in [Kinds -> [commit : Commits, evidence : Pushes] \cup {None}],
         drafts' \in [Kinds -> SUBSET (AssetsOfService \cup AssetsOfDocs)],
         releases' \in [Kinds -> AssetsOfService \cup AssetsOfDocs \cup {None}],
         NEW r \in [step : JobSteps, push : Pushes, seen : Pushes \cup {0}]
                     \cup [step : Ended, push : {0}, seen : {0}],
         job' = [job EXCEPT ![j] = r],
         tags'["docs"] # None => tags'["docs"].commit \in Pushes,
         JobFacts(j)', ServiceRelease', DocRelease'
  PROVE  RInv'
<1>1. Commits' = Commits /\ Pushes' = Pushes
  BY DEF Pushes, Commits
<1>2. AssetsOfService' = AssetsOfService /\ AssetsOfDocs' = AssetsOfDocs
  BY <1>1 DEF AssetsOfService, AssetsOfDocs, ServiceAssets, DocAssets, Evidence
<1>3. TypeOK'
  <2>1. job' \in [Jobs -> [step : JobSteps, push : Pushes', seen : Pushes' \cup {0}]
                        \cup [step : Ended, push : {0}, seen : {0}]]
    BY <1>1 DEF RInv, TypeOK
  <2>2. /\ main' \in Seq([api : 1 .. MaxCommits, evidence : AnySubmission \cup {None}])
        /\ Len(main') <= MaxCommits
        /\ builds' \in [1 .. MaxCommits -> Nat]
    BY DEF RInv, TypeOK
  <2>3. docjob' \in [DocJobs -> [step : DocSteps, commit : Pushes']
                              \cup [step : {"ended"}, commit : {0}]]
    BY <1>1 DEF RInv, TypeOK
  <2>4. /\ tags' \in [Kinds -> [commit : Commits', evidence : Pushes'] \cup {None}]
        /\ drafts' \in [Kinds -> SUBSET (AssetsOfService' \cup AssetsOfDocs')]
        /\ releases' \in [Kinds -> AssetsOfService' \cup AssetsOfDocs' \cup {None}]
    BY <1>1, <1>2
  <2> QED BY <2>1, <2>2, <2>3, <2>4 DEF TypeOK
<1>4. \A i \in Jobs : JobFacts(i)'
  <2> SUFFICES ASSUME NEW i \in Jobs, i # j PROVE JobFacts(i)'
    OBVIOUS
  <2>1. job'[i] = job[i]
    BY DEF RInv, TypeOK
  <2> QED BY <2>1, JobFrame DEF RInv
<1>5. \A d \in DocJobs : DocFacts(d)'
  BY DocFrame DEF RInv
<1> QED BY <1>1, <1>3, <1>4, <1>5 DEF RInv

\* And one that writes nothing, if it moves to what it knows.
LEMMA RunMoves ==
  ASSUME RInv, NEW j \in Jobs, UNCHANGED <<main, builds, remote, docjob>>,
         NEW r \in [step : JobSteps, push : Pushes, seen : Pushes \cup {0}]
                     \cup [step : Ended, push : {0}, seen : {0}],
         job' = [job EXCEPT ![j] = r],
         JobFacts(j)'
  PROVE  RInv'
<1>1. Forward
  BY SameForward DEF RInv, remote
<1>2. /\ tags' \in [Kinds -> [commit : Commits, evidence : Pushes] \cup {None}]
      /\ drafts' \in [Kinds -> SUBSET (AssetsOfService \cup AssetsOfDocs)]
      /\ releases' \in [Kinds -> AssetsOfService \cup AssetsOfDocs \cup {None}]
      /\ tags'["docs"] # None => tags'["docs"].commit \in Pushes
  BY DEF RInv, TypeOK, remote
<1>3. ServiceRelease' /\ DocRelease'
  BY <1>1, ReleaseFrame, DocReleaseFrame DEF RInv, remote
<1> QED BY <1>1, <1>2, <1>3, RunWrites

\* A run that ends knows nothing and holds nothing.
LEMMA RunEnds ==
  ASSUME RInv, NEW j \in Jobs, job[j].step \notin Ended, UNCHANGED <<main, builds, remote, docjob>>,
         NEW step \in Ended, Move(j, step)
  PROVE  RInv'
<1>1. job' = [job EXCEPT ![j] = [step |-> step, push |-> 0, seen |-> 0]]
  BY DEF Move
<1>2. job'[j].step = step
  BY <1>1 DEF RInv, TypeOK
<1>3. JobFacts(j)'
  BY <1>2, Steps DEF JobFacts
<1> QED BY <1>1, <1>3, RunMoves

\* A run that passes a check goes on with what it knew and what the check says.
LEMMA RunGoesOn ==
  ASSUME RInv, NEW j \in Jobs, job[j].step \notin Ended, UNCHANGED <<main, builds, remote, docjob>>,
         NEW step \in JobSteps, Move(j, step),
         LET p == job[j].push
         IN  /\ step \in AfterVerify => Source(j) \in Commits
             /\ step \in AfterResolve => OwnImage(p)
             /\ step \in AfterCompose => Bound(p) /\ Reviewed(p)
             /\ step \in AfterService =>
                   /\ tags["service"] # None
                   /\ tags["service"].commit = Source(j)
                   /\ tags["service"].evidence = job[j].seen
             /\ step \in AfterDocs => tags["docs"] # None /\ tags["docs"].commit = p
             /\ step \in AfterGrep => job[j].seen = p
  PROVE  RInv'
<1>1. step \notin Ended
  BY Steps
<1>2. job[j] \in [step : JobSteps, push : Pushes, seen : Pushes \cup {0}]
  BY DEF RInv, TypeOK
<1> DEFINE r == [job[j] EXCEPT !.step = step]
<1>3. job' = [job EXCEPT ![j] = r]
  BY <1>1 DEF Move
<1>4. r \in [step : JobSteps, push : Pushes, seen : Pushes \cup {0}]
  BY <1>2
<1>5. job'[j].step = step /\ job'[j].push = job[j].push /\ job'[j].seen = job[j].seen
  BY <1>2, <1>3 DEF RInv, TypeOK
<1>6. JobFacts(j)'
  BY <1>5 DEF JobFacts, remote, Source, Evidence, Commits, OwnImage, Bound, Reviewed
<1> HIDE DEF r
<1> QED BY <1>3, <1>4, <1>6, RunMoves

\* Commits, images and evidence disturb nothing that was established.
LEMMA MainGrows ==
  ASSUME RInv, Forward, UNCHANGED <<remote, job, docjob>>,
         main' \in Seq([api : 1 .. MaxCommits, evidence : AnySubmission \cup {None}]),
         Len(main') <= MaxCommits
  PROVE  RInv'
<1>1. TypeOK'
  BY Retyped DEF RInv, TypeOK, remote, Forward
<1>2. \A j \in Jobs : JobFacts(j)'
  BY JobFrame DEF RInv
<1>3. \A d \in DocJobs : DocFacts(d)'
  BY DocFrame DEF RInv
<1>4. ServiceRelease' /\ DocRelease'
  BY ReleaseFrame, DocReleaseFrame DEF RInv, remote
<1>5. tags'["docs"] # None => tags'["docs"].commit \in Pushes'
  BY PushForward DEF RInv, remote
<1> QED BY <1>1, <1>2, <1>3, <1>4, <1>5 DEF RInv

\* The OpenAPI document is as old as one of the commits.
LEMMA LastApiType ==
  ASSUME TypeOK, Len(main) < MaxCommits
  PROVE  LastApi \in 1 .. MaxCommits
<1>1. main \in Seq([api : 1 .. MaxCommits, evidence : AnySubmission \cup {None}])
  BY DEF TypeOK
<1>2. CASE main = << >>
  BY <1>2, ReleaseAssumption DEF LastApi
<1>3. CASE main # << >>
  <2>1. Len(main) \in 1 .. Len(main)
    BY <1>1, <1>3
  <2> DEFINE S == [api : 1 .. MaxCommits, evidence : AnySubmission \cup {None}]
  <2>2. main \in Seq(S)
    BY <1>1
  <2>3. \A c \in S : c.api \in 1 .. MaxCommits
    OBVIOUS
  <2> HIDE DEF S
  <2>4. main[Len(main)] \in S
    BY <2>1, <2>2
  <2> QED BY <1>3, <2>3, <2>4 DEF LastApi
<1> QED BY <1>2, <1>3

\* One lemma per action: it keeps RInv.
LEMMA PushSourceInv == ASSUME RInv, PushSource PROVE RInv'
<1>1. PICK api \in {LastApi, Len(main) + 1} : main' = Append(main, [api |-> api, evidence |-> None])
  BY DEF PushSource
<1>2. /\ main \in Seq([api : 1 .. MaxCommits, evidence : AnySubmission \cup {None}])
      /\ Len(main) \in Nat /\ Len(main) < MaxCommits
  BY DEF RInv, TypeOK, PushSource
<1>3. api \in 1 .. MaxCommits
  BY <1>2, LastApiType, ReleaseAssumption DEF RInv
<1>4. /\ main' \in Seq([api : 1 .. MaxCommits, evidence : AnySubmission \cup {None}])
      /\ Len(main') <= MaxCommits
  BY <1>1, <1>2, <1>3, ReleaseAssumption
<1>5. Forward
  BY <1>1, AppendForward DEF PushSource, remote, RInv
<1> QED BY <1>4, <1>5, MainGrows DEF PushSource, remote

LEMMA PushEvidenceInv == ASSUME RInv, PushEvidence PROVE RInv'
<1>1. PICK e \in Submissions[Len(main) + 1] :
         main' = Append(main, [api |-> LastApi, evidence |-> e])
  BY DEF PushEvidence
<1>2. /\ main \in Seq([api : 1 .. MaxCommits, evidence : AnySubmission \cup {None}])
      /\ Len(main) \in Nat /\ Len(main) < MaxCommits
  BY DEF RInv, TypeOK, PushEvidence
<1>3. LastApi \in 1 .. MaxCommits /\ e \in AnySubmission
  <2>1. Len(main) + 1 \in 1 .. MaxCommits
    BY <1>2, ReleaseAssumption
  <2> QED BY <1>2, <2>1, LastApiType DEF RInv, AnySubmission
<1>4. /\ main' \in Seq([api : 1 .. MaxCommits, evidence : AnySubmission \cup {None}])
      /\ Len(main') <= MaxCommits
  BY <1>1, <1>2, <1>3, ReleaseAssumption
<1>5. Forward
  BY <1>1, AppendForward DEF PushEvidence, remote, RInv
<1> QED BY <1>4, <1>5, MainGrows DEF PushEvidence, remote

LEMMA PublishImageInv == ASSUME RInv, NEW c \in Commits, PublishImage(c) PROVE RInv'
<1>1. builds \in [1 .. MaxCommits -> Nat] /\ c \in 1 .. MaxCommits
  BY Bounded DEF RInv, TypeOK
<1>2. /\ builds' \in [1 .. MaxCommits -> Nat]
      /\ \A i \in 1 .. MaxCommits : builds[i] <= builds'[i]
  BY <1>1 DEF PublishImage
<1>3. Forward
  BY <1>2 DEF Forward, PublishImage, remote, Commits
<1>4. /\ main' \in Seq([api : 1 .. MaxCommits, evidence : AnySubmission \cup {None}])
      /\ Len(main') <= MaxCommits
  BY DEF PublishImage, RInv, TypeOK
<1> QED BY <1>3, <1>4, MainGrows DEF PublishImage, remote

\* A push brought one of the submissions.
LEMMA EvidenceType ==
  ASSUME TypeOK, NEW p \in Pushes
  PROVE  Evidence(p) \in AnySubmission
<1> DEFINE S == [api : 1 .. MaxCommits, evidence : AnySubmission \cup {None}]
<1>1. main \in Seq(S) /\ p \in 1 .. Len(main)
  BY DEF TypeOK, Pushes, Commits
<1>2. \A c \in S : c.evidence \in AnySubmission \cup {None}
  OBVIOUS
<1> HIDE DEF S
<1>3. main[p] \in S
  BY <1>1
<1> QED BY <1>2, <1>3 DEF Evidence, Pushes

\* Each check of a run establishes what the run knows afterwards.
LEMMA StartInv == ASSUME RInv, NEW j \in Jobs, NEW p \in Pushes, Start(j, p) PROVE RInv'
<1> DEFINE r == [step |-> "verify", push |-> p, seen |-> 0]
<1>1. job' = [job EXCEPT ![j] = r] /\ r \in [step : JobSteps, push : Pushes, seen : Pushes \cup {0}]
  BY DEF Start, JobSteps
<1>2. job'[j].step = "verify"
  BY <1>1 DEF RInv, TypeOK
<1>3. JobFacts(j)'
  BY <1>2 DEF JobFacts, AfterVerify, AfterResolve, AfterCompose, AfterService, AfterDocs, AfterGrep,
              LookFor, PushOf
<1> HIDE DEF r
<1> QED BY <1>1, <1>3, RunMoves DEF Start

LEMMA VerifyInv == ASSUME RInv, NEW j \in Jobs, Verify(j) PROVE RInv'
<1>1. job[j].step = "verify" /\ "verify" \notin Ended
  BY DEF Verify, Check, At, Ended
<1>2. CASE Source(j) \in Commits
  <2>1. /\ "resolve" \in JobSteps /\ "resolve" \notin AfterResolve /\ "resolve" \notin AfterCompose
        /\ "resolve" \notin AfterService /\ "resolve" \notin AfterDocs /\ "resolve" \notin AfterGrep
    BY DEF JobSteps, AfterResolve, AfterCompose, AfterService, AfterDocs, AfterGrep, LookFor, PushOf
  <2> QED BY <1>1, <1>2, <2>1, RunGoesOn DEF Verify, Check
<1>3. CASE Source(j) \notin Commits
  BY <1>1, <1>3, RunEnds DEF Verify, Check, Ended
<1> QED BY <1>2, <1>3

LEMMA ResolveInv == ASSUME RInv, NEW j \in Jobs, Resolve(j) PROVE RInv'
<1> DEFINE ok == Image(j)[1] = Source(j) /\ Image(j)[2] = builds[Image(j)[1]]
<1>1. job[j].step = "resolve" /\ "resolve" \notin Ended /\ "resolve" \in AfterVerify
  BY DEF Resolve, Check, At, Ended, AfterVerify
<1>2. Source(j) \in Commits
  BY <1>1 DEF RInv, JobFacts
<1>3. CASE ok
  <2>1. OwnImage(job[j].push)
    <3>1. job[j].push \in Pushes
      BY <1>1 DEF RInv, TypeOK
    <3>2. Evidence(job[j].push) \in AnySubmission
      BY <3>1, EvidenceType DEF RInv
    <3>3. Image(j)[2] \in Nat \ {0}
      BY <3>2, ReleaseAssumption DEF Image, AnySubmission, IsSubmission
    <3> QED BY <1>3, <3>3 DEF OwnImage, Source, Image
  <2>2. /\ "compose" \in JobSteps /\ "compose" \notin AfterCompose
        /\ "compose" \notin AfterService /\ "compose" \notin AfterDocs /\ "compose" \notin AfterGrep
    BY DEF JobSteps, AfterCompose, AfterService, AfterDocs, AfterGrep, LookFor, PushOf
  <2> QED BY <1>1, <1>2, <1>3, <2>1, <2>2, RunGoesOn DEF Resolve, Check
<1>4. CASE ~ok
  BY <1>1, <1>4, RunEnds DEF Resolve, Check, Ended
<1> QED BY <1>3, <1>4

LEMMA ComposeInv == ASSUME RInv, NEW j \in Jobs, Compose(j) PROVE RInv'
<1> DEFINE ok == Bound(job[j].push) /\ Reviewed(job[j].push)
           next == LookFor["service"]
<1>1. job[j].step = "compose" /\ "compose" \notin Ended /\ "compose" \in AfterResolve
  BY DEF Compose, Check, At, Ended, AfterResolve
<1>2. Source(j) \in Commits /\ OwnImage(job[j].push)
  BY <1>1, Steps DEF RInv, JobFacts
<1>3. CASE ok
  <2>1. next \in JobSteps /\ next \notin AfterService /\ next \notin AfterDocs /\ next \notin AfterGrep
    BY DEF JobSteps, AfterService, AfterDocs, AfterGrep, LookFor, PushOf, Kinds
  <2> QED BY <1>1, <1>2, <1>3, <2>1, RunGoesOn DEF Compose, Check
<1>4. CASE ~ok
  BY <1>1, <1>4, RunEnds DEF Compose, Check, Ended
<1> QED BY <1>3, <1>4

LEMMA GrepInv == ASSUME RInv, NEW j \in Jobs, Grep(j) PROVE RInv'
<1>1. job[j].step = "grep" /\ "grep" \notin Ended /\ "grep" \in AfterDocs /\ "publish" \in JobSteps
  BY DEF Grep, Check, At, Ended, AfterDocs, JobSteps
<1>2. CASE job[j].seen = job[j].push
  BY <1>1, <1>2, Steps, RunGoesOn DEF Grep, Check, RInv, JobFacts
<1>3. CASE job[j].seen # job[j].push
  BY <1>1, <1>3, RunEnds DEF Grep, Check, Ended
<1> QED BY <1>2, <1>3

LEMMA DieInv == ASSUME RInv, NEW j \in Jobs, Die(j) PROVE RInv'
BY RunEnds DEF Die, Ended

\* The steps of ensure_tag, and the one after it.
LEMMA TagSteps ==
  ASSUME NEW k \in Kinds
  PROVE  /\ LookFor[k] \in JobSteps /\ PushOf[k] \in JobSteps /\ AfterTag(k) \in JobSteps
         /\ LookFor[k] \notin Ended /\ PushOf[k] \notin Ended
         /\ LookFor[k] \in AfterCompose /\ PushOf[k] \in AfterCompose
         /\ LookFor[k] \notin AfterDocs /\ PushOf[k] \notin AfterDocs
         /\ k = "docs" => LookFor[k] \in AfterService /\ PushOf[k] \in AfterService
         /\ k = "service" => PushOf[k] \notin AfterService /\ AfterTag(k) \notin AfterDocs
         /\ AfterTag(k) \notin AfterGrep
<1>1. CASE k = "service"
  BY <1>1 DEF AfterTag, AfterGrep, AfterDocs, AfterService, AfterCompose, LookFor, PushOf, Kinds,
              JobSteps, Ended
<1>2. CASE k = "docs"
  BY <1>2 DEF AfterTag, AfterGrep, AfterDocs, AfterService, AfterCompose, LookFor, PushOf, Kinds,
              JobSteps, Ended
<1> QED BY <1>1, <1>2 DEF Kinds

\* What a run knows when ensure_tag has returned.
LEMMA TaggedFacts ==
  ASSUME RInv, NEW j \in Jobs, NEW k \in Kinds, job[j].step \in {LookFor[k], PushOf[k]},
         UNCHANGED <<main, builds>>,
         tags'[k] # None, tags'[k].commit = Target(j, k),
         \A i \in Kinds \ {k} : tags'[i] = tags[i],
         job'[j].step = AfterTag(k), job'[j].push = job[j].push,
         job'[j].seen = IF k = "service" THEN tags'[k].evidence ELSE job[j].seen
  PROVE  JobFacts(j)'
<1>1. job[j].step \in AfterCompose /\ (k = "docs" => job[j].step \in AfterService)
  BY TagSteps
<1>2. /\ Source(j) \in Commits /\ OwnImage(job[j].push)
      /\ Bound(job[j].push) /\ Reviewed(job[j].push)
      /\ k = "docs" => /\ tags["service"] # None /\ tags["service"].commit = Source(j)
                       /\ tags["service"].evidence = job[j].seen
  <2>1. job[j].step \in AfterResolve /\ job[j].step \in AfterVerify
    BY <1>1, Steps
  <2>2. JobFacts(j)
    BY DEF RInv
  <2> QED BY <1>1, <2>1, <2>2 DEF JobFacts
<1>3. /\ Source(j)' \in Commits' /\ OwnImage(job[j].push)' /\ Bound(job[j].push)'
      /\ Reviewed(job[j].push)' /\ Source(j)' = Source(j) /\ job'[j].push = job[j].push
  BY <1>2 DEF Source, Commits, OwnImage, Bound, Reviewed, Evidence
<1>4. CASE k = "service"
  <2>1. AfterTag(k) \notin AfterDocs /\ AfterTag(k) \notin AfterGrep
    BY <1>4, TagSteps
  <2> QED BY <1>3, <1>4, <2>1 DEF JobFacts, Target
<1>5. CASE k = "docs"
  <2>1. AfterTag(k) \notin AfterGrep /\ tags'["service"] = tags["service"]
    BY <1>5, TagSteps DEF Kinds
  <2> QED BY <1>2, <1>3, <1>5, <2>1 DEF JobFacts, Target
<1> QED BY <1>4, <1>5 DEF Kinds

\* A tag that is found is the one the run would have created, or the run fails.
LEMMA LookInv == ASSUME RInv, NEW j \in Jobs, NEW k \in Kinds, Look(j, k) PROVE RInv'
<1>1. job[j].step = LookFor[k] /\ LookFor[k] \notin Ended /\ LookFor[k] \in JobSteps
  BY TagSteps DEF Look, At
<1>2. job[j] \in [step : JobSteps, push : Pushes, seen : Pushes \cup {0}] /\ JobFacts(j)
  BY <1>1 DEF RInv, TypeOK
<1>3. CASE tags[k] = None /\ Move(j, PushOf[k])
  <2>1. /\ PushOf[k] \in JobSteps /\ PushOf[k] \notin AfterDocs /\ PushOf[k] \notin AfterGrep
        /\ LookFor[k] \in AfterCompose /\ LookFor[k] \in AfterResolve /\ LookFor[k] \in AfterVerify
        /\ PushOf[k] \in AfterService => LookFor[k] \in AfterService
    BY TagSteps, Steps DEF Kinds
  <2>2. /\ Source(j) \in Commits /\ OwnImage(job[j].push)
        /\ Bound(job[j].push) /\ Reviewed(job[j].push)
        /\ PushOf[k] \in AfterService =>
              /\ tags["service"] # None /\ tags["service"].commit = Source(j)
              /\ tags["service"].evidence = job[j].seen
    BY <1>1, <1>2, <2>1 DEF JobFacts
  <2> QED BY <1>1, <1>3, <2>1, <2>2, RunGoesOn DEF Look
<1>4. CASE Move(j, "failed")
  BY <1>1, <1>4, RunEnds DEF Look, Ended
<1>5. CASE /\ tags[k] # None /\ tags[k].commit = Target(j, k)
           /\ Tagged(j, k, tags[k].evidence)
  <2> DEFINE r == [step |-> AfterTag(k), push |-> job[j].push,
                   seen |-> IF k = "service" THEN tags[k].evidence ELSE job[j].seen]
  <2>1. job' = [job EXCEPT ![j] = r]
    BY <1>5 DEF Tagged
  <2>2. r \in [step : JobSteps, push : Pushes, seen : Pushes \cup {0}]
    <3>1. AfterTag(k) \in JobSteps
      BY TagSteps
    <3>2. tags[k].evidence \in Pushes
      BY <1>5 DEF RInv, TypeOK
    <3> QED BY <1>2, <3>1, <3>2
  <2>3. JobFacts(j)'
    <3>1. job'[j] = r
      BY <2>1 DEF RInv, TypeOK
    <3>2. UNCHANGED <<main, builds, tags>>
      BY DEF Look, remote
    <3> QED BY <1>1, <1>5, <3>1, <3>2, TaggedFacts
  <2> HIDE DEF r
  <2> QED BY <2>1, <2>2, <2>3, RunMoves DEF Look
<1> QED BY <1>3, <1>4, <1>5 DEF Look

\* The tag a run pushes was not there, and is what the run's later steps expect.
LEMMA PushInv == ASSUME RInv, NEW j \in Jobs, NEW k \in Kinds, Push(j, k) PROVE RInv'
<1>1. job[j].step = PushOf[k] /\ PushOf[k] \notin Ended /\ PushOf[k] \in JobSteps
  BY TagSteps DEF Push, At
<1>2. job[j] \in [step : JobSteps, push : Pushes, seen : Pushes \cup {0}] /\ JobFacts(j)
  BY <1>1 DEF RInv, TypeOK
<1>3. CASE Move(j, "failed") /\ UNCHANGED tags
  BY <1>1, <1>3, RunEnds DEF Push, Ended, remote
<1>4. CASE /\ tags[k] = None
           /\ tags' = [tags EXCEPT ![k] = [commit |-> Target(j, k), evidence |-> job[j].push]]
           /\ Tagged(j, k, job[j].push)
  <2> DEFINE r == [step |-> AfterTag(k), push |-> job[j].push,
                   seen |-> IF k = "service" THEN job[j].push ELSE job[j].seen]
             new == [commit |-> Target(j, k), evidence |-> job[j].push]
  <2>1. job' = [job EXCEPT ![j] = r]
    BY <1>4 DEF Tagged
  <2>2. r \in [step : JobSteps, push : Pushes, seen : Pushes \cup {0}]
    <3>1. AfterTag(k) \in JobSteps
      BY TagSteps
    <3> QED BY <1>2, <3>1
  <2>3. /\ tags' \in [Kinds -> [commit : Commits, evidence : Pushes] \cup {None}]
        /\ tags'[k] = new /\ new # None
        /\ \A i \in Kinds \ {k} : tags'[i] = tags[i]
    <3>1. PushOf[k] \in AfterVerify
      BY TagSteps, Steps
    <3>2. Source(j) \in Commits
      BY <1>1, <1>2, <3>1 DEF JobFacts
    <3>3. Target(j, k) \in Commits /\ job[j].push \in Pushes
      BY <1>2, <3>2, Bounded DEF Target, RInv
    <3>4. new # None
      BY <3>3, Bounded, ReleaseAssumption DEF RInv
    <3>5. tags \in [Kinds -> [commit : Commits, evidence : Pushes] \cup {None}]
      BY DEF RInv, TypeOK
    <3> QED BY <1>4, <3>3, <3>4, <3>5
  <2>4. Forward
    <3>1. /\ main' = main /\ builds' = builds
      BY DEF Push
    <3>2. builds \in [1 .. MaxCommits -> Nat]
      BY DEF RInv, TypeOK
    <3>3. builds' \in [1 .. MaxCommits -> Nat] /\ \A i \in 1 .. MaxCommits : builds[i] <= builds'[i]
      BY <3>1, <3>2
    <3> QED BY <1>4, <2>3, <3>1, <3>3 DEF Forward, Commits
  <2>5. tags'["docs"] # None => tags'["docs"].commit \in Pushes
    BY <1>2, <2>3 DEF RInv, Target, Kinds
  <2>6. JobFacts(j)'
    <3>1. job'[j] = r /\ UNCHANGED <<main, builds>>
      BY <2>1 DEF RInv, TypeOK, Push
    <3> QED BY <1>1, <2>3, <3>1, TaggedFacts
  <2>7. ServiceRelease' /\ DocRelease'
    BY <2>4, ReleaseFrame, DocReleaseFrame DEF RInv, Push
  <2>8. /\ drafts' \in [Kinds -> SUBSET (AssetsOfService \cup AssetsOfDocs)]
        /\ releases' \in [Kinds -> AssetsOfService \cup AssetsOfDocs \cup {None}]
    BY DEF RInv, TypeOK, Push
  <2> HIDE DEF r
  <2> QED BY <2>1, <2>2, <2>3, <2>4, <2>5, <2>6, <2>7, <2>8, RunWrites DEF Push
<1> QED BY <1>3, <1>4 DEF Push

\* What a run of release-service.yml has established when it comes to its release.
LEMMA AtPublish ==
  ASSUME RInv, NEW j \in Jobs, job[j].step \in AfterGrep
  PROVE  LET p == job[j].push
         IN  /\ p \in Pushes /\ Source(j) \in Commits
             /\ OwnImage(p) /\ Bound(p) /\ Reviewed(p)
             /\ tags["service"] = [commit |-> Source(j), evidence |-> p]
             /\ tags["service"] # None /\ tags["docs"] # None /\ tags["docs"].commit = p
             /\ ServiceAssets(p) \in AssetsOfService
<1>1. /\ job[j].step \in AfterDocs /\ job[j].step \in AfterService /\ job[j].step \in AfterCompose
      /\ job[j].step \in AfterResolve /\ job[j].step \in AfterVerify /\ job[j].step \notin Ended
  BY Steps
<1>2. JobFacts(j) /\ job[j].push \in Pushes
  BY <1>1 DEF RInv, TypeOK
<1>3. tags["service"] \in [commit : Commits, evidence : Pushes]
  BY <1>1, <1>2 DEF JobFacts, RInv, TypeOK, Kinds
<1> QED BY <1>1, <1>2, <1>3 DEF JobFacts, AssetsOfService

LEMMA DraftInv == ASSUME RInv, NEW j \in Jobs, Draft(j) PROVE RInv'
<1>1. job[j].step = "publish" /\ "publish" \notin Ended /\ "publish" \in AfterGrep
      /\ UNCHANGED <<main, builds, tags, releases, docjob>>
  BY DEF Draft, At, Ended, AfterGrep
<1>2. CASE UNCHANGED drafts /\ \E step \in Ended : Move(j, step)
  BY <1>1, <1>2, RunEnds DEF remote
<1>3. CASE /\ drafts' = [drafts EXCEPT !["service"] = {ServiceAssets(job[j].push)}]
           /\ Move(j, "upload")
  <2> DEFINE r == [job[j] EXCEPT !.step = "upload"]
  <2>1. job[j] \in [step : JobSteps, push : Pushes, seen : Pushes \cup {0}] /\ JobFacts(j)
    BY <1>1 DEF RInv, TypeOK
  <2>2. job' = [job EXCEPT ![j] = r]
    BY <1>3 DEF Move, Ended
  <2>3. r \in [step : JobSteps, push : Pushes, seen : Pushes \cup {0}]
    <3>1. "upload" \in JobSteps
      BY DEF JobSteps
    <3> QED BY <2>1, <3>1
  <2>4. Forward
    BY <1>1, SameForward DEF RInv
  <2>5. JobFacts(j)'
    <3>1. job'[j].step = "upload" /\ job'[j].push = job[j].push /\ job'[j].seen = job[j].seen
      BY <2>1, <2>2 DEF RInv, TypeOK
    <3>2. job[j].seen = job[j].push
      BY <1>1, <2>1 DEF JobFacts
    <3>3. /\ Source(j) \in Commits /\ OwnImage(job[j].push)
          /\ Bound(job[j].push) /\ Reviewed(job[j].push)
          /\ tags["service"].commit = Source(j) /\ tags["service"].evidence = job[j].push
          /\ tags["service"] # None /\ tags["docs"] # None /\ tags["docs"].commit = job[j].push
      <4>1. /\ Source(j) \in Commits /\ OwnImage(job[j].push)
            /\ Bound(job[j].push) /\ Reviewed(job[j].push)
            /\ tags["service"] = [commit |-> Source(j), evidence |-> job[j].push]
            /\ tags["service"] # None /\ tags["docs"] # None /\ tags["docs"].commit = job[j].push
        BY <1>1, AtPublish
      <4>2. /\ [commit |-> Source(j), evidence |-> job[j].push].commit = Source(j)
            /\ [commit |-> Source(j), evidence |-> job[j].push].evidence = job[j].push
        OBVIOUS
      <4> QED BY <4>1, <4>2
    <3>4. /\ Source(j)' = Source(j) /\ Source(j)' \in Commits' /\ OwnImage(job[j].push)'
          /\ Bound(job[j].push)' /\ Reviewed(job[j].push)'
      BY <1>1, <3>1, <3>3 DEF Source, Evidence, Commits, OwnImage, Bound, Reviewed
    <3> QED BY <1>1, <3>1, <3>2, <3>3, <3>4 DEF JobFacts
  <2>6. drafts' \in [Kinds -> SUBSET (AssetsOfService \cup AssetsOfDocs)]
    <3>1. ServiceAssets(job[j].push) \in AssetsOfService
      BY <1>1, AtPublish
    <3> QED BY <1>3, <3>1 DEF RInv, TypeOK
  <2>7. drafts'["docs"] = drafts["docs"]
    BY <1>3 DEF RInv, TypeOK, Kinds
  <2>8. ServiceRelease' /\ DocRelease'
    BY <1>1, <2>4, <2>7, ReleaseFrame, DocReleaseFrame DEF RInv
  <2>9. /\ tags' \in [Kinds -> [commit : Commits, evidence : Pushes] \cup {None}]
        /\ releases' \in [Kinds -> AssetsOfService \cup AssetsOfDocs \cup {None}]
        /\ tags'["docs"] # None => tags'["docs"].commit \in Pushes
    BY <1>1 DEF RInv, TypeOK
  <2> HIDE DEF r
  <2> QED BY <1>1, <2>2, <2>3, <2>4, <2>5, <2>6, <2>8, <2>9, RunWrites
<1> QED BY <1>2, <1>3 DEF Draft, Ended

LEMMA PublishInv == ASSUME RInv, NEW j \in Jobs, Publish(j) PROVE RInv'
<1> DEFINE r == [step |-> "done", push |-> 0, seen |-> 0]
<1>0. PICK p : p = job[j].push
  OBVIOUS
<1>1. /\ job[j].step = "upload" /\ "upload" \in AfterGrep /\ "done" \in Ended
      /\ UNCHANGED <<main, builds, tags, docjob>>
      /\ releases' = [releases EXCEPT !["service"] = ServiceAssets(p)]
      /\ drafts' = [drafts EXCEPT !["service"] = @ \ {ServiceAssets(p)}]
  BY <1>0 DEF Publish, At, Ended, AfterGrep
<1>2. job' = [job EXCEPT ![j] = r]
  BY <1>1 DEF Publish, Move
<1>3. JobFacts(j)'
  <2>1. job'[j].step = "done"
    BY <1>2 DEF RInv, TypeOK
  <2> QED BY <1>1, <2>1, Steps DEF JobFacts
<1>4. Forward
  BY <1>1, SameForward DEF RInv
<1>5. /\ p \in Pushes /\ Source(j) \in Commits
      /\ OwnImage(p) /\ Bound(p) /\ Reviewed(p)
      /\ tags["service"] = [commit |-> Source(j), evidence |-> p]
      /\ tags["docs"] # None /\ tags["docs"].commit = p
      /\ ServiceAssets(p) \in AssetsOfService
  BY <1>0, <1>1, AtPublish
<1>6. /\ releases' \in [Kinds -> AssetsOfService \cup AssetsOfDocs \cup {None}]
      /\ drafts' \in [Kinds -> SUBSET (AssetsOfService \cup AssetsOfDocs)]
      /\ releases'["service"] = ServiceAssets(p)
      /\ releases'["docs"] = releases["docs"] /\ drafts'["docs"] = drafts["docs"]
  BY <1>1, <1>5 DEF RInv, TypeOK, Kinds
<1>7. ServiceRelease'
  <2>1. ServiceAssets(p).evidence = p /\ ServiceAssets(p).source = Source(j)
        /\ ServiceAssets(p)' = ServiceAssets(p)
    BY <1>0, <1>1 DEF ServiceAssets, Source, Evidence
  <2>2. p \in Pushes' /\ Evidence(p)' = Evidence(p) /\ Evidence(p).source \in Commits'
        /\ OwnImage(p)' /\ Bound(p)' /\ Reviewed(p)'
    BY <1>0, <1>1, <1>5 DEF Pushes, Commits, OwnImage, Bound, Reviewed, Evidence, Source
  <2> QED BY <1>1, <1>5, <1>6, <2>1, <2>2 DEF ServiceRelease
<1>8. DocRelease'
  BY <1>4, <1>6, DocReleaseFrame DEF RInv
<1>9. /\ tags' \in [Kinds -> [commit : Commits, evidence : Pushes] \cup {None}]
      /\ tags'["docs"] # None => tags'["docs"].commit \in Pushes
  BY <1>1 DEF RInv, TypeOK
<1>10. r \in [step : Ended, push : {0}, seen : {0}]
  BY <1>1
<1> HIDE DEF r
<1> QED BY <1>1, <1>2, <1>3, <1>4, <1>6, <1>7, <1>8, <1>9, <1>10, RunWrites

-----------------------------------------------------------------------------

\* The same of a run of release-documentation.yml.
LEMMA DocWrites ==
  ASSUME RInv, NEW d \in DocJobs, UNCHANGED <<main, builds, tags, job>>,
         drafts' \in [Kinds -> SUBSET (AssetsOfService \cup AssetsOfDocs)],
         releases' \in [Kinds -> AssetsOfService \cup AssetsOfDocs \cup {None}],
         releases'["service"] = releases["service"],
         NEW r \in [step : DocSteps, commit : Pushes] \cup [step : {"ended"}, commit : {0}],
         docjob' = [docjob EXCEPT ![d] = r],
         DocFacts(d)', DocRelease'
  PROVE  RInv'
<1>1. Commits' = Commits /\ Pushes' = Pushes
  BY DEF Pushes, Commits
<1>2. AssetsOfService' = AssetsOfService /\ AssetsOfDocs' = AssetsOfDocs
  BY <1>1 DEF AssetsOfService, AssetsOfDocs, ServiceAssets, DocAssets, Evidence
<1>3. Forward
  BY SameForward DEF RInv
<1>4. TypeOK'
  <2>1. docjob' \in [DocJobs -> [step : DocSteps, commit : Pushes']
                              \cup [step : {"ended"}, commit : {0}]]
    BY <1>1 DEF RInv, TypeOK
  <2>2. /\ main' \in Seq([api : 1 .. MaxCommits, evidence : AnySubmission \cup {None}])
        /\ Len(main') <= MaxCommits
        /\ builds' \in [1 .. MaxCommits -> Nat]
        /\ tags' \in [Kinds -> [commit : Commits', evidence : Pushes'] \cup {None}]
        /\ job' \in [Jobs -> [step : JobSteps, push : Pushes', seen : Pushes' \cup {0}]
                            \cup [step : Ended, push : {0}, seen : {0}]]
    BY <1>1 DEF RInv, TypeOK
  <2>3. /\ drafts' \in [Kinds -> SUBSET (AssetsOfService' \cup AssetsOfDocs')]
        /\ releases' \in [Kinds -> AssetsOfService' \cup AssetsOfDocs' \cup {None}]
    BY <1>2
  <2> QED BY <2>1, <2>2, <2>3 DEF TypeOK
<1>5. \A j \in Jobs : JobFacts(j)'
  BY <1>3, JobFrame DEF RInv
<1>6. \A e \in DocJobs : DocFacts(e)'
  <2> SUFFICES ASSUME NEW e \in DocJobs, e # d PROVE DocFacts(e)'
    OBVIOUS
  <2>1. docjob'[e] = docjob[e]
    BY DEF RInv, TypeOK
  <2> QED BY <1>3, <2>1, DocFrame DEF RInv
<1>7. ServiceRelease'
  BY <1>3, ReleaseFrame DEF RInv
<1>8. tags'["docs"] # None => tags'["docs"].commit \in Pushes'
  BY <1>1 DEF RInv
<1> QED BY <1>4, <1>5, <1>6, <1>7, <1>8 DEF RInv

\* A step that only moves it.
LEMMA DocMoves ==
  ASSUME RInv, NEW d \in DocJobs, UNCHANGED <<main, builds, remote, job>>,
         NEW r \in [step : DocSteps, commit : Pushes] \cup [step : {"ended"}, commit : {0}],
         docjob' = [docjob EXCEPT ![d] = r],
         DocFacts(d)'
  PROVE  RInv'
<1>1. /\ drafts' \in [Kinds -> SUBSET (AssetsOfService \cup AssetsOfDocs)]
      /\ releases' \in [Kinds -> AssetsOfService \cup AssetsOfDocs \cup {None}]
  BY DEF RInv, TypeOK, remote
<1>2. DocRelease'
  BY SameForward, DocReleaseFrame DEF RInv, remote
<1> QED BY <1>1, <1>2, DocWrites DEF remote

\* A run that ends.
LEMMA DocEnds ==
  ASSUME RInv, NEW d \in DocJobs, EndDocs(d)
  PROVE  /\ docjob' = [docjob EXCEPT ![d] = [step |-> "ended", commit |-> 0]]
         /\ DocFacts(d)'
<1>1. docjob' = [docjob EXCEPT ![d] = [step |-> "ended", commit |-> 0]]
  BY DEF EndDocs, MoveDocs
<1>2. docjob'[d].step = "ended"
  BY <1>1 DEF RInv, TypeOK
<1> QED BY <1>1, <1>2 DEF DocFacts

LEMMA StartDocsInv == ASSUME RInv, NEW d \in DocJobs, StartDocs(d) PROVE RInv'
<1> DEFINE r == [step |-> "compose", commit |-> tags["docs"].commit]
<1>1. /\ docjob' = [docjob EXCEPT ![d] = r] /\ tags["docs"] # None
      /\ UNCHANGED <<main, builds, remote, job>>
  BY DEF StartDocs
<1>2. r \in [step : DocSteps, commit : Pushes]
  BY <1>1 DEF RInv, DocSteps
<1>3. docjob'[d] = r
  BY <1>1 DEF RInv, TypeOK
<1>4. DocFacts(d)'
  BY <1>1, <1>3 DEF DocFacts, remote
<1> HIDE DEF r
<1> QED BY <1>1, <1>2, <1>4, DocMoves

LEMMA ComposeDocsInv == ASSUME RInv, NEW d \in DocJobs, ComposeDocs(d) PROVE RInv'
<1>1. docjob[d].step = "compose" /\ UNCHANGED <<main, builds, remote, job>>
  BY DEF ComposeDocs
<1>2. docjob[d] \in [step : DocSteps, commit : Pushes] /\ DocFacts(d)
  BY <1>1 DEF RInv, TypeOK
<1> DEFINE c == docjob[d].commit
           ok == /\ NotesAreMerged(c) /\ Evidence(c).docs = Evidence(c).build
                 /\ Evidence(c).build = Evidence(c).publication
<1>3. CASE ok
  <2> DEFINE r == [step |-> "draft", commit |-> c]
  <2>1. docjob' = [docjob EXCEPT ![d] = r]
    BY <1>3 DEF ComposeDocs, MoveDocs
  <2>2. r \in [step : DocSteps, commit : Pushes]
    BY <1>2 DEF DocSteps
  <2>3. docjob'[d] = r
    BY <2>1 DEF RInv, TypeOK
  <2>4. DocFacts(d)'
    BY <1>1, <1>2, <1>3, <2>3 DEF DocFacts, remote, Evidence, NotesAreMerged
  <2> HIDE DEF r
  <2> QED BY <1>1, <2>1, <2>2, <2>4, DocMoves
<1>4. CASE ~ok
  <2>1. EndDocs(d)
    BY <1>4 DEF ComposeDocs, EndDocs
  <2> QED BY <1>1, <2>1, DocEnds, DocMoves
<1> QED BY <1>3, <1>4

\* A run about to release, with the draft it would upload to.
LEMMA AtDraft ==
  ASSUME RInv, NEW d \in DocJobs, docjob[d].step \in {"draft", "upload", "edit"}
  PROVE  LET c == docjob[d].commit
         IN  /\ c \in Pushes /\ tags["docs"] # None /\ tags["docs"].commit = c
             /\ Evidence(c).docs = Evidence(c).publication /\ NotesAreMerged(c)
             /\ \A u \in Uploads : DocAssets(c, u) \in AssetsOfDocs
<1>1. docjob[d] \in [step : DocSteps, commit : Pushes] /\ DocFacts(d)
  BY DEF RInv, TypeOK
<1> QED BY <1>1 DEF DocFacts, AssetsOfDocs

\* Of the drafts, a run adds and takes away only what is of its own commit.
LEMMA DraftsOfCommit ==
  ASSUME RInv, NEW d \in DocJobs, docjob[d].step \in {"draft", "upload", "edit"},
         UNCHANGED <<main, builds, tags, releases, job>>,
         NEW D, drafts' = [drafts EXCEPT !["docs"] = D],
         \A a \in D : a \in drafts["docs"] \/ \E u \in Uploads : a = DocAssets(docjob[d].commit, u),
         NEW r \in [step : DocSteps, commit : Pushes] \cup [step : {"ended"}, commit : {0}],
         docjob' = [docjob EXCEPT ![d] = r],
         DocFacts(d)'
  PROVE  RInv'
<1>1. PICK c : c = docjob[d].commit
  OBVIOUS
<1>2. /\ c \in Pushes /\ tags["docs"] # None /\ tags["docs"].commit = c
      /\ Evidence(c).docs = Evidence(c).publication /\ NotesAreMerged(c)
      /\ \A u \in Uploads : DocAssets(c, u) \in AssetsOfDocs
  BY <1>1, AtDraft
<1>3. \A a \in D : a \in drafts["docs"] \/ \E u \in Uploads : a = DocAssets(c, u)
  BY <1>1
<1>4. /\ drafts' \in [Kinds -> SUBSET (AssetsOfService \cup AssetsOfDocs)]
      /\ drafts'["docs"] = D
  <2>1. drafts \in [Kinds -> SUBSET (AssetsOfService \cup AssetsOfDocs)] /\ "docs" \in Kinds
    BY DEF RInv, TypeOK, Kinds
  <2>2. D \subseteq AssetsOfService \cup AssetsOfDocs
    BY <1>2, <1>3, <2>1
  <2> QED BY <2>1, <2>2
<1>5. /\ releases' \in [Kinds -> AssetsOfService \cup AssetsOfDocs \cup {None}]
      /\ releases'["service"] = releases["service"] /\ releases'["docs"] = releases["docs"]
  BY DEF RInv, TypeOK
<1>6. DocRelease'
  <2>1. /\ \A u : DocAssets(c, u)' = DocAssets(c, u)
        /\ Evidence(c)' = Evidence(c) /\ NotesAreMerged(c)' = NotesAreMerged(c)
    BY DEF DocAssets, Evidence, NotesAreMerged
  <2>2. \A a \in drafts["docs"] \cup ({releases["docs"]} \ {None}) :
           \E u \in Uploads : a = DocAssets(c, u)
    BY <1>2 DEF RInv, DocRelease
  <2>3. \A a \in drafts'["docs"] \cup ({releases'["docs"]} \ {None}) :
           \E u \in Uploads : a = DocAssets(c, u)
    BY <1>3, <1>4, <1>5, <2>2
  <2>4. tags' = tags
    OBVIOUS
  <2> QED BY <1>2, <2>1, <2>3, <2>4 DEF DocRelease
<1> QED BY <1>4, <1>5, <1>6, DocWrites

\* A run that goes on with its commit.
LEMMA DocGoesOn ==
  ASSUME RInv, NEW d \in DocJobs, docjob[d].step \in {"draft", "upload"},
         UNCHANGED <<main, tags>>, NEW step \in {"upload", "edit"}, MoveDocs(d, step)
  PROVE  /\ docjob' = [docjob EXCEPT ![d] = [step |-> step, commit |-> docjob[d].commit]]
         /\ [step |-> step, commit |-> docjob[d].commit] \in [step : DocSteps, commit : Pushes]
         /\ DocFacts(d)'
<1>1. docjob' = [docjob EXCEPT ![d] = [step |-> step, commit |-> docjob[d].commit]]
  BY DEF MoveDocs
<1>2. docjob[d] \in [step : DocSteps, commit : Pushes] /\ DocFacts(d)
  BY DEF RInv, TypeOK
<1>3. docjob'[d] = [step |-> step, commit |-> docjob[d].commit]
  BY <1>1 DEF RInv, TypeOK
<1>4. DocFacts(d)'
  BY <1>2, <1>3 DEF DocFacts, Evidence, NotesAreMerged
<1> QED BY <1>1, <1>2, <1>4 DEF DocSteps

LEMMA DraftDocsInv == ASSUME RInv, NEW d \in DocJobs, DraftDocs(d) PROVE RInv'
<1>1. docjob[d].step = "draft" /\ UNCHANGED <<main, builds, tags, releases, job>>
  BY DEF DraftDocs
<1>2. CASE EndDocs(d) /\ UNCHANGED drafts
  BY <1>1, <1>2, DocEnds, DocMoves DEF remote
<1>3. CASE /\ drafts' = [drafts EXCEPT !["docs"] = @ \cup {Uploading(d)}]
           /\ MoveDocs(d, "upload")
  <2> DEFINE r == [step |-> "upload", commit |-> docjob[d].commit]
             D == drafts["docs"] \cup {Uploading(d)}
  <2>1. docjob' = [docjob EXCEPT ![d] = r] /\ r \in [step : DocSteps, commit : Pushes] /\ DocFacts(d)'
    BY <1>1, <1>3, DocGoesOn
  <2>2. \A a \in D : a \in drafts["docs"] \/ \E u \in Uploads : a = DocAssets(docjob[d].commit, u)
    BY DEF Uploading, Uploads
  <2>3. drafts' = [drafts EXCEPT !["docs"] = D]
    BY <1>3
  <2> HIDE DEF r, D
  <2> QED BY <1>1, <2>1, <2>2, <2>3, DraftsOfCommit
<1> QED BY <1>2, <1>3 DEF DraftDocs

LEMMA UploadDocsInv == ASSUME RInv, NEW d \in DocJobs, UploadDocs(d) PROVE RInv'
<1>1. docjob[d].step = "upload" /\ UNCHANGED <<main, builds, tags, releases, job>>
  BY DEF UploadDocs
<1>2. CASE EndDocs(d) /\ UNCHANGED drafts
  BY <1>1, <1>2, DocEnds, DocMoves DEF remote
<1>3. CASE /\ drafts' = [drafts EXCEPT !["docs"] =
                            (@ \ {Uploading(d)}) \cup {DocAssets(docjob[d].commit, "whole")}]
           /\ MoveDocs(d, "edit")
  <2> DEFINE r == [step |-> "edit", commit |-> docjob[d].commit]
             D == (drafts["docs"] \ {Uploading(d)}) \cup {DocAssets(docjob[d].commit, "whole")}
  <2>1. docjob' = [docjob EXCEPT ![d] = r] /\ r \in [step : DocSteps, commit : Pushes] /\ DocFacts(d)'
    BY <1>1, <1>3, DocGoesOn
  <2>2. \A a \in D : a \in drafts["docs"] \/ \E u \in Uploads : a = DocAssets(docjob[d].commit, u)
    BY DEF Uploads
  <2>3. drafts' = [drafts EXCEPT !["docs"] = D]
    BY <1>3
  <2> HIDE DEF r, D
  <2> QED BY <1>1, <2>1, <2>2, <2>3, DraftsOfCommit
<1> QED BY <1>2, <1>3 DEF UploadDocs

LEMMA PublishDocsInv == ASSUME RInv, NEW d \in DocJobs, PublishDocs(d) PROVE RInv'
<1>1. EndDocs(d) /\ UNCHANGED <<main, builds, tags, job>>
  BY DEF PublishDocs
<1>2. CASE UNCHANGED <<drafts, releases>>
  BY <1>1, <1>2, DocEnds, DocMoves DEF remote
<1>3. ASSUME NEW a \in drafts["docs"],
             releases' = [releases EXCEPT !["docs"] = a],
             drafts' = [drafts EXCEPT !["docs"] = @ \ {a}]
      PROVE  RInv'
  <2>1. /\ drafts' \in [Kinds -> SUBSET (AssetsOfService \cup AssetsOfDocs)]
        /\ releases' \in [Kinds -> AssetsOfService \cup AssetsOfDocs \cup {None}]
        /\ releases'["service"] = releases["service"] /\ releases'["docs"] = a
        /\ drafts'["docs"] = drafts["docs"] \ {a}
    BY <1>3 DEF RInv, TypeOK, Kinds
  <2>2. DocRelease'
    <3>1. /\ \A u : DocAssets(tags["docs"].commit, u)' = DocAssets(tags["docs"].commit, u)
          /\ Evidence(tags["docs"].commit)' = Evidence(tags["docs"].commit)
          /\ NotesAreMerged(tags["docs"].commit)' = NotesAreMerged(tags["docs"].commit)
      BY <1>1 DEF DocAssets, Evidence, NotesAreMerged
    <3>2. drafts'["docs"] \cup ({releases'["docs"]} \ {None}) \subseteq drafts["docs"]
      BY <1>3, <2>1
    <3>3. tags' = tags
      BY <1>1
    <3> QED BY <3>1, <3>2, <3>3 DEF RInv, DocRelease
  <2> QED BY <1>1, <2>1, <2>2, DocEnds, DocWrites
<1> QED BY <1>2, <1>3 DEF PublishDocs

\* A run that dies leaves a draft only if it was about to release.
LEMMA DieDocsInv == ASSUME RInv, NEW d \in DocJobs, DieDocs(d) PROVE RInv'
<1>1. docjob[d].step # "ended" /\ EndDocs(d) /\ UNCHANGED <<main, builds, tags, releases, job>>
  BY DEF DieDocs
<1>2. CASE UNCHANGED drafts
  BY <1>1, <1>2, DocEnds, DocMoves DEF remote
<1>3. CASE /\ docjob[d].step = "upload"
           /\ drafts' = [drafts EXCEPT !["docs"] =
                            (@ \ {Uploading(d)}) \cup {DocAssets(docjob[d].commit, "left")}]
  <2> DEFINE D == (drafts["docs"] \ {Uploading(d)}) \cup {DocAssets(docjob[d].commit, "left")}
             r == [step |-> "ended", commit |-> 0]
  <2>1. docjob' = [docjob EXCEPT ![d] = r] /\ r \in [step : {"ended"}, commit : {0}] /\ DocFacts(d)'
    BY <1>1, DocEnds
  <2>2. \A a \in D : a \in drafts["docs"] \/ \E u \in Uploads : a = DocAssets(docjob[d].commit, u)
    BY DEF Uploads
  <2>3. drafts' = [drafts EXCEPT !["docs"] = D]
    BY <1>3
  <2> HIDE DEF D, r
  <2> QED BY <1>1, <1>3, <2>1, <2>2, <2>3, DraftsOfCommit
<1> QED BY <1>2, <1>3 DEF DieDocs

-----------------------------------------------------------------------------

\* The invariant holds of an empty repository, and every step keeps it.
LEMMA InitInv == Init => RInv
<1> SUFFICES ASSUME Init PROVE RInv
  OBVIOUS
<1>1. Commits = {} /\ Pushes = {}
  BY DEF Init, Commits, Pushes
<1>2. TypeOK
  BY <1>1, ReleaseAssumption DEF Init, TypeOK, Ended
<1>3. \A j \in Jobs : JobFacts(j)
  BY Steps DEF Init, JobFacts, Ended
<1>4. (\A d \in DocJobs : DocFacts(d)) /\ ServiceRelease /\ DocRelease
  BY DEF Init, DocFacts, ServiceRelease, DocRelease, Kinds
<1>5. tags["docs"] = None
  BY DEF Init, Kinds
<1> QED BY <1>2, <1>3, <1>4, <1>5 DEF RInv

LEMMA StutterInv == ASSUME RInv, UNCHANGED vars PROVE RInv'
<1>1. Forward
  BY SameForward DEF RInv, vars, remote
<1>2. /\ main' \in Seq([api : 1 .. MaxCommits, evidence : AnySubmission \cup {None}])
      /\ Len(main') <= MaxCommits
  BY DEF RInv, TypeOK, vars
<1> QED BY <1>1, <1>2, MainGrows DEF vars, remote

LEMMA NextInv == RInv /\ [Next]_vars => RInv'
<1> SUFFICES ASSUME RInv, [Next]_vars PROVE RInv'
  OBVIOUS
<1>1. CASE PushSource
  BY <1>1, PushSourceInv
<1>2. CASE PushEvidence
  BY <1>2, PushEvidenceInv
<1>3. CASE \E c \in Commits : PublishImage(c)
  BY <1>3, PublishImageInv
<1>4. ASSUME NEW j \in Jobs, \E p \in Pushes : Start(j, p)
      PROVE  RInv'
  BY <1>4, StartInv
<1>5. ASSUME NEW j \in Jobs, Step(j)
      PROVE  RInv'
  BY <1>5, VerifyInv, ResolveInv, ComposeInv, LookInv, PushInv, GrepInv, DraftInv, PublishInv DEF Step
<1>6. ASSUME NEW j \in Jobs, Die(j)
      PROVE  RInv'
  BY <1>6, DieInv
<1>7. ASSUME NEW d \in DocJobs,
             \/ StartDocs(d) \/ ComposeDocs(d) \/ DraftDocs(d) \/ UploadDocs(d) \/ PublishDocs(d)
             \/ DieDocs(d)
      PROVE  RInv'
  BY <1>7, StartDocsInv, ComposeDocsInv, DraftDocsInv, UploadDocsInv, PublishDocsInv, DieDocsInv
<1>8. CASE UNCHANGED vars
  BY <1>8, StutterInv
<1> QED BY <1>1, <1>2, <1>3, <1>4, <1>5, <1>6, <1>7, <1>8 DEF Next

\* A release that is of one push is bound to its tags, image and documentation.
LEMMA BoundRelease == RInv => ReleaseIsBound
<1> SUFFICES ASSUME RInv, releases["service"] # None
             PROVE  ReleaseIsBound
  BY DEF ReleaseIsBound
<1> DEFINE r == releases["service"]
           p == r.evidence
<1>1. /\ p \in Pushes /\ r = ServiceAssets(p)
      /\ Evidence(p).source \in Commits /\ OwnImage(p) /\ Bound(p) /\ Reviewed(p)
      /\ tags["service"] = [commit |-> r.source, evidence |-> p]
      /\ tags["docs"] # None /\ tags["docs"].commit = p
  BY DEF RInv, ServiceRelease
<1>2. /\ r.source = Evidence(p).source /\ r.image = Evidence(p).image
      /\ r.docs = Evidence(p).docs /\ r.api = main[p].api
  BY <1>1 DEF ServiceAssets
<1> QED BY <1>1, <1>2 DEF ReleaseIsBound, OwnImage, Bound, Reviewed

\* Both releases are of what the documentation tag points at.
LEMMA AgreeingReleases == RInv => ReleasesAgree
<1> SUFFICES ASSUME RInv, releases["docs"] # None
             PROVE  ReleasesAgree
  BY DEF ReleasesAgree
<1> DEFINE s == releases["service"]
           d == releases["docs"]
           c == tags["docs"].commit
<1>1. /\ \E u \in Uploads : d = DocAssets(c, u)
      /\ Evidence(c).docs = Evidence(c).publication /\ NotesAreMerged(c)
  BY DEF RInv, DocRelease
<1>2. /\ d.commit = c /\ d.source = Evidence(c).publication /\ d.docs = Evidence(c).docs
      /\ d.notes \in 1 .. c /\ d.api = main[c].api
  BY <1>1 DEF DocAssets, NotesAreMerged
<1>3. ASSUME s # None
      PROVE  d.source = s.source /\ d.api = s.api
  <2>1. s = ServiceAssets(c) /\ Bound(c)
    BY <1>3 DEF RInv, ServiceRelease
  <2>2. s.source = Evidence(c).source /\ s.api = main[c].api
    BY <2>1 DEF ServiceAssets
  <2> QED BY <1>1, <1>2, <2>1, <2>2 DEF Bound
<1> QED BY <1>1, <1>2, <1>3 DEF ReleasesAgree

\* A step changes no tag that is there, and no release.
LEMMA NothingMoves ==
  ASSUME RInv, [Next]_vars, NEW k \in Kinds
  PROVE  /\ tags[k] # None => tags'[k] = tags[k]
         /\ releases[k] # None => releases'[k] = releases[k]
<1>1. CASE UNCHANGED remote
  BY <1>1 DEF remote
<1>2. ASSUME NEW j \in Jobs, NEW i \in Kinds, Look(j, i) \/ Push(j, i)
      PROVE  /\ tags[k] # None => tags'[k] = tags[k]
             /\ releases[k] # None => releases'[k] = releases[k]
  BY <1>2 DEF Look, Push, remote, RInv, TypeOK
<1>3. ASSUME NEW j \in Jobs, Draft(j) \/ Publish(j)
      PROVE  /\ tags[k] # None => tags'[k] = tags[k]
             /\ releases[k] # None => releases'[k] = releases[k]
  BY <1>3 DEF Draft, Publish, RInv, TypeOK
<1>4. ASSUME NEW d \in DocJobs, DraftDocs(d) \/ UploadDocs(d) \/ PublishDocs(d) \/ DieDocs(d)
      PROVE  /\ tags[k] # None => tags'[k] = tags[k]
             /\ releases[k] # None => releases'[k] = releases[k]
  BY <1>4 DEF DraftDocs, UploadDocs, PublishDocs, DieDocs, RInv, TypeOK
<1>5. ASSUME NEW j \in Jobs, Verify(j) \/ Resolve(j) \/ Compose(j) \/ Grep(j)
      PROVE  UNCHANGED remote
  BY <1>5 DEF Verify, Resolve, Compose, Grep, Check
<1>6. ASSUME NEW j \in Jobs, (\E p \in Pushes : Start(j, p)) \/ Die(j)
      PROVE  UNCHANGED remote
  BY <1>6 DEF Start, Die
<1>7. ASSUME NEW d \in DocJobs, StartDocs(d) \/ ComposeDocs(d)
      PROVE  UNCHANGED remote
  BY <1>7 DEF StartDocs, ComposeDocs
<1>8. ASSUME PushSource \/ PushEvidence \/ (\E c \in Commits : PublishImage(c)) \/ UNCHANGED vars
      PROVE  UNCHANGED remote
  BY <1>8 DEF PushSource, PushEvidence, PublishImage, vars, remote
<1> QED BY <1>1, <1>2, <1>3, <1>4, <1>5, <1>6, <1>7, <1>8 DEF Next, Step

-----------------------------------------------------------------------------

\* Every reachable state is one the invariant describes: the workflows keep
\* every variable's type, and no run acts on what it has not established.
THEOREM SpecTypeOK == Spec => []TypeOK
<1>1. RInv => TypeOK
  BY DEF RInv
<1> QED BY <1>1, InitInv, NextInv, PTL DEF Spec

\* A published service release is of one piece, however many runs of however many
\* pushes of evidence raced for it. (release-service.yml:36-139)
THEOREM SpecReleaseIsBound == Spec => []ReleaseIsBound
BY InitInv, NextInv, BoundRelease, PTL DEF Spec

\* The releases of service and documentation describe the same source.
\* (release-documentation.yml:34-48, 75-123)
THEOREM SpecReleasesAgree == Spec => []ReleasesAgree
BY InitInv, NextInv, AgreeingReleases, PTL DEF Spec

\* No step moves or replaces a tag or a release. (release-service.yml:103-139,
\* README.md:63)
THEOREM SpecNeverMoved == Spec => NeverMoved
<1>1. RInv /\ [Next]_vars =>
         [\A k \in Kinds : /\ tags[k] # None => tags'[k] = tags[k]
                           /\ releases[k] # None => releases'[k] = releases[k]]_vars
  BY NothingMoves
<1> QED BY <1>1, InitInv, NextInv, PTL DEF Spec, NeverMoved

-----------------------------------------------------------------------------

\* Why a run started again finishes: a tag that is there was made for one of the
\* pushes, no two runs have the same push at once, and a run about to push a tag
\* competes for it with runs of other pushes only.
TagInv ==
    /\ tags["service"] # None =>
          tags["service"].commit = Evidence(tags["service"].evidence).source
    /\ tags["docs"] # None => tags["docs"].commit = tags["docs"].evidence
    /\ \A i, j \in Jobs : i # j /\ job[i].push = job[j].push => job[i].push = 0
    /\ \A j \in Jobs : \A k \in Kinds :
          job[j].step = PushOf[k] /\ tags[k] # None => tags[k].evidence # job[j].push

\* A step of no run leaves it.
LEMMA TagFrame ==
  ASSUME TypeOK, TagInv, Forward, UNCHANGED <<tags, job>>
  PROVE  TagInv'
<1>1. \A k \in Kinds : tags[k] # None => tags[k].evidence \in Pushes
  BY DEF TypeOK
<1>2. tags["service"] # None =>
         Evidence(tags["service"].evidence)' = Evidence(tags["service"].evidence)
  BY <1>1, PushForward DEF Evidence, Kinds
<1> QED BY <1>2 DEF TagInv

\* A run that keeps its push or gives it up, and is not about to push a tag.
LEMMA TagMoves ==
  ASSUME TypeOK, TagInv, UNCHANGED <<main, tags>>, NEW j \in Jobs, NEW r,
         job' = [job EXCEPT ![j] = r],
         r.push \in {0, job[j].push},
         \A k \in Kinds : r.step = PushOf[k] => tags[k] = None
  PROVE  TagInv'
<1>1. job'[j] = r /\ \A i \in Jobs : i # j => job'[i] = job[i]
  BY DEF TypeOK
<1>2. \A i, l \in Jobs : i # l /\ job'[i].push = job'[l].push => job'[i].push = 0
  BY <1>1 DEF TagInv
<1>3. \A i \in Jobs : \A k \in Kinds :
          job'[i].step = PushOf[k] /\ tags'[k] # None => tags'[k].evidence # job'[i].push
  BY <1>1 DEF TagInv
<1> QED BY <1>2, <1>3 DEF TagInv, Evidence

\* A step other than the push of a tag.
LEMMA MoveTag ==
  ASSUME TypeOK, TagInv, UNCHANGED <<main, tags>>, NEW j \in Jobs, NEW step, Move(j, step),
         \A k \in Kinds : step = PushOf[k] => tags[k] = None
  PROVE  TagInv'
<1>1. CASE step \in Ended
  <2> DEFINE r == [step |-> step, push |-> 0, seen |-> 0]
  <2>1. job' = [job EXCEPT ![j] = r]
    BY <1>1 DEF Move
  <2>2. r.push = 0 /\ r.step = step
    OBVIOUS
  <2> HIDE DEF r
  <2> QED BY <2>1, <2>2, TagMoves
<1>2. CASE step \notin Ended
  <2> DEFINE r == [job[j] EXCEPT !.step = step]
  <2>1. job' = [job EXCEPT ![j] = r]
    BY <1>2 DEF Move
  <2>2. r.push = job[j].push /\ r.step = step
    BY DEF TypeOK
  <2> HIDE DEF r
  <2> QED BY <2>1, <2>2, TagMoves
<1> QED BY <1>1, <1>2

\* ensure_tag returned: the run goes on to a step that pushes nothing.
LEMMA TaggedStep ==
  ASSUME TypeOK, NEW j \in Jobs, NEW k \in Kinds, NEW p, Tagged(j, k, p)
  PROVE  /\ job'[j].push = job[j].push
         /\ \A i \in Kinds : job'[j].step # PushOf[i]
         /\ job'[j].step # "failed"
         /\ \A i \in Jobs : i # j => job'[i] = job[i]
BY DEF Tagged, TypeOK, AfterTag, LookFor, PushOf, Kinds

\* A run is about to push a tag only if there was none when it looked.
LEMMA LookTag ==
  ASSUME TypeOK, TagInv, NEW j \in Jobs, NEW k \in Kinds, Look(j, k)
  PROVE  TagInv'
<1>1. UNCHANGED <<main, tags>>
  BY DEF Look, remote
<1>2. CASE tags[k] = None /\ Move(j, PushOf[k])
  <2>1. \A i \in Kinds : PushOf[k] = PushOf[i] => i = k
    BY DEF PushOf, Kinds
  <2> QED BY <1>1, <1>2, <2>1, MoveTag
<1>3. CASE Move(j, "failed")
  <2>1. \A i \in Kinds : PushOf[i] # "failed"
    BY DEF PushOf, Kinds
  <2> QED BY <1>1, <1>3, <2>1, MoveTag
<1>4. CASE Tagged(j, k, tags[k].evidence)
  <2> DEFINE r == [step |-> AfterTag(k), push |-> job[j].push,
                   seen |-> IF k = "service" THEN tags[k].evidence ELSE job[j].seen]
  <2>1. job' = [job EXCEPT ![j] = r]
    BY <1>4 DEF Tagged
  <2>2. r.push = job[j].push /\ \A i \in Kinds : r.step # PushOf[i]
    BY DEF AfterTag, PushOf, LookFor, Kinds
  <2> HIDE DEF r
  <2> QED BY <1>1, <2>1, <2>2, TagMoves
<1> QED BY <1>2, <1>3, <1>4 DEF Look

\* Who pushes a tag makes it for its own push, which no other run has.
LEMMA PushTag ==
  ASSUME TypeOK, TagInv, NEW j \in Jobs, NEW k \in Kinds, Push(j, k)
  PROVE  TagInv'
<1>1. At(j, PushOf[k]) /\ UNCHANGED <<main, builds, drafts, releases, docjob>>
  BY DEF Push
<1>2. CASE Move(j, "failed") /\ UNCHANGED tags
  <2>1. \A i \in Kinds : PushOf[i] # "failed"
    BY DEF PushOf, Kinds
  <2> QED BY <1>1, <1>2, <2>1, MoveTag
<1>3. CASE /\ tags[k] = None
           /\ tags' = [tags EXCEPT ![k] = [commit |-> Target(j, k), evidence |-> job[j].push]]
           /\ Tagged(j, k, job[j].push)
  <2> DEFINE p == job[j].push
  <2>1. p \in Pushes
    <3>1. job[j].step \notin Ended
      BY <1>1 DEF At, PushOf, Ended, Kinds
    <3>2. job[j] \in [step : JobSteps, push : Pushes, seen : Pushes \cup {0}]
                      \cup [step : Ended, push : {0}, seen : {0}]
      BY DEF TypeOK
    <3> QED BY <3>1, <3>2
  <2>2. p # 0
    BY <2>1 DEF Pushes, Commits
  <2>3. /\ tags'[k] = [commit |-> Target(j, k), evidence |-> p]
        /\ \A i \in Kinds : i # k => tags'[i] = tags[i]
    BY <1>3 DEF TypeOK
  <2>4. /\ job'[j].push = p /\ \A i \in Kinds : job'[j].step # PushOf[i]
        /\ \A i \in Jobs : i # j => job'[i] = job[i]
    BY <1>3, TaggedStep
  <2>5. /\ tags'["service"] # None =>
              tags'["service"].commit = Evidence(tags'["service"].evidence).source
        /\ tags'["docs"] # None => tags'["docs"].commit = tags'["docs"].evidence
    BY <2>3 DEF TagInv, Target, Source, Kinds
  <2>6. \A i, l \in Jobs : i # l /\ job'[i].push = job'[l].push => job'[i].push = 0
    BY <2>4 DEF TagInv
  <2>7. \A i \in Jobs : i # j => job[i].push # p
    BY <2>2 DEF TagInv
  <2>8. \A i \in Jobs : \A m \in Kinds :
          job'[i].step = PushOf[m] /\ tags'[m] # None => tags'[m].evidence # job'[i].push
    BY <2>3, <2>4, <2>7 DEF TagInv
  <2>9. \A q : Evidence(q)' = Evidence(q)
    BY <1>1 DEF Evidence
  <2> QED BY <2>5, <2>6, <2>8, <2>9 DEF TagInv
<1> QED BY <1>2, <1>3 DEF Push

\* No run starts with a push that another has.
LEMMA StartTag ==
  ASSUME TypeOK, TagInv, NEW j \in Jobs, NEW p \in Pushes, Start(j, p)
  PROVE  TagInv'
<1>1. /\ UNCHANGED <<main, tags>> /\ \A i \in Jobs : job[i].push # p
      /\ job' = [job EXCEPT ![j] = [step |-> "verify", push |-> p, seen |-> 0]]
  BY DEF Start, remote
<1>2. /\ job'[j] = [step |-> "verify", push |-> p, seen |-> 0]
      /\ \A i \in Jobs : i # j => job'[i] = job[i]
  BY <1>1 DEF TypeOK
<1>3. \A k \in Kinds : PushOf[k] # "verify"
  BY DEF PushOf, Kinds
<1>4. \A i, l \in Jobs : i # l /\ job'[i].push = job'[l].push => job'[i].push = 0
  BY <1>1, <1>2 DEF TagInv
<1>5. \A i \in Jobs : \A k \in Kinds :
        job'[i].step = PushOf[k] /\ tags'[k] # None => tags'[k].evidence # job'[i].push
  BY <1>1, <1>2, <1>3 DEF TagInv
<1> QED BY <1>1, <1>4, <1>5 DEF TagInv, Evidence

\* Every step of a run keeps the invariant on tags,
LEMMA RunTag ==
  ASSUME TypeOK, TagInv, NEW j \in Jobs, Step(j) \/ Die(j)
  PROVE  TagInv'
<1>1. \A step \in {"failed", "died", "done", "resolve", "compose", "look_for_service_tag",
                   "publish", "upload"} :
         \A k \in Kinds : step # PushOf[k]
  BY DEF PushOf, Kinds
<1>2. CASE Verify(j)
  BY <1>1, <1>2, MoveTag DEF Verify, Check, remote
<1>3. CASE Resolve(j)
  BY <1>1, <1>3, MoveTag DEF Resolve, Check, remote
<1>4. CASE Compose(j)
  BY <1>1, <1>4, MoveTag DEF Compose, Check, remote, LookFor
<1>5. CASE Grep(j)
  BY <1>1, <1>5, MoveTag DEF Grep, Check, remote
<1>6. CASE Draft(j)
  BY <1>1, <1>6, MoveTag DEF Draft
<1>7. CASE Publish(j)
  BY <1>1, <1>7, MoveTag DEF Publish
<1>8. CASE Die(j)
  BY <1>1, <1>8, MoveTag DEF Die, remote
<1> QED BY <1>2, <1>3, <1>4, <1>5, <1>6, <1>7, <1>8, LookTag, PushTag DEF Step

\* and so does every other,
LEMMA NextTag == RInv /\ TagInv /\ [Next]_vars => TagInv'
<1> SUFFICES ASSUME RInv, TagInv, [Next]_vars PROVE TagInv'
  OBVIOUS
<1> TypeOK
  BY DEF RInv
<1>1. CASE PushSource \/ PushEvidence
  BY <1>1, AppendForward, TagFrame DEF PushSource, PushEvidence, remote
<1>2. ASSUME NEW c \in Commits, PublishImage(c)
      PROVE  TagInv'
  BY <1>2 DEF PublishImage, remote, TagInv, Evidence
<1>3. ASSUME NEW j \in Jobs, (\E p \in Pushes : Start(j, p)) \/ Step(j) \/ Die(j)
      PROVE  TagInv'
  BY <1>3, StartTag, RunTag
<1>4. ASSUME NEW d \in DocJobs,
             \/ StartDocs(d) \/ ComposeDocs(d) \/ DraftDocs(d) \/ UploadDocs(d) \/ PublishDocs(d)
             \/ DieDocs(d)
      PROVE  UNCHANGED <<main, tags, job>>
  BY <1>4 DEF StartDocs, ComposeDocs, DraftDocs, UploadDocs, PublishDocs, DieDocs, remote
<1>5. CASE UNCHANGED <<main, tags, job>>
  BY <1>5 DEF TagInv, Evidence
<1> QED BY <1>1, <1>2, <1>3, <1>4, <1>5 DEF Next, vars, remote

\* and it holds before the first tag.
LEMMA InitTag == Init => TagInv
<1> SUFFICES ASSUME Init PROVE TagInv
  OBVIOUS
<1>1. \A j \in Jobs : job[j].push = 0 /\ job[j].step = "idle"
  BY DEF Init
<1>2. \A k \in Kinds : tags[k] = None /\ PushOf[k] # "idle"
  BY DEF Init, PushOf, Kinds
<1> QED BY <1>1, <1>2 DEF TagInv, Kinds

\* With its push the only one, in order and still current, every check of a run
\* holds, and every tag it finds is one it would have made.
LEMMA InOrderFinishes ==
  ASSUME RInv, TagInv, NEW j \in Jobs, job[j].step \notin Ended, InOrder(j), [Next]_vars
  PROVE  job'[j].step # "failed"
<1> DEFINE p == job[j].push
           e == Evidence(p)
<1>1. /\ p \in Pushes /\ p # 0 /\ Pushes = {p} /\ JobFacts(j)
      /\ e.source \in Commits /\ Bound(p) /\ Reviewed(p)
      /\ e.image = <<e.source, builds[e.source]>>
  BY DEF RInv, TypeOK, InOrder, Pushes, Commits
<1>2. \A k \in Kinds : tags[k] # None => tags[k].evidence = p /\ tags[k].commit = Target(j, k)
  <2>1. \A k \in Kinds : tags[k] # None => tags[k].evidence = p
    BY <1>1 DEF RInv, TypeOK
  <2> QED BY <2>1 DEF TagInv, Target, Source, Kinds
<1>3. ASSUME NEW step, step # "failed", Move(j, step)
      PROVE  job'[j].step # "failed"
  BY <1>3 DEF Move, RInv, TypeOK
<1>4. CASE job'[j] = job[j]
  BY <1>4 DEF Ended
<1>5. ASSUME NEW i \in Jobs, i # j, (\E q \in Pushes : Start(i, q)) \/ Step(i) \/ Die(i)
      PROVE  job'[j] = job[j]
  BY <1>5 DEF Start, Step, Die, Verify, Resolve, Compose, Look, Push, Grep, Draft, Publish, Check,
              Move, Tagged, RInv, TypeOK
<1>6. ~ \E q \in Pushes : Start(j, q)
  BY DEF Start
<1>7. CASE Verify(j)
  BY <1>1, <1>3, <1>7 DEF Verify, Check, Source
<1>8. CASE Resolve(j)
  BY <1>1, <1>3, <1>8 DEF Resolve, Check, Source, Image
<1>9. CASE Compose(j)
  BY <1>1, <1>3, <1>9 DEF Compose, Check, LookFor
<1>10. ASSUME NEW k \in Kinds, Look(j, k)
       PROVE  job'[j].step # "failed"
  <2>1. PushOf[k] # "failed"
    BY DEF PushOf, Kinds
  <2> QED BY <1>2, <1>3, <1>10, <2>1, TaggedStep DEF Look, RInv
<1>11. ASSUME NEW k \in Kinds, Push(j, k)
       PROVE  job'[j].step # "failed"
  <2>1. tags[k] = None
    BY <1>2, <1>11 DEF TagInv, Push, At
  <2> QED BY <1>11, <2>1, TaggedStep DEF Push, RInv
<1>12. CASE Grep(j)
  <2>1. job[j].seen = p
    BY <1>1, <1>2, <1>12, Steps DEF JobFacts, Grep, Check, At, AfterDocs, AfterService, Kinds
  <2> QED BY <1>3, <1>12, <2>1 DEF Grep, Check
<1>13. CASE Draft(j)
  BY <1>3, <1>13 DEF Draft, InOrder
<1>14. CASE Publish(j)
  BY <1>3, <1>14 DEF Publish
<1>15. CASE Die(j)
  BY <1>3, <1>15 DEF Die
<1>16. ASSUME NEW d \in DocJobs,
              \/ StartDocs(d) \/ ComposeDocs(d) \/ DraftDocs(d) \/ UploadDocs(d) \/ PublishDocs(d)
              \/ DieDocs(d)
       PROVE  job' = job
  BY <1>16 DEF StartDocs, ComposeDocs, DraftDocs, UploadDocs, PublishDocs, DieDocs
<1>17. ASSUME PushSource \/ PushEvidence \/ (\E c \in Commits : PublishImage(c)) \/ UNCHANGED vars
       PROVE  job' = job
  BY <1>17 DEF PushSource, PushEvidence, PublishImage, vars
<1> QED
  BY <1>4, <1>5, <1>6, <1>7, <1>8, <1>9, <1>10, <1>11, <1>12, <1>13, <1>14, <1>15, <1>16, <1>17
     DEF Next, Step

\* A run whose push is in order does not fail, wherever earlier runs of the push
\* died. (release-service.yml:103-139)
THEOREM SpecRerunsFinish == Spec => RerunsFinish
<1>1. RInv /\ TagInv /\ [Next]_vars =>
         [\A j \in Jobs : job[j].step \notin Ended /\ InOrder(j) => job'[j].step # "failed"]_vars
  BY InOrderFinishes
<1> QED BY <1>1, InitInv, NextInv, InitTag, NextTag, PTL DEF Spec, RerunsFinish
=============================================================================
