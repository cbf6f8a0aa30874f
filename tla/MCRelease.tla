------------------------------ MODULE MCRelease ------------------------------
(* One version for TLC: pushes of evidence, good ones and bad ones. *)
EXTENDS ReleaseProperties, TLC

\* The same commit is documented everywhere.
Submission(source, image, reviewed, docs) ==
    [source |-> source, image |-> image, reviewed |-> reviewed, docs |-> docs, build |-> docs,
     notes |-> docs, publication |-> docs, provenance |-> docs]

\* Evidence in order for commit 1, with its first image or its second, and for
\* commit 2, whose provenance still names commit 1: no check looks at that.
InOrder1 == Submission(1, <<1, 1>>, TRUE, 1)
Rebuilt1 == Submission(1, <<1, 2>>, TRUE, 1)
InOrder2 == [Submission(2, <<2, 1>>, TRUE, 2) EXCEPT !.provenance = 1]

\* Another database or an incomplete matrix; a source that was never merged; the
\* image of another commit; the documentation of another; the publication alone
\* is of another; the notes name a commit that is not merged yet.
OtherMatrix == Submission(1, <<1, 1>>, FALSE, 1)
NotMerged == Submission(Unmerged, <<1, 1>>, TRUE, 1)
OtherImage == Submission(2, <<1, 1>>, TRUE, 2)
OtherDocs == Submission(1, <<1, 1>>, TRUE, 2)
OtherPublication == [InOrder1 EXCEPT !.publication = 2]
LaterNotes == [InOrder1 EXCEPT !.notes = 4]

VersionSubmissions ==
    << {}, {InOrder1, OtherMatrix}, {InOrder1, OtherImage, OtherDocs, OtherPublication, LaterNotes},
       {Rebuilt1, InOrder2, NotMerged} >>

\* Commit 1 may be built twice; no submission names an image of commits 3 and 4.
VersionBuilds == <<2, 1, 0, 0>>

CONSTANTS j1, j2, d1

\* The runs of a workflow are alike.
JobSymmetry == Permutations(Jobs)
=============================================================================
