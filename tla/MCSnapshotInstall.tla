-------------------------- MODULE MCSnapshotInstall --------------------------
(* Values of the constants of SnapshotInstall for TLC. *)
EXTENDS SnapshotInstall

CONSTANTS d1

\* Two databases, and the one that is there at first.
Prior == <<3>>
One == <<1, 1>>
Two == <<2, 2>>
NoArchive == [f \in {} |-> f]

Local(d, w) == [dest |-> d, want |-> w, archive |-> Nil, remote |-> FALSE,
                compressed |-> FALSE, sameName |-> FALSE]
Url(d, w) == [Local(d, w) EXCEPT !.remote = TRUE]

RaceJobs == {Local(d1, One), Local(d1, Two), Url(d1, One)}
RaceSources == {One, Two}
NamedJobs == {Url(d1, One), [Url(d1, One) EXCEPT !.sameName = TRUE]}
=============================================================================
