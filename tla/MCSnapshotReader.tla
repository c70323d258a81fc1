--------------------------- MODULE MCSnapshotReader ---------------------------
(* Values of the constants of SnapshotReader for TLC. *)
EXTENDS SnapshotReader

CONSTANTS d1

\* The database that is there at first, two releases, and what zstd makes of
\* three archives: each release, and more than MaxRaw bytes.
Prior == <<3, 3>>
One == <<1, 1>>
Two == <<2, 2>>
Databases == {Prior, One, Two}
MCDecode == [f \in {<<3, 1>>, <<3, 2>>, <<1, 3>>} |->
               CASE f = <<3, 1>> -> One [] f = <<3, 2>> -> Two [] f = <<1, 3>> -> <<1, 1, 1>>]

Local(w) == [dest |-> d1, want |-> w, archive |-> Nil, remote |-> FALSE,
             compressed |-> FALSE, sameName |-> FALSE]
Url(w) == [Local(w) EXCEPT !.remote = TRUE]
Zst(w, f) == [Local(w) EXCEPT !.compressed = TRUE, !.archive = f]

\* Two releases installed over each other, from a URL and from an archive.
TwoReleases == {Url(One), Zst(Two, <<3, 2>>)}
ReleaseSources == {One, <<3, 2>>}

\* One release, from every kind of source, good, torn and too long.
SameRelease == {Local(One), Url(One), Zst(One, <<3, 1>>), Zst(One, Nil)}
SameSources == {One, <<3, 1>>, <<1, 3>>}

Checked(w) == [dest |-> d1, manifest |-> w]
OneReaders == {Checked(One)}
AllReaders == {Checked(One), Checked(Two), Checked(Nil)}
=============================================================================
