---------------------------- MODULE AtomicInstall ----------------------------
(***************************************************************************)
(* What installing a snapshot promises: a destination is absent or holds a *)
(* complete database, and changes in one step to a database that some      *)
(* manifest describes.  A failed or killed installation changes nothing.   *)
(***************************************************************************)
CONSTANTS Dest, Nil, PriorFile

VARIABLES
  current,    \* current[d]: the database at destination d, or Nil
  described   \* described[d]: the databases manifests for d describe

vars == <<current, described>>

Init == current \in [Dest -> {Nil, PriorFile}]

Install(d) ==
  \E database \in described[d] :
    /\ current' = [current EXCEPT ![d] = database]
    /\ UNCHANGED described

Next == \E d \in Dest : Install(d)

Spec == Init /\ [][Next]_vars
=============================================================================
