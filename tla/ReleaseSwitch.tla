---------------------------- MODULE ReleaseSwitch ----------------------------
(***************************************************************************)
(* What an installation transaction promises: the installation goes from   *)
(* the previous release to the candidate as a whole or not at all, and at  *)
(* rest it is one of the two, whatever happens to the owner meanwhile.     *)
(***************************************************************************)
VARIABLE release

Init == release = "previous"

Open == release = "previous" /\ release' = "changing"
Close == release = "changing" /\ release' \in {"previous", "candidate"}

Spec == Init /\ [][Open \/ Close]_release
=============================================================================
