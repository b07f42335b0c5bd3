----------------------------- MODULE MCAutoPivot ----------------------------
(***************************************************************************)
(* One email and three usernames, up to the depth of 3 that the engine     *)
(* accepts: a username can be met first at the last level and again above. *)
(***************************************************************************)
EXTENDS AutoPivot
=============================================================================
