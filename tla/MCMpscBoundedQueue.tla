------------------------ MODULE MCMpscBoundedQueue --------------------------
(***************************************************************************)
(* Small instances of MpscBoundedQueue: two slots are lapped twice, so     *)
(* that a slot is reused while producers that read its old sequence number *)
(* are still on their way.                                                 *)
(***************************************************************************)
EXTENDS MpscBoundedQueue

=============================================================================
