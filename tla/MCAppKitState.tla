---------------------------- MODULE MCAppKitState ----------------------------
(* Processes are alike, and so are the codes. *)
EXTENDS AppKitState, TLC

PublicHttp == [local |-> FALSE, scheme |-> "http"]
OneSite  == {PublicHttp}
TwoSites == {PublicHttp, [local |-> TRUE, scheme |-> "https"]}
StateSymmetry == Permutations(Process) \cup Permutations(Code)
=============================================================================
