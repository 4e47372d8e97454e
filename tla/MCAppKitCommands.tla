-------------------------- MODULE MCAppKitCommands --------------------------
(* A thread of the requester makes two calls, a handler one. *)
EXTENDS AppKitCommands, TLC
CONSTANTS user, handler

TwoAndOne == user :> 2 @@ handler :> 1
OneAndTwo == user :> 1 @@ handler :> 2
=============================================================================
