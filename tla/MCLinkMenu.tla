------------------------------ MODULE MCLinkMenu ------------------------------
(***************************************************************************)
(* Small instances of LinkMenu.  EventKinds is {"message", "callback"} when *)
(* the middleware is called with the events themselves, as its own tests   *)
(* call it, and {"update"} when it is called as app.py registers it.       *)
(***************************************************************************)
EXTENDS LinkMenu, TLC

Interchangeable == Permutations(Users) \union Permutations(Tokens)
=============================================================================
