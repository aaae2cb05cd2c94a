-------------------------------- MODULE MCBot --------------------------------
(***************************************************************************)
(* Small instances of BotCore.  Two chats ask for one URL (their keys      *)
(* share a blob), and a third key has a URL that is refused.               *)
(***************************************************************************)
EXTENDS BotInvariant, TLC

CONSTANTS chatA, chatB, refused

MCKeys == {chatA, chatB, refused}
MCAllowed == {chatA, chatB}
MCBlobOf == [k \in MCKeys |-> IF k = chatB THEN chatA ELSE k]

Interchangeable == Permutations(Calls)
=============================================================================
