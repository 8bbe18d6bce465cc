------------------------------- MODULE MCChats -------------------------------
(* Small instances of the conversation archive: see the .cfg files. *)
EXTENDS ChatsSync
==============================================================================
