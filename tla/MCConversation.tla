--------------------------- MODULE MCConversation ---------------------------
(***************************************************************************)
(* Conversation with one or two chats.                                     *)
(***************************************************************************)
EXTENDS Conversation

CONSTANTS alice, bob
=============================================================================
