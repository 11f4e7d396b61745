--------------------------- MODULE MCConversation ---------------------------
(* Small instances of Conversation.  A turn that pauses, is steered and    *)
(* answers takes four parts; a summary and the prompt after it two more.   *)
EXTENDS Conversation
=============================================================================
