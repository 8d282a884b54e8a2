--------------------------- MODULE MCConversations ---------------------------
(* Two deliveries of each kind, so that one can be handled again, and one  *)
(* fault, anywhere.                                                        *)
EXTENDS Conversations
=============================================================================
