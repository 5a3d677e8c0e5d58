--------------------------- MODULE MCReplyIntake ---------------------------
(* ReplyIntake on a burst of messages of one conversation. *)
EXTENDS ReplyIntake

OneConversation == [e \in Events |-> 1]
=============================================================================
