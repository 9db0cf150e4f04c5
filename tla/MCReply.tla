------------------------------ MODULE MCReply ------------------------------
(* A small instance of TextReply for TLC. *)
EXTENDS TextReply

Spec == ReplyInit /\ [][ReplyNext]_replyVars
=============================================================================
