----------------------------- MODULE MCChatClient -----------------------------
(* ChatClient on one small instance; ChatClient_lossless.cfg gives the constants. *)
EXTENDS ChatClient, TLC

CONSTANTS home

\* The group has a message when the tab opens.
Explored == phase # "connecting" => posted # <<>>
=============================================================================
