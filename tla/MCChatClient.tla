---------------------------- MODULE MCChatClient ----------------------------
(***************************************************************************)
(* The instances of ChatClient that TLC checks: one chat the user starts   *)
(* and one that comes in, so that the event thread and two listener        *)
(* threads meet in the MessagingHelper.                                    *)
(***************************************************************************)
EXTENDS ChatClient, TLC

CONSTANTS called, accepted

\* The user sends in both chats, and a peer enough for a text to meet a full
\* pipe.
BothSend  == (called :> 1) @@ (accepted :> 1)
BothTexts == (called :> 2) @@ (accepted :> 1)

\* For the temporal properties: the user sends in the chat started, the peer
\* in the other.
CalledOnly   == (called :> 1) @@ (accepted :> 0)
AcceptedOnly == (called :> 0) @@ (accepted :> 1)
===============================================================================
