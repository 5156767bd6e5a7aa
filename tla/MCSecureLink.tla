---------------------------- MODULE MCSecureLink ----------------------------
(***************************************************************************)
(* The instances of SecureLink that TLC checks.                            *)
(***************************************************************************)
EXTENDS SecureLink, TLC

\* Both users type a few texts, several of them under way at once.
ShortChat == (Caller :> 3) @@ (Callee :> 2)
===============================================================================
