---------------------------- MODULE MCLoginServer ----------------------------
(***************************************************************************)
(* The instances of LoginServer that TLC checks.  The durations are scaled *)
(* down and keep their order: window < lockout < ban.                      *)
(***************************************************************************)
EXTENDS LoginServer, TLC

CONSTANTS u1, u2, u3, u4, ip1, ip2

\* Users that only fail are interchangeable.
Symmetry == Permutations(Users)
===============================================================================
