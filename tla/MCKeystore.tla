----------------------------- MODULE MCKeystore -----------------------------
(***************************************************************************)
(* The instance of Keystore that TLC checks: one chat the user starts and  *)
(* one that comes in, so that both ports are used, the event thread meets  *)
(* two listener threads and either chat's windows and threads replace the  *)
(* semaphore under the commands of the other.                              *)
(***************************************************************************)
EXTENDS Keystore

CONSTANTS out, in1
===============================================================================
