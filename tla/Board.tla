-------------------------------- MODULE Board --------------------------------
(***************************************************************************)
(* The sketch Progetto_SSD_Finale.ino, one operator per command the board  *)
(* serves in loop().  A board is a record of the sketch's static variables *)
(*                                                                         *)
(*   x           0 on the board of the user who placed the call (STARTER), *)
(*               1 on the other one                                        *)
(*   in_seq_no   the number of the last message taken from the peer        *)
(*   out_seq_no  the number of the last message encrypted                  *)
(*   my_f        the Diffie-Hellman secret of the current exchange         *)
(*   my_k        the public key, later overwritten by the shared key       *)
(*                                                                         *)
(* A key is the set of the secrets that went into it: {f} is the public    *)
(* key of f, {f, g} the key both ends derive from f and g.                 *)
(***************************************************************************)
EXTENDS Integers

CONSTANT Secrets   \* the values Curve25519 may draw for my_f

STARTER    == 1    \* the type the PC sends with command "1"
NO_STARTER == 2

\* (Wrap8, NoWrap and the other operators whose name continues the one of the
\* operator after them say how that one could have gone wrong; nothing uses
\* them but the runs that test the properties.)

\* AVR-GCC: int has 16 bits, and 2*out_seq_no+x wraps around.
Int16     == -32768 .. 32767
Wrap8(n)  == ((n + 128) % 256) - 128
NoWrap(n) == n
Wrap16(n) == ((n + 32768) % 65536) - 32768

Keys   == SUBSET Secrets
Boards == [x          : {0, 1},
           in_seq_no  : Int16,
           out_seq_no : Int16,
           my_f       : Keys,
           my_k       : Keys]

\* The statics of a board that has just been powered up.
PoweredUp == [x |-> 0, in_seq_no |-> 0, out_seq_no |-> 0, my_f |-> {}, my_k |-> {}]

\* out_seq_no++; out_seq_no = 2*out_seq_no+x
NumberAfterNoParity(n, x)   == Wrap16(2 * Wrap16(n + 1))
NumberAfter(n, x) == Wrap16(2 * Wrap16(n + 1) + x)

\* The number decrypt_message() expects after n on a board with this x:
\* the other end's formula.
ExpectedAfterOwnFormula(n, x) == Wrap16(2 * Wrap16(n + 1) + x)
ExpectedAfter(n, x) ==
    IF x = 0 THEN Wrap16(2 * Wrap16(n + 1) + 1) ELSE Wrap16(2 * Wrap16(n + 1))

\* Command "1": choose the role, reset both counters, draw a key pair.
SendTokenSharedOneRole(b, c_type, f) ==
    [b EXCEPT !.x = 0, !.in_seq_no = 0, !.out_seq_no = 0, !.my_f = {f}, !.my_k = {f}]
SendTokenShared(b, c_type, f) ==
    [b EXCEPT !.x = IF c_type = STARTER THEN 0 ELSE 1,
              !.in_seq_no = 0,
              !.out_seq_no = 0,
              !.my_f = {f},
              !.my_k = {f}]

\* Command "2": my_k becomes what dh2 leaves in other_k, whatever dh2 answers;
\* dh2 clears my_f, and from a cleared one it makes the zero key, {}.
DerivedKey(b, other) == IF b.my_f = {} THEN {} ELSE other \cup b.my_f
ReceivedTokenSharedKeepsToken(b, other) == [b EXCEPT !.my_k = other, !.my_f = {}]
ReceivedTokenShared(b, other) ==
    [b EXCEPT !.my_k = DerivedKey(b, other), !.my_f = {}]

\* Command "3": the next number of this direction; the ciphertext carries it.
EncryptMessage(b) == [b EXCEPT !.out_seq_no = NumberAfter(b.out_seq_no, b.x)]

\* Command "4".  in_seq_no is incremented before anything is looked at; when
\* the two message keys are found equal it stays so (the "HASHING NOT
\* MATCHING" branch), otherwise the number read from the plaintext replaces
\* it, accepted or not.
DecryptHashing(b)      == [b EXCEPT !.in_seq_no = Wrap16(b.in_seq_no + 1)]
DecryptNumberedKeepsOwn(b, n) == [b EXCEPT !.in_seq_no = Wrap16(b.in_seq_no + 1)]
DecryptNumbered(b, n)  == [b EXCEPT !.in_seq_no = n]
NumberAccepted(b, n)   == n = ExpectedAfter(b.in_seq_no, b.x)
===============================================================================
