------------------------------ MODULE RandomPool ------------------------------
(***************************************************************************)
(* The random numbers of a board (RNG.cpp on an AVR): a pool in RAM, which *)
(* power cuts forget, and a seed in EEPROM, which outlives them and is     *)
(* written byte by byte.  The sketch draws the secret of every chat here.  *)
(*                                                                         *)
(* The pool and the seed are named by how they came about: output number k *)
(* of the hash of pool b is Append(b, k).  A pool made from a seed, or from*)
(* the end of an output, has the name of that seed or output.  What is     *)
(* stirred in, the micros() of a rekey included, is taken to be always the *)
(* same: what holds then holds all the more when it varies.                *)
(***************************************************************************)
EXTENDS Integers, Sequences, SequencesExt

CONSTANTS RNG_MAX_CREDITS,  \* bits of entropy the pool is credited at most
          RNG_REKEY_BLOCKS, \* blocks of a request between two rekeys
          NOISE_WORDS,      \* words of watchdog noise that are stirred at once
          Lengths,          \* bytes asked for, or stirred in, at once
          Credits,          \* bits of credit that callers of stir give
          MaxSteps          \* calls, and power cuts, all in all

ASSUME PoolAssumption ==
    /\ RNG_MAX_CREDITS \in Nat
    /\ RNG_REKEY_BLOCKS \in Nat \ {0} /\ NOISE_WORDS \in Nat \ {0}
    /\ Lengths \subseteq Nat /\ Credits \subseteq Nat
    /\ MaxSteps \in Nat

BLOCK == 64  \* bytes of an output
CHUNK == 48  \* bytes of it that make a seed or a pool

VARIABLES stage,     \* "off", "ready", or how far save() has come
          block,     \* the pool
          credits, firstSave, trngPosn,
          marked,    \* the byte 'S' is in front of the seed
          seed,      \* the 48 bytes after it
          handed,    \* all outputs handed out, oldest first
          destroyed, \* destroy() has been called
          credited,  \* bits of entropy stirred in since begin()
          promised,  \* bytes handed out since then that available() promised
          steps

poolVars == <<stage, block, credits, firstSave, trngPosn, marked, seed, handed,
          destroyed, credited, promised, steps>>
eeprom  == <<marked, seed>>
history == <<handed, destroyed>>

\* Without a seed the pool is the constant initRNG.
initRNG == <<>>

PoolInit ==
    /\ stage = "off" /\ block = initRNG
    /\ credits = 0 /\ firstSave = TRUE /\ trngPosn = 0
    /\ marked = FALSE /\ seed = <<>>
    /\ handed = <<>> /\ destroyed = FALSE
    /\ credited = 0 /\ promised = 0
    /\ steps = 0

Counts == steps < MaxSteps /\ steps' = steps + 1

-------------------------------------------------------------------------------
(******************************** Operators ********************************)

Smaller(a, b) == IF a <= b THEN a ELSE b
Pieces(len, size) == (len + size - 1) \div size

\* rekey() after n outputs of b, and n rekeys one after the other.
NoRekey(b, n) == b
rekey(b, n)   == Append(b, n + 1)
Rekeys(b, n)  == b \o [i \in 1 .. n |-> 1]

\* rand(): the pool that makes output i, which output it is of that pool, and
\* what is left after n of them.
Segment(b, i) == b \o [j \in 1 .. (i - 1) \div RNG_REKEY_BLOCKS |-> RNG_REKEY_BLOCKS + 1]
Place(i)      == 1 + ((i - 1) % RNG_REKEY_BLOCKS)
Outputs(b, n) == [i \in 1 .. n |-> Append(Segment(b, i), Place(i))]
PoolAfter(b, n) == IF n = 0 THEN rekey(b, 0) ELSE rekey(Segment(b, n), Place(n))

\* What a request of len bytes leaves of the credits.
CreditsKept(c, len) == IF len > c \div 8 THEN c ELSE c - 8 * len
CreditsLeft(c, len) == IF len > c \div 8 THEN 0 ELSE c - 8 * len

available(len) == IF len >= RNG_MAX_CREDITS \div 8 THEN credits >= RNG_MAX_CREDITS
                                                   ELSE len <= credits \div 8

\* stir(): what is credited for len bytes; none at all stand for the noise words.
Worth(len, credit)    == IF credit \div 8 >= len /\ len > 0 THEN 8 * len ELSE credit
Credited(c, w)        == IF RNG_MAX_CREDITS - c > w THEN c + w ELSE RNG_MAX_CREDITS

-------------------------------------------------------------------------------
(********************************* Actions *********************************)

\* begin(), from power-up or again: the seed if there is one, a rekey, the tag
\* stirred in without credit, and save() at once.
BeginUnsaved ==
    /\ stage \in {"off", "ready"} /\ Counts
    /\ block' = Rekeys(IF marked THEN seed ELSE initRNG, 2)
    /\ credits' = 0 /\ credited' = 0 /\ promised' = 0
    /\ firstSave' = TRUE
    /\ stage' = "ready"
    /\ UNCHANGED <<trngPosn, eeprom, history>>
begin ==
    /\ stage \in {"off", "ready"} /\ Counts
    /\ block' = Rekeys(IF marked THEN seed ELSE initRNG, 2)
    /\ credits' = 0 /\ credited' = 0 /\ promised' = 0
    /\ firstSave' = TRUE
    /\ stage' = "writing"
    /\ UNCHANGED <<trngPosn, eeprom, history>>

\* save() is called from outside.
Save ==
    /\ stage = "ready" /\ Counts
    /\ stage' = "writing"
    /\ UNCHANGED <<block, credits, firstSave, trngPosn, eeprom, history, credited, promised>>

\* Some of the bytes of the new seed are written; 0 marks where they end.
WriteSome ==
    /\ stage = "writing"
    /\ seed' = Append(block, 1) \o <<0>> \o seed
    /\ stage' = "torn"
    /\ UNCHANGED <<block, credits, firstSave, trngPosn, marked, history, credited,
                   promised, steps>>

WriteSeed ==
    /\ stage \in {"writing", "torn"}
    /\ seed' = Append(block, 1)
    /\ stage' = "mark"
    /\ UNCHANGED <<block, credits, firstSave, trngPosn, marked, history, credited,
                   promised, steps>>

\* ... then the byte in front of it, and a rekey.
Mark ==
    /\ stage = "mark"
    /\ marked' = TRUE
    /\ block' = rekey(block, 1)
    /\ stage' = "ready"
    /\ UNCHANGED <<credits, firstSave, trngPosn, seed, history, credited, promised, steps>>

\* rand(data, len)
rand(len) ==
    LET n == Pieces(len, BLOCK) IN
    /\ stage = "ready" /\ Counts
    /\ credits' = CreditsLeft(credits, len)
    /\ promised' = promised + IF available(len) THEN Smaller(len, RNG_MAX_CREDITS \div 8)
                                                ELSE 0
    /\ handed' = handed \o Outputs(block, n)
    /\ block' = PoolAfter(block, n)
    /\ UNCHANGED <<stage, firstSave, trngPosn, eeprom, destroyed, credited>>

\* The pool, the credits and the stage after stir(data, len, credit); the first
\* time the credits are full the seed is saved.
Stirs(len, credit) ==
    /\ credits' = Credited(credits, Worth(len, credit))
    /\ credited' = credited + Worth(len, credit)
    /\ block' = Rekeys(block, IF len = 0 THEN 1 ELSE Pieces(len, CHUNK))
    /\ firstSave' = (firstSave /\ credits' < RNG_MAX_CREDITS)

\* A noise source stirs.
stir(len, credit) ==
    /\ stage = "ready" /\ Counts
    /\ Stirs(len, credit)
    /\ stage' = IF firstSave' # firstSave THEN "writing" ELSE "ready"
    /\ UNCHANGED <<trngPosn, eeprom, history, promised>>

\* loop(): one more word of noise if the watchdog has fired 32 times, and a
\* save if the last one is old, which one just made is not.
loop(fired, due) ==
    /\ stage = "ready" /\ Counts
    /\ trngPosn' = IF fired THEN (trngPosn + 1) % NOISE_WORDS ELSE trngPosn
    /\ IF fired /\ trngPosn' = 0
       THEN Stirs(0, CHUNK)
       ELSE UNCHANGED <<credits, credited, block, firstSave>>
    /\ stage' = IF due \/ firstSave' # firstSave THEN "writing" ELSE "ready"
    /\ UNCHANGED <<eeprom, history, promised>>

\* destroy(): the byte 'S' goes first; begin() must be called again.
destroy ==
    /\ stage = "ready" /\ Counts
    /\ stage' = "off" /\ block' = initRNG
    /\ marked' = FALSE /\ seed' = <<>>
    /\ destroyed' = TRUE
    /\ UNCHANGED <<credits, firstSave, trngPosn, handed, credited, promised>>

PowerCut ==
    /\ stage # "off" /\ Counts
    /\ stage' = "off" /\ block' = initRNG
    /\ credits' = 0 /\ firstSave' = TRUE /\ trngPosn' = 0
    /\ credited' = 0 /\ promised' = 0
    /\ UNCHANGED <<eeprom, history>>

PoolNext ==
    \/ begin \/ Save \/ WriteSome \/ WriteSeed \/ Mark \/ destroy \/ PowerCut
    \/ \E len \in Lengths : rand(len) \/ \E credit \in Credits : stir(len, credit)
    \/ \E fired, due \in BOOLEAN : loop(fired, due)

PoolSpec == PoolInit /\ [][PoolNext]_poolVars

-------------------------------------------------------------------------------
(******************************* Properties ********************************)

\* No output is ever handed out twice, however often the power is cut and in
\* whatever place, with no noise at all: begin() replaces the seed before
\* anything made from it leaves the board, and a seed half written is new too.
\* Only destroy() takes the board back to where it was when it was made.
NothingTwice ==
    ~ destroyed => \A i, j \in DOMAIN handed : handed[i] = handed[j] => i = j

\* What has been handed out cannot be computed from the pool or the seed of
\* any later moment: a name is a prefix of the names of all it leads to.
PastIsSafe ==
    ~ destroyed =>
        \A i \in DOMAIN handed :
            /\ stage # "off" => ~ IsPrefix(block, handed[i])
            /\ marked => ~ IsPrefix(seed, handed[i])

\* Entropy is promised once: what requests were told was available, and what
\* the next will be told, has been stirred in since begin().
CreditsBacked ==
    /\ credits \in 0 .. RNG_MAX_CREDITS
    /\ 8 * promised + credits <= credited
===============================================================================
