------------------------------ MODULE RtuHash ------------------------------
(***************************************************************************)
(* userspace/wrsw_rtud/rtu_hash.c: the row of the filtering table that a   *)
(* station belongs to.  The gateware computes the same value in one step   *)
(* per word; the C code does it bit by bit in a register of its own shape. *)
(*                                                                         *)
(* A word or register is the set of the positions of its ones, and so is a *)
(* polynomial: exclusive or is the symmetric difference.                   *)
(***************************************************************************)
EXTENDS Integers, Sequences, FiniteSets

CONSTANTS
    Degree,    \* of the polynomial, and width of the words: 16
    Extra,     \* bits of the register above it: 4
    RowBits,   \* HTAB_ENTRIES is 2^RowBits
    Length     \* words that are hashed: fid and 3 of the MAC address

ConstantsOK == {Degree, Extra, RowBits, Length} \subseteq Nat \ {0} /\ RowBits =< Degree

Words == SUBSET (0 .. Degree - 1)
Ones == 0 .. Degree - 1                     \* 0xFFFF
Top == Degree + Extra - 1                   \* the bit of 0x80000
Rounds == Degree + Extra                    \* 20

Xor(a, b) == (a \ b) \cup (b \ a)
Shift(a, n) == {i + n : i \in a}

VARIABLES
    poly,       \* rtu_hash_set_poly(): without its term of the highest degree
    message,    \* fid and the words of the MAC address
    done,       \* words hashed
    remainder,  \* of crc16()
    bit

vars == <<poly, message, done, remainder, bit>>

\* rtu_hash_set_poly()
hash_poly == Shift(poly \cup {Degree}, Extra - 1)

\* crc16() is called with the first word.
Init ==
    /\ poly \in Words
    /\ message \in [1 .. Length -> Words]
    /\ done = 0
    /\ remainder = Xor(message[1], Ones)
    /\ bit = Rounds

\* Fault: the register is one bit short of the top bit at the end.
Round_Stops ==
    /\ bit > 1
    /\ remainder' = Shift(IF Top \in remainder THEN Xor(remainder, hash_poly) ELSE remainder, 1)
    /\ bit' = IF bit = 2 THEN 0 ELSE bit - 1
    /\ UNCHANGED <<poly, message, done>>

\* One round of the loop.
Round ==
    /\ bit > 0
    /\ remainder' = Shift(IF Top \in remainder THEN Xor(remainder, hash_poly) ELSE remainder, 1)
    /\ bit' = bit - 1
    /\ UNCHANGED <<poly, message, done>>

\* What crc16() returns: 16 of the bits above the fourth.
Result == {i - Extra : i \in {j \in remainder : j >= Extra}} \cap Ones

\* rtu_hash(): the next word is hashed from where the last one ended.
NextWord ==
    /\ bit = 0 /\ done < Length
    /\ done' = done + 1
    /\ IF done' < Length
       THEN /\ remainder' = Xor(message[done' + 1], Result)
            /\ bit' = Rounds
       ELSE remainder' = Result /\ UNCHANGED bit
    /\ UNCHANGED <<poly, message>>

Next == Round \/ NextWord

Spec == Init /\ [][Next]_vars

-----------------------------------------------------------------------------
\* The register is 32 bits wide; the loop needs one above the top bit.
TypeOK ==
    /\ poly \in Words
    /\ message \in [1 .. Length -> Words]
    /\ done \in 0 .. Length
    /\ remainder \subseteq 0 .. Top
    /\ bit \in 0 .. Rounds

\* Multiplication of polynomials over the field of two elements.
Product(a, b) ==
    {k \in 0 .. (Length + 1) * Degree :
        Cardinality({i \in a : k - i \in b}) % 2 = 1}

\* The message as one polynomial, the first word in the highest place, with
\* its first word inverted, as 0xFFFF as the initial value does.
Dividend ==
    UNION {Shift(IF n = 1 THEN Xor(message[n], Ones) ELSE message[n],
                 (Length - n + 1) * Degree) : n \in 1 .. Length}

\* rtu_hash() masks the low bits.
Row(crc) == crc \cap 0 .. RowBits - 1

\* The row is that of the remainder of the message divided by the polynomial,
\* as the gateware computes it ("C code to produce exactly the same CRC as
\* VHDL"), whatever polynomial the daemon was told to use.
HashIsRemainder ==
    done = Length =>
        \E quotient \in SUBSET (0 .. Length * Degree - 1) :
            LET rest == Xor(Dividend, Product(quotient, poly \cup {Degree}))
            IN  rest \subseteq Ones /\ Row(rest) = Row(remainder)
=============================================================================
