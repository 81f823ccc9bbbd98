------------------------------- MODULE Bytes -------------------------------
(***************************************************************************)
(* Bytes of ByteBase values and the four-byte lengths that                 *)
(* common/src/fingerprint.cpp and common/src/tpm_linux.cpp put before      *)
(* data.                                                                   *)
(***************************************************************************)
EXTENDS Integers, SequencesExt

CONSTANT ByteBase   \* values of a byte, 256 in the code

ASSUME ByteBaseAssumption == ByteBase \in Nat \ {0, 1}

Refused == [ok |-> FALSE]
Accepted(value) == [ok |-> TRUE, value |-> value]

\* What uint32_t arithmetic makes of n.
Word == ByteBase * ByteBase * ByteBase * ByteBase
UInt32(n) == n % Word

\* write_len32 and push32: the most significant byte first.
WriteLen32(n) ==
    LET shifted == n \div ByteBase
        twice == shifted \div ByteBase
    IN  <<(twice \div ByteBase) % ByteBase, twice % ByteBase, shifted % ByteBase, n % ByteBase>>

\* get32, at a position counted from 0.
ReadLen32(bytes, at) ==
    ((bytes[at + 1] * ByteBase + bytes[at + 2]) * ByteBase + bytes[at + 3]) * ByteBase
        + bytes[at + 4]
=============================================================================
