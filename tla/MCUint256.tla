----------------------------- MODULE MCUint256 -----------------------------
(***************************************************************************)
(* Checks Uint256.String against an independent definition: the value the  *)
(* bytes stand for read little-endian (byte 0 least significant, as block  *)
(* and tx hashes are stored), written as a base-16 numeral of exactly      *)
(* 2 * Width digits.  The state is one Uint256; every byte may be set to   *)
(* any value of Bytes, so every array over Bytes is reached, and it may be *)
(* replaced by ShaSha256 of its own bytes, with a stand-in for SHA-256     *)
(* whose digests are arrays over Bytes.                                    *)
(***************************************************************************)
EXTENDS Uint256

LOCAL INSTANCE SequencesExt

CONSTANT Bytes      \* the byte values tried: the nibble edges 0, 9, 10, 15, 16, 255

ASSUME Bytes \subseteq 0..255

VARIABLE u

Init == u = [i \in 0..Width - 1 |-> 0]

SetByte == \E i \in 0..Width - 1, b \in Bytes : u' = [u EXCEPT ![i] = b]

\* A stand-in for sha256.Sum256: each digest byte is an element of Bytes
\* picked by a running mix of the input bytes and the byte's index.
ToySum256(b) ==
    LET bs == SetToSortSeq(Bytes, <)
    IN  [i \in 0..Width - 1 |->
           bs[1 + (FoldLeft(LAMBDA acc, x : (acc * 31 + x + i) % 1009, 7, b) % Len(bs))]]

\* u := ShaSha256(u[:]), the hash of a hash's bytes, as block hashes are.
Hash == u' = ShaSha256(Slice(u))

Spec == Init /\ [][SetByte \/ Hash]_u

\* The number the array stands for, least significant byte first.
RECURSIVE ValueFrom(_, _)
ValueFrom(v, i) == IF i < Width THEN v[i] + 256 * ValueFrom(v, i + 1) ELSE 0

\* The n-digit hex numeral of x, most significant digit first.
RECURSIVE Numeral(_, _)
Numeral(x, n) ==
    IF n = 0 THEN <<>> ELSE Numeral(x \div 16, n - 1) \o <<HexDigit[(x % 16) + 1]>>

\* String() prints the hash the way it is displayed: the big-endian,
\* zero-padded hex numeral of the little-endian value, so the byte order
\* reversal of the u[31-i] loop and the "%02x" padding are both right.
StringIsHexOfValue == String(u) = Numeral(ValueFrom(u, 0), 2 * Width)

=============================================================================
