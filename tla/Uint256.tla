------------------------------ MODULE Uint256 ------------------------------
(***************************************************************************)
(* Uint256 of src/uint256.go: a [32]byte array and its String() method,   *)
(* which prints the bytes from the last to the first, each as two          *)
(* lower-case hex digits.  The array length is the constant Width (32 in   *)
(* the code); the loop does the same thing at every width.  A string is a  *)
(* sequence of one-character strings.  ShaSha256 is the double SHA-256 of  *)
(* a byte slice; SHA-256 itself, sha256.Sum256, is the constant operator   *)
(* Sum256, which a model supplies.                                         *)
(***************************************************************************)
EXTENDS Integers, Sequences

CONSTANTS Width,     \* len(Uint256), 32 in the code
          Sum256(_)  \* sha256.Sum256: a byte sequence to its Uint256 digest

ASSUME Width \in Nat \ {0}

\* type Uint256 [32]byte: a function from the indices 0..Width-1 to bytes.
Uint256s(Bytes) == [0..Width - 1 -> Bytes]

HexDigit == <<"0", "1", "2", "3", "4", "5", "6", "7",
              "8", "9", "a", "b", "c", "d", "e", "f">>

\* Mutant: "%x", which prints a byte below 16 as a single digit.
Hex02Unpadded(b) ==
    IF b < 16 THEN <<HexDigit[b + 1]>>
    ELSE <<HexDigit[(b \div 16) + 1], HexDigit[(b % 16) + 1]>>

\* fmt.Sprintf("%02x", b): high nibble, then low nibble, zero-padded.
Hex02(b) == <<HexDigit[(b \div 16) + 1], HexDigit[(b % 16) + 1]>>

\* for i := 0; i < 32; i++ { s += fmt.Sprintf("%02x", u[31-i]) }
RECURSIVE Loop(_, _, _)
Loop(u, i, s) ==
    IF i < Width THEN Loop(u, i + 1, s \o Hex02(u[Width - 1 - i])) ELSE s

\* func (u Uint256) String() (s string): s starts empty.
String(u) == Loop(u, 0, <<>>)

\* first[:]: the slice of a digest array, its bytes in index order.
Slice(a) == [k \in 1..Width |-> a[k - 1]]

\* func ShaSha256(b []byte) Uint256: Sum256 of the slice of Sum256(b).
ShaSha256(b) == Sum256(Slice(Sum256(b)))

=============================================================================
