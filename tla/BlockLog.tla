------------------------------ MODULE BlockLog ------------------------------
(***************************************************************************)
(* What the loader promises of the blocks table, however its runs are      *)
(* interleaved, crash or resume: the table is always the caller's block    *)
(* stream read from its start, each block once and numbered by its         *)
(* position in the stream, and it only ever grows by later blocks.         *)
(***************************************************************************)
EXTENDS Integers, Sequences

CONSTANT Stream     \* the block hashes, in the order the caller hands them over

VARIABLE table      \* the blocks table: a sequence of [id, hash] rows

\* The table holding the first n blocks of the stream.
Prefix(n) == [k \in 1..n |-> [id |-> k, hash |-> Stream[k]]]

Init == table = <<>>

\* A commit adds one or more of the next blocks.
Grow == \E n \in Len(table) + 1..Len(Stream) : table' = Prefix(n)

Spec == Init /\ [][Grow]_table

=============================================================================
