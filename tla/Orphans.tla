------------------------------ MODULE Orphans ------------------------------
(***************************************************************************)
(* setOrphans(db, limit): the WITH RECURSIVE walk from the highest blocks  *)
(* back along prevhash = hash, and the UPDATE that marks every block the   *)
(* walk does not reach as orphan.  Blocks are rows [id, height, hash,      *)
(* prev, orphan] (prev is the prevhash column).                            *)
(***************************************************************************)
EXTENDS Integers, Sequences, SequencesExt

\* The anchor of the recursion: WHERE height IN (SELECT height FROM blocks
\* ORDER BY height DESC LIMIT 1), i.e. every row at the greatest height.
Tips(rows) == {r \in Range(rows) : \A q \in Range(rows) : q.height <= r.height}

\* Mutant: the recursive join turned around (recur.hash = blocks.prevhash),
\* which walks to children instead of parents.
RECURSIVE WalkToChildren(_, _, _, _)
WalkToChildren(rows, frontier, n, limit) ==
    IF frontier = {} \/ (limit > 0 /\ n >= limit) THEN frontier
    ELSE LET children == {p \in Range(rows) :
                            \E r \in frontier : p.prev = r.hash}
         IN  frontier \cup WalkToChildren(rows, children, n + 1, limit)

\* The recursive term: rows whose hash is the prevhash of a row reached at
\* depth n; "WHERE n < limit" stops expanding at depth limit when limit > 0.
RECURSIVE Walk(_, _, _, _)
Walk(rows, frontier, n, limit) ==
    IF frontier = {} \/ (limit > 0 /\ n >= limit) THEN frontier
    ELSE LET parents == {p \in Range(rows) :
                           \E r \in frontier : p.hash = r.prev}
         IN  frontier \cup Walk(rows, parents, n + 1, limit)

\* The ids of recur, the rows reachable from the tips.
Reached(rows, limit) == {r.id : r \in Walk(rows, Tips(rows), 0, limit)}

\* UPDATE blocks SET orphan = (x.id IS NULL): every row's orphan flag is
\* rewritten, not only set.
SetOrphans(rows, limit) ==
    LET x == Reached(rows, limit)
    IN  [k \in DOMAIN rows |-> [rows[k] EXCEPT !.orphan = rows[k].id \notin x]]

=============================================================================
