----------------------------- MODULE MCOrphans -----------------------------
(***************************************************************************)
(* Checks setOrphans (module Orphans) against reachability.  A state holds *)
(* a blocks table of three rows with any heights, any prevhash links that  *)
(* a chain can store (a parent is one height lower, or is not loaded) and  *)
(* any old orphan flags; the one step is the UPDATE of setOrphans.         *)
(***************************************************************************)
EXTENDS Orphans, FiniteSets

CONSTANTS Limits    \* the limit arguments tried

Rel == INSTANCE Relation

Hs == {"a", "b", "c"}
Id == [a |-> 1, b |-> 2, c |-> 3]

VARIABLES blocks,   \* the table before setOrphans
          limit,    \* its argument
          out       \* the table after it, or <<>> before it ran

vars == <<blocks, limit, out>>

Init ==
    \E h \in [Hs -> 0..2], p \in [Hs -> Hs \cup {"z"}], o \in [Hs -> BOOLEAN] :
        /\ \A x \in Hs : p[x] # "z" => h[p[x]] = h[x] - 1
        /\ blocks = [k \in 1..3 |->
                       LET x == CHOOSE y \in Hs : Id[y] = k
                       IN  [id |-> k, hash |-> x, prev |-> p[x],
                            height |-> h[x], orphan |-> o[x]]]
        /\ limit \in Limits
        /\ out = <<>>

Mark == out = <<>> /\ out' = SetOrphans(blocks, limit) /\ UNCHANGED <<blocks, limit>>

Spec == Init /\ [][Mark]_vars

\* x is y or an ancestor of y along prevhash links.
Parent == [x, y \in Range(blocks) |-> x.hash = y.prev]
AncestorOrSelf == Rel!ReflexiveTransitiveClosure(Parent, Range(blocks))
OnTipChain(x) ==
    \E t \in Range(blocks) :
        /\ \A q \in Range(blocks) : q.height <= t.height
        /\ AncestorOrSelf[x, t]

\* The walk of setOrphans(db, 0), as the loader calls it, marks exactly the
\* blocks that are neither a highest block nor an ancestor of one, and
\* clears the flag of every other block, whatever it was before.
OrphanIffOffTipChains ==
    out # <<>> => \A k \in DOMAIN out : out[k].orphan = ~OnTipChain(blocks[k])

=============================================================================
