---------------------------- MODULE MCPipeline -----------------------------
(* Block streams for model checking Pipeline.  Hashes are short strings;   *)
(* "z" is the all-zero hash a coinbase input names.                        *)
EXTENDS Pipeline

Coinbase == [ph |-> "z", pn |-> CoinbaseN]
Spend(h) == [ph |-> h, pn |-> 0]
T(h, in) == [hash |-> h, ins |-> <<in>>, nouts |-> 1]
B(h, p, ht, txs) == [hash |-> h, prev |-> p, height |-> ht, txs |-> txs]

\* A genesis, a stale sibling fed before the block that wins height 1, a
\* block whose second tx spends the genesis coinbase, and a block whose
\* coinbase repeats the txid of an earlier coinbase (as blocks 91842/91880
\* of the real chain do).
ForkDupBlocks ==
    << B("b1", "b0", 0, <<T("t1", Coinbase)>>),
       B("b2x", "b1", 1, <<T("t4", Coinbase)>>),
       B("b2", "b1", 1, <<T("t2", Coinbase), T("t3", Spend("t1"))>>),
       B("b3", "b2", 2, <<T("t2", Coinbase)>>) >>

\* A plain chain: no fork, no repeated txid; b2 spends the genesis coinbase.
ChainBlocks ==
    << B("b1", "b0", 0, <<T("t1", Coinbase)>>),
       B("b2", "b1", 1, <<T("t2", Coinbase), T("t3", Spend("t1"))>>),
       B("b3", "b2", 2, <<T("t5", Coinbase)>>) >>

U(h, n) == [txid |-> h, n |-> n]

\* The UTXO stream: none, or two outputs with a commit signal between them,
\* whose txs are both stored.
NoUTXOs == <<>>
CommitUTXOs == << U("t1", 0), Nil, U("t2", 0) >>
\* One output of a stored tx, committed when utxoCh closes.
OneUTXO == << U("t1", 0) >>

=============================================================================
