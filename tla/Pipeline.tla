------------------------------ MODULE Pipeline ------------------------------
(***************************************************************************)
(* The block ingestion pipeline of PGWriter: the caller feeding            *)
(* WriteBlockInfo and calling Close, the coordinator pgBlockWorker (resume *)
(* and skip mode, id minting, cache dedupe, fan-out, commit signals, the   *)
(* sync handshake of synchronous mode, shutdown and the fixup sequence),   *)
(* and the four COPY writers pgBlockWriter, pgTxWriter, pgTxInWriter and   *)
(* pgTxOutWriter, each with its own bounded channel and open stream.  The  *)
(* store, and the process itself, outlive a run: a crash loses the open    *)
(* streams, channels and cache, and a restart resumes from what committed. *)
(***************************************************************************)
EXTENDS Integers, Sequences, SequencesExt, FiniteSets

CONSTANTS
    Blocks,       \* the block stream the caller reads, in order
    UTXOs,        \* the UTXO stream the caller writes: [txid, n] records or Nil
    CacheSize,    \* capacity of the tx-id cache
    ChanCap,      \* capacity of every channel (64 in the code)
    CommitEvery,  \* deferred mode commits when bid % CommitEvery = 0 (50 in the code)
    MaxRuns,      \* bound on process starts
    Crashes,      \* whether the process may die at any point
    ResumeErrors, \* whether the resume-point queries of pgBlockWorker may fail
    FeedsAll,     \* whether the caller hands over its whole stream before Close
    CoinbaseN,    \* prevout_n 0xffffffff of a coinbase input
    Null,         \* SQL NULL / nil pointer
    Nil           \* the nil record that tells a writer to commit

\* A block is [hash, prev, height, txs]; a tx is [hash, ins, nouts]; an input
\* is [ph, pn], the prevout hash and index.  Blocks always carry a tx and txs
\* always carry an input and an output.
ASSUME /\ \A k \in DOMAIN Blocks : Blocks[k].txs # <<>>
       /\ \A k \in DOMAIN Blocks : \A i \in DOMAIN Blocks[k].txs :
             Blocks[k].txs[i].ins # <<>> /\ Blocks[k].txs[i].nouts > 0
ASSUME ChanCap \in Nat \ {0} /\ CommitEvery \in Nat \ {0} /\ MaxRuns \in Nat
ASSUME Crashes \in BOOLEAN /\ ResumeErrors \in BOOLEAN /\ FeedsAll \in BOOLEAN

INSTANCE PGStore
INSTANCE TxIdCache
INSTANCE Orphans

\* The four writers of pgBlockWorker and the streams each owns, in the
\* order its commits run.
W == {"block", "tx", "txin", "txout"}
Streams == [block |-> <<"blocks">>, tx |-> <<"txs", "block_txs">>,
            txin |-> <<"txins">>, txout |-> <<"txouts">>]

VARIABLES
    db, tables, cons,   \* the store: table contents, whether the schema exists, keys
    runs,               \* process starts so far
    co,                 \* coordinator: [pc, blk, i, j, rid, pend]
    deferred,           \* deferredIndexes of this run
    bid, txid,          \* the coordinator's id counters
    lastHash,           \* hash skip mode looks for, or Null
    fed, inCh, inClosed,\* caller: blocks handed over, blockCh, Close called
    cache, miss,        \* idCache and its miss counter
    ch, chClosed,       \* the writer channels and whether they are closed
    buf,                \* the rows appended to each table's open stream
    done,               \* writers that have left their loop (writerWg)
    ack,                \* a writer's send on the unbuffered syncCh
    rejected,           \* history: some commit was refused by a foreign key
    ufed, uCh,          \* caller: UTXOs handed over, utxoCh
    uOpen, uDone,       \* pgUTXOWriter: a stream is open, it has returned
    utmp                \* utxos_tmp of a linkUTXOs in progress, or Null

utxoVars == <<ufed, uCh, uOpen, uDone, utmp>>
vars == <<db, tables, cons, runs, co, deferred, bid, txid, lastHash, fed,
          inCh, inClosed, cache, miss, ch, chClosed, buf, done, ack, rejected,
          utxoVars>>

pc == co.pc
Tx(b, i) == Blocks[b].txs[i]
NoCo == [pc |-> "stopped", blk |-> 1, i |-> 1, j |-> 1, rid |-> 0, pend |-> <<>>]
NoStreams == [t \in Tables |-> <<>>]
NoChannels == [w \in W |-> <<>>]

\* No goroutine of the process runs: it has died, or pgBlockWorker (having
\* finished or exited at its prologue) and pgUTXOWriter have both returned.
Stopped == pc = "stopped" \/ (pc \in {"done", "exited"} /\ uDone)

Init ==
    /\ db = EmptyDB /\ tables = FALSE /\ cons = {}
    /\ runs = 0 /\ co = NoCo /\ deferred = TRUE /\ bid = 0 /\ txid = 0
    /\ lastHash = Null /\ fed = 0 /\ inCh = <<>> /\ inClosed = FALSE
    /\ cache = EmptyCache /\ miss = 0 /\ ch = NoChannels /\ chClosed = FALSE
    /\ buf = NoStreams /\ done = {} /\ ack = FALSE /\ rejected = FALSE
    /\ ufed = 0 /\ uCh = <<>> /\ uOpen = FALSE /\ uDone = FALSE /\ utmp = Null

-----------------------------------------------------------------------------
(* Process start and crash                                                  *)

\* The prologue of pgBlockWorker: getLastHashAndHeight and getLastTxId give
\* the resume point, and skip mode is entered when a last hash exists.
\* When either query fails, pgBlockWorker logs, returns (wg.Done) and never
\* starts its writers or reads blockCh.
ResumePoint ==
    \/ /\ \E last \in LastHashAndHeight(db) :
          /\ bid' = last.id
          /\ lastHash' = last.hash
          /\ co' = [NoCo EXCEPT !.pc = IF last.hash # Null THEN "skip" ELSE "recv"]
       /\ txid' = LastTxId(db)
    \/ /\ ResumeErrors
       /\ co' = [NoCo EXCEPT !.pc = "exited"]
       /\ UNCHANGED <<bid, lastHash, txid>>

\* NewPGWriter: createTables either creates the bare tables (deferred mode)
\* or reports "already exists" (synchronous mode); then pgBlockWorker runs
\* its prologue, opens the four writers' streams and creates the cache; the
\* UTXO writer starts beside it with its stream open.  A new process starts
\* once the previous one has died or its Close has returned.
Start ==
    /\ Stopped
    /\ runs < MaxRuns
    /\ ResumePoint
    /\ deferred' = ~tables /\ tables' = TRUE
    /\ runs' = runs + 1
    /\ fed' = 0 /\ inCh' = <<>> /\ inClosed' = FALSE
    /\ cache' = EmptyCache /\ miss' = 0
    /\ ch' = NoChannels /\ chClosed' = FALSE /\ buf' = NoStreams
    /\ done' = {} /\ ack' = FALSE
    /\ ufed' = 0 /\ uCh' = <<>> /\ uOpen' = TRUE /\ uDone' = FALSE /\ utmp' = Null
    /\ UNCHANGED <<db, cons, rejected>>

\* The process dies: every uncommitted stream, channel and the cache are lost.
Crash ==
    /\ Crashes /\ ~Stopped
    /\ co' = NoCo /\ inCh' = <<>> /\ ch' = NoChannels /\ buf' = NoStreams
    /\ cache' = EmptyCache /\ ack' = FALSE /\ chClosed' = FALSE /\ done' = {}
    /\ uCh' = <<>> /\ uOpen' = FALSE /\ uDone' = FALSE /\ utmp' = Null
    /\ UNCHANGED <<db, tables, cons, runs, deferred, bid, txid, lastHash, fed,
                   inClosed, miss, rejected, ufed>>

-----------------------------------------------------------------------------
(* The caller                                                               *)

WriteBlockInfo ==
    /\ pc # "stopped" /\ ~inClosed
    /\ fed < Len(Blocks) /\ Len(inCh) < ChanCap
    /\ inCh' = Append(inCh, fed + 1) /\ fed' = fed + 1
    /\ UNCHANGED <<db, tables, cons, runs, co, deferred, bid, txid, lastHash,
                   inClosed, cache, miss, ch, chClosed, buf, done, ack, rejected, utxoVars>>

WriteUTXO ==
    /\ pc # "stopped" /\ ~inClosed
    /\ ufed < Len(UTXOs) /\ Len(uCh) < ChanCap
    /\ uCh' = Append(uCh, UTXOs[ufed + 1]) /\ ufed' = ufed + 1
    /\ UNCHANGED <<db, tables, cons, runs, co, deferred, bid, txid, lastHash, fed,
                   inCh, inClosed, cache, miss, ch, chClosed, buf, done, ack,
                   rejected, uOpen, uDone, utmp>>

\* Close closes blockCh and then utxoCh; nothing runs between the two.  A
\* caller that feeds its whole stream first calls it only after its last
\* WriteBlockInfo has returned.
Close ==
    /\ pc # "stopped" /\ ~inClosed
    /\ FeedsAll => fed = Len(Blocks)
    /\ inClosed' = TRUE
    /\ UNCHANGED <<db, tables, cons, runs, co, deferred, bid, txid, lastHash,
                   fed, inCh, cache, miss, ch, chClosed, buf, done, ack, rejected, utxoVars>>

-----------------------------------------------------------------------------
(* The coordinator, pgBlockWorker                                           *)

Send(w, m) == Len(ch[w]) < ChanCap /\ ch' = [ch EXCEPT ![w] = Append(@, m)]

\* Where the coordinator goes after the last tx of a block: synchronous mode
\* commits ins and outs after every block, deferred mode all four streams
\* every CommitEvery blocks.
EndOfBlock(c) ==
    IF ~deferred THEN [c EXCEPT !.pc = "commit", !.pend = <<"txin", "txout">>]
    ELSE IF bid % CommitEvery = 0
    THEN [c EXCEPT !.pc = "commit", !.pend = <<"block", "tx", "txin", "txout">>]
    ELSE [c EXCEPT !.pc = "recv"]

NextTx(c) == IF c.i < Len(Blocks[c.blk].txs)
             THEN [c EXCEPT !.pc = "tx", !.i = c.i + 1]
             ELSE EndOfBlock(c)

\* After the tx record is sent (and, in synchronous mode, committed): a dupe
\* is skipped, otherwise its inputs and outputs are sent.
\* Mutant: the `continue` also skips the ins/outs of a new tx.
AfterTxSkipsInsOuts(c, dupe) == NextTx(c)

AfterTx(c, dupe) == IF dupe THEN NextTx(c) ELSE [c EXCEPT !.pc = "in", !.j = 1]

\* Mutant: the stored hash never compares equal, so skip mode never ends.
SkipBlockNeverMatches ==
    /\ pc = "skip" /\ inCh # <<>>
    /\ inCh' = Tail(inCh)
    /\ UNCHANGED <<db, tables, cons, runs, co, deferred, bid, txid, lastHash, fed,
                   inClosed, cache, miss, ch, chClosed, buf, done, ack, rejected, utxoVars>>

\* The skip loop: drain blocks up to and including the one with lastHash.
SkipBlock ==
    /\ pc = "skip" /\ inCh # <<>>
    /\ inCh' = Tail(inCh)
    /\ co' = [co EXCEPT !.pc = IF Blocks[Head(inCh)].hash = lastHash
                               THEN "recv" ELSE "skip"]
    /\ UNCHANGED <<db, tables, cons, runs, deferred, bid, txid, lastHash, fed,
                   inClosed, cache, miss, ch, chClosed, buf, done, ack, rejected, utxoVars>>

\* Mutant: the bid++ left out.
RecvBlockNoIncrement ==
    /\ pc = "recv" /\ inCh # <<>>
    /\ co' = [co EXCEPT !.pc = "block", !.blk = Head(inCh)]
    /\ inCh' = Tail(inCh)
    /\ UNCHANGED <<db, tables, cons, runs, deferred, bid, txid, lastHash, fed,
                   inClosed, cache, miss, ch, chClosed, buf, done, ack, rejected, utxoVars>>

\* bid++ for every block taken from the input.
RecvBlock ==
    /\ pc = "recv" /\ inCh # <<>>
    /\ bid' = bid + 1
    /\ co' = [co EXCEPT !.pc = "block", !.blk = Head(inCh)]
    /\ inCh' = Tail(inCh)
    /\ UNCHANGED <<db, tables, cons, runs, deferred, txid, lastHash, fed,
                   inClosed, cache, miss, ch, chClosed, buf, done, ack, rejected, utxoVars>>

\* Mutant: the coordinator does not wait for the block to commit.
SendBlockNoWait ==
    /\ pc = "block"
    /\ Send("block", [id |-> bid, blk |-> co.blk, sync |-> ~deferred])
    /\ co' = [co EXCEPT !.pc = "tx", !.i = 1]
    /\ UNCHANGED <<db, tables, cons, runs, deferred, bid, txid, lastHash, fed,
                   inCh, inClosed, cache, miss, chClosed, buf, done, ack, rejected, utxoVars>>

SendBlock ==
    /\ pc = "block"
    /\ Send("block", [id |-> bid, blk |-> co.blk, sync |-> ~deferred])
    /\ co' = [co EXCEPT !.pc = IF deferred THEN "tx" ELSE "waitBlock", !.i = 1]
    /\ UNCHANGED <<db, tables, cons, runs, deferred, bid, txid, lastHash, fed,
                   inCh, inClosed, cache, miss, chClosed, buf, done, ack, rejected, utxoVars>>

\* txid++, recentId := idCache.add(hash, txid, len(TxOuts)), send the txRec.
SendTx ==
    /\ pc = "tx"
    /\ LET t == Tx(co.blk, co.i)
           r == CacheAdd(cache, t.hash, txid + 1, t.nouts)
           dupe == r.ret # txid + 1
       IN  /\ Send("tx", [id |-> r.ret, blockId |-> bid, n |-> co.i - 1,
                          blk |-> co.blk, i |-> co.i, sync |-> ~deferred,
                          dupe |-> dupe])
           /\ txid' = txid + 1
           /\ cache' = r.cache
           /\ co' = IF deferred THEN AfterTx([co EXCEPT !.rid = r.ret], dupe)
                    ELSE [co EXCEPT !.pc = "waitTx", !.rid = r.ret]
    /\ UNCHANGED <<db, tables, cons, runs, deferred, bid, lastHash, fed,
                   inCh, inClosed, miss, chClosed, buf, done, ack, rejected, utxoVars>>

\* <-syncCh: the writer has committed the record just sent.
WaitSync ==
    /\ pc \in {"waitBlock", "waitTx"} /\ ack
    /\ ack' = FALSE
    /\ co' = IF pc = "waitBlock" THEN [co EXCEPT !.pc = "tx"]
             ELSE AfterTx(co, co.rid # txid)
    /\ UNCHANGED <<db, tables, cons, runs, deferred, bid, txid, lastHash, fed,
                   inCh, inClosed, cache, miss, ch, chClosed, buf, done, rejected, utxoVars>>

SendTxIn ==
    /\ pc = "in"
    /\ Send("txin", [txId |-> txid, n |-> co.j - 1, blk |-> co.blk, i |-> co.i])
    /\ co' = IF co.j < Len(Tx(co.blk, co.i).ins)
             THEN [co EXCEPT !.j = @ + 1]
             ELSE [co EXCEPT !.pc = "out", !.j = 1]
    /\ UNCHANGED <<db, tables, cons, runs, deferred, bid, txid, lastHash, fed,
                   inCh, inClosed, cache, miss, chClosed, buf, done, ack, rejected, utxoVars>>

SendTxOut ==
    /\ pc = "out"
    /\ Send("txout", [txId |-> txid, n |-> co.j - 1])
    /\ co' = IF co.j < Tx(co.blk, co.i).nouts
             THEN [co EXCEPT !.j = @ + 1]
             ELSE NextTx(co)
    /\ UNCHANGED <<db, tables, cons, runs, deferred, bid, txid, lastHash, fed,
                   inCh, inClosed, cache, miss, chClosed, buf, done, ack, rejected, utxoVars>>

\* One of the nil commit signals of the end of a block.
SendCommit ==
    /\ pc = "commit"
    /\ Send(Head(co.pend), Nil)
    /\ co' = IF Len(co.pend) = 1 THEN [co EXCEPT !.pc = "recv", !.pend = <<>>]
             ELSE [co EXCEPT !.pend = Tail(@)]
    /\ UNCHANGED <<db, tables, cons, runs, deferred, bid, txid, lastHash, fed,
                   inCh, inClosed, cache, miss, chClosed, buf, done, ack, rejected, utxoVars>>

\* The input is closed and drained (in skip mode too: the range loop then
\* sees the closed channel at once): close the four writer channels.
\* Mutant: the writer channels are never closed.
CloseWritersLeavesOpen ==
    /\ pc \in {"skip", "recv"} /\ inCh = <<>> /\ inClosed
    /\ co' = [co EXCEPT !.pc = "wait"]
    /\ UNCHANGED <<db, tables, cons, runs, deferred, bid, txid, lastHash, fed,
                   inCh, inClosed, cache, miss, ch, chClosed, buf, done, ack, rejected, utxoVars>>

CloseWriters ==
    /\ pc \in {"skip", "recv"} /\ inCh = <<>> /\ inClosed
    /\ chClosed' = TRUE
    /\ co' = [co EXCEPT !.pc = "wait"]
    /\ UNCHANGED <<db, tables, cons, runs, deferred, bid, txid, lastHash, fed,
                   inCh, inClosed, cache, miss, ch, buf, done, ack, rejected, utxoVars>>

-----------------------------------------------------------------------------
(* The writers                                                              *)

\* Commit every stream of writer w, with the rows nb holds for them, in
\* order; each commit is all-or-nothing; every stream is begun afresh.
RECURSIVE CommitAll(_, _, _)
CommitAll(d, ts, nb) ==
    IF ts = <<>> THEN d
    ELSE CommitAll(CommitTable(d, cons, Head(ts), nb[Head(ts)]), Tail(ts), nb)

Commit(w, nb) ==
    LET ts == Streams[w]
        nd == CommitAll(db, ts, nb)
    IN  /\ db' = nd
        /\ rejected' = (rejected \/ \E k \in DOMAIN ts :
                          ForeignRefused(CommitAll(db, SubSeq(ts, 1, k - 1), nb),
                                         cons, ts[k], nb[ts[k]]))
        /\ buf' = [t \in Tables |-> IF t \in Range(ts) THEN <<>> ELSE nb[t]]

\* A record: its rows go into the open streams; a record carrying syncCh is
\* committed at once and acknowledged.  A nil commits the streams.
\* Mutant: the writer commits a sync record but never signals syncCh.
HandleNoAck(w, m, nb) ==
    IF m = Nil THEN Commit(w, buf) /\ UNCHANGED ack
    ELSE IF w \in {"block", "tx"} /\ m.sync THEN Commit(w, nb) /\ UNCHANGED ack
    ELSE buf' = nb /\ UNCHANGED <<db, ack, rejected>>

Handle(w, m, nb) ==
    IF m = Nil THEN Commit(w, buf) /\ UNCHANGED ack
    ELSE IF w \in {"block", "tx"} /\ m.sync THEN Commit(w, nb) /\ ack' = TRUE
    ELSE buf' = nb /\ UNCHANGED <<db, ack, rejected>>

Receive(w) == w \notin done /\ ch[w] # <<>> /\ ch' = [ch EXCEPT ![w] = Tail(@)]

\* Mutant: the id and height arguments of stmt.Exec swapped.
BlockRowIdHeightSwapped(m) ==
    [id |-> Blocks[m.blk].height, height |-> m.id,
     hash |-> Blocks[m.blk].hash, prev |-> Blocks[m.blk].prev, orphan |-> FALSE]

BlockRow(m) == [id |-> m.id, height |-> Blocks[m.blk].height,
                hash |-> Blocks[m.blk].hash, prev |-> Blocks[m.blk].prev,
                orphan |-> FALSE]

pgBlockWriter ==
    /\ Receive("block")
    /\ LET m == Head(ch.block)
       IN  Handle("block", m,
                  IF m = Nil THEN buf
                  ELSE [buf EXCEPT !.blocks = Append(@, BlockRow(m))])
    /\ UNCHANGED <<tables, cons, runs, co, deferred, bid, txid, lastHash, fed,
                   inCh, inClosed, cache, miss, chClosed, done, utxoVars>>

TxRow(m) == [id |-> m.id, txid |-> Tx(m.blk, m.i).hash]
\* Mutant: positions stored 1-based.
BlockTxRowOneBased(m) == [block_id |-> m.blockId, n |-> m.n + 1, tx_id |-> m.id]
BlockTxRow(m) == [block_id |-> m.blockId, n |-> m.n, tx_id |-> m.id]

\* Mutants: the `if !tr.dupe` guard dropped; a dupe written to neither table.
TxRowsDupeInserted(b, m) ==
    [b EXCEPT !.txs = Append(@, TxRow(m)), !.block_txs = Append(@, BlockTxRow(m))]
TxRowsDupeUnlinked(b, m) ==
    IF m.dupe THEN b
    ELSE [b EXCEPT !.txs = Append(@, TxRow(m)), !.block_txs = Append(@, BlockTxRow(m))]

\* The rows a txRec appends: a dupe only adds its block_txs row, so the txs
\* row of a txid is written once.
TxRows(b, m) ==
    [b EXCEPT !.txs = IF m.dupe THEN @ ELSE Append(@, TxRow(m)),
              !.block_txs = Append(@, BlockTxRow(m))]

pgTxWriter ==
    /\ Receive("tx")
    /\ LET m == Head(ch.tx)
       IN  Handle("tx", m, IF m = Nil THEN buf ELSE TxRows(buf, m))
    /\ UNCHANGED <<tables, cons, runs, co, deferred, bid, txid, lastHash, fed,
                   inCh, inClosed, cache, miss, chClosed, done, utxoVars>>

\* int32(t.PrevOut.N): the coinbase index 0xffffffff is stored as -1, the
\* small indices of the model are unchanged.
\* Mutant: prevout_n stored without the int32 conversion.
Int32Unconverted(pn) == pn

Int32(pn) == IF pn = CoinbaseN THEN -1 ELSE pn

\* A non-coinbase input resolves prevout_tx_id with idCache.check.
pgTxInWriter ==
    /\ Receive("txin")
    /\ LET m == Head(ch.txin)
       IN  IF m = Nil
           THEN Handle("txin", m, buf) /\ UNCHANGED <<cache, miss>>
           ELSE LET in == Tx(m.blk, m.i).ins[m.n + 1]
                    cb == in.pn = CoinbaseN
                    r  == CacheCheck(cache, in.ph)
                    row == [tx_id |-> m.txId, n |-> m.n, prevout_hash |-> in.ph,
                            prevout_n |-> Int32(in.pn),
                            prevout_tx_id |-> IF cb THEN Null ELSE r.ret]
                IN  /\ Handle("txin", m, [buf EXCEPT !.txins = Append(@, row)])
                    /\ cache' = IF cb THEN cache ELSE r.cache
                    /\ miss' = IF cb THEN miss ELSE miss + r.miss
    /\ UNCHANGED <<tables, cons, runs, co, deferred, bid, txid, lastHash, fed,
                   inCh, inClosed, chClosed, done, utxoVars>>

pgTxOutWriter ==
    /\ Receive("txout")
    /\ LET m == Head(ch.txout)
       IN  Handle("txout", m,
                  IF m = Nil THEN buf
                  ELSE [buf EXCEPT !.txouts = Append(@, [tx_id |-> m.txId,
                                                         n |-> m.n])])
    /\ UNCHANGED <<tables, cons, runs, co, deferred, bid, txid, lastHash, fed,
                   inCh, inClosed, cache, miss, chClosed, done, utxoVars>>

\* The channel is closed and drained: commit the last stream and leave.
WriterExit(w) ==
    /\ chClosed /\ w \notin done /\ ch[w] = <<>>
    /\ Commit(w, buf)
    /\ done' = done \cup {w}
    /\ UNCHANGED <<tables, cons, runs, co, deferred, bid, txid, lastHash, fed,
                   inCh, inClosed, cache, miss, ch, chClosed, ack, utxoVars>>

-----------------------------------------------------------------------------
(* pgUTXOWriter, a goroutine of its own fed by WriteUTXO.  Its open COPY    *)
(* holds a lock on utxos from begin() until commit().                       *)

UTXORow(u) == [tx_id |-> Null, txid |-> u.txid, n |-> u.n]

UTXOCommit ==
    /\ db' = CommitTable(db, cons, "utxos", buf.utxos)
    /\ rejected' = (rejected \/ ForeignRefused(db, cons, "utxos", buf.utxos))
    /\ buf' = [buf EXCEPT !.utxos = <<>>]
    /\ uOpen' = FALSE

\* A record goes into the stream; a nil commits it.
pgUTXOWriter ==
    /\ pc # "stopped" /\ uOpen /\ uCh # <<>>
    /\ uCh' = Tail(uCh)
    /\ IF Head(uCh) = Nil
       THEN UTXOCommit
       ELSE /\ buf' = [buf EXCEPT !.utxos = Append(@, UTXORow(Head(uCh)))]
            /\ UNCHANGED <<db, rejected, uOpen>>
    /\ UNCHANGED <<tables, cons, runs, co, deferred, bid, txid, lastHash, fed,
                   inCh, inClosed, cache, miss, ch, chClosed, done, ack,
                   ufed, uDone, utmp>>

\* Mutant: no fresh stream after a commit signal.
UTXOBeginMissing == FALSE /\ UNCHANGED vars

\* The begin() after a commit signal.
UTXOBegin ==
    /\ pc # "stopped" /\ ~uOpen /\ ~uDone
    /\ uOpen' = TRUE
    /\ UNCHANGED <<db, tables, cons, runs, co, deferred, bid, txid, lastHash, fed,
                   inCh, inClosed, cache, miss, ch, chClosed, buf, done, ack,
                   rejected, ufed, uCh, uDone, utmp>>

\* utxoCh closed and drained: the last commit, then wg.Done().
UTXOWriterExit ==
    /\ pc # "stopped" /\ uOpen /\ uCh = <<>> /\ inClosed
    /\ UTXOCommit
    /\ uDone' = TRUE
    /\ UNCHANGED <<tables, cons, runs, co, deferred, bid, txid, lastHash, fed,
                   inCh, inClosed, cache, miss, ch, chClosed, done, ack,
                   ufed, uCh, utmp>>

-----------------------------------------------------------------------------
(* Shutdown and fixup, the tail of pgBlockWorker                            *)

\* writerWg.Wait(), then the fixup steps in order; a failing step is logged
\* and the next one still runs.
Fixup(from, to, d, cs) ==
    /\ pc = from
    /\ co' = [co EXCEPT !.pc = to]
    /\ db' = d /\ cons' = cs
    /\ UNCHANGED <<tables, runs, deferred, bid, txid, lastHash, fed, inCh,
                   inClosed, cache, miss, ch, chClosed, buf, done, ack, rejected, utxoVars>>

WaitWriters       == done = W /\ Fixup("wait", "indexes1", db, cons)
CreateIndexes1    == Fixup("indexes1", "fixPrevout", db, AddKeys(db, cons, Indexes1))
FixPrevoutTxIdOffByOne == Fixup("fixPrevout", "linkUTXOs",
                           IF miss > 1 THEN FixPrevout(db, cons) ELSE db, cons)
FixPrevoutTxId    == Fixup("fixPrevout", "linkUTXOs",
                           IF miss > 0 THEN FixPrevout(db, cons) ELSE db, cons)
\* linkUTXOs, one DO block: unless utxos_pkey exists, CREATE TABLE utxos_tmp
\* AS the join of the committed utxos with txs, then DROP TABLE utxos, which
\* waits for the lock of pgUTXOWriter's open COPY, then the rename.  Rows
\* committed after utxos_tmp was built go with the dropped table.
LinkUTXOsCreate ==
    /\ pc = "linkUTXOs"
    /\ IF "utxos_pkey" \in cons
       THEN co' = [co EXCEPT !.pc = "indexes2"] /\ UNCHANGED utmp
       ELSE co' = [co EXCEPT !.pc = "linkSwap"] /\ utmp' = LinkUTXOs(db)
    /\ UNCHANGED <<db, tables, cons, runs, deferred, bid, txid, lastHash, fed,
                   inCh, inClosed, cache, miss, ch, chClosed, buf, done, ack,
                   rejected, ufed, uCh, uOpen, uDone>>

LinkUTXOsSwap ==
    /\ pc = "linkSwap" /\ ~uOpen
    /\ db' = [db EXCEPT !.utxos = utmp]
    /\ co' = [co EXCEPT !.pc = "indexes2"]
    /\ utmp' = Null
    /\ UNCHANGED <<tables, cons, runs, deferred, bid, txid, lastHash, fed,
                   inCh, inClosed, cache, miss, ch, chClosed, buf, done, ack,
                   rejected, ufed, uCh, uOpen, uDone>>

CreateIndexes2    == Fixup("indexes2", "constraints", db, AddKeys(db, cons, Indexes2))
CreateConstraints == Fixup("constraints", "orphans", db, AddKeys(db, cons, ForeignKeys))
MarkOrphans       == Fixup("orphans", "done",
                           [db EXCEPT !.blocks = SetOrphans(@, 0)], cons)

-----------------------------------------------------------------------------

Coordinator ==
    \/ SkipBlock \/ RecvBlock \/ SendBlock \/ SendTx \/ WaitSync
    \/ SendTxIn \/ SendTxOut \/ SendCommit \/ CloseWriters
    \/ WaitWriters \/ CreateIndexes1 \/ FixPrevoutTxId
    \/ LinkUTXOsCreate \/ LinkUTXOsSwap \/ CreateIndexes2
    \/ CreateConstraints \/ MarkOrphans

Writers ==
    \/ pgBlockWriter \/ pgTxWriter \/ pgTxInWriter \/ pgTxOutWriter
    \/ \E w \in W : WriterExit(w)

Next ==
    \/ Start \/ Crash
    \/ WriteBlockInfo \/ WriteUTXO \/ Close
    \/ pgUTXOWriter \/ UTXOBegin \/ UTXOWriterExit
    \/ Coordinator
    \/ Writers

\* Goroutines are scheduled fairly and the caller's input is finite and
\* eventually closed; a crash is never forced.
Fairness ==
    /\ WF_vars(Start) /\ WF_vars(WriteBlockInfo) /\ WF_vars(Close)
    /\ WF_vars(WriteUTXO) /\ WF_vars(pgUTXOWriter) /\ WF_vars(UTXOBegin)
    /\ WF_vars(UTXOWriterExit)
    /\ WF_vars(Coordinator)
    /\ WF_vars(pgBlockWriter) /\ WF_vars(pgTxWriter)
    /\ WF_vars(pgTxInWriter) /\ WF_vars(pgTxOutWriter)
    /\ \A w \in W : WF_vars(WriterExit(w))

Spec == Init /\ [][Next]_vars /\ Fairness

-----------------------------------------------------------------------------
(* Properties                                                               *)

Hashes == {Blocks[k].hash : k \in DOMAIN Blocks}
TxHashes == UNION {{Tx(k, i).hash : i \in DOMAIN Blocks[k].txs} : k \in DOMAIN Blocks}
\* The first tx of the stream with hash h (duplicates carry the same data).
TxOf(h) == LET b == CHOOSE k \in DOMAIN Blocks :
                        \E i \in DOMAIN Blocks[k].txs : Tx(k, i).hash = h
           IN  Tx(b, CHOOSE i \in DOMAIN Blocks[b].txs : Tx(b, i).hash = h)
BlockOf(h) == Blocks[CHOOSE k \in DOMAIN Blocks : Blocks[k].hash = h]

Rows(t) == Range(db[t])
RowCount(t, P(_)) == Cardinality({k \in DOMAIN db[t] : P(db[t][k])})
IdsOf(h) == {r.id : r \in {q \in Rows("txs") : q.txid = h}}

\* The loader, and every pass of fixup, has finished.
Finished == pc = "done"
\* Close has returned: pgBlockWorker and pgUTXOWriter have both finished.
Closed == pc \in {"done", "exited"} /\ uDone

TypeOK ==
    /\ tables \in BOOLEAN /\ cons \subseteq Constraints
    /\ co.pc \in {"stopped", "skip", "recv", "block", "waitBlock", "tx",
                  "waitTx", "in", "out", "commit", "wait", "indexes1",
                  "fixPrevout", "linkUTXOs", "linkSwap", "indexes2",
                  "constraints", "orphans", "done", "exited"}
    /\ bid \in Nat /\ txid \in Nat /\ miss \in Nat
    /\ fed \in 0..Len(Blocks) /\ Len(inCh) <= ChanCap
    /\ \A w \in W : Len(ch[w]) <= ChanCap
    /\ \A r \in Rows("blocks") : r.id \in Nat /\ r.hash \in Hashes
    /\ \A r \in Rows("txs") : r.id \in Nat /\ r.txid \in TxHashes
    /\ \A r \in Rows("txins") : r.prevout_tx_id \in Nat \cup {Null}
    /\ \A r \in Rows("txins") : r.prevout_n \in (-2147483647 - 1)..2147483647
    /\ done \subseteq W /\ ack \in BOOLEAN /\ rejected \in BOOLEAN
    /\ ufed \in 0..Len(UTXOs) /\ Len(uCh) <= ChanCap
    /\ uOpen \in BOOLEAN /\ uDone \in BOOLEAN /\ (uDone => ~uOpen)
    /\ \A r \in Rows("utxos") : r.tx_id \in Nat \cup {Null}

\* Resume idempotence: once the loader has finished, every block the caller
\* handed over in this run is in the blocks table exactly once, whatever
\* earlier runs loaded and however the skip mode of pgBlockWorker resumed.
BlocksLoaded ==
    Finished => \A k \in 1..fed :
                   RowCount("blocks", LAMBDA r : r.hash = Blocks[k].hash) = 1

\* Position fidelity and duplicate reuse: for every stored block with K txs,
\* block_txs holds exactly the positions 0..K-1 once each, and the row at
\* position n points at a txs row whose txid is the hash of the block's n-th
\* tx.  This is what the cache dedupe of pgBlockWorker and the block_txs
\* rows of pgTxWriter must jointly produce.
TxsLinked ==
    Finished =>
      \A b \in Rows("blocks") :
        LET txs == BlockOf(b.hash).txs
        IN  /\ \A r \in Rows("block_txs") :
                  r.block_id = b.id => r.n \in 0..Len(txs) - 1
            /\ \A n \in 0..Len(txs) - 1 :
                  /\ RowCount("block_txs",
                              LAMBDA r : r.block_id = b.id /\ r.n = n) = 1
                  /\ \A r \in Rows("block_txs") :
                        r.block_id = b.id /\ r.n = n =>
                           r.tx_id \in IdsOf(txs[n + 1].hash)

\* Duplicate tx reuse: a txid listed by several blocks has one txs row.
TxUnique ==
    Finished => \A h \in TxHashes : RowCount("txs", LAMBDA r : r.txid = h) <= 1

\* Every stored tx has all of its inputs and outputs, each position once:
\* the ins/outs sent by pgBlockWorker for a non-dupe tx all reach a commit.
InsOutsLoaded ==
    Finished =>
      \A t \in Rows("txs") :
        LET tx == TxOf(t.txid)
        IN  /\ \A n \in 0..Len(tx.ins) - 1 :
                  RowCount("txins", LAMBDA r : r.tx_id = t.id /\ r.n = n) = 1
            /\ \A n \in 0..tx.nouts - 1 :
                  RowCount("txouts", LAMBDA r : r.tx_id = t.id /\ r.n = n) = 1
            /\ \A r \in Rows("txins") \cup Rows("txouts") :
                  r.tx_id = t.id => r.n \in 0..Len(tx.ins) + tx.nouts

\* Prevout resolution (post-fixup): a non-coinbase input whose prevout_hash
\* is some tx's txid carries that tx's id, whether the TxIn writer's cache
\* check hit or fixPrevoutTxId back-filled it; one whose prevout tx is not
\* stored stays NULL.  A coinbase input is never resolved.
PrevoutResolved ==
    Finished =>
      \A r \in Rows("txins") :
        IF r.prevout_n = -1 THEN r.prevout_tx_id = Null
        ELSE IF IdsOf(r.prevout_hash) = {} THEN r.prevout_tx_id = Null
        ELSE r.prevout_tx_id \in IdsOf(r.prevout_hash)

\* Orphan consistency: after setOrphans the non-orphan blocks form a single
\* chain, one block per height, each linked to the one below by prevhash.
OrphanChain ==
    Finished =>
      LET main == {r \in Rows("blocks") : ~r.orphan}
      IN  /\ \A r, q \in main : r # q => r.height # q.height
          /\ \A r \in main : \/ \A q \in main : r.height <= q.height
                             \/ \E p \in main : p.hash = r.prev

\* Synchronous mode's syncCh handshake: pgBlockWorker sends a block, then
\* each tx, and waits until its writer has committed it before any row that
\* references it is sent, and the txin/txout streams are committed only
\* after the block's txs.  So with the foreign keys in place no commit of
\* any writer, the UTXO writer's included, is refused because a row it
\* references is missing.  A commit refused by a unique or NOT NULL key is
\* not such a refusal: the UTXO commits of a resumed run, whose tx_id is
\* NULL under utxos_pkey, are.  The claim needs distinct txids: a repeated
\* txid that a resumed run's empty cache misses has its txs row refused by
\* txs_txid_idx (which the comment of pgTxWriter accepts), and then its
\* block_txs rows by their foreign key.
NoForeignKeyRefusal == ~rejected

\* Monotonic ids: the id pgBlockWorker mints for a block is greater than the
\* id of every block row already committed, in an open stream or in flight,
\* including those of earlier runs the resume point was read from.
BlockIdsInUse == {r.id : r \in Rows("blocks") \cup Range(buf.blocks)}
                 \cup {m.id : m \in {x \in Range(ch.block) : x # Nil}}
MintedIdFresh ==
    [][pc = "recv" /\ co'.pc = "block" => \A i \in BlockIdsInUse : i < bid']_vars

\* UTXO linking: once Close has returned, every UTXO the caller wrote whose
\* tx is stored is in utxos with that tx's id, as linkUTXOs is meant to
\* leave it: the UTXO writer's rows must be committed before the link reads
\* them, and none may be dropped with the old table.
UTXOsLinked ==
    Closed =>
      \A k \in 1..ufed :
        LET u == UTXOs[k]
        IN  u # Nil /\ IdsOf(u.txid) # {} =>
              \E r \in Rows("utxos") :
                 r.txid = u.txid /\ r.n = u.n /\ r.tx_id \in IdsOf(u.txid)

\* Every run, once the caller closes its input, drains, fixes up and ends,
\* and Close returns once the UTXO writer has committed too: both
\* goroutines of the process finish, whichever way pgBlockWorker ends.
Termination == <>[]Closed

\* Refinement of BlockLog: the blocks table, read as its [id, hash] rows,
\* behaves as the abstract log of the caller's stream.  Every commit of
\* pgBlockWriter, every resume of pgBlockWorker (getLastHashAndHeight,
\* skip mode, bid++) and every crash in between keeps the table a prefix of
\* the stream numbered by position; setOrphans only rewrites orphan flags.
Log == INSTANCE BlockLog
         WITH Stream <- [k \in DOMAIN Blocks |-> Blocks[k].hash],
              table <- [k \in DOMAIN db.blocks |->
                           [id |-> db.blocks[k].id, hash |-> db.blocks[k].hash]]
BlockLogRefined == Log!Spec

=============================================================================
