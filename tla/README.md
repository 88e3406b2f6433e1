# TLA+ models of the blkchain PostgreSQL loader

This directory models the ingestion pipeline of `src/unnamed/part_000` for the
TLC model checker. That file is the PG writer of blkchain. The models cover
the coordinator, the five COPY writers, the tx-id cache, the fixup phase and
orphan marking, and the process being restarted or crashing between runs.
From `src/uint256.go` it models the `Uint256` type, its `String()` method and
the structure of `ShaSha256`. SHA-256 itself is a constant operator.

## The system

* **Caller API.**
  * `NewPGWriter` runs `createTables`. If the tables "already exist" it
    chooses *synchronous* mode; otherwise it chooses *deferred* mode.
  * It then starts two goroutines: `pgBlockWorker` and `pgUTXOWriter`.
  * `WriteBlockInfo` and `WriteUTXO` send on the two input channels
    (capacity 64).
  * `Close` closes both channels and waits for both goroutines.
* **Coordinator, `pgBlockWorker`.** It starts by reading the resume point:
  * `getLastHashAndHeight` gives the id, height and hash of the highest block;
  * `getLastTxId` gives the greatest tx id.

  It then starts four writers, each with a bounded channel. With a resume
  hash, *skip mode* discards input blocks up to and including that hash.
  Then, for every block:
  * it mints `bid++` and sends the block record;
  * for every tx it mints `txid++` and calls `idCache.add`. A repeated txid
    gets the id already stored and is sent as a *dupe*. A new tx also has
    its ins and outs sent.
  * Synchronous mode adds an unbuffered `syncCh` handshake after each block
    record and each tx record, and a nil commit to the txin/txout writers
    after each block.
  * Deferred mode sends a nil commit to all four writers when `bid % 50 = 0`.

  When the input closes, it closes the writer channels and waits for the
  writers. It then runs the fixup steps in order:
  1. `createIndexes1`
  2. `fixPrevoutTxId`, if the cache missed
  3. `linkUTXOs`
  4. `createIndexes2`
  5. `createConstraints`
  6. `setOrphans`
* **Writers.** `pgBlockWriter`, `pgTxWriter` (which writes two streams, `txs`
  and `block_txs`), `pgTxInWriter` and `pgTxOutWriter` each keep an open COPY
  stream.
  * A stream is committed on a nil record, on a record that carries
    `syncCh`, and when the channel closes.
  * A commit is all-or-nothing against the keys that exist at that moment.
  * `pgTxInWriter` resolves `prevout_tx_id` with `idCache.check` for
    non-coinbase inputs.
  * `pgUTXOWriter` works the same way, but is fed by the caller and is
    independent of the coordinator.
* **Store and fixup.**
  * `createIndexes1`, `createIndexes2` and `createConstraints` add keys
    inside `DO $$ IF NOT EXISTS ... $$` blocks, and return at the first key
    that fails.
  * `fixPrevoutTxId` back-fills `prevout_tx_id` unless `txins_tx_id_fkey`
    already exists.
  * `linkUTXOs` rebuilds `utxos` joined with `txs`, unless `utxos_pkey`
    exists.
  * `setOrphans` walks `prevhash` links from every block at the greatest
    height, and rewrites every block's orphan flag.

## Modules

| Module | Models | How |
|---|---|---|
| `TxIdCache.tla` | `txIdCache` (`newTxIdCache`, `add`, `check`) | The implementation is not in the source files, so this module follows the spec's LRU description. A cache is a sequence ordered by recency. `CacheAdd` and `CacheCheck` return the new cache and the result. |
| `PGStore.tla` | `createTables`, `begin`/`commit`, `createIndexes1/2`, `createConstraints`, `getLastHashAndHeight`, `getLastTxId`, `fixPrevoutTxId`, the join of `linkUTXOs` | See "PGStore" below. |
| `Orphans.tla` | `setOrphans` | `Tips` is the anchor of the recursion (every row at the greatest height). `Walk` is the recursive term, with its `limit`. `SetOrphans` is the UPDATE. |
| `Pipeline.tla` | `NewPGWriter`, `WriteBlockInfo`, `WriteUTXO`, `Close`, `pgBlockWorker`, the five writers | One action per step of each goroutine; see "Pipeline" below. |
| `Uint256.tla` | `Uint256` and `String()` in `src/uint256.go` | A `Uint256` is a function from `0..Width-1` to bytes. `Width` is 32 in the code. `Hex02` is `fmt.Sprintf("%02x", b)`. `Loop` is the `for` loop over `u[31-i]`. A string is a sequence of one-character strings. `ShaSha256(b) == Sum256(Slice(Sum256(b)))`: `Slice` is `first[:]`, and `Sum256` (`sha256.Sum256`) is a constant operator. |
| `MCOrphans.tla` | Reference check of `setOrphans` | Every three-block table a chain can store: any heights 0..2, a parent one height lower or not loaded, and any old orphan flags. The one step is `SetOrphans`, compared with reachability via `Relation`'s reflexive transitive closure. |
| `MCUint256.tla` | Reference check of `String` | See "Reference check of `String`" below. |
| `BlockLog.tla` | The abstract promise about the blocks table | See "Refinement" below. |
| `MCPipeline.tla` | Inputs for TLC | Two block streams and two UTXO streams; see "Inputs" below. |

**PGStore.** A database is a record of tables, and a table is a sequence of
rows in commit order. Keys are named constraints in a set `cons`.
* `CommitTable` appends a stream's rows, or leaves the table unchanged if an
  existing key on that table fails.
* `AddKeys` adds keys in statement order and stops at the first key that
  fails.
* `LastHashAndHeight` returns every row tied at the greatest height, because
  the order of tied rows is undefined.

**Pipeline.** The coordinator's program counter `co.pc` follows the code:
`skip`, `recv`, `block`, `waitBlock`, `tx`, `waitTx`, `in`, `out`, `commit`,
`wait`, then the fixup steps, then `done`.
* A channel is a sequence whose length is capped at `ChanCap`.
* Each writer's open streams are `buf`, and a crash loses them.
* `linkUTXOs` is split into `LinkUTXOsCreate` and `LinkUTXOsSwap`.
  `LinkUTXOsCreate` builds `utxos_tmp` from the committed rows.
  `LinkUTXOsSwap` is the DROP: it waits until the UTXO writer has no open
  COPY.
* `Start` models a process start, and `Crash` models the process dying at
  any point.
* `ResumePoint` is the prologue of `pgBlockWorker`. With the constant
  `ResumeErrors`, either resume query may fail, and the coordinator then
  ends at `pc = "exited"` without writers and without reading `blockCh`.
  The caller's actions depend only on the process running and `Close` not
  yet called, so the caller can still send.
* The constant `FeedsAll` selects the caller. When it is `TRUE`, the caller
  calls `Close` only after its last `WriteBlockInfo` has returned. When it
  is `FALSE`, the caller may stop feeding and call `Close` at any point.
* `rejected` is a history variable: some commit was refused by a foreign
  key (`ForeignRefused` in `PGStore`). A refusal by a unique or `NOT NULL`
  key is not recorded.

**Inputs.** `MCPipeline.tla` defines two block streams:
* `ForkDupBlocks`: a stale sibling block, plus a block whose coinbase repeats
  an earlier txid.
* `ChainBlocks`: a plain chain whose second block spends the genesis
  coinbase.

It defines three UTXO streams:
* `NoUTXOs`;
* `CommitUTXOs`: two outputs with a nil commit between them;
* `OneUTXO`: one output, committed when `utxoCh` closes.

**Abstractions.**
* Hashes are short strings.
* Header fields, scripts, values and witnesses are left out: no property
  reads them.
* The coinbase index `0xffffffff` is the model value `CoinbaseN`. The
  `int32` conversion applied when it is stored is `Int32`, which maps it to
  -1.
* The constants 64 and 50 are `ChanCap` and `CommitEvery`.

**Reference check of `String`.** A state is one `Uint256` over a small set
of byte values. `StringIsHexOfValue` compares `String(u)` with an independent
definition: the hex numeral of the array's little-endian value, with exactly
`2 * Width` digits. Besides setting any byte, a step may replace the array by
`ShaSha256` of its own bytes. Here `Sum256` is `ToySum256`, a stand-in whose
digest bytes are drawn from the same small set, so it reaches no array
that setting bytes does not. The stand-in only shows that
`ShaSha256` composes its parts as the code does. It says nothing about
SHA-256.

## Refinement

`BlockLog.tla` states what the loader promises about the `blocks` table.
* The table is always a prefix of the caller's block stream.
* Each block appears once, and its id is its position in the stream.
* Commits only ever add later blocks.

`Pipeline.tla` defines `Log == INSTANCE BlockLog WITH ...`:
* the abstract `table` is the `[id, hash]` view of `db.blocks`;
* `Stream` is the hashes of `Blocks`.

The property `BlockLogRefined == Log!Spec` is checked in the main, resume and
crash runs. It covers every `pgBlockWriter` commit and every resume through
`getLastHashAndHeight`, skip mode and `bid++`, with crashes in between.


## Runs

| Run (cfg) | Expect | What it shows |
|---|---|---|
| main (`MCPipeline.cfg`) | pass | A first, deferred-mode load of `ForkDupBlocks` with cache size 2 terminates (`Termination`). It links every block's txs at their positions (`TxsLinked`) and stores each txid once (`TxUnique`). It loads every input and output once (`InsOutsLoaded`) and resolves every prevout (`PrevoutResolved`). Beside it the UTXO writer takes `CommitUTXOs`, with its commit signal, and interleaves with the whole load and with `linkUTXOs`. `TypeOK` also checks that every stored `prevout_n` fits the `int32` column; this depends on the `int32` conversion `Int32`. |
| resume (`MCResume.cfg`) | pass | Two runs over `ChainBlocks`, with `OneUTXO`; the second run is synchronous. Skip mode loads no block twice (`BlocksLoaded`). With the foreign keys in place, the syncCh handshake keeps every commit clear of foreign-key refusals (`NoForeignKeyRefusal`). The second run's UTXO commit is still refused, by the `NOT NULL` of `utxos_pkey`. Fresh block ids are minted (`MintedIdFresh`, an action property). Every run terminates. The stream has distinct txids, which the property needs: a repeated txid missed by the resumed run's empty cache has its `txs` row refused, and then its `block_txs` rows are refused by their foreign key. |
| crash (`MCCrash.cfg`) | pass | With a crash allowed at any point and a restart, every block is loaded once and block ids stay fresh. |
| uint256 (`MCUint256.cfg`) | pass | Every 3-byte array over the byte values {0, 9, 10, 15, 16, 255} prints as its zero-padded big-endian hex numeral. These values cover the nibble edges and the padding cases. |
| orphans (`MCOrphans.cfg`) | pass | `setOrphans(db, 0)` marks exactly the blocks that are neither a highest block nor an ancestor of one (`OrphanIffOffTipChains`), whatever the old flags were. The limit is 0, as in the loader's only call. |
| resume_prevout | violation | `PrevoutResolved`: a resumed run never back-fills prevouts of earlier runs' txs. The fixup guard constraint already exists, and the new run's cache is empty. |
| resume_fork_id | violation | `MintedIdFresh`: after a stale block, the resume id is not the greatest id, so an id already in use is minted again. |
| crash_resume | violation | `TxsLinked`: a crash between the block commit and the tx commit leaves blocks whose txs are never loaded. |
| orphan_tie | violation | `OrphanChain`: two blocks tied at the greatest height both stay non-orphan. |
| crash_prevout | violation | `PrevoutResolved`: run 1 commits a txin whose prevout missed the cache, then crashes before fixup. Run 2 starts with `miss = 0`, so it skips `fixPrevoutTxId` although `txins_tx_id_fkey` does not exist yet, and the prevout stays NULL. |
| start_error (`StartError.cfg`) | violation | `Termination`, with `ResumeErrors` and `FeedsAll`: the resume query fails and `pgBlockWorker` returns, but `NewPGWriter` has already succeeded. The caller fills `blockCh`, and its next `WriteBlockInfo` never returns, so it never calls `Close`. |
| utxo_race | violation | `UTXOsLinked`: `linkUTXOs` does not wait for the UTXO writer, and drops the rows that writer commits after `utxos_tmp` was built. |

Each property of a passing run has a mutant in `PROJECT.json`. A mutant is a
plausible bug in the modelled code, and TLC finds the property violated when
the mutant replaces the code.

## Bounds

* **Blocks.** Three or four blocks are enough for:
  * a fork, a spend across blocks, and a repeated txid;
  * `CommitEvery = 2`, so that mid-stream nil commits happen in deferred
    mode;
  * a tip tie.
* **Channels.** `ChanCap = 2` makes back-pressure reachable. With
  `ChanCap = 1` the sync handshake would be the only interleaving.
* **Cache.** `CacheSize = 2` holds a block's txs, and with `ForkDupBlocks` the repeated txid is still cached when it comes back.
* **Runs.** `MaxRuns = 2` gives one resume, which is where all the resume
  hazards live.
* **Faults.** `Crashes` and `ResumeErrors` are off in every run except the
  ones about them. `StartError` uses three blocks, one more than `ChanCap`,
  so a caller with blocks left meets a full `blockCh`.

Every passing run explores the complete state space within three minutes.

## Fairness

`Spec` has weak fairness on:
* every goroutine's step;
* the caller's `WriteBlockInfo`, `WriteUTXO` and `Close`;
* `Start`.

The Go scheduler runs every runnable goroutine eventually, and the caller
feeds a finite stream and then calls `Close`. Fairness of `Close` only
applies while `Close` is enabled. So with `FeedsAll`, a caller stuck in a
send is never forced to close. `Crash` has no fairness: a
crash is possible, never forced. The runs set `CHECK_DEADLOCK FALSE` because
the model stops, by design, once `MaxRuns` processes have finished. The
`MCOrphans` runs stop after their single UPDATE.

## Not modelled

* SHA-256 (`sha256.Sum256`), `Hash()`, and the binary encoding of
  witnesses are not modelled. `ShaSha256` is modelled around a constant
  `Sum256`.
  * SHA-256 is beyond TLC.
  * The pipeline only compares hashes for equality, and model values do
    that.
  * `Uint256.String` is modelled, but the pipeline's hashes are model
    values, not arrays: `String` is only used for log lines.
* Logging and progress reports.
* The commented-out `markSpentOutputs`.
* `begin` errors that leave a nil statement.
* The plain, non-unique indexes. They constrain nothing.
* Some simplifications in the model. None of them changes a checked result:
  * `commit()` returns on an error without rolling back, which leaves the
    transaction open. The model treats a refused commit as a clean
    rollback.
  * `SendTx` does `idCache.add` and the possibly blocking send in one step.
  * A foreign key is checked against the parent table's data, without
    requiring the unique index PostgreSQL needs before it accepts the key.

## Plan for later work

* Extend `BlockLog` to the `txs` and `block_txs` tables.
* A resumed run whose stream repeats a txid. Its `block_txs` commit is
  refused by a foreign key, which `NoForeignKeyRefusal` excludes by its
  data.
