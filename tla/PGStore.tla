------------------------------ MODULE PGStore ------------------------------
(***************************************************************************)
(* The relational store as the loader uses it: the six tables created by   *)
(* createTables, the keys and foreign keys the fixup phase adds, and the   *)
(* all-or-nothing commit of a COPY stream (begin / stmt.Exec / commit).    *)
(*                                                                         *)
(* A database value d is a record of tables; a table is the sequence of    *)
(* its rows in commit order.  A set cs of constraint names says which keys *)
(* exist.  Rows keep only the columns some property reads: hashes stand    *)
(* for the 32-byte BYTEA columns, the header fields, scripts and values    *)
(* are left out.                                                           *)
(***************************************************************************)
EXTENDS Integers, Sequences, SequencesExt

CONSTANTS Null     \* SQL NULL (prevout_tx_id, utxos.tx_id)

Tables == {"blocks", "txs", "block_txs", "txins", "txouts", "utxos"}

\* The database right after createTables: every table exists and is empty.
EmptyDB == [t \in Tables |-> <<>>]

\* The primary keys and unique indexes, by name: the table, the key columns,
\* and whether the step that adds it first sets the columns NOT NULL.
Unique == [
    blocks_pkey    |-> [tbl |-> "blocks",    cols |-> <<"id">>,          notnull |-> FALSE],
    txs_pkey       |-> [tbl |-> "txs",       cols |-> <<"id">>,          notnull |-> FALSE],
    txs_txid_idx   |-> [tbl |-> "txs",       cols |-> <<"txid">>,        notnull |-> FALSE],
    block_txs_pkey |-> [tbl |-> "block_txs", cols |-> <<"block_id", "n">>, notnull |-> FALSE],
    utxos_pkey     |-> [tbl |-> "utxos",     cols |-> <<"tx_id", "n">>,  notnull |-> TRUE],
    txins_pkey     |-> [tbl |-> "txins",     cols |-> <<"tx_id", "n">>,  notnull |-> FALSE],
    txouts_pkey    |-> [tbl |-> "txouts",    cols |-> <<"tx_id", "n">>,  notnull |-> FALSE]]

\* The foreign keys, by name: child table and columns, parent table and columns.
Foreign == [
    block_txs_block_id_fkey |-> [tbl |-> "block_txs", cols |-> <<"block_id">>,
                                 ref |-> "blocks", refcols |-> <<"id">>],
    block_txs_tx_id_fkey    |-> [tbl |-> "block_txs", cols |-> <<"tx_id">>,
                                 ref |-> "txs", refcols |-> <<"id">>],
    txins_tx_id_fkey        |-> [tbl |-> "txins", cols |-> <<"tx_id">>,
                                 ref |-> "txs", refcols |-> <<"id">>],
    txouts_tx_id_fkey       |-> [tbl |-> "txouts", cols |-> <<"tx_id">>,
                                 ref |-> "txs", refcols |-> <<"id">>],
    utxos_tx_id_n_fkey      |-> [tbl |-> "utxos", cols |-> <<"tx_id", "n">>,
                                 ref |-> "txouts", refcols |-> <<"tx_id", "n">>]]

Constraints == DOMAIN Unique \cup DOMAIN Foreign

\* The table a constraint is checked on when rows are inserted into it.
ConTable(c) == IF c \in DOMAIN Unique THEN Unique[c].tbl ELSE Foreign[c].tbl

\* The key of row r over columns cols.
Key(r, cols) == [k \in DOMAIN cols |-> r[cols[k]]]

UniqueHolds(d, u) ==
    LET rows == d[u.tbl]
    IN  /\ u.notnull => \A k \in DOMAIN rows : \A i \in DOMAIN u.cols :
                            rows[k][u.cols[i]] # Null
        /\ \A k, l \in DOMAIN rows :
              k # l => Key(rows[k], u.cols) # Key(rows[l], u.cols)

\* MATCH SIMPLE: a key with a NULL column references nothing and is accepted.
ForeignHolds(d, f) ==
    \A r \in Range(d[f.tbl]) :
        \/ \E i \in DOMAIN f.cols : r[f.cols[i]] = Null
        \/ Key(r, f.cols) \in {Key(p, f.refcols) : p \in Range(d[f.ref])}

Holds(d, c) == IF c \in DOMAIN Unique THEN UniqueHolds(d, Unique[c])
                                      ELSE ForeignHolds(d, Foreign[c])

(***************************************************************************)
(* commit(stmt, txn): the final stmt.Exec() ends the COPY and the          *)
(* transaction commits.  The existing keys are checked then, so one bad    *)
(* row fails the whole stream and every row of it is lost; the writer logs *)
(* the error and begin() opens a fresh stream either way.                  *)
(***************************************************************************)
Admissible(d, cs, t) == \A c \in cs : ConTable(c) = t => Holds(d, c)

\* The commit of rows into t is refused by a foreign key of t: some row
\* references a parent row that is not there.
ForeignRefused(d, cs, t, rows) ==
    LET nd == [d EXCEPT ![t] = @ \o rows]
    IN  \E c \in cs \cap DOMAIN Foreign : ConTable(c) = t /\ ~ForeignHolds(nd, Foreign[c])

CommitTable(d, cs, t, rows) ==
    LET nd == [d EXCEPT ![t] = @ \o rows]
    IN  IF Admissible(nd, cs, t) THEN nd ELSE d

\* The DO $$ ... IF NOT EXISTS ... ALTER TABLE ... $$ steps of createIndexes1,
\* createIndexes2 and createConstraints: each absent key is added if the data
\* satisfies it; the first failure makes the function return its error, so
\* the keys after it in the list are not attempted.
RECURSIVE AddKeys(_, _, _)
AddKeys(d, cs, list) ==
    IF list = <<>> THEN cs
    ELSE LET c == Head(list)
         IN  IF c \in cs THEN AddKeys(d, cs, Tail(list))
             ELSE IF Holds(d, c) THEN AddKeys(d, cs \cup {c}, Tail(list))
             ELSE cs

\* The keys each step creates, in the order of its statements (the plain,
\* non-unique indexes never fail and constrain nothing, so they are omitted).
Indexes1    == <<"blocks_pkey", "txs_pkey", "txs_txid_idx", "block_txs_pkey">>
Indexes2    == <<"utxos_pkey", "txins_pkey", "txouts_pkey">>
ForeignKeys == <<"block_txs_block_id_fkey", "block_txs_tx_id_fkey",
                 "txins_tx_id_fkey", "txouts_tx_id_fkey", "utxos_tx_id_n_fkey">>

\* Mutant: the resume id read from the height column.
LastHashAndHeightByHeight(d) ==
    IF d.blocks = <<>>
    THEN {[id |-> 0, height |-> -1, hash |-> Null]}
    ELSE LET top == {r \in Range(d.blocks) :
                        \A q \in Range(d.blocks) : q.height <= r.height}
         IN  {[id |-> r.height, height |-> r.height, hash |-> r.hash] : r \in top}

\* getLastHashAndHeight: SELECT id, height, hash FROM blocks ORDER BY height
\* DESC LIMIT 1.  Rows tied at the greatest height come back in no defined
\* order, so every one of them is a possible answer.  An empty table gives
\* id 0, height -1 and no hash.
LastHashAndHeight(d) ==
    IF d.blocks = <<>>
    THEN {[id |-> 0, height |-> -1, hash |-> Null]}
    ELSE LET top == {r \in Range(d.blocks) :
                        \A q \in Range(d.blocks) : q.height <= r.height}
         IN  {[id |-> r.id, height |-> r.height, hash |-> r.hash] : r \in top}

\* Mutant: the tx id counter not resumed.
LastTxIdZero(d) == 0

\* getLastTxId: SELECT id FROM txs ORDER BY id DESC LIMIT 1, or 0.
LastTxId(d) ==
    IF d.txs = <<>> THEN 0
    ELSE CHOOSE i \in {r.id : r \in Range(d.txs)} :
            \A r \in Range(d.txs) : r.id <= i

(***************************************************************************)
(* fixPrevoutTxId: unless txins_tx_id_fkey exists, every txins row with a  *)
(* NULL prevout_tx_id and n <> -1 gets the id of the txs row whose txid is *)
(* its prevout_hash.  When several txs rows share the txid, UPDATE ... FROM *)
(* picks one of them; CHOOSE stands for that choice.                        *)
(***************************************************************************)
FixPrevout(d, cs) ==
    LET Fix(r) ==
          IF /\ r.prevout_tx_id = Null
             /\ r.n # -1
             /\ \E t \in Range(d.txs) : t.txid = r.prevout_hash
          THEN [r EXCEPT !.prevout_tx_id =
                    (CHOOSE t \in Range(d.txs) : t.txid = r.prevout_hash).id]
          ELSE r
    IN  IF "txins_tx_id_fkey" \in cs THEN d
        ELSE [d EXCEPT !.txins = [k \in DOMAIN @ |-> Fix(@[k])]]


\* The SELECT of linkUTXOs: utxos u JOIN txs t ON t.txid = u.txid, with tx_id
\* taken from t.id.  An inner join: a UTXO whose tx is not in txs is not
\* carried over, and one matching several txs rows yields a row for each.
LinkUTXOs(d) ==
    LET Matches(u) == SetToSeq({t.id : t \in {t \in Range(d.txs) : t.txid = u.txid}})
    IN  FlattenSeq([k \in DOMAIN d.utxos |->
            [l \in DOMAIN Matches(d.utxos[k]) |->
                [d.utxos[k] EXCEPT !.tx_id = Matches(d.utxos[k])[l]]]])

=============================================================================
