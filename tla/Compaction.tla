------------------------------ MODULE Compaction ------------------------------
(***************************************************************************)
(* internal/store: the retention of the history. Samples are written next  *)
(* to the compactor, which folds the old ones into buckets and deletes     *)
(* the old buckets; the database may have been written by an older build   *)
(* and is migrated when it is opened; a write fails, the process is killed *)
(* at any step and starts again.                                           *)
(*                                                                         *)
(* One series, that is one product of one island. A sample is its time and *)
(* its serial n, which stands for its figures: Value(n) for the rates,     *)
(* which are averaged, Peak(n) for the buildings and the game's clock,     *)
(* whose maximum is kept. A mean is the exact fraction; how SQLite rounds  *)
(* a REAL is left out. Times are in units of the older build's buckets.    *)
(* A transaction works on a copy (`tx') that replaces the tables when it   *)
(* commits. Samples may carry any time: the wall clock can be set back,    *)
(* and a recording replayed into the database is as old as it is.          *)
(***************************************************************************)
EXTENDS Integers, FiniteSets, FiniteSetsExt

CONSTANTS
    RawRetention, BucketWidth, BucketRetention,   \* CompactOptions
    Times,        \* bound: the times samples carry
    MaxSamples,   \* bound: samples, over all processes
    MaxOpens,     \* bound: times the database is opened
    Value(_),     \* a sample's rate, the surplus among them: it may be negative
    Peak(_)       \* a sample's buildings, and its tick of the game

ASSUME RetentionAssumption ==
    /\ RawRetention \in Nat \ {0} /\ BucketRetention \in Nat \ {0}
    /\ BucketWidth \in Nat \ {0}
    /\ Times \subseteq Nat \ {0}
    /\ MaxSamples \in Nat \ {0}
    /\ \A n \in 1..MaxSamples : Value(n) \in Int /\ Peak(n) \in Nat

VARIABLES
    version,   \* PRAGMA user_version
    raw,       \* table sample
    bucket,    \* table sample_bucket (sample_minute before schema 3), by ts
    mode,      \* "opening", "up", "refused", "killed"
    noting,    \* the newest time of a committed batch, not yet noted; 0: none
    anchor,    \* Store.lastSample
    armed,     \* the anchor RunCompactor has read, 0 outside a run
    tx,        \* the compactor's transaction
    said,      \* serials given out
    folded,    \* what went into the buckets: [n, ts, key, width]
    replaced,  \* samples whose row a sample of the same time took
    expired,   \* samples deleted with their bucket: [n, ts, by]
    committed, \* every sample ever committed: [n, ts, by]
    cutoff,    \* the newest raw cutoff committed, with the serials given out
    opens      \* times the database has been opened

tables  == <<version, raw, bucket>>
process == <<mode, noting, anchor, armed, opens>>
ghosts  == <<said, folded, replaced, expired, committed, cutoff>>
retentionVars == <<tables, process, tx, ghosts>>

Known  == 3   \* len(migrations)
Minute == 1   \* the width of the older build's buckets

NoTx == [at |-> "none"]

-----------------------------------------------------------------------------
(* The database as some earlier build left it *)

\* A new file; one the build with schema 2 has compacted; a later build's.
RetentionInit ==
    /\ \/ /\ version = 0 /\ bucket = <<>> /\ folded = {} /\ committed = {} /\ said = 0
       \/ /\ version = 2
          /\ bucket = [k \in {1} |-> [mean |-> [num |-> Value(1), den |-> 1], count |-> 1,
                                     width |-> 0, peak |-> Peak(1)]]
          /\ folded = {[n |-> 1, ts |-> 1, key |-> 1, width |-> Minute]}
          /\ committed = {[n |-> 1, ts |-> 1, by |-> 0]} /\ said = 1
       \/ /\ version = Known + 1 /\ bucket = <<>> /\ folded = {} /\ committed = {} /\ said = 0
    /\ raw = {} /\ replaced = {} /\ expired = {}
    /\ cutoff = [at |-> 0, said |-> 0]
    /\ mode = "opening" /\ noting = 0 /\ anchor = 0 /\ armed = 0 /\ tx = NoTx /\ opens = 1

-----------------------------------------------------------------------------
(* Store.migrate *)

Refuse ==
    /\ mode = "opening" /\ version > Known
    /\ mode' = "refused"
    /\ UNCHANGED <<tables, noting, anchor, armed, opens, tx, ghosts>>

\* The rows of the older build get the new default.
MutWidened == [k \in DOMAIN bucket |-> [bucket[k] EXCEPT !.width = BucketWidth]]

(***************************************************************************)
(* Migration 3 gives the rows there are the width they were written with.  *)
(***************************************************************************)
Widened == [k \in DOMAIN bucket |-> [bucket[k] EXCEPT !.width = Minute]]

(***************************************************************************)
(* One migration with its version, in one transaction.                     *)
(***************************************************************************)
Migrate ==
    /\ mode = "opening" /\ version < Known
    /\ version' = version + 1
    /\ bucket' = IF version + 1 = 3 THEN Widened ELSE bucket
    /\ UNCHANGED <<raw, process, tx, ghosts>>

UpToDate == version = Known

Opened ==
    /\ mode = "opening" /\ UpToDate
    /\ mode' = "up"
    /\ UNCHANGED <<tables, noting, anchor, armed, opens, tx, ghosts>>

-----------------------------------------------------------------------------
(* Writing *)

\* The anchor moves whether or not the batch is committed.
MutNoted(ok, times) == Max(times)

(***************************************************************************)
(* What is left to note after a batch: only a committed one moves the      *)
(* anchor.                                                                 *)
(***************************************************************************)
Noted(ok, times) == IF ok THEN Max(times) ELSE 0

(***************************************************************************)
(* WriteSnapshots: a batch of one sample (a = b) or two, in one            *)
(* transaction, which waits for the write lock. INSERT OR REPLACE: a       *)
(* sample takes the row of its time.                                       *)
(***************************************************************************)
WriteSnapshots(a, b, ok) ==
    LET serial(t) == IF t = a THEN said + 1 ELSE said + 2
        new == {[n |-> serial(t), ts |-> t] : t \in {a, b}}
        old == {s \in raw : s.ts \in {a, b}}
    IN /\ mode = "up" /\ tx = NoTx /\ noting = 0
       /\ said' = serial(b) /\ said' <= MaxSamples
       /\ noting' = Noted(ok, {a, b})
       /\ IF ok
          THEN /\ raw' = (raw \ old) \cup new
               /\ replaced' = replaced \cup {s.n : s \in old}
               /\ committed' = committed \cup {[n |-> s.n, ts |-> s.ts, by |-> opens] : s \in new}
          ELSE UNCHANGED <<raw, replaced, committed>>
       /\ UNCHANGED <<version, bucket, mode, anchor, armed, opens, tx, folded, expired, cutoff>>

(***************************************************************************)
(* noteSampleTime, after the commit.                                       *)
(***************************************************************************)
NoteSampleTime ==
    /\ mode = "up" /\ noting # 0
    /\ anchor' = Max({anchor, noting}) /\ noting' = 0
    /\ UNCHANGED <<tables, mode, armed, opens, tx, ghosts>>

-----------------------------------------------------------------------------
(* Compacting *)

RawCutoff    == armed - RawRetention
BucketCutoff == armed - BucketRetention

Key(t) == (t \div BucketWidth) * BucketWidth

(***************************************************************************)
(* RunCompactor: the anchor is read, and nothing is done without one.      *)
(***************************************************************************)
ReadAnchor ==
    /\ mode = "up" /\ armed = 0 /\ anchor # 0
    /\ armed' = anchor
    /\ UNCHANGED <<tables, mode, noting, anchor, opens, tx, ghosts>>

Begin ==
    /\ mode = "up" /\ armed # 0 /\ tx = NoTx
    /\ tx' = [at |-> "aggregate", raw |-> raw, bucket |-> bucket, folded |-> folded,
              expired |-> expired]
    /\ UNCHANGED <<tables, process, ghosts>>

\* A bucket folded again keeps the newer mean.
MutMerged(row, new) ==
    [mean |-> new.mean, count |-> row.count + new.count,
     width |-> Max({row.width, new.width}), peak |-> Max({row.peak, new.peak})]

(***************************************************************************)
(* ON CONFLICT: the stored row and the new one, merged by sample count.    *)
(***************************************************************************)
Merged(row, new) ==
    [mean |-> [num |-> row.mean.num * row.count * new.mean.den
                     + new.mean.num * new.count * row.mean.den,
               den |-> row.mean.den * new.mean.den * (row.count + new.count)],
     count |-> row.count + new.count,
     width |-> Max({row.width, new.width}), peak |-> Max({row.peak, new.peak})]

(***************************************************************************)
(* The sum of the values of some serials, as the size of a set: what they  *)
(* gain, less what they lose.                                              *)
(***************************************************************************)
Units(serials, sign) == UNION {{n} \X (1 .. sign * Value(n)) : n \in serials}

Total(serials) == Cardinality(Units(serials, 1)) - Cardinality(Units(serials, -1))

Serials(rows) == {s.n : s \in rows}

(***************************************************************************)
(* The row of the samples that share a bucket.                             *)
(***************************************************************************)
Aggregate(samples) ==
    [mean |-> [num |-> Total(Serials(samples)), den |-> Cardinality(samples)],
     count |-> Cardinality(samples),
     width |-> BucketWidth, peak |-> Max({Peak(s.n) : s \in samples})]

Old(rows) == {s \in rows : s.ts < RawCutoff}

(***************************************************************************)
(* aggregateSQL                                                            *)
(***************************************************************************)
Fold ==
    LET old == Old(tx.raw)
        new == [k \in {Key(s.ts) : s \in old} |-> Aggregate({s \in old : Key(s.ts) = k})]
    IN /\ tx.at = "aggregate"
       /\ tx' = [tx EXCEPT
            !.at = "deleteRaw",
            !.bucket = [k \in DOMAIN tx.bucket \cup DOMAIN new |->
                IF k \notin DOMAIN new THEN tx.bucket[k]
                ELSE IF k \notin DOMAIN tx.bucket THEN new[k]
                ELSE Merged(tx.bucket[k], new[k])],
            !.folded = tx.folded \cup {[n |-> s.n, ts |-> s.ts, key |-> Key(s.ts),
                                        width |-> BucketWidth] : s \in old}]
       /\ UNCHANGED <<tables, process, ghosts>>

\* The old samples stay.
MutKeptAllRaw(rows) == rows

(***************************************************************************)
(* deleteRawSQL                                                            *)
(***************************************************************************)
KeptRaw(rows) == {s \in rows : s.ts >= RawCutoff}

DeleteRaw ==
    /\ tx.at = "deleteRaw"
    /\ tx' = [tx EXCEPT !.at = "deleteBucket", !.raw = KeptRaw(tx.raw)]
    /\ UNCHANGED <<tables, process, ghosts>>

(***************************************************************************)
(* deleteBucketSQL                                                         *)
(***************************************************************************)
KeptBuckets(keys) == {k \in keys : k >= BucketCutoff}

DeleteBucket ==
    /\ tx.at = "deleteBucket"
    /\ LET kept == KeptBuckets(DOMAIN tx.bucket)
       IN tx' = [tx EXCEPT
            !.at = "commit",
            !.bucket = [k \in kept |-> tx.bucket[k]],
            !.folded = {p \in tx.folded : p.key \in kept},
            !.expired = tx.expired \cup {[n |-> p.n, ts |-> p.ts, by |-> opens] :
                                            p \in {q \in tx.folded : q.key \notin kept}}]
    /\ UNCHANGED <<tables, process, ghosts>>

Commit ==
    /\ tx.at = "commit"
    /\ raw' = tx.raw /\ bucket' = tx.bucket /\ folded' = tx.folded /\ expired' = tx.expired
    /\ cutoff' = IF RawCutoff >= cutoff.at THEN [at |-> RawCutoff, said |-> said] ELSE cutoff
    /\ tx' = NoTx /\ armed' = 0
    /\ UNCHANGED <<version, mode, noting, anchor, opens, said, replaced, committed>>

(***************************************************************************)
(* A statement fails or shutdown cancels the run: rolled back, and tried   *)
(* again at the next tick of the compactor.                                *)
(***************************************************************************)
RollBack ==
    /\ tx # NoTx
    /\ tx' = NoTx /\ armed' = 0
    /\ UNCHANGED <<tables, mode, noting, anchor, opens, ghosts>>

-----------------------------------------------------------------------------
(* Crash and restart *)

Kill ==
    /\ mode \in {"opening", "up"}
    /\ mode' = "killed"
    /\ tx' = NoTx /\ noting' = 0 /\ anchor' = 0 /\ armed' = 0
    /\ UNCHANGED <<tables, opens, ghosts>>

Restart ==
    /\ mode = "killed" /\ opens < MaxOpens
    /\ mode' = "opening" /\ opens' = opens + 1
    /\ UNCHANGED <<tables, noting, anchor, armed, tx, ghosts>>

Compact == ReadAnchor \/ Begin \/ Fold \/ DeleteRaw \/ DeleteBucket \/ Commit \/ RollBack

RetentionNext ==
    \/ Refuse \/ Migrate \/ Opened
    \/ \E a, b \in Times, ok \in BOOLEAN : a <= b /\ WriteSnapshots(a, b, ok)
    \/ NoteSampleTime \/ Compact
    \/ Kill \/ Restart

RetentionSpec == RetentionInit /\ [][RetentionNext]_retentionVars

-----------------------------------------------------------------------------

(***************************************************************************)
(* Every committed sample is in exactly one place: its raw row, its        *)
(* bucket, expired with one, or replaced.                                  *)
(***************************************************************************)
OnePlace(rows, parts, gone) ==
    /\ Serials(committed) = Serials(rows) \cup Serials(parts) \cup Serials(gone) \cup replaced
    /\ Serials(rows) \cap Serials(parts) = {}
    /\ Serials(rows) \cap Serials(gone) = {}
    /\ Serials(parts) \cap Serials(gone) = {}
    /\ replaced \cap (Serials(rows) \cup Serials(parts) \cup Serials(gone)) = {}

(***************************************************************************)
(* Compact's promise that a failure cannot leave samples counted twice or  *)
(* dropped without being aggregated first, for what a history query reads: *)
(* every committed sample is in one place, and every bucket is the mean of *)
(* everything that ever went into it, in however many runs.                *)
(***************************************************************************)
CountedOnce ==
    /\ OnePlace(raw, folded, expired)
    /\ DOMAIN bucket = {p.key : p \in folded}
    /\ \A k \in DOMAIN bucket :
          LET row   == bucket[k]
              parts == Serials({p \in folded : p.key = k})
          IN /\ row.count = Cardinality(parts)
             /\ row.mean.den > 0 /\ row.mean.num * row.count = row.mean.den * Total(parts)
             /\ row.peak = Max({Peak(n) : n \in parts})

(***************************************************************************)
(* "Every row carries its own" width: once migrated, a bucket says the     *)
(* widest window it was folded with, and covers its samples.               *)
(***************************************************************************)
WidthIsTrue ==
    version = Known => \A p \in folded :
        /\ bucket[p.key].width = Max({q.width : q \in {r \in folded : r.key = p.key}})
        /\ p.key <= p.ts /\ p.ts < p.key + bucket[p.key].width

(***************************************************************************)
(* Retention is measured against the data's own time: a sample expires     *)
(* only when the process that deletes it has committed one that is younger *)
(* by the retention, less the width of a bucket.                           *)
(***************************************************************************)
ExpiresOnlyOld ==
    \A x \in expired : \E s \in committed :
        s.by = x.by /\ s.ts - x.ts > BucketRetention - BucketWidth

(***************************************************************************)
(* A run leaves nothing behind: a raw sample older than the newest cutoff  *)
(* came after the run with that cutoff.                                    *)
(***************************************************************************)
OldRawIsLate == \A s \in raw : s.ts < cutoff.at => s.n > cutoff.said

=============================================================================
