--------------------------- MODULE RetentionProofs ---------------------------
(***************************************************************************)
(* Proofs about the retention of the history: for any retention, bucket    *)
(* width and sample times, and with any failure or crash, no sample is     *)
(* lost or counted twice, none expires early, and no old one stays behind. *)
(*                                                                         *)
(* The compactor's transaction is the only writer while it is open, so its *)
(* copy is always the tables after the statements it has run (CopyInv);    *)
(* that is what carries each property over the commit.                     *)
(***************************************************************************)
EXTENDS Compaction, FiniteSetTheorems, WellFoundedInduction, TLAPS

Sample  == [n : Nat, ts : Nat]
Part    == [n : Nat, ts : Nat, key : Int, width : Nat]
Expired == [n : Nat, ts : Nat, by : Nat]

\* The parts of a bucket lie in its window, each with a serial of its own.
GoodParts(parts) ==
    /\ parts \subseteq Part
    /\ \A p, q \in parts : p.n = q.n => p = q
    /\ \A p \in parts : p.key <= p.ts /\ p.ts < p.key + BucketWidth

\* Expired by a process that has committed a sample so much younger.
GoodExpired(gone) ==
    /\ gone \subseteq Expired
    /\ \A x \in gone : \E s \in committed :
          s.by = x.by /\ s.ts - x.ts > BucketRetention - BucketWidth

RowsInv ==
    /\ said \in Nat /\ opens \in Nat
    /\ raw \subseteq Sample /\ committed \subseteq Expired /\ replaced \subseteq Nat
    /\ \A s \in committed : s.n <= said
    /\ \A r, q \in raw : r.n = q.n => r = q
    /\ GoodParts(folded) /\ GoodExpired(expired)
    /\ cutoff \in [at : Int, said : Nat] /\ cutoff.said <= said

\* The anchor, wherever it has got to, is the time of a sample this process
\* has committed; a process that is not up has none.
AnchorInv ==
    /\ {noting, anchor, armed} \subseteq Nat
    /\ \A t \in {noting, anchor, armed} \ {0} :
          \E s \in committed : s.by = opens /\ s.ts = t
    /\ mode # "up" => noting = 0 /\ anchor = 0 /\ armed = 0 /\ tx = NoTx

\* The transaction's copy, statement by statement.
CopyInv ==
    \/ tx = NoTx
    \/ /\ armed # 0
       /\ tx = [at |-> tx.at, raw |-> tx.raw, bucket |-> tx.bucket, folded |-> tx.folded,
                expired |-> tx.expired]
       /\ tx.at \in {"aggregate", "deleteRaw", "deleteBucket", "commit"}
       /\ tx.raw = IF tx.at \in {"aggregate", "deleteRaw"} THEN raw ELSE KeptRaw(raw)
       /\ GoodParts(tx.folded) /\ GoodExpired(tx.expired)
       /\ DOMAIN tx.bucket = {p.key : p \in tx.folded}
       /\ OnePlace(IF tx.at = "aggregate" THEN raw ELSE KeptRaw(raw), tx.folded, tx.expired)

RetentionInv ==
    /\ RowsInv /\ AnchorInv /\ CopyInv
    /\ OnePlace(raw, folded, expired) /\ OldRawIsLate
    /\ DOMAIN bucket = {p.key : p \in folded}

-----------------------------------------------------------------------------

LEMMA KeyCovers ==
    ASSUME NEW t \in Nat
    PROVE  Key(t) \in Int /\ Key(t) <= t /\ t < Key(t) + BucketWidth
BY RetentionAssumption DEF Key

LEMMA MaxOfTwo ==
    ASSUME NEW a \in Nat, NEW b \in Nat
    PROVE  Max({a, b}) \in {a, b} /\ Max({a, b}) >= a /\ Max({a, b}) >= b
<1>1. \E x \in {a, b} : \A y \in {a, b} : x >= y
  <2>1. CASE a >= b
    BY <2>1
  <2>2. CASE b >= a
    BY <2>2
  <2> QED BY <2>1, <2>2
<1> QED BY <1>1 DEF Max

\* Two sets whose members pair up by serial have the same serials.
LEMMA SameSerials ==
    ASSUME NEW S, NEW T,
           \A s \in S : \E t \in T : t.n = s.n,
           \A t \in T : \E s \in S : s.n = t.n
    PROVE  Serials(S) = Serials(T)
BY DEF Serials

\* KeptRaw and Old split the rows.
LEMMA SplitRows ==
    ASSUME NEW rows \in SUBSET Sample, armed \in Nat
    PROVE  KeptRaw(rows) = rows \ Old(rows) /\ Old(rows) \subseteq rows
BY RetentionAssumption DEF KeptRaw, Old, RawCutoff, Sample

LEMMA InitHolds == RetentionInit => RetentionInv
<1> SUFFICES ASSUME RetentionInit PROVE RetentionInv
  OBVIOUS
<1>1. /\ raw = {} /\ replaced = {} /\ expired = {} /\ tx = NoTx /\ noting = 0 /\ anchor = 0
      /\ armed = 0 /\ opens = 1 /\ cutoff = [at |-> 0, said |-> 0]
  BY DEF RetentionInit
<1>2. AnchorInv /\ CopyInv /\ OldRawIsLate
  BY <1>1 DEF AnchorInv, CopyInv, OldRawIsLate
<1>3. CASE bucket = <<>> /\ folded = {} /\ committed = {} /\ said = 0
  <2>1. RowsInv
    BY <1>1, <1>3 DEF RowsInv, GoodParts, GoodExpired
  <2>2. OnePlace(raw, folded, expired) /\ DOMAIN bucket = {p.key : p \in folded}
    BY <1>1, <1>3 DEF OnePlace, Serials
  <2> QED BY <1>2, <2>1, <2>2 DEF RetentionInv
<1>4. CASE /\ DOMAIN bucket = {1} /\ said = 1
           /\ folded = {[n |-> 1, ts |-> 1, key |-> 1, width |-> Minute]}
           /\ committed = {[n |-> 1, ts |-> 1, by |-> 0]}
  <2>1. GoodParts(folded)
    BY <1>4, RetentionAssumption DEF GoodParts, Part, Minute
  <2>2. RowsInv
    BY <1>1, <1>4, <2>1 DEF RowsInv, GoodExpired, Expired
  <2>3. OnePlace(raw, folded, expired)
    BY <1>1, <1>4 DEF OnePlace, Serials
  <2>4. DOMAIN bucket = {p.key : p \in folded}
    BY <1>4
  <2> QED BY <1>2, <2>2, <2>3, <2>4 DEF RetentionInv
<1> QED BY <1>3, <1>4 DEF RetentionInit

-----------------------------------------------------------------------------
(* The steps that carry the invariant *)

(***************************************************************************)
(* A batch: its serials are new, and a row that is replaced leaves the raw *)
(* rows with its serial.                                                   *)
(***************************************************************************)
LEMMA BatchKeeps ==
    ASSUME RetentionInv, NEW a \in Times, NEW b \in Times, NEW ok \in BOOLEAN,
           WriteSnapshots(a, b, ok)
    PROVE  RetentionInv'
<1> DEFINE serial(t) == IF t = a THEN said + 1 ELSE said + 2
           new == {[n |-> serial(t), ts |-> t] : t \in {a, b}}
           old == {s \in raw : s.ts \in {a, b}}
           noted == {[n |-> s.n, ts |-> s.ts, by |-> opens] : s \in new}
<1> USE DEF RetentionInv
<1>1. a \in Nat \ {0} /\ b \in Nat \ {0} /\ said \in Nat /\ opens \in Nat
  BY RetentionAssumption DEF RowsInv
<1>2. /\ mode = "up" /\ tx = NoTx /\ said' = serial(b) /\ noting' = Noted(ok, {a, b})
      /\ UNCHANGED <<mode, anchor, armed, opens, tx, folded, expired, cutoff>>
      /\ ok => /\ raw' = (raw \ old) \cup new /\ replaced' = replaced \cup Serials(old)
               /\ committed' = committed \cup noted
      /\ ~ok => UNCHANGED <<raw, replaced, committed>>
  BY DEF WriteSnapshots, Serials
<1>3. /\ new \subseteq Sample /\ \A s \in new : said < s.n /\ s.n <= said'
      /\ \A r, q \in new : r.n = q.n => r = q
      /\ said' \in Nat /\ said <= said'
  BY <1>1, <1>2 DEF Sample
<1>4. noted \subseteq Expired /\ Serials(noted) = Serials(new)
  <2>1. noted \subseteq Expired
    BY <1>1, <1>3 DEF Sample, Expired
  <2>2. ASSUME NEW s \in new PROVE \E t \in noted : t.n = s.n
    <3> DEFINE t == [n |-> s.n, ts |-> s.ts, by |-> opens]
    <3>1. t \in noted /\ t.n = s.n
      OBVIOUS
    <3> QED BY <3>1
  <2>3. ASSUME NEW t \in noted PROVE \E s \in new : s.n = t.n
    <3>1. PICK s \in new : t = [n |-> s.n, ts |-> s.ts, by |-> opens]
      OBVIOUS
    <3> QED BY <3>1
  <2>4. Serials(noted) = Serials(new)
    <3> HIDE DEF noted, new
    <3> QED BY <2>2, <2>3, SameSerials
  <2> QED BY <2>1, <2>4
<1>5. \A s \in raw : s.n <= said
  BY DEF OnePlace, Serials, RowsInv
<1>6. CopyInv'
  BY <1>2 DEF CopyInv
<1>0. (DOMAIN bucket)' = {p.key : p \in folded'}
  BY DEF WriteSnapshots
<1>7. CASE ~ok
  <2>1. noting' = 0
    BY <1>2, <1>7 DEF Noted
  <2>2. RowsInv'
    <3>1. \A s \in committed : s.n <= said'
      BY <1>1, <1>3 DEF RowsInv, Expired
    <3>2. GoodParts(folded)' /\ GoodExpired(expired)'
      BY <1>2, <1>7 DEF RowsInv, GoodExpired, GoodParts
    <3>3. cutoff \in [at : Int, said : Nat] /\ cutoff.said <= said'
      BY <1>1, <1>3 DEF RowsInv
    <3> HIDE DEF new, old, noted
    <3> QED BY <1>1, <1>2, <1>3, <1>7, <3>1, <3>2, <3>3 DEF RowsInv
  <2>3. AnchorInv'
    <3>1. \A t \in {anchor, armed} \ {0} : \E s \in committed : s.by = opens /\ s.ts = t
      BY DEF AnchorInv
    <3>2. {0, anchor, armed} \subseteq Nat
      BY DEF AnchorInv
    <3> QED BY <1>2, <1>7, <2>1, <3>1, <3>2 DEF AnchorInv
  <2>4. OnePlace(raw, folded, expired)'
    BY <1>2, <1>7 DEF OnePlace, Serials
  <2>5. OldRawIsLate'
    BY <1>2, <1>7 DEF OldRawIsLate
  <2> QED BY <1>6, <1>0, <2>2, <2>3, <2>4, <2>5
<1>8. CASE ok
  <2> USE <1>8
  <2>1. noting' \in {a, b}
    BY <1>1, <1>2, MaxOfTwo DEF Noted
  <2>2. ASSUME NEW t \in {a, b}
        PROVE  \E s \in noted : s.by = opens /\ s.ts = t
    <3>1. [n |-> serial(t), ts |-> t] \in new
      OBVIOUS
    <3> DEFINE s == [n |-> serial(t), ts |-> t, by |-> opens]
    <3>2. s \in noted
      BY <3>1
    <3>3. s.by = opens /\ s.ts = t
      OBVIOUS
    <3> QED BY <3>2, <3>3
  <2>3. RowsInv'
    <3>1. raw' \subseteq Sample /\ committed' \subseteq Expired /\ replaced' \subseteq Nat
      <4>1. Serials(old) \subseteq Nat
        BY DEF RowsInv, Serials, Sample
      <4> HIDE DEF new, noted
      <4> QED BY <1>2, <1>3, <1>4, <4>1 DEF RowsInv
    <3>2. \A s \in committed' : s.n <= said'
      BY <1>1, <1>2, <1>3 DEF RowsInv, Expired, Sample
    <3>3. \A r, q \in raw' : r.n = q.n => r = q
      BY <1>1, <1>2, <1>3, <1>5 DEF RowsInv, Sample
    <3>4. GoodParts(folded)' /\ GoodExpired(expired)'
      BY <1>2 DEF RowsInv, GoodParts, GoodExpired
    <3> QED BY <1>1, <1>2, <1>3, <3>1, <3>2, <3>3, <3>4 DEF RowsInv
  <2>4. AnchorInv'
    <3>1. \A t \in {anchor, armed} \ {0} : \E s \in committed : s.by = opens /\ s.ts = t
      BY DEF AnchorInv
    <3>2. \E s \in noted : s.by = opens /\ s.ts = noting'
      BY <2>1, <2>2
    <3>3. noting' \in Nat /\ anchor \in Nat /\ armed \in Nat
      BY <1>1, <2>1 DEF AnchorInv
    <3> HIDE DEF noted
    <3> QED BY <1>2, <3>1, <3>2, <3>3 DEF AnchorInv
  <2>5. OnePlace(raw, folded, expired)'
    <3>1. Serials(raw') = (Serials(raw) \ Serials(old)) \cup Serials(new)
      BY <1>2 DEF Serials, RowsInv
    <3>2. Serials(committed') = Serials(committed) \cup Serials(new)
      BY <1>2, <1>4 DEF Serials
    <3>3. Serials(new) \cap Serials(committed) = {}
      BY <1>1, <1>3 DEF Serials, RowsInv, Sample, Expired
    <3>4. Serials(old) \subseteq Serials(raw)
      BY DEF Serials
    <3> HIDE DEF new, old, noted
    <3> QED BY <1>2, <3>1, <3>2, <3>3, <3>4 DEF OnePlace
  <2>6. OldRawIsLate'
    BY <1>1, <1>2, <1>3 DEF OldRawIsLate, RowsInv, Sample
  <2> QED BY <1>6, <1>0, <2>3, <2>4, <2>5, <2>6
<1> QED BY <1>7, <1>8

(***************************************************************************)
(* The fold: the old rows' serials are in a bucket of the copy, and in the *)
(* rows it is about to delete.                                             *)
(***************************************************************************)
LEMMA FoldKeeps ==
    ASSUME RetentionInv, Fold
    PROVE  CopyInv'
<1> DEFINE old == Old(raw)
           parts == {[n |-> s.n, ts |-> s.ts, key |-> Key(s.ts), width |-> BucketWidth] : s \in old}
<1> USE DEF RetentionInv
<1>1. /\ tx.at = "aggregate" /\ tx # NoTx /\ armed # 0 /\ armed \in Nat /\ raw \in SUBSET Sample
      /\ tx.raw = raw /\ OnePlace(raw, tx.folded, tx.expired)
      /\ GoodParts(tx.folded) /\ GoodExpired(tx.expired)
  BY DEF Fold, CopyInv, NoTx, AnchorInv, RowsInv
<1>2. UNCHANGED <<armed, raw, committed, replaced>>
  BY DEF Fold, tables, process, ghosts
<1>3. /\ tx'.at = "deleteRaw" /\ tx'.raw = raw /\ tx'.expired = tx.expired
      /\ tx'.folded = tx.folded \cup parts
      /\ tx' = [at |-> tx'.at, raw |-> tx'.raw, bucket |-> tx'.bucket, folded |-> tx'.folded,
                expired |-> tx'.expired]
  BY <1>1 DEF Fold, CopyInv, Old
<1>4. KeptRaw(raw) = raw \ old /\ old \subseteq raw
  BY <1>1, SplitRows
<1>5. GoodParts(parts)
  <2>0. \A r, q \in old : r.n = q.n => r = q
    BY <1>4 DEF RowsInv
  <2> SUFFICES ASSUME NEW s \in old
               PROVE  /\ [n |-> s.n, ts |-> s.ts, key |-> Key(s.ts), width |-> BucketWidth] \in Part
                      /\ Key(s.ts) <= s.ts /\ s.ts < Key(s.ts) + BucketWidth
    BY <2>0 DEF GoodParts
  <2>1. s.n \in Nat /\ s.ts \in Nat
    BY <1>1, <1>4 DEF Sample
  <2> QED BY <2>1, KeyCovers, RetentionAssumption DEF Part
<1>6. Serials(parts) = Serials(old) /\ Serials(KeptRaw(raw)) = Serials(raw) \ Serials(old)
      /\ Serials(old) \subseteq Serials(raw)
  <2>5. ASSUME NEW s \in old PROVE \E p \in parts : p.n = s.n
    <3> DEFINE p == [n |-> s.n, ts |-> s.ts, key |-> Key(s.ts), width |-> BucketWidth]
    <3>1. p \in parts /\ p.n = s.n
      OBVIOUS
    <3> QED BY <3>1
  <2>6. ASSUME NEW p \in parts PROVE \E s \in old : s.n = p.n
    OBVIOUS
  <2>1. Serials(parts) = Serials(old)
    <3> HIDE DEF parts, old
    <3> QED BY <2>5, <2>6, SameSerials
  <2> HIDE DEF old, parts
  <2>2. \A r, q \in raw : r.n = q.n => r = q
    BY DEF RowsInv
  <2>3. Serials(KeptRaw(raw)) = Serials(raw) \ Serials(old)
    BY <1>4, <2>2 DEF Serials
  <2> QED BY <1>4, <2>1, <2>3 DEF Serials
<1>7. Serials(tx.folded \cup parts) = Serials(tx.folded) \cup Serials(parts)
  BY DEF Serials
<1>0. DOMAIN tx'.bucket = {p.key : p \in tx.folded \cup parts}
  <2>1. DOMAIN tx'.bucket = DOMAIN tx.bucket \cup {Key(s.ts) : s \in old}
    BY <1>1 DEF Fold, CopyInv
  <2>2. DOMAIN tx.bucket = {p.key : p \in tx.folded}
    BY <1>1 DEF CopyInv
  <2>3. {p.key : p \in parts} = {Key(s.ts) : s \in old}
    <3>1. ASSUME NEW s \in old PROVE Key(s.ts) \in {p.key : p \in parts}
      <4> DEFINE p == [n |-> s.n, ts |-> s.ts, key |-> Key(s.ts), width |-> BucketWidth]
      <4>1. p \in parts /\ p.key = Key(s.ts)
        OBVIOUS
      <4> HIDE DEF parts, p
      <4> QED BY <4>1
    <3>2. \A p \in parts : p.key \in {Key(s.ts) : s \in old}
      OBVIOUS
    <3> HIDE DEF parts
    <3> QED BY <3>1, <3>2
  <2> QED BY <2>1, <2>2, <2>3
<1> HIDE DEF old, parts
<1>8. OnePlace(KeptRaw(raw), tx.folded \cup parts, tx.expired)
  BY <1>1, <1>6, <1>7 DEF OnePlace
<1>9. GoodParts(tx.folded \cup parts)
  <2>1. Serials(tx.folded) \cap Serials(parts) = {}
    BY <1>1, <1>6 DEF OnePlace
  <2>2. \A p \in tx.folded, q \in parts : p.n # q.n
    BY <2>1 DEF Serials
  <2> QED BY <1>1, <1>5, <2>2 DEF GoodParts
<1>10. KeptRaw(raw)' = KeptRaw(raw)
  BY <1>2 DEF KeptRaw, RawCutoff
<1>11. OnePlace(KeptRaw(raw), tx.folded, tx.expired)'
  BY <1>2, <1>3, <1>8, <1>10 DEF OnePlace
<1>12. GoodParts(tx.folded)' /\ GoodExpired(tx.expired)'
  BY <1>1, <1>2, <1>3, <1>9 DEF GoodParts, GoodExpired
<1> QED BY <1>1, <1>2, <1>3, <1>0, <1>11, <1>12 DEF CopyInv

(***************************************************************************)
(* The delete of buckets: what goes is older than the retention allows,    *)
(* measured against a sample of this process, less a bucket's width.       *)
(***************************************************************************)
LEMMA DeleteBucketKeeps ==
    ASSUME RetentionInv, DeleteBucket
    PROVE  CopyInv'
<1> DEFINE kept == KeptBuckets(DOMAIN tx.bucket)
           stay == {p \in tx.folded : p.key \in kept}
           gone == {p \in tx.folded : p.key \notin kept}
           new == {[n |-> p.n, ts |-> p.ts, by |-> opens] : p \in gone}
<1> USE DEF RetentionInv
<1>1. /\ tx.at = "deleteBucket" /\ tx # NoTx /\ armed # 0 /\ armed \in Nat /\ opens \in Nat
      /\ tx.raw = KeptRaw(raw) /\ OnePlace(KeptRaw(raw), tx.folded, tx.expired)
      /\ GoodParts(tx.folded) /\ GoodExpired(tx.expired)
  BY DEF DeleteBucket, CopyInv, NoTx, AnchorInv, RowsInv
<1>2. UNCHANGED <<armed, raw, committed, replaced>>
  BY DEF DeleteBucket, tables, process, ghosts
<1>3. /\ tx'.at = "commit" /\ tx'.raw = tx.raw /\ tx'.folded = stay
      /\ tx'.expired = tx.expired \cup new
      /\ tx' = [at |-> tx'.at, raw |-> tx'.raw, bucket |-> tx'.bucket, folded |-> tx'.folded,
                expired |-> tx'.expired]
  BY <1>1 DEF DeleteBucket, CopyInv
<1>4. PICK s \in committed : s.by = opens /\ s.ts = armed
  BY <1>1 DEF AnchorInv
<1>5. \A k \in DOMAIN tx.bucket : k \notin kept => ~(k >= BucketCutoff)
  BY DEF KeptBuckets
<1>6. GoodExpired(tx.expired \cup new)
  <2> SUFFICES ASSUME NEW p \in gone
               PROVE  /\ [n |-> p.n, ts |-> p.ts, by |-> opens] \in Expired
                      /\ s.ts - p.ts > BucketRetention - BucketWidth
    BY <1>1, <1>4 DEF GoodExpired
  <2>1. p \in Part /\ p.ts < p.key + BucketWidth
    BY <1>1 DEF GoodParts
  <2>2. p.key \in DOMAIN tx.bucket
    BY <1>1 DEF CopyInv
  <2>3. p.key < BucketCutoff
    BY <1>1, <1>5, <2>1, <2>2, RetentionAssumption DEF BucketCutoff, Part
  <2> QED BY <1>1, <1>4, <2>1, <2>3, RetentionAssumption DEF BucketCutoff, Part, Expired
<1>7. Serials(tx.expired \cup new) = Serials(tx.expired) \cup Serials(gone)
  <2>3. ASSUME NEW p \in gone PROVE \E x \in new : x.n = p.n
    <3> DEFINE x == [n |-> p.n, ts |-> p.ts, by |-> opens]
    <3>1. x \in new /\ x.n = p.n
      OBVIOUS
    <3> QED BY <3>1
  <2>4. ASSUME NEW x \in new PROVE \E p \in gone : p.n = x.n
    OBVIOUS
  <2>1. Serials(new) = Serials(gone)
    <3> HIDE DEF new, gone
    <3> QED BY <2>3, <2>4, SameSerials
  <2> HIDE DEF new, gone
  <2>2. Serials(tx.expired \cup new) = Serials(tx.expired) \cup Serials(new)
    BY DEF Serials
  <2> QED BY <2>1, <2>2
<1>8. Serials(stay) \cup Serials(gone) = Serials(tx.folded)
  BY DEF Serials
<1>9. Serials(stay) \cap Serials(gone) = {}
  BY <1>1 DEF GoodParts, Serials
<1>0. DOMAIN tx'.bucket = {p.key : p \in stay}
  <2>1. DOMAIN tx'.bucket = kept
    BY <1>1 DEF DeleteBucket, CopyInv
  <2>2. DOMAIN tx.bucket = {p.key : p \in tx.folded} /\ kept \subseteq DOMAIN tx.bucket
    BY <1>1 DEF CopyInv, KeptBuckets
  <2>3. {p.key : p \in stay} = kept
    <3>1. ASSUME NEW k \in kept PROVE k \in {p.key : p \in stay}
      <4>1. PICK p \in tx.folded : p.key = k
        BY <2>2
      <4>2. p \in stay
        BY <4>1
      <4> HIDE DEF stay
      <4> QED BY <4>1, <4>2
    <3>2. \A p \in stay : p.key \in kept
      OBVIOUS
    <3> HIDE DEF stay, kept
    <3> QED BY <3>1, <3>2
  <2> QED BY <2>1, <2>3
<1> HIDE DEF stay, gone, new
<1>10. OnePlace(KeptRaw(raw), stay, tx.expired \cup new)
  BY <1>1, <1>7, <1>8, <1>9 DEF OnePlace
<1>11. GoodParts(stay)
  BY <1>1 DEF GoodParts, stay
<1>12. KeptRaw(raw)' = KeptRaw(raw)
  BY <1>2 DEF KeptRaw, RawCutoff
<1>13. OnePlace(KeptRaw(raw), tx.folded, tx.expired)'
  BY <1>2, <1>3, <1>10, <1>12 DEF OnePlace
<1>14. GoodParts(tx.folded)' /\ GoodExpired(tx.expired)'
  BY <1>2, <1>3, <1>6, <1>11 DEF GoodParts, GoodExpired
<1> QED BY <1>1, <1>2, <1>3, <1>0, <1>12, <1>13, <1>14 DEF CopyInv

-----------------------------------------------------------------------------
(* The induction *)

(***************************************************************************)
(* What a step that leaves the tables alone does to the properties.        *)
(***************************************************************************)
LEMMA SameTables ==
    ASSUME RetentionInv, UNCHANGED <<raw, folded, expired, replaced, committed, said, opens, cutoff>>
    PROVE  RowsInv' /\ OnePlace(raw, folded, expired)' /\ OldRawIsLate'
<1>1. RowsInv'
  <2>1. GoodParts(folded)' /\ GoodExpired(expired)'
    BY DEF RetentionInv, RowsInv, GoodParts, GoodExpired
  <2> QED BY <2>1 DEF RetentionInv, RowsInv
<1>2. OnePlace(raw, folded, expired)' /\ OldRawIsLate'
  BY DEF RetentionInv, OnePlace, Serials, OldRawIsLate
<1> QED BY <1>1, <1>2

\* The copy stays what it was.
LEMMA SameCopy ==
    ASSUME RetentionInv, UNCHANGED <<tx, armed, raw, replaced, committed>>
    PROVE  CopyInv'
<1>1. KeptRaw(raw)' = KeptRaw(raw)
  BY DEF KeptRaw, RawCutoff
<1>3. GoodParts(tx.folded)' = GoodParts(tx.folded) /\ GoodExpired(tx.expired)' = GoodExpired(tx.expired)
  BY DEF GoodParts, GoodExpired
<1>4. OnePlace(IF tx.at = "aggregate" THEN raw ELSE KeptRaw(raw), tx.folded, tx.expired)'
      = OnePlace(IF tx.at = "aggregate" THEN raw ELSE KeptRaw(raw), tx.folded, tx.expired)
  BY <1>1 DEF OnePlace, Serials
<1> QED BY <1>1, <1>3, <1>4 DEF RetentionInv, CopyInv

(***************************************************************************)
(* The commit: the copy becomes the tables.                                *)
(***************************************************************************)
LEMMA CommitKeeps ==
    ASSUME RetentionInv, Commit
    PROVE  RetentionInv'
<1>1. /\ tx.at = "commit" /\ tx.raw = KeptRaw(raw)
      /\ OnePlace(KeptRaw(raw), tx.folded, tx.expired)
      /\ GoodParts(tx.folded) /\ GoodExpired(tx.expired)
      /\ DOMAIN tx.bucket = {p.key : p \in tx.folded}
      /\ armed \in Nat
  BY DEF Commit, RetentionInv, CopyInv, NoTx, AnchorInv
<1>2. KeptRaw(raw) \subseteq raw
  BY DEF KeptRaw
<1>3. /\ raw' = KeptRaw(raw) /\ folded' = tx.folded /\ expired' = tx.expired
      /\ (DOMAIN bucket)' = DOMAIN tx.bucket /\ tx' = NoTx /\ armed' = 0
      /\ UNCHANGED <<mode, noting, anchor, opens, said, replaced, committed>>
      /\ cutoff' = IF RawCutoff >= cutoff.at THEN [at |-> RawCutoff, said |-> said] ELSE cutoff
  BY <1>1 DEF Commit
<1>4. GoodParts(folded)' /\ GoodExpired(expired)'
  BY <1>1, <1>3 DEF GoodParts, GoodExpired
<1>5. cutoff' \in [at : Int, said : Nat] /\ cutoff'.said <= said'
  BY <1>1, <1>3, RetentionAssumption DEF RetentionInv, RowsInv, RawCutoff
<1>6. RowsInv'
  BY <1>2, <1>3, <1>4, <1>5 DEF RetentionInv, RowsInv
<1>7. OnePlace(raw, folded, expired)'
  BY <1>1, <1>3 DEF OnePlace, Serials
<1>8. OldRawIsLate'
  <2>1. \A s \in raw' : s.ts >= RawCutoff /\ s \in raw
    BY <1>3 DEF KeptRaw
  <2>2. RawCutoff \in Int /\ cutoff.at \in Int /\ \A s \in raw : s.ts \in Nat
    BY <1>1, RetentionAssumption DEF RetentionInv, RowsInv, RawCutoff, Sample
  <2>3. CASE RawCutoff >= cutoff.at
    BY <1>3, <2>1, <2>2, <2>3 DEF OldRawIsLate
  <2>4. CASE ~(RawCutoff >= cutoff.at)
    BY <1>3, <2>1, <2>4 DEF OldRawIsLate, RetentionInv
  <2> QED BY <2>3, <2>4
<1>9. AnchorInv' /\ CopyInv'
  BY <1>3 DEF RetentionInv, AnchorInv, CopyInv
<1> QED BY <1>1, <1>3, <1>6, <1>7, <1>8, <1>9 DEF RetentionInv

LEMMA StepKeeps ==
    ASSUME RetentionInv, [RetentionNext]_retentionVars
    PROVE  RetentionInv'
<1>1. ASSUME NEW a \in Times, NEW b \in Times, NEW ok \in BOOLEAN, WriteSnapshots(a, b, ok)
      PROVE  RetentionInv'
  BY <1>1, BatchKeeps
<1>2. CASE Commit
  BY <1>2, CommitKeeps
<1>3. CASE \/ Refuse \/ Migrate \/ Opened \/ NoteSampleTime \/ ReadAnchor \/ Begin \/ Fold \/ DeleteRaw
           \/ DeleteBucket \/ RollBack \/ Kill \/ UNCHANGED retentionVars
  <2>1. /\ UNCHANGED <<raw, folded, expired, replaced, committed, said, opens, cutoff>>
        /\ UNCHANGED DOMAIN bucket
    BY <1>3 DEF Refuse, Migrate, Opened, NoteSampleTime, ReadAnchor, Begin, Fold, DeleteRaw,
                DeleteBucket, RollBack, Kill, retentionVars, tables, process, ghosts, Widened
  <2>2. RowsInv' /\ OnePlace(raw, folded, expired)' /\ OldRawIsLate'
        /\ (DOMAIN bucket)' = {p.key : p \in folded'}
    BY <2>1, SameTables DEF RetentionInv
  <2>3. AnchorInv' /\ CopyInv'
    <3> USE DEF RetentionInv
    <3>1. CASE Refuse \/ Migrate \/ Opened \/ UNCHANGED retentionVars
      <4>1. UNCHANGED <<tx, armed, raw, replaced, committed, noting, anchor, opens>>
        BY <3>1 DEF Refuse, Migrate, Opened, retentionVars, tables, process, ghosts
      <4>2. mode' # "up" => mode # "up" \/ Refuse
        BY <3>1 DEF Refuse, Migrate, Opened, retentionVars, process
      <4>3. Refuse => mode # "up"
        BY DEF Refuse
      <4> QED BY <4>1, <4>2, <4>3, SameCopy DEF AnchorInv
    <3>2. CASE NoteSampleTime
      <4>1. anchor' \in {anchor, noting} /\ noting' = 0
        <5>1. anchor \in Nat /\ noting \in Nat
          BY DEF AnchorInv
        <5> QED BY <3>2, <5>1, MaxOfTwo DEF NoteSampleTime
      <4>2. AnchorInv'
        BY <3>2, <4>1, <2>1 DEF NoteSampleTime, AnchorInv
      <4>3. UNCHANGED <<tx, armed, raw, replaced, committed>>
        BY <3>2 DEF NoteSampleTime, tables, ghosts
      <4> QED BY <4>2, <4>3, SameCopy
    <3>3. CASE ReadAnchor
      <4>1. tx = NoTx
        BY <3>3 DEF ReadAnchor, CopyInv
      <4> QED BY <3>3, <4>1, <2>1 DEF ReadAnchor, AnchorInv, CopyInv
    <3>4. CASE Begin
      <4>1. AnchorInv'
        BY <3>4, <2>1 DEF Begin, AnchorInv, process
      <4>2. GoodParts(folded)' /\ GoodExpired(expired)'
        BY <2>2 DEF RowsInv
      <4>3. /\ tx' = [at |-> "aggregate", raw |-> raw, bucket |-> bucket, folded |-> folded,
                      expired |-> expired]
            /\ armed # 0 /\ armed' = armed /\ bucket' = bucket
        BY <3>4 DEF Begin, process, tables
      <4>4. GoodParts(tx.folded)' /\ GoodExpired(tx.expired)'
        BY <2>1, <4>2, <4>3 DEF GoodParts, GoodExpired
      <4>5. OnePlace(raw, tx.folded, tx.expired)'
        BY <2>1, <2>2, <4>3 DEF OnePlace
      <4> QED BY <2>1, <4>1, <4>3, <4>4, <4>5 DEF CopyInv
    <3>5. CASE Fold
      <4>1. tx.at = "aggregate" /\ UNCHANGED <<mode, noting, anchor, armed, opens>>
        BY <3>5 DEF Fold, process
      <4>2. AnchorInv'
        BY <2>1, <4>1 DEF AnchorInv, NoTx
      <4> QED BY <3>5, <4>2, FoldKeeps
    <3>6. CASE DeleteRaw
      <4>1. /\ tx.at = "deleteRaw" /\ tx # NoTx /\ mode = "up" /\ tx.raw = raw
            /\ UNCHANGED <<mode, noting, anchor, armed, opens>>
        BY <3>6 DEF DeleteRaw, CopyInv, NoTx, process, AnchorInv
      <4>2. AnchorInv'
        BY <2>1, <4>1 DEF AnchorInv
      <4>3. /\ tx' = [at |-> "deleteBucket", raw |-> KeptRaw(raw), bucket |-> tx.bucket,
                      folded |-> tx.folded, expired |-> tx.expired]
        BY <3>6, <4>1 DEF DeleteRaw, CopyInv
      <4>4. KeptRaw(raw)' = KeptRaw(raw)
        BY <2>1, <4>1 DEF KeptRaw, RawCutoff
      <4>5. OnePlace(KeptRaw(raw), tx.folded, tx.expired)'
        BY <2>1, <4>1, <4>3, <4>4 DEF OnePlace, CopyInv
      <4>6. GoodParts(tx.folded)' /\ GoodExpired(tx.expired)'
        BY <2>1, <4>1, <4>3 DEF GoodParts, GoodExpired, CopyInv
      <4> QED BY <4>1, <4>2, <4>3, <4>4, <4>5, <4>6 DEF CopyInv
    <3>7. CASE DeleteBucket
      BY <3>7, <2>1, DeleteBucketKeeps DEF DeleteBucket, AnchorInv, CopyInv, NoTx, process
    <3>8. CASE RollBack \/ Kill
      BY <3>8, <2>1 DEF RollBack, Kill, AnchorInv, CopyInv
    <3> QED BY <1>3, <3>1, <3>2, <3>3, <3>4, <3>5, <3>6, <3>7, <3>8
  <2> QED BY <2>2, <2>3 DEF RetentionInv
<1>4. CASE Restart
  <2>1. /\ mode # "up" /\ mode' = "opening" /\ opens' = opens + 1
        /\ UNCHANGED <<tables, noting, anchor, armed, tx, ghosts>>
    BY <1>4 DEF Restart
  <2>2. AnchorInv' /\ CopyInv'
    BY <2>1 DEF RetentionInv, AnchorInv, CopyInv
  <2>3. GoodParts(folded)' /\ GoodExpired(expired)'
    BY <2>1 DEF RetentionInv, RowsInv, GoodParts, GoodExpired, ghosts
  <2>4. RowsInv'
    BY <2>1, <2>3 DEF RetentionInv, RowsInv, ghosts, tables
  <2>5. OnePlace(raw, folded, expired)' /\ OldRawIsLate' /\ (DOMAIN bucket)' = {p.key : p \in folded'}
    BY <2>1 DEF RetentionInv, OnePlace, Serials, OldRawIsLate, ghosts, tables
  <2> QED BY <2>2, <2>4, <2>5 DEF RetentionInv
<1> QED BY <1>1, <1>2, <1>3, <1>4 DEF RetentionNext, Compact

-----------------------------------------------------------------------------
(* The theorems *)

(***************************************************************************)
(* The inductive invariant holds of every behaviour.                       *)
(***************************************************************************)
THEOREM RetentionHolds == RetentionSpec => []RetentionInv
<1>1. RetentionInit => RetentionInv
  BY InitHolds
<1>2. RetentionInv /\ [RetentionNext]_retentionVars => RetentionInv'
  BY StepKeeps
<1> QED BY <1>1, <1>2, PTL DEF RetentionSpec

(***************************************************************************)
(* Compact's promise, the part about where samples are: every committed    *)
(* sample is in one place, whatever fails and whenever the process dies.   *)
(***************************************************************************)
THEOREM NoSampleLostOrDoubled == RetentionSpec => []OnePlace(raw, folded, expired)
<1>1. RetentionInv => OnePlace(raw, folded, expired)
  BY DEF RetentionInv
<1> QED BY <1>1, RetentionHolds, PTL

(***************************************************************************)
(* deleteBucketSQL's cutoff, anchored on what the process has written:     *)
(* nothing expires before its time.                                        *)
(***************************************************************************)
THEOREM NothingExpiresEarly == RetentionSpec => []ExpiresOnlyOld
<1>1. RetentionInv => ExpiresOnlyOld
  BY DEF RetentionInv, RowsInv, GoodExpired, ExpiresOnlyOld
<1> QED BY <1>1, RetentionHolds, PTL

(***************************************************************************)
(* deleteRawSQL deletes what aggregateSQL folded: no old sample stays raw. *)
(***************************************************************************)
THEOREM NoOldRawStays == RetentionSpec => []OldRawIsLate
<1>1. RetentionInv => OldRawIsLate
  BY DEF RetentionInv
<1> QED BY <1>1, RetentionHolds, PTL

-----------------------------------------------------------------------------
(* The widths *)

\* A bucket says the widest window one of its parts was folded with.
TrueWidths(rows, parts) ==
    \A k \in DOMAIN rows :
        /\ rows[k].width \in Nat
        /\ \E p \in parts : p.key = k /\ p.width = rows[k].width
        /\ \A p \in parts : p.key = k => p.width <= rows[k].width

\* Each part lies in the window it was folded with.
InWindow(parts) == \A p \in parts : p.ts < p.key + p.width

IsRow(row) == row = [mean |-> row.mean, count |-> row.count, width |-> row.width,
                     peak |-> row.peak]

\* Only the older build has written before the migration that adds the widths.
WidthInv ==
    /\ version \in Nat
    /\ mode = "up" => version = Known
    /\ version < Known => /\ \A p \in folded : p.width = Minute
                          /\ \A k \in DOMAIN bucket : IsRow(bucket[k])
    /\ version = Known => TrueWidths(bucket, folded)
    /\ InWindow(folded)
    /\ tx # NoTx => TrueWidths(tx.bucket, tx.folded) /\ InWindow(tx.folded)

LEMMA WidthStart == RetentionInit => WidthInv
<1> SUFFICES ASSUME RetentionInit PROVE WidthInv
  OBVIOUS
<1>1. mode = "opening" /\ tx = NoTx
  BY DEF RetentionInit
<1>2. CASE version \in {0, Known + 1} /\ folded = {} /\ bucket = <<>>
  <2>1. \A k \in DOMAIN bucket : IsRow(bucket[k]) /\ FALSE
    BY <1>2
  <2>2. TrueWidths(bucket, folded) /\ InWindow(folded)
    BY <1>2, <2>1 DEF TrueWidths, InWindow
  <2> QED BY <1>1, <1>2, <2>1, <2>2 DEF WidthInv, Known
<1>3. CASE /\ version = 2 /\ folded = {[n |-> 1, ts |-> 1, key |-> 1, width |-> Minute]}
           /\ bucket = [k \in {1} |-> [mean |-> [num |-> Value(1), den |-> 1], count |-> 1,
                                      width |-> 0, peak |-> Peak(1)]]
  <2>1. \A k \in DOMAIN bucket : IsRow(bucket[k])
    BY <1>3 DEF IsRow
  <2>2. InWindow(folded) /\ \A p \in folded : p.width = Minute
    BY <1>3 DEF InWindow, Minute
  <2> QED BY <1>1, <1>3, <2>1, <2>2 DEF WidthInv, Known
<1> QED BY <1>2, <1>3 DEF RetentionInit

\* The migration gives every row the width its only parts have.
LEMMA MigrateWidths ==
    ASSUME RetentionInv, WidthInv, Migrate
    PROVE  WidthInv'
<1>1. /\ mode = "opening" /\ version < Known /\ version' = version + 1
      /\ UNCHANGED <<mode, tx, folded>>
      /\ bucket' = IF version + 1 = 3 THEN Widened ELSE bucket
  BY DEF Migrate, process, ghosts
<1>2. version \in Nat /\ Known = 3 /\ Minute = 1
  BY DEF WidthInv, Known, Minute
<1>3. \A p \in folded : p.width = Minute
  BY <1>1 DEF WidthInv
<1>4. ASSUME version' = Known PROVE TrueWidths(bucket, folded)'
  <2>1. bucket' = Widened
    BY <1>1, <1>2, <1>4
  <2>2. DOMAIN bucket' = {p.key : p \in folded}
    BY <2>1 DEF Widened, RetentionInv
  <2>3. \A k \in DOMAIN bucket' : bucket'[k].width = Minute
    <3>1. ASSUME NEW k \in DOMAIN bucket
          PROVE  [bucket[k] EXCEPT !.width = Minute].width = Minute
      <4>1. IsRow(bucket[k])
        BY <1>1 DEF WidthInv
      <4> QED BY <4>1 DEF IsRow
    <3> QED BY <2>1, <3>1 DEF Widened
  <2>4. Minute \in Nat /\ \A p \in folded : p.width <= Minute
    BY <1>2, <1>3
  <2> QED BY <1>1, <1>3, <2>2, <2>3, <2>4 DEF TrueWidths
<1>5. InWindow(folded)' /\ (tx # NoTx => TrueWidths(tx.bucket, tx.folded) /\ InWindow(tx.folded))'
  BY <1>1 DEF WidthInv, InWindow, TrueWidths
<1>6. (version < Known => \A k \in DOMAIN bucket : IsRow(bucket[k]))'
  BY <1>1, <1>2 DEF WidthInv
<1> QED BY <1>1, <1>2, <1>3, <1>4, <1>5, <1>6 DEF WidthInv

\* The fold: a new row has the current width, and one folded before the wider
\* of its own and the current one.
LEMMA FoldWidths ==
    ASSUME RetentionInv, WidthInv, Fold
    PROVE  TrueWidths(tx.bucket, tx.folded)' /\ InWindow(tx.folded)'
<1> DEFINE old == Old(tx.raw)
           keys == {Key(s.ts) : s \in old}
           new == [k \in keys |-> Aggregate({s \in old : Key(s.ts) = k})]
           parts == {[n |-> s.n, ts |-> s.ts, key |-> Key(s.ts), width |-> BucketWidth] : s \in old}
<1>1. /\ tx.at = "aggregate" /\ tx # NoTx /\ tx.raw \subseteq Sample /\ old \subseteq tx.raw
      /\ TrueWidths(tx.bucket, tx.folded) /\ InWindow(tx.folded)
      /\ DOMAIN tx.bucket = {p.key : p \in tx.folded}
  BY DEF Fold, RetentionInv, CopyInv, RowsInv, WidthInv, NoTx, Old
<1>2. PICK rows : rows = [k \in DOMAIN tx.bucket \cup keys |->
                             IF k \notin keys THEN tx.bucket[k]
                             ELSE IF k \notin DOMAIN tx.bucket THEN new[k]
                             ELSE Merged(tx.bucket[k], new[k])]
  OBVIOUS
<1>3. tx'.bucket = rows /\ tx'.folded = tx.folded \cup parts
  <2>1. /\ tx = [at |-> tx.at, raw |-> tx.raw, bucket |-> tx.bucket, folded |-> tx.folded,
                 expired |-> tx.expired]
    BY <1>1 DEF RetentionInv, CopyInv
  <2> QED BY <1>2, <2>1 DEF Fold
<1>4. \A k \in keys : new[k].width = BucketWidth
  BY DEF Aggregate
<1>5. BucketWidth \in Nat /\ \A p \in tx.folded : p.width \in Nat
  BY <1>1, RetentionAssumption DEF RetentionInv, CopyInv, GoodParts, Part
<1>6. ASSUME NEW s \in old
      PROVE  \E p \in parts : p.key = Key(s.ts) /\ p.width = BucketWidth
  <2> DEFINE p == [n |-> s.n, ts |-> s.ts, key |-> Key(s.ts), width |-> BucketWidth]
  <2>1. p \in parts /\ p.key = Key(s.ts) /\ p.width = BucketWidth
    OBVIOUS
  <2> HIDE DEF p, parts
  <2> QED BY <2>1
<1>7. \A p \in parts : /\ p.width = BucketWidth /\ p.key \in keys
                       /\ \E s \in old : p.ts = s.ts /\ p.key = Key(s.ts)
  OBVIOUS
<1>8. \A k \in keys : \E p \in parts : p.key = k /\ p.width = BucketWidth
  <2> HIDE DEF parts, old
  <2> QED BY <1>6
<1> HIDE DEF new, parts, keys, old
<1>9. ASSUME NEW k \in DOMAIN tx.bucket \cup keys
      PROVE  /\ rows[k].width \in Nat
             /\ \E p \in tx.folded \cup parts : p.key = k /\ p.width = rows[k].width
             /\ \A p \in tx.folded \cup parts : p.key = k => p.width <= rows[k].width
  <2>1. CASE k \notin keys
    <3>1. k \in DOMAIN tx.bucket /\ rows[k] = tx.bucket[k]
      BY <1>2, <2>1
    <3> QED BY <1>1, <1>7, <2>1, <3>1 DEF TrueWidths
  <2>2. CASE k \in keys /\ k \notin DOMAIN tx.bucket
    <3>1. rows[k].width = BucketWidth
      BY <1>2, <1>4, <2>2
    <3>2. \A p \in tx.folded : p.key # k
      BY <1>1, <2>2
    <3> QED BY <1>5, <1>7, <1>8, <2>2, <3>1, <3>2
  <2>3. CASE k \in keys /\ k \in DOMAIN tx.bucket
    <3>1. PICK w \in Nat : w = tx.bucket[k].width
      BY <1>1, <2>3 DEF TrueWidths
    <3>2. rows[k].width = Max({w, BucketWidth})
      BY <1>2, <1>4, <2>3, <3>1 DEF Merged
    <3>3. rows[k].width \in {w, BucketWidth} /\ rows[k].width >= w /\ rows[k].width >= BucketWidth
      BY <1>5, <3>2, MaxOfTwo
    <3>4. \E p \in tx.folded : p.key = k /\ p.width = w
      BY <1>1, <2>3, <3>1 DEF TrueWidths
    <3>5. \A p \in tx.folded : p.key = k => p.width <= w
      BY <1>1, <2>3, <3>1 DEF TrueWidths
    <3>6. \A p \in tx.folded \cup parts : p.key = k => p.width <= rows[k].width
      BY <1>5, <1>7, <3>3, <3>5
    <3> QED BY <1>5, <1>8, <2>3, <3>3, <3>4, <3>6
  <2> QED BY <2>1, <2>2, <2>3
<1>10. TrueWidths(rows, tx.folded \cup parts)
  <2>1. DOMAIN rows = DOMAIN tx.bucket \cup keys
    BY <1>2
  <2> QED BY <1>9, <2>1 DEF TrueWidths
<1>11. InWindow(tx.folded \cup parts)
  <2>1. ASSUME NEW p \in parts PROVE p.ts < p.key + p.width
    <3>1. PICK s \in old : p.ts = s.ts /\ p.key = Key(s.ts)
      BY <1>7
    <3>2. s.ts \in Nat
      BY <1>1 DEF Sample
    <3> QED BY <1>7, <3>1, <3>2, KeyCovers
  <2> QED BY <1>1, <2>1 DEF InWindow
<1> QED BY <1>3, <1>10, <1>11

LEMMA WidthStep ==
    ASSUME RetentionInv, WidthInv, [RetentionNext]_retentionVars
    PROVE  WidthInv'
<1>1. CASE Migrate
  BY <1>1, MigrateWidths
<1>2. CASE Fold
  <2>1. UNCHANGED <<version, mode, bucket, folded>>
    BY <1>2 DEF Fold, tables, process, ghosts
  <2>2. TrueWidths(bucket, folded)' = TrueWidths(bucket, folded) /\ InWindow(folded)' = InWindow(folded)
    BY <2>1 DEF TrueWidths, InWindow
  <2> QED BY <1>2, <2>1, <2>2, FoldWidths DEF WidthInv
<1>3. CASE UNCHANGED <<version, bucket, folded, tx>> /\ (mode' = "up" => version = Known)
  <2>1. TrueWidths(bucket, folded)' = TrueWidths(bucket, folded) /\ InWindow(folded)' = InWindow(folded)
    BY <1>3 DEF TrueWidths, InWindow
  <2>2. tx # NoTx => (TrueWidths(tx.bucket, tx.folded)' = TrueWidths(tx.bucket, tx.folded)
                      /\ InWindow(tx.folded)' = InWindow(tx.folded))
    BY <1>3 DEF TrueWidths, InWindow
  <2> QED BY <1>3, <2>1, <2>2 DEF WidthInv, NoTx
<1>4. CASE UNCHANGED <<version, bucket, folded>> /\ tx' = NoTx /\ (mode' = "up" => mode = "up")
  <2>1. TrueWidths(bucket, folded)' = TrueWidths(bucket, folded) /\ InWindow(folded)' = InWindow(folded)
    BY <1>4 DEF TrueWidths, InWindow
  <2> QED BY <1>4, <2>1 DEF WidthInv, NoTx
<1>5. CASE Begin
  <2>1. /\ mode = "up" /\ version = Known /\ UNCHANGED <<version, mode, bucket, folded>>
        /\ tx'.bucket = bucket /\ tx'.folded = folded
    BY <1>5 DEF Begin, WidthInv, tables, process, ghosts
  <2>2. TrueWidths(bucket, folded) /\ InWindow(folded)
    BY <2>1 DEF WidthInv
  <2> QED BY <2>1, <2>2 DEF WidthInv, TrueWidths, InWindow
<1>6. CASE DeleteRaw
  <2>1. /\ tx # NoTx /\ UNCHANGED <<version, mode, bucket, folded>>
        /\ tx'.bucket = tx.bucket /\ tx'.folded = tx.folded
    <3>1. tx.at = "deleteRaw"
      BY <1>6 DEF DeleteRaw
    <3>2. tx = [at |-> tx.at, raw |-> tx.raw, bucket |-> tx.bucket, folded |-> tx.folded,
                expired |-> tx.expired]
      BY <3>1 DEF RetentionInv, CopyInv, NoTx
    <3> QED BY <1>6, <3>1, <3>2 DEF DeleteRaw, NoTx, tables, process, ghosts
  <2>2. TrueWidths(tx.bucket, tx.folded) /\ InWindow(tx.folded)
    BY <2>1 DEF WidthInv
  <2> QED BY <2>1, <2>2 DEF WidthInv, TrueWidths, InWindow
<1>7. CASE DeleteBucket
  <2> DEFINE kept == KeptBuckets(DOMAIN tx.bucket)
  <2>1. /\ tx # NoTx /\ UNCHANGED <<version, mode, bucket, folded>>
        /\ tx'.bucket = [k \in kept |-> tx.bucket[k]]
        /\ tx'.folded = {p \in tx.folded : p.key \in kept}
    <3>1. tx.at = "deleteBucket"
      BY <1>7 DEF DeleteBucket
    <3>2. tx = [at |-> tx.at, raw |-> tx.raw, bucket |-> tx.bucket, folded |-> tx.folded,
                expired |-> tx.expired]
      BY <3>1 DEF RetentionInv, CopyInv, NoTx
    <3> QED BY <1>7, <3>1, <3>2 DEF DeleteBucket, NoTx, tables, process, ghosts
  <2>2. kept \subseteq DOMAIN tx.bucket
    BY DEF KeptBuckets
  <2>3. TrueWidths(tx.bucket, tx.folded) /\ InWindow(tx.folded)
    BY <2>1 DEF WidthInv
  <2> HIDE DEF kept
  <2>4. TrueWidths(tx.bucket, tx.folded)' /\ InWindow(tx.folded)'
    BY <2>1, <2>2, <2>3 DEF TrueWidths, InWindow
  <2>5. TrueWidths(bucket, folded)' = TrueWidths(bucket, folded) /\ InWindow(folded)' = InWindow(folded)
    BY <2>1 DEF TrueWidths, InWindow
  <2> QED BY <2>1, <2>4, <2>5 DEF WidthInv
<1>8. CASE Commit
  <2>1. /\ tx # NoTx /\ version' = version /\ mode' = mode /\ tx' = NoTx
        /\ bucket' = tx.bucket /\ folded' = tx.folded
    BY <1>8 DEF Commit, NoTx
  <2>2. mode = "up"
    BY <2>1 DEF RetentionInv, AnchorInv
  <2>3. TrueWidths(tx.bucket, tx.folded) /\ InWindow(tx.folded) /\ version = Known /\ version \in Nat
    BY <2>1, <2>2 DEF WidthInv
  <2> QED BY <2>1, <2>3 DEF WidthInv, TrueWidths, InWindow, Known
<1>9. CASE Refuse \/ Opened \/ NoteSampleTime \/ ReadAnchor \/ UNCHANGED retentionVars
  <2>1. UNCHANGED <<version, bucket, folded, tx>> /\ (mode' = mode \/ mode' = "refused" \/ version = Known)
    BY <1>9 DEF Refuse, Opened, UpToDate, NoteSampleTime, ReadAnchor, retentionVars, tables, process, ghosts
  <2> QED BY <1>3, <2>1 DEF WidthInv
<1>10. CASE RollBack \/ Kill
  BY <1>4, <1>10 DEF RollBack, Kill, tables, process, ghosts
<1>11. CASE Restart
  BY <1>3, <1>11 DEF Restart, tables, ghosts
<1>12. ASSUME NEW a \in Times, NEW b \in Times, NEW ok \in BOOLEAN, WriteSnapshots(a, b, ok)
       PROVE  WidthInv'
  <2>1. UNCHANGED <<version, bucket, folded, tx, mode>>
    BY <1>12 DEF WriteSnapshots
  <2> QED BY <1>3, <2>1 DEF WidthInv
<1> QED BY <1>1, <1>2, <1>5, <1>6, <1>7, <1>8, <1>9, <1>10, <1>11, <1>12 DEF RetentionNext, Compact

(***************************************************************************)
(* Once migrated, every bucket says the widest window it was folded with   *)
(* and covers its samples, whatever the widths of the builds that filled   *)
(* it.                                                                     *)
(***************************************************************************)
THEOREM WidthAlwaysTrue == RetentionSpec => []WidthIsTrue
<1>1. RetentionInv /\ WidthInv => WidthIsTrue
  <2> SUFFICES ASSUME RetentionInv, WidthInv, version = Known, NEW p \in folded
               PROVE  /\ bucket[p.key].width = Max({q.width : q \in {r \in folded : r.key = p.key}})
                      /\ p.key <= p.ts /\ p.ts < p.key + bucket[p.key].width
    BY DEF WidthIsTrue
  <2> DEFINE w == bucket[p.key].width
             widths == {q.width : q \in {r \in folded : r.key = p.key}}
  <2>1. p.key \in DOMAIN bucket /\ TrueWidths(bucket, folded) /\ InWindow(folded)
    BY DEF RetentionInv, WidthInv
  <2>2. /\ w \in Nat
        /\ \E q \in folded : q.key = p.key /\ q.width = w
        /\ \A q \in folded : q.key = p.key => q.width <= w
    BY <2>1 DEF TrueWidths
  <2>3. /\ p.key \in Int /\ p.ts \in Nat /\ p.key <= p.ts
        /\ \A q \in folded : q.width \in Nat
    BY DEF RetentionInv, RowsInv, GoodParts, Part
  <2>4. w \in widths /\ \A x \in widths : x \in Nat /\ w >= x
    BY <2>2, <2>3
  <2>5. p.ts < p.key + w
    BY <2>1, <2>2, <2>3 DEF InWindow
  <2> HIDE DEF w, widths
  <2>6. Max(widths) = w
    <3>1. Max(widths) \in widths /\ \A x \in widths : Max(widths) >= x
      BY <2>4 DEF Max
    <3>2. w >= Max(widths) /\ Max(widths) >= w /\ w \in Nat /\ Max(widths) \in Nat
      BY <2>2, <2>4, <3>1
    <3> QED BY <3>2
  <2> QED BY <2>3, <2>5, <2>6 DEF w, widths
<1>2. RetentionInv /\ [RetentionNext]_retentionVars /\ WidthInv => WidthInv'
  BY WidthStep
<1> QED BY <1>1, <1>2, WidthStart, RetentionHolds, PTL DEF RetentionSpec
-----------------------------------------------------------------------------
(* The figures: what a bucket says of the samples that went into it *)

InBucket(parts, k) == Serials({p \in parts : p.key = k})

\* A row that is the mean, the number and the maximum of the samples S.
TrueRow(row, S) ==
    /\ IsRow(row)
    /\ row.count \in Nat \ {0} /\ row.count = Cardinality(S)
    /\ row.mean.num \in Int /\ row.mean.den \in Nat \ {0}
    /\ row.mean.num * row.count = row.mean.den * Total(S)
    /\ \E n \in S : row.peak = Peak(n)
    /\ \A n \in S : Peak(n) <= row.peak

TrueRows(rows, parts) == \A k \in DOMAIN rows : TrueRow(rows[k], InBucket(parts, k))

FigureInv ==
    /\ \A s \in committed : s.n \in 1..MaxSamples
    /\ TrueRows(bucket, folded)
    /\ tx # NoTx => TrueRows(tx.bucket, tx.folded)

\* Min is the least member.
LEMMA MinIsLeast ==
    ASSUME NEW S, S \subseteq Nat, S # {}
    PROVE  Min(S) \in S /\ \A x \in S : Min(S) <= x
<1> DEFINE R == OpToRel(<, Nat)
<1>1. \A x, y \in Nat : x < y => <<x, y>> \in R
  BY DEF OpToRel
<1>2. IsWellFoundedOn(R, Nat)
  BY NatLessThanWellFounded
<1> HIDE DEF R
<1>3. PICK m \in S : \A y \in S : <<y, m>> \notin R
  BY <1>2, WFMin
<1>4. ASSUME NEW y \in S PROVE m <= y
  <2>1. m \in Nat /\ y \in Nat
    OBVIOUS
  <2>2. ~(y < m)
    BY <1>1, <1>3, <2>1
  <2> QED BY <2>1, <2>2
<1>5. \E x \in S : \A y \in S : x <= y
  BY <1>4
<1> QED BY <1>5 DEF Min

\* Of the serials up to i, the first i at which they would have no maximum
\* adds one serial to a set that has one.
LEMMA PeakExists ==
    ASSUME NEW S \in SUBSET (1..MaxSamples), S # {}
    PROVE  \E n \in S : \A m \in S : Peak(m) <= Peak(n)
<1> DEFINE upto(i) == {n \in S : n <= i}
           Without == {i \in Nat : upto(i) # {} /\ ~\E n \in upto(i) : \A m \in upto(i) : Peak(m) <= Peak(n)}
<1>1. MaxSamples \in Nat /\ \A n \in S : n \in Nat /\ n >= 1 /\ n <= MaxSamples /\ Peak(n) \in Nat
  BY RetentionAssumption
<1>2. ASSUME Without # {} PROVE FALSE
  <2>1. PICK i \in Nat : i \in Without /\ \A j \in Without : i <= j
    <3>1. Without \subseteq Nat
      OBVIOUS
    <3> HIDE DEF Without
    <3>2. Min(Without) \in Without /\ \A j \in Without : Min(Without) <= j
      BY <1>2, <3>1, MinIsLeast
    <3> QED BY <3>1, <3>2
  <2>2. i >= 1 /\ i - 1 \in Nat /\ i - 1 \notin Without
    <3>1. i # 0
      <4>1. PICK n \in S : n <= i
        BY <2>1
      <4> QED BY <1>1, <4>1
    <3>2. i - 1 \in Nat /\ ~(i <= i - 1)
      BY <3>1
    <3> HIDE DEF Without
    <3> QED BY <2>1, <3>2
  <2>3. i \in S
    <3>1. ASSUME i \notin S PROVE upto(i - 1) = upto(i)
      <4>1. \A n \in S : n <= i - 1 <=> n <= i
        BY <1>1, <2>2, <3>1
      <4> QED BY <4>1
    <3> QED BY <2>1, <2>2, <3>1
  <2>4. \A m \in upto(i) : m = i \/ m \in upto(i - 1)
    BY <1>1
  <2>5. CASE upto(i - 1) = {}
    <3>1. \A m \in upto(i) : m = i
      BY <2>4, <2>5
    <3> QED BY <1>1, <2>1, <2>3, <3>1
  <2>6. CASE upto(i - 1) # {}
    <3>1. PICK n \in upto(i - 1) : \A m \in upto(i - 1) : Peak(m) <= Peak(n)
      BY <2>2, <2>6
    <3>2. n \in S /\ n \in upto(i) /\ i \in upto(i)
      BY <1>1, <2>3
    <3>3. CASE Peak(i) <= Peak(n)
      <4>1. \A m \in upto(i) : Peak(m) <= Peak(n)
        BY <2>4, <3>1, <3>3
      <4> QED BY <2>1, <3>2, <4>1
    <3>4. CASE Peak(n) <= Peak(i)
      <4>1. ASSUME NEW m \in upto(i) PROVE Peak(m) <= Peak(i)
        <5>1. m \in S /\ (m = i \/ Peak(m) <= Peak(n))
          BY <2>4, <3>1
        <5> QED BY <1>1, <2>3, <3>2, <3>4, <5>1
      <4> QED BY <2>1, <3>2, <4>1
    <3> QED BY <1>1, <2>3, <3>2, <3>3, <3>4
  <2> QED BY <2>5, <2>6
<1>3. upto(MaxSamples) = S
  BY <1>1
<1>4. MaxSamples \notin Without
  BY <1>2
<1> QED BY <1>1, <1>3, <1>4

-----------------------------------------------------------------------------
(* The total of two sets that share no serial is the sum of their totals *)

LEMMA SerialsFinite ==
    ASSUME NEW S \in SUBSET (1..MaxSamples)
    PROVE  IsFiniteSet(S) /\ Cardinality(S) \in Nat
<1>1. IsFiniteSet(1..MaxSamples)
  BY RetentionAssumption, FS_Interval
<1> QED BY <1>1, FS_Subset, FS_CardinalityType

LEMMA UnitsFinite ==
    ASSUME NEW S \in SUBSET (1..MaxSamples), NEW sign \in {1, -1}
    PROVE  IsFiniteSet(Units(S, sign)) /\ Cardinality(Units(S, sign)) \in Nat
<1> DEFINE piles == {{n} \X (1 .. sign * Value(n)) : n \in S}
           pile == [n \in S |-> {n} \X (1 .. sign * Value(n))]
<1>1. pile \in Surjection(S, piles)
  BY DEF Surjection
<1>2. IsFiniteSet(piles)
  <2> HIDE DEF pile, piles
  <2> QED BY <1>1, SerialsFinite, FS_Surjection
<1>3. ASSUME NEW n \in S PROVE IsFiniteSet({n} \X (1 .. sign * Value(n)))
  <2>1. Value(n) \in Int
    BY RetentionAssumption
  <2>2. PICK v \in Int : v = sign * Value(n)
    BY <2>1
  <2>3. IsFiniteSet(1 .. v)
    BY FS_Interval
  <2>4. IsFiniteSet({n})
    BY FS_Singleton
  <2>5. IsFiniteSet({n} \X (1 .. v))
    BY <2>3, <2>4, FS_Product
  <2> QED BY <2>2, <2>5
<1>4. \A x \in piles : IsFiniteSet(x)
  BY <1>3
<1>5. IsFiniteSet(UNION piles)
  <2> HIDE DEF piles
  <2> QED BY <1>2, <1>4, FS_UNION
<1>6. IsFiniteSet(Units(S, sign))
  BY <1>5 DEF Units
<1> QED BY <1>6, FS_CardinalityType

LEMMA UnitsSplit ==
    ASSUME NEW A \in SUBSET (1..MaxSamples), NEW B \in SUBSET (1..MaxSamples), A \cap B = {},
           NEW sign \in {1, -1}
    PROVE  Cardinality(Units(A \cup B, sign)) = Cardinality(Units(A, sign)) + Cardinality(Units(B, sign))
<1>1. Units(A \cup B, sign) = Units(A, sign) \cup Units(B, sign)
  BY DEF Units
<1>2. ASSUME NEW u \in Units(A, sign), u \in Units(B, sign) PROVE FALSE
  <2>1. PICK n \in A : u \in {n} \X (1 .. sign * Value(n))
    BY DEF Units
  <2>2. PICK m \in B : u \in {m} \X (1 .. sign * Value(m))
    BY <1>2 DEF Units
  <2> QED BY <2>1, <2>2
<1>3. Units(A, sign) \cap Units(B, sign) = {}
  BY <1>2
<1>4. /\ IsFiniteSet(Units(A, sign)) /\ Cardinality(Units(A, sign)) \in Nat
      /\ IsFiniteSet(Units(B, sign)) /\ Cardinality(Units(B, sign)) \in Nat
  BY UnitsFinite
<1>5. Cardinality(Units(A, sign) \cup Units(B, sign))
        = Cardinality(Units(A, sign)) + Cardinality(Units(B, sign)) - Cardinality(Units(A, sign) \cap Units(B, sign))
  BY <1>4, FS_Union
<1>6. Cardinality({}) = 0
  BY FS_EmptySet
<1>7. Cardinality(Units(A \cup B, sign))
        = Cardinality(Units(A, sign)) + Cardinality(Units(B, sign)) - 0
  BY <1>1, <1>3, <1>5, <1>6
<1> QED BY <1>4, <1>7

LEMMA TotalType ==
    ASSUME NEW S \in SUBSET (1..MaxSamples)
    PROVE  Total(S) \in Int
<1>1. Cardinality(Units(S, 1)) \in Nat /\ Cardinality(Units(S, -1)) \in Nat
  BY UnitsFinite
<1> QED BY <1>1 DEF Total

LEMMA TotalAdds ==
    ASSUME NEW A \in SUBSET (1..MaxSamples), NEW B \in SUBSET (1..MaxSamples), A \cap B = {}
    PROVE  Total(A \cup B) = Total(A) + Total(B)
<1>1. /\ Cardinality(Units(A, 1)) \in Nat /\ Cardinality(Units(A, -1)) \in Nat
      /\ Cardinality(Units(B, 1)) \in Nat /\ Cardinality(Units(B, -1)) \in Nat
  BY UnitsFinite
<1>2. /\ Cardinality(Units(A \cup B, 1)) = Cardinality(Units(A, 1)) + Cardinality(Units(B, 1))
      /\ Cardinality(Units(A \cup B, -1)) = Cardinality(Units(A, -1)) + Cardinality(Units(B, -1))
  BY UnitsSplit
<1> QED BY <1>1, <1>2 DEF Total

\* The total of one sample is its value, above zero or below it.
LEMMA TotalOfOne ==
    ASSUME NEW n \in 1..MaxSamples
    PROVE  Total({n}) = Value(n)
<1>1. PICK v \in Int : v = Value(n)
  BY RetentionAssumption
<1>2. Units({n}, 1) = {n} \X (1 .. v) /\ Units({n}, -1) = {n} \X (1 .. -v)
  BY <1>1 DEF Units
<1>3. ASSUME NEW w \in Int
      PROVE  Cardinality({n} \X (1 .. w)) = IF w > 0 THEN w ELSE 0
  <2>1. IsFiniteSet(1 .. w) /\ Cardinality(1 .. w) = IF 1 > w THEN 0 ELSE w - 1 + 1
    BY FS_Interval
  <2>2. IsFiniteSet({n}) /\ Cardinality({n}) = 1
    BY FS_Singleton
  <2>3. Cardinality({n} \X (1 .. w)) = Cardinality({n}) * Cardinality(1 .. w)
    BY <2>1, <2>2, FS_Product
  <2> QED BY <2>1, <2>2, <2>3
<1>4. Cardinality({n} \X (1 .. v)) = IF v > 0 THEN v ELSE 0
  BY <1>3
<1>5. Cardinality({n} \X (1 .. -v)) = IF -v > 0 THEN -v ELSE 0
  <2>1. PICK w \in Int : w = -v
    OBVIOUS
  <2> QED BY <1>3, <2>1
<1>6. Total({n}) = (IF v > 0 THEN v ELSE 0) - (IF -v > 0 THEN -v ELSE 0)
  BY <1>2, <1>4, <1>5 DEF Total
<1>7. (IF v > 0 THEN v ELSE 0) - (IF -v > 0 THEN -v ELSE 0) = v
  OBVIOUS
<1> QED BY <1>1, <1>6, <1>7

-----------------------------------------------------------------------------
(* The rows that aggregateSQL writes and merges *)

\* A new row.
LEMMA AggregateRow ==
    ASSUME NEW samples \in SUBSET Sample, samples # {}, Serials(samples) \subseteq 1..MaxSamples,
           \A r, q \in samples : r.n = q.n => r = q
    PROVE  TrueRow(Aggregate(samples), Serials(samples))
<1> DEFINE S == Serials(samples)
           serial == [s \in samples |-> s.n]
<1>1. S # {} /\ \A n : n \in S <=> \E s \in samples : n = s.n
  BY DEF Serials
<1>2. IsFiniteSet(S) /\ Cardinality(S) \in Nat
  BY SerialsFinite
<1>3. serial \in Bijection(samples, S)
  BY DEF Bijection, Injection, Surjection, IsInjective, Serials
<1>4. ExistsBijection(samples, S) /\ serial \in Injection(samples, S)
  <2> HIDE DEF serial, S
  <2> QED BY <1>3 DEF ExistsBijection, Bijection
<1>5. IsFiniteSet(samples)
  <2> HIDE DEF serial, S
  <2> QED BY <1>2, <1>4, FS_Injection
<1>6. Cardinality(samples) = Cardinality(S)
  <2> HIDE DEF serial, S
  <2> QED BY <1>4, <1>5, FS_Bijection
<1>7. Cardinality(S) # 0
  <2> HIDE DEF S
  <2> QED BY <1>1, <1>2, FS_EmptySet
<1>8. Total(S) \in Int
  BY TotalType
<1>9. PICK n \in S : \A m \in S : Peak(m) <= Peak(n)
  BY <1>1, PeakExists
<1>10. \A m \in S : Peak(m) \in Nat
  BY RetentionAssumption
<1>11. Max({Peak(s.n) : s \in samples}) = Peak(n)
  <2> DEFINE peaks == {Peak(s.n) : s \in samples}
  <2>1. Peak(n) \in peaks /\ \A x \in peaks : \E m \in S : x = Peak(m)
    BY <1>1
  <2>2. \A x \in peaks : x \in Nat /\ Peak(n) >= x
    BY <1>9, <1>10, <2>1
  <2>3. \A x \in peaks : (\A y \in peaks : x >= y) => x = Peak(n)
    <3>1. Peak(n) \in peaks /\ Peak(n) \in Nat
      BY <2>1, <2>2
    <3> HIDE DEF peaks
    <3>2. ASSUME NEW x \in peaks, \A y \in peaks : x >= y PROVE x = Peak(n)
      <4>1. x >= Peak(n) /\ Peak(n) >= x /\ x \in Nat
        BY <2>2, <3>1, <3>2
      <4> QED BY <3>1, <4>1
    <3> QED BY <3>2
  <2> HIDE DEF peaks
  <2>4. Max(peaks) = Peak(n)
    BY <2>1, <2>2, <2>3 DEF Max
  <2> QED BY <2>4 DEF peaks
<1>12. PICK c \in Nat \ {0}, t \in Int : c = Cardinality(S) /\ t = Total(S)
  BY <1>2, <1>7, <1>8
<1>13. Aggregate(samples) = [mean |-> [num |-> t, den |-> c], count |-> c, width |-> BucketWidth,
                             peak |-> Peak(n)]
  BY <1>6, <1>11, <1>12 DEF Aggregate
<1>14. t * c = c * t
  OBVIOUS
<1> HIDE DEF S
<1>15. TrueRow([mean |-> [num |-> t, den |-> c], count |-> c, width |-> BucketWidth,
                peak |-> Peak(n)], S)
  BY <1>9, <1>12, <1>14 DEF TrueRow, IsRow
<1> QED BY <1>13, <1>15 DEF S

\* Two means n/d of c samples each, weighed by their counts, are the mean of both totals.
Weighed(n1, c1, d1, t1, n2, c2, d2, t2) ==
    (n1 * c1 * d2 + n2 * c2 * d1) * (c1 + c2) = (d1 * d2 * (c1 + c2)) * (t1 + t2)

LEMMA WeightedMean ==
    ASSUME NEW n1 \in Int, NEW c1 \in Int, NEW d1 \in Int, NEW t1 \in Int, n1 * c1 = d1 * t1,
           NEW n2 \in Int, NEW c2 \in Int, NEW d2 \in Int, NEW t2 \in Int, n2 * c2 = d2 * t2
    PROVE  Weighed(n1, c1, d1, t1, n2, c2, d2, t2)
<1>1. PICK d \in Int : d = d1 * d2
  OBVIOUS
<1>2. n1 * c1 * d2 = d * t1
  <2>1. n1 * c1 * d2 = (d1 * t1) * d2
    OBVIOUS
  <2>2. (d1 * t1) * d2 = (d1 * d2) * t1
    OBVIOUS
  <2> QED BY <1>1, <2>1, <2>2
<1>3. n2 * c2 * d1 = d * t2
  <2>1. n2 * c2 * d1 = (d2 * t2) * d1
    OBVIOUS
  <2>2. (d2 * t2) * d1 = (d1 * d2) * t2
    OBVIOUS
  <2> QED BY <1>1, <2>1, <2>2
<1>4. PICK c \in Int, t \in Int : c = c1 + c2 /\ t = t1 + t2
  OBVIOUS
<1>5. d * t1 + d * t2 = d * t
  BY <1>4
<1>6. (d * t) * c = (d * c) * t
  OBVIOUS
<1>7. (n1 * c1 * d2 + n2 * c2 * d1) * (c1 + c2) = (d1 * d2 * (c1 + c2)) * (t1 + t2)
  BY <1>1, <1>2, <1>3, <1>4, <1>5, <1>6
<1> QED BY <1>7 DEF Weighed

\* A merged row.
LEMMA MergedRow ==
    ASSUME NEW A \in SUBSET (1..MaxSamples), NEW B \in SUBSET (1..MaxSamples), A \cap B = {},
           NEW row, NEW new, TrueRow(row, A), TrueRow(new, B)
    PROVE  TrueRow(Merged(row, new), A \cup B)
<1>1. PICK n1 \in Int, c1 \in Nat \ {0}, d1 \in Nat \ {0}, t1 \in Int :
         /\ n1 = row.mean.num /\ c1 = row.count /\ d1 = row.mean.den /\ t1 = Total(A)
         /\ n1 * c1 = d1 * t1 /\ c1 = Cardinality(A)
  <2>1. Total(A) \in Int
    BY TotalType
  <2>2. /\ row.mean.num \in Int /\ row.count \in Nat \ {0} /\ row.mean.den \in Nat \ {0}
        /\ row.mean.num * row.count = row.mean.den * Total(A) /\ row.count = Cardinality(A)
    BY DEF TrueRow
  <2> QED BY <2>1, <2>2
<1>2. PICK n2 \in Int, c2 \in Nat \ {0}, d2 \in Nat \ {0}, t2 \in Int :
         /\ n2 = new.mean.num /\ c2 = new.count /\ d2 = new.mean.den /\ t2 = Total(B)
         /\ n2 * c2 = d2 * t2 /\ c2 = Cardinality(B)
  <2>1. Total(B) \in Int
    BY TotalType
  <2>2. /\ new.mean.num \in Int /\ new.count \in Nat \ {0} /\ new.mean.den \in Nat \ {0}
        /\ new.mean.num * new.count = new.mean.den * Total(B) /\ new.count = Cardinality(B)
    BY DEF TrueRow
  <2> QED BY <2>1, <2>2
<1>3. PICK a \in A : row.peak = Peak(a)
  BY DEF TrueRow
<1>4. PICK b \in B : new.peak = Peak(b)
  BY DEF TrueRow
<1>5. \A n \in A \cup B : Peak(n) \in Nat
  BY RetentionAssumption
<1>6. \A n \in A : Peak(n) <= Peak(a)
  BY <1>3 DEF TrueRow
<1>7. \A n \in B : Peak(n) <= Peak(b)
  BY <1>4 DEF TrueRow
<1>8. PICK p : p = Max({Peak(a), Peak(b)})
  OBVIOUS
<1>9. p \in {Peak(a), Peak(b)} /\ p >= Peak(a) /\ p >= Peak(b)
  BY <1>5, <1>8, MaxOfTwo
<1>10. (\E n \in A \cup B : p = Peak(n)) /\ \A n \in A \cup B : Peak(n) <= p
  <2>1. \E n \in A \cup B : p = Peak(n)
    BY <1>9
  <2>2. ASSUME NEW n \in A \cup B PROVE Peak(n) <= p
    <3>1. Peak(n) <= Peak(a) \/ Peak(n) <= Peak(b)
      BY <1>6, <1>7
    <3> QED BY <1>5, <1>9, <3>1
  <2> QED BY <2>1, <2>2
<1>11. Cardinality(A \cup B) = c1 + c2
  <2>1. IsFiniteSet(A) /\ IsFiniteSet(B)
    BY SerialsFinite
  <2>2. Cardinality(A \cup B) = Cardinality(A) + Cardinality(B) - Cardinality(A \cap B)
    BY <2>1, FS_Union
  <2>3. Cardinality({}) = 0
    BY FS_EmptySet
  <2>4. Cardinality(A \cup B) = c1 + c2 - 0
    BY <1>1, <1>2, <2>2, <2>3
  <2> QED BY <2>4
<1>12. Total(A \cup B) = t1 + t2
  BY <1>1, <1>2, TotalAdds
<1>13. PICK num \in Int, den \in Nat \ {0} :
          /\ num = n1 * c1 * d2 + n2 * c2 * d1 /\ den = d1 * d2 * (c1 + c2)
          /\ num * (c1 + c2) = den * (t1 + t2)
  <2>1. (n1 * c1 * d2 + n2 * c2 * d1) * (c1 + c2) = (d1 * d2 * (c1 + c2)) * (t1 + t2)
    <3>1. c1 \in Int /\ d1 \in Int /\ c2 \in Int /\ d2 \in Int
      OBVIOUS
    <3>2. n1 * c1 = d1 * t1 /\ n2 * c2 = d2 * t2
      BY <1>1, <1>2, Zenon
    <3>3. Weighed(n1, c1, d1, t1, n2, c2, d2, t2)
      BY <3>1, <3>2, WeightedMean
    <3> QED BY <3>3 DEF Weighed
  <2>2. n1 * c1 * d2 + n2 * c2 * d1 \in Int
    OBVIOUS
  <2>3. d1 * d2 \in Nat \ {0}
    OBVIOUS
  <2>4. c1 + c2 \in Nat \ {0}
    OBVIOUS
  <2>5. d1 * d2 * (c1 + c2) \in Nat \ {0}
    <3>1. PICK d \in Nat \ {0}, c \in Nat \ {0} : d = d1 * d2 /\ c = c1 + c2
      BY <2>3, <2>4
    <3>2. d * c \in Nat \ {0}
      OBVIOUS
    <3> QED BY <3>1, <3>2
  <2> QED BY <2>1, <2>2, <2>5
<1>14. PICK w : w = Max({row.width, new.width})
  OBVIOUS
<1>15. Merged(row, new) = [mean |-> [num |-> num, den |-> den], count |-> c1 + c2, width |-> w,
                           peak |-> p]
  BY <1>1, <1>2, <1>3, <1>4, <1>8, <1>13, <1>14 DEF Merged
<1>16. TrueRow([mean |-> [num |-> num, den |-> den], count |-> c1 + c2, width |-> w,
                peak |-> p], A \cup B)
  <2>1. c1 + c2 \in Nat \ {0}
    OBVIOUS
  <2> QED BY <1>10, <1>11, <1>12, <1>13, <2>1 DEF TrueRow, IsRow
<1> QED BY <1>15, <1>16

-----------------------------------------------------------------------------
(* The figures stay true *)

LEMMA FigureStart == RetentionInit => FigureInv
<1> SUFFICES ASSUME RetentionInit PROVE FigureInv
  OBVIOUS
<1>1. tx = NoTx
  BY DEF RetentionInit
<1>2. CASE bucket = <<>> /\ committed = {}
  <2>1. \A k \in DOMAIN bucket : FALSE
    BY <1>2
  <2> QED BY <1>1, <1>2, <2>1 DEF FigureInv, TrueRows
<1>3. CASE /\ folded = {[n |-> 1, ts |-> 1, key |-> 1, width |-> Minute]}
           /\ committed = {[n |-> 1, ts |-> 1, by |-> 0]}
           /\ bucket = [k \in {1} |-> [mean |-> [num |-> Value(1), den |-> 1], count |-> 1,
                                      width |-> 0, peak |-> Peak(1)]]
  <2>1. 1 \in 1..MaxSamples /\ Value(1) \in Int /\ Peak(1) \in Nat
    BY RetentionAssumption
  <2>2. InBucket(folded, 1) = {1}
    <3>1. PICK p : p = [n |-> 1, ts |-> 1, key |-> 1, width |-> Minute]
      OBVIOUS
    <3>2. p.n = 1 /\ p.key = 1 /\ folded = {p}
      BY <1>3, <3>1
    <3> QED BY <3>2 DEF InBucket, Serials
  <2>3. Cardinality({1}) = 1
    BY FS_Singleton
  <2>4. Total({1}) = Value(1)
    BY <2>1, TotalOfOne
  <2>5. TrueRow([mean |-> [num |-> Value(1), den |-> 1], count |-> 1, width |-> 0,
                 peak |-> Peak(1)], {1})
    BY <2>1, <2>3, <2>4 DEF TrueRow, IsRow
  <2>6. TrueRows(bucket, folded)
    <3>1. DOMAIN bucket = {1}
      BY <1>3
    <3>2. bucket[1] = [mean |-> [num |-> Value(1), den |-> 1], count |-> 1, width |-> 0,
                       peak |-> Peak(1)]
      BY <1>3
    <3>3. TrueRow(bucket[1], InBucket(folded, 1))
      BY <2>2, <2>5, <3>2
    <3> QED BY <3>1, <3>3 DEF TrueRows
  <2>7. \A s \in committed : s.n \in 1..MaxSamples
    BY <1>3, <2>1
  <2> QED BY <1>1, <2>6, <2>7 DEF FigureInv
<1> QED BY <1>2, <1>3 DEF RetentionInit

\* The migration writes no figure.
LEMMA MigrateFigures ==
    ASSUME FigureInv, Migrate
    PROVE  FigureInv'
<1>1. UNCHANGED <<committed, folded, tx>> /\ (bucket' = bucket \/ bucket' = Widened)
  BY DEF Migrate, ghosts
<1>2. TrueRows(bucket, folded)
  BY DEF FigureInv
<1>3. ASSUME NEW k \in DOMAIN bucket
      PROVE  TrueRow([bucket[k] EXCEPT !.width = Minute], InBucket(folded, k))
  <2>1. PICK row, S : row = bucket[k] /\ S = InBucket(folded, k) /\ TrueRow(row, S)
    BY <1>2 DEF TrueRows
  <2>2. [row EXCEPT !.width = Minute] =
           [mean |-> row.mean, count |-> row.count, width |-> Minute, peak |-> row.peak]
    BY <2>1 DEF TrueRow, IsRow
  <2>3. TrueRow([row EXCEPT !.width = Minute], S)
    BY <2>1, <2>2 DEF TrueRow, IsRow
  <2> QED BY <2>1, <2>3
<1>4. TrueRows(Widened, folded)
  BY <1>3 DEF Widened, TrueRows
<1>5. TrueRows(bucket, folded)'
  BY <1>1, <1>2, <1>4 DEF TrueRows
<1>6. (tx # NoTx => TrueRows(tx.bucket, tx.folded))'
  BY <1>1 DEF FigureInv, TrueRows, NoTx
<1> QED BY <1>1, <1>5, <1>6 DEF FigureInv

\* The serials in the tables are those of committed samples.
LEMMA SerialsBounded ==
    ASSUME RetentionInv, FigureInv
    PROVE  /\ Serials(raw) \subseteq 1..MaxSamples /\ Serials(folded) \subseteq 1..MaxSamples
           /\ tx # NoTx => Serials(tx.folded) \subseteq 1..MaxSamples
<1>1. Serials(committed) \subseteq 1..MaxSamples
  BY DEF FigureInv, Serials
<1>2. Serials(raw) \subseteq Serials(committed) /\ Serials(folded) \subseteq Serials(committed)
  BY DEF RetentionInv, OnePlace
<1>3. tx # NoTx => Serials(tx.folded) \subseteq Serials(committed)
  BY DEF RetentionInv, CopyInv, OnePlace
<1> QED BY <1>1, <1>2, <1>3

\* The fold: each bucket gets the serials of the rows it is written from.
LEMMA FoldFigures ==
    ASSUME RetentionInv, FigureInv, Fold
    PROVE  TrueRows(tx.bucket, tx.folded)'
<1> DEFINE old == Old(tx.raw)
           group(k) == {s \in old : Key(s.ts) = k}
           keys == {Key(s.ts) : s \in old}
           new == [k \in keys |-> Aggregate(group(k))]
           parts == {[n |-> s.n, ts |-> s.ts, key |-> Key(s.ts), width |-> BucketWidth] : s \in old}
<1>1. /\ tx.at = "aggregate" /\ tx # NoTx /\ tx.raw \in SUBSET Sample /\ old \subseteq tx.raw
      /\ tx.raw = raw
      /\ TrueRows(tx.bucket, tx.folded)
      /\ DOMAIN tx.bucket = {p.key : p \in tx.folded}
  BY DEF Fold, RetentionInv, CopyInv, RowsInv, FigureInv, NoTx, Old
<1>2. PICK rows : rows = [k \in DOMAIN tx.bucket \cup keys |->
                             IF k \notin keys THEN tx.bucket[k]
                             ELSE IF k \notin DOMAIN tx.bucket THEN new[k]
                             ELSE Merged(tx.bucket[k], new[k])]
  OBVIOUS
<1>3. tx'.bucket = rows /\ tx'.folded = tx.folded \cup parts
  <2>1. /\ tx = [at |-> tx.at, raw |-> tx.raw, bucket |-> tx.bucket, folded |-> tx.folded,
                 expired |-> tx.expired]
    BY <1>1 DEF RetentionInv, CopyInv
  <2> QED BY <1>2, <2>1 DEF Fold
<1>4. \A r, q \in old : r.n = q.n => r = q
  BY <1>1 DEF RetentionInv, RowsInv
<1>5. Serials(old) \subseteq Serials(raw) /\ Serials(old) \subseteq 1..MaxSamples
  BY <1>1, SerialsBounded DEF Serials
<1>6. Serials(tx.folded) \subseteq 1..MaxSamples /\ Serials(tx.folded) \cap Serials(old) = {}
  <2>1. Serials(raw) \cap Serials(tx.folded) = {}
    BY <1>1 DEF RetentionInv, CopyInv, OnePlace
  <2> QED BY <1>1, <1>5, <2>1, SerialsBounded
<1>7. ASSUME NEW k
      PROVE  InBucket(tx.folded \cup parts, k) = InBucket(tx.folded, k) \cup Serials(group(k))
  <2>1. ASSUME NEW s \in group(k) PROVE \E p \in parts : p.key = k /\ p.n = s.n
    <3> DEFINE p == [n |-> s.n, ts |-> s.ts, key |-> Key(s.ts), width |-> BucketWidth]
    <3>1. p \in parts /\ p.key = k /\ p.n = s.n
      OBVIOUS
    <3> HIDE DEF p, parts, group
    <3> QED BY <3>1
  <2>2. ASSUME NEW p \in parts, p.key = k PROVE \E s \in group(k) : s.n = p.n
    <3>1. PICK s \in old : p.n = s.n /\ p.key = Key(s.ts)
      OBVIOUS
    <3> QED BY <2>2, <3>1
  <2> HIDE DEF parts, group
  <2>3. Serials(group(k)) = InBucket(parts, k)
    BY <2>1, <2>2 DEF InBucket, Serials
  <2>4. InBucket(tx.folded \cup parts, k) = InBucket(tx.folded, k) \cup InBucket(parts, k)
    BY DEF InBucket, Serials
  <2> QED BY <2>3, <2>4
<1>8. ASSUME NEW k
      PROVE  /\ group(k) \in SUBSET Sample /\ Serials(group(k)) \subseteq 1..MaxSamples
             /\ InBucket(tx.folded, k) \subseteq 1..MaxSamples
             /\ InBucket(tx.folded, k) \cap Serials(group(k)) = {}
             /\ \A r, q \in group(k) : r.n = q.n => r = q
  <2>1. group(k) \subseteq old
    OBVIOUS
  <2> HIDE DEF group, old
  <2>2. Serials(group(k)) \subseteq Serials(old) /\ InBucket(tx.folded, k) \subseteq Serials(tx.folded)
    BY <2>1 DEF Serials, InBucket
  <2> QED BY <1>1, <1>4, <1>5, <1>6, <2>1, <2>2
<1>9. ASSUME NEW k \in keys PROVE TrueRow(new[k], Serials(group(k)))
  <2>1. group(k) # {}
    OBVIOUS
  <2>2. new[k] = Aggregate(group(k))
    OBVIOUS
  <2> HIDE DEF group, new, keys, old
  <2> QED BY <1>8, <2>1, <2>2, AggregateRow
<1>10. \A k : k \notin keys => Serials(group(k)) = {}
  BY DEF Serials
<1>11. \A k : k \notin DOMAIN tx.bucket => InBucket(tx.folded, k) = {}
  BY <1>1 DEF InBucket, Serials
<1> HIDE DEF new, parts, keys, group, old
<1>12. ASSUME NEW k \in DOMAIN tx.bucket \cup keys
       PROVE  TrueRow(rows[k], InBucket(tx.folded \cup parts, k))
  <2>1. CASE k \notin keys
    <3>1. rows[k] = tx.bucket[k] /\ k \in DOMAIN tx.bucket
      BY <1>2, <2>1
    <3>2. InBucket(tx.folded \cup parts, k) = InBucket(tx.folded, k)
      BY <1>7, <1>10, <2>1
    <3> QED BY <1>1, <3>1, <3>2 DEF TrueRows
  <2>2. CASE k \in keys /\ k \notin DOMAIN tx.bucket
    <3>1. rows[k] = new[k]
      BY <1>2, <2>2
    <3>2. InBucket(tx.folded \cup parts, k) = Serials(group(k))
      BY <1>7, <1>11, <2>2
    <3> QED BY <1>9, <2>2, <3>1, <3>2
  <2>3. CASE k \in keys /\ k \in DOMAIN tx.bucket
    <3>1. rows[k] = Merged(tx.bucket[k], new[k])
      BY <1>2, <2>3
    <3>2. TrueRow(tx.bucket[k], InBucket(tx.folded, k)) /\ TrueRow(new[k], Serials(group(k)))
      BY <1>1, <1>9, <2>3 DEF TrueRows
    <3>3. TrueRow(rows[k], InBucket(tx.folded, k) \cup Serials(group(k)))
      BY <1>8, <3>1, <3>2, MergedRow
    <3> QED BY <1>7, <3>3
  <2> QED BY <2>1, <2>2, <2>3
<1>13. DOMAIN rows = DOMAIN tx.bucket \cup keys
  BY <1>2
<1>14. TrueRows(rows, tx.folded \cup parts)
  BY <1>12, <1>13 DEF TrueRows
<1> QED BY <1>3, <1>14 DEF TrueRows

LEMMA FigureStep ==
    ASSUME RetentionInv, FigureInv, [RetentionNext]_retentionVars
    PROVE  FigureInv'
<1>0. (\A s \in committed : s.n \in 1..MaxSamples) /\ TrueRows(bucket, folded)
  BY DEF FigureInv
<1>1. CASE Migrate
  BY <1>1, MigrateFigures
<1>2. CASE UNCHANGED <<committed, bucket, folded>> /\ (tx' = tx \/ tx' = NoTx)
  <2>1. TrueRows(bucket, folded)'
    BY <1>0, <1>2 DEF TrueRows
  <2>2. (tx # NoTx => TrueRows(tx.bucket, tx.folded))'
    BY <1>2 DEF FigureInv, TrueRows, NoTx
  <2> QED BY <1>0, <1>2, <2>1, <2>2 DEF FigureInv
<1>3. ASSUME UNCHANGED <<committed, bucket, folded>>, TrueRows(tx.bucket, tx.folded)'
      PROVE  FigureInv'
  <2>1. TrueRows(bucket, folded)'
    BY <1>0, <1>3 DEF TrueRows
  <2> QED BY <1>0, <1>3, <2>1 DEF FigureInv
<1>4. CASE Fold
  BY <1>3, <1>4, FoldFigures DEF Fold, tables, ghosts
<1>5. CASE Begin
  <2>1. UNCHANGED <<committed, bucket, folded>> /\ tx'.bucket = bucket /\ tx'.folded = folded
    BY <1>5 DEF Begin, tables, ghosts
  <2>2. TrueRows(tx.bucket, tx.folded)'
    BY <1>0, <2>1 DEF TrueRows
  <2> QED BY <1>3, <2>1, <2>2
<1>6. CASE DeleteRaw
  <2>1. tx.at = "deleteRaw" /\ tx # NoTx /\ UNCHANGED <<committed, bucket, folded>>
    BY <1>6 DEF DeleteRaw, NoTx, tables, ghosts
  <2>2. tx = [at |-> tx.at, raw |-> tx.raw, bucket |-> tx.bucket, folded |-> tx.folded,
              expired |-> tx.expired]
    BY <2>1 DEF RetentionInv, CopyInv
  <2>3. tx'.bucket = tx.bucket /\ tx'.folded = tx.folded
    BY <1>6, <2>2 DEF DeleteRaw
  <2>4. TrueRows(tx.bucket, tx.folded)
    BY <2>1 DEF FigureInv
  <2>5. TrueRows(tx.bucket, tx.folded)'
    BY <2>3, <2>4 DEF TrueRows
  <2> QED BY <1>3, <2>1, <2>5
<1>7. CASE DeleteBucket
  <2> DEFINE kept == KeptBuckets(DOMAIN tx.bucket)
  <2>1. tx.at = "deleteBucket" /\ tx # NoTx /\ UNCHANGED <<committed, bucket, folded>>
    BY <1>7 DEF DeleteBucket, NoTx, tables, ghosts
  <2>2. tx = [at |-> tx.at, raw |-> tx.raw, bucket |-> tx.bucket, folded |-> tx.folded,
              expired |-> tx.expired]
    BY <2>1 DEF RetentionInv, CopyInv
  <2>3. /\ tx'.bucket = [k \in kept |-> tx.bucket[k]]
        /\ tx'.folded = {p \in tx.folded : p.key \in kept}
    BY <1>7, <2>2 DEF DeleteBucket
  <2>4. kept \subseteq DOMAIN tx.bucket /\ TrueRows(tx.bucket, tx.folded)
    BY <2>1 DEF FigureInv, KeptBuckets
  <2> HIDE DEF kept
  <2>5. ASSUME NEW k \in kept
        PROVE  InBucket({p \in tx.folded : p.key \in kept}, k) = InBucket(tx.folded, k)
    BY DEF InBucket, Serials
  <2>6. \A k \in kept : TrueRow(tx.bucket[k], InBucket({p \in tx.folded : p.key \in kept}, k))
    BY <2>4, <2>5 DEF TrueRows
  <2>7. TrueRows(tx.bucket, tx.folded)'
    BY <2>3, <2>6 DEF TrueRows
  <2> QED BY <1>3, <2>1, <2>7
<1>8. CASE Commit
  <2>1. /\ tx # NoTx /\ tx' = NoTx /\ committed' = committed
        /\ bucket' = tx.bucket /\ folded' = tx.folded
    BY <1>8 DEF Commit, NoTx
  <2>2. TrueRows(tx.bucket, tx.folded)
    BY <2>1 DEF FigureInv
  <2>3. TrueRows(bucket, folded)'
    BY <2>1, <2>2 DEF TrueRows
  <2> QED BY <1>0, <2>1, <2>3 DEF FigureInv
<1>9. CASE Refuse \/ Opened \/ NoteSampleTime \/ ReadAnchor \/ RollBack \/ Kill \/ Restart
           \/ UNCHANGED retentionVars
  <2>1. UNCHANGED <<committed, bucket, folded>> /\ (tx' = tx \/ tx' = NoTx)
    BY <1>9 DEF Refuse, Opened, NoteSampleTime, ReadAnchor, RollBack, Kill, Restart,
                retentionVars, tables, process, ghosts
  <2> QED BY <1>2, <2>1
<1>10. ASSUME NEW a \in Times, NEW b \in Times, NEW ok \in BOOLEAN, WriteSnapshots(a, b, ok)
       PROVE  FigureInv'
  <2> DEFINE serial(t) == IF t = a THEN said + 1 ELSE said + 2
  <2>1. /\ said \in Nat /\ MaxSamples \in Nat
    BY RetentionAssumption DEF RetentionInv, RowsInv
  <2>2. serial(b) <= MaxSamples /\ UNCHANGED <<bucket, folded, tx>>
    BY <1>10 DEF WriteSnapshots
  <2>3. serial(a) \in 1..MaxSamples /\ serial(b) \in 1..MaxSamples
    BY <2>1, <2>2
  <2>4. \A s \in committed' : s \in committed \/ s.n = serial(a) \/ s.n = serial(b)
    <3>1. \/ committed' = committed
          \/ committed' = committed \cup
                {[n |-> s.n, ts |-> s.ts, by |-> opens] :
                    s \in {[n |-> serial(t), ts |-> t] : t \in {a, b}}}
      BY <1>10 DEF WriteSnapshots
    <3>2. ASSUME NEW s \in {[n |-> q.n, ts |-> q.ts, by |-> opens] :
                               q \in {[n |-> serial(t), ts |-> t] : t \in {a, b}}}
          PROVE  s.n = serial(a) \/ s.n = serial(b)
      BY <3>2
    <3> HIDE DEF serial
    <3> QED BY <3>1, <3>2
  <2>5. \A s \in committed' : s.n \in 1..MaxSamples
    <3> HIDE DEF serial
    <3> QED BY <1>0, <2>3, <2>4
  <2>6. TrueRows(bucket, folded)'
    BY <1>0, <2>2 DEF TrueRows
  <2>7. (tx # NoTx => TrueRows(tx.bucket, tx.folded))'
    BY <2>2 DEF FigureInv, TrueRows, NoTx
  <2> QED BY <2>5, <2>6, <2>7 DEF FigureInv
<1> QED BY <1>1, <1>4, <1>5, <1>6, <1>7, <1>8, <1>9, <1>10 DEF RetentionNext, Compact

(***************************************************************************)
(* Compact's promise in full: every committed sample is in one place, and  *)
(* every bucket is the mean, the number and the maximum of exactly the     *)
(* samples that went into it, over any number of runs, failures, crashes   *)
(* and late samples.                                                       *)
(***************************************************************************)
THEOREM EverySampleCountedOnce == RetentionSpec => []CountedOnce
<1>1. RetentionInv /\ FigureInv => CountedOnce
  <2> SUFFICES ASSUME RetentionInv, FigureInv PROVE CountedOnce
    OBVIOUS
  <2>1. OnePlace(raw, folded, expired) /\ DOMAIN bucket = {p.key : p \in folded}
    BY DEF RetentionInv
  <2>2. ASSUME NEW k \in DOMAIN bucket, NEW S, S = InBucket(folded, k)
        PROVE  /\ bucket[k].count = Cardinality(S)
               /\ bucket[k].mean.den > 0
               /\ bucket[k].mean.num * bucket[k].count = bucket[k].mean.den * Total(S)
               /\ bucket[k].peak = Max({Peak(n) : n \in S})
    <3>1. TrueRow(bucket[k], S)
      BY <2>2 DEF FigureInv, TrueRows
    <3>2. S \subseteq 1..MaxSamples
      <4>1. S \subseteq Serials(folded)
        BY <2>2 DEF InBucket, Serials
      <4> QED BY <4>1, SerialsBounded
    <3>3. PICK peak : peak = bucket[k].peak
      OBVIOUS
    <3> DEFINE peaks == {Peak(n) : n \in S}
    <3>4. peak \in peaks /\ (\A x \in peaks : x \in Nat /\ x <= peak)
      BY <3>1, <3>2, <3>3, RetentionAssumption DEF TrueRow
    <3> HIDE DEF peaks
    <3>5. \A x \in peaks : (\A y \in peaks : x >= y) => x = peak
      <4>1. ASSUME NEW x \in peaks, \A y \in peaks : x >= y PROVE x = peak
        <5>1. x >= peak /\ x <= peak /\ x \in Nat /\ peak \in Nat
          BY <3>4, <4>1
        <5> QED BY <5>1
      <4> QED BY <4>1
    <3>6. \A y \in peaks : peak >= y
      BY <3>4
    <3>7. Max(peaks) = peak
      BY <3>4, <3>5, <3>6 DEF Max
    <3>8. bucket[k].mean.den > 0
      BY <3>1 DEF TrueRow
    <3> QED BY <3>1, <3>3, <3>7, <3>8 DEF TrueRow, peaks
  <2> QED BY <2>1, <2>2 DEF CountedOnce, InBucket
<1>2. RetentionInit => FigureInv
  BY FigureStart
<1>3. RetentionInv /\ FigureInv /\ [RetentionNext]_retentionVars => FigureInv'
  BY FigureStep
<1> QED BY <1>1, <1>2, <1>3, RetentionHolds, PTL DEF RetentionSpec

==============================================================================
