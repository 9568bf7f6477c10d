---------------------------- MODULE FeedProofs ----------------------------
(* Theorems of AuditFeed, for any number of rows, dashboards and            *)
(* administrators and any page sizes.  The strengthening says where a row   *)
(* of the log stands towards a tick that is under way: above the watermark, *)
(* in the batch behind every row with a higher id, or on a page still ahead *)
(* (Ahead), and that ranks only grow as transactions commit.                *)
EXTENDS AuditFeed, FiniteSetTheorems, SequenceTheorems, WellFoundedInduction, TLAPS

RowStates == {"none", "begun", "inserted", "saved", "gone"}
TabStates == Streaming \cup {"blank", "closed", "page", "reserved", "refused", "dropped"}

(* Types of everything but the counters of slots.                           *)
RowsType == row \in [Rows -> [st : RowStates, ts : Nat, id : Ids]]

TabType == [st : TabStates, base : Ids, table : Seq(Rows), seen : SUBSET Rows,
            mark : Ids, page : Nat \ {0}, batch : Seq(Rows), from : SUBSET Rows,
            cut : BOOLEAN]

WalkType == [st : {"idle", "asking", "finished", "away"}, page : Nat \ {0},
             got : SUBSET Rows, due : SUBSET Rows, row : Rows \cup {NoRow},
             read : SUBSET Rows, more : BOOLEAN]

Types == /\ RowsType
         /\ saved \in Seq(Rows)
         /\ clock \in Nat
         /\ nextId \in Nat
         /\ tab \in [Tabs -> TabType]
         /\ walk \in [Auditors -> WalkType]

(* Ids are given once, by counting the inserts.                             *)
Numbered == {r \in Rows : row[r].id > 0}
RowsInv ==
    /\ \A r \in Rows : /\ r \in Saved <=> row[r].st = "saved"
                       /\ row[r].st \in {"none", "begun"} => row[r].id = 0
                       /\ row[r].st \in {"inserted", "saved"} => row[r].id > 0
                       /\ row[r].id < nextId
    /\ \A q, r \in Rows : row[q].id = row[r].id => q = r \/ row[r].id = 0
    /\ nextId = Cardinality(Numbered) + 1

Counts == {active, others, lost} \subseteq Nat /\ active <= Cap

(* A watermark is the id of a committed row.                                *)
Reached(m) == m = 0 \/ \E q \in Saved : row[q].id = m

(* The page's rows: rendered with it, or sent by a stream and remembered.   *)
Listed(t) ==
    /\ IsInjective(tab[t].table)
    /\ tab[t].seen \subseteq ToSet(tab[t].table)
    /\ ToSet(tab[t].table) \subseteq Saved
    /\ \A r \in ToSet(tab[t].table) : r \in tab[t].seen \/ row[r].id <= tab[t].base
    /\ Reached(tab[t].base)

(* r is on a page the tick has still to read.                               *)
Ahead(t, r) == tab[t].st = "reading" /\ (tab[t].page - 1) * PageSize <= Rank(Saved, r)

Wanted(t, r) == ~Excused(t, r) /\ r \notin ToSet(tab[t].table)

Streamed(t) ==
    /\ tab[t].base <= tab[t].mark
    /\ Reached(tab[t].mark)
    /\ tab[t].from \subseteq Saved
    /\ \A i \in 1..Len(tab[t].batch) : row[tab[t].batch[i]].id > tab[t].base
    /\ \A r \in Saved : Wanted(t, r) => row[r].id > tab[t].mark
    /\ \A r \in Saved, i \in 1..Len(tab[t].batch) :
         Wanted(t, r) /\ row[r].id < row[tab[t].batch[i]].id =>
            \/ Ahead(t, r)
            \/ \E j \in 1..Len(tab[t].batch) : i < j /\ tab[t].batch[j] = r
    /\ \A r \in tab[t].from : Wanted(t, r) => r \in ToSet(tab[t].batch) \/ Ahead(t, r)

TabInv(t) == /\ ToSet(tab[t].batch) \subseteq Saved
             /\ Listed(t)
             /\ tab[t].st \in Streaming => Streamed(t)

WalkInv(a) ==
    /\ walk[a].due \subseteq Saved
    /\ \A r \in walk[a].due :
         /\ Rank(Saved, r) < (walk[a].page - 1) * AuditPage => r \in walk[a].got
         /\ walk[a].st = "asking" /\ Rank(Saved, r) < walk[a].page * AuditPage
              => r \in walk[a].got \cup walk[a].read

TabsInv == \A t \in Tabs : TabInv(t)
WalksInv == \A a \in Auditors : WalkInv(a)

FeedInv == Types /\ RowsInv /\ Counts /\ SlotsAccounted /\ TabsInv /\ WalksInv

-----------------------------------------------------------------------------
(* Ranks: what Rank and NewestFirst are for every set of committed rows.    *)

(* Lists of rows.                                                           *)
LEMMA RowList ==
  ASSUME NEW s \in Seq(Rows)
  PROVE  /\ DOMAIN s = 1..Len(s) /\ Len(s) \in Nat
         /\ ToSet(s) \subseteq Rows
<1>1. s \in [1..Len(s) -> Rows] /\ DOMAIN s = 1..Len(s) /\ Len(s) \in Nat
  BY LenProperties
<1> QED
  BY <1>1 DEF ToSet

(* A row is appended to a list of rows.                                     *)
LEMMA AppendedRow ==
  ASSUME NEW s \in Seq(Rows), NEW r \in Rows
  PROVE  /\ Append(s, r) \in Seq(Rows)
         /\ ToSet(Append(s, r)) = ToSet(s) \cup {r}
         /\ IsInjective(s) /\ r \notin ToSet(s) => IsInjective(Append(s, r))
<1> DEFINE b == Append(s, r)
<1>1. /\ b \in Seq(Rows) /\ Len(b) = Len(s) + 1 /\ Len(s) \in Nat
      /\ \A i \in 1..Len(s) : b[i] = s[i]
      /\ b[Len(s) + 1] = r
  BY AppendProperties, LenProperties
<1> HIDE DEF b
<1>2. DOMAIN s = 1..Len(s) /\ DOMAIN b = 1..(Len(s) + 1)
  BY <1>1, LenProperties
<1>3. /\ \A i \in 1..(Len(s) + 1) : i \in 1..Len(s) \/ i = Len(s) + 1
      /\ \A i \in 1..Len(s) : i \in 1..(Len(s) + 1)
      /\ Len(s) + 1 \in 1..(Len(s) + 1)
  BY <1>1
<1>4. ToSet(b) = ToSet(s) \cup {r}
  BY <1>1, <1>2, <1>3 DEF ToSet
<1>5. ASSUME IsInjective(s), r \notin ToSet(s), NEW i \in DOMAIN b, NEW j \in DOMAIN b,
             b[i] = b[j]
      PROVE  i = j
  BY <1>1, <1>2, <1>3, <1>5 DEF IsInjective, ToSet
<1> QED
  BY <1>1, <1>4, <1>5 DEF IsInjective, b

(* Saved has the elements of the sequence saved.                            *)
LEMMA SavedRows ==
  ASSUME Types
  PROVE  /\ Saved \subseteq Rows
         /\ IsFiniteSet(Saved)
         /\ \A i \in 1..Len(saved) : saved[i] \in Saved
         /\ \A r \in Saved : \E i \in 1..Len(saved) : saved[i] = r
<1>1. saved \in [1..Len(saved) -> Rows] /\ DOMAIN saved = 1..Len(saved)
  BY LenProperties DEF Types
<1>2. Saved \subseteq Rows
  BY <1>1 DEF Saved, ToSet
<1>3. IsFiniteSet(Rows)
  <2>1. MaxRows \in Int
    BY SizesAssumption
  <2>2. IsFiniteSet(1..MaxRows)
    BY <2>1, FS_Interval
  <2> QED
    BY <2>2 DEF Rows
<1> QED
  BY <1>1, <1>2, <1>3, FS_Subset DEF Saved, ToSet

(* There are MaxRows rows.                                                  *)
LEMMA RowsFinite ==
  MaxRows \in Nat \ {0} /\ IsFiniteSet(Rows) /\ Cardinality(Rows) = MaxRows
<1>1. MaxRows \in Nat \ {0} /\ ~(1 > MaxRows) /\ MaxRows - 1 + 1 = MaxRows
  BY SizesAssumption
<1> QED
  BY <1>1, FS_Interval DEF Rows

(* Sets of rows are finite.                                                 *)
LEMMA FiniteRows == \A S \in SUBSET Rows : IsFiniteSet(S)
BY RowsFinite, FS_Subset

(* The query's order is a strict order.                                     *)
LEMMA NewerOrders ==
  ASSUME RowsType
  PROVE  /\ \A r \in Rows : ~Newer(r, r)
         /\ \A p, q, r \in Rows : Newer(p, q) /\ Newer(q, r) => Newer(p, r)
         /\ \A q, r \in Rows : ~(Newer(q, r) /\ Newer(r, q))
<1>1. \A r \in Rows : row[r].ts \in Int /\ row[r].id \in Int
  BY SizesAssumption DEF RowsType, Ids
<1>2. ASSUME NEW p \in Rows, NEW q \in Rows, NEW r \in Rows, Newer(p, q), Newer(q, r)
      PROVE  Newer(p, r)
  BY <1>1, <1>2 DEF Newer
<1> QED
  BY <1>1, <1>2 DEF Newer

(* Between rows with ids of their own it is total.                          *)
LEMMA NewerTotal ==
  ASSUME Types, RowsInv, NEW q \in Saved, NEW r \in Saved, q # r
  PROVE  Newer(q, r) \/ Newer(r, q)
<1>1. q \in Rows /\ r \in Rows
  BY SavedRows
<1>2. row[q].id # row[r].id
  BY <1>1 DEF RowsInv
<1> QED
  BY <1>1, <1>2, SizesAssumption DEF Types, RowsType, Newer, Ids

(* A rank is a number below the size of the set.                            *)
LEMMA RankRange ==
  ASSUME RowsType, NEW S \in SUBSET Rows, NEW r \in Rows
  PROVE  /\ Rank(S, r) \in Nat
         /\ Cardinality(S) \in Nat
         /\ r \in S => Rank(S, r) < Cardinality(S)
<1> DEFINE B == {q \in S : Newer(q, r)}
<1>1. IsFiniteSet(S) /\ IsFiniteSet(B)
  BY FiniteRows
<1>2. Cardinality(S) \in Nat /\ Cardinality(B) \in Nat
  BY <1>1, FS_CardinalityType
<1>3. Cardinality(B) <= Cardinality(S) /\ (Cardinality(B) = Cardinality(S) => S = B)
  BY <1>1, FS_Subset
<1>4. r \in S => S # B
  BY NewerOrders
<1> QED
  BY <1>2, <1>3, <1>4 DEF Rank

(* The newer of two rows of a set has the lower rank in it.                 *)
LEMMA RankOrders ==
  ASSUME RowsType, NEW S \in SUBSET Rows, NEW q \in S, NEW r \in Rows, Newer(q, r)
  PROVE  Rank(S, q) < Rank(S, r)
<1> DEFINE B(x) == {p \in S : Newer(p, x)}
<1>1. IsFiniteSet(B(q)) /\ IsFiniteSet(B(r))
  BY FiniteRows
<1>2. q \notin B(q) /\ B(q) \cup {q} \subseteq B(r)
  BY NewerOrders
<1>3. Cardinality(B(q) \cup {q}) = Cardinality(B(q)) + 1 /\ IsFiniteSet(B(q) \cup {q})
  BY <1>1, <1>2, FS_AddElement
<1>4. Cardinality(B(q) \cup {q}) <= Cardinality(B(r))
  BY <1>1, <1>2, FS_Subset
<1>5. Cardinality(B(q)) \in Nat /\ Cardinality(B(r)) \in Nat
  BY <1>1, FS_CardinalityType
<1> HIDE DEF B
<1>6. Cardinality(B(q)) < Cardinality(B(r))
  BY <1>3, <1>4, <1>5
<1> QED
  BY <1>6 DEF Rank, B

(* Ranks in a set of committed rows number it from 0.                       *)
LEMMA RankCounts ==
  ASSUME Types, RowsInv, NEW S \in SUBSET Saved
  PROVE  /\ \A q, r \in S : Rank(S, q) = Rank(S, r) => q = r
         /\ \A i \in 1..Cardinality(S) : \E r \in S : Rank(S, r) = i - 1
<1> DEFINE n == Cardinality(S)
           f == [r \in S |-> Rank(S, r)]
<1>1. S \subseteq Rows /\ S \subseteq Saved /\ RowsType
  BY SavedRows DEF Types
<1>2. n \in Nat
  BY <1>1, FiniteRows, FS_CardinalityType
<1>3. \A r \in S : Rank(S, r) \in Nat /\ Rank(S, r) < n
  BY <1>1, RankRange
<1>4. \A q, r \in S : Newer(q, r) => Rank(S, q) < Rank(S, r)
  BY <1>1, RankOrders
<1>5. \A q, r \in S : q # r => Newer(q, r) \/ Newer(r, q)
  BY <1>1, NewerTotal
<1>6. \A q, r \in S : Rank(S, q) = Rank(S, r) => q = r
  <2> SUFFICES ASSUME NEW q \in S, NEW r \in S, Rank(S, q) = Rank(S, r), q # r
               PROVE  FALSE
    OBVIOUS
  <2>1. Rank(S, q) < Rank(S, r) \/ Rank(S, r) < Rank(S, q)
    BY <1>4, <1>5
  <2> QED
    BY <2>1, <1>3
<1>7. f \in [S -> 0..(n - 1)]
  BY <1>2, <1>3
<1>8. f \in Injection(S, 0..(n - 1))
  BY <1>6, <1>7 DEF Injection, IsInjective
<1>9. IsFiniteSet(0..(n - 1)) /\ Cardinality(0..(n - 1)) = n
  BY <1>2, FS_Interval
<1>10. f \in Surjection(S, 0..(n - 1))
  BY <1>8, <1>9, FS_Injection
<1>11. \A i \in 0..(n - 1) : \E r \in S : f[r] = i
  BY <1>10 DEF Surjection
<1>12. \A i \in 1..n : i - 1 \in 0..(n - 1)
  BY <1>2
<1> QED
  BY <1>6, <1>11, <1>12

(* NewestFirst(S) lists S once, the newest row first.                       *)
LEMMA NewestFirstLists ==
  ASSUME Types, RowsInv, NEW S \in SUBSET Saved
  PROVE  /\ NewestFirst(S) \in Seq(Rows)
         /\ ToSet(NewestFirst(S)) = S
         /\ IsInjective(NewestFirst(S))
         /\ \A i, j \in 1..Len(NewestFirst(S)) :
              i < j => Newer(NewestFirst(S)[i], NewestFirst(S)[j])
<1> DEFINE n == Cardinality(S)
           s == NewestFirst(S)
<1>1. S \subseteq Rows /\ S \subseteq Saved /\ RowsType
  BY SavedRows DEF Types
<1>2. n \in Nat
  BY <1>1, FiniteRows, FS_CardinalityType
<1>3. DOMAIN s = 1..n
  BY DEF NewestFirst
<1>4. \A i \in 1..n : s[i] \in S /\ Rank(S, s[i]) = i - 1
  <2> TAKE i \in 1..n
  <2>1. s[i] = CHOOSE r \in S : Rank(S, r) = i - 1
    BY DEF NewestFirst
  <2>2. \E r \in S : Rank(S, r) = i - 1
    BY RankCounts
  <2> QED
    BY <2>1, <2>2
<1>5. s \in [1..n -> Rows]
  BY <1>1, <1>3, <1>4 DEF NewestFirst
<1>6. s \in Seq(Rows) /\ Len(s) = n
  BY <1>2, <1>3, <1>5, SeqDef, LenProperties
<1>7. ToSet(s) = S
  <2>1. ASSUME NEW r \in S PROVE \E i \in 1..n : s[i] = r
    <3>1. Rank(S, r) \in Nat /\ Rank(S, r) < n
      BY <1>1, RankRange
    <3>2. Rank(S, r) + 1 \in 1..n /\ Rank(S, s[Rank(S, r) + 1]) = Rank(S, r)
      BY <1>2, <1>4, <3>1
    <3> QED
      BY <3>2, <1>4, RankCounts
  <2> QED
    BY <1>3, <1>4, <2>1 DEF ToSet
<1>8. IsInjective(s)
  <2> SUFFICES ASSUME NEW i \in 1..n, NEW j \in 1..n, s[i] = s[j]
               PROVE  i = j
    BY <1>3 DEF IsInjective
  <2>1. i - 1 = j - 1
    BY <1>4
  <2> QED
    BY <2>1, <1>2
<1>9. ASSUME NEW i \in 1..n, NEW j \in 1..n, i < j
      PROVE  Newer(s[i], s[j])
  <2>1. s[i] \in S /\ s[j] \in S /\ Rank(S, s[i]) < Rank(S, s[j]) /\ s[i] # s[j]
    BY <1>2, <1>4, <1>9
  <2>2. ~Newer(s[j], s[i])
    <3>1. Newer(s[j], s[i]) => Rank(S, s[j]) < Rank(S, s[i])
      BY <1>1, <2>1, RankOrders
    <3>2. Rank(S, s[i]) \in Nat /\ Rank(S, s[j]) \in Nat
      BY <1>1, <2>1, RankRange
    <3> QED
      BY <2>1, <3>1, <3>2
  <2> QED
    BY <1>1, <2>1, <2>2, NewerTotal
<1> QED
  BY <1>6, <1>7, <1>8, <1>9

-----------------------------------------------------------------------------
(* The log moves: rows keep their stamps once committed, commits are        *)
(* appended.                                                                *)
Kept == /\ \A q \in Saved : row'[q].ts = row[q].ts /\ row'[q].id = row[q].id
        /\ saved' = saved \/ \E r \in Rows : saved' = Append(saved, r)

RowsPart == /\ RowsType
            /\ saved \in Seq(Rows)
            /\ clock \in Nat
            /\ nextId \in Nat

(* A row takes its timestamp.                                               *)
LEMMA StampMoves ==
  ASSUME Types, RowsInv, NEW r \in Rows, Stamped(r), UNCHANGED <<saved, nextId>>
  PROVE  RowsPart' /\ RowsInv' /\ Kept
<1> USE SizesAssumption DEF Types, RowsPart, RowsType, Stamped, RowStates, Ids
<1>1. Saved' = Saved
  BY DEF Saved
<1>2. /\ \A q \in Rows : row'[q].id = row[q].id
      /\ \A q \in Rows \ {r} : row'[q] = row[q]
      /\ row[r].st = "none" /\ row'[r].st = "begun"
  <2>1. row' = [row EXCEPT ![r] = [row[r] EXCEPT !.st = "begun", !.ts = clock]]
    OBVIOUS
  <2> QED
    BY <2>1
<1>3. RowsPart'
  <2>1. row' = [row EXCEPT ![r] = [row[r] EXCEPT !.st = "begun", !.ts = clock]]
    OBVIOUS
  <2>2. clock' \in Nat /\ saved' = saved /\ nextId' = nextId
    OBVIOUS
  <2>3. row' \in [Rows -> [st : RowStates, ts : Nat, id : Ids]]
    BY <2>1
  <2>4. saved \in Seq(Rows) /\ nextId \in Nat
    BY DEF Types
  <2> QED
    BY <2>2, <2>3, <2>4
<1>4. Numbered' = Numbered
  BY <1>2 DEF Numbered
<1>5. RowsInv'
  <2>1. \A q \in Rows : /\ q \in Saved' <=> row'[q].st = "saved"
                        /\ row'[q].st \in {"none", "begun"} => row'[q].id = 0
                        /\ row'[q].st \in {"inserted", "saved"} => row'[q].id > 0
                        /\ row'[q].id < nextId
    BY <1>1, <1>2 DEF RowsInv
  <2> QED
    BY <1>2, <1>4, <2>1 DEF RowsInv
<1>6. Kept
  <2>1. \A q \in Saved : q \in Rows /\ q # r
    BY <1>2, SavedRows DEF RowsInv
  <2> QED
    BY <1>2, <2>1 DEF Kept
<1> QED
  BY <1>3, <1>5, <1>6

(* A row is inserted: the next id is one of Ids.                            *)
LEMMA InsertMoves ==
  ASSUME Types, RowsInv, NEW r \in Rows, Insert(r)
  PROVE  RowsPart' /\ RowsInv' /\ Kept
<1> USE SizesAssumption DEF Types, RowsPart, RowsType, Insert, RowStates
<1>1. Saved' = Saved
  BY DEF Saved
<1>2. /\ \A q \in Rows \ {r} : row'[q] = row[q]
      /\ row[r].st = "begun" /\ row'[r].st = "inserted"
      /\ row[r].id = 0 /\ row'[r].id = nextId /\ nextId' = nextId + 1
      /\ row'[r].ts = row[r].ts
  BY DEF RowsInv
<1>3. /\ Numbered' = Numbered \cup {r} /\ r \notin Numbered
      /\ Numbered' \subseteq Rows /\ Numbered \subseteq Rows
      /\ nextId > 0
  <2>1. IsFiniteSet(Numbered) /\ Cardinality(Numbered) \in Nat
    BY FiniteRows, FS_CardinalityType DEF Numbered
  <2>2. nextId > 0
    BY <2>1 DEF RowsInv
  <2> QED
    BY <1>2, <2>2 DEF Numbered
<1>4. /\ Cardinality(Numbered') = Cardinality(Numbered) + 1
      /\ Cardinality(Numbered') <= MaxRows
      /\ Cardinality(Numbered) \in Nat
  <2>1. IsFiniteSet(Numbered) /\ IsFiniteSet(Rows) /\ Cardinality(Rows) = MaxRows
    BY <1>3, FiniteRows, RowsFinite
  <2>2. Cardinality(Numbered \cup {r}) = Cardinality(Numbered) + 1
    BY <1>3, <2>1, FS_AddElement
  <2> QED
    BY <1>3, <2>1, <2>2, FS_Subset, FS_CardinalityType
<1>5. nextId \in Ids /\ nextId' = Cardinality(Numbered') + 1
  BY <1>2, <1>4 DEF RowsInv, Ids
<1>6. RowsPart'
  <2>1. row' = [row EXCEPT ![r] = [row[r] EXCEPT !.st = "inserted", !.id = nextId]]
    OBVIOUS
  <2> QED
    <3>1. row' \in [Rows -> [st : RowStates, ts : Nat, id : Ids]]
      BY <1>5, <2>1
    <3> QED
      BY <1>2, <3>1
<1>7. RowsInv'
  <2>1. \A q \in Rows : row[q].id < nextId /\ row[q].id \in Nat
    BY DEF RowsInv, Ids
  <2>2. \A q \in Rows : /\ q \in Saved' <=> row'[q].st = "saved"
                        /\ row'[q].st \in {"none", "begun"} => row'[q].id = 0
                        /\ row'[q].st \in {"inserted", "saved"} => row'[q].id > 0
                        /\ row'[q].id < nextId'
    BY <1>1, <1>2, <1>3, <2>1 DEF RowsInv
  <2>3. \A p, q \in Rows : row'[p].id = row'[q].id => p = q \/ row'[q].id = 0
    BY <1>2, <2>1 DEF RowsInv
  <2> QED
    BY <1>5, <2>2, <2>3 DEF RowsInv
<1>8. Kept
  <2>1. \A q \in Saved : q \in Rows /\ q # r
    BY <1>2, SavedRows DEF RowsInv
  <2> QED
    BY <1>2, <2>1 DEF Kept
<1> QED
  BY <1>6, <1>7, <1>8

(* A transaction ends: its row is appended to the log, or is gone.          *)
LEMMA EndMoves ==
  ASSUME Types, RowsInv, NEW r \in Rows, Commit(r) \/ Rollback(r)
  PROVE  RowsPart' /\ RowsInv' /\ Kept
<1> USE SizesAssumption DEF Types, RowsPart, RowsType, Commit, Rollback, RowStates, Ids
<1>1. Saved' = Saved \/ Saved' = Saved \cup {r}
  <2>1. CASE Commit(r)
    BY <2>1, AppendedRow DEF Saved
  <2> QED
    BY <2>1 DEF Saved
<1>2. /\ \A q \in Rows : row'[q].id = row[q].id
      /\ \A q \in Rows \ {r} : row'[q] = row[q]
      /\ row[r].st = "inserted" /\ row'[r].st \in {"saved", "gone"}
      /\ row'[r].ts = row[r].ts
      /\ nextId' = nextId /\ clock' = clock
  <2>1. \E st \in {"saved", "gone"} : row' = [row EXCEPT ![r] = [row[r] EXCEPT !.st = st]]
    OBVIOUS
  <2> QED
    BY <2>1
<1>3. r \in Saved' <=> row'[r].st = "saved"
  <2>1. CASE Commit(r)
    BY <2>1, <1>2, AppendedRow DEF Saved
  <2>2. CASE Rollback(r)
    BY <2>2, <1>2 DEF Saved, RowsInv
  <2> QED
    BY <2>1, <2>2
<1>4. RowsPart'
  <2>1. \E st \in {"saved", "gone"} : row' = [row EXCEPT ![r] = [row[r] EXCEPT !.st = st]]
    OBVIOUS
  <2>2. saved' \in Seq(Rows)
    <3>1. saved \in Seq(Rows)
      BY DEF Types
    <3>2. saved' = saved \/ saved' = Append(saved, r)
      OBVIOUS
    <3>3. Append(saved, r) \in Seq(Rows)
      BY <3>1, AppendedRow
    <3> QED
      BY <3>1, <3>2, <3>3
  <2> QED
    BY <2>1, <2>2, <1>2
<1>5. Numbered' = Numbered
  BY <1>2 DEF Numbered
<1>6. RowsInv'
  <2>1. \A q \in Rows : /\ q \in Saved' <=> row'[q].st = "saved"
                        /\ row'[q].st \in {"none", "begun"} => row'[q].id = 0
                        /\ row'[q].st \in {"inserted", "saved"} => row'[q].id > 0
                        /\ row'[q].id < nextId'
    BY <1>1, <1>2, <1>3 DEF RowsInv
  <2> QED
    BY <1>2, <1>5, <2>1 DEF RowsInv
<1>7. Kept
  <2>1. \A q \in Saved : q \in Rows
    BY SavedRows
  <2> QED
    BY <1>2, <2>1 DEF Kept
<1> QED
  BY <1>4, <1>6, <1>7

(* What a move of the log leaves and what it adds: the committed rows, and  *)
(* their ranks, only grow; a row out of order stays so; and a row that      *)
(* commits in order is above every row committed before it.                 *)
LEMMA LogGrows ==
  ASSUME Types, RowsInv, RowsPart', RowsInv', Kept
  PROVE  /\ Saved \subseteq Saved'
         /\ \A r \in Saved : Rank(Saved, r) <= Rank(Saved, r)'
         /\ \A r \in Saved : OutOfOrder(r) => OutOfOrder(r)'
         /\ \A r \in Saved' \ Saved : ~OutOfOrder(r)' =>
               \A q \in Saved : row[q].id < row'[r].id
<1>1. /\ saved \in Seq(Rows) /\ Len(saved) \in Nat /\ DOMAIN saved = 1..Len(saved)
      /\ saved' \in Seq(Rows) /\ DOMAIN saved' = 1..Len(saved')
      /\ Saved \subseteq Rows /\ IsFiniteSet(Saved)
  BY SavedRows, LenProperties DEF Types, RowsPart
<1>2. /\ Saved' \subseteq Rows
      /\ RowsType'
  BY <1>1 DEF Saved, ToSet, RowsPart
<1>3. CASE saved' = saved
  <2>1. Saved' = Saved
    BY <1>3 DEF Saved
  <2>2. \A q, r \in Saved : Newer(q, r)' <=> Newer(q, r)
    BY DEF Newer, Kept
  <2>3. \A r \in Saved : Rank(Saved, r)' = Rank(Saved, r)
    BY <2>1, <2>2 DEF Rank
  <2>4. \A r \in Saved : Rank(Saved, r) \in Nat
    BY <1>1, RankRange DEF Types
  <2>5. \A r \in Saved : OutOfOrder(r) => OutOfOrder(r)'
    <3>1. \A q, r \in Saved : row'[q].id > row'[r].id <=> row[q].id > row[r].id
      BY DEF Kept
    <3> QED
      BY <1>3, <2>1, <2>2, <3>1 DEF OutOfOrder
  <2> QED
    BY <2>1, <2>3, <2>4, <2>5
<1>4. ASSUME NEW n \in Rows, saved' = Append(saved, n)
      PROVE  /\ Saved \subseteq Saved'
             /\ \A r \in Saved : Rank(Saved, r) <= Rank(Saved, r)'
             /\ \A r \in Saved : OutOfOrder(r) => OutOfOrder(r)'
             /\ \A r \in Saved' \ Saved : ~OutOfOrder(r)' =>
                   \A q \in Saved : row[q].id < row'[r].id
  <2>1. /\ Len(saved') = Len(saved) + 1
        /\ \A i \in 1..Len(saved) : saved'[i] = saved[i]
        /\ saved'[Len(saved) + 1] = n
    BY <1>1, <1>4, AppendProperties
  <2>2. Saved' = Saved \cup {n}
    BY <1>1, <2>1 DEF Saved, ToSet
  <2>3. \A q, r \in Saved : Newer(q, r)' <=> Newer(q, r)
    BY DEF Newer, Kept
  <2>4. \A r \in Saved : Rank(Saved, r) <= Rank(Saved, r)'
    <3> TAKE r \in Saved
    <3>1. {q \in Saved : Newer(q, r)} \subseteq {q \in Saved' : Newer(q, r)'}
      BY <2>2, <2>3
    <3>2. IsFiniteSet({q \in Saved' : Newer(q, r)'})
      BY <1>2, FiniteRows
    <3> QED
      BY <3>1, <3>2, FS_Subset DEF Rank
  <2>5. ASSUME NEW r \in Saved, OutOfOrder(r) PROVE OutOfOrder(r)'
    <3>1. PICK q \in Saved \ {r} :
             \/ ~(Newer(q, r) <=> row[q].id > row[r].id)
             \/ /\ row[q].id > row[r].id
                /\ \E i, j \in 1..Len(saved) : i < j /\ saved[i] = q /\ saved[j] = r
      BY <2>5 DEF OutOfOrder
    <3>2. q \in Saved' \ {r} /\ row'[q].id = row[q].id /\ row'[r].id = row[r].id
      BY <2>2, <2>5 DEF Kept
    <3>3. CASE ~(Newer(q, r) <=> row[q].id > row[r].id)
      <4>1. Newer(q, r)' <=> Newer(q, r)
        BY <2>3, <2>5
      <4>2. ~(Newer(q, r)' <=> row'[q].id > row'[r].id)
        BY <3>2, <3>3, <4>1
      <4> QED
        BY <3>2, <4>2 DEF OutOfOrder
    <3>4. CASE /\ row[q].id > row[r].id
               /\ \E i, j \in 1..Len(saved) : i < j /\ saved[i] = q /\ saved[j] = r
      <4>1. PICK i \in 1..Len(saved), j \in 1..Len(saved) :
                 i < j /\ saved[i] = q /\ saved[j] = r
        BY <3>4
      <4>2. /\ i \in 1..Len(saved') /\ j \in 1..Len(saved')
            /\ saved'[i] = q /\ saved'[j] = r
        BY <1>1, <2>1, <4>1
      <4> QED
        BY <3>2, <3>4, <4>1, <4>2 DEF OutOfOrder
    <3> QED
      BY <3>1, <3>3, <3>4
  <2>6. ASSUME NEW r \in Saved' \ Saved, ~OutOfOrder(r)', NEW q \in Saved
        PROVE  row[q].id < row'[r].id
    <3>1. r = n /\ q # r /\ q \in Saved' /\ q \in Rows /\ r \in Rows
      BY <1>1, <2>2, <2>6
    <3>2. row'[q].id # row'[r].id
      BY <3>1 DEF RowsInv
    <3>3. PICK i \in 1..Len(saved) : saved[i] = q
      BY <1>1, <2>6 DEF Saved, ToSet
    <3>4. /\ i \in 1..Len(saved') /\ Len(saved) + 1 \in 1..Len(saved')
          /\ i < Len(saved) + 1 /\ saved'[i] = q /\ saved'[Len(saved) + 1] = r
      BY <1>1, <2>1, <3>1, <3>3
    <3>5. ~(row'[q].id > row'[r].id)
      BY <2>6, <3>1, <3>4 DEF OutOfOrder
    <3>6. row'[q].id = row[q].id /\ row'[q].id \in Int /\ row'[r].id \in Int
      BY <1>2, <2>6, <3>1, SizesAssumption DEF Kept, RowsType, Ids
    <3> QED
      BY <3>2, <3>5, <3>6
  <2> QED
    BY <2>2, <2>4, <2>5, <2>6
<1> QED
  BY <1>3, <1>4 DEF Kept

-----------------------------------------------------------------------------
(* Dashboards and walks that stand still while the log moves.               *)

(* What is in order after a move was in order before it, at the same id.    *)
LEMMA InOrderBefore ==
  ASSUME Types, RowsInv, RowsPart', RowsInv', Kept, NEW t \in Tabs,
         tab'[t] = tab[t], NEW r \in Saved, Wanted(t, r)'
  PROVE  Wanted(t, r) /\ row'[r].id = row[r].id
<1>1. OutOfOrder(r) => OutOfOrder(r)'
  BY LogGrows
<1>2. row'[r].id = row[r].id
  BY DEF Kept
<1> QED
  BY <1>1, <1>2 DEF Wanted, Excused

(* A row ahead of a tick stays ahead of it: no commit moves it to a page    *)
(* that was read.                                                           *)
LEMMA StillAhead ==
  ASSUME Types, RowsInv, RowsPart', RowsInv', Kept, NEW t \in Tabs,
         tab'[t] = tab[t], NEW r \in Saved, Ahead(t, r)
  PROVE  Ahead(t, r)'
<1>1. Rank(Saved, r) <= Rank(Saved, r)'
  BY LogGrows
<1>2. Rank(Saved, r) \in Nat
  BY SavedRows, RankRange DEF Types
<1>3. Saved' \subseteq Rows
  BY RowList DEF RowsPart, Saved
<1>4. r \in Rows /\ Rank(Saved, r)' \in Nat
  <2>1. r \in Rows /\ IsFiniteSet({q \in Saved' : Newer(q, r)'})
    BY <1>3, FiniteRows, SavedRows
  <2> QED
    BY <2>1, FS_CardinalityType DEF Rank
<1>5. (tab[t].page - 1) * PageSize \in Int
  BY SizesAssumption DEF Types, TabType
<1>6. \A k, m, n \in Int : k <= m /\ m <= n => k <= n
  OBVIOUS
<1>7. (tab[t].page - 1) * PageSize <= Rank(Saved, r)'
  BY <1>1, <1>2, <1>4, <1>5, <1>6 DEF Ahead
<1> QED
  BY <1>7 DEF Ahead

(* A dashboard stands still.                                                *)
LEMMA TabKept ==
  ASSUME Types, RowsInv, RowsPart', RowsInv', Kept, NEW t \in Tabs,
         tab'[t] = tab[t], TabInv(t)
  PROVE  TabInv(t)'
<1> DEFINE w == tab[t]
<1>1. /\ w \in TabType
      /\ w.batch \in Seq(Rows) /\ Len(w.batch) \in Nat
      /\ \A i \in 1..Len(w.batch) : w.batch[i] \in Saved
  <2>1. w \in TabType /\ w.batch \in Seq(Rows)
    BY DEF Types, TabType
  <2>2. DOMAIN w.batch = 1..Len(w.batch) /\ Len(w.batch) \in Nat
    BY <2>1, LenProperties
  <2> QED
    BY <2>1, <2>2 DEF TabInv, ToSet
<1>2. /\ Saved \subseteq Saved'
      /\ \A r \in Saved' \ Saved : ~OutOfOrder(r)' =>
            \A q \in Saved : row[q].id < row'[r].id
  BY LogGrows
<1>3. \A r \in Saved : row'[r].id = row[r].id
  BY DEF Kept
<1>4. ASSUME NEW m \in Ids, Reached(m) PROVE Reached(m)'
  BY <1>2, <1>3, <1>4 DEF Reached
<1>5. Listed(t)'
  <2>1. w.base \in Ids
    BY <1>1 DEF TabType
  <2> QED
    BY <2>1, <1>2, <1>3, <1>4 DEF TabInv, Listed
<1>6. ASSUME NEW r \in Saved' \ Saved, Wanted(t, r)', NEW m \in Ids, Reached(m)
      PROVE  row'[r].id > m
  <2>1. r \in Rows /\ row'[r].id \in Int /\ row'[r].id > 0
    <3>2. r \in Rows
      BY RowList DEF RowsPart, Saved
    <3>3. row'[r].st = "saved"
      BY <3>2 DEF RowsInv
    <3> QED
      BY <3>2, <3>3, SizesAssumption DEF RowsInv, RowsPart, RowsType, Ids
  <2>2. \A q \in Saved : row[q].id < row'[r].id
    BY <1>2, <1>6 DEF Wanted, Excused
  <2> QED
    BY <2>1, <2>2, <1>6 DEF Reached
<1>7. ASSUME Streamed(t), w.st \in Streaming PROVE Streamed(t)'
  <2>1. w.mark \in Ids
    BY <1>1 DEF TabType
  <2>2. /\ w.base <= w.mark
        /\ Reached(w.mark)'
        /\ w.from \subseteq Saved'
        /\ \A i \in 1..Len(w.batch) : row'[w.batch[i]].id > w.base
    BY <1>1, <1>2, <1>3, <1>4, <1>7, <2>1 DEF Streamed
  <2>3. ASSUME NEW r \in Saved', Wanted(t, r)' PROVE row'[r].id > w.mark
    <3>1. CASE r \in Saved
      <4>1. Wanted(t, r) /\ row'[r].id = row[r].id
        BY <2>3, <3>1, InOrderBefore
      <4> QED
        BY <4>1, <3>1, <1>7 DEF Streamed
    <3>2. CASE r \notin Saved
      BY <2>1, <2>3, <3>2, <1>6, <1>7 DEF Streamed
    <3> QED
      BY <3>1, <3>2
  <2>4. ASSUME NEW r \in Saved', NEW i \in 1..Len(w.batch), Wanted(t, r)',
               row'[r].id < row'[w.batch[i]].id
        PROVE  \/ Ahead(t, r)'
               \/ \E j \in 1..Len(w.batch) : i < j /\ w.batch[j] = r
    <3>1. w.batch[i] \in Saved /\ row'[w.batch[i]].id = row[w.batch[i]].id
      BY <1>1, <1>3
    <3>2. r \in Saved
      <4> SUFFICES ASSUME r \notin Saved PROVE FALSE
        OBVIOUS
      <4>1. w.batch[i] \in Rows /\ row[w.batch[i]].id \in Ids
        BY <3>1, SavedRows DEF Types, RowsType
      <4>2. Reached(row[w.batch[i]].id)
        BY <3>1 DEF Reached
      <4>3. row'[r].id > row[w.batch[i]].id
        BY <2>4, <4>1, <4>2, <1>6
      <4>4. row'[r].id \in Int /\ row[w.batch[i]].id \in Int
        <5>2. r \in Rows
          BY RowList DEF RowsPart, Saved
        <5>3. row'[r].id \in Ids
          BY <5>2 DEF RowsPart, RowsType
        <5>4. Ids \subseteq Int
          BY SizesAssumption DEF Ids
        <5> QED
          BY <4>1, <5>3, <5>4
      <4> QED
        BY <2>4, <3>1, <4>3, <4>4
    <3>3. Wanted(t, r) /\ row'[r].id = row[r].id
      BY <2>4, <3>2, InOrderBefore
    <3>4. \/ Ahead(t, r)
          \/ \E j \in 1..Len(w.batch) : i < j /\ w.batch[j] = r
      BY <1>7, <2>4, <3>1, <3>2, <3>3 DEF Streamed
    <3> QED
      BY <3>2, <3>4, StillAhead
  <2>5. ASSUME NEW r \in w.from, Wanted(t, r)'
        PROVE  r \in ToSet(w.batch) \/ Ahead(t, r)'
    <3>1. r \in Saved
      BY <1>7 DEF Streamed
    <3>2. Wanted(t, r)
      BY <2>5, <3>1, InOrderBefore
    <3> QED
      BY <1>7, <3>1, <3>2, StillAhead DEF Streamed
  <2> QED
    BY <2>2, <2>3, <2>4, <2>5 DEF Streamed
<1>8. ToSet(w.batch) \subseteq Saved'
  BY <1>2 DEF TabInv
<1> QED
  BY <1>5, <1>7, <1>8 DEF TabInv

(* An administrator's walk stands still: no commit moves a row from ahead   *)
(* of it to a page it has passed.                                           *)
LEMMA WalkKept ==
  ASSUME Types, RowsInv, RowsPart', RowsInv', Kept, NEW a \in Auditors,
         walk'[a] = walk[a], WalkInv(a)
  PROVE  WalkInv(a)'
<1>1. /\ Saved \subseteq Saved'
      /\ \A r \in Saved : Rank(Saved, r) <= Rank(Saved, r)'
  BY LogGrows
<1>2. Saved' \subseteq Rows
  BY RowList DEF RowsPart, Saved
<1>3. ASSUME NEW r \in Saved, NEW n \in Int, Rank(Saved, r)' < n
      PROVE  Rank(Saved, r) < n
  <2>1. r \in Rows /\ Rank(Saved, r) \in Nat
    BY SavedRows, RankRange DEF Types
  <2>2. Rank(Saved, r)' \in Nat
    <3>1. IsFiniteSet({q \in Saved' : Newer(q, r)'})
      BY <1>2, FiniteRows
    <3> QED
      BY <3>1, FS_CardinalityType DEF Rank
  <2> QED
    BY <1>1, <1>3, <2>1, <2>2
<1>4. (walk[a].page - 1) * AuditPage \in Int /\ walk[a].page * AuditPage \in Int
  BY SizesAssumption DEF Types, WalkType
<1> QED
  BY <1>1, <1>3, <1>4 DEF WalkInv

-----------------------------------------------------------------------------
(* One dashboard moves while the log stands still.                          *)

(* A nonempty set of naturals with an upper bound has a greatest element.   *)
LEMMA MaxExists ==
  ASSUME NEW n \in Nat, NEW S \in SUBSET (0..n), S # {}
  PROVE  \E m \in S : \A k \in S : k <= m
<1> DEFINE T == {n - k : k \in S}
<1>1. T \subseteq Nat /\ T # {}
  <2>1. \A k \in S : k \in Nat /\ k <= n /\ n - k \in Nat
    OBVIOUS
  <2>2. \E k \in S : TRUE
    OBVIOUS
  <2> QED
    BY <2>1, <2>2
<1>2. PICK x \in T : \A y \in T : ~(<<y, x>> \in OpToRel(<, Nat))
  BY <1>1, NatLessThanWellFounded, WFMin
<1>3. \A y \in T : ~(y < x)
  BY <1>1, <1>2 DEF OpToRel
<1>4. PICK m \in S : x = n - m
  BY <1>2
<1>5. \A k \in S : ~(n - k < n - m) /\ k \in Nat /\ m \in Nat
  BY <1>3, <1>4
<1> QED
  BY <1>5

(* What is said of the log alone is as before.                              *)
LEMMA StillLog ==
  ASSUME Types, RowsInv, UNCHANGED <<row, saved, clock, nextId>>
  PROVE  /\ RowsPart' /\ RowsInv' /\ Kept
         /\ Saved' = Saved
         /\ \A r \in Saved : Rank(Saved, r)' = Rank(Saved, r)
         /\ \A r \in Saved : OutOfOrder(r)' <=> OutOfOrder(r)
         /\ \A m : Reached(m)' <=> Reached(m)
<1>1. /\ Saved' = Saved /\ row' = row /\ saved' = saved
      /\ nextId' = nextId /\ clock' = clock
  BY DEF Saved
<1>2. RowsPart' /\ Kept
  BY <1>1 DEF Types, RowsPart, RowsType, Kept
<1>3. RowsInv'
  BY <1>1 DEF RowsInv, Numbered
<1>4. \A q, r \in Saved : Newer(q, r)' <=> Newer(q, r)
  BY <1>1 DEF Newer
<1>5. \A r \in Saved : Rank(Saved, r)' = Rank(Saved, r)
  BY <1>1, <1>4 DEF Rank
<1>6. \A r \in Saved : OutOfOrder(r)' <=> OutOfOrder(r)
  BY <1>1, <1>4 DEF OutOfOrder
<1>7. \A m : Reached(m)' <=> Reached(m)
  BY <1>1 DEF Reached
<1> QED
  BY <1>1, <1>2, <1>3, <1>5, <1>6, <1>7

(* The other dashboards and the walks stand still.                          *)
LEMMA ReaderMoves ==
  ASSUME Types, RowsInv, TabsInv, WalksInv, ReaderOnly, NEW t \in Tabs, NEW v \in TabType,
         tab' = [tab EXCEPT ![t] = v], TabInv(t)'
  PROVE  Types' /\ RowsInv' /\ TabsInv' /\ WalksInv'
<1>1. RowsPart' /\ RowsInv' /\ Kept /\ walk' = walk
  BY StillLog DEF ReaderOnly
<1>2. Types'
  BY <1>1 DEF Types, RowsPart
<1>3. ASSUME NEW u \in Tabs, u # t PROVE TabInv(u)'
  <2>1. tab'[u] = tab[u] /\ TabInv(u)
    BY <1>3 DEF Types, TabsInv
  <2> QED
    BY <1>1, <2>1, TabKept
<1>4. ASSUME NEW a \in Auditors PROVE WalkInv(a)'
  <2>1. walk'[a] = walk[a] /\ WalkInv(a)
    BY <1>1 DEF WalksInv
  <2> QED
    BY <1>1, <2>1, WalkKept
<1> QED
  BY <1>1, <1>2, <1>3, <1>4 DEF TabsInv, WalksInv

(* A dashboard and its fields.                                              *)
LEMMA TabFields ==
  ASSUME Types, NEW t \in Tabs
  PROVE  /\ tab[t] \in TabType
         /\ tab[t].st \in TabStates /\ tab[t].base \in Ids /\ tab[t].mark \in Ids
         /\ tab[t].table \in Seq(Rows) /\ Len(tab[t].table) \in Nat
         /\ DOMAIN tab[t].table = 1..Len(tab[t].table)
         /\ tab[t].batch \in Seq(Rows) /\ Len(tab[t].batch) \in Nat
         /\ DOMAIN tab[t].batch = 1..Len(tab[t].batch)
         /\ tab[t].page \in Nat \ {0} /\ tab[t].cut \in BOOLEAN
         /\ tab[t].seen \subseteq Rows /\ tab[t].from \subseteq Rows
<1>1. tab[t] \in TabType /\ tab[t].table \in Seq(Rows) /\ tab[t].batch \in Seq(Rows)
  BY DEF Types, TabType
<1>2. /\ Len(tab[t].table) \in Nat /\ DOMAIN tab[t].table = 1..Len(tab[t].table)
      /\ Len(tab[t].batch) \in Nat /\ DOMAIN tab[t].batch = 1..Len(tab[t].batch)
  BY <1>1, LenProperties
<1> QED
  BY <1>1, <1>2 DEF TabType

(* Nothing is in an empty sequence.                                         *)
LEMMA EmptyBatch == /\ <<>> \in Seq(Rows) /\ Len(<<>>) = 0 /\ ToSet(<<>>) = {}
                    /\ IsInjective(<<>>) /\ 1..0 = {}
<1>1. <<>> \in Seq(Rows) /\ Len(<<>>) = 0
  BY EmptySeq
<1>2. DOMAIN <<>> = 1..0 /\ 1..0 = {}
  BY <1>1, LenProperties
<1> QED
  BY <1>1, <1>2 DEF ToSet, IsInjective

(* A page as it is rendered, field by field.                                *)
Rendered(list, base) == [NoTab EXCEPT !.st = "page", !.table = list, !.base = base]
LEMMA RenderedFields ==
  ASSUME NEW list \in Seq(Rows), NEW base \in Ids, NEW v, v = Rendered(list, base)
  PROVE  /\ v \in TabType
         /\ v.st = "page" /\ v.base = base /\ v.table = list
         /\ v.seen = {} /\ v.batch = <<>>
<1>1. /\ v.st = "page" /\ v.base = base /\ v.table = list /\ v.seen = {} /\ v.mark = 0
      /\ v.page = 1 /\ v.batch = <<>> /\ v.from = {} /\ v.cut = FALSE
  BY DEF NoTab, Rendered
<1>2. v = [st |-> v.st, base |-> v.base, table |-> v.table, seen |-> v.seen,
           mark |-> v.mark, page |-> v.page, batch |-> v.batch, from |-> v.from,
           cut |-> v.cut]
  BY DEF NoTab, Rendered
<1>3. 0 \in Ids /\ <<>> \in Seq(Rows)
  BY RowsFinite, EmptyBatch DEF Ids
<1>4. /\ v.st \in TabStates /\ v.base \in Ids /\ v.table \in Seq(Rows)
      /\ v.seen \in SUBSET Rows /\ v.mark \in Ids /\ v.page \in Nat \ {0}
      /\ v.batch \in Seq(Rows) /\ v.from \in SUBSET Rows /\ v.cut \in BOOLEAN
  <2>1. "page" \in TabStates /\ {} \in SUBSET Rows /\ 1 \in Nat \ {0} /\ FALSE \in BOOLEAN
    BY DEF TabStates
  <2> QED
    BY <1>1, <1>3, <2>1
<1>5. v \in TabType
  BY <1>2, <1>4 DEF TabType
<1> QED
  BY <1>1, <1>5

(* GET /web/ renders a page.                                                *)
LEMMA RenderMoves ==
  ASSUME Types, RowsInv, NEW t \in Tabs, Render(t)
  PROVE  \E v \in TabType : /\ tab' = [tab EXCEPT ![t] = v]
                            /\ v.st = "page" /\ tab[t].st \notin Streaming \cup {"reserved"}
                            /\ TabInv(t)'
<1> DEFINE S == Page(1, FeedSize)
           s == NewestFirst(S)
           ids == {row[r].id : r \in S} \cup {0}
           m == CHOOSE i \in ids : \A j \in ids : j <= i
           v == [NoTab EXCEPT !.st = "page", !.table = Reverse(s), !.base = m]
<1>1. S \subseteq Saved /\ Saved \subseteq Rows
  BY SavedRows DEF Page
<1>2. s \in Seq(Rows) /\ ToSet(s) = S /\ IsInjective(s)
  BY <1>1, NewestFirstLists
<1>3. Len(s) \in Nat /\ DOMAIN s = 1..Len(s) /\ s \in [1..Len(s) -> Rows]
  BY <1>2, LenProperties
<1>4. /\ m \in Ids
      /\ \A r \in S : row[r].id <= m
      /\ Reached(m)
  <2>1. \A r \in Rows : row[r].id \in 0..MaxRows
    BY DEF Types, RowsType, Ids
  <2>2. ids \in SUBSET (0..MaxRows) /\ ids # {}
    BY <1>1, <2>1, RowsFinite
  <2>3. \E i \in ids : \A j \in ids : j <= i
    BY <2>2, MaxExists, RowsFinite
  <2>4. m \in ids /\ \A j \in ids : j <= m
    BY <2>3
  <2> QED
    BY <1>1, <2>2, <2>4 DEF Ids, Reached
<1>5. /\ Reverse(s) \in Seq(Rows) /\ ToSet(Reverse(s)) = S /\ IsInjective(Reverse(s))
  <2> DEFINE n == Len(s)
             b == Reverse(s)
  <2>1. b = [i \in 1..n |-> s[(n - i) + 1]]
    BY DEF Reverse
  <2>2. \A i \in 1..n : (n - i) + 1 \in 1..n /\ (n - ((n - i) + 1)) + 1 = i
    BY <1>3
  <2>3. b \in [1..n -> Rows] /\ DOMAIN b = 1..n
    BY <1>3, <2>1, <2>2
  <2>4. b \in Seq(Rows)
    BY <1>3, <2>3, SeqDef
  <2>5. ToSet(b) = ToSet(s)
    <3>1. \A i \in 1..n : b[i] \in ToSet(s)
      BY <1>3, <2>1, <2>2 DEF ToSet
    <3>2. \A i \in 1..n : s[i] = b[(n - i) + 1]
      BY <2>1, <2>2
    <3>3. \A i \in 1..n : s[i] \in ToSet(b)
      BY <2>2, <2>3, <3>2 DEF ToSet
    <3> QED
      BY <1>3, <2>3, <3>1, <3>3 DEF ToSet
  <2>6. ASSUME NEW i \in 1..n, NEW j \in 1..n, b[i] = b[j]
        PROVE  i = j
    <3>1. s[(n - i) + 1] = s[(n - j) + 1]
      BY <2>1, <2>6
    <3>2. \A x, y \in 1..n : s[x] = s[y] => x = y
      BY <1>2, <1>3 DEF IsInjective
    <3>3. (n - i) + 1 = (n - j) + 1
      BY <2>2, <3>1, <3>2
    <3> QED
      BY <1>3, <3>3
  <2> QED
    BY <1>2, <2>3, <2>4, <2>5, <2>6 DEF IsInjective
<1>6. tab' = [tab EXCEPT ![t] = v] /\ tab[t].st \notin Streaming \cup {"reserved"}
  BY DEF Render, Holding
<1>7. PICK base \in Ids, list \in Seq(Rows) :
         /\ tab' = [tab EXCEPT ![t] = [NoTab EXCEPT !.st = "page", !.table = list,
                                                   !.base = base]]
         /\ ToSet(list) \subseteq Saved /\ IsInjective(list)
         /\ \A r \in ToSet(list) : row[r].id <= base
         /\ Reached(base)
  <2> HIDE DEF m, s, S
  <2> QED
    BY <1>1, <1>4, <1>5, <1>6
<1> DEFINE w == Rendered(list, base)
<1>8. /\ w \in TabType
      /\ w.st = "page" /\ w.base = base /\ w.table = list
      /\ w.seen = {} /\ w.batch = <<>>
  BY RenderedFields
<1> HIDE DEF w
<1>9. tab' = [tab EXCEPT ![t] = w]
  BY <1>7 DEF w, Rendered
<1>10. tab'[t] = w
  BY <1>9 DEF Types
<1>11. Saved' = Saved /\ row' = row /\ Reached(base)'
  <2>1. ReaderOnly
    BY DEF Render
  <2> QED
    BY <1>7, <2>1, StillLog DEF ReaderOnly
<1>12. TabInv(t)'
  <2>1. /\ tab'[t].st = "page" /\ tab'[t].base = base /\ tab'[t].table = list
        /\ tab'[t].seen = {} /\ tab'[t].batch = <<>>
    BY <1>8, <1>10
  <2>2. Listed(t)'
    BY <1>7, <1>11, <2>1 DEF Listed
  <2>3. ToSet(tab'[t].batch) = {} /\ tab'[t].st \notin Streaming
    BY <2>1, EmptyBatch DEF Streaming
  <2> QED
    BY <2>2, <2>3 DEF TabInv
<1> QED
  BY <1>6, <1>8, <1>9, <1>12

(* A blank dashboard, or one whose page is kept, with no stream running.    *)
LEMMA QuietTab ==
  ASSUME Types, RowsInv, ReaderOnly, NEW t \in Tabs, TabInv(t),
         tab'[t].st \notin Streaming, tab'[t].batch \in {tab[t].batch, <<>>},
         \/ /\ tab'[t].base = tab[t].base /\ tab'[t].table = tab[t].table
            /\ tab'[t].seen = tab[t].seen
         \/ tab'[t].base = 0 /\ tab'[t].table = <<>> /\ tab'[t].seen = {}
  PROVE  TabInv(t)'
<1>1. Saved' = Saved /\ row' = row /\ \A m : Reached(m)' <=> Reached(m)
  BY StillLog DEF ReaderOnly
<1>2. ToSet(tab'[t].batch) \subseteq Saved'
  BY <1>1, EmptyBatch DEF TabInv
<1>3. Listed(t)'
  <2>1. CASE /\ tab'[t].base = tab[t].base /\ tab'[t].table = tab[t].table
             /\ tab'[t].seen = tab[t].seen
    BY <1>1, <2>1 DEF TabInv, Listed, Reached
  <2>2. CASE tab'[t].base = 0 /\ tab'[t].table = <<>> /\ tab'[t].seen = {}
    BY <2>2, EmptyBatch DEF Listed, Reached
  <2> QED
    BY <2>1, <2>2
<1> QED
  BY <1>2, <1>3 DEF TabInv

(* A stream that asks its page for nothing new: the refusal, the            *)
(* reservation, the body that never starts, the end of a connection.        *)
LEMMA QuietMoves ==
  ASSUME Types, RowsInv, NEW t \in Tabs, TabInv(t),
         Connect(t) \/ NeverStarted(t) \/ Disconnect(t)
  PROVE  \E v \in TabType : tab' = [tab EXCEPT ![t] = v] /\ TabInv(t)'
<1>1. ReaderOnly
  BY DEF Connect, NeverStarted, Disconnect
<1>2. /\ tab[t] \in TabType /\ 0 \in Ids /\ 1 \in Nat \ {0} /\ FALSE \in BOOLEAN
      /\ {"reserved", "refused", "dropped"} \subseteq TabStates
      /\ {"reserved", "refused", "dropped"} \cap Streaming = {}
  BY TabFields, RowsFinite DEF TabStates, Ids, Streaming
<1>3. ASSUME NEW st \in {"reserved", "dropped"}, tab' = [tab EXCEPT ![t].st = st]
      PROVE  \E v \in TabType : tab' = [tab EXCEPT ![t] = v] /\ TabInv(t)'
  <2> DEFINE v == [tab[t] EXCEPT !.st = st]
  <2>1. v \in TabType /\ tab' = [tab EXCEPT ![t] = v]
    BY <1>2, <1>3 DEF TabType
  <2>2. /\ tab'[t].st = st /\ tab'[t].batch = tab[t].batch
        /\ tab'[t].base = tab[t].base /\ tab'[t].table = tab[t].table
        /\ tab'[t].seen = tab[t].seen
    BY <1>2, <1>3 DEF TabType, Types
  <2>3. st \notin Streaming
    BY <1>2
  <2>4. TabInv(t)'
    BY <1>1, <2>2, <2>3, QuietTab
  <2> QED
    BY <2>1, <2>4
<1>4. ASSUME NEW v, tab' = [tab EXCEPT ![t] = v], v.st \notin Streaming, v.batch = <<>>,
             \/ /\ v.base = tab[t].base /\ v.table = tab[t].table
                /\ v.seen = tab[t].seen
             \/ v.base = 0 /\ v.table = <<>> /\ v.seen = {}
      PROVE  TabInv(t)'
  <2>1. tab'[t] = v
    BY <1>4 DEF Types
  <2> QED
    BY <1>1, <1>4, <2>1, QuietTab
<1>5. NoTab \in TabType
  BY <1>2, EmptyBatch DEF NoTab, TabType, TabStates
<1>6. CASE Connect(t)
  <2>1. CASE active >= Cap
    <3>1. PICK v : v = [NoTab EXCEPT !.st = "refused"] /\ tab' = [tab EXCEPT ![t] = v]
      BY <1>6, <2>1 DEF Connect
    <3>2. /\ v.st = "refused" /\ v.batch = <<>> /\ v.base = 0 /\ v.table = <<>>
          /\ v.seen = {}
      BY <3>1 DEF NoTab
    <3>3. v \in TabType
      BY <1>2, <1>5, <3>1 DEF TabType
    <3> QED
      BY <1>2, <1>4, <3>1, <3>2, <3>3
  <2>2. CASE ~(active >= Cap)
    <3>1. tab' = [tab EXCEPT ![t].st = "reserved"]
      BY <1>6, <2>2 DEF Connect
    <3> QED
      BY <1>3, <3>1
  <2> QED
    BY <2>1, <2>2
<1>7. CASE NeverStarted(t)
  BY <1>3, <1>7 DEF NeverStarted
<1>8. CASE Disconnect(t)
  <2>1. PICK v : /\ v = [NoTab EXCEPT !.st = "dropped", !.base = tab[t].base,
                                      !.table = tab[t].table, !.seen = tab[t].seen]
                 /\ tab' = [tab EXCEPT ![t] = v]
    BY <1>8 DEF Disconnect
  <2>2. /\ v.st = "dropped" /\ v.batch = <<>> /\ v.base = tab[t].base
        /\ v.table = tab[t].table /\ v.seen = tab[t].seen
    BY <2>1 DEF NoTab
  <2>3. v \in TabType
    BY <1>2, <1>5, <2>1, TabFields DEF TabType
  <2> QED
    BY <1>2, <1>4, <2>1, <2>2, <2>3
<1> QED
  BY <1>6, <1>7, <1>8

(* The first tick of a connection and the next one of a stream that slept:  *)
(* everything committed is ahead of it.                                     *)
LEMMA TickStarts ==
  ASSUME Types, RowsInv, NEW t \in Tabs, TabInv(t), StartBody(t) \/ Wake(t)
  PROVE  \E v \in TabType : tab' = [tab EXCEPT ![t] = v] /\ TabInv(t)'
<1>1. ReaderOnly
  BY DEF StartBody, Wake
<1>2. /\ Saved' = Saved /\ row' = row /\ \A m : Reached(m)' <=> Reached(m)
      /\ \A r \in Saved : Rank(Saved, r)' = Rank(Saved, r)
      /\ \A r \in Saved : OutOfOrder(r)' <=> OutOfOrder(r)
  BY <1>1, StillLog DEF ReaderOnly
<1>3. PICK v : tab' = [tab EXCEPT ![t] = v] /\
         \/ StartBody(t) /\ v = [Ticked(t, tab[t].base) EXCEPT !.cut = FALSE]
         \/ Wake(t) /\ v = Ticked(t, tab[t].mark)
  BY DEF StartBody, Wake
<1>4. tab'[t] = v
  BY <1>3 DEF Types
<1>5. /\ v.st = "reading" /\ v.page = 1 /\ v.batch = <<>> /\ v.from = Saved
      /\ v.base = tab[t].base /\ v.table = tab[t].table /\ v.seen = tab[t].seen
      /\ \/ v.mark = tab[t].base
         \/ /\ v.mark = tab[t].mark /\ v.cut = tab[t].cut
            /\ tab[t].st \in Streaming
  BY <1>3, TabFields DEF Ticked, TabType, Wake, Asleep, Streaming
<1>6. v \in TabType
  <2>1. /\ "reading" \in TabStates /\ 1 \in Nat \ {0} /\ FALSE \in BOOLEAN
        /\ Saved \in SUBSET Rows /\ <<>> \in Seq(Rows)
    BY SavedRows, EmptyBatch DEF TabStates, Streaming
  <2> QED
    BY <1>3, <2>1, TabFields DEF Ticked, TabType
<1>7. Listed(t)'
  <2>1. Reached(tab[t].base)
    BY DEF TabInv, Listed
  <2>2. Reached(tab[t].base)'
    <3>1. tab'[t].base = tab[t].base
      BY <1>4, <1>5
    <3> QED
      BY <1>2, <2>1, <3>1 DEF Reached
  <2> QED
    BY <1>2, <1>4, <1>5, <2>2 DEF TabInv, Listed
<1>8. ToSet(tab'[t].batch) = {} /\ Len(tab'[t].batch) = 0
  BY <1>4, <1>5, EmptyBatch
<1>9. \A r \in Saved : Ahead(t, r)'
  <2> TAKE r \in Saved
  <2>1. Rank(Saved, r)' \in Nat
    BY <1>2, SavedRows, RankRange DEF Types
  <2>2. tab'[t].st = "reading" /\ (tab'[t].page - 1) * PageSize' = 0
    BY <1>4, <1>5, SizesAssumption
  <2> QED
    BY <2>1, <2>2 DEF Ahead
<1>10. Streamed(t)'
  <2>1. /\ tab'[t].base <= tab'[t].mark /\ Reached(tab[t].base)
        /\ tab'[t].mark # tab[t].base => Reached(tab[t].mark)
    <3>1. tab[t].base \in Int
      BY TabFields, RowsFinite DEF Ids
    <3> QED
      BY <1>4, <1>5, <3>1 DEF TabInv, Listed, Streamed
  <2>2. Reached(tab[t].mark)'
    BY <1>2, <1>4, <1>5, <2>1 DEF Reached
  <2>3. ASSUME NEW r \in Saved, Wanted(t, r)' PROVE row'[r].id > tab'[t].mark
    <3>1. row[r].id \in Int /\ tab[t].base \in Int /\ tab[t].mark \in Int
      <4>1. Ids \subseteq Int
        BY RowsFinite DEF Ids
      <4>2. row[r].id \in Ids
        BY <2>3, SavedRows DEF Types, RowsType
      <4> QED
        BY <4>1, <4>2, TabFields
    <3>2. ~OutOfOrder(r) /\ ~(row[r].id <= tab[t].base) /\ ~tab'[t].cut
          /\ r \notin ToSet(tab[t].table)
      BY <2>3, <1>2, <1>4, <1>5 DEF Wanted, Excused
    <3>3. CASE v.mark = tab[t].base
      BY <1>2, <1>4, <3>1, <3>2, <3>3
    <3>4. CASE /\ v.mark = tab[t].mark /\ v.cut = tab[t].cut
               /\ tab[t].st \in Streaming
      <4>1. Wanted(t, r)
        BY <1>4, <3>2, <3>4 DEF Wanted, Excused
      <4> QED
        BY <1>2, <1>4, <3>4, <4>1 DEF TabInv, Streamed
    <3> QED
      BY <1>5, <3>3, <3>4
  <2>4. tab'[t].from = Saved
    BY <1>4, <1>5
  <2> QED
    BY <1>2, <1>8, <1>9, <2>1, <2>2, <2>3, <2>4, EmptyBatch DEF Streamed
<1> QED
  BY <1>3, <1>6, <1>7, <1>8, <1>10 DEF TabInv

(* The last row is taken off a list of rows.                                *)
LEMMA TakenRow ==
  ASSUME NEW s \in Seq(Rows), s # <<>>
  PROVE  /\ Last(s) \in Rows /\ Len(s) \in Nat \ {0} /\ Last(s) = s[Len(s)]
         /\ Front(s) \in Seq(Rows) /\ Len(Front(s)) = Len(s) - 1
         /\ \A i \in 1..(Len(s) - 1) : Front(s)[i] = s[i]
         /\ ToSet(s) = ToSet(Front(s)) \cup {Last(s)}
<1>1. PICK n \in Nat : /\ n = Len(s) /\ n # 0 /\ DOMAIN s = 1..n
                        /\ s \in [1..n -> Rows] /\ Last(s) = s[n]
  BY EmptySeq, LenProperties DEF Last
<1>0. n \in Nat /\ n # 0
  BY <1>1
<1>2. /\ n - 1 \in Nat /\ n \in 1..n /\ 1 \in Int /\ n - 1 \in Int
      /\ \A i \in 1..(n - 1) : i \in 1..n /\ 1 + i - 1 = i
      /\ \A i \in 1..n : i \in 1..(n - 1) \/ i = n
      /\ (n - 1) - 1 + 1 = n - 1
      /\ (IF 1 <= n - 1 THEN (n - 1) - 1 + 1 ELSE 0) = n - 1
  BY <1>0
<1>3. \A i \in 1..(n - 1) : s[i] \in Rows
  BY <1>1, <1>2
<1>4. Front(s) = SubSeq(s, 1, n - 1)
  BY <1>1 DEF Front
<1>5. /\ SubSeq(s, 1, n - 1) \in Seq(Rows)
      /\ Len(SubSeq(s, 1, n - 1)) = IF 1 <= n - 1 THEN (n - 1) - 1 + 1 ELSE 0
      /\ \A i \in 1..((n - 1) - 1 + 1) : SubSeq(s, 1, n - 1)[i] = s[1 + i - 1]
  BY <1>2, <1>3, SubSeqProperties
<1>6. /\ Front(s) \in Seq(Rows) /\ Len(Front(s)) = n - 1
      /\ \A i \in 1..(n - 1) : Front(s)[i] = s[i]
  BY <1>2, <1>4, <1>5
<1>7. DOMAIN Front(s) = 1..(n - 1)
  BY <1>6, LenProperties
<1>8. ToSet(s) = ToSet(Front(s)) \cup {Last(s)}
  <2>1. \A x : x \in ToSet(s) <=> \E i \in 1..n : s[i] = x
    BY <1>1 DEF ToSet
  <2>2. \A x : x \in ToSet(Front(s)) <=> \E i \in 1..(n - 1) : s[i] = x
    BY <1>6, <1>7 DEF ToSet
  <2>3. \A x : x \in ToSet(s) <=> x \in ToSet(Front(s)) \/ x = s[n]
    BY <1>2, <2>1, <2>2
  <2> QED
    BY <1>1, <2>3
<1>9. Last(s) \in Rows
  <2>1. n \in 1..n
    BY <1>0
  <2> QED
    BY <1>1, <2>1
<1> QED
  BY <1>1, <1>6, <1>8, <1>9

(* What ReadPage finds, which of it is new to the tick, and whether the walk*)
(* through the pages may end here.                                          *)
Found(t) == Page(tab[t].page, PageSize)
Fresh(t) == {r \in Found(t) : row[r].id > tab[t].mark}
Covered(t) == Fresh(t) # Found(t) \/ ~HasMore(tab[t].page, PageSize)

(* A row ahead of a tick that reads its page is among the fresh rows of the *)
(* page, ahead of the next page, or not wanted after it: the walk ends only *)
(* at the last page, at a row of the page that the tick knew (then the row  *)
(* is known too, or out of order), or at the cap.                           *)
LEMMA PageCovers ==
  ASSUME Types, RowsInv, NEW t \in Tabs, TabInv(t), ReadPage(t),
         NEW r \in Saved, Wanted(t, r), Ahead(t, r)
  PROVE  \/ r \in Fresh(t)
         \/ ~Covered(t) /\ tab[t].page * PageSize <= Rank(Saved, r)
<1> DEFINE p == tab[t].page
           found == Page(p, PageSize)
           fresh == {q \in found : row[q].id > tab[t].mark}
           hi == p * PageSize
<1>1. /\ RowsType /\ Saved \subseteq Rows /\ Saved \in SUBSET Rows /\ r \in Rows
      /\ \A q \in Rows : row[q].id \in Int
      /\ tab[t].mark \in Int
  <2>1. Ids \subseteq Int
    BY RowsFinite DEF Ids
  <2>2. \A q \in Rows : row[q].id \in Ids
    BY DEF Types, RowsType
  <2> QED
    BY <2>1, <2>2, SavedRows, TabFields DEF Types
<1>2. p \in Nat /\ hi \in Int
  BY TabFields, SizesAssumption
<1>3. Streamed(t) /\ row[r].id > tab[t].mark /\ ~OutOfOrder(r)
  BY DEF TabInv, ReadPage, Streaming, Streamed, Wanted, Excused
<1>4. /\ Rank(Saved, r) \in Nat /\ Rank(Saved, r) < Cardinality(Saved)
      /\ Cardinality(Saved) \in Nat
  BY <1>1, RankRange
<1>5. CASE Rank(Saved, r) < hi
  BY <1>3, <1>5 DEF Fresh, Found, Page, Ahead
<1>6. CASE ~(Rank(Saved, r) < hi)
  <2>1. hi <= Rank(Saved, r)
    BY <1>2, <1>4, <1>6
  <2>2. HasMore(p, PageSize)
    <3> HIDE DEF p
    <3>1. hi < Cardinality(Saved)
      BY <2>1, <1>2, <1>4
    <3> QED
      BY <3>1, <1>2, <1>4 DEF HasMore
  <2>3. ASSUME NEW q \in found \ fresh PROVE FALSE
    <3>1. q \in Saved /\ Rank(Saved, q) < hi /\ ~(row[q].id > tab[t].mark)
      BY DEF Page
    <3>2. q # r /\ Rank(Saved, q) \in Nat
      BY <3>1, <1>1, <1>6, RankRange
    <3>3. ~Newer(r, q)
      <4>1. Newer(r, q) => Rank(Saved, r) < Rank(Saved, q)
        BY <3>1, <1>1, RankOrders
      <4> HIDE DEF hi
      <4> QED
        BY <4>1, <3>1, <3>2, <2>1, <1>2, <1>4
    <3>4. Newer(q, r)
      BY <3>1, <3>2, <3>3, NewerTotal
    <3>5. row[q].id > row[r].id
      BY <3>1, <3>2, <3>4, <1>3 DEF OutOfOrder
    <3> QED
      BY <3>1, <3>5, <1>1, <1>3
  <2>4. fresh = found
    BY <2>3
  <2> QED
    BY <2>1, <2>2, <2>4 DEF Fresh, Found, Covered
<1> QED
  BY <1>5, <1>6 DEF Fresh, Found

(* A tick reads a page.                                                     *)
LEMMA ReadPageMoves ==
  ASSUME Types, RowsInv, NEW t \in Tabs, TabInv(t), ReadPage(t)
  PROVE  \E v \in TabType : tab' = [tab EXCEPT ![t] = v] /\ TabInv(t)'
<1> DEFINE fresh == Fresh(t)
           covered == Covered(t)
           over == covered \/ tab[t].page = MaxPages
<1>1. ReaderOnly /\ tab[t].st = "reading"
  BY DEF ReadPage
<1>2. /\ Saved' = Saved /\ row' = row /\ \A m : Reached(m)' <=> Reached(m)
      /\ \A r \in Saved : Rank(Saved, r)' = Rank(Saved, r)
      /\ \A r \in Saved : OutOfOrder(r)' <=> OutOfOrder(r)
  BY <1>1, StillLog DEF ReaderOnly
<1>3. fresh \subseteq Saved /\ Saved \subseteq Rows
  BY SavedRows DEF Fresh, Found, Page
<1>4. PICK p \in Nat, B \in Seq(Rows), F \in Seq(Rows), N \in Seq(Rows) :
         /\ p = tab[t].page /\ B = tab[t].batch /\ F = NewestFirst(fresh) /\ N = B \o F
         /\ ToSet(F) = fresh
         /\ \A i, j \in 1..Len(F) : i < j => Newer(F[i], F[j])
  <2>1. NewestFirst(fresh) \in Seq(Rows)
    BY <1>3, NewestFirstLists
  <2>2. tab[t].batch \o NewestFirst(fresh) \in Seq(Rows)
    BY <2>1, TabFields, ConcatProperties
  <2> QED
    BY <1>3, <2>1, <2>2, TabFields, NewestFirstLists
<1>5. PICK v : /\ tab' = [tab EXCEPT ![t] = v]
               /\ v = [tab[t] EXCEPT !.batch = N,
                                     !.page = IF over THEN 1 ELSE p + 1,
                                     !.cut = @ \/ (~covered /\ p = MaxPages),
                                     !.st = IF over THEN "emitting" ELSE "reading"]
  <2>1. PICK v : /\ tab' = [tab EXCEPT ![t] = v]
                 /\ v = [tab[t] EXCEPT
                            !.batch = @ \o NewestFirst(Fresh(t)),
                            !.page = IF over THEN 1 ELSE tab[t].page + 1,
                            !.cut = @ \/ (~covered /\ tab[t].page = MaxPages),
                            !.st = IF over THEN "emitting" ELSE "reading"]
    BY DEF ReadPage, Fresh, Found, Covered
  <2> QED
    BY <1>4, <2>1
<1>6. tab'[t] = v
  BY <1>5 DEF Types
<1>7. /\ v.batch = N /\ v.base = tab[t].base /\ v.table = tab[t].table
      /\ v.seen = tab[t].seen /\ v.mark = tab[t].mark /\ v.from = tab[t].from
      /\ tab[t].cut => v.cut
      /\ ~over => v.st = "reading" /\ v.page = p + 1
      /\ over => v.st = "emitting" /\ (~covered => v.cut)
  BY <1>4, <1>5, TabFields DEF TabType
<1>8. v \in TabType
  <2>1. /\ {"reading", "emitting"} \subseteq TabStates
        /\ p + 1 \in Nat \ {0} /\ 1 \in Nat \ {0}
    BY <1>4 DEF TabStates, Streaming
  <2> QED
    BY <1>5, <2>1, TabFields DEF TabType
<1>9. PICK b \in Nat, f \in Nat :
         /\ b = Len(B) /\ f = Len(F) /\ Len(N) = b + f
         /\ \A i \in 1..b : N[i] = B[i]
         /\ \A i \in 1..(b + f) : i \notin 1..b => i - b \in 1..f /\ N[i] = F[i - b]
         /\ \A k \in 1..f : b + k \in 1..(b + f) /\ N[b + k] = F[k]
  <2>1. /\ Len(N) = Len(B) + Len(F)
        /\ \A i \in 1..(Len(B) + Len(F)) : N[i] = IF i <= Len(B) THEN B[i] ELSE F[i - Len(B)]
    BY <1>4, ConcatProperties
  <2>2. PICK b \in Nat, f \in Nat : b = Len(B) /\ f = Len(F)
    BY LenProperties
  <2>3. \A i \in 1..b : i \in 1..(b + f) /\ i <= b
    BY <2>2
  <2>4. \A i \in 1..(b + f) : i \notin 1..b => ~(i <= b) /\ i - b \in 1..f
    BY <2>2
  <2>5. \A k \in 1..f : b + k \in 1..(b + f) /\ ~(b + k <= b) /\ (b + k) - b = k
    BY <2>2
  <2>6. \A i \in 1..b : N[i] = B[i]
    BY <2>1, <2>2, <2>3
  <2>7. \A i \in 1..(b + f) : i \notin 1..b => N[i] = F[i - b]
    BY <2>1, <2>2, <2>4
  <2>8. \A k \in 1..f : N[b + k] = F[k]
    BY <2>1, <2>2, <2>5
  <2> QED
    BY <2>1, <2>2, <2>4, <2>5, <2>6, <2>7, <2>8
<1>10. /\ DOMAIN B = 1..b /\ DOMAIN F = 1..f /\ DOMAIN N = 1..(b + f)
  BY <1>9, LenProperties
<1>11. /\ \A i \in 1..b : i \in 1..(b + f)
       /\ \A i \in 1..b, k \in 1..f : i < b + k
       /\ \A i \in 1..(b + f), k \in 1..f : i - b < k => i < b + k
  BY <1>9
<1>12. \A k \in 1..f : F[k] \in fresh
  BY <1>4, <1>10 DEF ToSet
<1>13. \A r \in fresh : \E k \in 1..f : F[k] = r
  BY <1>4, <1>10 DEF ToSet
<1>14. ToSet(N) \subseteq Saved
  <2>1. \A i \in 1..b : B[i] \in Saved
    BY <1>4, <1>10 DEF TabInv, ToSet
  <2>2. \A i \in 1..(b + f) : N[i] \in Saved
    BY <1>3, <1>9, <1>12, <2>1
  <2> QED
    BY <1>10, <2>2 DEF ToSet
<1>15. Streamed(t)
  BY <1>1 DEF TabInv, Streaming
<1>16. ASSUME NEW r \in Saved, Wanted(t, r)' PROVE Wanted(t, r)
  BY <1>2, <1>6, <1>7, <1>16 DEF Wanted, Excused
<1>17. ASSUME NEW r \in Saved, Wanted(t, r)', Ahead(t, r)
       PROVE  r \in fresh \/ Ahead(t, r)'
  <2>1. Wanted(t, r)
    BY <1>16, <1>17
  <2>2. r \in fresh \/ (~covered /\ p * PageSize <= Rank(Saved, r))
    <3>1. r \in Fresh(t) \/ (~Covered(t) /\ tab[t].page * PageSize <= Rank(Saved, r))
      BY <1>17, <2>1, PageCovers
    <3>2. tab[t].page = p
      BY <1>4
    <3> QED
      BY <3>1, <3>2
  <2>3. CASE ~covered /\ p * PageSize <= Rank(Saved, r)
    <3>1. ~v.cut
      BY <1>6, <1>17 DEF Wanted, Excused
    <3>2. ~over
      BY <1>7, <2>3, <3>1
    <3>3. (p + 1) - 1 = p
      BY <1>4
    <3>4. tab'[t].st = "reading" /\ tab'[t].page - 1 = p
      BY <1>6, <1>7, <3>2, <3>3
    <3> QED
      BY <1>2, <2>3, <3>4 DEF Ahead
  <2> QED
    BY <2>2, <2>3
<1>18. /\ \A r \in Rows : row[r].id \in Int
       /\ tab[t].mark \in Int /\ tab[t].base \in Int
  <2>1. Ids \subseteq Int
    BY RowsFinite DEF Ids
  <2> QED
    BY <2>1, TabFields DEF Types, RowsType
<1>19. \A i \in 1..(b + f) : row[N[i]].id > tab[t].base
  <2>1. \A i \in 1..b : row[B[i]].id > tab[t].base
    BY <1>4, <1>9, <1>15 DEF Streamed
  <2>2. \A k \in 1..f : row[F[k]].id > tab[t].base
    <3> TAKE k \in 1..f
    <3>1. F[k] \in Rows /\ row[F[k]].id > tab[t].mark
      BY <1>3, <1>12 DEF Fresh
    <3> QED
      BY <1>15, <1>18, <3>1 DEF Streamed
  <2> QED
    BY <1>9, <2>1, <2>2
<1>20. ASSUME NEW r \in Saved, NEW i \in 1..(b + f), Wanted(t, r)',
              row[r].id < row[N[i]].id
       PROVE  \/ Ahead(t, r)'
              \/ \E j \in 1..(b + f) : i < j /\ N[j] = r
  <2>1. Wanted(t, r)
    BY <1>16, <1>20
  <2>2. CASE i \in 1..b
    <3>1. N[i] = B[i]
      BY <1>9, <2>2
    <3>2. \/ Ahead(t, r)
          \/ \E j \in 1..b : i < j /\ B[j] = r
      BY <1>4, <1>9, <1>15, <1>20, <2>1, <2>2, <3>1 DEF Streamed
    <3>3. CASE Ahead(t, r)
      <4>1. CASE r \in fresh
        BY <1>9, <1>11, <1>13, <2>2, <4>1
      <4> QED
        BY <1>17, <1>20, <3>3, <4>1
    <3> QED
      BY <1>9, <1>11, <3>2, <3>3
  <2>3. CASE i \notin 1..b
    <3>1. PICK k \in 1..f : k = i - b /\ N[i] = F[k]
      BY <1>9, <2>3
    <3>2. F[k] \in fresh /\ F[k] \in Saved /\ F[k] \in Rows /\ r \in Rows
      BY <1>3, <1>12
    <3>3. Newer(F[k], r)
      <4>1. F[k] # r /\ row[F[k]].id > row[r].id
        BY <1>18, <1>20, <3>1, <3>2
      <4> QED
        BY <2>1, <3>2, <4>1 DEF Wanted, Excused, OutOfOrder
    <3>4. Ahead(t, r)
      <4>1. Rank(Saved, F[k]) < Rank(Saved, r)
        BY <1>3, <3>2, <3>3, RankOrders DEF Types
      <4>2. PICK lo \in Int : lo = (tab[t].page - 1) * PageSize
        BY TabFields, SizesAssumption
      <4>3. lo <= Rank(Saved, F[k])
        BY <3>2, <4>2 DEF Fresh, Found, Page
      <4>4. Rank(Saved, F[k]) \in Nat /\ Rank(Saved, r) \in Nat
        BY <1>3, <3>2, RankRange DEF Types
      <4>5. lo <= Rank(Saved, r)
        BY <4>1, <4>3, <4>4
      <4> QED
        BY <1>1, <4>2, <4>5 DEF Ahead
    <3>5. CASE r \in fresh
      <4>1. PICK l \in 1..f : F[l] = r
        BY <1>13, <3>5
      <4>2. ~(l < k) /\ l # k
        <5>1. ~Newer(r, F[k]) /\ ~Newer(r, r)
          BY <3>2, <3>3, NewerOrders DEF Types
        <5>2. l < k => Newer(r, F[k])
          BY <1>4, <1>9, <4>1
        <5>3. l = k => Newer(r, r)
          BY <3>3, <4>1
        <5> QED
          BY <5>1, <5>2, <5>3
      <4>3. i - b < l
        BY <3>1, <4>2
      <4> QED
        BY <1>9, <1>11, <4>1, <4>3
    <3> QED
      BY <1>17, <1>20, <3>4, <3>5
  <2> QED
    BY <2>2, <2>3
<1>21. ASSUME NEW r \in tab[t].from, Wanted(t, r)'
       PROVE  r \in ToSet(N) \/ Ahead(t, r)'
  <2>1. r \in Saved
    BY <1>15 DEF Streamed
  <2>2. r \in ToSet(B) \/ Ahead(t, r)
    BY <1>4, <1>15, <1>16, <1>21, <2>1 DEF Streamed
  <2>3. CASE r \in ToSet(B)
    BY <1>9, <1>10, <1>11, <2>3 DEF ToSet
  <2>4. CASE r \in fresh
    <3>1. PICK k \in 1..f : F[k] = r
      BY <1>13, <2>4
    <3>2. b + k \in DOMAIN N /\ N[b + k] = r
      BY <1>9, <1>10, <3>1
    <3> QED
      BY <3>2 DEF ToSet
  <2> QED
    BY <1>17, <1>21, <2>1, <2>2, <2>3, <2>4
<1>22. Reached(tab[t].base)' /\ Reached(tab[t].mark)'
  <2>1. tab'[t].base = tab[t].base /\ tab'[t].mark = tab[t].mark
    BY <1>6, <1>7
  <2> QED
    BY <1>2, <1>15, <2>1 DEF TabInv, Listed, Streamed, Reached
<1>23. Listed(t)'
  BY <1>2, <1>6, <1>7, <1>22 DEF TabInv, Listed
<1>24. Streamed(t)'
  <2>1. /\ tab'[t].base <= tab'[t].mark
        /\ tab'[t].from \subseteq Saved'
        /\ \A r \in Saved' : Wanted(t, r)' => row'[r].id > tab'[t].mark
    BY <1>2, <1>6, <1>7, <1>15, <1>16 DEF Streamed
  <2>2. Len(tab'[t].batch) = b + f /\ tab'[t].batch = N /\ tab'[t].from = tab[t].from
    BY <1>6, <1>7, <1>9
  <2> QED
    BY <1>2, <1>6, <1>7, <1>19, <1>20, <1>21, <1>22, <2>1, <2>2 DEF Streamed
<1> QED
  BY <1>2, <1>5, <1>6, <1>7, <1>8, <1>14, <1>23, <1>24 DEF TabInv

(* A tick raises: its rows are dropped, the watermark is kept.              *)
LEMMA TickFailsMoves ==
  ASSUME Types, RowsInv, NEW t \in Tabs, TabInv(t), TickFails(t)
  PROVE  \E v \in TabType : tab' = [tab EXCEPT ![t] = v] /\ TabInv(t)'
<1>1. ReaderOnly /\ tab[t].st = "reading"
  BY DEF TickFails
<1>2. /\ Saved' = Saved /\ row' = row
      /\ \A r \in Saved : OutOfOrder(r)' <=> OutOfOrder(r)
  BY <1>1, StillLog DEF ReaderOnly
<1>3. PICK v : /\ tab' = [tab EXCEPT ![t] = v]
               /\ v = [tab[t] EXCEPT !.st = "emitting", !.batch = <<>>, !.page = 1,
                                     !.from = {}]
  BY DEF TickFails
<1>4. tab'[t] = v
  BY <1>3 DEF Types
<1>5. /\ v.st = "emitting" /\ v.batch = <<>> /\ v.from = {}
      /\ v.base = tab[t].base /\ v.table = tab[t].table /\ v.seen = tab[t].seen
      /\ v.mark = tab[t].mark /\ v.cut = tab[t].cut
  BY <1>3, TabFields DEF TabType
<1>6. v \in TabType
  <2>1. "emitting" \in TabStates /\ 1 \in Nat \ {0} /\ <<>> \in Seq(Rows)
    BY EmptyBatch DEF TabStates, Streaming
  <2> QED
    BY <1>3, <2>1, TabFields DEF TabType
<1>7. Streamed(t)
  BY <1>1 DEF TabInv, Streaming
<1>8. ASSUME NEW r \in Saved, Wanted(t, r)' PROVE Wanted(t, r)
  BY <1>2, <1>4, <1>5, <1>8 DEF Wanted, Excused
<1>9. Reached(tab[t].base)' /\ Reached(tab[t].mark)'
  <2>1. tab'[t].base = tab[t].base /\ tab'[t].mark = tab[t].mark
    BY <1>4, <1>5
  <2> QED
    BY <1>2, <1>7, <2>1 DEF TabInv, Listed, Streamed, Reached
<1>10. Listed(t)'
  BY <1>2, <1>4, <1>5, <1>9 DEF TabInv, Listed
<1>11. Len(tab'[t].batch) = 0 /\ ToSet(tab'[t].batch) = {} /\ tab'[t].from = {}
  BY <1>4, <1>5, EmptyBatch
<1>12. Streamed(t)'
  BY <1>2, <1>4, <1>5, <1>7, <1>8, <1>9, <1>11, EmptyBatch DEF Streamed
<1> QED
  BY <1>3, <1>6, <1>10, <1>11, <1>12 DEF TabInv

(* One event reaches the page.                                              *)
LEMMA EmitMoves ==
  ASSUME Types, RowsInv, NEW t \in Tabs, TabInv(t), Emit(t)
  PROVE  \E v \in TabType : tab' = [tab EXCEPT ![t] = v] /\ TabInv(t)'
<1>1. ReaderOnly /\ tab[t].st = "emitting" /\ tab[t].batch # <<>>
  BY DEF Emit
<1>2. /\ Saved' = Saved /\ row' = row
      /\ \A r \in Saved : OutOfOrder(r)' <=> OutOfOrder(r)
  BY <1>1, StillLog DEF ReaderOnly
<1>3. PICK B, n, e, v :
         /\ B \in Seq(Rows) /\ n \in Nat \ {0} /\ e \in Rows
         /\ B = tab[t].batch /\ n = Len(B) /\ e = Last(B) /\ e = B[n]
         /\ tab' = [tab EXCEPT ![t] = v]
         /\ v = [tab[t] EXCEPT !.batch = Front(B), !.mark = row[e].id,
                               !.table = IF e \in tab[t].seen THEN @ ELSE Append(@, e),
                               !.seen = @ \cup {e}]
  <2>1. /\ tab[t].batch \in Seq(Rows) /\ Last(tab[t].batch) \in Rows
        /\ Len(tab[t].batch) \in Nat \ {0}
        /\ Last(tab[t].batch) = tab[t].batch[Len(tab[t].batch)]
    BY <1>1, TabFields, TakenRow
  <2>2. \E v : /\ tab' = [tab EXCEPT ![t] = v]
               /\ v = [tab[t] EXCEPT
                         !.batch = Front(tab[t].batch),
                         !.mark = row[Last(tab[t].batch)].id,
                         !.table = IF Last(tab[t].batch) \in tab[t].seen
                                   THEN @ ELSE Append(@, Last(tab[t].batch)),
                         !.seen = @ \cup {Last(tab[t].batch)}]
    BY DEF Emit
  <2> QED
    BY <2>1, <2>2
<1>4. tab'[t] = v
  BY <1>3 DEF Types
<1>5. /\ Front(B) \in Seq(Rows) /\ Len(Front(B)) = n - 1
      /\ \A i \in 1..(n - 1) : Front(B)[i] = B[i]
      /\ ToSet(B) = ToSet(Front(B)) \cup {e}
  BY <1>1, <1>3, TakenRow
<1>6. /\ v.st = "emitting" /\ v.batch = Front(B) /\ v.from = tab[t].from
      /\ v.base = tab[t].base /\ v.seen = tab[t].seen \cup {e}
      /\ v.mark = row[e].id /\ v.cut = tab[t].cut
      /\ v.table = IF e \in tab[t].seen THEN tab[t].table ELSE Append(tab[t].table, e)
  BY <1>1, <1>3, TabFields DEF TabType
<1>7. /\ v.table \in Seq(Rows)
      /\ ToSet(v.table) = ToSet(tab[t].table) \cup {e}
      /\ IsInjective(v.table)
      /\ e \in Saved /\ row[e].id > tab[t].base /\ row[e].id \in Ids
      /\ row[e].id \in Int /\ tab[t].base \in Int
  <2>1. Streamed(t) /\ Listed(t)
    BY <1>1 DEF TabInv, Streaming
  <2>2. e \in Saved /\ row[e].id \in Ids
    BY <1>3, <1>5 DEF TabInv, Types, RowsType
  <2>3. n \in 1..n
    BY <1>3
  <2>4. row[e].id > tab[t].base
    BY <1>3, <2>1, <2>3 DEF Streamed
  <2>5. row[e].id \in Int /\ tab[t].base \in Int
    <3>1. Ids \subseteq Int
      BY RowsFinite DEF Ids
    <3> QED
      BY <3>1, <2>2, TabFields
  <2>6. CASE e \in tab[t].seen
    BY <1>6, <2>1, <2>2, <2>4, <2>5, <2>6, TabFields DEF Listed
  <2>7. CASE e \notin tab[t].seen
    <3>1. e \notin ToSet(tab[t].table)
      BY <2>1, <2>4, <2>5, <2>7 DEF Listed
    <3> QED
      BY <1>3, <1>6, <2>1, <2>2, <2>4, <2>5, <2>7, <3>1, TabFields, AppendedRow DEF Listed
  <2> QED
    BY <2>6, <2>7
<1>8. v \in TabType
  <2>1. v = [tab[t] EXCEPT !.batch = Front(B), !.mark = row[e].id, !.table = v.table,
                           !.seen = @ \cup {e}]
    BY <1>3, <1>6
  <2>2. /\ Front(B) \in Seq(Rows) /\ row[e].id \in Ids /\ v.table \in Seq(Rows)
        /\ tab[t].seen \cup {e} \in SUBSET Rows
    BY <1>3, <1>5, <1>7, TabFields
  <2> QED
    BY <2>1, <2>2, TabFields DEF TabType
<1>9. Streamed(t)
  BY <1>1 DEF TabInv, Streaming
<1>10. ASSUME NEW r \in Saved, Wanted(t, r)' PROVE Wanted(t, r) /\ r # e /\ ~Ahead(t, r)
  BY <1>1, <1>2, <1>4, <1>6, <1>7, <1>10 DEF Wanted, Excused, Ahead
<1>11. Reached(tab[t].base)' /\ Reached(tab[t].mark)'
  <2>1. tab'[t].base = tab[t].base /\ tab'[t].mark = row[e].id
    BY <1>4, <1>6
  <2>2. Reached(tab[t].base)
    BY DEF TabInv, Listed
  <2> QED
    BY <1>2, <1>7, <2>1, <2>2 DEF Reached
<1>12. Listed(t)'
  <2>1. /\ tab'[t].table = v.table /\ tab'[t].base = tab[t].base
        /\ tab'[t].seen = tab[t].seen \cup {e}
    BY <1>4, <1>6
  <2> QED
    BY <1>2, <1>7, <1>11, <2>1 DEF TabInv, Listed
<1>13. Streamed(t)'
  <2>1. /\ tab'[t].batch = Front(B) /\ Len(tab'[t].batch) = n - 1
        /\ tab'[t].mark = row[e].id /\ tab'[t].base = tab[t].base
        /\ tab'[t].from = tab[t].from
    BY <1>4, <1>5, <1>6
  <2>2. /\ \A i \in 1..(n - 1) : i \in 1..n
        /\ \A j \in 1..n : j \in 1..(n - 1) \/ j = n
        /\ \A i \in 1..(n - 1) : ~(n < i) /\ i < n
        /\ n \in 1..n /\ \A j \in 1..n : ~(n < j)
    BY <1>3
  <2>3. /\ tab'[t].base <= tab'[t].mark
        /\ tab'[t].from \subseteq Saved'
    BY <1>2, <1>7, <1>9, <2>1 DEF Streamed
  <2>4. \A i \in 1..(n - 1) : row[Front(B)[i]].id > tab[t].base
    BY <1>3, <1>5, <1>9, <2>2 DEF Streamed
  <2>5. ASSUME NEW r \in Saved, Wanted(t, r)' PROVE row[r].id > row[e].id
    <3>1. Wanted(t, r) /\ r # e /\ ~Ahead(t, r)
      BY <2>5, <1>10
    <3>2. ~(row[r].id < row[e].id)
      BY <3>1, <1>3, <1>9, <2>2 DEF Streamed
    <3>3. r \in Rows /\ e \in Rows /\ row[r].id > 0
      BY <1>3, SavedRows DEF RowsInv
    <3>4. row[r].id # row[e].id /\ row[r].id \in Int
      <4>1. row[r].id \in Ids /\ Ids \subseteq Int
        BY <3>3, RowsFinite DEF Types, RowsType, Ids
      <4>2. row[e].id # 0
        BY <1>7, <3>3 DEF RowsInv
      <4> QED
        BY <3>1, <3>3, <4>1, <4>2 DEF RowsInv
    <3> QED
      BY <3>2, <3>4, <1>7
  <2>6. ASSUME NEW r \in Saved, NEW i \in 1..(n - 1), Wanted(t, r)',
               row[r].id < row[Front(B)[i]].id
        PROVE  \E j \in 1..(n - 1) : i < j /\ Front(B)[j] = r
    <3>1. Wanted(t, r) /\ r # e /\ ~Ahead(t, r)
      BY <2>6, <1>10
    <3>2. i \in 1..n /\ row[r].id < row[B[i]].id
      BY <1>5, <2>2, <2>6
    <3>3. PICK j \in 1..n : i < j /\ B[j] = r
      BY <3>1, <3>2, <1>3, <1>9 DEF Streamed
    <3>4. j \in 1..(n - 1)
      BY <3>1, <3>3, <1>3, <2>2
    <3> QED
      BY <3>3, <3>4, <1>5
  <2>7. ASSUME NEW r \in tab[t].from, Wanted(t, r)' PROVE r \in ToSet(Front(B))
    <3>1. r \in Saved
      BY <1>9 DEF Streamed
    <3>2. Wanted(t, r) /\ r # e /\ ~Ahead(t, r)
      BY <2>7, <3>1, <1>10
    <3>3. r \in ToSet(B)
      BY <3>2, <1>3, <1>9 DEF Streamed
    <3> QED
      BY <3>2, <3>3, <1>5
  <2> QED
    BY <1>2, <1>11, <2>1, <2>3, <2>4, <2>5, <2>6, <2>7 DEF Streamed
<1>14. ToSet(tab'[t].batch) \subseteq Saved'
  BY <1>2, <1>3, <1>4, <1>5, <1>6 DEF TabInv
<1> QED
  BY <1>3, <1>8, <1>12, <1>13, <1>14 DEF TabInv

-----------------------------------------------------------------------------
(* The slots.                                                               *)

LEMMA HoldingCounted == IsFiniteSet(Holding) /\ Cardinality(Holding) \in Nat
<1>1. Holding \subseteq Tabs
  BY DEF Holding
<1>2. IsFiniteSet(Holding)
  BY <1>1, TabsAssumption, FS_Subset
<1> QED
  BY <1>2, FS_CardinalityType

(* A dashboard takes a slot with active, gives it back with active or into  *)
(* lost, or keeps what it has.                                              *)
LEMMA SlotMoves ==
  ASSUME Counts, SlotsAccounted, NEW t \in Tabs,
         \A u \in Tabs \ {t} : tab'[u] = tab[u],
         \/ (t \in Holding <=> t \in Holding') /\ UNCHANGED slots
         \/ /\ t \notin Holding /\ t \in Holding' /\ active < Cap
            /\ active' = active + 1 /\ UNCHANGED <<others, lost>>
         \/ /\ t \in Holding /\ t \notin Holding'
            /\ \/ active' = active - 1 /\ lost' = lost
               \/ active' = active /\ lost' = lost + 1
            /\ UNCHANGED others
  PROVE  Counts' /\ SlotsAccounted'
<1>1. \A u \in Tabs \ {t} : u \in Holding' <=> u \in Holding
  BY DEF Holding
<1>2. Holding' \subseteq Tabs /\ Holding \subseteq Tabs
  BY DEF Holding
<1>3. PICK h \in Nat : h = Cardinality(Holding) /\ IsFiniteSet(Holding)
  BY HoldingCounted
<1>4. active = h + others + lost
  BY <1>3 DEF SlotsAccounted
<1>5. active \in Nat /\ others \in Nat /\ lost \in Nat /\ active <= Cap
      /\ Cap \in Nat
  BY SizesAssumption DEF Counts
<1>6. CASE (t \in Holding <=> t \in Holding') /\ UNCHANGED slots
  <2>1. Holding' = Holding
    BY <1>1, <1>2, <1>6
  <2> QED
    BY <1>6, <2>1 DEF Counts, SlotsAccounted, slots
<1>7. CASE /\ t \notin Holding /\ t \in Holding' /\ active < Cap
           /\ active' = active + 1 /\ UNCHANGED <<others, lost>>
  <2>1. Holding' = Holding \cup {t}
    BY <1>1, <1>2, <1>7
  <2>2. Cardinality(Holding') = h + 1
    BY <1>3, <1>7, <2>1, FS_AddElement
  <2> QED
    BY <1>4, <1>5, <1>7, <2>2 DEF Counts, SlotsAccounted
<1>8. CASE /\ t \in Holding /\ t \notin Holding'
           /\ \/ active' = active - 1 /\ lost' = lost
              \/ active' = active /\ lost' = lost + 1
           /\ UNCHANGED others
  <2>1. Holding' = Holding \ {t}
    BY <1>1, <1>2, <1>8
  <2>2. Cardinality(Holding') = h - 1 /\ h # 0
    <3>1. Cardinality(Holding \ {t}) = h - 1
      BY <1>3, <1>8, FS_RemoveElement
    <3>2. h # 0
      BY <1>3, <1>8, FS_EmptySet
    <3> QED
      BY <2>1, <3>1, <3>2
  <2> QED
    BY <1>3, <1>4, <1>5, <1>8, <2>2 DEF Counts, SlotsAccounted
<1> QED
  BY <1>6, <1>7, <1>8

(* Every action of a followed dashboard keeps the count.                    *)
LEMMA TabSlots ==
  ASSUME Types, Counts, SlotsAccounted, NEW t \in Tabs,
         \/ Render(t) \/ Connect(t) \/ StartBody(t) \/ NeverStarted(t) \/ Wake(t)
         \/ ReadPage(t) \/ TickFails(t) \/ Emit(t) \/ Disconnect(t)
  PROVE  Counts' /\ SlotsAccounted'
<1>1. \A u \in Tabs \ {t} : tab'[u] = tab[u]
  BY DEF Types, Render, Connect, StartBody, NeverStarted, Wake, ReadPage, TickFails, Emit,
         Disconnect
<1>2. /\ t \in Holding <=> tab[t].st \in Streaming \cup {"reserved"}
      /\ t \in Holding' <=> tab'[t].st \in Streaming \cup {"reserved"}
  BY DEF Holding
<1>3. tab[t] \in TabType /\ DOMAIN tab = Tabs
  BY DEF Types
<1>4. CASE Render(t)
  <2>1. tab'[t].st = "page"
    BY <1>3, <1>4 DEF Render, NoTab
  <2>2. UNCHANGED slots /\ t \notin Holding
    BY <1>4 DEF Render
  <2> QED
    BY <1>1, <1>2, <2>1, <2>2, SlotMoves DEF Streaming
<1>5. CASE Connect(t)
  <2>1. t \notin Holding /\ UNCHANGED <<others, lost>>
    BY <1>2, <1>5 DEF Connect, Streaming
  <2>2. CASE active >= Cap
    <3>1. tab'[t].st = "refused" /\ active' = active
      BY <1>3, <1>5, <2>2 DEF Connect, NoTab
    <3> QED
      BY <1>1, <1>2, <2>1, <3>1, SlotMoves DEF Streaming, slots
  <2>3. CASE ~(active >= Cap)
    <3>1. tab'[t].st = "reserved" /\ active' = active + 1
      BY <1>3, <1>5, <2>3 DEF Connect, TabType
    <3>2. active < Cap
      BY <2>3, SizesAssumption DEF Counts
    <3> QED
      BY <1>1, <1>2, <2>1, <3>1, <3>2, SlotMoves DEF Streaming
  <2> QED
    BY <2>2, <2>3
<1>6. CASE StartBody(t) \/ Wake(t) \/ ReadPage(t) \/ TickFails(t) \/ Emit(t)
  <2>1. tab'[t].st \in Streaming /\ UNCHANGED slots
    <3>1. CASE StartBody(t) \/ Wake(t)
      <4>1. PICK v : tab' = [tab EXCEPT ![t] = v] /\
               \/ v = [Ticked(t, tab[t].base) EXCEPT !.cut = FALSE]
               \/ v = Ticked(t, tab[t].mark)
        BY <3>1 DEF StartBody, Wake
      <4>2. v.st = "reading"
        BY <1>3, <4>1 DEF Ticked, TabType
      <4>3. UNCHANGED slots
        BY <3>1 DEF StartBody, Wake
      <4> QED
        BY <1>3, <4>1, <4>2, <4>3 DEF Streaming
    <3>2. CASE ReadPage(t)
      BY <1>3, <3>2 DEF ReadPage, TabType, Streaming
    <3>3. CASE TickFails(t)
      BY <1>3, <3>3 DEF TickFails, TabType, Streaming
    <3>4. CASE Emit(t)
      BY <1>3, <3>4 DEF Emit, TabType, Streaming
    <3> QED
      BY <1>6, <3>1, <3>2, <3>3, <3>4
  <2>2. t \in Holding
    BY <1>2, <1>6 DEF StartBody, Wake, Asleep, ReadPage, TickFails, Emit, Streaming
  <2> QED
    BY <1>1, <1>2, <2>1, <2>2, SlotMoves
<1>7. CASE NeverStarted(t)
  <2>1. tab'[t].st = "dropped" /\ tab[t].st = "reserved"
    BY <1>3, <1>7 DEF NeverStarted, TabType
  <2>2. lost' = lost + 1 /\ active' = active /\ UNCHANGED others
    BY <1>7 DEF NeverStarted
  <2> QED
    BY <1>1, <1>2, <2>1, <2>2, SlotMoves DEF Streaming
<1>8. CASE Disconnect(t)
  <2>1. tab'[t].st = "dropped" /\ tab[t].st \in Streaming
    BY <1>3, <1>8 DEF Disconnect, NoTab
  <2>2. active' = active - 1 /\ lost' = lost /\ UNCHANGED others
    BY <1>8 DEF Disconnect
  <2> QED
    BY <1>1, <1>2, <2>1, <2>2, SlotMoves DEF Streaming
<1> QED
  BY <1>4, <1>5, <1>6, <1>7, <1>8

(* A dashboard that is not followed comes or goes.                          *)
LEMMA OtherSlots ==
  ASSUME Counts, SlotsAccounted, OtherConnects \/ OtherDisconnects
  PROVE  Counts' /\ SlotsAccounted'
<1>1. Holding' = Holding /\ lost' = lost
  BY DEF OtherConnects, OtherDisconnects, Holding
<1>2. PICK h \in Nat : h = Cardinality(Holding) /\ h = Cardinality(Holding')
  BY <1>1, HoldingCounted
<1>3. /\ active = h + others + lost /\ active \in Nat /\ others \in Nat /\ lost \in Nat
      /\ active <= Cap /\ Cap \in Nat
  BY <1>2, SizesAssumption DEF SlotsAccounted, Counts
<1> QED
  BY <1>1, <1>2, <1>3 DEF SlotsAccounted, Counts, OtherConnects, OtherDisconnects

-----------------------------------------------------------------------------
(* The administrators' walks.                                               *)

(* The query of a page and the row that records it.                         *)
LEMMA AskMoves ==
  ASSUME Types, RowsInv, NEW a \in Auditors, NEW r \in Rows, WalkInv(a), Ask(a, r)
  PROVE  /\ RowsPart' /\ RowsInv' /\ Kept
         /\ \E w \in WalkType : walk' = [walk EXCEPT ![a] = w]
         /\ WalkInv(a)'
<1>1. RowsPart' /\ RowsInv' /\ Kept /\ saved' = saved
  BY StampMoves DEF Ask, AuditorOnly
<1>2. PICK p, w :
         /\ p \in Nat \ {0} /\ p = walk[a].page
         /\ walk' = [walk EXCEPT ![a] = w]
         /\ w = [walk[a] EXCEPT !.st = "asking", !.row = r, !.read = Page(p, AuditPage),
                                !.more = HasMore(p, AuditPage),
                                !.due = IF p = 1 THEN Saved ELSE walk[a].due]
  <2>1. walk[a].page \in Nat \ {0}
    BY DEF Types, WalkType
  <2>2. walk' = [walk EXCEPT ![a] =
                   [walk[a] EXCEPT !.st = "asking", !.row = r,
                                   !.read = Page(walk[a].page, AuditPage),
                                   !.more = HasMore(walk[a].page, AuditPage),
                                   !.due = IF walk[a].page = 1 THEN Saved ELSE walk[a].due]]
    BY DEF Ask
  <2> QED
    BY <2>1, <2>2
<1>3. walk[a] \in WalkType /\ walk'[a] = w
  BY <1>2 DEF Types
<1>4. Page(p, AuditPage) \subseteq Saved /\ Saved \subseteq Rows /\ Saved' = Saved
  BY <1>1, SavedRows DEF Page, Saved
<1>5. w \in WalkType
  <2>1. /\ Page(p, AuditPage) \in SUBSET Rows /\ Saved \in SUBSET Rows
        /\ HasMore(p, AuditPage) \in BOOLEAN
    BY <1>4 DEF HasMore
  <2> QED
    BY <1>2, <1>3, <2>1 DEF WalkType
<1>6. /\ w.page = p /\ w.got = walk[a].got /\ w.read = Page(p, AuditPage)
      /\ w.due = IF p = 1 THEN Saved ELSE walk[a].due
  BY <1>2, <1>3 DEF WalkType
<1>7. w.due \subseteq Saved
  BY <1>6 DEF WalkInv
<1>8. ASSUME NEW q \in w.due
      PROVE  /\ Rank(Saved, q)' < (p - 1) * AuditPage => q \in walk[a].got
             /\ Rank(Saved, q)' < p * AuditPage => q \in walk[a].got \cup Page(p, AuditPage)
  <2>1. q \in Saved /\ q \in Rows
    BY <1>4, <1>7
  <2>2. PICK n \in Nat, m \in Nat : /\ n = Rank(Saved, q) /\ m = Rank(Saved, q)' /\ n <= m
    <3>1. Rank(Saved, q) \in Nat /\ Rank(Saved, q) <= Rank(Saved, q)'
      BY <1>1, <1>4, <2>1, RankRange, LogGrows DEF Types
    <3>2. IsFiniteSet({x \in Saved' : Newer(x, q)'})
      BY <1>4, FiniteRows
    <3>3. Rank(Saved, q)' \in Nat
      BY <3>2, FS_CardinalityType DEF Rank
    <3> QED
      BY <3>1, <3>3
  <2>3. PICK lo \in Int, hi \in Int : lo = (p - 1) * AuditPage /\ hi = p * AuditPage
                                      /\ (p = 1 => lo = 0)
    <3>1. p \in Int /\ AuditPage \in Int
      BY <1>2, SizesAssumption
    <3>2. (p - 1) * AuditPage \in Int /\ p * AuditPage \in Int
      BY <3>1
    <3>3. p = 1 => (p - 1) * AuditPage = 0
      BY <3>1
    <3> QED
      BY <3>2, <3>3
  <2>4. n < lo => q \in walk[a].got
    <3>1. CASE p = 1
      BY <2>2, <2>3, <3>1
    <3>2. CASE p # 1
      BY <1>2, <1>6, <2>2, <2>3, <3>2 DEF WalkInv
    <3> QED
      BY <3>1, <3>2
  <2>5. n < hi => q \in walk[a].got \cup Page(p, AuditPage)
    <3>1. CASE n < lo
      BY <2>4, <3>1
    <3>2. CASE ~(n < lo)
      BY <2>1, <2>2, <2>3, <3>2 DEF Page
    <3> QED
      BY <3>1, <3>2
  <2>6. (m < lo => n < lo) /\ (m < hi => n < hi)
    BY <2>2, <2>3
  <2> QED
    BY <2>2, <2>3, <2>4, <2>5, <2>6
<1>9. WalkInv(a)'
  BY <1>3, <1>4, <1>6, <1>7, <1>8 DEF WalkInv
<1> QED
  BY <1>1, <1>2, <1>5, <1>9

(* The answer, or the failure, and what it leaves of the walk.              *)
LEMMA AnswerMoves ==
  ASSUME Types, RowsInv, NEW a \in Auditors, WalkInv(a), Answer(a) \/ AnswerFails(a)
  PROVE  /\ RowsPart' /\ RowsInv' /\ Kept
         /\ \E w \in WalkType : walk' = [walk EXCEPT ![a] = w]
         /\ WalkInv(a)'
<1>1. /\ RowsPart' /\ RowsInv' /\ Kept /\ Saved' = Saved
      /\ \A r \in Saved : Rank(Saved, r)' = Rank(Saved, r)
  <2>1. UNCHANGED <<row, saved, clock, nextId>>
    BY DEF Answer, AnswerFails, Asked, AuditorOnly
  <2> QED
    BY <2>1, StillLog
<1>2. walk[a] \in WalkType /\ walk[a].st = "asking"
  BY DEF Types, Answer, AnswerFails, Asked
<1>3. NoRow \in Rows \cup {NoRow} /\ FALSE \in BOOLEAN /\ {} \in SUBSET Rows
  OBVIOUS
<1>4. CASE Answer(a)
  <2>1. PICK w : /\ walk' = [walk EXCEPT ![a] = w]
                 /\ w = [walk[a] EXCEPT
                           !.st = IF walk[a].more THEN "idle" ELSE "finished",
                           !.page = walk[a].page + 1,
                        !.got = walk[a].got \cup walk[a].read,
                           !.row = NoRow, !.read = {}, !.more = FALSE]
    <3>1. walk' = [walk EXCEPT ![a] =
                     [walk[a] EXCEPT
                        !.st = IF walk[a].more THEN "idle" ELSE "finished",
                        !.page = walk[a].page + 1,
                        !.got = walk[a].got \cup walk[a].read,
                        !.row = NoRow, !.read = {}, !.more = FALSE]]
      BY <1>4 DEF Answer
    <3> QED
      BY <3>1
  <2>2. w \in WalkType /\ walk'[a] = w
    <3>1. /\ walk[a].page + 1 \in Nat \ {0}
          /\ walk[a].got \cup walk[a].read \in SUBSET Rows
          /\ (IF walk[a].more THEN "idle" ELSE "finished")
                \in {"idle", "asking", "finished", "away"}
      BY <1>2 DEF WalkType
    <3>2. w \in WalkType
      BY <1>2, <1>3, <2>1, <3>1 DEF WalkType
    <3> QED
      BY <2>1, <3>2 DEF Types
  <2>3. /\ w.st # "asking" /\ w.page = walk[a].page + 1
        /\ w.got = walk[a].got \cup walk[a].read /\ w.due = walk[a].due
    BY <1>2, <2>1 DEF WalkType
  <2>4. (walk[a].page + 1) - 1 = walk[a].page
    BY <1>2 DEF WalkType
  <2>5. WalkInv(a)'
    BY <1>1, <1>2, <2>2, <2>3, <2>4 DEF WalkInv
  <2> QED
    BY <1>1, <2>1, <2>2, <2>5
<1>5. CASE AnswerFails(a)
  <2>1. PICK w : /\ walk' = [walk EXCEPT ![a] = w]
                 /\ w = [walk[a] EXCEPT !.st = "idle", !.row = NoRow, !.read = {},
                                        !.more = FALSE]
    BY <1>5 DEF AnswerFails
  <2>2. w \in WalkType /\ walk'[a] = w
    BY <1>2, <1>3, <2>1 DEF WalkType, Types
  <2>3. /\ w.st # "asking" /\ w.page = walk[a].page
        /\ w.got = walk[a].got /\ w.due = walk[a].due
    BY <1>2, <2>1 DEF WalkType
  <2>4. WalkInv(a)'
    BY <1>1, <2>2, <2>3 DEF WalkInv
  <2> QED
    BY <1>1, <2>1, <2>2, <2>4
<1> QED
  BY <1>4, <1>5

-----------------------------------------------------------------------------
(* The invariant.                                                           *)

(* It holds before anything happened, whoever takes part.                   *)
LEMMA FeedInit ==
  ASSUME Init
  PROVE  FeedInv
<1>1. PICK n \in Rows, tabs \in SUBSET Tabs, auditors \in SUBSET Auditors, l \in 0..Cap :
         With(n, tabs, auditors, l)
  BY DEF Init
<1>2. Saved = {} /\ saved = <<>> /\ saved \in Seq(Rows)
  BY <1>1, EmptyBatch DEF With, Saved
<1>3. 0 \in Ids /\ 0 \in Nat /\ 1 \in Nat \ {0} /\ FALSE \in BOOLEAN
      /\ {"none", "gone"} \subseteq RowStates
  BY RowsFinite DEF Ids, RowStates
<1>4. /\ row \in [Rows -> [st : RowStates, ts : Nat, id : Ids]]
      /\ \A r \in Rows : row[r].st \in {"none", "gone"} /\ row[r].id = 0
  BY <1>1, <1>3 DEF With
<1>5. \A t \in Tabs : /\ tab[t].st \in {"blank", "closed"} /\ tab[t].batch = <<>>
                      /\ tab[t].table = <<>> /\ tab[t].seen = {} /\ tab[t].base = 0
  BY <1>1 DEF With, NoTab
<1>6. tab \in [Tabs -> TabType]
  <2>1. NoTab \in TabType /\ {"blank", "closed"} \subseteq TabStates
    BY <1>3, EmptyBatch DEF NoTab, TabType, TabStates
  <2>2. \A st \in {"blank", "closed"} : [NoTab EXCEPT !.st = st] \in TabType
    BY <2>1 DEF TabType
  <2> QED
    BY <1>1, <2>2 DEF With
<1>7. walk \in [Auditors -> WalkType] /\ \A a \in Auditors : walk[a].due = {}
  <2>1. NoWalk \in WalkType /\ NoWalk.due = {}
    BY <1>3 DEF NoWalk, WalkType
  <2>2. \A st \in {"idle", "away"} : /\ [NoWalk EXCEPT !.st = st] \in WalkType
                                     /\ [NoWalk EXCEPT !.st = st].due = {}
    BY <2>1 DEF WalkType
  <2> QED
    BY <1>1, <2>2 DEF With
<1>8. Types
  BY <1>1, <1>2, <1>3, <1>4, <1>6, <1>7 DEF Types, RowsType, With
<1>9. RowsInv
  <2>1. Numbered = {}
    BY <1>4 DEF Numbered
  <2>2. nextId = Cardinality(Numbered) + 1 /\ nextId = 1
    BY <1>1, <2>1, FS_EmptySet DEF With
  <2> QED
    BY <1>2, <1>4, <2>2 DEF RowsInv
<1>10. Counts /\ SlotsAccounted
  <2>1. Holding = {}
    BY <1>5 DEF Holding, Streaming
  <2>2. Cardinality(Holding) = 0
    BY <2>1, FS_EmptySet
  <2>3. l \in Nat /\ l <= Cap /\ active = l /\ others = 0 /\ lost = l
    BY <1>1, SizesAssumption DEF With
  <2> QED
    BY <2>2, <2>3 DEF Counts, SlotsAccounted
<1>11. TabsInv
  BY <1>2, <1>5, EmptyBatch DEF TabsInv, TabInv, Listed, Reached, Streaming
<1>12. WalksInv
  BY <1>7 DEF WalksInv, WalkInv
<1> QED
  BY <1>8, <1>9, <1>10, <1>11, <1>12 DEF FeedInv

(* A dashboard moves.                                                       *)
LEMMA TabStep ==
  ASSUME FeedInv, NEW t \in Tabs,
         \/ Render(t) \/ Connect(t) \/ StartBody(t) \/ NeverStarted(t) \/ Wake(t)
         \/ ReadPage(t) \/ TickFails(t) \/ Emit(t) \/ Disconnect(t)
  PROVE  FeedInv'
<1>1. Types /\ RowsInv /\ Counts /\ SlotsAccounted /\ TabsInv /\ WalksInv /\ TabInv(t)
  BY DEF FeedInv, TabsInv
<1>2. ReaderOnly
  BY DEF Render, Connect, StartBody, NeverStarted, Wake, ReadPage, TickFails, Emit, Disconnect
<1>3. \E v \in TabType : tab' = [tab EXCEPT ![t] = v] /\ TabInv(t)'
  <2>1. CASE Render(t)
    BY <1>1, <2>1, RenderMoves
  <2>2. CASE Connect(t) \/ NeverStarted(t) \/ Disconnect(t)
    BY <1>1, <2>2, QuietMoves
  <2>3. CASE StartBody(t) \/ Wake(t)
    BY <1>1, <2>3, TickStarts
  <2>4. CASE ReadPage(t)
    BY <1>1, <2>4, ReadPageMoves
  <2>5. CASE TickFails(t)
    BY <1>1, <2>5, TickFailsMoves
  <2>6. CASE Emit(t)
    BY <1>1, <2>6, EmitMoves
  <2> QED
    BY <2>1, <2>2, <2>3, <2>4, <2>5, <2>6
<1>4. Types' /\ RowsInv' /\ TabsInv' /\ WalksInv'
  BY <1>1, <1>2, <1>3, ReaderMoves
<1>5. Counts' /\ SlotsAccounted'
  BY <1>1, TabSlots
<1> QED
  BY <1>4, <1>5 DEF FeedInv

(* The log moves, under the hands of a transaction or of an administrator.  *)
LEMMA LogStep ==
  ASSUME FeedInv, RowsPart', RowsInv', Kept, UNCHANGED <<slots, tab>>,
         walk' \in [Auditors -> WalkType],
         \A a \in Auditors : walk'[a] = walk[a] \/ WalkInv(a)'
  PROVE  FeedInv'
<1>1. Types /\ RowsInv /\ Counts /\ SlotsAccounted /\ TabsInv /\ WalksInv
  BY DEF FeedInv
<1>2. Types'
  BY <1>1 DEF Types, RowsPart
<1>3. TabsInv'
  BY <1>1, TabKept DEF TabsInv
<1>4. WalksInv'
  BY <1>1, WalkKept DEF WalksInv
<1>5. Counts' /\ SlotsAccounted'
  BY <1>1 DEF Counts, SlotsAccounted, Holding, slots
<1> QED
  BY <1>2, <1>3, <1>4, <1>5 DEF FeedInv

LEMMA FeedStep ==
  ASSUME FeedInv, [Next]_vars
  PROVE  FeedInv'
<1>1. Types /\ RowsInv /\ Counts /\ SlotsAccounted /\ TabsInv /\ WalksInv
      /\ walk \in [Auditors -> WalkType]
  BY DEF FeedInv, Types
<1>2. ASSUME NEW r \in Rows, Begin(r) \/ Insert(r) \/ Commit(r) \/ Rollback(r)
      PROVE  FeedInv'
  <2>1. RowsPart' /\ RowsInv' /\ Kept
    BY <1>1, <1>2, StampMoves, InsertMoves, EndMoves DEF Begin
  <2>2. UNCHANGED <<slots, tab, walk>>
    BY <1>2 DEF Begin, Insert, Commit, Rollback
  <2> QED
    BY <1>1, <2>1, <2>2, LogStep
<1>3. ASSUME NEW t \in Tabs,
             \/ Render(t) \/ Connect(t) \/ StartBody(t) \/ NeverStarted(t) \/ Wake(t)
             \/ ReadPage(t) \/ TickFails(t) \/ Emit(t) \/ Disconnect(t)
      PROVE  FeedInv'
  BY <1>3, TabStep
<1>4. CASE OtherConnects \/ OtherDisconnects
  <2>1. UNCHANGED <<row, saved, clock, nextId, tab, walk>>
    BY <1>4 DEF OtherConnects, OtherDisconnects, ReaderOnly
  <2>2. RowsPart' /\ RowsInv' /\ Kept
    BY <1>1, <2>1, StillLog
  <2>3. Types' /\ TabsInv' /\ WalksInv'
    <3>1. Types'
      BY <1>1, <2>1, <2>2 DEF Types, RowsPart
    <3>2. TabsInv' /\ WalksInv'
      BY <1>1, <2>1, <2>2, TabKept, WalkKept DEF TabsInv, WalksInv
    <3> QED
      BY <3>1, <3>2
  <2>4. Counts' /\ SlotsAccounted'
    BY <1>1, <1>4, OtherSlots
  <2> QED
    BY <2>2, <2>3, <2>4 DEF FeedInv
<1>5. ASSUME NEW a \in Auditors,
             \/ \E r \in Rows : Ask(a, r)
             \/ Answer(a) \/ AnswerFails(a)
      PROVE  FeedInv'
  <2>1. /\ RowsPart' /\ RowsInv' /\ Kept
        /\ \E w \in WalkType : walk' = [walk EXCEPT ![a] = w]
        /\ WalkInv(a)'
    BY <1>1, <1>5, AskMoves, AnswerMoves DEF WalksInv
  <2>2. UNCHANGED <<slots, tab>>
    BY <1>5 DEF Ask, Answer, AnswerFails, Asked, AuditorOnly
  <2>3. /\ walk' \in [Auditors -> WalkType]
        /\ \A b \in Auditors : walk'[b] = walk[b] \/ b = a
    BY <1>1, <2>1
  <2> QED
    BY <2>1, <2>2, <2>3, LogStep
<1>6. CASE UNCHANGED vars
  <2>1. UNCHANGED <<row, saved, clock, nextId, tab, walk, slots>>
    BY <1>6 DEF vars
  <2>2. RowsPart' /\ RowsInv' /\ Kept
    BY <1>1, <2>1, StillLog
  <2> QED
    BY <1>1, <2>1, <2>2, LogStep
<1> QED
  BY <1>2, <1>3, <1>4, <1>5, <1>6 DEF Next

(* The log, the dashboards, the slots and the walks always satisfy it.      *)
THEOREM FeedInvariant == Spec => []FeedInv
<1>1. Init => FeedInv
  BY FeedInit
<1>2. FeedInv /\ [Next]_vars => FeedInv'
  BY FeedStep
<1> QED
  BY <1>1, <1>2, PTL DEF Spec

-----------------------------------------------------------------------------
(* What the runs check.                                                     *)

(* The rows, tabs and walks have the values the code gives them: the ids of *)
(* the sequence stay below the number of rows, the counters within the cap. *)
THEOREM TypesInvariant == Spec => []TypeOK
<1>1. FeedInv => TypeOK
  <2> SUFFICES ASSUME FeedInv PROVE TypeOK
    OBVIOUS
  <2>1. Types /\ RowsInv /\ Counts /\ SlotsAccounted /\ TabsInv
    BY DEF FeedInv
  <2>2. \A r \in Rows : /\ row[r].st \in {"none", "begun", "inserted", "saved", "gone"}
                        /\ row[r].id \in Ids
                        /\ r \in Saved <=> row[r].st = "saved"
    BY <2>1 DEF Types, RowsType, RowStates, RowsInv
  <2>3. {active, others, lost} \subseteq 0..Cap
    <3>1. Cardinality(Holding) \in Nat
      BY HoldingCounted
    <3> QED
      BY <2>1, <3>1, SizesAssumption DEF Counts, SlotsAccounted
  <2>4. ASSUME NEW t \in Tabs
        PROVE  /\ tab[t].st \in Streaming \cup {"blank", "closed", "page", "reserved",
                                                "refused", "dropped"}
               /\ tab[t].mark \in Ids /\ tab[t].base \in Ids
               /\ ToSet(tab[t].batch) \cup tab[t].seen \subseteq Saved
    <3>1. TabInv(t)
      BY <2>1 DEF TabsInv
    <3> QED
      BY <2>1, <3>1, TabFields DEF TabStates, TabInv, Listed
  <2>5. \A a \in Auditors : /\ walk[a].st \in {"idle", "asking", "finished", "away"}
                            /\ walk[a].row \in Rows \cup {NoRow}
    BY <2>1 DEF Types, WalkType
  <2> QED
    BY <2>2, <2>3, <2>4, <2>5 DEF TypeOK
<1> QED
  BY <1>1, FeedInvariant, PTL

(* The count of open streams is exact but for the slots of bodies that never*)
(* started: no interleaving of checks, reservations and releases in sse.py  *)
(* opens one stream too many or frees a slot twice.                         *)
THEOREM SlotsInvariant == Spec => []SlotsAccounted
<1>1. FeedInv => SlotsAccounted
  BY DEF FeedInv
<1> QED
  BY <1>1, FeedInvariant, PTL

(* No row is listed twice on a page, whatever is re-sent after the watermark*)
(* fell, after pages shifted under a tick or after a reconnection.          *)
THEOREM ListedOnceInvariant == Spec => []NoRowListedTwice
<1>1. FeedInv => NoRowListedTwice
  BY DEF FeedInv, TabsInv, TabInv, Listed, NoRowListedTwice
<1> QED
  BY <1>1, FeedInvariant, PTL

(* When a tick ends, every row that was committed when it began is on the   *)
(* page, but for rows older than the page, out of order, or beyond the page *)
(* cap (sse.py _collect_new_audit_rows and _dashboard_stream_generator).    *)
THEOREM TickInvariant == Spec => []TickCoversLog
<1>1. FeedInv => TickCoversLog
  <2> SUFFICES ASSUME FeedInv, NEW t \in Tabs, Asleep(t), NEW r \in tab[t].from,
                      Wanted(t, r)
               PROVE  FALSE
    BY DEF TickCoversLog, Wanted
  <2>1. Streamed(t)
    BY DEF FeedInv, TabsInv, TabInv, Asleep, Streaming
  <2>2. ToSet(tab[t].batch) = {} /\ ~Ahead(t, r)
    BY EmptyBatch DEF Asleep, Ahead
  <2> QED
    BY <2>1, <2>2 DEF Streamed
<1> QED
  BY <1>1, FeedInvariant, PTL

(* An administrator turning the pages of GET /admin/audit does not pass a   *)
(* row that was in the log when the first page was read.                    *)
THEOREM WalkInvariant == Spec => []WalkMissesNothing
<1>1. FeedInv => WalkMissesNothing
  BY DEF FeedInv, WalksInv, WalkInv, WalkMissesNothing, Passed
<1> QED
  BY <1>1, FeedInvariant, PTL
=====
