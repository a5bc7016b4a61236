---------------------------- MODULE EditsProofs ----------------------------
(***************************************************************************)
(* Proofs about the pending edits, for any tables, keys and number of      *)
(* changes, whatever others may do and the database may refuse: the types, *)
(* and with them what the list operators return and what a load leaves;    *)
(* then where the rows, the cursor and the forms are; and then what        *)
(* becomes of the changes, and where they are written.                     *)
(***************************************************************************)
EXTENDS Edits, FiniteSetTheorems, SequenceTheorems, NaturalsInduction,
        WellFoundedInduction, TLAPS

LEMMA LeastOf ==
  ASSUME NEW S \in SUBSET Nat, S # {}
  PROVE  \E m \in S : \A n \in S : m <= n
<1>1. PICK m \in S : \A n \in S : ~ (<<n, m>> \in OpToRel(<, Nat))
  BY NatLessThanWellFounded, WFMin
<1>2. \A n \in S : ~ (n < m)
  BY <1>1 DEF OpToRel
<1> QED
  BY <1>2

\* A finite set of numbers has one of every rank.
LEMMA RankExists ==
  ASSUME NEW S \in SUBSET Nat, IsFiniteSet(S), NEW i \in Nat, i < Cardinality(S)
  PROVE  \E n \in S : Cardinality({m \in S : m < n}) = i
<1> DEFINE Ranked(j) == \E n \in S : Cardinality({m \in S : m < n}) = j
           Missing == {j \in Nat : j < Cardinality(S) /\ ~Ranked(j)}
<1>1. SUFFICES ASSUME Missing # {} PROVE FALSE
  OBVIOUS
<1>2. PICK j \in Missing : \A k \in Missing : j <= k
  BY <1>1, LeastOf
<1>3. Cardinality(S) \in Nat /\ S # {}
  BY <1>2, FS_CardinalityType, FS_EmptySet
<1>4. CASE j = 0
  <2>1. PICK n \in S : \A m \in S : n <= m
    BY <1>3, LeastOf
  <2>2. {m \in S : m < n} = {}
    <3>1. \A m \in S : m \in Nat /\ n \in Nat /\ ~ (m < n)
      BY <2>1
    <3> QED
      BY <3>1
  <2>3. Ranked(0)
    BY <2>2, FS_EmptySet
  <2> QED
    BY <1>2, <1>4, <2>3
<1>5. CASE j # 0
  <2>1. j - 1 \in Nat /\ j - 1 < Cardinality(S) /\ j - 1 \notin Missing
    BY <1>2, <1>3, <1>5
  <2>2. PICK n \in S : Cardinality({m \in S : m < n}) = j - 1
    BY <2>1
  <2> DEFINE Below == {m \in S : m < n}
             Above == {m \in S : n < m}
  <2>3. IsFiniteSet(Below) /\ IsFiniteSet(Below \cup {n}) /\ Cardinality(Below \cup {n}) = j
    <3>1. IsFiniteSet(Below)
      BY FS_Subset
    <3>2. n \notin Below
      OBVIOUS
    <3>3. Cardinality(Below \cup {n}) = Cardinality(Below) + 1 /\ IsFiniteSet(Below \cup {n})
      BY <3>1, <3>2, FS_AddElement
    <3>4. j - 1 + 1 = j
      BY <1>2
    <3> QED
      BY <2>2, <3>1, <3>3, <3>4
  <2>4. Above # {}
    <3>1. SUFFICES ASSUME Above = {} PROVE FALSE
      OBVIOUS
    <3>2. S = Below \cup {n}
      <4>1. \A m \in S : m \in Nat /\ n \in Nat /\ ~ (n < m)
        BY <3>1
      <4>2. \A m \in S : m < n \/ m = n
        BY <4>1
      <4> QED
        BY <4>2
    <3> QED
      BY <1>2, <2>3, <3>2
  <2>5. PICK u \in Above : \A m \in Above : u <= m
    BY <2>4, LeastOf
  <2>6. {m \in S : m < u} = Below \cup {n}
    <3>1. \A m \in S : m \in Nat /\ n \in Nat /\ u \in Nat /\ n < u
      BY <2>5
    <3>2. \A m \in S : n < m => u <= m
      BY <2>5
    <3>3. \A m \in S : m < u <=> m < n \/ m = n
      BY <3>1, <3>2
    <3> QED
      BY <3>3
  <2>7. Ranked(j)
    BY <2>3, <2>5, <2>6
  <2> QED
    BY <1>2, <2>7
<1> QED
  BY <1>4, <1>5, <1>2

\* Sorted lists the numbers of a set.
LEMMA SortedTyped ==
  ASSUME NEW S \in SUBSET Nat, IsFiniteSet(S)
  PROVE  /\ Cardinality(S) \in Nat
         /\ Sorted(S) \in [1 .. Cardinality(S) -> S]
<1>1. Cardinality(S) \in Nat
  BY FS_CardinalityType
<1>2. \A i \in 1 .. Cardinality(S) :
        (CHOOSE n \in S : Cardinality({m \in S : m < n}) = i - 1) \in S
  <2> TAKE i \in 1 .. Cardinality(S)
  <2>1. i - 1 \in Nat /\ i - 1 < Cardinality(S)
    BY <1>1
  <2>2. \E n \in S : Cardinality({m \in S : m < n}) = i - 1
    BY <2>1, RankExists
  <2> QED
    BY <2>2
<1> QED
  BY <1>1, <1>2 DEF Sorted

-----------------------------------------------------------------------------
(* The sidebar                                                             *)

LEMMA PlaceOf ==
  ASSUME NEW t \in Tables
  PROVE  Place(t) \in Nat /\ Order[Place(t)] = t
<1>1. \E i \in DOMAIN Order : Order[i] = t
  BY ConstantsAssumption DEF ToSet
<1>2. DOMAIN Order \subseteq Nat
  BY ConstantsAssumption
<1> QED
  BY <1>1, <1>2 DEF Place

LEMMA RowOfTyped ==
  ASSUME NEW rows \in SUBSET Tables, NEW t \in rows
  PROVE  /\ Cardinality(rows) \in Nat /\ Cardinality(rows) <= Cardinality(Tables)
         /\ Cardinality(Tables) \in Nat
         /\ RowOf(t, rows) \in 0 .. Cardinality(rows) - 1
<1> DEFINE Before == {u \in rows : Place(u) < Place(t)}
<1>1. /\ IsFiniteSet(rows) /\ Cardinality(rows) <= Cardinality(Tables)
      /\ Cardinality(rows) \in Nat /\ Cardinality(Tables) \in Nat
  BY ConstantsAssumption, FS_Subset, FS_CardinalityType
<1>2. t \notin Before
  BY PlaceOf
<1>3. IsFiniteSet(rows \ {t}) /\ Cardinality(rows \ {t}) = Cardinality(rows) - 1
  BY <1>1, FS_RemoveElement
<1>4. Before \in SUBSET (rows \ {t})
  BY <1>2
<1>5. Cardinality(Before) \in Nat /\ Cardinality(Before) <= Cardinality(rows) - 1
  BY <1>3, <1>4, FS_Subset, FS_CardinalityType
<1> QED
  BY <1>1, <1>5 DEF RowOf

LEMMA TableAtTyped ==
  ASSUME NEW index, NEW rows
  PROVE  TableAt(index, rows) \in rows \cup {NoTable}
BY DEF TableAt

-----------------------------------------------------------------------------
(* Types, part by part                                                     *)

DatabaseTyped ==
  /\ read_only \in BOOLEAN /\ keyed \in SUBSET Keyed /\ unanswered \subseteq Ids
  /\ existing \in SUBSET Tables /\ db \in [Tables -> SUBSET Keys]

SidebarTyped ==
  /\ tables \in SUBSET Tables /\ matched \in SUBSET Tables
  /\ table_index \in 0 .. Cardinality(Tables) - 1
  /\ filters \in BOOLEAN /\ pending \in BOOLEAN

GridTyped ==
  /\ loaded \in Tables /\ headers \in BOOLEAN /\ raw \in Seq(GridRows)
  /\ row_index \in Nat /\ column_index \in {0, 1} /\ results \in BOOLEAN

\* The values of a changed row: one at least, no two of a column, and only
\* a key for a key
ValuesFit(values) ==
  /\ values # <<>>
  /\ \A i, j \in DOMAIN values : values[i].column = values[j].column => i = j
  /\ \A i \in DOMAIN values : values[i].column = "id" => values[i].to \in Keys

EditsTyped ==
  /\ deletes \in Seq(Marks) /\ updates \in Seq(Updates) /\ inserts \in Seq(Inserts)
  /\ \A i \in DOMAIN updates : ValuesFit(updates[i].columns)

\* A form that adds a row was opened on a table.
ModalsTyped ==
  /\ value \in [open : BOOLEAN, row : GridRows, column : Columns, editable : BOOLEAN,
                early : BOOLEAN]
  /\ form \in [open : BOOLEAN, at : Nat, adds : BOOLEAN, identity : Identities, row : GridRows,
               early : BOOLEAN]
  /\ form.open /\ form.adds => form.row.table \in Tables

\* Some columns are written of a row that has more, in a table with a key.
WritingTyped ==
  /\ stage \in {"no", "writing", "refused", "gone"} /\ columns \in 0 .. 1
  /\ problem \in {"none", "refused", "gone"}
  /\ columns # 0 => /\ stage # "no" /\ updates # <<>> /\ columns < Len(updates[1].columns)
                     /\ CurrentTable \in keyed

MemoryTyped ==
  /\ changes \in 0 .. MaxChanges
  /\ written \subseteq Ids /\ dropped \subseteq Ids
  /\ attempt \subseteq Ids /\ wrote \subseteq Ids /\ astray \subseteq Ids
  /\ moved \in BOOLEAN

TypeInv ==
  /\ DatabaseTyped /\ SidebarTyped /\ GridTyped /\ EditsTyped
  /\ ModalsTyped /\ WritingTyped /\ MemoryTyped

LEMMA TypeInvIsType == TypeInv /\ doubtful \subseteq Ids => TypeOK
BY DEF TypeInv, TypeOK, DatabaseTyped, SidebarTyped, GridTyped, EditsTyped, ModalsTyped,
       WritingTyped, MemoryTyped

-----------------------------------------------------------------------------
(* What the state is read for                                              *)

LEMMA CurrentTyped == SidebarTyped => CurrentTable \in Tables \cup {NoTable}
BY TableAtTyped DEF SidebarTyped, CurrentTable, Sidebar, SidebarRows

LEMMA PendingTyped ==
  ASSUME EditsTyped
  PROVE  /\ DeletesOf(deletes) \subseteq Ids /\ UpdatesOf(updates) \subseteq Ids
         /\ InsertsOf(inserts) \subseteq Ids /\ Pending \subseteq Ids
<1>1. DeletesOf(deletes) \subseteq Ids
  <2>1. \A i \in DOMAIN deletes : deletes[i] \in Marks
    BY DEF EditsTyped
  <2> QED
    BY <2>1 DEF DeletesOf, Marks
<1>2. InsertsOf(inserts) \subseteq Ids
  <2>1. \A i \in DOMAIN inserts : inserts[i] \in Inserts
    BY DEF EditsTyped
  <2> QED
    BY <2>1 DEF InsertsOf, Inserts
<1>3. UpdatesOf(updates) \subseteq Ids
  <2>1. \A i \in DOMAIN updates : updates[i] \in Updates
    BY DEF EditsTyped
  <2>2. \A i \in DOMAIN updates : \A j \in DOMAIN updates[i].columns :
          updates[i].columns[j] \in Values
    BY <2>1 DEF Updates
  <2>3. \A v \in Values : v.id \in Ids
    BY DEF Values
  <2> QED
    BY <2>2, <2>3 DEF UpdatesOf
<1> QED
  BY <1>1, <1>2, <1>3 DEF Pending

LEMMA NoRowTyped == NoRow \in GridRows
BY DEF NoRow, GridRows

LEMMA RowHereTyped ==
  ASSUME GridTyped
  PROVE  RowHere \in GridRows /\ Identity \in Identities
<1>1. RowHere \in GridRows
  BY NoRowTyped DEF GridTyped, RowHere, RowIsThere
<1>2. RowHere.key \in Keys \cup {0}
  BY <1>1 DEF GridRows
<1> QED
  BY <1>1, <1>2 DEF Identity, Identities

LEMMA AddedRowsTyped ==
  ASSUME NEW table \in Tables, NEW added \in Seq(Inserts)
  PROVE  /\ AddedRows(table, added) \in Seq(GridRows)
         /\ Len(AddedRows(table, added)) = Len(added)
         /\ \A i \in DOMAIN added : AddedRows(table, added)[i] =
                                     [table |-> table, key |-> added[i].key, add |-> added[i].id]
<1>1. \A i \in DOMAIN added :
        [table |-> table, key |-> added[i].key, add |-> added[i].id] \in GridRows
  <2> TAKE i \in DOMAIN added
  <2>1. added[i] \in Inserts
    OBVIOUS
  <2> QED
    BY <2>1 DEF Inserts, GridRows
<1>2. DOMAIN added = 1 .. Len(added) /\ Len(added) \in Nat
  OBVIOUS
<1>3. AddedRows(table, added) \in [1 .. Len(added) -> GridRows]
  BY <1>1, <1>2 DEF AddedRows
<1> QED
  BY <1>2, <1>3 DEF AddedRows

LEMMA TableRowsTyped ==
  ASSUME DatabaseTyped, NEW table \in Tables, NEW filtered \in BOOLEAN
  PROVE  TableRows(table, filtered) \in Seq(GridRows)
<1> DEFINE keys == IF filtered THEN db[table] \cap Matching ELSE db[table]
<1>1. keys \in SUBSET Keys
  BY DEF DatabaseTyped
<1>2. keys \in SUBSET Nat /\ IsFiniteSet(keys)
  BY <1>1, ConstantsAssumption, FS_Subset
<1> HIDE DEF keys
<1>3. Cardinality(keys) \in Nat /\ Sorted(keys) \in [1 .. Cardinality(keys) -> keys]
  BY <1>2, SortedTyped
<1>4. \A i \in 1 .. Cardinality(keys) :
        [table |-> table, key |-> Sorted(keys)[i], add |-> 0] \in GridRows
  BY <1>1, <1>3 DEF GridRows
<1>5. TableRows(table, filtered) =
        [i \in 1 .. Cardinality(keys) |-> [table |-> table, key |-> Sorted(keys)[i], add |-> 0]]
  BY <1>3 DEF TableRows, keys
<1>6. TableRows(table, filtered) \in [1 .. Cardinality(keys) -> GridRows]
  BY <1>4, <1>5
<1> QED
  BY <1>3, <1>6

\* A load leaves the added rows on top, and the cursor on a row.
LEMMA LoadKeeps ==
  ASSUME DatabaseTyped, SidebarTyped, GridTyped,
         NEW table \in Tables \cup {NoTable}, NEW filtered \in BOOLEAN,
         NEW added \in Seq(Inserts), NEW keep, NEW shows \in BOOLEAN,
         Load(table, filtered, added, keep, shows)
  PROVE  /\ pending' = FALSE /\ GridTyped'
         /\ CursorOnARow => CursorOnARow'
         /\ (raw # <<>> => headers) => (raw' # <<>> => headers')
         /\ table # NoTable /\ headers' /\ ~results' =>
              /\ loaded' = table
              /\ Len(added) <= Len(raw')
              /\ \A i \in DOMAIN added : raw'[i].add = added[i].id /\ raw'[i].key = added[i].key
         /\ table = NoTable =>
              UNCHANGED <<loaded, headers, raw, row_index, column_index>> /\ results' = shows
<1>1. CASE table = NoTable
  <2>1. table \notin existing
    BY <1>1, NoTableAssumption DEF DatabaseTyped
  <2>2. UNCHANGED <<loaded, headers, raw, row_index, column_index>> /\ results' = shows
        /\ pending' = FALSE
    BY <1>1, <2>1 DEF Load
  <2> QED
    BY <1>1, <2>2 DEF GridTyped, CursorOnARow
<1>2. CASE table # NoTable /\ headers' = FALSE /\ raw' = <<>> /\ results' = shows
           /\ UNCHANGED <<loaded, row_index, column_index>>
  <2>1. pending' = FALSE
    BY DEF Load
  <2>2. <<>> \in Seq(GridRows)
    BY EmptySeq
  <2>3. GridTyped'
    BY <1>2, <2>2 DEF GridTyped
  <2> QED
    BY <1>2, <2>1, <2>3 DEF CursorOnARow
<1>3. CASE /\ table \in existing
           /\ loaded' = table
           /\ headers' = TRUE
           /\ raw' = AddedRows(table, added) \o TableRows(table, filtered)
           /\ results' = FALSE
           /\ row_index' = IF keep = "cursor" /\ raw' # <<>> THEN Nearest(row_index, Len(raw')) ELSE 0
           /\ column_index' = IF keep # "nothing" /\ headers THEN column_index ELSE 0
  <2>1. table \in Tables
    BY <1>3 DEF DatabaseTyped
  <2>2. /\ raw' \in Seq(GridRows)
        /\ Len(raw') = Len(added) + Len(TableRows(table, filtered))
        /\ \A i \in 1 .. Len(added) : raw'[i] = AddedRows(table, added)[i]
    <3>1. /\ AddedRows(table, added) \in Seq(GridRows)
          /\ Len(AddedRows(table, added)) = Len(added)
      BY <2>1, AddedRowsTyped
    <3>2. TableRows(table, filtered) \in Seq(GridRows)
      BY <2>1, TableRowsTyped
    <3> DEFINE top == AddedRows(table, added)
               below == TableRows(table, filtered)
    <3> HIDE DEF top, below
    <3>3. top \in Seq(GridRows) /\ below \in Seq(GridRows) /\ Len(top) = Len(added)
      BY <3>1, <3>2 DEF top, below
    <3>4. /\ top \o below \in Seq(GridRows)
          /\ Len(top \o below) = Len(top) + Len(below)
          /\ \A i \in 1 .. Len(top) + Len(below) :
               (top \o below)[i] = IF i <= Len(top) THEN top[i] ELSE below[i - Len(top)]
      BY <3>3, ConcatProperties
    <3>5. \A i \in 1 .. Len(top) : (top \o below)[i] = top[i]
      BY <3>3, <3>4
    <3>6. raw' = top \o below
      BY <1>3 DEF top, below
    <3> QED
      BY <3>3, <3>4, <3>5, <3>6 DEF top, below
  <2>3. Len(added) \in Nat /\ Len(TableRows(table, filtered)) \in Nat
        /\ DOMAIN added = 1 .. Len(added)
    BY <2>1, TableRowsTyped
  <2>4. \A i \in DOMAIN added : raw'[i].add = added[i].id /\ raw'[i].key = added[i].key
    <3>1. \A i \in DOMAIN added : raw'[i] = AddedRows(table, added)[i]
      BY <2>2, <2>3
    <3>2. \A i \in DOMAIN added : raw'[i] =
            [table |-> table, key |-> added[i].key, add |-> added[i].id]
      BY <2>1, <3>1, AddedRowsTyped
    <3> QED
      <4> TAKE i \in DOMAIN added
      <4> DEFINE row == [table |-> table, key |-> added[i].key, add |-> added[i].id]
      <4>1. raw'[i] = row
        BY <3>2
      <4>2. row.add = added[i].id /\ row.key = added[i].key
        OBVIOUS
      <4> HIDE DEF row
      <4> QED
        BY <4>1, <4>2
  <2>5. row_index' \in Nat /\ (raw' # <<>> => row_index' < Len(raw'))
    <3>1. raw' # <<>> => Len(raw') \in Nat \ {0}
      BY <2>2
    <3> QED
      BY <1>3, <3>1 DEF Nearest, Least, GridTyped
  <2>6. GridTyped'
    BY <1>3, <2>1, <2>2, <2>5 DEF GridTyped
  <2>7. table # NoTable /\ pending' = FALSE
    BY <2>1, NoTableAssumption DEF Load
  <2> QED
    <3>1. Len(added) <= Len(raw')
      BY <2>2, <2>3
    <3>2. CursorOnARow'
      BY <2>5 DEF CursorOnARow
    <3> QED
      BY <1>3, <2>4, <2>6, <2>7, <3>1, <3>2
<1> QED
  BY <1>1, <1>2, <1>3 DEF Load
-----------------------------------------------------------------------------
(* Lists of changes                                                        *)

LEMMA RemoveAtTyped ==
  ASSUME NEW S, NEW s \in Seq(S), NEW at \in 1 .. Len(s)
  PROVE  /\ RemoveAt(s, at) \in Seq(S)
         /\ Len(RemoveAt(s, at)) = Len(s) - 1
         /\ \A i \in 1 .. Len(s) - 1 : RemoveAt(s, at)[i] = IF i < at THEN s[i] ELSE s[i + 1]
<1> DEFINE front == SubSeq(s, 1, at - 1)
           back  == SubSeq(s, at + 1, Len(s))
<1>1. /\ front \in Seq(S) /\ Len(front) = at - 1
      /\ \A i \in 1 .. at - 1 : front[i] = s[i]
  BY SubSeqProperties
<1>2. /\ back \in Seq(S) /\ Len(back) = Len(s) - at
      /\ \A i \in 1 .. Len(s) - at : back[i] = s[at + i]
  BY SubSeqProperties
<1>3. RemoveAt(s, at) = front \o back
  BY DEF RemoveAt
<1> HIDE DEF front, back
<1>4. /\ front \o back \in Seq(S)
      /\ Len(front \o back) = Len(front) + Len(back)
      /\ \A i \in 1 .. Len(front) + Len(back) :
           (front \o back)[i] = IF i <= Len(front) THEN front[i] ELSE back[i - Len(front)]
  BY <1>1, <1>2, ConcatProperties
<1>5. \A i \in 1 .. Len(s) - 1 : (front \o back)[i] = IF i < at THEN s[i] ELSE s[i + 1]
  <2> TAKE i \in 1 .. Len(s) - 1
  <2>1. CASE i < at
    <3>1. i \in 1 .. at - 1 /\ i <= Len(front) /\ i \in 1 .. Len(front) + Len(back)
      BY <1>1, <1>2, <2>1
    <3> QED
      BY <1>1, <1>4, <2>1, <3>1
  <2>2. CASE ~ (i < at)
    <3>1. /\ i - (at - 1) \in 1 .. Len(s) - at /\ ~ (i <= Len(front))
          /\ i \in 1 .. Len(front) + Len(back) /\ at + (i - (at - 1)) = i + 1
      BY <1>1, <1>2, <2>2
    <3>2. (front \o back)[i] = back[i - (at - 1)]
      BY <1>1, <1>4, <3>1
    <3> QED
      BY <1>2, <2>2, <3>1, <3>2
  <2> QED
    BY <2>1, <2>2
<1> QED
  BY <1>1, <1>2, <1>3, <1>4, <1>5

\* The first mark on a row, 0 when there is none
MarkAt(marks, identity) ==
  LET I == {i \in 1 .. Len(marks) : marks[i].identity = identity} IN IF I # {} THEN Min(I) ELSE 0

LEMMA MarkTyped ==
  ASSUME NEW marks \in Seq(Marks), NEW identity, MarkAt(marks, identity) # 0
  PROVE  MarkAt(marks, identity) \in 1 .. Len(marks)
<1> DEFINE I == {i \in 1 .. Len(marks) : marks[i].identity = identity}
<1>1. I # {} /\ MarkAt(marks, identity) = Min(I)
  BY DEF MarkAt
<1>2. \E m \in I : \A n \in I : m <= n
  <2>1. I \in SUBSET Nat
    OBVIOUS
  <2> HIDE DEF I
  <2> QED
    BY <1>1, <2>1, LeastOf
<1>3. Min(I) \in I
  BY <1>2 DEF Min
<1> QED
  BY <1>1, <1>3

LEMMA UpdateAtTyped ==
  ASSUME updates \in Seq(Updates), NEW identity
  PROVE  IF \A i \in DOMAIN updates : updates[i].identity # identity THEN UpdateAt(identity) = 0
         ELSE /\ UpdateAt(identity) \in 1 .. Len(updates) /\ UpdateAt(identity) # 0
              /\ updates[UpdateAt(identity)].identity = identity
<1> DEFINE I == {i \in DOMAIN updates : updates[i].identity = identity}
<1>1. CASE I = {}
  BY <1>1 DEF UpdateAt
<1>2. CASE I # {}
  <2>1. I \in SUBSET Nat
    OBVIOUS
  <2>2. \E m \in I : \A n \in I : m <= n
    BY <1>2, <2>1, LeastOf
  <2>3. UpdateAt(identity) \in I
    BY <1>2, <2>2 DEF UpdateAt
  <2> QED
    BY <2>3
<1> QED
  BY <1>1, <1>2

\* A value put among those of a row
LEMMA PutTyped ==
  ASSUME NEW values \in Seq(Values), NEW v \in Values, v.column = "id" => v.to \in Keys,
         values = <<>> \/ ValuesFit(values)
  PROVE  Put(values, v) \in Seq(Values) /\ ValuesFit(Put(values, v))
<1> DEFINE ats == {i \in DOMAIN values : values[i].column = v.column}
<1>0. DOMAIN values = 1 .. Len(values) /\ Len(values) \in Nat
  OBVIOUS
<1>1. CASE ats = {}
  <2> DEFINE new == Append(values, v)
  <2>1. Put(values, v) = new
    BY <1>1 DEF Put
  <2>2. /\ new \in Seq(Values) /\ new # <<>> /\ Len(new) = Len(values) + 1
        /\ \A i \in 1 .. Len(values) : new[i] = values[i]
        /\ new[Len(values) + 1] = v
        /\ DOMAIN new = 1 .. Len(values) + 1
    BY AppendProperties
  <2>3. \A i \in 1 .. Len(values) : values[i].column # v.column
    BY <1>0, <1>1
  <2>4. \A i, j \in 1 .. Len(values) : values[i].column = values[j].column => i = j
    BY <1>0 DEF ValuesFit
  <2>5. \A i \in 1 .. Len(values) : values[i].column = "id" => values[i].to \in Keys
    BY <1>0 DEF ValuesFit
  <2> HIDE DEF new
  <2>6. \A i \in DOMAIN new : i \in 1 .. Len(values) \/ i = Len(values) + 1
    BY <1>0, <2>2
  <2>7. \A i, j \in DOMAIN new : new[i].column = new[j].column => i = j
    BY <2>2, <2>3, <2>4, <2>6
  <2>8. \A i \in DOMAIN new : new[i].column = "id" => new[i].to \in Keys
    BY <2>2, <2>5, <2>6
  <2> QED
    BY <2>1, <2>2, <2>7, <2>8 DEF ValuesFit
<1>2. CASE ats # {}
  <2> DEFINE new == [i \in DOMAIN values |-> IF i \in ats THEN v ELSE values[i]]
  <2>1. Put(values, v) = new
    BY <1>2 DEF Put
  <2>2. new \in [1 .. Len(values) -> Values]
    BY <1>0
  <2>3. /\ new \in Seq(Values) /\ DOMAIN new = DOMAIN values
        /\ \A i \in DOMAIN values : new[i] = IF i \in ats THEN v ELSE values[i]
    BY <1>0, <2>2
  <2>4. new # <<>>
    BY <1>2, <2>3
  <2>5. ValuesFit(values)
    BY <1>2
  <2>6. \A i \in DOMAIN values : new[i].column = values[i].column
    BY <2>3
  <2>7. \A i, j \in DOMAIN new : new[i].column = new[j].column => i = j
    BY <2>3, <2>5, <2>6 DEF ValuesFit
  <2>8. \A i \in DOMAIN new : new[i].column = "id" => new[i].to \in Keys
    BY <2>3, <2>5 DEF ValuesFit
  <2> HIDE DEF new
  <2> QED
    BY <2>1, <2>3, <2>4, <2>7, <2>8 DEF ValuesFit
<1> QED
  BY <1>1, <1>2

LEMMA PutUpdateTyped ==
  ASSUME EditsTyped, NEW identity \in Identities,
         NEW v \in Values, v.column = "id" => v.to \in Keys
  PROVE  /\ PutUpdate(identity, v) \in Seq(Updates)
         /\ \A i \in DOMAIN PutUpdate(identity, v) : ValuesFit(PutUpdate(identity, v)[i].columns)
<1>0. updates \in Seq(Updates) /\ DOMAIN updates = 1 .. Len(updates) /\ Len(updates) \in Nat
  BY DEF EditsTyped
<1>1. CASE UpdateAt(identity) = 0
  <2> DEFINE row == [identity |-> identity, columns |-> <<v>>]
             new == Append(updates, row)
  <2>1. PutUpdate(identity, v) = new
    BY <1>1 DEF PutUpdate
  <2>2. <<v>> \in Seq(Values) /\ ValuesFit(<<v>>)
    <3>1. /\ <<v>> \in Seq(Values) /\ <<v>> # <<>> /\ DOMAIN <<v>> = {1} /\ <<v>>[1] = v
      OBVIOUS
    <3> QED
      BY <3>1 DEF ValuesFit
  <2>3. row \in Updates
    BY <2>2 DEF Updates
  <2>4. row.columns = <<v>>
    OBVIOUS
  <2> HIDE DEF row
  <2>5. /\ new \in Seq(Updates) /\ DOMAIN new = 1 .. Len(updates) + 1
        /\ \A i \in 1 .. Len(updates) : new[i] = updates[i]
        /\ new[Len(updates) + 1] = row
    BY <1>0, <2>3, AppendProperties
  <2>6. \A i \in 1 .. Len(updates) : ValuesFit(updates[i].columns)
    BY <1>0 DEF EditsTyped
  <2>7. \A i \in DOMAIN new : ValuesFit(new[i].columns)
    <3> TAKE i \in DOMAIN new
    <3>1. CASE i \in 1 .. Len(updates)
      BY <2>5, <2>6, <3>1
    <3>2. CASE i = Len(updates) + 1
      BY <2>2, <2>4, <2>5, <3>2
    <3> QED
      BY <1>0, <2>5, <3>1, <3>2
  <2> QED
    BY <2>1, <2>5, <2>7
<1>2. CASE UpdateAt(identity) # 0
  <2> DEFINE at  == UpdateAt(identity)
             row == [updates[at] EXCEPT !.columns = Put(@, v)]
             new == [updates EXCEPT ![at] = row]
  <2>1. at \in 1 .. Len(updates)
    BY <1>0, <1>2, UpdateAtTyped
  <2>2. PutUpdate(identity, v) = new
    BY <1>2 DEF PutUpdate
  <2>3. updates[at] \in Updates /\ ValuesFit(updates[at].columns)
    BY <1>0, <2>1 DEF EditsTyped
  <2>4. updates[at].columns \in Seq(Values) /\ updates[at].identity \in Identities
    BY <2>3 DEF Updates
  <2>5. Put(updates[at].columns, v) \in Seq(Values) /\ ValuesFit(Put(updates[at].columns, v))
    BY <2>3, <2>4, PutTyped
  <2>6. row = [identity |-> updates[at].identity, columns |-> Put(updates[at].columns, v)]
    BY <2>3 DEF Updates
  <2>7. row \in Updates /\ row.columns = Put(updates[at].columns, v)
    BY <2>4, <2>5, <2>6 DEF Updates
  <2> HIDE DEF at, row
  <2>8. /\ new \in Seq(Updates) /\ DOMAIN new = DOMAIN updates
        /\ \A i \in DOMAIN updates : new[i] = IF i = at THEN row ELSE updates[i]
    BY <1>0, <2>1, <2>7, ExceptSeq
  <2>9. \A i \in DOMAIN new : ValuesFit(new[i].columns)
    BY <2>5, <2>7, <2>8 DEF EditsTyped
  <2> QED
    BY <2>2, <2>8, <2>9
<1> QED
  BY <1>1, <1>2
-----------------------------------------------------------------------------
(* Every step keeps the types                                              *)

LEMMA TypeInit == Init => TypeInv
<1> SUFFICES ASSUME Init PROVE TypeInv
  OBVIOUS
<1>1. DatabaseTyped
  BY ConstantsAssumption DEF Init, DatabaseTyped
<1>2. Cardinality(Tables) \in Nat \ {0} /\ Order[1] \in Tables
  <2>1. Cardinality(Tables) \in Nat /\ Cardinality(Tables) # 0
    BY ConstantsAssumption, FS_CardinalityType, FS_EmptySet
  <2> QED
    BY <2>1, ConstantsAssumption
<1>3. SidebarTyped
  <2>1. 0 \in 0 .. Cardinality(Tables) - 1
    BY <1>2
  <2> QED
    BY <2>1 DEF Init, SidebarTyped
<1>4. GridTyped
  <2>1. TableRows(Order[1], FALSE) \in Seq(GridRows)
    BY <1>1, <1>2, TableRowsTyped
  <2> QED
    BY <1>2, <2>1 DEF Init, GridTyped
<1>5. EditsTyped
  BY EmptySeq DEF Init, EditsTyped
<1>6. ModalsTyped
  <2>1. [key |-> 0, whole |-> FALSE] \in Identities
    BY DEF Identities
  <2> QED
    BY <2>1, NoRowTyped DEF Init, ModalsTyped, NoValue, NoForm, NoKey, Columns
<1>7. WritingTyped
  BY DEF Init, WritingTyped
<1>8. MemoryTyped
  <2>1. 0 \in 0 .. MaxChanges
    BY ConstantsAssumption
  <2> QED
    BY <2>1 DEF Init, MemoryTyped
<1> QED
  BY <1>1, <1>3, <1>4, <1>5, <1>6, <1>7, <1>8 DEF TypeInv

LEMMA ForgetTyped ==
  ASSUME TypeInv, Forget
  PROVE  EditsTyped' /\ dropped' \subseteq Ids
<1>1. Pending \subseteq Ids /\ dropped \subseteq Ids
  BY PendingTyped DEF TypeInv, MemoryTyped
<1>2. EditsTyped'
  BY EmptySeq DEF Forget, EditsTyped
<1> QED
  BY <1>1, <1>2 DEF Forget

LEMMA GridKept == GridTyped /\ UNCHANGED grid => GridTyped'
BY DEF GridTyped, grid

LEMMA EditsKept == EditsTyped /\ UNCHANGED edits => EditsTyped'
BY DEF EditsTyped, edits

LEMMA SidebarKept == SidebarTyped /\ UNCHANGED sidebar => SidebarTyped'
BY DEF SidebarTyped, sidebar

LEMMA DatabaseKept == DatabaseTyped /\ UNCHANGED database => DatabaseTyped'
BY DEF DatabaseTyped, database

LEMMA ModalsKept == ModalsTyped /\ UNCHANGED modals => ModalsTyped'
BY DEF ModalsTyped, modals

\* Nothing is written in part when nothing is being written.
LEMMA AtRest == WritingTyped /\ stage = "no" => columns = 0
BY DEF WritingTyped

LEMMA WritingKept == WritingTyped /\ stage = "no" /\ UNCHANGED writing => WritingTyped'
BY DEF WritingTyped, writing

LEMMA ElsewhereKept ==
  ASSUME TypeInv, stage = "no", UNCHANGED Elsewhere
  PROVE  /\ DatabaseTyped' /\ ModalsTyped' /\ WritingTyped' /\ tables' = tables
         /\ dropped' \subseteq Ids => MemoryTyped'
<1>1. UNCHANGED <<database, modals, writing, tables>>
  BY DEF Elsewhere
<1>2. DatabaseTyped' /\ ModalsTyped' /\ WritingTyped'
  BY <1>1, DatabaseKept, ModalsKept, WritingKept DEF TypeInv
<1>3. dropped' \subseteq Ids => MemoryTyped'
  BY DEF TypeInv, MemoryTyped, Elsewhere, attempts
<1> QED
  BY <1>1, <1>2, <1>3

\* Where a table that is listed stands
LEMMA RowOfIsPlace ==
  ASSUME NEW rows \in SUBSET Tables, NEW t \in rows
  PROVE  RowOf(t, rows) \in 0 .. Cardinality(Tables) - 1
<1>1. /\ Cardinality(rows) \in Nat /\ Cardinality(rows) <= Cardinality(Tables)
      /\ Cardinality(Tables) \in Nat /\ RowOf(t, rows) \in 0 .. Cardinality(rows) - 1
  BY RowOfTyped
<1> QED
  BY <1>1

LEMMA Nearer ==
  ASSUME NEW rows \in SUBSET Tables, rows # {}, NEW index \in 0 .. Cardinality(Tables) - 1
  PROVE  Least(index, Cardinality(rows) - 1) \in 0 .. Cardinality(Tables) - 1
<1>1. PICK t \in rows : TRUE
  OBVIOUS
<1>2. /\ Cardinality(rows) \in Nat /\ Cardinality(Tables) \in Nat
      /\ RowOf(t, rows) \in 0 .. Cardinality(rows) - 1
  BY RowOfTyped
<1> QED
  BY <1>2 DEF Least

LEMMA MovesTyped ==
  ASSUME TypeInv,
         \/ \E i \in 0 .. Cardinality(Tables) - 1 : SelectTable(i)
         \/ \E m \in SUBSET Tables : Reselect(m)
         \/ IdleLoad
         \/ \E keep \in {"nothing", "cursor"} : LoadAgain(keep)
         \/ \E t \in Tables : GoToTable(t)
         \/ \E t \in Tables, f \in BOOLEAN : OpenLinked(t, f)
         \/ Reload
         \/ \E f \in BOOLEAN : ApplyFilters(f)
         \/ ClearFilters
         \/ \E t \in Tables \cup {NoTable} : RunQuery(t)
  PROVE  TypeInv'
<1> USE DEF TypeInv
<1>0. /\ CurrentTable \in Tables \cup {NoTable}
      /\ Pending \subseteq Ids /\ DeletesOf(deletes) \subseteq Ids /\ UpdatesOf(updates) \subseteq Ids
      /\ dropped \subseteq Ids /\ inserts \in Seq(Inserts) /\ filters \in BOOLEAN /\ results \in BOOLEAN
      /\ tables \in SUBSET Tables /\ matched \in SUBSET Tables /\ <<>> \in Seq(Inserts)
  BY CurrentTyped, PendingTyped, EmptySeq DEF MemoryTyped, EditsTyped, SidebarTyped, GridTyped
<1>1. ASSUME NEW i \in 0 .. Cardinality(Tables) - 1, SelectTable(i) PROVE TypeInv'
  <2>1. stage = "no" /\ UNCHANGED Elsewhere
    BY <1>1 DEF SelectTable, Browsing, Listening
  <2>2. SidebarTyped'
    BY <1>1, <2>1, ElsewhereKept DEF SelectTable, SidebarTyped
  <2>3. GridTyped' /\ EditsTyped' /\ dropped' \subseteq Ids
    BY <1>1, GridKept, ForgetTyped DEF SelectTable
  <2> QED
    BY <2>1, <2>2, <2>3, ElsewhereKept
<1>2. ASSUME NEW m \in SUBSET Tables, Reselect(m) PROVE TypeInv'
  <2>1. stage = "no" /\ UNCHANGED Elsewhere /\ UNCHANGED grid /\ matched' = m
    BY <1>2 DEF Reselect, Browsing, Listening
  <2> DEFINE rows == SidebarRows(tables, m)
  <2>2. CASE rows = {}
    <3>1. UNCHANGED <<table_index, filters, pending, edits, dropped>>
      BY <1>2, <2>2 DEF Reselect
    <3>2. SidebarTyped'
      BY <2>1, <3>1, ElsewhereKept DEF SidebarTyped
    <3> QED
      BY <1>0, <2>1, <3>1, <3>2, ElsewhereKept, GridKept, EditsKept
  <2>3. CASE rows # {}
    <3>1. /\ table_index' = Least(table_index, Cardinality(rows) - 1)
          /\ pending' = TRUE
          /\ \/ /\ deletes' = <<>> /\ dropped' = dropped \cup DeletesOf(deletes)
                /\ UNCHANGED <<filters, updates, inserts>>
             \/ filters' = FALSE /\ Forget
      BY <1>2, <2>3 DEF Reselect, Nearest
    <3>2. rows \in SUBSET Tables
      BY <1>0 DEF SidebarRows
    <3>3. table_index' \in 0 .. Cardinality(Tables) - 1
      BY <2>3, <3>1, <3>2, Nearer DEF SidebarTyped
    <3>4. SidebarTyped'
      BY <2>1, <3>1, <3>3, ElsewhereKept DEF SidebarTyped
    <3>5. EditsTyped' /\ dropped' \subseteq Ids
      <4>1. CASE /\ deletes' = <<>> /\ dropped' = dropped \cup DeletesOf(deletes)
                 /\ UNCHANGED <<filters, updates, inserts>>
        BY <1>0, <4>1, EmptySeq DEF EditsTyped
      <4> QED
        BY <3>1, <4>1, ForgetTyped
    <3> QED
      BY <2>1, <3>4, <3>5, ElsewhereKept, GridKept
  <2> QED
    BY <2>2, <2>3
<1>3. ASSUME NEW keep, Load(CurrentTable, filters, inserts, keep, results), stage = "no",
             UNCHANGED <<matched, table_index, filters, edits, dropped, Elsewhere>>
      PROVE  TypeInv'
  <2>1. GridTyped' /\ pending' = FALSE
    BY <1>0, <1>3, LoadKeeps
  <2>2. SidebarTyped'
    BY <1>3, <2>1, ElsewhereKept DEF SidebarTyped
  <2> QED
    BY <1>0, <1>3, <2>1, <2>2, ElsewhereKept, EditsKept
<1>4. ASSUME NEW t \in Tables, GoToTable(t) PROVE TypeInv'
  <2>1. stage = "no" /\ UNCHANGED Elsewhere /\ matched' = Tables /\ t \in tables
        /\ table_index' = RowOf(t, SidebarRows(tables, Tables))
    BY <1>4 DEF GoToTable, Browsing, Listening
  <2>2. table_index' \in 0 .. Cardinality(Tables) - 1
    BY <1>0, <2>1, RowOfIsPlace DEF SidebarRows
  <2>3. CASE table_index' = table_index
    <3>1. Load(t, filters, inserts, "nothing", FALSE) /\ UNCHANGED <<filters, edits, dropped>>
      BY <1>4, <2>3 DEF GoToTable
    <3>2. GridTyped' /\ pending' = FALSE
      BY <1>0, <3>1, LoadKeeps
    <3>3. SidebarTyped'
      BY <2>1, <2>2, <3>1, <3>2, ElsewhereKept DEF SidebarTyped
    <3> QED
      BY <1>0, <2>1, <3>1, <3>2, <3>3, ElsewhereKept, EditsKept
  <2>4. CASE table_index' # table_index
    <3>1. filters' = FALSE /\ pending' = TRUE /\ results' = FALSE /\ Forget
          /\ UNCHANGED <<loaded, headers, raw, row_index, column_index>>
      BY <1>4, <2>4 DEF GoToTable
    <3>2. SidebarTyped' /\ GridTyped'
      BY <2>1, <2>2, <3>1, ElsewhereKept DEF SidebarTyped, GridTyped
    <3> QED
      BY <2>1, <3>1, <3>2, ElsewhereKept, ForgetTyped
  <2> QED
    BY <2>3, <2>4
<1>5. ASSUME NEW t \in Tables, NEW f \in BOOLEAN, OpenLinked(t, f) PROVE TypeInv'
  <2>1. stage = "no" /\ UNCHANGED Elsewhere /\ matched' = Revealed(t) /\ t \in tables
        /\ table_index' = RowOf(t, SidebarRows(tables, matched'))
        /\ filters' = f /\ Forget /\ Load(t, f, <<>>, "nothing", results)
    BY <1>5 DEF OpenLinked, Browsing, Listening
  <2>2. matched' \in SUBSET Tables /\ t \in SidebarRows(tables, matched')
        /\ SidebarRows(tables, matched') \in SUBSET Tables
    BY <1>0, <2>1 DEF Revealed, Sidebar, SidebarRows
  <2>3. table_index' \in 0 .. Cardinality(Tables) - 1
    BY <2>1, <2>2, RowOfIsPlace
  <2>4. GridTyped' /\ pending' = FALSE
    BY <1>0, <2>1, LoadKeeps
  <2>5. SidebarTyped'
    BY <2>1, <2>2, <2>3, <2>4, ElsewhereKept DEF SidebarTyped
  <2> QED
    BY <2>1, <2>4, <2>5, ElsewhereKept, ForgetTyped
<1>6. ASSUME Reload PROVE TypeInv'
  <2> DEFINE rows  == SidebarRows(existing, matched)
             found == RowOf(CurrentTable, rows)
             last  == IF rows = {} THEN 0 ELSE Cardinality(rows) - 1
             listed == /\ tables' = existing
                       /\ table_index' = IF found < Cardinality(rows) THEN found
                                         ELSE Least(table_index, last)
                       /\ Load(TableAt(table_index', rows), filters, inserts, "cursor", results)
                       /\ UNCHANGED problem
             refused == problem' = "refused" /\ UNCHANGED <<tables, table_index, pending, grid>>
  <2>1. /\ stage = "no" /\ (listed \/ refused) /\ keyed' \in SUBSET Keyed
        /\ UNCHANGED <<read_only, existing, db, unanswered, matched, filters, edits, modals,
                       stage, columns, attempts, memory>>
    BY <1>6 DEF Reload, Browsing, Listening
  <2>2. rows \in SUBSET Tables /\ existing \in SUBSET Tables
    BY <1>0 DEF SidebarRows, DatabaseTyped
  <2>3. ASSUME listed PROVE table_index' \in 0 .. Cardinality(Tables) - 1
    <3>1. CASE CurrentTable \in rows
      BY <2>2, <2>3, <3>1, RowOfTyped
    <3>2. CASE CurrentTable \notin rows
      <4>1. Cardinality(rows) \in Nat /\ found = Cardinality(rows)
        BY <2>2, <3>2, ConstantsAssumption, FS_Subset, FS_CardinalityType DEF RowOf
      <4>2. table_index' = Least(table_index, last)
        BY <2>3, <4>1
      <4>3. CASE rows = {}
        <5>1. Cardinality(Tables) \in Nat /\ last = 0
          BY <4>3, ConstantsAssumption, FS_CardinalityType
        <5> QED
          BY <4>2, <5>1 DEF Least, SidebarTyped
      <4>4. CASE rows # {}
        BY <2>2, <4>2, <4>4, Nearer DEF SidebarTyped
      <4> QED
        BY <4>3, <4>4
    <3> QED
      BY <3>1, <3>2
  <2>4. ASSUME listed PROVE GridTyped' /\ SidebarTyped'
    <3>1. TableAt(table_index', rows) \in Tables \cup {NoTable}
      BY <2>2, TableAtTyped
    <3>2. GridTyped' /\ pending' = FALSE
      BY <1>0, <2>4, <3>1, LoadKeeps
    <3> QED
      BY <2>1, <2>2, <2>3, <2>4, <3>2 DEF SidebarTyped
  <2>5. refused => GridTyped' /\ SidebarTyped'
    BY <2>1, GridKept DEF SidebarTyped
  <2>6. DatabaseTyped'
    BY <2>1 DEF DatabaseTyped
  <2>7. MemoryTyped'
    BY <2>1 DEF MemoryTyped, memory, attempts
  <2>8. WritingTyped'
    BY <2>1, AtRest DEF WritingTyped
  <2> QED
    BY <2>1, <2>4, <2>5, <2>6, <2>7, <2>8, EditsKept, ModalsKept
<1>7. ASSUME NEW f \in BOOLEAN, ApplyFilters(f) PROVE TypeInv'
  <2>1. /\ stage = "no" /\ filters' = f /\ UNCHANGED <<matched, table_index, inserts, Elsewhere>>
        /\ deletes' = <<>> /\ updates' = <<>>
        /\ dropped' = dropped \cup DeletesOf(deletes) \cup UpdatesOf(updates)
        /\ Load(CurrentTable, f, inserts, "nothing", results)
    BY <1>7 DEF ApplyFilters, Browsing, Listening
  <2>2. GridTyped' /\ pending' = FALSE
    BY <1>0, <2>1, LoadKeeps
  <2>3. SidebarTyped'
    BY <2>1, <2>2, ElsewhereKept DEF SidebarTyped
  <2>4. EditsTyped' /\ dropped' \subseteq Ids
    BY <1>0, <2>1, EmptySeq DEF EditsTyped
  <2> QED
    BY <2>1, <2>2, <2>3, <2>4, ElsewhereKept
<1>8. ASSUME ClearFilters PROVE TypeInv'
  <2>1. /\ stage = "no" /\ filters' = FALSE
        /\ UNCHANGED <<matched, table_index, edits, dropped, Elsewhere>>
        /\ Load(CurrentTable, FALSE, inserts, "nothing", results)
    BY <1>8 DEF ClearFilters, Browsing, Listening
  <2>2. GridTyped' /\ pending' = FALSE
    BY <1>0, <2>1, LoadKeeps
  <2>3. SidebarTyped'
    BY <2>1, <2>2, ElsewhereKept DEF SidebarTyped
  <2> QED
    BY <1>0, <2>1, <2>2, <2>3, ElsewhereKept, EditsKept
<1>9. ASSUME NEW t \in Tables \cup {NoTable}, RunQuery(t) PROVE TypeInv'
  <2>1. /\ stage = "no" /\ UNCHANGED <<filters, pending, loaded, Elsewhere>> /\ t \in tables \cup {NoTable}
        /\ headers' = TRUE /\ row_index' = 0 /\ column_index' = 0 /\ results' = TRUE
    BY <1>9 DEF RunQuery, Browsing, Listening
  <2>2. raw' \in Seq(GridRows)
    <3>1. PICK k \in Keys : raw' \in {<<>>, <<[NoRow EXCEPT !.key = k]>>}
      BY <1>9 DEF RunQuery
    <3>2. [NoRow EXCEPT !.key = k] \in GridRows
      BY NoRowTyped DEF GridRows
    <3>3. <<[NoRow EXCEPT !.key = k]>> \in Seq(GridRows)
      BY <3>2
    <3> QED
      BY <3>1, <3>3, EmptySeq
  <2>3. GridTyped'
    BY <2>1, <2>2 DEF GridTyped
  <2>4. CASE t = NoTable
    <3>1. UNCHANGED <<matched, table_index, edits, dropped>>
      BY <1>9, <2>4 DEF RunQuery
    <3>2. SidebarTyped'
      BY <2>1, <3>1, ElsewhereKept DEF SidebarTyped
    <3> QED
      BY <1>0, <2>1, <2>3, <3>1, <3>2, ElsewhereKept, EditsKept
  <2>5. CASE t # NoTable
    <3>1. /\ matched' = Revealed(t)
          /\ table_index' = RowOf(t, SidebarRows(tables, matched'))
          /\ UNCHANGED <<edits, dropped>> \/ Forget
      BY <1>9, <2>5 DEF RunQuery
    <3>2. matched' \in SUBSET Tables /\ t \in SidebarRows(tables, matched')
          /\ SidebarRows(tables, matched') \in SUBSET Tables
      BY <1>0, <2>1, <2>5, <3>1 DEF Revealed, Sidebar, SidebarRows
    <3>3. table_index' \in 0 .. Cardinality(Tables) - 1
      BY <3>1, <3>2, RowOfIsPlace
    <3>4. SidebarTyped'
      BY <2>1, <3>2, <3>3, ElsewhereKept DEF SidebarTyped
    <3>5. EditsTyped' /\ dropped' \subseteq Ids
      BY <1>0, <3>1, EditsKept, ForgetTyped
    <3> QED
      BY <2>1, <2>3, <3>4, <3>5, ElsewhereKept
  <2> QED
    BY <2>4, <2>5
<1>10. ASSUME IdleLoad PROVE TypeInv'
  BY <1>3, <1>10 DEF IdleLoad
<1>11. ASSUME NEW keep, LoadAgain(keep) PROVE TypeInv'
  BY <1>3, <1>11 DEF LoadAgain, Browsing, Listening
<1> QED
  BY <1>1, <1>2, <1>4, <1>5, <1>6, <1>7, <1>8, <1>9, <1>10, <1>11
LEMMA NextId ==
  ASSUME MemoryTyped, changes < MaxChanges, changes' = changes + 1
  PROVE  changes' \in Ids /\ changes' \in 0 .. MaxChanges
BY ConstantsAssumption DEF MemoryTyped, Ids

LEMMA EditorTyped ==
  ASSUME TypeInv, NEW looking \in BOOLEAN
  PROVE  Editor(looking) \in [open : BOOLEAN, row : GridRows, column : Columns, editable : BOOLEAN,
                             early : BOOLEAN]
<1>1. RowHere \in GridRows /\ Column(column_index) \in Columns
  BY RowHereTyped DEF TypeInv, Column, Columns
<1>2. (~looking /\ MayEdit) \in BOOLEAN /\ pending \in BOOLEAN
  BY DEF MayEdit, TypeInv, SidebarTyped
<1> QED
  BY <1>1, <1>2 DEF Editor

LEMMA NoValueTyped ==
  NoValue \in [open : BOOLEAN, row : GridRows, column : Columns, editable : BOOLEAN,
              early : BOOLEAN]
BY NoRowTyped DEF NoValue, Columns

LEMMA NoFormTyped ==
  /\ NoForm \in [open : BOOLEAN, at : Nat, adds : BOOLEAN, identity : Identities, row : GridRows,
                 early : BOOLEAN]
  /\ NoForm = [open |-> FALSE, at |-> 0, adds |-> FALSE, identity |-> NoKey, row |-> NoRow,
               early |-> FALSE]
  /\ NoKey \in Identities
<1>1. NoKey \in Identities
  BY DEF NoKey, Identities
<1> QED
  BY <1>1, NoRowTyped DEF NoForm

\* What the user marks, changes and adds
LEMMA MarksTyped ==
  ASSUME TypeInv,
         \/ \E r \in 0 .. MaxChanges + Cardinality(Keys), c \in 0 .. LastColumn : MoveCursor(r, c)
         \/ MarkDelete \/ ClearMarks \/ Leave
  PROVE  TypeInv'
<1> USE DEF TypeInv
<1>0. /\ CurrentTable \in Tables \cup {NoTable}
      /\ Pending \subseteq Ids /\ dropped \subseteq Ids
      /\ inserts \in Seq(Inserts) /\ filters \in BOOLEAN /\ results \in BOOLEAN
      /\ <<>> \in Seq(Inserts) /\ deletes \in Seq(Marks)
  BY CurrentTyped, PendingTyped, EmptySeq DEF MemoryTyped, EditsTyped, SidebarTyped, GridTyped
<1>1. ASSUME NEW r \in 0 .. MaxChanges + Cardinality(Keys), NEW c \in 0 .. LastColumn, MoveCursor(r, c)
      PROVE  TypeInv'
  <2>1. /\ row_index' = r /\ column_index' = c /\ stage = "no"
        /\ UNCHANGED <<database, sidebar, loaded, headers, raw, results, edits, modals, writing, attempts,
                       memory>>
    BY <1>1 DEF MoveCursor, Browsing, Listening
  <2>2. r \in Nat /\ c \in {0, 1}
    <3>1. c \in {0, 1}
      BY ConstantsAssumption
    <3>2. MaxChanges + Cardinality(Keys) \in Nat
      BY ConstantsAssumption, FS_CardinalityType
    <3> QED
      BY <3>1, <3>2
  <2>3. GridTyped'
    BY <2>1, <2>2 DEF GridTyped
  <2>4. MemoryTyped'
    BY <2>1 DEF MemoryTyped, memory, attempts
  <2> QED
    BY <2>1, <2>3, <2>4, DatabaseKept, SidebarKept, EditsKept, ModalsKept, WritingKept
<1>2. ASSUME MarkDelete PROVE TypeInv'
  <2> DEFINE at == SelectInSeq(deletes, LAMBDA mark : mark.identity = Identity)
  <2>1. /\ stage = "no" /\ RowIsThere /\ row_index' = Nearest(row_index + 1, Len(raw))
        /\ UNCHANGED <<database, sidebar, loaded, headers, raw, column_index, results, updates,
                       inserts, modals, writing, attempts, written, astray, moved>>
        /\ \/ /\ at # 0 /\ deletes' = RemoveAt(deletes, at)
              /\ dropped' = dropped \cup {deletes[at].id} /\ changes' = changes
           \/ /\ changes < MaxChanges /\ changes' = changes + 1 /\ dropped' = dropped
              /\ deletes' = Append(deletes, [id |-> changes', identity |-> Identity,
                                             table |-> RowHere.table])
    BY <1>2 DEF MarkDelete, Browsing, Listening
  <2>2. deletes' \in Seq(Marks) /\ dropped' \subseteq Ids /\ changes' \in 0 .. MaxChanges
    <3>1. CASE /\ at # 0 /\ deletes' = RemoveAt(deletes, at)
               /\ dropped' = dropped \cup {deletes[at].id} /\ changes' = changes
      <4>0. at = MarkAt(deletes, Identity)
        BY DEF MarkAt, SelectInSeq
      <4>1. at \in 1 .. Len(deletes)
        BY <1>0, <3>1, <4>0, MarkTyped
      <4>2. deletes[at] \in Marks
        BY <1>0, <4>1
      <4>3. deletes[at].id \in Ids
        BY <4>2 DEF Marks
      <4> HIDE DEF at
      <4> QED
        BY <1>0, <3>1, <4>1, <4>3, RemoveAtTyped DEF MemoryTyped
    <3>2. CASE /\ changes < MaxChanges /\ changes' = changes + 1 /\ dropped' = dropped
               /\ deletes' = Append(deletes, [id |-> changes', identity |-> Identity,
                                              table |-> RowHere.table])
      <4>1. RowHere.table \in Tables \cup {NoTable} /\ Identity \in Identities
        <5>1. RowHere \in GridRows
          BY RowHereTyped
        <5> QED
          BY <5>1, RowHereTyped DEF GridRows
      <4>2. [id |-> changes', identity |-> Identity, table |-> RowHere.table] \in Marks
        BY <3>2, <4>1, NextId DEF Marks
      <4> QED
        BY <1>0, <3>2, <4>2, NextId, AppendProperties
    <3> QED
      BY <2>1, <3>1, <3>2
  <2>3. EditsTyped'
    BY <2>1, <2>2 DEF EditsTyped
  <2>4. row_index' \in Nat
    <3>1. Len(raw) \in Nat /\ Len(raw) # 0
      BY <2>1 DEF GridTyped, RowIsThere
    <3> QED
      BY <2>1, <3>1 DEF Nearest, Least, GridTyped
  <2>5. GridTyped'
    BY <2>1, <2>4 DEF GridTyped
  <2>6. MemoryTyped'
    BY <2>1, <2>2 DEF MemoryTyped, attempts
  <2> QED
    BY <2>1, <2>3, <2>5, <2>6, DatabaseKept, SidebarKept, ModalsKept, WritingKept
<1>3. ASSUME ClearMarks PROVE TypeInv'
  <2>1. /\ stage = "no" /\ Forget /\ UNCHANGED <<matched, table_index, filters, Elsewhere>>
        /\ \/ UNCHANGED <<pending, grid>>
           \/ Load(CurrentTable, filters, <<>>, "cursor", results)
    BY <1>3 DEF ClearMarks, Browsing, Listening
  <2>2. GridTyped' /\ (pending' = pending \/ pending' = FALSE)
    BY <1>0, <2>1, LoadKeeps, GridKept
  <2>3. SidebarTyped'
    BY <2>1, <2>2, ElsewhereKept DEF SidebarTyped
  <2> QED
    BY <2>1, <2>2, <2>3, ElsewhereKept, ForgetTyped
<1>4. ASSUME Leave PROVE TypeInv'
  <2>1. stage = "no" /\ Forget /\ UNCHANGED <<sidebar, grid, Elsewhere>>
    BY <1>4 DEF Leave, Browsing, Listening
  <2> QED
    BY <2>1, ElsewhereKept, ForgetTyped, SidebarKept, GridKept
<1> QED
  BY <1>1, <1>2, <1>3, <1>4

LEMMA ValueTyped ==
  ASSUME TypeInv,
         \/ \E looking \in BOOLEAN : StartEditing(looking)
         \/ EditViewed \/ CancelEdit \/ NewRow \/ OpenRecord \/ CloseRecord
  PROVE  TypeInv'
<1> USE DEF TypeInv
<1>1. ASSUME stage = "no", ModalsTyped', UNCHANGED <<database, sidebar, grid, edits, writing, attempts, memory>>
      PROVE  TypeInv'
  <2>1. MemoryTyped'
    BY <1>1 DEF MemoryTyped, memory, attempts
  <2> QED
    BY <1>1, <2>1, DatabaseKept, SidebarKept, GridKept, EditsKept, WritingKept
<1>2. ASSUME NEW looking \in BOOLEAN, StartEditing(looking) PROVE TypeInv'
  <2>1. /\ stage = "no" /\ value' = Editor(looking)
        /\ UNCHANGED <<database, sidebar, grid, edits, form, writing, attempts, memory>>
    BY <1>2 DEF StartEditing, Browsing, Listening
  <2>2. ModalsTyped'
    BY <2>1, EditorTyped DEF ModalsTyped
  <2> QED
    BY <1>1, <2>1, <2>2
<1>3. ASSUME EditViewed \/ CancelEdit PROVE TypeInv'
  <2>1. /\ stage = "no" /\ value' \in {NoValue, Editor(FALSE)}
        /\ UNCHANGED <<database, sidebar, grid, edits, form, writing, attempts, memory>>
    BY <1>3 DEF EditViewed, CancelEdit, Listening
  <2>2. ModalsTyped'
    BY <2>1, EditorTyped, NoValueTyped DEF ModalsTyped
  <2> QED
    BY <1>1, <2>1, <2>2
<1>4. ASSUME NewRow PROVE TypeInv'
  <2>1. /\ stage = "no" /\ CurrentTable # NoTable
        /\ form' = [NoForm EXCEPT !.open = TRUE, !.adds = TRUE, !.row.table = CurrentTable,
                                  !.early = pending]
        /\ UNCHANGED <<database, sidebar, grid, edits, value, writing, attempts, memory>>
    BY <1>4 DEF NewRow, Browsing, Listening
  <2>2. CurrentTable \in Tables
    BY <2>1, CurrentTyped
  <2>3. form' = [open |-> TRUE, at |-> 0, adds |-> TRUE, identity |-> NoKey,
                 row |-> [table |-> CurrentTable, key |-> 0, add |-> 0], early |-> pending]
    BY <2>1 DEF NoForm, NoRow
  <2>4. [table |-> CurrentTable, key |-> 0, add |-> 0] \in GridRows
    BY <2>2 DEF GridRows
  <2>5. /\ form' \in [open : BOOLEAN, at : Nat, adds : BOOLEAN, identity : Identities,
                      row : GridRows, early : BOOLEAN]
        /\ form'.row = [table |-> CurrentTable, key |-> 0, add |-> 0]
    BY <2>3, <2>4, NoFormTyped DEF SidebarTyped
  <2>6. form'.row.table \in Tables
    BY <2>2, <2>5
  <2>7. ModalsTyped'
    BY <2>1, <2>5, <2>6 DEF ModalsTyped
  <2> QED
    BY <1>1, <2>1, <2>7
<1>5. ASSUME OpenRecord PROVE TypeInv'
  <2> DEFINE at    == UpdateAt(Identity)
             keys  == IF at = 0 THEN {}
                      ELSE {v.to : v \in {w \in ToSet(updates[at].columns) : w.column = "id"}}
             shown == IF keys = {} \/ Identity.whole THEN Identity
                      ELSE [Identity EXCEPT !.key = CHOOSE k \in keys : TRUE]
  <2>1. /\ stage = "no"
        /\ form' = IF OnAddedRow THEN [NoForm EXCEPT !.open = TRUE, !.at = row_index + 1, !.row = RowHere,
                                                     !.early = pending]
                   ELSE [NoForm EXCEPT !.open = TRUE, !.identity = shown,
                                       !.row = [RowHere EXCEPT !.key = shown.key],
                                       !.early = pending]
        /\ UNCHANGED <<database, sidebar, grid, edits, value, writing, attempts, memory>>
    BY <1>5 DEF OpenRecord, Browsing, Listening
  <2>2. RowHere \in GridRows /\ Identity \in Identities
    BY RowHereTyped
  <2>3. keys \subseteq Keys
    <3>1. CASE at = 0
      BY <3>1
    <3>2. CASE at # 0
      <4>1. updates \in Seq(Updates) /\ at \in 1 .. Len(updates)
        BY <3>2, UpdateAtTyped DEF EditsTyped
      <4>2. ValuesFit(updates[at].columns)
        BY <4>1 DEF EditsTyped
      <4> HIDE DEF at
      <4>3. \A w \in ToSet(updates[at].columns) : w.column = "id" => w.to \in Keys
        BY <4>2 DEF ValuesFit, ToSet
      <4> QED
        BY <3>2, <4>3
    <3> QED
      BY <3>1, <3>2
  <2>4. shown \in Identities
    <3> HIDE DEF keys
    <3>1. keys # {} => (CHOOSE k \in keys : TRUE) \in Keys
      BY <2>3
    <3> QED
      BY <2>2, <3>1 DEF Identities
  <2> HIDE DEF shown
  <2>5. [RowHere EXCEPT !.key = shown.key] \in GridRows
    BY <2>2, <2>4 DEF GridRows, Identities
  <2>6. row_index + 1 \in Nat /\ pending \in BOOLEAN
    BY DEF GridTyped, SidebarTyped
  <2>7. /\ form' \in [open : BOOLEAN, at : Nat, adds : BOOLEAN, identity : Identities,
                      row : GridRows, early : BOOLEAN]
        /\ form'.adds = FALSE
    <3>1. CASE OnAddedRow
      <4>1. form' = [open |-> TRUE, at |-> row_index + 1, adds |-> FALSE, identity |-> NoKey,
                     row |-> RowHere, early |-> pending]
        BY <2>1, <3>1, NoFormTyped
      <4> QED
        BY <2>2, <2>6, <4>1, NoFormTyped
    <3>2. CASE ~OnAddedRow
      <4>1. form' = [open |-> TRUE, at |-> 0, adds |-> FALSE, identity |-> shown,
                     row |-> [RowHere EXCEPT !.key = shown.key], early |-> pending]
        BY <2>1, <3>2, NoFormTyped
      <4> QED
        BY <2>4, <2>5, <2>6, <4>1
    <3> QED
      BY <3>1, <3>2
  <2>8. ModalsTyped'
    BY <2>1, <2>7 DEF ModalsTyped
  <2> QED
    BY <1>1, <2>1, <2>8
<1>6. ASSUME CloseRecord PROVE TypeInv'
  <2>1. /\ stage = "no" /\ form' = NoForm
        /\ UNCHANGED <<database, sidebar, grid, edits, value, writing, attempts, memory>>
    BY <1>6 DEF CloseRecord, Listening
  <2>2. ModalsTyped'
    BY <2>1, NoFormTyped DEF ModalsTyped
  <2> QED
    BY <1>1, <2>1, <2>2
<1> QED
  BY <1>2, <1>3, <1>4, <1>5, <1>6
\* Another key for an added row
LEMMA RekeyTyped ==
  ASSUME NEW rows \in Seq(Inserts), NEW i \in DOMAIN rows, NEW key \in Keys \cup {0}
  PROVE  /\ [rows EXCEPT ![i].key = key] \in Seq(Inserts)
         /\ Len([rows EXCEPT ![i].key = key]) = Len(rows)
         /\ \A j \in DOMAIN rows : [rows EXCEPT ![i].key = key][j] =
                                   IF j = i THEN [rows[i] EXCEPT !.key = key] ELSE rows[j]
<1> DEFINE row == [rows[i] EXCEPT !.key = key]
<1>1. rows[i] \in Inserts
  OBVIOUS
<1>2. row \in Inserts
  BY <1>1 DEF Inserts
<1> HIDE DEF row
<1>3. i \in 1 .. Len(rows) /\ DOMAIN rows = 1 .. Len(rows)
  OBVIOUS
<1>4. /\ [rows EXCEPT ![i] = row] \in Seq(Inserts)
      /\ Len([rows EXCEPT ![i] = row]) = Len(rows)
      /\ \A j \in 1 .. Len(rows) : [rows EXCEPT ![i] = row][j] = IF j = i THEN row ELSE rows[j]
  BY <1>2, <1>3, ExceptSeq
<1> QED
  BY <1>3, <1>4 DEF row

LEMMA RekeyRowTyped ==
  ASSUME NEW rows \in Seq(GridRows), NEW i \in DOMAIN rows, NEW key \in Keys \cup {0}
  PROVE  /\ [rows EXCEPT ![i].key = key] \in Seq(GridRows)
         /\ Len([rows EXCEPT ![i].key = key]) = Len(rows)
         /\ \A j \in DOMAIN rows : [rows EXCEPT ![i].key = key][j] =
                                   IF j = i THEN [rows[i] EXCEPT !.key = key] ELSE rows[j]
<1> DEFINE row == [rows[i] EXCEPT !.key = key]
<1>1. rows[i] \in GridRows
  OBVIOUS
<1>2. row \in GridRows
  BY <1>1 DEF GridRows
<1> HIDE DEF row
<1>3. i \in 1 .. Len(rows) /\ DOMAIN rows = 1 .. Len(rows)
  OBVIOUS
<1>4. /\ [rows EXCEPT ![i] = row] \in Seq(GridRows)
      /\ Len([rows EXCEPT ![i] = row]) = Len(rows)
      /\ \A j \in 1 .. Len(rows) : [rows EXCEPT ![i] = row][j] = IF j = i THEN row ELSE rows[j]
  BY <1>2, <1>3, ExceptSeq
<1> QED
  BY <1>3, <1>4 DEF row

LEMMA RekeyNone ==
  ASSUME NEW S, NEW rows \in Seq(S), NEW i, i \notin DOMAIN rows, NEW key
  PROVE  [rows EXCEPT ![i].key = key] = rows
<1> DEFINE new == [rows EXCEPT ![i].key = key]
<1>1. DOMAIN new = DOMAIN rows /\ \A j \in DOMAIN rows : new[j] = rows[j]
  OBVIOUS
<1>2. new = [j \in DOMAIN rows |-> new[j]] /\ rows = [j \in DOMAIN rows |-> rows[j]]
  <2>1. rows \in [1 .. Len(rows) -> S] /\ DOMAIN rows = 1 .. Len(rows)
    OBVIOUS
  <2>2. rows = [j \in DOMAIN rows |-> rows[j]]
    BY <2>1
  <2>3. new = [j \in DOMAIN rows |-> new[j]]
    OBVIOUS
  <2> QED
    BY <2>2, <2>3
<1> HIDE DEF new
<1>3. [j \in DOMAIN rows |-> new[j]] = [j \in DOMAIN rows |-> rows[j]]
  BY <1>1
<1>4. new = rows
  BY <1>2, <1>3
<1> QED
  BY <1>4 DEF new

\* The changes that are replaced are among those pending.
LEMMA ReplacedTyped ==
  ASSUME EditsTyped, NEW identity, NEW column
  PROVE  Replaced(identity, column) \subseteq UpdatesOf(updates)
<1>1. CASE UpdateAt(identity) = 0
  BY <1>1 DEF Replaced
<1>2. CASE UpdateAt(identity) # 0
  <2>1. UpdateAt(identity) \in DOMAIN updates
    BY <1>2, UpdateAtTyped DEF EditsTyped
  <2> QED
    BY <1>2, <2>1 DEF Replaced, UpdatesOf
<1> QED
  BY <1>1, <1>2

\* An added row is on the grid only while its place is.
LEMMA ChangesTyped ==
  ASSUME TypeInv, CommitEdit \/ SaveRow
  PROVE  TypeInv'
<1> USE DEF TypeInv
<1>0. /\ updates \in Seq(Updates) /\ inserts \in Seq(Inserts) /\ raw \in Seq(GridRows)
      /\ UpdatesOf(updates) \subseteq Ids /\ dropped \subseteq Ids /\ row_index \in Nat
      /\ \A i \in DOMAIN updates : ValuesFit(updates[i].columns)
  BY PendingTyped DEF EditsTyped, GridTyped, MemoryTyped
<1>1. ASSUME CommitEdit PROVE TypeInv'
  <2> DEFINE column   == Column(column_index)
             identity == IF RowIsThere THEN Identity ELSE NoKey
             change(to) == [id |-> changes', column |-> column, to |-> to,
                            made |-> [table |-> value.row.table, key |-> value.row.key,
                                      column |-> value.column]]
  <2>1. /\ stage = "no" /\ value' = NoValue
        /\ UNCHANGED <<database, sidebar, loaded, headers, row_index, column_index, results, deletes,
                       form, writing, attempts, written, astray>>
        /\ \/ UNCHANGED <<raw, updates, inserts, changes, dropped, moved>>
           \/ /\ OnAddedRow
              /\ \E key \in IF column = "id" THEN Keys \cup {0} ELSE {inserts[row_index + 1].key} :
                   /\ inserts' = [inserts EXCEPT ![row_index + 1].key = key]
                   /\ raw' = [raw EXCEPT ![row_index + 1].key = key]
              /\ moved' = (moved \/ (~value.early /\ (value.row.add # inserts[row_index + 1].id
                                                 \/ value.column # column)))
              /\ UNCHANGED <<updates, changes, dropped>>
           \/ /\ changes < MaxChanges /\ changes' = changes + 1
              /\ \E to \in Typed(column) : updates' = PutUpdate(identity, change(to))
              /\ dropped' = dropped \cup Replaced(identity, column)
              /\ moved' = (moved \/ (~value.early /\ (value.row # RowHere \/ value.column # column)))
              /\ UNCHANGED <<raw, inserts>>
    BY <1>1 DEF CommitEdit, Listening
  <2>2. /\ raw' \in Seq(GridRows) /\ inserts' \in Seq(Inserts) /\ updates' \in Seq(Updates)
        /\ \A i \in DOMAIN updates' : ValuesFit(updates'[i].columns)
        /\ dropped' \subseteq Ids /\ changes' \in 0 .. MaxChanges /\ moved' \in BOOLEAN
    <3>1. CASE UNCHANGED <<raw, updates, inserts, changes, dropped, moved>>
      BY <1>0, <3>1 DEF MemoryTyped
    <3>2. CASE /\ OnAddedRow
               /\ \E key \in IF column = "id" THEN Keys \cup {0} ELSE {inserts[row_index + 1].key} :
                    /\ inserts' = [inserts EXCEPT ![row_index + 1].key = key]
                    /\ raw' = [raw EXCEPT ![row_index + 1].key = key]
               /\ moved' = (moved \/ (~value.early /\ (value.row.add # inserts[row_index + 1].id
                                                 \/ value.column # column)))
               /\ UNCHANGED <<updates, changes, dropped>>
      <4>1. PICK key : /\ key \in IF column = "id" THEN Keys \cup {0} ELSE {inserts[row_index + 1].key}
                       /\ inserts' = [inserts EXCEPT ![row_index + 1].key = key]
                       /\ raw' = [raw EXCEPT ![row_index + 1].key = key]
        BY <3>2
      <4>2. row_index + 1 \in DOMAIN inserts
        BY <1>0, <3>2 DEF OnAddedRow
      <4>3. inserts[row_index + 1] \in Inserts
        BY <1>0, <4>2
      <4>4. key \in Keys \cup {0}
        BY <4>1, <4>3 DEF Inserts
      <4>5. inserts' \in Seq(Inserts)
        BY <1>0, <4>1, <4>2, <4>4, RekeyTyped
      <4>6. raw' \in Seq(GridRows)
        <5>1. CASE row_index + 1 \in DOMAIN raw
          BY <1>0, <4>1, <4>4, <5>1, RekeyRowTyped
        <5>2. CASE row_index + 1 \notin DOMAIN raw
          BY <1>0, <4>1, <5>2, RekeyNone
        <5> QED
          BY <5>1, <5>2
      <4>7. moved' \in BOOLEAN
        BY <3>2
      <4> QED
        BY <1>0, <3>2, <4>5, <4>6, <4>7 DEF MemoryTyped
    <3>3. CASE /\ changes < MaxChanges /\ changes' = changes + 1
               /\ \E to \in Typed(column) : updates' = PutUpdate(identity, change(to))
               /\ dropped' = dropped \cup Replaced(identity, column)
               /\ moved' = (moved \/ (~value.early /\ (value.row # RowHere \/ value.column # column)))
               /\ UNCHANGED <<raw, inserts>>
      <4>1. PICK to \in Typed(column) : updates' = PutUpdate(identity, change(to))
        BY <3>3
      <4>2. column \in Columns /\ to \in Keys \cup {0} /\ (column = "id" => to \in Keys)
        BY <4>1 DEF Column, Columns, Typed
      <4>3. identity \in Identities
        BY RowHereTyped, NoFormTyped
      <4>4. value.row \in GridRows /\ value.column \in Columns
        BY DEF ModalsTyped
      <4>5. [table |-> value.row.table, key |-> value.row.key, column |-> value.column] \in Cells
        BY <4>4 DEF GridRows, Cells
      <4>6. changes' \in Ids /\ changes' \in 0 .. MaxChanges
        BY <3>3, NextId
      <4> HIDE DEF column, identity
      <4>7. change(to) \in Values /\ change(to).column = column /\ change(to).to = to
        BY <4>2, <4>5, <4>6 DEF Values
      <4> HIDE DEF change
      <4>8. /\ PutUpdate(identity, change(to)) \in Seq(Updates)
            /\ \A i \in DOMAIN PutUpdate(identity, change(to)) :
                 ValuesFit(PutUpdate(identity, change(to))[i].columns)
        BY <4>2, <4>3, <4>7, PutUpdateTyped
      <4>9. dropped' \subseteq Ids
        BY <1>0, <3>3, ReplacedTyped
      <4>10. moved' \in BOOLEAN
        BY <3>3
      <4> QED
        BY <1>0, <3>3, <4>1, <4>6, <4>8, <4>9, <4>10
    <3> HIDE DEF change, column, identity
    <3> QED
      BY <2>1, <3>1, <3>2, <3>3
  <2>3. EditsTyped'
    BY <2>1, <2>2 DEF EditsTyped
  <2>4. GridTyped'
    BY <2>1, <2>2 DEF GridTyped
  <2>5. MemoryTyped'
    <3>1. UNCHANGED <<written, astray, attempt, wrote>>
      BY <2>1 DEF attempts
    <3> QED
      BY <2>2, <3>1 DEF MemoryTyped
  <2>6. ModalsTyped'
    BY <2>1, NoValueTyped DEF ModalsTyped
  <2> QED
    BY <2>1, <2>3, <2>4, <2>5, <2>6, DatabaseKept, SidebarKept, WritingKept
<1>2. ASSUME SaveRow PROVE TypeInv'
  <2> DEFINE change == [id |-> changes', column |-> "name", to |-> 0,
                        made |-> [table |-> form.row.table, key |-> form.row.key, column |-> "name"]]
  <2>1. /\ stage = "no" /\ changes < MaxChanges /\ changes' = changes + 1 /\ form' = NoForm
        /\ updates' = PutUpdate(form.identity, change)
        /\ dropped' = dropped \cup Replaced(form.identity, "name")
        /\ UNCHANGED <<database, sidebar, grid, deletes, inserts, value, writing, attempts,
                       written, astray, moved>>
    BY <1>2 DEF SaveRow, Listening
  <2>2. form.identity \in Identities /\ form.row \in GridRows
    BY DEF ModalsTyped
  <2>3. changes' \in Ids /\ changes' \in 0 .. MaxChanges
    BY <2>1, NextId
  <2>4. [table |-> form.row.table, key |-> form.row.key, column |-> "name"] \in Cells
    BY <2>2 DEF GridRows, Cells, Columns
  <2>5. change \in Values /\ change.column = "name"
    BY <2>3, <2>4 DEF Values, Columns
  <2> HIDE DEF change
  <2>6. /\ PutUpdate(form.identity, change) \in Seq(Updates)
        /\ \A i \in DOMAIN PutUpdate(form.identity, change) :
             ValuesFit(PutUpdate(form.identity, change)[i].columns)
    BY <2>2, <2>5, PutUpdateTyped
  <2>7. EditsTyped'
    BY <2>1, <2>6 DEF EditsTyped
  <2>8. dropped' \subseteq Ids
    BY <1>0, <2>1, ReplacedTyped
  <2>9. MemoryTyped'
    BY <2>1, <2>3, <2>8 DEF MemoryTyped, attempts
  <2>10. ModalsTyped'
    BY <2>1, NoFormTyped DEF ModalsTyped
  <2> QED
    BY <2>1, <2>7, <2>9, <2>10, DatabaseKept, SidebarKept, GridKept, WritingKept
<1> QED
  BY <1>1, <1>2

LEMMA AddsTyped ==
  ASSUME TypeInv, \E k \in Keys \cup {0} : SaveAdded(k) \/ SaveNew(k)
  PROVE  TypeInv'
<1> USE DEF TypeInv
<1>0. /\ CurrentTable \in Tables \cup {NoTable}
      /\ inserts \in Seq(Inserts) /\ filters \in BOOLEAN /\ results \in BOOLEAN
  BY CurrentTyped DEF EditsTyped, SidebarTyped, GridTyped
<1>1. PICK k \in Keys \cup {0} : SaveAdded(k) \/ SaveNew(k)
  OBVIOUS
<1>2. /\ stage = "no" /\ form' = NoForm /\ inserts' \in Seq(Inserts)
      /\ \E keep : Load(CurrentTable, filters, inserts', keep, results)
      /\ changes' \in 0 .. MaxChanges
      /\ UNCHANGED <<database, tables, matched, table_index, filters, deletes, updates, value,
                     writing, attempts, written, dropped, astray, moved>>
  <2>1. CASE SaveAdded(k)
    <3>1. /\ stage = "no" /\ form' = NoForm
          /\ inserts' = [inserts EXCEPT ![form.at].key = k]
          /\ Load(CurrentTable, filters, inserts', "cursor", results)
          /\ UNCHANGED <<database, tables, matched, table_index, filters, deletes, updates, value,
                         writing, attempts, memory>>
      BY <2>1 DEF SaveAdded, Listening
    <3>2. inserts' \in Seq(Inserts)
      <4>1. CASE form.at \in DOMAIN inserts
        BY <1>0, <3>1, <4>1, RekeyTyped
      <4>2. CASE form.at \notin DOMAIN inserts
        BY <1>0, <3>1, <4>2, RekeyNone
      <4> QED
        BY <4>1, <4>2
    <3> QED
      BY <3>1, <3>2 DEF memory, MemoryTyped
  <2>2. CASE SaveNew(k)
    <3> DEFINE row == [id |-> changes', key |-> k, table |-> form.row.table]
    <3>1. /\ stage = "no" /\ form' = NoForm /\ form.open /\ form.adds
          /\ changes < MaxChanges /\ changes' = changes + 1
          /\ inserts' = <<row>> \o inserts
          /\ Load(CurrentTable, filters, inserts', "column", results)
          /\ UNCHANGED <<database, tables, matched, table_index, filters, deletes, updates, value,
                         writing, attempts, written, dropped, astray, moved>>
      BY <2>2 DEF SaveNew, Listening
    <3>2. changes' \in Ids /\ changes' \in 0 .. MaxChanges
      BY <3>1, NextId
    <3>3. row \in Inserts
      BY <3>1, <3>2 DEF Inserts, ModalsTyped
    <3> HIDE DEF row
    <3>4. inserts' \in Seq(Inserts)
      <4>1. <<row>> \in Seq(Inserts)
        BY <3>3
      <4> QED
        BY <1>0, <3>1, <4>1, ConcatProperties
    <3> QED
      BY <3>1, <3>2, <3>4
  <2> QED
    BY <1>1, <2>1, <2>2
<1>3. GridTyped' /\ pending' = FALSE
  BY <1>0, <1>2, LoadKeeps
<1>4. SidebarTyped'
  BY <1>2, <1>3 DEF SidebarTyped
<1>5. EditsTyped'
  BY <1>2 DEF EditsTyped
<1>6. MemoryTyped'
  BY <1>2 DEF MemoryTyped, attempts
<1>7. ModalsTyped'
  BY <1>2, NoFormTyped DEF ModalsTyped
<1> QED
  BY <1>2, <1>3, <1>4, <1>5, <1>6, <1>7, DatabaseKept, WritingKept
LEMMA CurrentKept == UNCHANGED sidebar => UNCHANGED CurrentTable
BY DEF sidebar, CurrentTable, Sidebar

\* A statement fails: only the stage changes.
LEMMA FailsTyped ==
  ASSUME TypeInv, NEW why \in {"refused", "gone"}, Fails(why), UNCHANGED Unwritten
  PROVE  TypeInv'
<1> USE DEF TypeInv
<1>1. /\ stage' = why
      /\ UNCHANGED <<database, edits, columns, written, wrote, astray, sidebar, grid, modals, problem,
                     attempt, changes, dropped, moved>>
  BY DEF Fails, Unwritten
<1>2. WritingTyped'
  BY <1>1, CurrentKept DEF WritingTyped, edits, database
<1>3. MemoryTyped'
  BY <1>1 DEF MemoryTyped
<1> QED
  BY <1>1, <1>2, <1>3, DatabaseKept, SidebarKept, GridKept, EditsKept, ModalsKept

\* A changed row has at most two values.
LEMMA AtMostTwo ==
  ASSUME NEW values \in Seq(Values), ValuesFit(values)
  PROVE  Len(values) \in 1 .. 2
<1>1. Len(values) \in Nat \ {0}
  BY EmptySeq DEF ValuesFit
<1> DEFINE length == Len(values)
<1>2. length \in Nat \ {0} /\ (length \notin 1 .. 2 => length > 2)
  <2>1. length \in Nat \ {0}
    BY <1>1
  <2> HIDE DEF length
  <2> QED
    BY <2>1
<1> SUFFICES ASSUME length > 2 PROVE FALSE
  BY <1>2
<1>3. {1, 2, 3} \subseteq DOMAIN values
  <2>1. DOMAIN values = 1 .. length
    OBVIOUS
  <2> HIDE DEF length
  <2> QED
    BY <1>2, <2>1
<1>4. \A i \in {1, 2, 3} : values[i].column \in {"id", "name"}
  <2>1. \A i \in {1, 2, 3} : values[i] \in Values
    BY <1>3
  <2> QED
    BY <2>1 DEF Values, Columns
<1>5. \A i, j \in {1, 2, 3} : values[i].column = values[j].column => i = j
  BY <1>3 DEF ValuesFit
<1> QED
  BY <1>4, <1>5

\* The value that is written next
LEMMA NextValue ==
  ASSUME TypeInv, stage = "writing", updates # <<>>
  PROVE  /\ updates[1] \in Updates /\ ValuesFit(updates[1].columns)
         /\ updates[1].columns \in Seq(Values) /\ Len(updates[1].columns) \in 1 .. 2
         /\ columns + 1 \in 1 .. Len(updates[1].columns)
         /\ updates[1].columns[columns + 1] \in Values
<1>1. 1 \in DOMAIN updates /\ updates \in Seq(Updates)
  <2>1. updates \in Seq(Updates)
    BY DEF TypeInv, EditsTyped
  <2> QED
    BY <2>1, EmptySeq
<1>2. updates[1] \in Updates /\ ValuesFit(updates[1].columns)
  BY <1>1 DEF TypeInv, EditsTyped
<1>3. updates[1].columns \in Seq(Values)
  BY <1>2 DEF Updates
<1>4. Len(updates[1].columns) \in 1 .. 2
  BY <1>2, <1>3, AtMostTwo
<1>5. columns + 1 \in 1 .. Len(updates[1].columns)
  <2>1. columns \in 0 .. 1 /\ (columns # 0 => columns < Len(updates[1].columns))
    BY DEF TypeInv, WritingTyped
  <2> DEFINE length == Len(updates[1].columns)
  <2>2. length \in 1 .. 2 /\ (columns # 0 => columns < length)
    BY <1>4, <2>1
  <2> HIDE DEF length
  <2>3. columns + 1 \in 1 .. length
    BY <2>1, <2>2
  <2> QED
    BY <2>3 DEF length
<1>6. updates[1].columns[columns + 1] \in Values
  BY <1>3, <1>5
<1> QED
  BY <1>2, <1>3, <1>4, <1>5, <1>6

\* What is left of the changed rows when the first is written
LEMMA TailTyped ==
  ASSUME EditsTyped, updates # <<>>
  PROVE  /\ Tail(updates) \in Seq(Updates)
         /\ \A i \in DOMAIN Tail(updates) : ValuesFit(Tail(updates)[i].columns)
<1>1. updates \in Seq(Updates)
  BY DEF EditsTyped
<1>2. /\ Tail(updates) \in Seq(Updates) /\ Len(Tail(updates)) = Len(updates) - 1
      /\ \A i \in 1 .. Len(Tail(updates)) : Tail(updates)[i] = updates[i + 1]
  BY <1>1, HeadTailProperties
<1>3. \A i \in DOMAIN Tail(updates) : i + 1 \in DOMAIN updates /\ Tail(updates)[i] = updates[i + 1]
  BY <1>1, <1>2
<1> QED
  BY <1>2, <1>3 DEF EditsTyped

LEMMA WritesTyped ==
  ASSUME TypeInv,
         WriteInsert \/ WriteUpdate \/ WriteDeletes \/ WriteMatchedUpdate \/ WriteMatchedDelete
  PROVE  TypeInv'
<1> USE DEF TypeInv
<1>0. /\ deletes \in Seq(Marks) /\ updates \in Seq(Updates) /\ inserts \in Seq(Inserts)
      /\ existing \subseteq Tables /\ db \in [Tables -> SUBSET Keys] /\ DeletesOf(deletes) \subseteq Ids
      /\ written \subseteq Ids /\ wrote \subseteq Ids /\ astray \subseteq Ids
  BY PendingTyped DEF EditsTyped, DatabaseTyped, MemoryTyped
<1>9. UNCHANGED Unwritten => UNCHANGED <<CurrentTable, problem>>
  BY CurrentKept DEF Unwritten
<1>1. ASSUME NEW ids \in SUBSET Ids, NEW elsewhere \in SUBSET Ids, Done(ids, elsewhere),
             db' \in [Tables -> SUBSET Keys], UNCHANGED Unwritten, stage = "writing",
             (Answered /\ EditsTyped' /\ WritingTyped') \/ AnswerLost(ids)
      PROVE  TypeInv'
  <2>0. EditsTyped' /\ WritingTyped' /\ unanswered' \subseteq Ids
    <3>1. CASE Answered /\ EditsTyped' /\ WritingTyped'
      BY <3>1 DEF Answered, DatabaseTyped
    <3>2. CASE AnswerLost(ids)
      <4>1. UNCHANGED edits /\ columns' = columns /\ stage' = "refused"
            /\ unanswered' \subseteq Ids
        BY <3>2 DEF AnswerLost, DatabaseTyped
      <4>2. UNCHANGED <<CurrentTable, problem, keyed>> /\ updates' = updates
        BY <1>1, <1>9, <4>1 DEF Done, edits
      <4>3. WritingTyped'
        BY <4>1, <4>2 DEF WritingTyped
      <4> QED
        BY <4>1, <4>3, EditsKept
    <3> QED
      BY <1>1, <3>1, <3>2
  <2>1. DatabaseTyped'
    BY <1>1, <2>0 DEF DatabaseTyped, Done
  <2>2. MemoryTyped'
    BY <1>1 DEF MemoryTyped, Done, Took, Unwritten
  <2> QED
    BY <1>1, <2>0, <2>1, <2>2, SidebarKept, GridKept, ModalsKept DEF Unwritten
<1>10. ASSUME NEW values, NEW key, \A w \in values : w.id \in Ids PROVE StrayValues(values, key) \subseteq Ids
  BY <1>10 DEF StrayValues
<1>11. ASSUME NEW marks \in SUBSET Marks PROVE StrayMarks(marks) \subseteq Ids
  BY DEF StrayMarks, Marks
<1>2. ASSUME WriteInsert PROVE TypeInv'
  <2> DEFINE id == inserts[1].id
             elsewhere == IF inserts[1].table = Table THEN {} ELSE {id}
  <2>1. /\ stage = "writing" /\ inserts # <<>> /\ UNCHANGED Unwritten
        /\ \/ /\ Table \in existing
              /\ \E key \in FreeKeys : db' = [db EXCEPT ![Table] = @ \cup {key}]
              /\ Done({id}, elsewhere)
              /\ \/ /\ Answered /\ inserts' = Remaining(inserts)
                    /\ UNCHANGED <<deletes, updates, columns>>
                 \/ AnswerLost({id})
           \/ Fails("refused")
    BY <1>2 DEF WriteInsert
  <2>2. CASE /\ Table \in existing
             /\ \E key \in FreeKeys : db' = [db EXCEPT ![Table] = @ \cup {key}]
             /\ Done({id}, elsewhere)
             /\ \/ /\ Answered /\ inserts' = Remaining(inserts)
                   /\ UNCHANGED <<deletes, updates, columns>>
                \/ AnswerLost({id})
    <3>1. 1 \in DOMAIN inserts
      BY <1>0, <2>1, EmptySeq
    <3>2. inserts[1] \in Inserts
      BY <1>0, <3>1
    <3>3. id \in Ids /\ elsewhere \subseteq Ids /\ inserts[1].key \in Keys \cup {0}
      BY <3>2 DEF Inserts
    <3>4. FreeKeys \subseteq Keys
      BY <3>3 DEF FreeKeys
    <3>5. PICK key \in FreeKeys : db' = [db EXCEPT ![Table] = @ \cup {key}]
      BY <2>2
    <3>6. db' \in [Tables -> SUBSET Keys]
      BY <1>0, <2>2, <3>4, <3>5
    <3>7. Remaining(inserts) \in Seq(Inserts)
      BY <1>0, <2>1, HeadTailProperties DEF Remaining
    <3> HIDE DEF id, elsewhere
    <3>8. Answered /\ inserts' = Remaining(inserts) /\ UNCHANGED <<deletes, updates, columns>>
            => EditsTyped' /\ WritingTyped'
      BY <1>9, <2>1, <2>2, <3>7 DEF EditsTyped, WritingTyped, Answered, Done
    <3> QED
      BY <1>1, <2>1, <2>2, <3>3, <3>6, <3>8
  <2> QED
    BY <2>1, <2>2, FailsTyped
<1>3. ASSUME WriteUpdate PROVE TypeInv'
  <2> DEFINE key   == updates[1].identity.key
             found == Table \in existing /\ ~updates[1].identity.whole /\ key \in db[Table]
             v     == updates[1].columns[columns + 1]
             last  == columns + 1 = Len(updates[1].columns) /\ updates' = Remaining(updates) /\ columns' = 0
             more  == columns + 1 # Len(updates[1].columns) /\ columns' = columns + 1 /\ UNCHANGED updates
  <2>1. /\ stage = "writing" /\ updates # <<>> /\ Table \in keyed /\ UNCHANGED Unwritten
        /\ \/ /\ found /\ SetValue(key, v)
              /\ Done({v.id}, StrayValues({v}, key))
              /\ \/ Answered /\ (last \/ more) /\ UNCHANGED <<deletes, inserts>>
                 \/ AnswerLost({v.id})
           \/ Fails("gone") \/ Fails("refused")
    BY <1>3 DEF WriteUpdate
  <2>2. CASE /\ found /\ SetValue(key, v)
             /\ Done({v.id}, StrayValues({v}, key))
             /\ \/ Answered /\ (last \/ more) /\ UNCHANGED <<deletes, inserts>>
                \/ AnswerLost({v.id})
    <3>1. /\ v \in Values /\ columns + 1 \in 1 .. Len(updates[1].columns)
          /\ Len(updates[1].columns) \in 1 .. 2 /\ ValuesFit(updates[1].columns)
          /\ updates[1].columns \in Seq(Values)
      BY <2>1, NextValue
    <3>2. v.id \in Ids /\ (v.column = "id" => v.to \in Keys)
      <4>1. v.id \in Ids
        BY <3>1 DEF Values
      <4>2. columns + 1 \in DOMAIN updates[1].columns
        BY <3>1
      <4> QED
        BY <3>1, <4>1, <4>2 DEF ValuesFit
    <3>3. Table \in Tables
      BY <1>0, <2>2
    <3> HIDE DEF v, key
    <3>4. db' \in [Tables -> SUBSET Keys]
      <4>1. CASE v.column = "id"
        <5>1. db' = [db EXCEPT ![Table] = (@ \ {key}) \cup {v.to}]
          BY <2>2, <4>1 DEF SetValue
        <5>2. (db[Table] \ {key}) \cup {v.to} \in SUBSET Keys
          BY <1>0, <3>2, <3>3, <4>1
        <5> QED
          BY <1>0, <5>1, <5>2
      <4>2. CASE v.column # "id"
        BY <1>0, <2>2, <4>2 DEF SetValue
      <4> QED
        BY <4>1, <4>2
    <3>5. StrayValues({v}, key) \subseteq Ids
      BY <1>10, <3>2
    <3>6. ASSUME Answered, last \/ more, UNCHANGED <<deletes, inserts>> PROVE EditsTyped' /\ WritingTyped'
      <4>0. UNCHANGED <<stage, keyed>>
        BY <2>2, <3>6 DEF Answered, Done
      <4>1. CASE last
        <5>1. EditsTyped'
          BY <2>1, <3>6, <4>1, TailTyped DEF EditsTyped, Remaining
        <5>2. WritingTyped'
          BY <1>9, <2>1, <4>0, <4>1 DEF WritingTyped
        <5> QED
          BY <5>1, <5>2
      <4>2. CASE more
        <5>1. EditsTyped'
          BY <3>6, <4>2 DEF EditsTyped
        <5>2. columns' \in 0 .. 1 /\ columns' < Len(updates'[1].columns)
          <6> DEFINE length == Len(updates[1].columns)
          <6>1. /\ columns \in 0 .. 1 /\ length \in 1 .. 2 /\ columns + 1 \in 1 .. length
                /\ columns + 1 # length /\ columns' = columns + 1 /\ Len(updates'[1].columns) = length
            BY <3>1, <4>2 DEF WritingTyped
          <6> HIDE DEF length
          <6> QED
            BY <6>1
        <5>3. updates' # <<>> /\ stage' # "no" /\ CurrentTable' \in keyed'
          BY <1>9, <2>1, <4>0, <4>2 DEF Table
        <5>4. WritingTyped'
          BY <1>9, <2>1, <4>0, <4>2, <5>2, <5>3 DEF WritingTyped
        <5> QED
          BY <5>1, <5>4
      <4> QED
        BY <3>6, <4>1, <4>2
    <3> QED
      BY <1>1, <2>1, <2>2, <3>2, <3>4, <3>5, <3>6
  <2> QED
    BY <2>1, <2>2, FailsTyped
<1>4. ASSUME WriteDeletes PROVE TypeInv'
  <2> DEFINE keys == {deletes[i].identity.key : i \in {j \in DOMAIN deletes : ~deletes[j].identity.whole}}
             reached == IF Table \in existing THEN keys \cap db[Table] ELSE {}
             ids == DeletesOf(deletes)
             elsewhere == StrayMarks(ToSet(deletes))
  <2>1. /\ stage = "writing" /\ updates = <<>> /\ UNCHANGED Unwritten
        /\ \/ /\ reached # {}
              /\ db' = [db EXCEPT ![Table] = @ \ keys]
              /\ Done(ids, elsewhere)
              /\ \/ Answered /\ deletes' = <<>> /\ UNCHANGED <<updates, inserts, columns>>
                 \/ AnswerLost(ids)
           \/ Fails("gone") \/ Fails("refused")
    BY <1>4 DEF WriteDeletes
  <2>2. CASE /\ reached # {}
             /\ db' = [db EXCEPT ![Table] = @ \ keys]
             /\ Done(ids, elsewhere)
             /\ \/ Answered /\ deletes' = <<>> /\ UNCHANGED <<updates, inserts, columns>>
                \/ AnswerLost(ids)
    <3> HIDE DEF keys
    <3>1. db' \in [Tables -> SUBSET Keys]
      BY <1>0, <2>2
    <3>2. ids \subseteq Ids /\ elsewhere \subseteq Ids
      <4>1. ToSet(deletes) \subseteq Marks
        BY <1>0 DEF ToSet
      <4> QED
        BY <1>0, <1>11, <4>1
    <3> HIDE DEF ids, elsewhere
    <3>3. Answered /\ deletes' = <<>> /\ UNCHANGED <<updates, inserts, columns>>
            => EditsTyped' /\ WritingTyped'
      BY <1>9, <2>1, <2>2, EmptySeq DEF EditsTyped, WritingTyped, Answered, Done
    <3> QED
      BY <1>1, <2>1, <2>2, <3>1, <3>2, <3>3
  <2> QED
    BY <2>1, <2>2, FailsTyped
<1>5. ASSUME WriteMatchedUpdate PROVE TypeInv'
  <2> DEFINE row    == updates[1].identity
             values == ToSet(updates[1].columns)
             ids    == {v.id : v \in values}
             keys   == {v.to : v \in {w \in values : w.column = "id"}}
             found  == Table \in existing /\ row.whole /\ row.key \in db[Table]
             elsewhere == StrayValues(values, row.key)
  <2>1. /\ stage = "writing" /\ updates # <<>> /\ Table \notin keyed /\ UNCHANGED Unwritten
        /\ \/ /\ found
              /\ db' = IF keys = {} THEN db ELSE [db EXCEPT ![Table] = (@ \ {row.key}) \cup keys]
              /\ Done(ids, elsewhere)
              /\ \/ Answered /\ updates' = Remaining(updates) /\ UNCHANGED <<deletes, inserts, columns>>
                 \/ AnswerLost(ids)
           \/ Fails("gone") \/ Fails("refused")
    BY <1>5 DEF WriteMatchedUpdate
  <2>2. CASE /\ found
             /\ db' = IF keys = {} THEN db ELSE [db EXCEPT ![Table] = (@ \ {row.key}) \cup keys]
             /\ Done(ids, elsewhere)
             /\ \/ Answered /\ updates' = Remaining(updates) /\ UNCHANGED <<deletes, inserts, columns>>
                \/ AnswerLost(ids)
    <3>1. /\ ValuesFit(updates[1].columns) /\ updates[1].columns \in Seq(Values)
      BY <2>1, NextValue
    <3>2. \A i \in DOMAIN updates[1].columns : updates[1].columns[i] \in Values
      BY <3>1
    <3>3. \A v \in values : v.id \in Ids /\ (v.column = "id" => v.to \in Keys)
      <4>1. \A w \in Values : w.id \in Ids
        BY DEF Values
      <4> QED
        BY <3>1, <3>2, <4>1 DEF ToSet, ValuesFit
    <3> HIDE DEF values
    <3>4. ids \subseteq Ids /\ keys \subseteq Keys /\ elsewhere \subseteq Ids
      BY <1>10, <3>3
    <3> HIDE DEF ids, keys, elsewhere
    <3>5. db' \in [Tables -> SUBSET Keys]
      BY <1>0, <2>2, <3>4
    <3>7. ASSUME Answered, updates' = Remaining(updates), UNCHANGED <<deletes, inserts, columns>>
          PROVE  EditsTyped' /\ WritingTyped'
      <4>1. EditsTyped'
        BY <2>1, <3>7, TailTyped DEF EditsTyped, Remaining
      <4>2. columns = 0
        BY <2>1 DEF WritingTyped, Table
      <4> QED
        BY <1>9, <2>1, <2>2, <3>7, <4>1, <4>2 DEF WritingTyped, Answered, Done
    <3> QED
      BY <1>1, <2>1, <2>2, <3>4, <3>5, <3>7
  <2> QED
    BY <2>1, <2>2, FailsTyped
<1>6. ASSUME WriteMatchedDelete PROVE TypeInv'
  <2> DEFINE row   == deletes[1].identity
             id    == deletes[1].id
             found == Table \in existing /\ row.whole /\ row.key \in db[Table]
             elsewhere == StrayMarks({deletes[1]})
  <2>1. /\ stage = "writing" /\ updates = <<>> /\ deletes # <<>> /\ UNCHANGED Unwritten
        /\ \/ /\ found
              /\ db' = [db EXCEPT ![Table] = @ \ {row.key}]
              /\ Done({id}, elsewhere)
              /\ \/ Answered /\ deletes' = Remaining(deletes) /\ UNCHANGED <<updates, inserts, columns>>
                 \/ AnswerLost({id})
           \/ Fails("gone") \/ Fails("refused")
    BY <1>6 DEF WriteMatchedDelete
  <2>2. CASE /\ found
             /\ db' = [db EXCEPT ![Table] = @ \ {row.key}]
             /\ Done({id}, elsewhere)
             /\ \/ Answered /\ deletes' = Remaining(deletes) /\ UNCHANGED <<updates, inserts, columns>>
                \/ AnswerLost({id})
    <3>1. deletes[1] \in Marks
      BY <1>0, <2>1, EmptySeq
    <3>2. id \in Ids /\ elsewhere \subseteq Ids
      BY <1>11, <3>1 DEF Marks
    <3>3. db' \in [Tables -> SUBSET Keys]
      BY <1>0, <2>2
    <3>5. Remaining(deletes) \in Seq(Marks)
      BY <1>0, <2>1, HeadTailProperties DEF Remaining
    <3> HIDE DEF id, elsewhere
    <3>6. Answered /\ deletes' = Remaining(deletes) /\ UNCHANGED <<updates, inserts, columns>>
            => EditsTyped' /\ WritingTyped'
      BY <1>9, <2>1, <2>2, <3>5 DEF EditsTyped, WritingTyped, Answered, Done
    <3> QED
      BY <1>1, <2>1, <2>2, <3>2, <3>3, <3>6
  <2> QED
    BY <2>1, <2>2, FailsTyped
<1> QED
  BY <1>2, <1>3, <1>4, <1>5, <1>6

\* When nothing is pending there is no change left.
LEMMA WrittenOut ==
  ASSUME TypeInv, Pending = {}
  PROVE  deletes = <<>> /\ updates = <<>> /\ inserts = <<>>
<1>1. /\ deletes \in Seq(Marks) /\ updates \in Seq(Updates) /\ inserts \in Seq(Inserts)
      /\ DeletesOf(deletes) = {} /\ UpdatesOf(updates) = {} /\ InsertsOf(inserts) = {}
  BY DEF TypeInv, EditsTyped, Pending
<1>2. deletes = <<>> /\ inserts = <<>>
  <2>1. deletes # <<>> => 1 \in DOMAIN deletes
    BY <1>1, EmptySeq
  <2>2. inserts # <<>> => 1 \in DOMAIN inserts
    BY <1>1, EmptySeq
  <2> QED
    BY <1>1, <2>1, <2>2 DEF DeletesOf, InsertsOf
<1>3. updates = <<>>
  <2>1. SUFFICES ASSUME updates # <<>> PROVE FALSE
    OBVIOUS
  <2>2. 1 \in DOMAIN updates
    BY <1>1, <2>1, EmptySeq
  <2>3. updates[1] \in Updates /\ ValuesFit(updates[1].columns)
    BY <1>1, <2>2 DEF TypeInv, EditsTyped
  <2>4. 1 \in DOMAIN updates[1].columns
    <3>1. updates[1].columns \in Seq(Values)
      BY <2>3 DEF Updates
    <3> QED
      BY <2>3, <3>1, EmptySeq DEF ValuesFit
  <2>5. updates[1].columns[1].id \in UpdatesOf(updates)
    BY <2>2, <2>4 DEF UpdatesOf
  <2> QED
    BY <1>1, <2>5
<1> QED
  BY <1>2, <1>3

\* The beginning and the end of :w, and other clients
LEMMA WritingTypes ==
  ASSUME TypeInv,
         \/ WritePending \/ WriteDone \/ WriteFailed \/ Dismiss
         \/ \E t \in Tables, k \in Keys : OthersChange(t, k)
         \/ \E t \in Tables : OthersDrop(t)
  PROVE  TypeInv'
<1> USE DEF TypeInv
<1>0. /\ CurrentTable \in Tables \cup {NoTable}
      /\ Pending \subseteq Ids /\ inserts \in Seq(Inserts) /\ <<>> \in Seq(Inserts)
      /\ filters \in BOOLEAN /\ results \in BOOLEAN
  BY CurrentTyped, PendingTyped, EmptySeq DEF EditsTyped, SidebarTyped, GridTyped
<1>1. ASSUME WritePending PROVE TypeInv'
  <2>1. /\ stage' = "writing" /\ columns' = 0 /\ attempt' = Pending /\ wrote' = {}
        /\ UNCHANGED <<database, sidebar, grid, edits, modals, problem, memory>>
    BY <1>1 DEF WritePending
  <2>2. WritingTyped'
    BY <2>1 DEF WritingTyped
  <2>3. MemoryTyped'
    BY <1>0, <2>1 DEF MemoryTyped, memory
  <2> QED
    BY <2>1, <2>2, <2>3, DatabaseKept, SidebarKept, GridKept, EditsKept, ModalsKept
<1>2. ASSUME WriteDone \/ WriteFailed PROVE TypeInv'
  <2>1. /\ stage' = "no" /\ problem' \in {problem, stage} /\ stage # "no"
        /\ (stage = "writing" => problem' = problem /\ columns' = columns /\ updates = <<>>)
        /\ (stage # "writing" => columns' = 0)
        /\ (UNCHANGED attempts \/ (attempt' = {} /\ wrote' = {}))
        /\ \E added \in {<<>>, inserts} : Load(CurrentTable, filters, added, "cursor", results)
        /\ UNCHANGED <<database, tables, matched, table_index, filters, edits, modals, memory>>
    <3>1. CASE WriteDone
      <4>1. stage = "writing" /\ Pending = {}
        BY <3>1 DEF WriteDone
      <4>2. updates = <<>>
        BY <4>1, WrittenOut
      <4> QED
        BY <3>1, <4>1, <4>2 DEF WriteDone, Table
    <3>2. CASE WriteFailed
      BY <3>2 DEF WriteFailed, Table
    <3> QED
      BY <1>2, <3>1, <3>2
  <2>2. GridTyped' /\ pending' = FALSE
    BY <1>0, <2>1, LoadKeeps
  <2>3. SidebarTyped'
    BY <2>1, <2>2 DEF SidebarTyped
  <2>4. WritingTyped'
    BY <2>1 DEF WritingTyped
  <2>5. MemoryTyped'
    BY <2>1 DEF MemoryTyped, memory, attempts
  <2> QED
    BY <2>1, <2>2, <2>3, <2>4, <2>5, DatabaseKept, EditsKept, ModalsKept
<1>3. ASSUME Dismiss PROVE TypeInv'
  <2>1. /\ stage = "no" /\ problem' = "none" /\ attempt' = {} /\ wrote' = {}
        /\ UNCHANGED <<database, sidebar, grid, edits, modals, stage, columns, memory>>
    BY <1>3 DEF Dismiss
  <2>2. WritingTyped'
    BY <2>1, AtRest DEF WritingTyped
  <2>3. MemoryTyped'
    BY <2>1 DEF MemoryTyped, memory
  <2> QED
    BY <2>1, <2>2, <2>3, DatabaseKept, SidebarKept, GridKept, EditsKept, ModalsKept
<1>4. ASSUME DatabaseTyped', UNCHANGED <<keyed, sidebar, grid, edits, modals, writing, attempts, memory>>
      PROVE  TypeInv'
  <2>1. WritingTyped'
    BY <1>4, CurrentKept DEF WritingTyped, writing, edits
  <2>2. MemoryTyped'
    BY <1>4 DEF MemoryTyped, memory, attempts
  <2> QED
    BY <1>4, <2>1, <2>2, SidebarKept, GridKept, EditsKept, ModalsKept
<1>5. ASSUME NEW t \in Tables, NEW k \in Keys, OthersChange(t, k) PROVE TypeInv'
  <2>1. /\ db' = [db EXCEPT ![t] = IF k \in @ THEN @ \ {k} ELSE @ \cup {k}]
        /\ UNCHANGED <<read_only, keyed, existing, unanswered, sidebar, grid, edits, modals, writing, attempts, memory>>
    BY <1>5 DEF OthersChange
  <2>2. DatabaseTyped'
    BY <2>1 DEF DatabaseTyped
  <2> QED
    BY <1>4, <2>1, <2>2
<1>6. ASSUME NEW t \in Tables, OthersDrop(t) PROVE TypeInv'
  <2>1. /\ existing' = existing \ {t}
        /\ UNCHANGED <<read_only, keyed, db, unanswered, sidebar, grid, edits, modals, writing, attempts, memory>>
    BY <1>6 DEF OthersDrop
  <2>2. DatabaseTyped'
    BY <2>1 DEF DatabaseTyped
  <2> QED
    BY <1>4, <2>1, <2>2
<1> QED
  BY <1>1, <1>2, <1>3, <1>5, <1>6

LEMMA TypeStep == TypeInv /\ [Next]_vars => TypeInv'
<1>1. ASSUME TypeInv, Next PROVE TypeInv'
  BY <1>1, MovesTyped, MarksTyped, ValueTyped, ChangesTyped, AddsTyped, WritesTyped, WritingTypes DEF Next
<1>2. ASSUME TypeInv, UNCHANGED vars PROVE TypeInv'
  <2>1. UNCHANGED <<database, sidebar, grid, edits, modals, writing, attempts, memory>>
    BY <1>2 DEF vars
  <2>2. WritingTyped'
    BY <1>2, <2>1, CurrentKept DEF TypeInv, WritingTyped, writing, edits, database
  <2>3. MemoryTyped'
    BY <1>2, <2>1 DEF TypeInv, MemoryTyped, memory, attempts
  <2> QED
    BY <1>2, <2>1, <2>2, <2>3, DatabaseKept, SidebarKept, GridKept, EditsKept, ModalsKept DEF TypeInv
<1> QED
  BY <1>1, <1>2

\* Every variable of the browser keeps its type (TypeOK): the place in the
\* sidebar is one of it or the first, and the next column to write is one of
\* the row, however the sidebar, the grid and the edits change.
THEOREM TypeCorrect == Spec => []TypeOK
<1> DEFINE DoubtTyped == doubtful \subseteq Ids
<1>1. TypeInv /\ TypeInv' /\ DoubtTyped /\ [Next]_vars => DoubtTyped'
  <2>1. (EditsTyped => Pending \subseteq Ids) /\ (EditsTyped => Pending \subseteq Ids)'
    BY PendingTyped, PTL
  <2>2. TypeInv /\ TypeInv' => EditsTyped /\ EditsTyped'
    BY DEF TypeInv
  <2> QED
    BY <2>1, <2>2 DEF Next, Remember, vars
<1>2. Init => DoubtTyped
  BY DEF Init
<1>3. Spec => []TypeInv
  BY TypeInit, TypeStep, PTL DEF Spec
<1>4. TypeInv /\ DoubtTyped => TypeOK
  BY TypeInvIsType
<1> HIDE DEF DoubtTyped
<1> QED
  BY <1>1, <1>2, <1>3, <1>4, PTL DEF Spec

-----------------------------------------------------------------------------
\* A grid with rows has columns.
HeadersOverRows == raw # <<>> => headers

\* A form that adds a row is open over the table it was opened on,
FormsOnTable == form.open /\ form.adds => CurrentTable # NoTable

\* and while :w writes no form is open, and a table is selected.
NoFormsWhileWriting == stage # "no" => ~form.open /\ CurrentTable # NoTable

Shown == CursorOnARow /\ AddedRowsOnTop /\ HeadersOverRows
Formed == FormsAddedRow /\ FormsOnTable /\ NoFormsWhileWriting

PlacesInv == TypeInv /\ Shown /\ Formed

LEMMA PlacesInit == Init => PlacesInv
<1> SUFFICES ASSUME Init PROVE PlacesInv
  OBVIOUS
<1>1. TypeInv
  BY TypeInit
<1>2. Len(raw) \in Nat /\ (raw # <<>> => Len(raw) # 0)
  BY <1>1, EmptySeq DEF TypeInv, GridTyped
<1>3. CursorOnARow /\ HeadersOverRows
  <2>1. headers = TRUE /\ row_index = 0
    BY DEF Init
  <2> QED
    BY <1>2, <2>1 DEF CursorOnARow, HeadersOverRows
<1>4. inserts = <<>>
  BY DEF Init
<1>5. AddedRowsOnTop
  BY <1>2, <1>4 DEF AddedRowsOnTop
<1>6. Formed
  BY DEF Init, Formed, FormsAddedRow, FormsOnTable, NoFormsWhileWriting, NoForm
<1> QED
  BY <1>1, <1>3, <1>5, <1>6 DEF PlacesInv, Shown

-----------------------------------------------------------------------------
(* What keeps the places                                                   *)

\* The grid stays, and so do the added rows or they are dropped.
LEMMA ShownKept ==
  ASSUME TypeInv, Shown, UNCHANGED <<headers, raw, results>>,
         row_index' = row_index \/ (raw # <<>> => row_index' < Len(raw)),
         inserts' \in {<<>>, inserts}, stage' # "no" \/ stage = "no"
  PROVE  Shown'
<1>1. CursorOnARow' /\ HeadersOverRows'
  BY DEF Shown, CursorOnARow, HeadersOverRows
<1>2. AddedRowsOnTop'
  <2>1. Len(raw) \in Nat
    BY DEF TypeInv, GridTyped
  <2>2. CASE inserts' = <<>>
    BY <2>1, <2>2 DEF AddedRowsOnTop
  <2>3. CASE inserts' = inserts
    BY <2>3 DEF Shown, AddedRowsOnTop
  <2> QED
    BY <2>2, <2>3
<1> QED
  BY <1>1, <1>2 DEF Shown

\* The table is loaded, with what was added so far.
LEMMA ShownLoaded ==
  ASSUME TypeInv, Shown,
         NEW table \in Tables \cup {NoTable}, NEW filtered \in BOOLEAN, NEW keep, NEW shows \in BOOLEAN,
         NEW added \in Seq(Inserts), inserts' = added, Load(table, filtered, added, keep, shows),
         table = NoTable => stage = "no" /\ shows = results /\ added \in {<<>>, inserts}
  PROVE  Shown'
<1>1. /\ GridTyped' /\ CursorOnARow' /\ HeadersOverRows'
      /\ table # NoTable /\ headers' /\ ~results' =>
           /\ Len(added) <= Len(raw')
           /\ \A i \in DOMAIN added : raw'[i].add = added[i].id /\ raw'[i].key = added[i].key
      /\ table = NoTable =>
           UNCHANGED <<loaded, headers, raw, row_index, column_index>> /\ results' = shows
  BY LoadKeeps DEF TypeInv, Shown, HeadersOverRows
<1>2. AddedRowsOnTop'
  <2>1. CASE table = NoTable
    <3>1. Len(raw) \in Nat
      BY DEF TypeInv, GridTyped
    <3>2. CASE added = <<>>
      BY <1>1, <2>1, <3>1, <3>2 DEF AddedRowsOnTop
    <3>3. CASE added = inserts
      <4>1. UNCHANGED <<headers, raw, inserts>> /\ results' = results /\ stage = "no"
        BY <1>1, <2>1, <3>3
      <4>2. AddedRowsOnTop
        BY DEF Shown
      <4> QED
        BY <4>1, <4>2 DEF AddedRowsOnTop
    <3> QED
      BY <2>1, <3>2, <3>3
  <2>2. CASE table # NoTable
    BY <1>1, <2>2 DEF AddedRowsOnTop
  <2> QED
    BY <2>1, <2>2
<1> QED
  BY <1>1, <1>2 DEF Shown

LEMMA FormedClosed ==
  ASSUME stage' = "no", ~form'.open
  PROVE  Formed'
BY DEF Formed, FormsAddedRow, FormsOnTable, NoFormsWhileWriting

\* The form stays, over the same table and the same added rows.
LEMMA FormedKept ==
  ASSUME Formed, UNCHANGED <<form, inserts, CurrentTable>>, stage' \in {"no", stage}
  PROVE  Formed'
BY DEF Formed, FormsAddedRow, FormsOnTable, NoFormsWhileWriting

-----------------------------------------------------------------------------
LEMMA MovesKeepPlaces ==
  ASSUME PlacesInv,
         \/ \E i \in 0 .. Cardinality(Tables) - 1 : SelectTable(i)
         \/ \E m \in SUBSET Tables : Reselect(m)
         \/ IdleLoad
         \/ \E keep \in {"nothing", "cursor"} : LoadAgain(keep)
         \/ \E t \in Tables : GoToTable(t)
         \/ \E t \in Tables, f \in BOOLEAN : OpenLinked(t, f)
         \/ Reload
         \/ \E f \in BOOLEAN : ApplyFilters(f)
         \/ ClearFilters
         \/ \E t \in Tables \cup {NoTable} : RunQuery(t)
  PROVE  Shown' /\ Formed'
<1> USE DEF PlacesInv
<1>0. /\ CurrentTable \in Tables \cup {NoTable} /\ <<>> \in Seq(Inserts)
      /\ inserts \in Seq(Inserts) /\ filters \in BOOLEAN /\ results \in BOOLEAN
  BY CurrentTyped, EmptySeq DEF TypeInv, EditsTyped, SidebarTyped, GridTyped
<1>1. ASSUME NEW i \in 0 .. Cardinality(Tables) - 1, SelectTable(i) PROVE Shown' /\ Formed'
  <2>1. /\ stage = "no" /\ ~form.open /\ UNCHANGED <<grid, modals, writing>> /\ inserts' = <<>>
    BY <1>1 DEF SelectTable, Browsing, Listening, Elsewhere, Forget
  <2> QED
    BY <2>1, ShownKept, FormedClosed DEF grid, modals, writing
<1>2. ASSUME NEW m \in SUBSET Tables, Reselect(m) PROVE Shown' /\ Formed'
  <2>1. stage = "no" /\ ~form.open /\ UNCHANGED <<grid, modals, writing>>
    BY <1>2 DEF Reselect, Browsing, Listening, Elsewhere
  <2>2. inserts' \in {<<>>, inserts}
    BY <1>2 DEF Reselect, Forget, edits
  <2> QED
    BY <2>1, <2>2, ShownKept, FormedClosed DEF grid, modals, writing
<1>3. ASSUME IdleLoad PROVE Shown' /\ Formed'
  <2>1. /\ stage = "no" /\ Load(CurrentTable, filters, inserts, "nothing", results)
        /\ UNCHANGED <<matched, table_index, tables, inserts, form, stage>>
    BY <1>3 DEF IdleLoad, Elsewhere, edits, modals, writing
  <2>2. UNCHANGED CurrentTable
    BY <2>1 DEF CurrentTable, Sidebar
  <2> QED
    BY <1>0, <2>1, <2>2, ShownLoaded, FormedKept
<1>4. ASSUME NEW keep, LoadAgain(keep) PROVE Shown' /\ Formed'
  <2>1. /\ stage = "no" /\ ~form.open /\ Load(CurrentTable, filters, inserts, keep, results)
        /\ UNCHANGED <<inserts, form, stage>>
    BY <1>4 DEF LoadAgain, Browsing, Listening, Elsewhere, edits, modals, writing
  <2> QED
    BY <1>0, <2>1, ShownLoaded, FormedClosed
<1>5. ASSUME NEW t \in Tables, GoToTable(t) PROVE Shown' /\ Formed'
  <2>1. stage = "no" /\ ~form.open /\ UNCHANGED <<form, stage>> /\ t # NoTable
    BY <1>5, NoTableAssumption DEF GoToTable, Browsing, Listening, Elsewhere, modals, writing
  <2>2. CASE table_index' = table_index
    <3>1. Load(t, filters, inserts, "nothing", FALSE) /\ UNCHANGED inserts
      BY <1>5, <2>2 DEF GoToTable, edits
    <3> QED
      BY <1>0, <2>1, <3>1, ShownLoaded, FormedClosed
  <2>3. CASE table_index' # table_index
    <3>1. inserts' = <<>> /\ UNCHANGED <<headers, raw, row_index>>
      BY <1>5, <2>3 DEF GoToTable, Forget
    <3>2. Len(raw) \in Nat
      BY DEF TypeInv, GridTyped
    <3>3. Shown'
      BY <3>1, <3>2 DEF Shown, CursorOnARow, AddedRowsOnTop, HeadersOverRows
    <3> QED
      BY <2>1, <3>3, FormedClosed
  <2> QED
    BY <2>2, <2>3
<1>6. ASSUME NEW t \in Tables, NEW f \in BOOLEAN, OpenLinked(t, f) PROVE Shown' /\ Formed'
  <2>1. /\ stage = "no" /\ ~form.open /\ UNCHANGED <<form, stage>> /\ t # NoTable
        /\ inserts' = <<>> /\ Load(t, f, <<>>, "nothing", results)
    BY <1>6, NoTableAssumption DEF OpenLinked, Browsing, Listening, Elsewhere, modals, writing, Forget
  <2> QED
    BY <1>0, <2>1, ShownLoaded, FormedClosed
<1>7. ASSUME Reload PROVE Shown' /\ Formed'
  <2> DEFINE table == TableAt(table_index', SidebarRows(existing, matched))
  <2>1. /\ stage = "no" /\ ~form.open /\ UNCHANGED <<inserts, form, stage>>
        /\ \/ Load(table, filters, inserts, "cursor", results)
           \/ UNCHANGED <<headers, raw, results, row_index>>
    BY <1>7 DEF Reload, Browsing, Listening, edits, modals, grid
  <2>2. table \in Tables \cup {NoTable}
    BY TableAtTyped DEF TypeInv, DatabaseTyped, SidebarRows
  <2> HIDE DEF table
  <2>3. Formed'
    BY <2>1, FormedClosed
  <2>4. CASE Load(table, filters, inserts, "cursor", results)
    BY <1>0, <2>1, <2>2, <2>3, <2>4, ShownLoaded
  <2>5. CASE UNCHANGED <<headers, raw, results, row_index>>
    BY <1>0, <2>1, <2>3, <2>5, ShownKept
  <2> QED
    BY <2>1, <2>4, <2>5
<1>8. ASSUME (\E f \in BOOLEAN : ApplyFilters(f)) \/ ClearFilters PROVE Shown' /\ Formed'
  <2>1. PICK f \in BOOLEAN :
           /\ stage = "no" /\ ~form.open /\ UNCHANGED <<inserts, form, stage>>
           /\ Load(CurrentTable, f, inserts, "nothing", results)
    BY <1>8 DEF ApplyFilters, ClearFilters, Browsing, Listening, Elsewhere, edits, modals, writing
  <2> QED
    BY <1>0, <2>1, ShownLoaded, FormedClosed
<1>9. ASSUME NEW t \in Tables \cup {NoTable}, RunQuery(t) PROVE Shown' /\ Formed'
  <2>1. /\ stage = "no" /\ ~form.open /\ UNCHANGED <<form, stage>>
        /\ headers' = TRUE /\ row_index' = 0 /\ results' = TRUE
    BY <1>9 DEF RunQuery, Browsing, Listening, Elsewhere, modals, writing
  <2>2. PICK k \in Keys : raw' \in {<<>>, <<[NoRow EXCEPT !.key = k]>>}
    BY <1>9 DEF RunQuery
  <2>3. raw' # <<>> => Len(raw') = 1
    BY <2>2
  <2>4. Shown'
    BY <2>1, <2>3 DEF Shown, CursorOnARow, AddedRowsOnTop, HeadersOverRows
  <2> QED
    BY <2>1, <2>4, FormedClosed
<1> QED
  BY <1>1, <1>2, <1>3, <1>4, <1>5, <1>6, <1>7, <1>8, <1>9

LEMMA ChangesKeepPlaces ==
  ASSUME PlacesInv,
         \/ \E r \in 0 .. MaxChanges + Cardinality(Keys), c \in 0 .. LastColumn : MoveCursor(r, c)
         \/ MarkDelete \/ ClearMarks \/ Leave
         \/ CommitEdit \/ SaveRow
         \/ \E k \in Keys \cup {0} : SaveAdded(k) \/ SaveNew(k)
  PROVE  Shown' /\ Formed'
<1> USE DEF PlacesInv
<1>0. /\ CurrentTable \in Tables \cup {NoTable} /\ <<>> \in Seq(Inserts)
      /\ inserts \in Seq(Inserts) /\ filters \in BOOLEAN /\ results \in BOOLEAN
      /\ raw \in Seq(GridRows) /\ row_index \in Nat
  BY CurrentTyped, EmptySeq DEF TypeInv, EditsTyped, SidebarTyped, GridTyped
<1>1. ASSUME NEW r \in 0 .. MaxChanges + Cardinality(Keys), NEW c \in 0 .. LastColumn, MoveCursor(r, c)
      PROVE  Shown' /\ Formed'
  <2>1. /\ row_index' = r /\ r < Len(raw) /\ stage = "no" /\ ~form.open
        /\ UNCHANGED <<headers, raw, results, inserts, form, stage>>
    BY <1>1 DEF MoveCursor, Browsing, Listening, edits, modals, writing
  <2> QED
    BY <2>1, ShownKept, FormedClosed
<1>2. ASSUME MarkDelete PROVE Shown' /\ Formed'
  <2>1. /\ row_index' = Nearest(row_index + 1, Len(raw)) /\ stage = "no" /\ ~form.open
        /\ UNCHANGED <<headers, raw, results, inserts, form, stage>>
    BY <1>2 DEF MarkDelete, Browsing, Listening, edits, modals, writing
  <2>2. raw # <<>> => row_index' < Len(raw)
    BY <1>0, <2>1 DEF Nearest, Least
  <2> QED
    BY <2>1, <2>2, ShownKept, FormedClosed
<1>3. ASSUME ClearMarks PROVE Shown' /\ Formed'
  <2>1. /\ stage = "no" /\ ~form.open /\ UNCHANGED <<form, stage>> /\ inserts' = <<>>
        /\ UNCHANGED <<headers, raw, results, row_index>> \/ Load(CurrentTable, filters, <<>>, "cursor", results)
    BY <1>3 DEF ClearMarks, Browsing, Listening, Forget, Elsewhere, grid, modals, writing
  <2> QED
    BY <1>0, <2>1, ShownKept, ShownLoaded, FormedClosed
<1>4. ASSUME Leave PROVE Shown' /\ Formed'
  <2>1. /\ stage = "no" /\ ~form.open /\ UNCHANGED <<form, stage>> /\ inserts' = <<>>
        /\ UNCHANGED <<headers, raw, results, row_index>>
    BY <1>4 DEF Leave, Browsing, Listening, Forget, Elsewhere, grid, modals, writing
  <2> QED
    BY <2>1, ShownKept, FormedClosed
<1>5. ASSUME CommitEdit PROVE Shown' /\ Formed'
  <2>1. /\ stage = "no" /\ ~form.open /\ UNCHANGED <<headers, results, row_index, form, stage>>
        /\ \/ UNCHANGED <<raw, inserts>>
           \/ /\ headers /\ OnAddedRow
              /\ \E key \in IF Column(column_index) = "id" THEN Keys \cup {0}
                           ELSE {inserts[row_index + 1].key} :
                   /\ inserts' = [inserts EXCEPT ![row_index + 1].key = key]
                   /\ raw' = [raw EXCEPT ![row_index + 1].key = key]
    BY <1>5 DEF CommitEdit, Listening, writing
  <2>2. CASE UNCHANGED <<raw, inserts>>
    BY <2>1, <2>2, ShownKept, FormedClosed
  <2>3. CASE /\ headers /\ OnAddedRow
             /\ \E key \in IF Column(column_index) = "id" THEN Keys \cup {0}
                          ELSE {inserts[row_index + 1].key} :
                  /\ inserts' = [inserts EXCEPT ![row_index + 1].key = key]
                  /\ raw' = [raw EXCEPT ![row_index + 1].key = key]
    <3> DEFINE at == row_index + 1
    <3>1. PICK key : /\ key \in IF Column(column_index) = "id" THEN Keys \cup {0} ELSE {inserts[at].key}
                     /\ inserts' = [inserts EXCEPT ![at].key = key]
                     /\ raw' = [raw EXCEPT ![at].key = key]
      BY <2>3
    <3>2. at \in DOMAIN inserts /\ ~results
      BY <1>0, <2>3 DEF OnAddedRow
    <3>3. /\ Len(inserts) <= Len(raw)
          /\ \A i \in DOMAIN inserts : raw[i].add = inserts[i].id /\ raw[i].key = inserts[i].key
      BY <2>1, <2>3, <3>2 DEF Shown, AddedRowsOnTop
    <3>4. at \in DOMAIN raw
      BY <1>0, <3>2, <3>3
    <3>5. inserts[at] \in Inserts /\ raw[at] \in GridRows
      BY <1>0, <3>2, <3>4
    <3>6. key \in Keys \cup {0}
      BY <3>1, <3>5 DEF Inserts
    <3> HIDE DEF at
    <3>7. /\ inserts' \in Seq(Inserts) /\ Len(inserts') = Len(inserts)
          /\ \A j \in DOMAIN inserts : inserts'[j] = IF j = at THEN [inserts[at] EXCEPT !.key = key]
                                                   ELSE inserts[j]
      BY <1>0, <3>1, <3>2, <3>6, RekeyTyped
    <3>8. /\ raw' \in Seq(GridRows) /\ Len(raw') = Len(raw)
          /\ \A j \in DOMAIN raw : raw'[j] = IF j = at THEN [raw[at] EXCEPT !.key = key] ELSE raw[j]
      BY <1>0, <3>1, <3>4, <3>6, RekeyRowTyped
    <3>9. /\ [inserts[at] EXCEPT !.key = key].key = key /\ [raw[at] EXCEPT !.key = key].key = key
          /\ [inserts[at] EXCEPT !.key = key].id = inserts[at].id
          /\ [raw[at] EXCEPT !.key = key].add = raw[at].add
      BY <3>5 DEF Inserts, GridRows
    <3>10. DOMAIN inserts' = DOMAIN inserts /\ DOMAIN inserts \subseteq DOMAIN raw
      BY <1>0, <3>3, <3>7
    <3>11. \A i \in DOMAIN inserts : raw'[i].add = inserts'[i].id /\ raw'[i].key = inserts'[i].key
      <4> TAKE i \in DOMAIN inserts
      <4>1. CASE i = at
        BY <3>3, <3>7, <3>8, <3>9, <3>10, <4>1
      <4>2. CASE i # at
        BY <3>3, <3>7, <3>8, <3>10, <4>2
      <4> QED
        BY <4>1, <4>2
    <3>12. AddedRowsOnTop'
      BY <3>3, <3>7, <3>8, <3>10, <3>11 DEF AddedRowsOnTop
    <3>13. CursorOnARow' /\ HeadersOverRows'
      <4>1. raw # <<>>
        BY <1>0, <3>4
      <4> QED
        BY <2>1, <2>3, <3>8, <4>1 DEF Shown, CursorOnARow, HeadersOverRows
    <3> QED
      BY <2>1, <3>12, <3>13, FormedClosed DEF Shown
  <2> QED
    BY <2>1, <2>2, <2>3
<1>6. ASSUME SaveRow PROVE Shown' /\ Formed'
  <2>1. /\ stage = "no" /\ form' = NoForm /\ UNCHANGED <<headers, raw, results, row_index, inserts, stage>>
    BY <1>6 DEF SaveRow, Listening, grid, writing
  <2> QED
    BY <2>1, NoFormTyped, ShownKept, FormedClosed
<1>7. ASSUME NEW k \in Keys \cup {0}, SaveAdded(k) PROVE Shown' /\ Formed'
  <2>1. /\ stage = "no" /\ form' = NoForm /\ UNCHANGED stage /\ form.open /\ form.at # 0
        /\ (CurrentTable = NoTable => k = inserts[form.at].key)
        /\ inserts' = [inserts EXCEPT ![form.at].key = k]
        /\ Load(CurrentTable, filters, inserts', "cursor", results)
    BY <1>7 DEF SaveAdded, Listening, writing
  <2>2. form.at \in DOMAIN inserts
    <3>1. form.at \in Nat /\ form.at <= Len(inserts)
      BY <2>1 DEF TypeInv, ModalsTyped, Formed, FormsAddedRow
    <3> QED
      BY <1>0, <2>1, <3>1
  <2>3. /\ inserts' \in Seq(Inserts) /\ Len(inserts') = Len(inserts)
        /\ \A j \in DOMAIN inserts : inserts'[j] = IF j = form.at THEN [inserts[form.at] EXCEPT !.key = k]
                                                 ELSE inserts[j]
    BY <1>0, <2>1, <2>2, RekeyTyped
  <2>4. CurrentTable = NoTable => inserts' = inserts
    <3> SUFFICES ASSUME CurrentTable = NoTable PROVE inserts' = inserts
      OBVIOUS
    <3>1. inserts[form.at] \in Inserts /\ k = inserts[form.at].key
      BY <1>0, <2>1, <2>2
    <3>2. [inserts[form.at] EXCEPT !.key = k] = inserts[form.at]
      BY <3>1 DEF Inserts
    <3>3. \A j \in 1 .. Len(inserts) : inserts'[j] = inserts[j]
      BY <1>0, <2>3, <3>2
    <3> QED
      BY <1>0, <2>3, <3>3, SeqEqual
  <2>5. Shown'
    <3> DEFINE added == inserts'
               at    == CurrentTable
    <3>1. /\ at \in Tables \cup {NoTable} /\ added \in Seq(Inserts) /\ inserts' = added
          /\ Load(at, filters, added, "cursor", results)
          /\ at = NoTable => stage = "no" /\ added \in {<<>>, inserts}
      BY <1>0, <2>1, <2>3, <2>4
    <3> HIDE DEF added, at
    <3> QED
      BY <1>0, <3>1, ShownLoaded
  <2> QED
    BY <2>1, <2>5, NoFormTyped, FormedClosed
<1>8. ASSUME NEW k \in Keys \cup {0}, SaveNew(k) PROVE Shown' /\ Formed'
  <2>1. /\ stage = "no" /\ form' = NoForm /\ UNCHANGED stage /\ form.open /\ form.adds
        /\ Load(CurrentTable, filters, inserts', "column", results)
    BY <1>8 DEF SaveNew, Listening, writing
  <2>2. CurrentTable # NoTable
    BY <2>1 DEF Formed, FormsOnTable
  <2>3. inserts' \in Seq(Inserts)
    BY <1>8, AddsTyped DEF TypeInv, EditsTyped
  <2> QED
    BY <1>0, <2>1, <2>2, <2>3, NoFormTyped, ShownLoaded, FormedClosed
<1> QED
  BY <1>1, <1>2, <1>3, <1>4, <1>5, <1>6, <1>7, <1>8

LEMMA FormsKeepPlaces ==
  ASSUME PlacesInv,
         \/ \E looking \in BOOLEAN : StartEditing(looking)
         \/ EditViewed \/ CancelEdit \/ NewRow \/ OpenRecord \/ CloseRecord
  PROVE  Shown' /\ Formed'
<1> USE DEF PlacesInv
<1>0. inserts \in Seq(Inserts) /\ row_index \in Nat /\ raw \in Seq(GridRows)
  BY DEF TypeInv, EditsTyped, GridTyped
<1>1. stage = "no" /\ UNCHANGED <<headers, raw, results, row_index, inserts, stage, CurrentTable>>
  <2>1. stage = "no" /\ UNCHANGED <<sidebar, grid, edits, writing>>
    BY DEF StartEditing, EditViewed, CancelEdit, NewRow, OpenRecord, CloseRecord, Browsing, Listening
  <2> QED
    BY <2>1, CurrentKept DEF grid, edits, writing
<1>2. Shown'
  BY <1>1, ShownKept
<1>3. CASE UNCHANGED form
  BY <1>1, <1>2, <1>3, FormedKept
<1>4. CASE NewRow
  <2>1. form' = [open |-> TRUE, at |-> 0, adds |-> TRUE, identity |-> NoKey,
                 row |-> [table |-> CurrentTable, key |-> 0, add |-> 0], early |-> pending]
        /\ CurrentTable # NoTable
    BY <1>4 DEF NewRow, NoForm, NoRow
  <2>2. form'.at = 0
    BY <2>1
  <2>3. Formed'
    BY <1>1, <2>1, <2>2 DEF Formed, FormsAddedRow, FormsOnTable, NoFormsWhileWriting
  <2> QED
    BY <1>2, <2>3
<1>5. CASE OpenRecord
  <2> DEFINE at       == UpdateAt(Identity)
             keys     == IF at = 0 THEN {}
                         ELSE {v.to : v \in {w \in ToSet(updates[at].columns) : w.column = "id"}}
             identity == IF keys = {} \/ Identity.whole THEN Identity
                         ELSE [Identity EXCEPT !.key = CHOOSE k \in keys : TRUE]
             row      == [RowHere EXCEPT !.key = identity.key]
  <2>1. form' = IF OnAddedRow THEN [NoForm EXCEPT !.open = TRUE, !.at = row_index + 1, !.row = RowHere,
                                                  !.early = pending]
                ELSE [NoForm EXCEPT !.open = TRUE, !.identity = identity, !.row = row,
                                    !.early = pending]
    BY <1>5 DEF OpenRecord
  <2> HIDE DEF at, keys, identity, row
  <2>2. /\ form'.adds = FALSE /\ form'.at = IF OnAddedRow THEN row_index + 1 ELSE 0
        /\ (OnAddedRow => form'.row = RowHere)
    <3>1. CASE OnAddedRow
      <4>1. form' = [open |-> TRUE, at |-> row_index + 1, adds |-> FALSE, identity |-> NoKey,
                     row |-> RowHere, early |-> pending]
        BY <2>1, <3>1, NoFormTyped
      <4> QED
        BY <3>1, <4>1
    <3>2. CASE ~OnAddedRow
      <4>1. form' = [open |-> TRUE, at |-> 0, adds |-> FALSE, identity |-> identity, row |-> row,
                     early |-> pending]
        BY <2>1, <3>2, NoFormTyped
      <4> QED
        BY <3>2, <4>1
    <3> QED
      BY <3>1, <3>2
  <2>3. OnAddedRow => row_index + 1 <= Len(inserts) /\ inserts[row_index + 1].id = RowHere.add
    <3> SUFFICES ASSUME OnAddedRow
                 PROVE  row_index + 1 <= Len(inserts) /\ inserts[row_index + 1].id = RowHere.add
      OBVIOUS
    <3>1. raw # <<>> /\ headers /\ ~results
      BY <1>5 DEF OpenRecord, OnAddedRow, Shown, HeadersOverRows
    <3>2. row_index + 1 \in DOMAIN inserts
      BY <1>0 DEF OnAddedRow
    <3>3. Len(inserts) <= Len(raw) /\ raw[row_index + 1].add = inserts[row_index + 1].id
      BY <1>1, <3>1, <3>2 DEF Shown, AddedRowsOnTop
    <3>4. row_index + 1 \in DOMAIN raw /\ row_index + 1 <= Len(inserts)
      BY <1>0, <3>2, <3>3
    <3> QED
      BY <3>3, <3>4 DEF RowHere, RowIsThere
  <2>4. Formed'
    BY <1>1, <2>2, <2>3 DEF Formed, FormsAddedRow, FormsOnTable, NoFormsWhileWriting
  <2> QED
    BY <1>2, <2>4
<1>6. CASE CloseRecord
  <2>1. form' = NoForm
    BY <1>6 DEF CloseRecord
  <2> QED
    BY <1>1, <1>2, <2>1, NoFormTyped, FormedClosed
<1> QED
  BY <1>3, <1>4, <1>5, <1>6 DEF StartEditing, EditViewed, CancelEdit

LEMMA WritesKeepPlaces ==
  ASSUME PlacesInv,
         \/ WritePending \/ WriteDone \/ WriteFailed \/ Dismiss
         \/ WriteInsert \/ WriteUpdate \/ WriteDeletes \/ WriteMatchedUpdate \/ WriteMatchedDelete
         \/ \E t \in Tables, k \in Keys : OthersChange(t, k)
         \/ \E t \in Tables : OthersDrop(t)
  PROVE  Shown' /\ Formed'
<1> USE DEF PlacesInv
<1>0. /\ CurrentTable \in Tables \cup {NoTable} /\ <<>> \in Seq(Inserts)
      /\ inserts \in Seq(Inserts) /\ filters \in BOOLEAN /\ results \in BOOLEAN
  BY CurrentTyped, EmptySeq DEF TypeInv, EditsTyped, SidebarTyped, GridTyped
<1>1. ASSUME WritePending PROVE Shown' /\ Formed'
  <2>1. /\ stage' = "writing" /\ ~form.open /\ CurrentTable # NoTable
        /\ UNCHANGED <<sidebar, headers, raw, results, row_index, inserts, form>>
    BY <1>1 DEF WritePending, Browsing, Table, grid, edits, modals
  <2>2. Formed'
    BY <2>1, CurrentKept DEF Formed, FormsAddedRow, FormsOnTable, NoFormsWhileWriting
  <2> QED
    BY <2>1, <2>2, ShownKept
<1>2. ASSUME WriteInsert \/ WriteUpdate \/ WriteDeletes \/ WriteMatchedUpdate \/ WriteMatchedDelete
      PROVE  Shown' /\ Formed'
  <2>1. stage = "writing" /\ stage' # "no" /\ UNCHANGED Unwritten
    BY <1>2 DEF WriteInsert, WriteUpdate, WriteDeletes, WriteMatchedUpdate, WriteMatchedDelete, Fails,
         Answered, AnswerLost
  <2>2. /\ ~form.open /\ CurrentTable # NoTable
        /\ UNCHANGED <<CurrentTable, headers, raw, results, row_index, form>>
    BY <2>1, CurrentKept DEF Formed, NoFormsWhileWriting, Unwritten, grid, modals
  <2>3. Formed'
    BY <2>2 DEF Formed, FormsAddedRow, FormsOnTable, NoFormsWhileWriting
  <2>4. Shown'
    BY <2>1, <2>2 DEF Shown, CursorOnARow, AddedRowsOnTop, HeadersOverRows
  <2> QED
    BY <2>3, <2>4
<1>3. ASSUME WriteDone \/ WriteFailed PROVE Shown' /\ Formed'
  <2>1. /\ stage # "no" /\ stage' = "no" /\ UNCHANGED <<form, inserts>>
        /\ Load(CurrentTable, filters, inserts, "cursor", results)
    <3>1. CASE WriteDone
      <4>1. inserts = <<>>
        BY <3>1, WrittenOut DEF WriteDone
      <4> QED
        BY <3>1, <4>1 DEF WriteDone, Table, edits, modals
    <3>2. CASE WriteFailed
      BY <3>2 DEF WriteFailed, Table, edits, modals
    <3> QED
      BY <1>3, <3>1, <3>2
  <2>2. ~form.open /\ CurrentTable # NoTable
    BY <2>1 DEF Formed, NoFormsWhileWriting
  <2> QED
    BY <1>0, <2>1, <2>2, ShownLoaded, FormedClosed
<1>4. ASSUME \/ Dismiss
             \/ \E t \in Tables, k \in Keys : OthersChange(t, k)
             \/ \E t \in Tables : OthersDrop(t)
      PROVE  Shown' /\ Formed'
  <2>1. UNCHANGED <<sidebar, headers, raw, results, row_index, form, inserts, stage>>
    BY <1>4 DEF Dismiss, OthersChange, OthersDrop, grid, edits, modals, writing
  <2> QED
    BY <2>1, CurrentKept, ShownKept, FormedKept
<1> QED
  BY <1>1, <1>2, <1>3, <1>4

LEMMA PlacesStep == PlacesInv /\ [Next]_vars => PlacesInv'
<1>1. ASSUME PlacesInv, Next PROVE Shown' /\ Formed'
  BY <1>1, MovesKeepPlaces, ChangesKeepPlaces, FormsKeepPlaces, WritesKeepPlaces DEF Next
<1>2. ASSUME PlacesInv, UNCHANGED vars PROVE Shown' /\ Formed'
  <2>1. UNCHANGED <<sidebar, headers, raw, results, row_index, form, inserts, stage>>
    BY <1>2 DEF vars, grid, edits, modals, writing
  <2> QED
    BY <1>2, <2>1, CurrentKept, ShownKept, FormedKept DEF PlacesInv
<1> QED
  BY <1>1, <1>2, TypeStep DEF PlacesInv

-----------------------------------------------------------------------------
(* Read-only connections                                                   *)

\* On a read-only connection nothing is pending, nothing was written, and
\* nothing is open that a change could be saved from.
ReadOnlyFits ==
  read_only => /\ deletes = <<>> /\ updates = <<>> /\ inserts = <<>> /\ written = {}
               /\ ~form.open /\ ~ (value.open /\ value.editable) /\ stage = "no"

LEMMA ReadOnlyInit == Init => ReadOnlyFits
BY DEF Init, ReadOnlyFits, NoForm, NoValue

LEMMA NothingPending ==
  ASSUME deletes = <<>>, updates = <<>>, inserts = <<>>
  PROVE  Pending = {}
<1>1. DOMAIN deletes = {} /\ DOMAIN updates = {} /\ DOMAIN inserts = {}
  OBVIOUS
<1> QED
  BY <1>1 DEF Pending, DeletesOf, UpdatesOf, InsertsOf

\* The connection keeps its mark, so a step on a read-only one is from a
\* state where nothing is pending.
LEMMA ReadOnlyStep ==
  ASSUME ReadOnlyFits, read_only, Next
  PROVE  ReadOnlyFits'
<1>0. /\ deletes = <<>> /\ updates = <<>> /\ inserts = <<>> /\ written = {}
      /\ ~form.open /\ ~ (value.open /\ value.editable) /\ stage = "no"
  BY DEF ReadOnlyFits
<1>1. CASE \/ \E i \in 0 .. Cardinality(Tables) - 1 : SelectTable(i)
           \/ \E m \in SUBSET Tables : Reselect(m)
           \/ IdleLoad
           \/ \E keep \in {"nothing", "cursor"} : LoadAgain(keep)
           \/ \E t \in Tables : GoToTable(t)
           \/ \E t \in Tables, f \in BOOLEAN : OpenLinked(t, f)
           \/ Reload
           \/ \E f \in BOOLEAN : ApplyFilters(f)
           \/ ClearFilters
           \/ \E t \in Tables \cup {NoTable} : RunQuery(t)
           \/ \E r \in 0 .. MaxChanges + Cardinality(Keys), c \in 0 .. LastColumn : MoveCursor(r, c)
           \/ ClearMarks \/ Leave \/ Dismiss
           \/ \E t \in Tables, k \in Keys : OthersChange(t, k)
           \/ \E t \in Tables : OthersDrop(t)
  <2>1. UNCHANGED <<written, form, value, stage>>
    BY <1>1 DEF SelectTable, Reselect, IdleLoad, LoadAgain, GoToTable, OpenLinked, Reload,
         ApplyFilters, ClearFilters, RunQuery, MoveCursor, ClearMarks, Leave, Dismiss,
         OthersChange, OthersDrop, Elsewhere, modals, writing, memory
  <2>2. deletes' = <<>> /\ updates' = <<>> /\ inserts' = <<>>
    BY <1>0, <1>1 DEF SelectTable, Reselect, IdleLoad, LoadAgain, GoToTable, OpenLinked, Reload,
         ApplyFilters, ClearFilters, RunQuery, MoveCursor, ClearMarks, Leave, Dismiss,
         OthersChange, OthersDrop, Forget, edits
  <2> QED
    BY <1>0, <2>1, <2>2 DEF ReadOnlyFits
<1>2. CASE (\E looking \in BOOLEAN : StartEditing(looking)) \/ EditViewed \/ CancelEdit
  <2>1. UNCHANGED <<deletes, updates, inserts, written, form, stage>>
    BY <1>2 DEF StartEditing, EditViewed, CancelEdit, edits, writing, memory
  <2>2. ~value'.editable
    <3>1. ~NoValue.editable
      BY DEF NoValue
    <3>2. \A looking : ~Editor(looking).editable
      BY DEF Editor, MayEdit
    <3> QED
      BY <1>2, <3>1, <3>2 DEF StartEditing, EditViewed, CancelEdit
  <2> QED
    BY <1>0, <2>1, <2>2 DEF ReadOnlyFits
<1>3. ~ (\/ MarkDelete \/ CommitEdit \/ NewRow \/ OpenRecord \/ CloseRecord
         \/ (\E k \in Keys \cup {0} : SaveAdded(k) \/ SaveNew(k)) \/ SaveRow)
  BY <1>0 DEF MarkDelete, CommitEdit, NewRow, OpenRecord, CloseRecord, SaveAdded, SaveNew,
       SaveRow, MayEdit
<1>4. ~ (\/ WritePending \/ WriteInsert \/ WriteUpdate \/ WriteDeletes \/ WriteMatchedUpdate
         \/ WriteMatchedDelete \/ WriteDone \/ WriteFailed)
  BY <1>0, NothingPending DEF WritePending, WriteInsert, WriteUpdate, WriteDeletes,
       WriteMatchedUpdate, WriteMatchedDelete, WriteDone, WriteFailed
<1> QED
  BY <1>1, <1>2, <1>3, <1>4 DEF Next

LEMMA MarkKept == [Next]_vars => read_only' = read_only
BY DEF Next, SelectTable, Reselect, IdleLoad, LoadAgain, GoToTable, OpenLinked, Reload,
   ApplyFilters, ClearFilters, RunQuery, MoveCursor, MarkDelete, ClearMarks, Leave,
   StartEditing, EditViewed, CancelEdit, CommitEdit, NewRow, OpenRecord, CloseRecord,
   SaveAdded, SaveNew, SaveRow, WritePending, WriteInsert, WriteUpdate, WriteDeletes,
   WriteMatchedUpdate, WriteMatchedDelete, WriteDone, WriteFailed, Dismiss, OthersChange,
   OthersDrop, Fails, Done, Elsewhere, database, vars

\* On a connection marked read-only nothing is ever pending, and nothing
\* was written (ReadOnlyIsNeverWritten): why_read_only and new_row keep
\* every change away, so that :w need not look at the mark again.
THEOREM ReadOnlyStaysClean == Spec => []ReadOnlyIsNeverWritten
<1>1. ReadOnlyFits /\ [Next]_vars => ReadOnlyFits'
  <2>1. CASE UNCHANGED vars
    BY <2>1 DEF ReadOnlyFits, vars, database, edits, modals, writing, memory
  <2>2. CASE ~read_only
    BY <2>2, MarkKept DEF ReadOnlyFits
  <2> QED
    BY <2>1, <2>2, ReadOnlyStep
<1>2. ReadOnlyFits => ReadOnlyIsNeverWritten
  BY NothingPending DEF ReadOnlyFits, ReadOnlyIsNeverWritten
<1> QED
  BY ReadOnlyInit, <1>1, <1>2, PTL DEF Spec

-----------------------------------------------------------------------------
(* The results                                                             *)

THEOREM PlacesInvariant == Spec => []PlacesInv
BY PlacesInit, PlacesStep, PTL DEF Spec

\* The first rows of the grid are the rows added so far, in their order
\* (AddedRowsOnTop): prepend_pending_rows puts them there on every load, and
\* commit_edit, show_added_row and open_record may take one for the other.
THEOREM AddedAreOnTop == Spec => []AddedRowsOnTop
BY PlacesInvariant, PTL DEF PlacesInv, Shown

\* The cursor is on a row of the grid (CursorOnARow), whatever was loaded,
\* dropped or marked since it was put there.
THEOREM CursorStaysOnARow == Spec => []CursorOnARow
BY PlacesInvariant, PTL DEF PlacesInv, Shown

\* The record form of an added row saves to that row (FormsAddedRow), however
\* often the grid is loaded under it.
THEOREM FormsSaveTheirRow == Spec => []FormsAddedRow
BY PlacesInvariant, PTL DEF PlacesInv, Formed

-----------------------------------------------------------------------------
(***************************************************************************)
(* What becomes of the pending changes of the browser: every one is still  *)
(* pending, was written or was dropped by the user; none is written twice; *)
(* and when :w says what it wrote, it wrote all that was pending.          *)
(***************************************************************************)
\* No change is in a list twice.
OneEach(list) == \A i, j \in DOMAIN list : list[i].id = list[j].id => i = j

\* No change is in two lists; and what is written is in neither of those
\* whose changes are taken off as they are written, unless no answer came.
Distinct ==
  /\ OneEach(deletes) /\ OneEach(inserts)
  /\ DeletesOf(deletes) \cap InsertsOf(inserts) = {}
  /\ (DeletesOf(deletes) \cup InsertsOf(inserts)) \cap UpdatesOf(updates) = {}
  /\ (DeletesOf(deletes) \cup InsertsOf(inserts)) \cap written \subseteq unanswered

\* The columns of the first changed row that :w is done with are written.
Begun == \A i \in 1 .. columns : updates[1].columns[i].id \in written \cap wrote

\* While :w writes, what was pending when it began is pending or written.
Attempted == stage # "no" => attempt \subseteq Pending \cup wrote

WritesInv == NothingLost /\ Distinct /\ Begun /\ Attempted

LEMMA WritesInit == Init => WritesInv
<1> SUFFICES ASSUME Init PROVE WritesInv
  OBVIOUS
<1>1. /\ deletes = <<>> /\ updates = <<>> /\ inserts = <<>> /\ stage = "no" /\ columns = 0
      /\ changes = 0 /\ written = {} /\ dropped = {}
  BY DEF Init
<1>2. DOMAIN deletes = {} /\ DOMAIN inserts = {} /\ DOMAIN updates = {} /\ 1 .. columns = {}
      /\ 1 .. changes = {}
  BY <1>1
<1>3. DeletesOf(deletes) = {} /\ UpdatesOf(updates) = {} /\ InsertsOf(inserts) = {}
  BY <1>2 DEF DeletesOf, UpdatesOf, InsertsOf
<1>4. NothingLost
  BY <1>1, <1>2, <1>3 DEF NothingLost, Pending
<1>5. Distinct
  BY <1>2, <1>3 DEF Distinct, OneEach
<1> QED
  BY <1>1, <1>2, <1>4, <1>5 DEF WritesInv, Begun, Attempted

-----------------------------------------------------------------------------
(* The changes of a list                                                   *)

LEMMA Alike == \A list : DeletesOf(list) = InsertsOf(list)
BY DEF DeletesOf, InsertsOf

LEMMA AppendIds ==
  ASSUME NEW S, NEW list \in Seq(S), NEW x \in S
  PROVE  /\ InsertsOf(Append(list, x)) = InsertsOf(list) \cup {x.id}
         /\ OneEach(list) /\ x.id \notin InsertsOf(list) => OneEach(Append(list, x))
<1> DEFINE new == Append(list, x)
<1>1. /\ DOMAIN new = 1 .. Len(list) + 1 /\ new[Len(list) + 1] = x
      /\ \A i \in 1 .. Len(list) : new[i] = list[i]
      /\ DOMAIN list = 1 .. Len(list) /\ Len(list) \in Nat
  BY AppendProperties
<1> HIDE DEF new
<1>2. \A i \in DOMAIN new : i \in DOMAIN list \/ i = Len(list) + 1
  BY <1>1
<1>3. DOMAIN list \subseteq DOMAIN new /\ Len(list) + 1 \in DOMAIN new /\ Len(list) + 1 \notin DOMAIN list
  BY <1>1
<1>4. InsertsOf(new) = InsertsOf(list) \cup {x.id}
  <2>1. \A i \in DOMAIN new : new[i].id \in InsertsOf(list) \cup {x.id}
    BY <1>1, <1>2 DEF InsertsOf
  <2>2. \A i \in DOMAIN list : list[i].id \in InsertsOf(new)
    BY <1>1, <1>3 DEF InsertsOf
  <2>3. x.id \in InsertsOf(new)
    BY <1>1, <1>3 DEF InsertsOf
  <2> QED
    BY <2>1, <2>2, <2>3 DEF InsertsOf
<1>5. ASSUME OneEach(list), x.id \notin InsertsOf(list) PROVE OneEach(new)
  <2>1. \A i \in DOMAIN list : list[i].id # x.id
    BY <1>5 DEF InsertsOf
  <2> QED
    BY <1>1, <1>2, <1>5, <2>1 DEF OneEach
<1> QED
  BY <1>4, <1>5 DEF new

LEMMA RemoveIds ==
  ASSUME NEW S, NEW list \in Seq(S), NEW at \in 1 .. Len(list), OneEach(list)
  PROVE  /\ InsertsOf(RemoveAt(list, at)) = InsertsOf(list) \ {list[at].id}
         /\ OneEach(RemoveAt(list, at))
<1> DEFINE new    == RemoveAt(list, at)
           was(i) == IF i < at THEN i ELSE i + 1
<1>1. /\ DOMAIN new = 1 .. Len(list) - 1
      /\ \A i \in 1 .. Len(list) - 1 : new[i] = IF i < at THEN list[i] ELSE list[i + 1]
      /\ DOMAIN list = 1 .. Len(list) /\ Len(list) \in Nat
  BY RemoveAtTyped
<1> HIDE DEF new
<1>2. \A i \in DOMAIN new : was(i) \in DOMAIN list /\ was(i) # at /\ new[i] = list[was(i)]
  BY <1>1
<1>3. \A i, j \in DOMAIN new : was(i) = was(j) => i = j
  BY <1>1
<1>4. \A k \in DOMAIN list \ {at} : \E i \in DOMAIN new : was(i) = k
  <2> TAKE k \in DOMAIN list \ {at}
  <2>1. CASE k < at
    <3>1. k \in DOMAIN new /\ was(k) = k
      BY <1>1, <2>1
    <3> QED
      BY <3>1
  <2>2. CASE ~ (k < at)
    <3>1. k - 1 \in DOMAIN new /\ was(k - 1) = k
      BY <1>1, <2>2
    <3> QED
      BY <3>1
  <2> QED
    BY <2>1, <2>2
<1> HIDE DEF was
<1>5. at \in DOMAIN list
  BY <1>1
<1>6. \A k \in DOMAIN list : list[k].id = list[at].id => k = at
  BY <1>5 DEF OneEach
<1>7. InsertsOf(new) = InsertsOf(list) \ {list[at].id}
  <2>1. \A i \in DOMAIN new : new[i].id \in InsertsOf(list) \ {list[at].id}
    BY <1>2, <1>6 DEF InsertsOf
  <2>2. \A k \in DOMAIN list \ {at} : list[k].id \in InsertsOf(new)
    BY <1>2, <1>4 DEF InsertsOf
  <2>3. InsertsOf(list) \ {list[at].id} \subseteq InsertsOf(new)
    BY <2>2 DEF InsertsOf
  <2>4. InsertsOf(new) \subseteq InsertsOf(list) \ {list[at].id}
    BY <2>1 DEF InsertsOf
  <2> QED
    BY <2>3, <2>4
<1>8. OneEach(new)
  BY <1>2, <1>3 DEF OneEach
<1> QED
  BY <1>7, <1>8 DEF new

\* The first change is taken off a list.
LEMMA TailIds ==
  ASSUME NEW S, NEW list \in Seq(S), list # <<>>, OneEach(list)
  PROVE  /\ InsertsOf(Remaining(list)) = InsertsOf(list) \ {list[1].id}
         /\ OneEach(Remaining(list)) /\ list[1].id \in InsertsOf(list)
<1> DEFINE new == Tail(list)
<1>1. /\ DOMAIN new = 1 .. Len(list) - 1 /\ Len(list) \in Nat \ {0}
      /\ \A i \in 1 .. Len(list) - 1 : new[i] = list[i + 1]
      /\ DOMAIN list = 1 .. Len(list)
  BY HeadTailProperties
<1> HIDE DEF new
<1>2. 1 \in DOMAIN list /\ \A i \in DOMAIN new : i + 1 \in DOMAIN list /\ i + 1 # 1 /\ new[i] = list[i + 1]
  BY <1>1
<1>3. \A k \in DOMAIN list \ {1} : k - 1 \in DOMAIN new /\ new[k - 1] = list[k]
  BY <1>1
<1>4. \A k \in DOMAIN list : list[k].id = list[1].id => k = 1
  BY <1>2 DEF OneEach
<1>5. InsertsOf(new) = InsertsOf(list) \ {list[1].id}
  <2>1. \A i \in DOMAIN new : new[i].id \in InsertsOf(list) \ {list[1].id}
    BY <1>2, <1>4 DEF InsertsOf
  <2>2. \A k \in DOMAIN list \ {1} : list[k].id \in InsertsOf(new)
    BY <1>3 DEF InsertsOf
  <2>3. InsertsOf(list) \ {list[1].id} \subseteq InsertsOf(new)
    BY <2>2 DEF InsertsOf
  <2>4. InsertsOf(new) \subseteq InsertsOf(list) \ {list[1].id}
    BY <2>1 DEF InsertsOf
  <2> QED
    BY <2>3, <2>4
<1>6. OneEach(new)
  <2>1. \A i, j \in DOMAIN new : i + 1 = j + 1 => i = j
    BY <1>1
  <2> QED
    BY <1>2, <2>1 DEF OneEach
<1>7. list[1].id \in InsertsOf(list)
  BY <1>2 DEF InsertsOf
<1> QED
  BY <1>5, <1>6, <1>7 DEF new, Remaining

\* A new row is put before the others.
LEMMA PrependIds ==
  ASSUME NEW S, NEW list \in Seq(S), NEW x \in S, OneEach(list), x.id \notin InsertsOf(list)
  PROVE  /\ InsertsOf(<<x>> \o list) = InsertsOf(list) \cup {x.id}
         /\ OneEach(<<x>> \o list)
<1> DEFINE one == <<x>>
           new == one \o list
<1>1. one \in Seq(S) /\ Len(one) = 1 /\ one[1] = x
  OBVIOUS
<1> HIDE DEF one
<1>2. /\ new \in Seq(S) /\ Len(new) = Len(one) + Len(list)
      /\ \A i \in 1 .. Len(one) + Len(list) :
           new[i] = IF i <= Len(one) THEN one[i] ELSE list[i - Len(one)]
  BY <1>1, ConcatProperties
<1> HIDE DEF new
<1>3. DOMAIN new = 1 .. 1 + Len(list) /\ DOMAIN list = 1 .. Len(list) /\ Len(list) \in Nat
  BY <1>1, <1>2
<1>4. /\ 1 \in DOMAIN new /\ new[1] = x
      /\ \A i \in DOMAIN new \ {1} : i - 1 \in DOMAIN list /\ new[i] = list[i - 1]
      /\ \A k \in DOMAIN list : k + 1 \in DOMAIN new /\ new[k + 1] = list[k]
  BY <1>1, <1>2, <1>3
<1>5. InsertsOf(new) = InsertsOf(list) \cup {x.id}
  <2>1. \A i \in DOMAIN new : new[i].id \in InsertsOf(list) \cup {x.id}
    BY <1>4 DEF InsertsOf
  <2>2. \A k \in DOMAIN list : list[k].id \in InsertsOf(new)
    BY <1>4 DEF InsertsOf
  <2>3. x.id \in InsertsOf(new)
    BY <1>4 DEF InsertsOf
  <2> QED
    BY <2>1, <2>2, <2>3 DEF InsertsOf
<1>6. OneEach(new)
  <2>1. \A k \in DOMAIN list : list[k].id # x.id
    BY DEF InsertsOf
  <2>2. \A i, j \in DOMAIN new : i - 1 = j - 1 => i = j
    BY <1>3
  <2> QED
    BY <1>4, <2>1, <2>2 DEF OneEach
<1> QED
  BY <1>5, <1>6 DEF new, one

\* An added row that gets another key is the same change.
LEMMA RekeyIds ==
  ASSUME NEW list \in Seq(Inserts), NEW at, NEW key \in Keys \cup {0}
  PROVE  /\ InsertsOf([list EXCEPT ![at].key = key]) = InsertsOf(list)
         /\ OneEach(list) => OneEach([list EXCEPT ![at].key = key])
<1> DEFINE new == [list EXCEPT ![at].key = key]
<1>1. CASE at \notin DOMAIN list
  BY <1>1, RekeyNone
<1>2. CASE at \in DOMAIN list
  <2>1. /\ new \in Seq(Inserts) /\ Len(new) = Len(list)
        /\ \A j \in DOMAIN list : new[j] = IF j = at THEN [list[at] EXCEPT !.key = key] ELSE list[j]
    BY <1>2, RekeyTyped
  <2>2. [list[at] EXCEPT !.key = key].id = list[at].id
    <3>1. list[at] \in Inserts
      BY <1>2
    <3> QED
      BY <3>1 DEF Inserts
  <2> HIDE DEF new
  <2>3. DOMAIN new = DOMAIN list
    BY <2>1
  <2>4. \A j \in DOMAIN list : new[j].id = list[j].id
    BY <2>1, <2>2
  <2>5. InsertsOf(new) = InsertsOf(list)
    BY <2>3, <2>4 DEF InsertsOf
  <2>6. OneEach(list) => OneEach(new)
    BY <2>3, <2>4 DEF OneEach
  <2> QED
    BY <2>5, <2>6 DEF new
<1> QED
  BY <1>1, <1>2

-----------------------------------------------------------------------------
(* The changes of the changed rows                                         *)

\* A value put among those of a row replaces the one it had.
LEMMA PutIds ==
  ASSUME NEW values \in Seq(Values), NEW v \in Values
  PROVE  InsertsOf(Put(values, v))
           \cup {values[i].id : i \in {j \in DOMAIN values : values[j].column = v.column}}
         = InsertsOf(values) \cup {v.id}
<1> DEFINE ats == {j \in DOMAIN values : values[j].column = v.column}
<1>1. CASE ats = {}
  <2>1. InsertsOf(Put(values, v)) = InsertsOf(values) \cup {v.id}
    BY <1>1, AppendIds DEF Put
  <2> QED
    BY <1>1, <2>1
<1>2. CASE ats # {}
  <2> DEFINE new == [i \in DOMAIN values |-> IF i \in ats THEN v ELSE values[i]]
  <2>1. Put(values, v) = new
    BY <1>2 DEF Put
  <2>2. DOMAIN new = DOMAIN values /\ \A i \in DOMAIN values : new[i] = IF i \in ats THEN v ELSE values[i]
    OBVIOUS
  <2>3. ats \subseteq DOMAIN values
    OBVIOUS
  <2> HIDE DEF new, ats
  <2>4. InsertsOf(new) \subseteq InsertsOf(values) \cup {v.id}
    BY <2>2 DEF InsertsOf
  <2>5. v.id \in InsertsOf(new)
    BY <1>2, <2>2, <2>3 DEF InsertsOf
  <2>6. \A i \in DOMAIN values : i \in ats \/ values[i].id \in InsertsOf(new)
    BY <2>2 DEF InsertsOf
  <2>7. InsertsOf(values) \subseteq InsertsOf(new) \cup {values[i].id : i \in ats}
    BY <2>6 DEF InsertsOf
  <2>8. {values[i].id : i \in ats} \subseteq InsertsOf(values)
    BY <2>3 DEF InsertsOf
  <2>9. InsertsOf(new) \cup {values[i].id : i \in ats} = InsertsOf(values) \cup {v.id}
    BY <2>4, <2>5, <2>7, <2>8
  <2> QED
    BY <2>1, <2>9 DEF ats
<1> QED
  BY <1>1, <1>2

LEMMA UpdatesAre ==
  ASSUME NEW rows
  PROVE  \A id : id \in UpdatesOf(rows) <=> \E i \in DOMAIN rows : id \in InsertsOf(rows[i].columns)
BY DEF UpdatesOf, InsertsOf

LEMMA PutUpdateIds ==
  ASSUME EditsTyped, NEW identity \in Identities, NEW v \in Values
  PROVE  UpdatesOf(PutUpdate(identity, v)) \cup Replaced(identity, v.column)
           = UpdatesOf(updates) \cup {v.id}
<1>0. updates \in Seq(Updates) /\ DOMAIN updates = 1 .. Len(updates) /\ Len(updates) \in Nat
  BY DEF EditsTyped
<1>1. CASE UpdateAt(identity) = 0
  <2> DEFINE row == [identity |-> identity, columns |-> <<v>>]
             new == Append(updates, row)
  <2>1. PutUpdate(identity, v) = new /\ Replaced(identity, v.column) = {}
    BY <1>1 DEF PutUpdate, Replaced
  <2>2. row.columns = <<v>> /\ InsertsOf(<<v>>) = {v.id}
    <3>1. DOMAIN <<v>> = {1} /\ <<v>>[1] = v
      OBVIOUS
    <3> QED
      BY <3>1 DEF InsertsOf
  <2>3. row \in Updates
    <3>1. <<v>> \in Seq(Values)
      OBVIOUS
    <3> QED
      BY <3>1 DEF Updates
  <2> HIDE DEF row
  <2>4. /\ DOMAIN new = 1 .. Len(updates) + 1
        /\ \A i \in 1 .. Len(updates) : new[i] = updates[i]
        /\ new[Len(updates) + 1] = row
    BY <1>0, <2>3, AppendProperties
  <2> HIDE DEF new
  <2>5. \A i \in DOMAIN new : i \in DOMAIN updates \/ i = Len(updates) + 1
    BY <1>0, <2>4
  <2>6. DOMAIN updates \subseteq DOMAIN new /\ Len(updates) + 1 \in DOMAIN new
    BY <1>0, <2>4
  <2>7. \A id : id \in UpdatesOf(new) <=> id \in UpdatesOf(updates) \/ id = v.id
    <3> TAKE id
    <3>1. id \in UpdatesOf(new) <=> \E i \in DOMAIN new : id \in InsertsOf(new[i].columns)
      BY UpdatesAre
    <3>2. id \in UpdatesOf(updates) <=> \E i \in DOMAIN updates : id \in InsertsOf(updates[i].columns)
      BY UpdatesAre
    <3>3. id \in InsertsOf(new[Len(updates) + 1].columns) <=> id = v.id
      BY <2>2, <2>4
    <3>4. \A i \in DOMAIN updates : new[i] = updates[i]
      BY <1>0, <2>4
    <3> QED
      BY <2>5, <2>6, <3>1, <3>2, <3>3, <3>4
  <2> QED
    BY <2>1, <2>7
<1>2. CASE UpdateAt(identity) # 0
  <2> DEFINE at  == UpdateAt(identity)
             row == [updates[at] EXCEPT !.columns = Put(@, v)]
             new == [updates EXCEPT ![at] = row]
             old == {updates[at].columns[i].id :
                       i \in {j \in DOMAIN updates[at].columns : updates[at].columns[j].column = v.column}}
  <2>1. at \in DOMAIN updates
    BY <1>0, <1>2, UpdateAtTyped
  <2>2. PutUpdate(identity, v) = new /\ Replaced(identity, v.column) = old
    BY <1>2 DEF PutUpdate, Replaced
  <2>3. updates[at] \in Updates
    BY <1>0, <2>1
  <2>4. updates[at].columns \in Seq(Values)
    BY <2>3 DEF Updates
  <2>5. row.columns = Put(updates[at].columns, v)
    BY <2>3 DEF Updates
  <2>6. InsertsOf(row.columns) \cup old = InsertsOf(updates[at].columns) \cup {v.id}
    BY <2>4, <2>5, PutIds
  <2> HIDE DEF at, row, old
  <2>7. DOMAIN new = DOMAIN updates /\ \A i \in DOMAIN updates : new[i] = IF i = at THEN row ELSE updates[i]
    OBVIOUS
  <2> HIDE DEF new
  <2>8. \A id : id \in UpdatesOf(new) \cup old <=> id \in UpdatesOf(updates) \/ id = v.id
    <3> TAKE id
    <3>1. id \in UpdatesOf(new) <=> \E i \in DOMAIN new : id \in InsertsOf(new[i].columns)
      BY UpdatesAre
    <3>2. id \in UpdatesOf(updates) <=> \E i \in DOMAIN updates : id \in InsertsOf(updates[i].columns)
      BY UpdatesAre
    <3>3. id \in InsertsOf(row.columns) \cup old <=> id \in InsertsOf(updates[at].columns) \/ id = v.id
      BY <2>6
    <3>4. id \in UpdatesOf(new) <=>
            \/ id \in InsertsOf(row.columns)
            \/ \E i \in DOMAIN updates : i # at /\ id \in InsertsOf(updates[i].columns)
      BY <2>1, <2>7, <3>1
    <3>5. id \in UpdatesOf(updates) <=>
            \/ id \in InsertsOf(updates[at].columns)
            \/ \E i \in DOMAIN updates : i # at /\ id \in InsertsOf(updates[i].columns)
      BY <2>1, <3>2
    <3> QED
      BY <3>3, <3>4, <3>5
  <2> QED
    BY <2>2, <2>8
<1> QED
  BY <1>1, <1>2

\* The first changed row is taken off the list.
LEMMA TailUpdates ==
  ASSUME updates \in Seq(Updates), updates # <<>>
  PROVE  UpdatesOf(updates) = UpdatesOf(Remaining(updates)) \cup InsertsOf(updates[1].columns)
<1> DEFINE new == Tail(updates)
<1>1. /\ DOMAIN new = 1 .. Len(updates) - 1 /\ Len(updates) \in Nat \ {0}
      /\ \A i \in 1 .. Len(updates) - 1 : new[i] = updates[i + 1]
      /\ DOMAIN updates = 1 .. Len(updates)
  BY HeadTailProperties
<1> HIDE DEF new
<1>2. /\ 1 \in DOMAIN updates
      /\ \A i \in DOMAIN new : i + 1 \in DOMAIN updates /\ new[i] = updates[i + 1]
      /\ \A k \in DOMAIN updates \ {1} : k - 1 \in DOMAIN new /\ new[k - 1] = updates[k]
  BY <1>1
<1>3. \A id : id \in UpdatesOf(updates) <=> id \in UpdatesOf(new) \/ id \in InsertsOf(updates[1].columns)
  <2> TAKE id
  <2>1. id \in UpdatesOf(new) <=> \E i \in DOMAIN new : id \in InsertsOf(new[i].columns)
    BY UpdatesAre
  <2>2. id \in UpdatesOf(updates) <=> \E i \in DOMAIN updates : id \in InsertsOf(updates[i].columns)
    BY UpdatesAre
  <2> QED
    BY <1>2, <2>1, <2>2
<1> QED
  BY <1>3 DEF new, Remaining

-----------------------------------------------------------------------------
(* Steps while nothing is written                                          *)

LEMMA RestKept ==
  ASSUME TypeInv, stage = "no", UNCHANGED <<stage, columns>>
  PROVE  Begun' /\ Attempted'
<1>1. columns' = 0
  BY AtRest DEF TypeInv
<1>2. 1 .. columns' = {}
  BY <1>1
<1> QED
  BY <1>2 DEF Begun, Attempted

\* What is taken off the lists is dropped.
LEMMA DropsKeep ==
  ASSUME TypeInv, WritesInv, stage = "no", UNCHANGED <<stage, columns, changes, written, unanswered>>,
         deletes' \in {<<>>, deletes}, updates' \in {<<>>, updates}, inserts' \in {<<>>, inserts},
         Pending' \cup dropped' = Pending \cup dropped
  PROVE  WritesInv'
<1>1. NothingLost'
  BY DEF WritesInv, NothingLost
<1>2. DOMAIN <<>> = {}
  OBVIOUS
<1>3. OneEach(deletes') /\ OneEach(inserts')
  BY <1>2 DEF WritesInv, Distinct, OneEach
<1>4. /\ DeletesOf(deletes') \subseteq DeletesOf(deletes)
      /\ InsertsOf(inserts') \subseteq InsertsOf(inserts)
      /\ UpdatesOf(updates') \subseteq UpdatesOf(updates)
  <2>1. DeletesOf(<<>>) = {} /\ InsertsOf(<<>>) = {} /\ UpdatesOf(<<>>) = {}
    BY <1>2 DEF DeletesOf, InsertsOf, UpdatesOf
  <2> QED
    BY <2>1
<1>5. Distinct'
  BY <1>3, <1>4 DEF WritesInv, Distinct
<1> QED
  BY <1>1, <1>5, RestKept DEF WritesInv

LEMMA ForgetDrops ==
  ASSUME Forget
  PROVE  /\ deletes' = <<>> /\ updates' = <<>> /\ inserts' = <<>>
         /\ Pending' \cup dropped' = Pending \cup dropped
<1>1. DOMAIN deletes' = {} /\ DOMAIN updates' = {} /\ DOMAIN inserts' = {}
  BY DEF Forget
<1>2. Pending' = {}
  BY <1>1 DEF Pending, DeletesOf, UpdatesOf, InsertsOf
<1> QED
  BY <1>2 DEF Forget

LEMMA EditsStay ==
  ASSUME UNCHANGED <<edits, dropped>>
  PROVE  /\ UNCHANGED <<deletes, updates, inserts>>
         /\ Pending' \cup dropped' = Pending \cup dropped
BY DEF edits, Pending

LEMMA MovesAccounted ==
  ASSUME TypeInv, WritesInv,
         \/ \E i \in 0 .. Cardinality(Tables) - 1 : SelectTable(i)
         \/ \E m \in SUBSET Tables : Reselect(m)
         \/ IdleLoad
         \/ \E keep \in {"nothing", "cursor"} : LoadAgain(keep)
         \/ \E t \in Tables : GoToTable(t)
         \/ \E t \in Tables, f \in BOOLEAN : OpenLinked(t, f)
         \/ Reload
         \/ \E f \in BOOLEAN : ApplyFilters(f)
         \/ ClearFilters
         \/ \E t \in Tables \cup {NoTable} : RunQuery(t)
         \/ \E r \in 0 .. MaxChanges + Cardinality(Keys), c \in 0 .. LastColumn : MoveCursor(r, c)
         \/ ClearMarks \/ Leave
         \/ \E looking \in BOOLEAN : StartEditing(looking)
         \/ EditViewed \/ CancelEdit \/ NewRow \/ OpenRecord \/ CloseRecord
         \/ Dismiss
  PROVE  WritesInv'
<1>1. stage = "no" /\ UNCHANGED <<stage, columns, changes, written, unanswered>>
  BY DEF SelectTable, Reselect, IdleLoad, LoadAgain, GoToTable, OpenLinked, Reload,
     ApplyFilters, ClearFilters, RunQuery, MoveCursor, ClearMarks, Leave,
     StartEditing, EditViewed, CancelEdit, NewRow, OpenRecord, CloseRecord, Dismiss,
     Browsing, Listening, Elsewhere, writing, memory, database
<1>2. CASE Forget
  BY <1>1, <1>2, ForgetDrops, DropsKeep
<1>3. CASE UNCHANGED <<edits, dropped>>
  BY <1>1, <1>3, EditsStay, DropsKeep
<1>4. CASE /\ deletes' = <<>> /\ UNCHANGED <<updates, inserts>>
           /\ dropped' = dropped \cup DeletesOf(deletes)
  <2>1. Pending' \cup dropped' = Pending \cup dropped
    <3>1. DeletesOf(deletes') = {}
      BY <1>4 DEF DeletesOf
    <3> QED
      BY <1>4, <3>1 DEF Pending
  <2> QED
    BY <1>1, <1>4, <2>1, DropsKeep
<1>5. CASE /\ deletes' = <<>> /\ updates' = <<>> /\ UNCHANGED inserts
           /\ dropped' = dropped \cup DeletesOf(deletes) \cup UpdatesOf(updates)
  <2>1. Pending' \cup dropped' = Pending \cup dropped
    <3>1. DeletesOf(deletes') = {} /\ UpdatesOf(updates') = {}
      BY <1>5 DEF DeletesOf, UpdatesOf
    <3> QED
      BY <1>5, <3>1 DEF Pending
  <2> QED
    BY <1>1, <1>5, <2>1, DropsKeep
<1>6. \/ Forget \/ UNCHANGED <<edits, dropped>>
      \/ /\ deletes' = <<>> /\ UNCHANGED <<updates, inserts>>
         /\ dropped' = dropped \cup DeletesOf(deletes)
      \/ /\ deletes' = <<>> /\ updates' = <<>> /\ UNCHANGED inserts
         /\ dropped' = dropped \cup DeletesOf(deletes) \cup UpdatesOf(updates)
  <2>1. CASE \E m \in SUBSET Tables : Reselect(m)
    BY <2>1 DEF Reselect
  <2>2. CASE \E f \in BOOLEAN : ApplyFilters(f)
    BY <2>2 DEF ApplyFilters
  <2>3. CASE \E t \in Tables : GoToTable(t)
    BY <2>3 DEF GoToTable
  <2>4. CASE \E t \in Tables \cup {NoTable} : RunQuery(t)
    BY <2>4 DEF RunQuery
  <2> QED
    BY <2>1, <2>2, <2>3, <2>4 DEF SelectTable, IdleLoad, LoadAgain, OpenLinked, Reload,
       ClearFilters, MoveCursor, ClearMarks, Leave, StartEditing, EditViewed, CancelEdit,
       NewRow, OpenRecord, CloseRecord, Dismiss, memory
<1> QED
  BY <1>2, <1>3, <1>4, <1>5, <1>6

\* A change the user makes has a number of its own.
LEMMA Fresh ==
  ASSUME TypeInv, NothingLost, changes' = changes + 1
  PROVE  /\ changes' \notin Pending \cup written \cup dropped
         /\ 1 .. changes' = (1 .. changes) \cup {changes'}
<1>1. changes \in Nat
  BY ConstantsAssumption DEF TypeInv, MemoryTyped
<1>2. changes' \notin 1 .. changes /\ 1 .. changes' = (1 .. changes) \cup {changes'}
  BY <1>1
<1> QED
  BY <1>2 DEF NothingLost

LEMMA MarksAccounted ==
  ASSUME TypeInv, WritesInv, MarkDelete
  PROVE  WritesInv'
<1>0. deletes \in Seq(Marks) /\ OneEach(deletes) /\ OneEach(inserts)
  BY DEF TypeInv, EditsTyped, WritesInv, Distinct
<1>1. /\ stage = "no" /\ UNCHANGED <<stage, columns, updates, inserts, written, unanswered>>
      /\ \/ /\ MarkAt(deletes, Identity) # 0
            /\ deletes' = RemoveAt(deletes, MarkAt(deletes, Identity))
            /\ dropped' = dropped \cup {deletes[MarkAt(deletes, Identity)].id}
            /\ UNCHANGED changes
         \/ /\ changes < MaxChanges /\ changes' = changes + 1
            /\ deletes' = Append(deletes, [id |-> changes', identity |-> Identity,
                                           table |-> RowHere.table])
            /\ UNCHANGED dropped
  BY DEF MarkDelete, Browsing, Listening, writing, database, MarkAt, SelectInSeq
<1>2. CASE /\ MarkAt(deletes, Identity) # 0
           /\ deletes' = RemoveAt(deletes, MarkAt(deletes, Identity))
           /\ dropped' = dropped \cup {deletes[MarkAt(deletes, Identity)].id}
           /\ UNCHANGED changes
  <2> DEFINE at == MarkAt(deletes, Identity)
  <2>1. at \in 1 .. Len(deletes)
    BY <1>0, <1>2, MarkTyped
  <2> HIDE DEF at
  <2>2. /\ DeletesOf(deletes') = DeletesOf(deletes) \ {deletes[at].id} /\ OneEach(deletes')
    BY <1>0, <1>2, <2>1, RemoveIds, Alike DEF at
  <2>3. deletes[at].id \in DeletesOf(deletes)
    BY <1>0, <2>1 DEF DeletesOf
  <2>4. NothingLost'
    BY <1>1, <1>2, <2>2, <2>3 DEF WritesInv, NothingLost, Pending, at
  <2>5. Distinct'
    BY <1>0, <1>1, <2>2 DEF WritesInv, Distinct
  <2> QED
    BY <1>1, <2>4, <2>5, RestKept DEF WritesInv
<1>3. CASE /\ changes < MaxChanges /\ changes' = changes + 1
           /\ deletes' = Append(deletes, [id |-> changes', identity |-> Identity,
                                          table |-> RowHere.table])
           /\ UNCHANGED dropped
  <2> DEFINE mark == [id |-> changes', identity |-> Identity, table |-> RowHere.table]
  <2>1. mark \in Marks
    <3>1. changes' \in Ids /\ RowHere \in GridRows /\ Identity \in Identities
      BY <1>3, NextId, RowHereTyped DEF TypeInv
    <3>2. RowHere.table \in Tables \cup {NoTable}
      BY <3>1 DEF GridRows
    <3> QED
      BY <3>1, <3>2 DEF Marks
  <2>2. mark.id = changes'
    OBVIOUS
  <2> HIDE DEF mark
  <2>3. changes' \notin Pending \cup written \cup dropped /\ 1 .. changes' = (1 .. changes) \cup {changes'}
    BY <1>3, Fresh DEF WritesInv
  <2>4. DeletesOf(deletes') = DeletesOf(deletes) \cup {changes'} /\ OneEach(deletes')
    BY <1>0, <1>3, <2>1, <2>2, <2>3, AppendIds, Alike DEF mark, Pending
  <2>5. NothingLost'
    BY <1>1, <1>3, <2>3, <2>4 DEF WritesInv, NothingLost, Pending
  <2>6. Distinct'
    BY <1>0, <1>1, <2>3, <2>4 DEF WritesInv, Distinct, Pending
  <2> QED
    BY <1>1, <2>5, <2>6, RestKept DEF WritesInv
<1> QED
  BY <1>1, <1>2, <1>3

\* A value is changed, and replaces the one that was pending for its column.
LEMMA PutAccounted ==
  ASSUME TypeInv, WritesInv, stage = "no",
         NEW identity \in Identities, NEW v \in Values,
         v.id = changes', changes' = changes + 1,
         updates' = PutUpdate(identity, v), dropped' = dropped \cup Replaced(identity, v.column),
         UNCHANGED <<stage, columns, deletes, inserts, written, unanswered>>
  PROVE  WritesInv'
<1>1. UpdatesOf(updates') \cup Replaced(identity, v.column) = UpdatesOf(updates) \cup {changes'}
  BY PutUpdateIds DEF TypeInv
<1>2. changes' \notin Pending \cup written \cup dropped /\ 1 .. changes' = (1 .. changes) \cup {changes'}
  BY Fresh DEF WritesInv
<1>3. NothingLost'
  BY <1>1, <1>2 DEF WritesInv, NothingLost, Pending
<1>4. Distinct'
  BY <1>1, <1>2 DEF WritesInv, Distinct, Pending
<1> QED
  BY <1>3, <1>4, RestKept DEF WritesInv

\* An added row gets another key.
LEMMA RekeyAccounted ==
  ASSUME TypeInv, WritesInv, stage = "no", NEW at, NEW key \in Keys \cup {0},
         inserts' = [inserts EXCEPT ![at].key = key],
         UNCHANGED <<stage, columns, changes, deletes, updates, written, dropped, unanswered>>
  PROVE  WritesInv'
<1>1. InsertsOf(inserts') = InsertsOf(inserts) /\ OneEach(inserts')
  BY RekeyIds DEF TypeInv, EditsTyped, WritesInv, Distinct
<1>2. NothingLost'
  BY <1>1 DEF WritesInv, NothingLost, Pending
<1>3. Distinct'
  BY <1>1 DEF WritesInv, Distinct
<1> QED
  BY <1>2, <1>3, RestKept DEF WritesInv

LEMMA ChangesAccounted ==
  ASSUME TypeInv, WritesInv,
         CommitEdit \/ SaveRow \/ \E k \in Keys \cup {0} : SaveAdded(k) \/ SaveNew(k)
  PROVE  WritesInv'
<1>0. inserts \in Seq(Inserts) /\ row_index \in Nat
  BY DEF TypeInv, EditsTyped, GridTyped
<1>1. ASSUME CommitEdit PROVE WritesInv'
  <2> DEFINE column   == Column(column_index)
             identity == IF RowIsThere THEN Identity ELSE NoKey
             change(to) == [id |-> changes', column |-> column, to |-> to,
                            made |-> [table |-> value.row.table, key |-> value.row.key,
                                      column |-> value.column]]
  <2>1. /\ stage = "no" /\ UNCHANGED <<stage, columns, deletes, written, unanswered>>
        /\ \/ UNCHANGED <<updates, inserts, changes, dropped>>
           \/ /\ OnAddedRow
              /\ \E key \in IF column = "id" THEN Keys \cup {0} ELSE {inserts[row_index + 1].key} :
                   inserts' = [inserts EXCEPT ![row_index + 1].key = key]
              /\ UNCHANGED <<updates, changes, dropped>>
           \/ /\ changes < MaxChanges /\ changes' = changes + 1
              /\ \E to \in Typed(column) : updates' = PutUpdate(identity, change(to))
              /\ dropped' = dropped \cup Replaced(identity, column)
              /\ UNCHANGED inserts
    BY <1>1 DEF CommitEdit, Listening, writing, database
  <2>2. CASE UNCHANGED <<updates, inserts, changes, dropped>>
    BY <2>1, <2>2, DropsKeep DEF Pending
  <2>3. CASE /\ OnAddedRow
             /\ \E key \in IF column = "id" THEN Keys \cup {0} ELSE {inserts[row_index + 1].key} :
                  inserts' = [inserts EXCEPT ![row_index + 1].key = key]
             /\ UNCHANGED <<updates, changes, dropped>>
    <3>1. row_index + 1 \in DOMAIN inserts
      BY <1>0, <2>3 DEF OnAddedRow
    <3>2. inserts[row_index + 1] \in Inserts
      BY <1>0, <3>1
    <3>3. inserts[row_index + 1].key \in Keys \cup {0}
      BY <3>2 DEF Inserts
    <3>4. PICK key \in Keys \cup {0} : inserts' = [inserts EXCEPT ![row_index + 1].key = key]
      BY <2>3, <3>3
    <3> QED
      BY <2>1, <2>3, <3>4, RekeyAccounted
  <2>4. CASE /\ changes < MaxChanges /\ changes' = changes + 1
             /\ \E to \in Typed(column) : updates' = PutUpdate(identity, change(to))
             /\ dropped' = dropped \cup Replaced(identity, column)
             /\ UNCHANGED inserts
    <3>1. PICK to \in Typed(column) : updates' = PutUpdate(identity, change(to))
      BY <2>4
    <3>2. column \in Columns /\ to \in Keys \cup {0}
      BY <3>1 DEF Column, Columns, Typed
    <3>3. identity \in Identities
      BY RowHereTyped, NoFormTyped DEF TypeInv
    <3>4. value.row \in GridRows /\ value.column \in Columns
      BY DEF TypeInv, ModalsTyped
    <3>5. [table |-> value.row.table, key |-> value.row.key, column |-> value.column] \in Cells
      BY <3>4 DEF GridRows, Cells
    <3>6. changes' \in Ids
      BY <2>4, NextId DEF TypeInv
    <3> HIDE DEF column, identity
    <3>7. change(to) \in Values /\ change(to).column = column /\ change(to).id = changes'
      BY <3>2, <3>5, <3>6 DEF Values
    <3> HIDE DEF change
    <3> QED
      BY <2>1, <2>4, <3>1, <3>3, <3>7, PutAccounted
  <2> HIDE DEF change, column, identity
  <2> QED
    BY <2>1, <2>2, <2>3, <2>4
<1>2. ASSUME SaveRow PROVE WritesInv'
  <2> DEFINE change == [id |-> changes', column |-> "name", to |-> 0,
                        made |-> [table |-> form.row.table, key |-> form.row.key, column |-> "name"]]
  <2>1. /\ stage = "no" /\ changes < MaxChanges /\ changes' = changes + 1
        /\ updates' = PutUpdate(form.identity, change)
        /\ dropped' = dropped \cup Replaced(form.identity, "name")
        /\ UNCHANGED <<stage, columns, deletes, inserts, written, unanswered>>
    BY <1>2 DEF SaveRow, Listening, writing, database
  <2>2. form.identity \in Identities /\ form.row \in GridRows
    BY DEF TypeInv, ModalsTyped
  <2>3. changes' \in Ids
    BY <2>1, NextId DEF TypeInv
  <2>4. [table |-> form.row.table, key |-> form.row.key, column |-> "name"] \in Cells
    BY <2>2 DEF GridRows, Cells, Columns
  <2>5. change \in Values /\ change.column = "name" /\ change.id = changes'
    BY <2>3, <2>4 DEF Values, Columns
  <2> HIDE DEF change
  <2> QED
    BY <2>1, <2>2, <2>5, PutAccounted
<1>3. ASSUME NEW k \in Keys \cup {0}, SaveAdded(k) PROVE WritesInv'
  <2>1. /\ stage = "no" /\ inserts' = [inserts EXCEPT ![form.at].key = k]
        /\ UNCHANGED <<stage, columns, changes, deletes, updates, written, dropped, unanswered>>
    BY <1>3 DEF SaveAdded, Listening, writing, memory, database
  <2> QED
    BY <2>1, RekeyAccounted
<1>4. ASSUME NEW k \in Keys \cup {0}, SaveNew(k) PROVE WritesInv'
  <2> DEFINE row == [id |-> changes', key |-> k, table |-> form.row.table]
  <2>1. /\ stage = "no" /\ form.open /\ form.adds
        /\ changes < MaxChanges /\ changes' = changes + 1
        /\ inserts' = <<row>> \o inserts
        /\ UNCHANGED <<stage, columns, deletes, updates, written, dropped, unanswered>>
    BY <1>4 DEF SaveNew, Listening, writing, database
  <2>2. changes' \in Ids
    BY <2>1, NextId DEF TypeInv
  <2>3. row \in Inserts /\ row.id = changes'
    BY <2>1, <2>2 DEF Inserts, TypeInv, ModalsTyped
  <2> HIDE DEF row
  <2>4. changes' \notin Pending \cup written \cup dropped /\ 1 .. changes' = (1 .. changes) \cup {changes'}
    BY <2>1, Fresh DEF WritesInv
  <2>5. OneEach(inserts)
    BY DEF WritesInv, Distinct
  <2>6. InsertsOf(inserts') = InsertsOf(inserts) \cup {changes'} /\ OneEach(inserts')
    BY <1>0, <2>1, <2>3, <2>4, <2>5, PrependIds DEF Pending
  <2>7. NothingLost'
    BY <2>1, <2>4, <2>6 DEF WritesInv, NothingLost, Pending
  <2>8. Distinct'
    BY <2>1, <2>4, <2>6 DEF WritesInv, Distinct, Pending
  <2> QED
    BY <2>1, <2>7, <2>8, RestKept DEF WritesInv
<1> QED
  BY <1>1, <1>2, <1>3, <1>4

-----------------------------------------------------------------------------
(* Steps of :w                                                             *)

\* A statement fails, or another client is there in between.
LEMMA StaysAccounted ==
  ASSUME WritesInv, UNCHANGED <<edits, columns, changes, written, dropped, attempt, wrote, unanswered>>,
         stage # "no" \/ stage' = "no"
  PROVE  WritesInv'
<1>1. UNCHANGED <<deletes, updates, inserts, Pending>>
  BY DEF edits, Pending
<1>2. NothingLost' /\ Distinct'
  BY <1>1 DEF WritesInv, NothingLost, Distinct, OneEach
<1>3. Begun' /\ Attempted'
  BY <1>1 DEF WritesInv, Begun, Attempted
<1> QED
  BY <1>2, <1>3 DEF WritesInv

\* A statement is done, and its changes are taken off their list.
LEMMA TookAccounted ==
  ASSUME WritesInv, NEW ids, Took(ids), UNCHANGED <<changes, dropped, attempt>>, stage # "no",
         ids \subseteq Pending, Pending \subseteq Pending' \cup (written' \cap wrote'),
         Pending' \subseteq Pending
  PROVE  NothingLost' /\ Attempted'
<1>1. written' = written \cup ids /\ wrote' = wrote \cup ids
  BY DEF Took
<1>2. NothingLost'
  BY <1>1 DEF WritesInv, NothingLost
<1>3. Attempted'
  BY <1>1 DEF WritesInv, Attempted
<1> QED
  BY <1>2, <1>3

LEMMA BegunKept ==
  ASSUME Begun, NEW ids, Took(ids), UNCHANGED <<updates, columns>>
  PROVE  Begun'
BY DEF Begun, Took

LEMMA FailsAccounted ==
  ASSUME WritesInv, NEW why, Fails(why), UNCHANGED Unwritten, stage # "no"
  PROVE  WritesInv'
<1>1. UNCHANGED <<edits, columns, changes, written, dropped, attempt, wrote, unanswered>>
  BY DEF Fails, Unwritten, database
<1> QED
  BY <1>1, StaysAccounted

\* The database took a statement, and its answer is lost.
LEMMA LostAccounted ==
  ASSUME WritesInv, NEW ids, Took(ids), AnswerLost(ids), UNCHANGED Unwritten, stage # "no",
         ids \subseteq Pending
  PROVE  WritesInv'
<1>1. /\ UNCHANGED <<deletes, updates, inserts, Pending, columns, changes, dropped, attempt>>
      /\ written' = written \cup ids /\ wrote' = wrote \cup ids
      /\ unanswered' = unanswered \cup ids
  BY DEF Took, AnswerLost, Unwritten, edits, Pending
<1>2. NothingLost' /\ Attempted'
  BY <1>1, TookAccounted
<1>3. Distinct'
  BY <1>1 DEF WritesInv, Distinct, OneEach
<1>4. Begun'
  BY <1>1 DEF WritesInv, Begun
<1> QED
  BY <1>2, <1>3, <1>4 DEF WritesInv

LEMMA WritesAccounted ==
  ASSUME TypeInv, WritesInv,
         WriteInsert \/ WriteUpdate \/ WriteDeletes \/ WriteMatchedUpdate \/ WriteMatchedDelete
  PROVE  WritesInv'
<1> USE DEF WritesInv
<1>0. /\ deletes \in Seq(Marks) /\ updates \in Seq(Updates) /\ inserts \in Seq(Inserts)
      /\ OneEach(deletes) /\ OneEach(inserts)
  BY DEF TypeInv, EditsTyped, Distinct
<1>1. UNCHANGED Unwritten => UNCHANGED <<attempt, changes, dropped>>
  BY DEF Unwritten
<1>2. ASSUME WriteInsert PROVE WritesInv'
  <2> DEFINE id == inserts[1].id
  <2>1. /\ stage = "writing" /\ inserts # <<>> /\ UNCHANGED Unwritten
        /\ \/ /\ Took({id}) /\ inserts' = Remaining(inserts)
              /\ UNCHANGED <<deletes, updates, columns, unanswered>>
           \/ Took({id}) /\ AnswerLost({id})
           \/ Fails("refused")
    BY <1>2 DEF WriteInsert, Done, Answered
  <2>0. {id} \subseteq Pending
    BY <1>0, <2>1, TailIds DEF Pending
  <2>2. CASE /\ Took({id}) /\ inserts' = Remaining(inserts)
             /\ UNCHANGED <<deletes, updates, columns, unanswered>>
    <3>1. /\ InsertsOf(inserts') = InsertsOf(inserts) \ {id} /\ OneEach(inserts')
          /\ id \in InsertsOf(inserts)
      BY <1>0, <2>1, <2>2, TailIds
    <3> HIDE DEF id
    <3>2. written' = written \cup {id} /\ wrote' = wrote \cup {id}
      BY <2>2 DEF Took
    <3>3. {id} \subseteq Pending /\ Pending' \subseteq Pending
          /\ Pending \subseteq Pending' \cup (written' \cap wrote')
      BY <2>2, <3>1, <3>2 DEF Pending
    <3>4. NothingLost' /\ Attempted'
      BY <1>1, <2>1, <2>2, <3>3, TookAccounted
    <3>5. Distinct'
      BY <1>0, <2>2, <3>1, <3>2 DEF Distinct
    <3> QED
      BY <2>2, <3>4, <3>5, BegunKept
  <2> HIDE DEF id
  <2> QED
    BY <2>0, <2>1, <2>2, FailsAccounted, LostAccounted
<1>3. ASSUME WriteUpdate PROVE WritesInv'
  <2> DEFINE values == updates[1].columns
             v      == values[columns + 1]
  <2>1. /\ stage = "writing" /\ updates # <<>> /\ UNCHANGED Unwritten
        /\ \/ /\ Took({v.id}) /\ UNCHANGED <<deletes, inserts, unanswered>>
              /\ columns + 1 = Len(values) /\ updates' = Remaining(updates) /\ columns' = 0
           \/ /\ Took({v.id}) /\ UNCHANGED <<deletes, inserts, updates, unanswered>>
              /\ columns' = columns + 1
           \/ Took({v.id}) /\ AnswerLost({v.id})
           \/ Fails("gone") \/ Fails("refused")
    BY <1>3 DEF WriteUpdate, Done, Answered
  <2>2. /\ values \in Seq(Values) /\ columns + 1 \in 1 .. Len(values) /\ columns \in 0 .. 1
    BY <2>1, NextValue DEF TypeInv, WritingTyped
  <2>3. UpdatesOf(updates) = UpdatesOf(Remaining(updates)) \cup InsertsOf(values)
    BY <1>0, <2>1, TailUpdates
  <2>4. v.id \in InsertsOf(values) /\ v.id \in UpdatesOf(updates)
    <3>1. columns + 1 \in DOMAIN values
      BY <2>2
    <3>2. v.id \in InsertsOf(values)
      BY <3>1 DEF InsertsOf
    <3> QED
      BY <2>3, <3>2
  <2>5. ASSUME Took({v.id}) PROVE \A i \in 1 .. columns + 1 : values[i].id \in written' \cap wrote'
    <3>1. \A i \in 1 .. columns : values[i].id \in written \cap wrote
      BY DEF Begun
    <3>2. \A i \in 1 .. columns + 1 : i \in 1 .. columns \/ i = columns + 1
      BY <2>2
    <3> QED
      BY <2>5, <3>1, <3>2 DEF Took
  <2>6. CASE /\ Took({v.id}) /\ UNCHANGED <<deletes, inserts, unanswered>>
             /\ columns + 1 = Len(values) /\ updates' = Remaining(updates) /\ columns' = 0
    <3>1. InsertsOf(values) \subseteq written' \cap wrote'
      <4>1. DOMAIN values = 1 .. columns + 1
        BY <2>2, <2>6
      <4> QED
        BY <2>5, <2>6, <4>1 DEF InsertsOf
    <3> HIDE DEF v, values
    <3>2. {v.id} \subseteq Pending /\ Pending' \subseteq Pending
          /\ Pending \subseteq Pending' \cup (written' \cap wrote')
      BY <2>3, <2>4, <2>6, <3>1 DEF Pending
    <3>3. NothingLost' /\ Attempted'
      BY <1>1, <2>1, <2>6, <3>2, TookAccounted
    <3>4. Distinct'
      BY <2>3, <2>4, <2>6 DEF Distinct, Took
    <3>5. Begun'
      BY <2>6 DEF Begun
    <3> QED
      BY <3>3, <3>4, <3>5
  <2>7. CASE /\ Took({v.id}) /\ UNCHANGED <<deletes, inserts, updates, unanswered>>
             /\ columns' = columns + 1
    <3>1. Begun'
      BY <2>5, <2>7 DEF Begun
    <3> HIDE DEF v, values
    <3>2. {v.id} \subseteq Pending /\ Pending' = Pending
      BY <2>4, <2>7 DEF Pending
    <3>3. NothingLost' /\ Attempted'
      BY <1>1, <2>1, <2>7, <3>2, TookAccounted
    <3>4. Distinct'
      BY <2>4, <2>7 DEF Distinct, Took
    <3> QED
      BY <3>1, <3>3, <3>4
  <2>8. {v.id} \subseteq Pending
    BY <2>4 DEF Pending
  <2> HIDE DEF v, values
  <2> QED
    BY <2>1, <2>6, <2>7, <2>8, FailsAccounted, LostAccounted
<1>4. ASSUME WriteDeletes PROVE WritesInv'
  <2>1. /\ stage = "writing" /\ UNCHANGED Unwritten
        /\ \/ /\ Took(DeletesOf(deletes)) /\ deletes' = <<>>
              /\ UNCHANGED <<updates, inserts, columns, unanswered>>
           \/ Took(DeletesOf(deletes)) /\ AnswerLost(DeletesOf(deletes))
           \/ Fails("gone") \/ Fails("refused")
    BY <1>4 DEF WriteDeletes, Done, Answered
  <2>0. DeletesOf(deletes) \subseteq Pending
    BY DEF Pending
  <2>2. CASE /\ Took(DeletesOf(deletes)) /\ deletes' = <<>>
             /\ UNCHANGED <<updates, inserts, columns, unanswered>>
    <3>1. DOMAIN deletes' = {} /\ DeletesOf(deletes') = {}
      BY <2>2 DEF DeletesOf
    <3>2. DeletesOf(deletes) \subseteq Pending /\ Pending' \subseteq Pending
          /\ Pending \subseteq Pending' \cup (written' \cap wrote')
      BY <2>2, <3>1 DEF Pending, Took
    <3>3. NothingLost' /\ Attempted'
      BY <1>1, <2>1, <2>2, <3>2, TookAccounted
    <3>4. OneEach(deletes') /\ OneEach(inserts')
      BY <1>0, <2>2, <3>1 DEF OneEach
    <3>5. Distinct'
      BY <2>2, <3>1, <3>4 DEF Distinct, Took
    <3> QED
      BY <2>2, <3>3, <3>5, BegunKept
  <2> QED
    BY <2>0, <2>1, <2>2, FailsAccounted, LostAccounted
<1>5. ASSUME WriteMatchedUpdate PROVE WritesInv'
  <2> DEFINE values == updates[1].columns
             ids    == InsertsOf(values)
  <2>1. {v.id : v \in ToSet(values)} = ids
    BY DEF ToSet, InsertsOf
  <2>2. /\ stage = "writing" /\ updates # <<>> /\ Table \notin keyed /\ UNCHANGED Unwritten
        /\ \/ /\ Took(ids) /\ updates' = Remaining(updates)
              /\ UNCHANGED <<deletes, inserts, columns, unanswered>>
           \/ Took(ids) /\ AnswerLost(ids)
           \/ Fails("gone") \/ Fails("refused")
    BY <1>5, <2>1 DEF WriteMatchedUpdate, Done, Answered
  <2>4. ids \subseteq Pending
    BY <1>0, <2>2, TailUpdates DEF Pending
  <2>3. CASE /\ Took(ids) /\ updates' = Remaining(updates)
             /\ UNCHANGED <<deletes, inserts, columns, unanswered>>
    <3>1. UpdatesOf(updates) = UpdatesOf(updates') \cup ids
      BY <1>0, <2>2, <2>3, TailUpdates
    <3> HIDE DEF ids, values
    <3>2. ids \subseteq Pending /\ Pending' \subseteq Pending
          /\ Pending \subseteq Pending' \cup (written' \cap wrote')
      BY <2>3, <3>1 DEF Pending, Took
    <3>3. NothingLost' /\ Attempted'
      BY <1>1, <2>2, <2>3, <3>2, TookAccounted
    <3>4. Distinct'
      BY <2>3, <3>1 DEF Distinct, Took
    <3>5. Begun'
      <4>1. columns = 0
        BY <2>2 DEF TypeInv, WritingTyped, Table
      <4> QED
        BY <2>3, <4>1 DEF Begun
    <3> QED
      BY <3>3, <3>4, <3>5
  <2> HIDE DEF ids
  <2> QED
    BY <2>2, <2>3, <2>4, FailsAccounted, LostAccounted
<1>6. ASSUME WriteMatchedDelete PROVE WritesInv'
  <2> DEFINE id == deletes[1].id
  <2>1. /\ stage = "writing" /\ deletes # <<>> /\ UNCHANGED Unwritten
        /\ \/ /\ Took({id}) /\ deletes' = Remaining(deletes)
              /\ UNCHANGED <<updates, inserts, columns, unanswered>>
           \/ Took({id}) /\ AnswerLost({id})
           \/ Fails("gone") \/ Fails("refused")
    BY <1>6 DEF WriteMatchedDelete, Done, Answered
  <2>0. {id} \subseteq Pending
    BY <1>0, <2>1, TailIds, Alike DEF Pending
  <2>2. CASE /\ Took({id}) /\ deletes' = Remaining(deletes)
             /\ UNCHANGED <<updates, inserts, columns, unanswered>>
    <3>1. /\ DeletesOf(deletes') = DeletesOf(deletes) \ {id} /\ OneEach(deletes')
          /\ id \in DeletesOf(deletes)
      BY <1>0, <2>1, <2>2, TailIds, Alike
    <3> HIDE DEF id
    <3>2. written' = written \cup {id} /\ wrote' = wrote \cup {id}
      BY <2>2 DEF Took
    <3>3. {id} \subseteq Pending /\ Pending' \subseteq Pending
          /\ Pending \subseteq Pending' \cup (written' \cap wrote')
      BY <2>2, <3>1, <3>2 DEF Pending
    <3>4. NothingLost' /\ Attempted'
      BY <1>1, <2>1, <2>2, <3>3, TookAccounted
    <3>5. Distinct'
      BY <1>0, <2>2, <3>1, <3>2 DEF Distinct
    <3> QED
      BY <2>2, <3>4, <3>5, BegunKept
  <2> HIDE DEF id
  <2> QED
    BY <2>0, <2>1, <2>2, FailsAccounted, LostAccounted
<1> QED
  BY <1>2, <1>3, <1>4, <1>5, <1>6

\* The beginning and the end of :w, and other clients
LEMMA EndsAccounted ==
  ASSUME TypeInv, WritesInv,
         \/ WritePending \/ WriteDone \/ WriteFailed
         \/ \E t \in Tables, k \in Keys : OthersChange(t, k)
         \/ \E t \in Tables : OthersDrop(t)
  PROVE  WritesInv'
<1>1. CASE WritePending
  <2>1. /\ UNCHANGED <<edits, changes, written, dropped, unanswered>> /\ columns' = 0 /\ attempt' = Pending
    BY <1>1 DEF WritePending, memory, database
  <2>2. UNCHANGED <<deletes, updates, inserts, Pending>> /\ 1 .. columns' = {}
    BY <2>1 DEF edits, Pending
  <2> QED
    BY <2>1, <2>2 DEF WritesInv, NothingLost, Distinct, OneEach, Begun, Attempted
<1>2. CASE WriteDone \/ WriteFailed
  <2>1. /\ UNCHANGED <<edits, changes, written, dropped, unanswered>> /\ stage' = "no"
        /\ columns' = 0
    <3>1. CASE WriteDone
      <4>1. updates = <<>> /\ columns' = columns
        BY <3>1, WrittenOut DEF WriteDone
      <4>2. columns = 0
        BY <4>1 DEF TypeInv, WritingTyped
      <4> QED
        BY <3>1, <4>1, <4>2 DEF WriteDone, memory, database
    <3>2. CASE WriteFailed
      BY <3>2 DEF WriteFailed, memory, database
    <3> QED
      BY <1>2, <3>1, <3>2
  <2>2. UNCHANGED <<deletes, updates, inserts, Pending>> /\ 1 .. columns' = {}
    BY <2>1 DEF edits, Pending
  <2> QED
    BY <2>1, <2>2 DEF WritesInv, NothingLost, Distinct, OneEach, Begun, Attempted
<1>3. CASE \/ \E t \in Tables, k \in Keys : OthersChange(t, k)
           \/ \E t \in Tables : OthersDrop(t)
  <2>1. UNCHANGED <<edits, stage, columns, changes, written, dropped, attempt, wrote, unanswered>>
    BY <1>3 DEF OthersChange, OthersDrop, writing, attempts, memory
  <2> QED
    BY <2>1, StaysAccounted
<1> QED
  BY <1>1, <1>2, <1>3

LEMMA WritesStep == TypeInv /\ WritesInv /\ [Next]_vars => WritesInv'
<1>1. ASSUME TypeInv, WritesInv, Next PROVE WritesInv'
  BY <1>1, MovesAccounted, MarksAccounted, ChangesAccounted, WritesAccounted, EndsAccounted DEF Next
<1>2. ASSUME WritesInv, UNCHANGED vars PROVE WritesInv'
  <2>1. UNCHANGED <<edits, stage, columns, changes, written, dropped, attempt, wrote, unanswered>>
    BY <1>2 DEF vars, writing, attempts, memory, database
  <2> QED
    BY <1>2, <2>1, StaysAccounted
<1> QED
  BY <1>1, <1>2

-----------------------------------------------------------------------------
(* The results                                                             *)

THEOREM WritesInvariant == Spec => [](TypeInv /\ WritesInv)
BY TypeInit, TypeStep, WritesInit, WritesStep, PTL DEF Spec

\* Every change the user made is pending, written or dropped by something
\* the user did (NothingLost): however many statements of write_all the
\* database took before one failed, the others are still there.
THEOREM ChangesAreAccountedFor == Spec => []NothingLost
BY WritesInvariant, PTL DEF WritesInv

\* As many numbers as rows: no two rows are the same change.
LEMMA CountOfOneEach ==
  ASSUME NEW S, NEW list \in Seq(S), OneEach(list)
  PROVE  Cardinality(InsertsOf(list)) = Len(list)
<1> DEFINE N == 1 .. Len(list)
           f == [i \in N |-> list[i].id]
<1>1. Len(list) \in Nat /\ DOMAIN list = N
  OBVIOUS
<1>2. IsFiniteSet(N) /\ Cardinality(N) = Len(list)
  <2>1. IsFiniteSet(1 .. Len(list)) /\ Cardinality(1 .. Len(list)) = IF 1 > Len(list) THEN 0 ELSE Len(list) - 1 + 1
    BY <1>1, FS_Interval
  <2> QED
    BY <1>1, <2>1
<1>3. f \in Bijection(N, InsertsOf(list))
  <2>1. f \in [N -> InsertsOf(list)]
    BY <1>1 DEF InsertsOf
  <2>2. \A i, j \in N : f[i] = f[j] => i = j
    BY <1>1 DEF OneEach
  <2>3. \A id \in InsertsOf(list) : \E i \in N : f[i] = id
    BY <1>1 DEF InsertsOf
  <2> HIDE DEF f, N
  <2> QED
    BY <2>1, <2>2, <2>3 DEF Bijection, Injection, Surjection, IsInjective
<1>4. Cardinality(InsertsOf(list)) = Cardinality(N)
  <2>1. ExistsBijection(N, InsertsOf(list))
    BY <1>3 DEF ExistsBijection
  <2> HIDE DEF N
  <2> QED
    BY <1>2, <2>1, FS_Bijection
<1> QED
  BY <1>2, <1>4

\* An added row or a mark that was written is not pending any more, and no
\* added row is pending twice (WrittenOnce): write_all takes each off its
\* list with its statement, so :w after a failure writes none of them again,
\* but for what the database took when no answer arrived.
THEOREM NoneIsWrittenTwice == Spec => []WrittenOnce
<1>1. TypeInv /\ WritesInv => WrittenOnce
  BY CountOfOneEach DEF TypeInv, EditsTyped, WritesInv, Distinct, WrittenOnce
<1> QED
  BY <1>1, WritesInvariant, PTL

\* When :w says what it wrote, it wrote all that was pending when it began,
\* and nothing is pending any more (SaidIsWritten): write_pending comes to
\* its message only when no list has anything left.
THEOREM WhatIsSaidIsWritten == Spec => SaidIsWritten
<1>1. TypeInv /\ WritesInv /\ [Next]_vars => [SaidStep]_vars
  <2> SUFFICES ASSUME TypeInv, WritesInv, Next, stage = "writing", stage' = "no"
               PROVE  SaidStep
    BY DEF SaidStep
  <2>1. WriteDone
    BY DEF Next, SelectTable, Reselect, IdleLoad, LoadAgain, GoToTable, OpenLinked, Reload,
       ApplyFilters, ClearFilters, RunQuery, MoveCursor, MarkDelete, ClearMarks, Leave,
       StartEditing, EditViewed, CancelEdit, CommitEdit, NewRow, OpenRecord, CloseRecord,
       SaveAdded, SaveNew, SaveRow, WritePending, WriteInsert, WriteUpdate, WriteDeletes,
       WriteMatchedUpdate, WriteMatchedDelete, WriteFailed, Dismiss, OthersChange, OthersDrop,
       Fails, Answered, AnswerLost, Browsing, Listening, writing
  <2>2. Pending = {} /\ UNCHANGED edits
    BY <2>1 DEF WriteDone
  <2>3. Pending' = {}
    BY <2>2 DEF edits, Pending
  <2> QED
    BY <2>2, <2>3 DEF SaidStep, WritesInv, Attempted
<1> QED
  BY <1>1, WritesInvariant, PTL DEF Spec, SaidIsWritten

-----------------------------------------------------------------------------
(* Values are kept where they were opened, unless the editor was opened    *)
(* before a queued load was done.                                          *)

\* An open editor is the only modal, and what it was opened on, with no load
\* queued, is still what is under the cursor.
InPlace ==
  value.open /\ ~value.early =>
    /\ ~form.open /\ stage = "no" /\ ~pending
    /\ RowIsThere /\ value.row = RowHere /\ value.column = Column(column_index)
    /\ value.editable => ~results

OpenInv == InPlace /\ CommitsWhereOpened

LEMMA OpenInit == Init => OpenInv
BY DEF Init, OpenInv, InPlace, CommitsWhereOpened, NoValue

\* An editor is opened, or opened for more than a look.
LEMMA EditorInPlace ==
  ASSUME PlacesInv, NEW looking \in BOOLEAN, raw # <<>>, ~form.open, stage = "no",
         value' = Editor(looking), UNCHANGED <<form, stage, pending, grid>>
  PROVE  InPlace'
<1>1. RowIsThere
  <2>1. raw \in Seq(GridRows) /\ row_index \in Nat /\ row_index < Len(raw)
    BY DEF PlacesInv, TypeInv, GridTyped, Shown, CursorOnARow
  <2> QED
    BY <2>1 DEF RowIsThere
<1>2. UNCHANGED <<RowIsThere, RowHere, column_index, results>>
  BY DEF grid, RowIsThere, RowHere
<1>3. /\ value'.row = RowHere /\ value'.column = Column(column_index)
      /\ value'.early = pending
      /\ value'.editable => ~results
  BY DEF Editor, MayEdit
<1> QED
  BY <1>1, <1>2, <1>3 DEF InPlace

LEMMA OpenStep ==
  ASSUME PlacesInv, OpenInv, [Next]_vars
  PROVE  OpenInv'
<1> USE DEF OpenInv, CommitsWhereOpened
<1>1. CASE (\E looking \in BOOLEAN : StartEditing(looking)) \/ EditViewed
  <2>1. UNCHANGED <<form, stage, pending, grid, moved>> /\ ~form.open /\ stage = "no"
    BY <1>1 DEF StartEditing, EditViewed, Browsing, Listening, sidebar, writing, memory
  <2>2. value' = NoValue \/ \E looking \in BOOLEAN : raw # <<>> /\ value' = Editor(looking)
    BY <1>1 DEF StartEditing, EditViewed
  <2>3. ~NoValue.open
    BY DEF NoValue
  <2>4. CASE value' = NoValue
    BY <2>1, <2>3, <2>4 DEF InPlace
  <2>5. CASE \E looking \in BOOLEAN : raw # <<>> /\ value' = Editor(looking)
    BY <2>1, <2>5, EditorInPlace
  <2> QED
    BY <2>2, <2>1, <2>4, <2>5
<1>2. CASE CancelEdit
  BY <1>2 DEF CancelEdit, InPlace, NoValue, memory
<1>3. CASE CommitEdit
  <2>1. ~value'.open
    BY <1>3 DEF CommitEdit, NoValue
  <2>2. ~value.early =>
          /\ value.open /\ RowIsThere /\ value.row = RowHere /\ value.column = Column(column_index)
          /\ stage = "no" /\ RowHere = raw[row_index + 1] /\ ~results
    BY <1>3 DEF CommitEdit, InPlace, RowHere
  <2>3. ~value.early /\ headers /\ OnAddedRow => value.row.add = inserts[row_index + 1].id
    <3> SUFFICES ASSUME ~value.early, headers, OnAddedRow
                 PROVE  value.row.add = inserts[row_index + 1].id
      OBVIOUS
    <3>1. row_index + 1 \in DOMAIN inserts
      BY DEF OnAddedRow, PlacesInv, TypeInv, GridTyped, EditsTyped
    <3>2. raw[row_index + 1].add = inserts[row_index + 1].id
      BY <2>2, <3>1 DEF PlacesInv, Shown, AddedRowsOnTop
    <3> QED
      BY <2>2, <3>2
  <2>4. ~moved'
    <3>1. \/ UNCHANGED moved
          \/ /\ headers /\ OnAddedRow
             /\ moved' = (moved \/ (~value.early /\ (value.row.add # inserts[row_index + 1].id
                                                \/ value.column # Column(column_index))))
          \/ moved' = (moved \/ (~value.early /\ (value.row # RowHere
                                                \/ value.column # Column(column_index))))
      BY <1>3 DEF CommitEdit
    <3> QED
      BY <2>2, <2>3, <3>1
  <2> QED
    BY <2>1, <2>4 DEF InPlace
<1>4. CASE \/ \E i \in 0 .. Cardinality(Tables) - 1 : SelectTable(i)
           \/ \E m \in SUBSET Tables : Reselect(m)
           \/ IdleLoad
           \/ \E keep \in {"nothing", "cursor"} : LoadAgain(keep)
           \/ \E t \in Tables : GoToTable(t)
           \/ \E t \in Tables, f \in BOOLEAN : OpenLinked(t, f)
           \/ Reload
           \/ \E f \in BOOLEAN : ApplyFilters(f)
           \/ ClearFilters
           \/ \E t \in Tables \cup {NoTable} : RunQuery(t)
           \/ \E r \in 0 .. MaxChanges + Cardinality(Keys), c \in 0 .. LastColumn : MoveCursor(r, c)
           \/ MarkDelete \/ ClearMarks \/ Leave
           \/ NewRow \/ OpenRecord \/ CloseRecord
           \/ \E k \in Keys \cup {0} : SaveAdded(k) \/ SaveNew(k)
           \/ SaveRow
           \/ WritePending
           \/ WriteInsert \/ WriteUpdate \/ WriteDeletes \/ WriteMatchedUpdate \/ WriteMatchedDelete
           \/ WriteDone \/ WriteFailed
  <2>1. ~value.open \/ form.open \/ stage # "no" \/ pending
    BY <1>4 DEF SelectTable, Reselect, IdleLoad, LoadAgain, GoToTable, OpenLinked, Reload,
       ApplyFilters, ClearFilters, RunQuery, MoveCursor, MarkDelete, ClearMarks, Leave, NewRow,
       OpenRecord, CloseRecord, SaveAdded, SaveNew, SaveRow, WritePending, WriteInsert,
       WriteUpdate, WriteDeletes, WriteMatchedUpdate, WriteMatchedDelete, WriteDone, WriteFailed,
       Browsing, Listening
  <2>2. UNCHANGED <<value, moved>>
    BY <1>4 DEF SelectTable, Reselect, IdleLoad, LoadAgain, GoToTable, OpenLinked, Reload,
       ApplyFilters, ClearFilters, RunQuery, MoveCursor, MarkDelete, ClearMarks, Leave, NewRow,
       OpenRecord, CloseRecord, SaveAdded, SaveNew, SaveRow, WritePending, WriteInsert,
       WriteUpdate, WriteDeletes, WriteMatchedUpdate, WriteMatchedDelete, WriteDone, WriteFailed,
       Elsewhere, Unwritten, modals, memory
  <2> QED
    BY <2>1, <2>2 DEF InPlace
<1>5. CASE \/ Dismiss \/ UNCHANGED vars
           \/ \E t \in Tables, k \in Keys : OthersChange(t, k)
           \/ \E t \in Tables : OthersDrop(t)
  <2>1. UNCHANGED <<sidebar, grid, modals, stage, moved>>
    BY <1>5 DEF Dismiss, OthersChange, OthersDrop, writing, memory, vars
  <2>2. UNCHANGED <<value, form, stage, pending, RowIsThere, RowHere, column_index, results, moved>>
    BY <2>1 DEF sidebar, grid, modals, RowIsThere, RowHere
  <2> QED
    BY <2>2 DEF InPlace
<1> QED
  BY <1>1, <1>2, <1>3, <1>4, <1>5 DEF Next

\* A value is kept in the row and the column its editor was opened on
\* (CommitsWhereOpened), although commit_edit takes those of the cursor: the
\* editor keeps the keys to itself, and a load comes under it only if it was
\* queued when the editor was opened.  No constant is assumed: keys may come
\* before queued loads are done.
THEOREM ValuesStayInPlace == Spec => []CommitsWhereOpened
<1>1. PlacesInv /\ OpenInv /\ [Next]_vars => OpenInv'
  BY OpenStep
<1> QED
  BY PlacesInvariant, OpenInit, <1>1, PTL DEF Spec, OpenInv

-----------------------------------------------------------------------------
(* Changes are written where they were made, unless they are in doubt.     *)
(* Where the table of the cursor changes the changes are dropped, or are   *)
(* in doubt from then on.                                                  *)

\* A sidebar with tables has one under the cursor.
InSidebar == Sidebar # {} => table_index < Cardinality(Sidebar)

\* Once it is loaded, the grid has rows of the table of the cursor,
RowsHere ==
  ~pending /\ ~results /\ CurrentTable # NoTable =>
    \A i \in DOMAIN raw : raw[i].table = CurrentTable

\* and a record form opened then is of one of its rows.
FormHere ==
  form.open /\ ~form.early /\ (form.adds \/ form.at = 0) /\ CurrentTable # NoTable =>
    /\ form.row.table = CurrentTable
    /\ ~form.adds => form.row.key = form.identity.key

\* Marks and added rows, but those in doubt, were made in the table,
AddedIn(list, table, doubts) ==
  \A i \in DOMAIN list : list[i].id \in doubts \/ list[i].table = table

\* and each value in the row and the column it is pending for.
MadeIn(rows, table, doubts) ==
  \A i \in DOMAIN rows : \A j \in DOMAIN rows[i].columns :
    \/ rows[i].columns[j].id \in doubts
    \/ rows[i].columns[j].made =
         [table |-> table, key |-> rows[i].identity.key, column |-> rows[i].columns[j].column]

EditsHere ==
  CurrentTable # NoTable =>
    /\ AddedIn(deletes, CurrentTable, doubtful) /\ AddedIn(inserts, CurrentTable, doubtful)
    /\ MadeIn(updates, CurrentTable, doubtful)

HereInv == InSidebar /\ RowsHere /\ FormHere /\ EditsHere /\ OnlyDoubtfulGoAstray

\* What a step remembers
Doubts ==
  /\ doubtful \subseteq doubtful'
  /\ pending \/ form.early \/ value.early => Pending' \ Pending \subseteq doubtful'
  /\ Sidebar' # Sidebar /\ CurrentTable' # CurrentTable => Pending \cap Pending' \subseteq doubtful'

LEMMA NextDoubts == [Next]_vars => Doubts
<1>1. Next => Doubts
  BY DEF Next, Remember, Doubts
<1>2. UNCHANGED vars => UNCHANGED <<doubtful, Pending, Sidebar>>
  BY DEF vars, edits, sidebar, Pending, Sidebar, SidebarRows
<1> QED
  BY <1>1, <1>2 DEF Doubts

LEMMA RowsApart ==
  ASSUME NEW rows \in SUBSET Tables, NEW t \in rows, NEW u \in rows, Place(t) < Place(u)
  PROVE  RowOf(t, rows) < RowOf(u, rows)
<1> DEFINE Before(w) == {x \in rows : Place(x) < Place(w)}
<1>1. \A w \in rows : /\ IsFiniteSet(Before(w)) /\ Cardinality(Before(w)) \in Nat
                      /\ RowOf(w, rows) = Cardinality(Before(w))
  <2>1. IsFiniteSet(rows)
    BY ConstantsAssumption, FS_Subset
  <2> QED
    BY <2>1, FS_Subset, FS_CardinalityType DEF RowOf
<1>2. Place(t) \in Nat /\ Place(u) \in Nat /\ t \notin Before(t)
  BY PlaceOf
<1>3. Before(t) \cup {t} \subseteq Before(u)
  <2>1. \A x \in rows : Place(x) \in Nat
    BY PlaceOf
  <2>2. \A x \in Before(t) : Place(x) < Place(u)
    BY <1>2, <2>1
  <2> QED
    BY <2>2
<1> HIDE DEF Before
<1>4. Cardinality(Before(t) \cup {t}) = Cardinality(Before(t)) + 1
  BY <1>1, <1>2, FS_AddElement
<1>5. Cardinality(Before(t) \cup {t}) <= Cardinality(Before(u))
  BY <1>1, <1>3, FS_Subset
<1> QED
  BY <1>1, <1>4, <1>5

LEMMA TableAtRow ==
  ASSUME NEW rows \in SUBSET Tables, NEW t \in rows
  PROVE  TableAt(RowOf(t, rows), rows) = t
<1>1. \A u \in rows : RowOf(u, rows) \in Nat /\ Place(u) \in Nat /\ Order[Place(u)] = u
  <2> TAKE u \in rows
  <2>1. RowOf(u, rows) \in 0 .. Cardinality(rows) - 1 /\ Cardinality(rows) \in Nat
    BY RowOfTyped
  <2> QED
    BY <2>1, PlaceOf
<1>2. \A u \in rows : RowOf(u, rows) = RowOf(t, rows) => u = t
  <2> SUFFICES ASSUME NEW u \in rows, RowOf(u, rows) = RowOf(t, rows) PROVE u = t
    OBVIOUS
  <2>1. ~ (Place(u) < Place(t)) /\ ~ (Place(t) < Place(u))
    BY <1>1, RowsApart
  <2>2. Place(u) = Place(t)
    BY <1>1, <2>1
  <2> QED
    BY <1>1, <2>2
<1> QED
  BY <1>2 DEF TableAt

\* The table of the cursor is found where the cursor is.
LEMMA CurrentRow ==
  ASSUME SidebarTyped
  PROVE  /\ Sidebar \in SUBSET Tables /\ CurrentTable \in Sidebar \cup {NoTable}
         /\ CurrentTable # NoTable => RowOf(CurrentTable, Sidebar) = table_index
         /\ NoTable \notin Sidebar
<1> DEFINE at == {t \in Sidebar : RowOf(t, Sidebar) = table_index}
<1>1. Sidebar \in SUBSET Tables
  BY DEF Sidebar, SidebarRows, SidebarTyped
<1>2. CurrentTable = IF at = {} THEN NoTable ELSE CHOOSE t \in at : TRUE
  BY DEF TableAt, CurrentTable
<1>3. at # {} => (CHOOSE t \in at : TRUE) \in at
  OBVIOUS
<1> QED
  BY <1>1, <1>2, <1>3, NoTableAssumption

\* It depends on the list and the cursor only.
LEMMA SameCurrent == UNCHANGED <<Sidebar, table_index>> => UNCHANGED CurrentTable
BY DEF CurrentTable, TableAt, RowOf


\* The first table has the first row of the sidebar.
LEMMA FirstRow == Order[1] \in Tables /\ TableAt(0, Tables) = Order[1]
<1>1. Cardinality(Tables) \in Nat \ {0} /\ IsFiniteSet(Tables)
  BY ConstantsAssumption, FS_CardinalityType, FS_EmptySet
<1> DEFINE n == Cardinality(Tables)
           N == 1 .. n
<1>2. Order \in [N -> Tables] /\ Tables = ToSet(Order)
  BY ConstantsAssumption
<1>3. IsFiniteSet(N) /\ Cardinality(N) = n
  <2>1. IsFiniteSet(1 .. n) /\ Cardinality(1 .. n) = IF 1 > n THEN 0 ELSE n - 1 + 1
    BY <1>1, FS_Interval
  <2> QED
    BY <1>1, <2>1
<1>4. 1 \in N /\ N \subseteq Nat /\ \A k \in N : ~ (k < 1)
  BY <1>1
<1> HIDE DEF N
<1>5. Order \in Surjection(N, Tables)
  BY <1>2 DEF Surjection, ToSet
<1>6. Order \in Injection(N, Tables)
  BY <1>1, <1>3, <1>5, FS_SurjSameCardinalityImpliesInj
<1>7. \A k \in N : Order[k] = Order[1] => k = 1
  BY <1>4, <1>6 DEF Injection, IsInjective
<1>8. \A t \in Tables : Place(t) \in N /\ Order[Place(t)] = t
  <2> TAKE t \in Tables
  <2>1. DOMAIN Order = N
    BY <1>2
  <2>2. \E k \in N : Order[k] = t
    BY <1>2, <2>1 DEF ToSet
  <2> QED
    BY <2>1, <2>2 DEF Place
<1>9. Order[1] \in Tables /\ Place(Order[1]) = 1
  BY <1>2, <1>4, <1>7, <1>8
<1>10. {u \in Tables : Place(u) < Place(Order[1])} = {}
  BY <1>4, <1>8, <1>9
<1>11. RowOf(Order[1], Tables) = 0
  BY <1>9, <1>10, FS_EmptySet DEF RowOf
<1> QED
  BY <1>9, <1>11, TableAtRow

LEMMA HereInit == Init => HereInv
<1> SUFFICES ASSUME Init PROVE HereInv
  OBVIOUS
<1>1. /\ OnlyDoubtfulGoAstray /\ deletes = <<>> /\ updates = <<>> /\ inserts = <<>> /\ ~form.open
      /\ raw = TableRows(Order[1], FALSE) /\ Sidebar = Tables /\ table_index = 0
  BY DEF Init, OnlyDoubtfulGoAstray, NoForm, Sidebar, SidebarRows
<1>2. EditsHere
  <2>1. DOMAIN deletes = {} /\ DOMAIN updates = {} /\ DOMAIN inserts = {}
    BY <1>1
  <2> QED
    BY <2>1 DEF EditsHere, AddedIn, MadeIn
<1>3. RowsHere
  <2>1. Order[1] \in Tables /\ TableAt(0, Tables) = Order[1]
    BY FirstRow
  <2>2. CurrentTable = Order[1]
    BY <1>1, <2>1 DEF CurrentTable
  <2>3. \A k \in DOMAIN TableRows(Order[1], FALSE) : TableRows(Order[1], FALSE)[k].table = Order[1]
    BY DEF TableRows
  <2> QED
    BY <1>1, <2>2, <2>3 DEF RowsHere
<1>4. InSidebar
  <2>1. Cardinality(Tables) \in Nat \ {0}
    BY ConstantsAssumption, FS_CardinalityType, FS_EmptySet
  <2> QED
    BY <1>1, <2>1 DEF InSidebar
<1> QED
  BY <1>1, <1>2, <1>3, <1>4 DEF HereInv, FormHere


\* A load leaves rows of the table that was loaded.
LEMMA LoadHere ==
  ASSUME TypeInv, NEW table \in Tables, NEW filtered \in BOOLEAN, NEW added \in Seq(Inserts),
         NEW keep, NEW shows, Load(table, filtered, added, keep, shows)
  PROVE  \A i \in DOMAIN raw' : raw'[i].table = table
<1>1. CASE raw' = <<>>
  BY <1>1
<1>2. CASE raw' = AddedRows(table, added) \o TableRows(table, filtered)
  <2> DEFINE top   == AddedRows(table, added)
             below == TableRows(table, filtered)
  <2>1. top \in Seq(GridRows) /\ \A i \in DOMAIN top : top[i].table = table
    <3>1. /\ top \in Seq(GridRows) /\ Len(top) = Len(added)
          /\ \A i \in DOMAIN added : top[i] = [table |-> table, key |-> added[i].key, add |-> added[i].id]
      BY AddedRowsTyped
    <3>2. DOMAIN top = DOMAIN added
      BY <3>1
    <3>3. \A i \in DOMAIN added :
            [table |-> table, key |-> added[i].key, add |-> added[i].id].table = table
      OBVIOUS
    <3> QED
      BY <3>1, <3>2, <3>3
  <2>2. below \in Seq(GridRows) /\ \A i \in DOMAIN below : below[i].table = table
    <3>1. below \in Seq(GridRows)
      BY TableRowsTyped DEF TypeInv
    <3> QED
      BY <3>1 DEF TableRows
  <2> HIDE DEF top, below
  <2>3. /\ Len(top \o below) = Len(top) + Len(below) /\ top \o below \in Seq(GridRows)
        /\ \A i \in 1 .. Len(top) + Len(below) :
             (top \o below)[i] = IF i <= Len(top) THEN top[i] ELSE below[i - Len(top)]
    BY <2>1, <2>2, ConcatProperties
  <2> DEFINE all == top \o below
  <2> HIDE DEF all
  <2>4. \A i \in DOMAIN all :
          (i \in DOMAIN top /\ all[i] = top[i]) \/ (i - Len(top) \in DOMAIN below /\ all[i] = below[i - Len(top)])
    BY <2>1, <2>2, <2>3 DEF all
  <2>5. \A i \in DOMAIN all : all[i].table = table
    BY <2>1, <2>2, <2>4
  <2> QED
    BY <1>2, <2>5 DEF all, top, below
<1> QED
  BY <1>1, <1>2, NoTableAssumption DEF Load

-----------------------------------------------------------------------------
(* The rows of the lists                                                   *)

\* What a list has was in another list.
From(new, old) == \A i \in DOMAIN new : \E k \in DOMAIN old : new[i] = old[k]

LEMMA RemainingFrom ==
  ASSUME NEW S, NEW list \in Seq(S), list # <<>>
  PROVE  From(Remaining(list), list)
<1> DEFINE new == Tail(list)
<1>1. /\ DOMAIN new = 1 .. Len(list) - 1 /\ \A i \in 1 .. Len(list) - 1 : new[i] = list[i + 1]
      /\ DOMAIN list = 1 .. Len(list) /\ Len(list) \in Nat
  BY HeadTailProperties
<1> HIDE DEF new
<1>2. \A i \in DOMAIN new : i + 1 \in DOMAIN list /\ new[i] = list[i + 1]
  BY <1>1
<1>3. From(new, list)
  BY <1>2 DEF From
<1> QED
  BY <1>3 DEF new, Remaining

LEMMA RemoveFrom ==
  ASSUME NEW S, NEW list \in Seq(S), NEW at \in 1 .. Len(list)
  PROVE  From(RemoveAt(list, at), list)
<1> DEFINE new == RemoveAt(list, at)
<1>1. /\ DOMAIN new = 1 .. Len(list) - 1 /\ DOMAIN list = 1 .. Len(list) /\ Len(list) \in Nat
      /\ \A i \in 1 .. Len(list) - 1 : new[i] = IF i < at THEN list[i] ELSE list[i + 1]
  BY RemoveAtTyped
<1> HIDE DEF new
<1>2. \A i \in DOMAIN new : i \in DOMAIN list /\ i + 1 \in DOMAIN list
  BY <1>1
<1>3. \A i \in DOMAIN new : new[i] = list[i] \/ new[i] = list[i + 1]
  BY <1>1
<1>4. ASSUME NEW i \in DOMAIN new PROVE \E k \in DOMAIN list : new[i] = list[k]
  <2>1. CASE new[i] = list[i]
    BY <1>2, <2>1
  <2>2. CASE new[i] = list[i + 1]
    <3>1. i + 1 \in DOMAIN list
      BY <1>2
    <3> QED
      BY <2>2, <3>1
  <2> QED
    BY <1>3, <2>1, <2>2
<1> QED
  BY <1>4 DEF new, From

\* A value put among others
LEMMA PutFrom ==
  ASSUME NEW values \in Seq(Values), NEW v \in Values
  PROVE  \A i \in DOMAIN Put(values, v) :
           Put(values, v)[i] = v \/ \E k \in DOMAIN values : Put(values, v)[i] = values[k]
<1> DEFINE ats == {j \in DOMAIN values : values[j].column = v.column}
<1>1. CASE ats = {}
  <2> DEFINE new == Append(values, v)
  <2>1. /\ DOMAIN new = 1 .. Len(values) + 1 /\ new[Len(values) + 1] = v
        /\ \A i \in 1 .. Len(values) : new[i] = values[i]
        /\ DOMAIN values = 1 .. Len(values) /\ Len(values) \in Nat
    BY AppendProperties
  <2> HIDE DEF new
  <2>2. \A i \in DOMAIN new : new[i] = v \/ (i \in DOMAIN values /\ new[i] = values[i])
    BY <2>1
  <2>3. Put(values, v) = new
    BY <1>1 DEF Put, new
  <2> QED
    BY <2>2, <2>3
<1>2. CASE ats # {}
  <2> DEFINE new == [i \in DOMAIN values |-> IF i \in ats THEN v ELSE values[i]]
  <2>1. DOMAIN new = DOMAIN values /\ \A i \in DOMAIN values : new[i] = v \/ new[i] = values[i]
    OBVIOUS
  <2>2. Put(values, v) = new
    BY <1>2 DEF Put
  <2> HIDE DEF new
  <2> QED
    BY <2>1, <2>2
<1> QED
  BY <1>1, <1>2

LEMMA ReplacedPending ==
  ASSUME EditsTyped, NEW identity \in Identities, NEW v \in Values, v.id \notin UpdatesOf(updates)
  PROVE  v.id \in UpdatesOf(PutUpdate(identity, v))
BY PutUpdateIds, ReplacedTyped

\* A value kept in the row it was made in, or in doubt
LEMMA PutMadeIn ==
  ASSUME EditsTyped, NEW identity \in Identities, NEW v \in Values, NEW table, NEW doubts,
         MadeIn(updates, table, doubts),
         \/ v.id \in doubts
         \/ v.made = [table |-> table, key |-> identity.key, column |-> v.column]
  PROVE  MadeIn(PutUpdate(identity, v), table, doubts)
<1>0. updates \in Seq(Updates) /\ DOMAIN updates = 1 .. Len(updates) /\ Len(updates) \in Nat
  BY DEF EditsTyped
<1>1. CASE UpdateAt(identity) = 0
  <2> DEFINE row == [identity |-> identity, columns |-> <<v>>]
             new == Append(updates, row)
  <2>1. PutUpdate(identity, v) = new
    BY <1>1 DEF PutUpdate
  <2>2. /\ row.columns = <<v>> /\ row.identity = identity /\ DOMAIN <<v>> = {1} /\ <<v>>[1] = v
    OBVIOUS
  <2>3. row \in Updates
    <3>1. <<v>> \in Seq(Values)
      OBVIOUS
    <3> QED
      BY <3>1 DEF Updates
  <2> HIDE DEF row
  <2>4. /\ DOMAIN new = 1 .. Len(updates) + 1
        /\ \A i \in 1 .. Len(updates) : new[i] = updates[i]
        /\ new[Len(updates) + 1] = row
    BY <1>0, <2>3, AppendProperties
  <2> HIDE DEF new
  <2>5. \A i \in DOMAIN new : (i \in DOMAIN updates /\ new[i] = updates[i]) \/ new[i] = row
    BY <1>0, <2>4
  <2>6. MadeIn(new, table, doubts)
    BY <2>2, <2>5 DEF MadeIn
  <2> QED
    BY <2>1, <2>6
<1>2. CASE UpdateAt(identity) # 0
  <2> DEFINE at  == UpdateAt(identity)
             row == [updates[at] EXCEPT !.columns = Put(@, v)]
             new == [updates EXCEPT ![at] = row]
  <2>1. at \in DOMAIN updates /\ updates[at].identity = identity
    BY <1>0, <1>2, UpdateAtTyped
  <2>2. PutUpdate(identity, v) = new
    BY <1>2 DEF PutUpdate
  <2>3. updates[at] \in Updates
    BY <1>0, <2>1
  <2>4. updates[at].columns \in Seq(Values)
    BY <2>3 DEF Updates
  <2>5. row.columns = Put(updates[at].columns, v) /\ row.identity = identity
    BY <2>1, <2>3 DEF Updates
  <2>6. \A j \in DOMAIN row.columns :
          row.columns[j] = v \/ \E k \in DOMAIN updates[at].columns : row.columns[j] = updates[at].columns[k]
    BY <2>4, <2>5, PutFrom
  <2> HIDE DEF at, row
  <2>7. \A j \in DOMAIN row.columns :
          \/ row.columns[j].id \in doubts
          \/ row.columns[j].made = [table |-> table, key |-> row.identity.key, column |-> row.columns[j].column]
    BY <2>1, <2>5, <2>6 DEF MadeIn
  <2>8. DOMAIN new = DOMAIN updates /\ \A i \in DOMAIN updates : new[i] = IF i = at THEN row ELSE updates[i]
    OBVIOUS
  <2> HIDE DEF new
  <2>9. MadeIn(new, table, doubts)
    BY <2>7, <2>8 DEF MadeIn
  <2> QED
    BY <2>2, <2>9
<1> QED
  BY <1>1, <1>2

-----------------------------------------------------------------------------
(* Steps                                                                   *)

LEMMA LessDoubt ==
  ASSUME NEW table, NEW doubts, NEW more, doubts \subseteq more
  PROVE  /\ \A list : AddedIn(list, table, doubts) => AddedIn(list, table, more)
         /\ \A rows : MadeIn(rows, table, doubts) => MadeIn(rows, table, more)
BY DEF AddedIn, MadeIn

\* Where all that is pending is in doubt, it may be of any table.
LEMMA AllInDoubt ==
  ASSUME Pending' \subseteq doubtful'
  PROVE  EditsHere'
<1>1. \A i \in DOMAIN deletes' : deletes'[i].id \in Pending'
  BY DEF Pending, DeletesOf
<1>2. \A i \in DOMAIN inserts' : inserts'[i].id \in Pending'
  BY DEF Pending, InsertsOf
<1>3. \A i \in DOMAIN updates' : \A j \in DOMAIN updates'[i].columns : updates'[i].columns[j].id \in Pending'
  BY DEF Pending, UpdatesOf
<1> QED
  BY <1>1, <1>2, <1>3 DEF EditsHere, AddedIn, MadeIn

\* Some are dropped, the others stay: then the table of the cursor stays, or
\* they are in doubt.
LEMMA EditsHereKept ==
  ASSUME EditsHere, Doubts, Sidebar' = Sidebar => CurrentTable' = CurrentTable,
         deletes' \in {<<>>, deletes}, updates' \in {<<>>, updates}, inserts' \in {<<>>, inserts}
  PROVE  EditsHere'
<1>1. DOMAIN <<>> = {}
  OBVIOUS
<1>2. CASE CurrentTable' = CurrentTable
  <2>1. \A table, doubts : AddedIn(<<>>, table, doubts) /\ MadeIn(<<>>, table, doubts)
    BY <1>1 DEF AddedIn, MadeIn
  <2>2. CurrentTable # NoTable =>
          /\ AddedIn(deletes', CurrentTable, doubtful) /\ AddedIn(inserts', CurrentTable, doubtful)
          /\ MadeIn(updates', CurrentTable, doubtful)
    BY <2>1 DEF EditsHere
  <2>3. doubtful \subseteq doubtful'
    BY DEF Doubts
  <2> QED
    BY <1>2, <2>2, <2>3, LessDoubt DEF EditsHere
<1>3. CASE CurrentTable' # CurrentTable
  <2>1. /\ DeletesOf(deletes') \subseteq DeletesOf(deletes)
        /\ InsertsOf(inserts') \subseteq InsertsOf(inserts)
        /\ UpdatesOf(updates') \subseteq UpdatesOf(updates)
    <3>1. DeletesOf(<<>>) = {} /\ InsertsOf(<<>>) = {} /\ UpdatesOf(<<>>) = {}
      BY <1>1 DEF DeletesOf, InsertsOf, UpdatesOf
    <3> QED
      BY <3>1
  <2>2. Pending' \subseteq Pending
    BY <2>1 DEF Pending
  <2> QED
    BY <1>3, <2>2, AllInDoubt DEF Doubts
<1> QED
  BY <1>2, <1>3

LEMMA EditsGone ==
  ASSUME Forget
  PROVE  EditsHere'
<1>1. DOMAIN deletes' = {} /\ DOMAIN updates' = {} /\ DOMAIN inserts' = {}
  BY DEF Forget
<1> QED
  BY <1>1 DEF EditsHere, AddedIn, MadeIn

LEMMA LoadedHere ==
  ASSUME TypeInv, NEW table \in Tables \cup {NoTable}, NEW filtered \in BOOLEAN,
         NEW added \in Seq(Inserts), NEW keep, NEW shows, Load(table, filtered, added, keep, shows),
         CurrentTable' = table
  PROVE  RowsHere'
<1>1. table # NoTable => \A i \in DOMAIN raw' : raw'[i].table = table
  BY LoadHere
<1> QED
  BY <1>1 DEF RowsHere

\* The form stays, over its table or closed, and nothing goes astray.
LEMMA StaysHere ==
  ASSUME HereInv, Doubts, InSidebar', RowsHere', EditsHere', UNCHANGED astray,
         UNCHANGED <<form, CurrentTable>> \/ ~form'.open
  PROVE  HereInv'
<1>1. FormHere'
  BY DEF HereInv, FormHere
<1>2. OnlyDoubtfulGoAstray'
  BY DEF HereInv, OnlyDoubtfulGoAstray, Doubts
<1> QED
  BY <1>1, <1>2 DEF HereInv

\* What loads or selects a table
LEMMA MovesHere ==
  ASSUME TypeInv, HereInv, Doubts,
         \/ \E i \in 0 .. Cardinality(Tables) - 1 : SelectTable(i)
         \/ \E m \in SUBSET Tables : Reselect(m)
         \/ IdleLoad
         \/ \E keep \in {"nothing", "cursor"} : LoadAgain(keep)
         \/ \E t \in Tables : GoToTable(t)
         \/ \E t \in Tables, f \in BOOLEAN : OpenLinked(t, f)
         \/ Reload
         \/ \E f \in BOOLEAN : ApplyFilters(f)
         \/ ClearFilters
         \/ \E t \in Tables \cup {NoTable} : RunQuery(t)
  PROVE  HereInv'
<1> USE DEF HereInv
<1>0. /\ CurrentTable \in Tables \cup {NoTable} /\ filters \in BOOLEAN
      /\ inserts \in Seq(Inserts) /\ <<>> \in Seq(Inserts)
      /\ tables \in SUBSET Tables /\ matched \in SUBSET Tables /\ existing \in SUBSET Tables
      /\ table_index \in Nat /\ Sidebar \in SUBSET Tables
  <2>1. /\ CurrentTable \in Tables \cup {NoTable} /\ filters \in BOOLEAN
        /\ inserts \in Seq(Inserts) /\ <<>> \in Seq(Inserts)
        /\ tables \in SUBSET Tables /\ matched \in SUBSET Tables /\ existing \in SUBSET Tables
    BY CurrentTyped, EmptySeq DEF TypeInv, EditsTyped, SidebarTyped, DatabaseTyped
  <2>2. table_index \in Nat
    BY DEF TypeInv, SidebarTyped
  <2> QED
    BY <2>1, <2>2, CurrentRow DEF TypeInv
<1>1. ASSUME UNCHANGED Elsewhere PROVE UNCHANGED <<existing, tables, form, astray>>
  BY <1>1 DEF Elsewhere, database, modals
<1>2. ASSUME UNCHANGED <<tables, matched, table_index>>
      PROVE  InSidebar' /\ UNCHANGED <<Sidebar, CurrentTable>>
  <2>1. Sidebar' = Sidebar
    BY <1>2 DEF Sidebar, SidebarRows
  <2> QED
    BY <1>2, <2>1, SameCurrent DEF InSidebar
\* The place of a table in the list it is in
<1>3. ASSUME NEW rows \in SUBSET Tables, NEW t \in rows, Sidebar' = rows, table_index' = RowOf(t, rows)
      PROVE  /\ InSidebar' /\ CurrentTable' = t
             /\ rows = Sidebar /\ table_index' = table_index => CurrentTable' = CurrentTable
  <2>1. RowOf(t, rows) \in 0 .. Cardinality(rows) - 1 /\ Cardinality(rows) \in Nat
    BY RowOfTyped
  <2>2. InSidebar'
    BY <1>3, <2>1 DEF InSidebar
  <2>3. CurrentTable' = TableAt(table_index', Sidebar')
    BY DEF CurrentTable
  <2> QED
    BY <1>3, <2>2, <2>3, TableAtRow, SameCurrent
<1>4. ASSUME NEW i \in 0 .. Cardinality(Tables) - 1, SelectTable(i) PROVE HereInv'
  <2>1. pending' /\ Forget /\ ~form.open /\ UNCHANGED <<matched, Elsewhere>>
        /\ i < Cardinality(Sidebar) /\ table_index' = i
    BY <1>4 DEF SelectTable, Browsing
  <2>2. Sidebar' = Sidebar
    BY <1>1, <2>1 DEF Sidebar, SidebarRows
  <2>3. InSidebar'
    BY <2>1, <2>2 DEF InSidebar
  <2> QED
    BY <2>1, <2>3, <1>1, StaysHere, EditsGone DEF RowsHere
<1>5. ASSUME NEW m \in SUBSET Tables, Reselect(m) PROVE HereInv'
  <2> DEFINE rows  == SidebarRows(tables, m)
             index == Nearest(table_index, Cardinality(rows))
  <2>1. /\ ~form.open /\ matched' = m /\ UNCHANGED <<raw, results, Elsewhere>>
        /\ \/ rows = {} /\ UNCHANGED <<table_index, pending, edits>>
           \/ /\ rows # {} /\ table_index' = index /\ pending'
              /\ \/ deletes' = <<>> /\ UNCHANGED <<updates, inserts>>
                 \/ Forget
    BY <1>5 DEF Reselect, Browsing, grid
  <2>2. Sidebar' = rows /\ rows \in SUBSET Tables
    BY <1>0, <1>1, <2>1 DEF Sidebar, SidebarRows
  <2>3. Cardinality(rows) \in Nat /\ (rows # {} => Cardinality(rows) # 0)
    BY <2>2, ConstantsAssumption, FS_Subset, FS_CardinalityType, FS_EmptySet
  <2> HIDE DEF rows
  <2>4. CASE rows = {}
    <3>1. UNCHANGED <<table_index, pending, edits>>
      BY <2>1, <2>4
    <3>2. CurrentTable' = NoTable
      BY <2>2, <2>4 DEF CurrentTable, TableAt
    <3>3. InSidebar' /\ RowsHere'
      BY <2>2, <2>4, <3>2 DEF InSidebar, RowsHere
    <3>4. EditsHere'
      BY <3>2 DEF EditsHere
    <3> QED
      BY <2>1, <3>3, <3>4, <1>1, StaysHere
  <2>5. CASE rows # {}
    <3>1. /\ pending' /\ table_index' = index
          /\ (deletes' = <<>> /\ UNCHANGED <<updates, inserts>>) \/ Forget
      BY <2>1, <2>5
    <3>2. InSidebar' /\ RowsHere'
      BY <1>0, <2>2, <2>3, <2>5, <3>1 DEF InSidebar, RowsHere, Nearest, Least
    <3>3. Sidebar' = Sidebar => CurrentTable' = CurrentTable
      <4> SUFFICES ASSUME Sidebar' = Sidebar PROVE CurrentTable' = CurrentTable
        OBVIOUS
      <4>1. table_index < Cardinality(rows)
        BY <2>2, <2>5 DEF InSidebar
      <4>2. table_index' = table_index
        BY <1>0, <2>3, <3>1, <4>1 DEF Nearest, Least
      <4> QED
        BY <4>2, SameCurrent
    <3>4. EditsHere'
      BY <3>1, <3>3, EditsHereKept, EditsGone
    <3> QED
      BY <2>1, <3>2, <3>4, <1>1, StaysHere
  <2> QED
    BY <2>4, <2>5
<1>6. ASSUME NEW keep, NEW f \in BOOLEAN, Load(CurrentTable, f, inserts, keep, results),
             deletes' \in {<<>>, deletes}, updates' \in {<<>>, updates}, inserts' \in {<<>>, inserts},
             UNCHANGED <<matched, table_index, Elsewhere>>
      PROVE  HereInv'
  <2>1. InSidebar' /\ UNCHANGED <<CurrentTable, form, astray>>
    BY <1>1, <1>2, <1>6
  <2>2. RowsHere'
    BY <1>0, <1>6, <2>1, LoadedHere
  <2>3. EditsHere'
    BY <1>6, <2>1, EditsHereKept
  <2> QED
    BY <2>1, <2>2, <2>3, StaysHere
<1>7. CASE IdleLoad \/ (\E keep \in {"nothing", "cursor"} : LoadAgain(keep))
  BY <1>0, <1>6, <1>7 DEF IdleLoad, LoadAgain, edits
<1>8. CASE (\E f \in BOOLEAN : ApplyFilters(f)) \/ ClearFilters
  BY <1>6, <1>8 DEF ApplyFilters, ClearFilters, edits
<1>9. ASSUME NEW t \in Tables, GoToTable(t) PROVE HereInv'
  <2>1. ~form.open /\ matched' = Tables /\ UNCHANGED Elsewhere /\ t \in tables
        /\ table_index' = RowOf(t, SidebarRows(tables, Tables))
    BY <1>9 DEF GoToTable, Browsing
  <2>2. SidebarRows(tables, Tables) = tables /\ Sidebar' = tables
    BY <1>0, <1>1, <2>1 DEF Sidebar, SidebarRows
  <2>3. /\ InSidebar' /\ CurrentTable' = t
        /\ tables = Sidebar /\ table_index' = table_index => CurrentTable' = CurrentTable
    BY <1>0, <1>3, <2>1, <2>2
  <2>4. CASE table_index' = table_index
    <3>1. Load(t, filters, inserts, "nothing", FALSE) /\ UNCHANGED edits
      BY <1>9, <2>4 DEF GoToTable
    <3>2. RowsHere'
      BY <1>0, <2>3, <3>1, LoadedHere
    <3>3. EditsHere'
      BY <2>2, <2>3, <2>4, <3>1, EditsHereKept DEF edits
    <3> QED
      BY <1>1, <2>1, <2>3, <3>2, <3>3, StaysHere
  <2>5. CASE table_index' # table_index
    <3>1. pending' /\ Forget
      BY <1>9, <2>5 DEF GoToTable
    <3> QED
      BY <1>1, <2>1, <2>3, <3>1, EditsGone, StaysHere DEF RowsHere
  <2> QED
    BY <2>4, <2>5
\* A table that is revealed is in the list.
<1>10. ASSUME NEW t \in tables, matched' = Revealed(t), UNCHANGED tables,
              table_index' = RowOf(t, SidebarRows(tables, matched'))
       PROVE  /\ InSidebar' /\ CurrentTable' = t
              /\ Sidebar' = Sidebar /\ table_index' = table_index => CurrentTable' = CurrentTable
  <2> DEFINE rows == SidebarRows(tables, matched')
  <2>1. Sidebar' = rows
    BY <1>10 DEF Sidebar
  <2>2. rows \in SUBSET Tables /\ t \in rows
    BY <1>0, <1>10 DEF Revealed, Sidebar, SidebarRows
  <2> HIDE DEF rows
  <2>3. table_index' = RowOf(t, rows)
    BY <1>10 DEF rows
  <2> QED
    BY <1>3, <2>1, <2>2, <2>3
<1>11. ASSUME NEW t \in Tables, NEW f \in BOOLEAN, OpenLinked(t, f) PROVE HereInv'
  <2>1. ~form.open /\ t \in tables /\ matched' = Revealed(t) /\ UNCHANGED Elsewhere /\ Forget
        /\ table_index' = RowOf(t, SidebarRows(tables, matched'))
        /\ Load(t, f, <<>>, "nothing", results)
    BY <1>11 DEF OpenLinked, Browsing
  <2>2. InSidebar' /\ CurrentTable' = t /\ UNCHANGED <<form, astray>>
    BY <1>1, <1>10, <2>1
  <2>3. RowsHere'
    BY <1>0, <2>1, <2>2, LoadedHere
  <2> QED
    BY <2>1, <2>2, <2>3, EditsGone, StaysHere
<1>12. CASE Reload
  <2> DEFINE rows  == SidebarRows(existing, matched)
             found == RowOf(CurrentTable, rows)
             last  == IF rows = {} THEN 0 ELSE Cardinality(rows) - 1
             listed == /\ tables' = existing
                       /\ table_index' = IF found < Cardinality(rows) THEN found
                                         ELSE Least(table_index, last)
                       /\ Load(TableAt(table_index', rows), filters, inserts, "cursor", results)
             refused == UNCHANGED <<tables, table_index, pending, grid>>
  <2>1. ~form.open /\ (listed \/ refused) /\ UNCHANGED <<matched, form, edits, astray>>
    BY <1>12 DEF Reload, Browsing, modals, memory
  <2>2. CASE refused
    <3>1. InSidebar' /\ UNCHANGED <<CurrentTable, pending, raw, results>>
      BY <1>2, <2>1, <2>2 DEF grid
    <3>2. RowsHere'
      BY <3>1 DEF RowsHere
    <3>3. EditsHere'
      BY <2>1, <3>1, EditsHereKept DEF edits
    <3> QED
      BY <2>1, <3>1, <3>2, <3>3, StaysHere
  <2>3. CASE listed
    <3>1. Sidebar' = rows /\ rows \in SUBSET Tables
      BY <1>0, <2>1, <2>3 DEF Sidebar, SidebarRows
    <3>2. Cardinality(rows) \in Nat /\ (rows # {} => Cardinality(rows) # 0)
      BY <3>1, ConstantsAssumption, FS_Subset, FS_CardinalityType, FS_EmptySet
    <3>3. IF CurrentTable \in rows THEN found < Cardinality(rows) /\ found \in Nat
          ELSE found = Cardinality(rows)
      <4>1. CASE CurrentTable \in rows
        BY <3>1, <4>1, RowOfTyped
      <4>2. CASE CurrentTable \notin rows
        BY <4>2 DEF RowOf
      <4> QED
        BY <4>1, <4>2
    <3>4. /\ table_index' = IF found < Cardinality(rows) THEN found ELSE Least(table_index, last)
          /\ Load(TableAt(table_index', rows), filters, inserts, "cursor", results)
      BY <2>3
    <3> HIDE DEF listed, rows, found
    <3>5. InSidebar'
      BY <1>0, <3>1, <3>2, <3>3, <3>4 DEF InSidebar, Least
    <3>6. CurrentTable' = TableAt(table_index', rows)
      BY <3>1 DEF CurrentTable
    <3>7. TableAt(table_index', rows) \in Tables \cup {NoTable}
      BY <3>1, TableAtTyped
    <3>8. RowsHere'
      BY <1>0, <3>4, <3>6, <3>7, LoadedHere
    <3>9. Sidebar' = Sidebar => CurrentTable' = CurrentTable
      <4> SUFFICES ASSUME rows = Sidebar PROVE CurrentTable' = CurrentTable
        BY <3>1
      <4>1. /\ CurrentTable \in Sidebar \cup {NoTable} /\ NoTable \notin Sidebar
            /\ CurrentTable # NoTable => found = table_index
        BY CurrentRow DEF TypeInv, found
      <4>2. CASE CurrentTable # NoTable
        BY <3>1, <3>3, <3>4, <4>1, <4>2, SameCurrent
      <4>3. CASE CurrentTable = NoTable /\ rows = {}
        BY <3>6, <4>3 DEF TableAt
      <4>4. CASE CurrentTable = NoTable /\ rows # {}
        <5>1. table_index < Cardinality(rows) /\ found = Cardinality(rows)
          BY <3>3, <4>1, <4>4 DEF InSidebar
        <5>2. table_index' = table_index
          BY <1>0, <3>2, <3>4, <4>4, <5>1 DEF Least
        <5> QED
          BY <3>1, <5>2, SameCurrent
      <4> QED
        BY <4>2, <4>3, <4>4
    <3>10. EditsHere'
      BY <2>1, <3>9, EditsHereKept DEF edits
    <3> QED
      BY <2>1, <3>5, <3>8, <3>10, StaysHere
  <2> HIDE DEF listed, refused
  <2> QED
    BY <2>1, <2>2, <2>3
<1>13. ASSUME NEW t \in Tables \cup {NoTable}, RunQuery(t) PROVE HereInv'
  <2>1. ~form.open /\ results' /\ UNCHANGED Elsewhere /\ t \in tables \cup {NoTable}
    BY <1>13 DEF RunQuery, Browsing
  <2>2. RowsHere' /\ UNCHANGED <<form, astray, tables>>
    BY <1>1, <2>1 DEF RowsHere
  <2>3. CASE t = NoTable
    <3>1. UNCHANGED <<matched, table_index, edits>>
      BY <1>13, <2>3 DEF RunQuery
    <3>2. InSidebar' /\ UNCHANGED CurrentTable
      BY <1>2, <2>2, <3>1
    <3>3. EditsHere'
      BY <3>1, <3>2, EditsHereKept DEF edits
    <3> QED
      BY <2>1, <2>2, <3>2, <3>3, StaysHere
  <2>4. CASE t # NoTable
    <3>1. /\ matched' = Revealed(t) /\ table_index' = RowOf(t, SidebarRows(tables, matched'))
          /\ IF table_index' = table_index THEN UNCHANGED edits ELSE Forget
      BY <1>13, <2>4 DEF RunQuery
    <3>2. /\ InSidebar'
          /\ Sidebar' = Sidebar /\ table_index' = table_index => CurrentTable' = CurrentTable
      BY <1>10, <2>1, <2>2, <2>4, <3>1
    <3>3. EditsHere'
      BY <3>1, <3>2, EditsHereKept, EditsGone DEF edits
    <3> QED
      BY <2>1, <2>2, <3>2, <3>3, StaysHere
  <2> QED
    BY <2>3, <2>4
<1> QED
  BY <1>4, <1>5, <1>7, <1>8, <1>9, <1>11, <1>12, <1>13


\* Where no load is queued the row of the cursor is one of the table.
LEMMA RowHereIs ==
  ASSUME HereInv, ~pending, ~results, RowIsThere, CurrentTable # NoTable
  PROVE  RowHere.table = CurrentTable
BY DEF HereInv, RowsHere, RowHere, RowIsThere

\* The sidebar and the rows stay.
LEMMA GridHere ==
  ASSUME HereInv, UNCHANGED <<sidebar, raw, results>>
  PROVE  InSidebar' /\ RowsHere' /\ UNCHANGED CurrentTable
<1>1. UNCHANGED <<Sidebar, table_index, pending>>
  BY DEF sidebar, Sidebar, SidebarRows
<1>2. UNCHANGED CurrentTable
  BY <1>1, SameCurrent
<1> QED
  BY <1>1, <1>2 DEF HereInv, InSidebar, RowsHere

\* Marks
LEMMA MarksHere ==
  ASSUME PlacesInv, WritesInv, HereInv, Doubts,
         \/ \E r \in 0 .. MaxChanges + Cardinality(Keys), c \in 0 .. LastColumn : MoveCursor(r, c)
         \/ MarkDelete \/ ClearMarks \/ Leave
  PROVE  HereInv'
<1>0. InSidebar /\ EditsHere /\ TypeInv
  BY DEF HereInv, PlacesInv
<1>3. CASE \E r \in 0 .. MaxChanges + Cardinality(Keys), c \in 0 .. LastColumn : MoveCursor(r, c)
  <2>1. UNCHANGED <<sidebar, raw, results, form, deletes, updates, inserts, astray>>
    BY <1>3 DEF MoveCursor, modals, memory, edits
  <2>2. InSidebar' /\ RowsHere' /\ UNCHANGED CurrentTable
    BY <2>1, GridHere
  <2>3. EditsHere'
    BY <1>0, <2>1, <2>2, EditsHereKept
  <2> QED
    BY <2>1, <2>2, <2>3, StaysHere
<1>4. CASE MarkDelete
  <2> DEFINE at   == SelectInSeq(deletes, LAMBDA mark : mark.identity = Identity)
             mark == [id |-> changes', identity |-> Identity, table |-> RowHere.table]
  <2>1. UNCHANGED <<sidebar, raw, results, form, updates, inserts, astray>>
    BY <1>4 DEF MarkDelete, modals
  <2>2. InSidebar' /\ RowsHere' /\ UNCHANGED CurrentTable
    BY <2>1, GridHere
  <2>3. \/ at # 0 /\ deletes' = RemoveAt(deletes, at)
        \/ changes' = changes + 1 /\ deletes' = Append(deletes, mark)
    BY <1>4 DEF MarkDelete
  <2>4. deletes \in Seq(Marks) /\ mark.table = RowHere.table /\ mark.id = changes'
    BY <1>0 DEF TypeInv, EditsTyped
  <2>5. CurrentTable # NoTable => AddedIn(deletes', CurrentTable, doubtful')
    <3> SUFFICES ASSUME CurrentTable # NoTable PROVE AddedIn(deletes', CurrentTable, doubtful')
      OBVIOUS
    <3>1. AddedIn(deletes, CurrentTable, doubtful')
      BY <1>0, LessDoubt DEF EditsHere, Doubts
    <3>2. CASE at # 0 /\ deletes' = RemoveAt(deletes, at)
      <4>0. at = MarkAt(deletes, Identity)
        BY DEF MarkAt, SelectInSeq
      <4>1. at \in 1 .. Len(deletes)
        BY <2>4, <3>2, <4>0, MarkTyped
      <4>2. From(deletes', deletes)
        BY <2>4, <3>2, <4>1, RemoveFrom
      <4> QED
        BY <3>1, <4>2 DEF From, AddedIn
    <3>3. CASE changes' = changes + 1 /\ deletes' = Append(deletes, mark)
      <4>1. mark.id \notin Pending
        BY <1>0, <2>4, <3>3, Fresh DEF WritesInv
      <4>2. ~pending => mark.table = CurrentTable
        BY <1>4, <2>4, RowHereIs DEF MarkDelete
      <4> HIDE DEF mark
      <4>3. mark \in {mark} \cup Marks /\ deletes \in Seq({mark} \cup Marks)
        BY <2>4
      <4>4. /\ DOMAIN deletes' = 1 .. Len(deletes) + 1 /\ deletes'[Len(deletes) + 1] = mark
            /\ \A i \in 1 .. Len(deletes) : deletes'[i] = deletes[i]
            /\ DOMAIN deletes = 1 .. Len(deletes) /\ Len(deletes) \in Nat
        BY <3>3, <4>3, AppendProperties
      <4>5. \A i \in DOMAIN deletes' : deletes'[i] = mark \/ (i \in DOMAIN deletes /\ deletes'[i] = deletes[i])
        BY <4>4
      <4>6. mark.id \in Pending'
        <5>1. Len(deletes) + 1 \in DOMAIN deletes'
          BY <4>4
        <5> QED
          BY <4>4, <5>1 DEF Pending, DeletesOf
      <4>7. mark.id \in doubtful' \/ mark.table = CurrentTable
        BY <4>1, <4>2, <4>6 DEF Doubts
      <4> QED
        BY <3>1, <4>5, <4>7 DEF AddedIn
    <3> QED
      BY <2>3, <3>2, <3>3
  <2>6. EditsHere'
    BY <1>0, <2>1, <2>2, <2>5, LessDoubt DEF EditsHere, Doubts
  <2> QED
    BY <2>1, <2>2, <2>6, StaysHere
<1>5. CASE ClearMarks
  <2>1. ~form.open /\ Forget /\ UNCHANGED <<tables, matched, table_index, form, astray>>
    BY <1>5 DEF ClearMarks, Browsing, Elsewhere, modals
  <2>2. UNCHANGED <<Sidebar, CurrentTable>>
    BY <2>1, SameCurrent DEF Sidebar, SidebarRows
  <2>3. UNCHANGED <<pending, grid>> \/ Load(CurrentTable, filters, <<>>, "cursor", results)
    BY <1>5 DEF ClearMarks
  <2>4. RowsHere'
    <3>1. CASE UNCHANGED <<pending, grid>>
      BY <2>2, <3>1 DEF HereInv, RowsHere, grid
    <3>2. CASE Load(CurrentTable, filters, <<>>, "cursor", results)
      <4>1. CurrentTable \in Tables \cup {NoTable} /\ filters \in BOOLEAN /\ <<>> \in Seq(Inserts)
        BY <1>0, CurrentTyped, EmptySeq DEF TypeInv, SidebarTyped
      <4> QED
        BY <1>0, <2>2, <3>2, <4>1, LoadedHere
    <3> QED
      BY <2>3, <3>1, <3>2
  <2>5. InSidebar'
    BY <1>0, <2>1, <2>2 DEF InSidebar
  <2> QED
    BY <2>1, <2>2, <2>4, <2>5, EditsGone, StaysHere
<1>6. CASE Leave
  <2>1. Forget /\ UNCHANGED <<sidebar, raw, results, form, astray>>
    BY <1>6 DEF Leave, Elsewhere, grid, modals
  <2> QED
    BY <2>1, GridHere, EditsGone, StaysHere
<1> QED
  BY <1>3, <1>4, <1>5, <1>6

\* A row that gets another key stays in its table.
LEMMA RekeyHere ==
  ASSUME NEW S \in {GridRows, Inserts}, NEW rows \in Seq(S), NEW i, NEW key, NEW new,
         new = [rows EXCEPT ![i].key = key]
  PROVE  /\ DOMAIN new = DOMAIN rows /\ \A j \in DOMAIN rows : new[j].table = rows[j].table
         /\ S = Inserts => \A j \in DOMAIN rows : new[j].id = rows[j].id
<1>1. DOMAIN new = DOMAIN rows /\ \A j \in DOMAIN rows : new[j] = rows[j] \/ new[j] = [rows[j] EXCEPT !.key = key]
  OBVIOUS
<1>2. \A row \in S : [row EXCEPT !.key = key].table = row.table
  BY DEF GridRows, Inserts
<1>3. \A row \in Inserts : [row EXCEPT !.key = key].id = row.id
  BY DEF Inserts
<1>4. \A j \in DOMAIN rows : rows[j] \in S
  OBVIOUS
<1> QED
  BY <1>1, <1>2, <1>3, <1>4

\* A value kept in the row it was made in, or in doubt
LEMMA ChangedHere ==
  ASSUME TypeInv, WritesInv, EditsHere, Doubts, NEW identity \in Identities, NEW v \in Values,
         changes' = changes + 1, v.id = changes',
         updates' = PutUpdate(identity, v), UNCHANGED <<deletes, inserts, CurrentTable>>,
         CurrentTable # NoTable =>
           \/ pending \/ form.early \/ value.early
           \/ v.made = [table |-> CurrentTable, key |-> identity.key, column |-> v.column]
  PROVE  EditsHere'
<1>1. v.id \notin Pending /\ EditsTyped
  BY Fresh DEF WritesInv, TypeInv
<1>2. v.id \in Pending'
  <2>1. v.id \in UpdatesOf(updates')
    BY <1>1, ReplacedPending DEF Pending
  <2> QED
    BY <2>1 DEF Pending
<1>3. CurrentTable # NoTable =>
        /\ AddedIn(deletes, CurrentTable, doubtful') /\ AddedIn(inserts, CurrentTable, doubtful')
        /\ MadeIn(updates, CurrentTable, doubtful')
  BY LessDoubt DEF EditsHere, Doubts
<1>4. CurrentTable # NoTable =>
        v.id \in doubtful' \/ v.made = [table |-> CurrentTable, key |-> identity.key, column |-> v.column]
  BY <1>1, <1>2 DEF Doubts
<1>5. CurrentTable # NoTable => MadeIn(updates', CurrentTable, doubtful')
  BY <1>1, <1>3, <1>4, PutMadeIn
<1> QED
  BY <1>3, <1>5 DEF EditsHere

\* The value editor
LEMMA EditorHere ==
  ASSUME PlacesInv, WritesInv, OpenInv, HereInv, Doubts,
         \/ \E looking \in BOOLEAN : StartEditing(looking)
         \/ EditViewed \/ CancelEdit \/ CommitEdit
  PROVE  HereInv'
<1>0. TypeInv /\ EditsHere
  BY DEF PlacesInv, HereInv
<1>1. UNCHANGED <<sidebar, results, form, astray, deletes>>
  BY DEF StartEditing, EditViewed, CancelEdit, CommitEdit, sidebar, grid, edits, memory
<1>2. UNCHANGED CurrentTable
  BY <1>1, CurrentKept
<1>3. CASE (\E looking \in BOOLEAN : StartEditing(looking)) \/ EditViewed \/ CancelEdit
  <2>1. UNCHANGED <<raw, updates, inserts>>
    BY <1>3 DEF StartEditing, EditViewed, CancelEdit, grid, edits
  <2> QED
    BY <1>0, <1>1, <1>2, <2>1, GridHere, EditsHereKept, StaysHere
<1>4. CASE CommitEdit
  <2> DEFINE column   == Column(column_index)
             identity == IF RowIsThere THEN Identity ELSE NoKey
             change(to) == [id |-> changes', column |-> column, to |-> to,
                            made |-> [table |-> value.row.table, key |-> value.row.key,
                                      column |-> value.column]]
  <2>0. /\ updates \in Seq(Updates) /\ inserts \in Seq(Inserts) /\ raw \in Seq(GridRows)
        /\ EditsTyped /\ GridTyped /\ ModalsTyped /\ MemoryTyped
    BY <1>0 DEF TypeInv, EditsTyped, GridTyped
  <2>2. ~value.early => RowIsThere /\ value.row = RowHere /\ value.column = column /\ ~pending /\ ~results
    BY <1>4 DEF CommitEdit, OpenInv, InPlace
  <2>3. \/ UNCHANGED <<raw, updates, inserts>>
        \/ /\ \E key : /\ inserts' = [inserts EXCEPT ![row_index + 1].key = key]
                       /\ raw' = [raw EXCEPT ![row_index + 1].key = key]
           /\ UNCHANGED updates
        \/ /\ changes < MaxChanges /\ changes' = changes + 1
           /\ \E to \in Typed(column) : updates' = PutUpdate(identity, change(to))
           /\ UNCHANGED <<raw, inserts>>
    BY <1>4 DEF CommitEdit
  <2>4. CASE UNCHANGED <<raw, updates, inserts>>
    BY <1>0, <1>1, <1>2, <2>4, GridHere, EditsHereKept, StaysHere
  <2>5. CASE /\ \E key : /\ inserts' = [inserts EXCEPT ![row_index + 1].key = key]
                         /\ raw' = [raw EXCEPT ![row_index + 1].key = key]
             /\ UNCHANGED updates
    <3>1. /\ DOMAIN raw' = DOMAIN raw /\ \A j \in DOMAIN raw : raw'[j].table = raw[j].table
          /\ DOMAIN inserts' = DOMAIN inserts
          /\ \A j \in DOMAIN inserts : inserts'[j].table = inserts[j].table /\ inserts'[j].id = inserts[j].id
      BY <2>0, <2>5, RekeyHere
    <3>2. UNCHANGED <<Sidebar, table_index, pending>>
      BY <1>1 DEF sidebar, Sidebar, SidebarRows
    <3>3. InSidebar' /\ RowsHere'
      BY <1>1, <1>2, <3>1, <3>2 DEF HereInv, InSidebar, RowsHere
    <3>4. CurrentTable # NoTable =>
            /\ AddedIn(deletes, CurrentTable, doubtful') /\ AddedIn(inserts, CurrentTable, doubtful')
            /\ MadeIn(updates, CurrentTable, doubtful')
      BY <1>0, LessDoubt DEF EditsHere, Doubts
    <3>5. CurrentTable # NoTable => AddedIn(inserts', CurrentTable, doubtful')
      BY <3>1, <3>4 DEF AddedIn
    <3>6. EditsHere'
      BY <1>1, <1>2, <2>5, <3>4, <3>5 DEF EditsHere
    <3> QED
      BY <1>1, <1>2, <3>3, <3>6, StaysHere
  <2>6. CASE /\ changes < MaxChanges /\ changes' = changes + 1
             /\ \E to \in Typed(column) : updates' = PutUpdate(identity, change(to))
             /\ UNCHANGED <<raw, inserts>>
    <3>1. PICK to \in Typed(column) : updates' = PutUpdate(identity, change(to))
      BY <2>6
    <3>2. column \in Columns /\ to \in Keys \cup {0} /\ changes' \in Ids
      BY <2>0, <2>6, <3>1, NextId DEF Column, Columns, Typed
    <3>3. identity \in Identities /\ (RowIsThere => identity.key = RowHere.key)
      <4>1. Identity \in Identities /\ NoKey \in Identities /\ Identity.key = RowHere.key
        BY <2>0, RowHereTyped DEF NoKey, Identities, Identity
      <4> QED
        BY <4>1
    <3>4. [table |-> value.row.table, key |-> value.row.key, column |-> value.column] \in Cells
      BY <2>0 DEF GridRows, Cells, ModalsTyped
    <3>5. ~value.early /\ CurrentTable # NoTable => RowHere.table = CurrentTable
      BY <2>2, RowHereIs
    <3> HIDE DEF column, identity
    <3>6. /\ change(to) \in Values /\ change(to).column = column /\ change(to).id = changes'
          /\ change(to).made = [table |-> value.row.table, key |-> value.row.key, column |-> value.column]
      BY <3>2, <3>4 DEF Values
    <3> HIDE DEF change
    <3>7. CurrentTable # NoTable =>
            \/ value.early
            \/ change(to).made = [table |-> CurrentTable, key |-> identity.key, column |-> change(to).column]
      BY <2>2, <3>3, <3>5, <3>6
    <3>8. EditsHere'
      BY <1>0, <1>1, <1>2, <2>6, <3>1, <3>3, <3>6, <3>7, ChangedHere
    <3> QED
      BY <1>1, <1>2, <2>6, <3>8, GridHere, StaysHere
  <2> QED
    BY <2>3, <2>4, <2>5, <2>6
<1> QED
  BY <1>3, <1>4

\* The record form, opened and closed
LEMMA FormOpensHere ==
  ASSUME PlacesInv, HereInv, Doubts, NewRow \/ OpenRecord \/ CloseRecord
  PROVE  HereInv'
<1>0. TypeInv /\ EditsHere
  BY DEF PlacesInv, HereInv
<1>1. UNCHANGED <<astray, sidebar, raw, results, deletes, updates, inserts>>
  BY DEF NewRow, OpenRecord, CloseRecord, memory, grid, edits
<1>2. InSidebar' /\ RowsHere' /\ UNCHANGED CurrentTable
  BY <1>1, GridHere
<1>3. EditsHere'
  BY <1>0, <1>1, <1>2, EditsHereKept
<1>4. FormHere'
  <2>1. CASE NewRow
    <3>1. form' = [NoForm EXCEPT !.open = TRUE, !.adds = TRUE, !.row.table = CurrentTable,
                                 !.early = pending]
      BY <2>1 DEF NewRow
    <3>2. form'.adds /\ form'.row.table = CurrentTable
      BY <3>1 DEF NoForm, NoRow
    <3> QED
      BY <1>2, <3>2 DEF FormHere
  <2>2. CASE OpenRecord
    <3> DEFINE added      == [NoForm EXCEPT !.open = TRUE, !.at = row_index + 1, !.row = RowHere,
                                            !.early = pending]
               other(shown) == [NoForm EXCEPT !.open = TRUE, !.identity = shown,
                                              !.row = [RowHere EXCEPT !.key = shown.key],
                                              !.early = pending]
    <3>1. PICK shown : form' = added \/ form' = other(shown)
      BY <2>2 DEF OpenRecord
    <3>2. raw \in Seq(GridRows) /\ row_index \in Nat /\ row_index < Len(raw) /\ ~results
      BY <1>0, <2>2 DEF OpenRecord, MayEdit, PlacesInv, TypeInv, GridTyped, Shown, CursorOnARow
    <3>3. RowIsThere /\ RowHere \in GridRows
      BY <1>0, <3>2, RowHereTyped DEF RowIsThere, TypeInv
    <3>4. ~pending /\ CurrentTable # NoTable => RowHere.table = CurrentTable
      BY <3>2, <3>3, RowHereIs
    <3>5. CASE form' = added
      <4>1. form'.at = row_index + 1 /\ ~form'.adds
        BY <3>5 DEF NoForm
      <4>2. form'.at # 0
        BY <3>2, <4>1
      <4> QED
        BY <4>1, <4>2 DEF FormHere
    <3>6. CASE form' = other(shown)
      <4>1. form'.identity = shown /\ form'.row = [RowHere EXCEPT !.key = shown.key] /\ form'.early = pending
        BY <3>6 DEF NoForm
      <4>2. form'.row.table = RowHere.table /\ form'.row.key = shown.key
        BY <3>3, <4>1 DEF GridRows
      <4> QED
        BY <1>2, <3>4, <4>1, <4>2 DEF FormHere
    <3> QED
      BY <3>1, <3>5, <3>6
  <2>3. CASE CloseRecord
    BY <2>3 DEF CloseRecord, NoForm, FormHere
  <2> QED
    BY <2>1, <2>2, <2>3
<1>5. OnlyDoubtfulGoAstray'
  BY <1>1 DEF HereInv, OnlyDoubtfulGoAstray, Doubts
<1> QED
  BY <1>2, <1>3, <1>4, <1>5 DEF HereInv

\* What the record form saves
LEMMA SavesHere ==
  ASSUME PlacesInv, WritesInv, HereInv, Doubts,
         SaveRow \/ \E k \in Keys \cup {0} : SaveAdded(k) \/ SaveNew(k)
  PROVE  HereInv'
<1>0. /\ TypeInv /\ EditsTyped /\ ModalsTyped /\ MemoryTyped /\ InSidebar /\ EditsHere /\ FormHere
      /\ CurrentTable \in Tables \cup {NoTable} /\ filters \in BOOLEAN /\ inserts \in Seq(Inserts)
  BY CurrentTyped DEF PlacesInv, HereInv, TypeInv, EditsTyped, SidebarTyped
<1>1. UNCHANGED <<tables, matched, table_index, astray>> /\ ~form'.open
  <2>1. UNCHANGED <<tables, matched, table_index, astray>>
    BY DEF SaveRow, SaveAdded, SaveNew, sidebar, memory
  <2>2. form' = NoForm
    BY DEF SaveRow, SaveAdded, SaveNew
  <2> QED
    BY <2>1, <2>2 DEF NoForm
<1>2. UNCHANGED <<Sidebar, CurrentTable>> /\ InSidebar'
  <2>1. UNCHANGED Sidebar
    BY <1>1 DEF Sidebar, SidebarRows
  <2> QED
    BY <1>0, <1>1, <2>1, SameCurrent DEF InSidebar
<1>3. CurrentTable # NoTable =>
        /\ AddedIn(deletes, CurrentTable, doubtful') /\ AddedIn(inserts, CurrentTable, doubtful')
        /\ MadeIn(updates, CurrentTable, doubtful')
  BY <1>0, LessDoubt DEF EditsHere, Doubts
<1>4. CASE SaveRow
  <2> DEFINE v == [id |-> changes', column |-> "name", to |-> 0,
                   made |-> [table |-> form.row.table, key |-> form.row.key, column |-> "name"]]
  <2>1. /\ UNCHANGED <<pending, raw, results, deletes, inserts>>
        /\ form.open /\ form.at = 0 /\ ~form.adds /\ changes < MaxChanges /\ changes' = changes + 1
        /\ updates' = PutUpdate(form.identity, v)
    BY <1>4 DEF SaveRow, sidebar, grid
  <2>2. form.identity \in Identities /\ form.row \in GridRows
    BY <1>0 DEF ModalsTyped
  <2>3. [table |-> form.row.table, key |-> form.row.key, column |-> "name"] \in Cells
    BY <2>2 DEF GridRows, Cells, Columns
  <2>4. changes' \in Ids
    BY <1>0, <2>1, NextId
  <2>5. /\ v \in Values /\ v.column = "name" /\ v.id = changes'
        /\ v.made = [table |-> form.row.table, key |-> form.row.key, column |-> "name"]
    BY <2>3, <2>4 DEF Values, Columns
  <2> HIDE DEF v
  <2>6. ~form.early /\ CurrentTable # NoTable =>
          form.row.table = CurrentTable /\ form.row.key = form.identity.key
    BY <1>0, <2>1 DEF FormHere
  <2>7. EditsHere'
    BY <1>0, <1>2, <2>1, <2>2, <2>5, <2>6, ChangedHere
  <2>8. RowsHere'
    BY <1>2, <2>1 DEF HereInv, RowsHere
  <2> QED
    BY <1>1, <1>2, <2>7, <2>8, StaysHere
<1>5. ASSUME NEW k \in Keys \cup {0}, SaveAdded(k) PROVE HereInv'
  <2>1. /\ inserts' = [inserts EXCEPT ![form.at].key = k] /\ UNCHANGED <<deletes, updates>>
        /\ Load(CurrentTable, filters, inserts', "cursor", results)
    BY <1>5 DEF SaveAdded
  <2>2. /\ DOMAIN inserts' = DOMAIN inserts
        /\ \A j \in DOMAIN inserts : inserts'[j].table = inserts[j].table /\ inserts'[j].id = inserts[j].id
    BY <1>0, <2>1, RekeyHere
  <2>3. EditsHere'
    <3>1. CurrentTable # NoTable => AddedIn(inserts', CurrentTable, doubtful')
      BY <1>3, <2>2 DEF AddedIn
    <3> QED
      BY <1>2, <1>3, <2>1, <3>1 DEF EditsHere
  <2>4. inserts' \in Seq(Inserts)
    <3>1. TypeInv'
      BY <1>0, <1>5, AddsTyped
    <3> QED
      BY <3>1 DEF TypeInv, EditsTyped
  <2>5. RowsHere'
    BY <1>0, <1>2, <2>1, <2>4, LoadedHere
  <2> QED
    BY <1>1, <1>2, <2>3, <2>5, StaysHere
<1>6. ASSUME NEW k \in Keys \cup {0}, SaveNew(k) PROVE HereInv'
  <2> DEFINE row == [id |-> changes', key |-> k, table |-> form.row.table]
  <2>1. /\ form.open /\ form.adds /\ UNCHANGED <<deletes, updates>> /\ changes' = changes + 1
        /\ inserts' = <<row>> \o inserts
        /\ Load(CurrentTable, filters, inserts', "column", results)
    BY <1>6 DEF SaveNew
  <2>2. inserts' \in Seq(Inserts)
    <3>1. TypeInv'
      BY <1>0, <1>6, AddsTyped
    <3> QED
      BY <3>1 DEF TypeInv, EditsTyped
  <2>3. ~form.early /\ CurrentTable # NoTable => row.table = CurrentTable
    BY <1>0, <2>1 DEF FormHere
  <2>4. row.id \notin Pending
    BY <1>0, <2>1, Fresh DEF WritesInv
  <2> HIDE DEF row
  <2>5. /\ \A i \in DOMAIN inserts' : inserts'[i] = row \/ (i - 1 \in DOMAIN inserts /\ inserts'[i] = inserts[i - 1])
        /\ 1 \in DOMAIN inserts' /\ inserts'[1] = row
    <3> DEFINE one == <<row>>
    <3>1. one \in Seq({row} \cup Inserts) /\ Len(one) = 1 /\ one[1] = row /\ inserts \in Seq({row} \cup Inserts)
      BY <1>0
    <3> HIDE DEF one
    <3>2. /\ Len(one \o inserts) = Len(one) + Len(inserts) /\ one \o inserts \in Seq({row} \cup Inserts)
          /\ \A i \in 1 .. Len(one) + Len(inserts) :
               (one \o inserts)[i] = IF i <= Len(one) THEN one[i] ELSE inserts[i - Len(one)]
      BY <3>1, ConcatProperties
    <3> DEFINE all == one \o inserts
    <3> HIDE DEF all
    <3>3. /\ DOMAIN all = 1 .. 1 + Len(inserts) /\ DOMAIN inserts = 1 .. Len(inserts) /\ Len(inserts) \in Nat
          /\ \A i \in 1 .. 1 + Len(inserts) : all[i] = IF i <= 1 THEN one[i] ELSE inserts[i - 1]
      BY <1>0, <3>1, <3>2 DEF all
    <3>4. /\ \A i \in DOMAIN all : all[i] = row \/ (i - 1 \in DOMAIN inserts /\ all[i] = inserts[i - 1])
          /\ 1 \in DOMAIN all /\ all[1] = row
      BY <3>1, <3>3
    <3> QED
      BY <2>1, <3>4 DEF all, one
  <2>6. row.id \in Pending'
    BY <2>5 DEF Pending, InsertsOf
  <2>7. CurrentTable # NoTable => row.id \in doubtful' \/ row.table = CurrentTable
    BY <2>3, <2>4, <2>6 DEF Doubts
  <2>8. EditsHere'
    <3>1. CurrentTable # NoTable => AddedIn(inserts', CurrentTable, doubtful')
      BY <1>3, <2>5, <2>7 DEF AddedIn
    <3> QED
      BY <1>2, <1>3, <2>1, <3>1 DEF EditsHere
  <2>9. RowsHere'
    BY <1>0, <1>2, <2>1, <2>2, LoadedHere
  <2> QED
    BY <1>1, <1>2, <2>8, <2>9, StaysHere
<1> QED
  BY <1>4, <1>5, <1>6

\* What is left of the changes was made where they were.
LEMMA LeftHere ==
  ASSUME EditsHere, Doubts, UNCHANGED CurrentTable,
         From(deletes', deletes), From(updates', updates), From(inserts', inserts)
  PROVE  EditsHere'
<1> SUFFICES ASSUME CurrentTable # NoTable
             PROVE  /\ AddedIn(deletes', CurrentTable, doubtful') /\ AddedIn(inserts', CurrentTable, doubtful')
                    /\ MadeIn(updates', CurrentTable, doubtful')
  BY DEF EditsHere
<1>1. /\ AddedIn(deletes, CurrentTable, doubtful') /\ AddedIn(inserts, CurrentTable, doubtful')
      /\ MadeIn(updates, CurrentTable, doubtful')
  BY LessDoubt DEF EditsHere, Doubts
<1>2. AddedIn(deletes', CurrentTable, doubtful') /\ AddedIn(inserts', CurrentTable, doubtful')
  BY <1>1 DEF AddedIn, From
<1>3. MadeIn(updates', CurrentTable, doubtful')
  BY <1>1 DEF MadeIn, From
<1> QED
  BY <1>2, <1>3

LEMMA FromAll == \A list : From(list, list) /\ From(<<>>, list)
<1>1. DOMAIN <<>> = {}
  OBVIOUS
<1> QED
  BY <1>1 DEF From

\* The statements of :w
LEMMA WritesHere ==
  ASSUME PlacesInv, HereInv, Doubts,
         WriteInsert \/ WriteUpdate \/ WriteDeletes \/ WriteMatchedUpdate \/ WriteMatchedDelete
  PROVE  HereInv'
<1>0. /\ deletes \in Seq(Marks) /\ updates \in Seq(Updates) /\ inserts \in Seq(Inserts) /\ TypeInv
      /\ InSidebar /\ RowsHere /\ FormHere /\ EditsHere /\ astray \subseteq doubtful
  BY DEF PlacesInv, TypeInv, EditsTyped, HereInv, OnlyDoubtfulGoAstray
<1>1. /\ stage = "writing" /\ UNCHANGED <<sidebar, grid, modals>>
      /\ CurrentTable # NoTable /\ Table = CurrentTable
  <2>1. stage = "writing" /\ UNCHANGED Unwritten
    BY DEF WriteInsert, WriteUpdate, WriteDeletes, WriteMatchedUpdate, WriteMatchedDelete
  <2> QED
    BY <2>1 DEF Unwritten, PlacesInv, Formed, NoFormsWhileWriting, Table
<1>2. UNCHANGED form /\ InSidebar' /\ RowsHere' /\ UNCHANGED CurrentTable
  BY <1>1, GridHere DEF grid, modals
<1>3. FormHere'
  BY <1>0, <1>2 DEF FormHere
<1>4. ASSUME From(deletes', deletes), From(updates', updates), From(inserts', inserts),
             NEW elsewhere, elsewhere \subseteq doubtful, astray' \subseteq astray \cup elsewhere
      PROVE  HereInv'
  <2>1. EditsHere'
    BY <1>0, <1>2, <1>4, LeftHere
  <2>2. OnlyDoubtfulGoAstray'
    BY <1>0, <1>4 DEF OnlyDoubtfulGoAstray, Doubts
  <2> QED
    BY <1>2, <1>3, <2>1, <2>2 DEF HereInv
<1>5. ASSUME NEW why, Fails(why) PROVE HereInv'
  BY <1>4, <1>5, FromAll DEF Fails, edits
<1>6. /\ AddedIn(deletes, Table, doubtful) /\ AddedIn(inserts, Table, doubtful)
      /\ MadeIn(updates, Table, doubtful)
  BY <1>0, <1>1 DEF EditsHere
<1>7. ASSUME NEW ids, AnswerLost(ids) PROVE UNCHANGED <<deletes, updates, inserts>>
  BY <1>7 DEF AnswerLost, edits
<1>8. CASE WriteInsert
  <2> DEFINE elsewhere == IF inserts[1].table = Table THEN {} ELSE {inserts[1].id}
  <2>1. inserts # <<>> /\ \/ /\ Done({inserts[1].id}, elsewhere)
                             /\ \/ inserts' = Remaining(inserts) /\ UNCHANGED <<deletes, updates>>
                                \/ AnswerLost({inserts[1].id})
                          \/ Fails("refused")
    BY <1>8 DEF WriteInsert
  <2>2. elsewhere \subseteq doubtful
    <3>1. 1 \in DOMAIN inserts
      BY <1>0, <2>1, EmptySeq
    <3> QED
      BY <1>6, <3>1 DEF AddedIn
  <2>3. From(Remaining(inserts), inserts)
    BY <1>0, <2>1, RemainingFrom
  <2> HIDE DEF elsewhere
  <2> QED
    BY <1>4, <1>5, <1>7, <2>1, <2>2, <2>3, FromAll DEF Done
<1>9. CASE WriteUpdate
  <2> DEFINE key == updates[1].identity.key
             v   == updates[1].columns[columns + 1]
             elsewhere == StrayValues({v}, key)
  <2>1. updates # <<>> /\ \/ /\ Done({v.id}, elsewhere)
                             /\ \/ updates' \in {updates, Remaining(updates)} /\ UNCHANGED <<deletes, inserts>>
                                \/ AnswerLost({v.id})
                          \/ \E why : Fails(why)
    BY <1>9 DEF WriteUpdate
  <2>2. elsewhere \subseteq doubtful
    <3>1. 1 \in DOMAIN updates
      BY <1>0, <2>1, EmptySeq
    <3>2. columns + 1 \in DOMAIN updates[1].columns
      BY <1>0, <1>1, <2>1, NextValue
    <3>3. v.id \in doubtful \/ v.made = [table |-> Table, key |-> key, column |-> v.column]
      BY <1>6, <3>1, <3>2 DEF MadeIn
    <3> HIDE DEF v, key
    <3> QED
      BY <3>3 DEF StrayValues
  <2>3. From(Remaining(updates), updates)
    BY <1>0, <2>1, RemainingFrom
  <2> HIDE DEF key, v, elsewhere
  <2> QED
    BY <1>4, <1>5, <1>7, <2>1, <2>2, <2>3, FromAll DEF Done
<1>10. CASE WriteDeletes
  <2> DEFINE elsewhere == StrayMarks(ToSet(deletes))
  <2>1. \/ /\ Done(DeletesOf(deletes), elsewhere)
           /\ \/ deletes' = <<>> /\ UNCHANGED <<updates, inserts>>
              \/ AnswerLost(DeletesOf(deletes))
        \/ \E why : Fails(why)
    BY <1>10 DEF WriteDeletes
  <2>2. elsewhere \subseteq doubtful
    BY <1>6 DEF StrayMarks, AddedIn, ToSet
  <2> HIDE DEF elsewhere
  <2> QED
    BY <1>4, <1>5, <1>7, <2>1, <2>2, FromAll DEF Done
<1>11. CASE WriteMatchedUpdate
  <2> DEFINE key == updates[1].identity.key
             ids == {v.id : v \in ToSet(updates[1].columns)}
             elsewhere == StrayValues(ToSet(updates[1].columns), key)
  <2>1. updates # <<>> /\ \/ /\ Done(ids, elsewhere)
                             /\ \/ updates' = Remaining(updates) /\ UNCHANGED <<deletes, inserts>>
                                \/ AnswerLost(ids)
                          \/ \E why : Fails(why)
    BY <1>11 DEF WriteMatchedUpdate
  <2>2. elsewhere \subseteq doubtful
    <3>1. 1 \in DOMAIN updates
      BY <1>0, <2>1, EmptySeq
    <3>2. \A v \in ToSet(updates[1].columns) :
            v.id \in doubtful \/ v.made = [table |-> Table, key |-> key, column |-> v.column]
      BY <1>6, <3>1 DEF MadeIn, ToSet
    <3> HIDE DEF key
    <3> QED
      BY <3>2 DEF StrayValues
  <2>3. From(Remaining(updates), updates)
    BY <1>0, <2>1, RemainingFrom
  <2> HIDE DEF key, ids, elsewhere
  <2> QED
    BY <1>4, <1>5, <1>7, <2>1, <2>2, <2>3, FromAll DEF Done
<1>12. CASE WriteMatchedDelete
  <2> DEFINE elsewhere == StrayMarks({deletes[1]})
  <2>1. deletes # <<>> /\ \/ /\ Done({deletes[1].id}, elsewhere)
                             /\ \/ deletes' = Remaining(deletes) /\ UNCHANGED <<updates, inserts>>
                                \/ AnswerLost({deletes[1].id})
                          \/ \E why : Fails(why)
    BY <1>12 DEF WriteMatchedDelete
  <2>2. elsewhere \subseteq doubtful
    <3>1. 1 \in DOMAIN deletes
      BY <1>0, <2>1, EmptySeq
    <3> QED
      BY <1>6, <3>1 DEF StrayMarks, AddedIn
  <2>3. From(Remaining(deletes), deletes)
    BY <1>0, <2>1, RemainingFrom
  <2> HIDE DEF elsewhere
  <2> QED
    BY <1>4, <1>5, <1>7, <2>1, <2>2, <2>3, FromAll DEF Done
<1> QED
  BY <1>8, <1>9, <1>10, <1>11, <1>12

\* The beginning and the end of :w, and other clients
LEMMA EndsHere ==
  ASSUME PlacesInv, HereInv, Doubts,
         \/ WritePending \/ WriteDone \/ WriteFailed \/ Dismiss \/ UNCHANGED vars
         \/ \E t \in Tables, k \in Keys : OthersChange(t, k)
         \/ \E t \in Tables : OthersDrop(t)
  PROVE  HereInv'
<1>0. /\ TypeInv /\ CurrentTable \in Tables \cup {NoTable} /\ filters \in BOOLEAN
      /\ inserts \in Seq(Inserts) /\ <<>> \in Seq(Inserts) /\ InSidebar /\ RowsHere /\ EditsHere
  BY CurrentTyped, EmptySeq DEF PlacesInv, TypeInv, EditsTyped, SidebarTyped, HereInv
<1>1. UNCHANGED <<tables, matched, table_index, form, deletes, updates, inserts, astray>>
  BY DEF WritePending, WriteDone, WriteFailed, Dismiss, OthersChange, OthersDrop, sidebar, modals,
     edits, memory, vars
<1>2. UNCHANGED <<Sidebar, CurrentTable>> /\ InSidebar'
  <2>1. UNCHANGED Sidebar
    BY <1>1 DEF Sidebar, SidebarRows
  <2> QED
    BY <1>0, <1>1, <2>1, SameCurrent DEF InSidebar
<1>3. EditsHere'
  BY <1>0, <1>1, <1>2, EditsHereKept
<1>4. RowsHere'
  <2>1. \/ UNCHANGED <<pending, raw, results>>
        \/ \E added \in {<<>>, inserts} : Load(CurrentTable, filters, added, "cursor", results)
    BY DEF WritePending, WriteDone, WriteFailed, Dismiss, OthersChange, OthersDrop, sidebar, grid, vars, Table
  <2>2. CASE UNCHANGED <<pending, raw, results>>
    BY <1>0, <1>2, <2>2 DEF RowsHere
  <2>3. ASSUME NEW added \in {<<>>, inserts}, Load(CurrentTable, filters, added, "cursor", results)
        PROVE  RowsHere'
    BY <1>0, <1>2, <2>3, LoadedHere
  <2> QED
    BY <2>1, <2>2, <2>3
<1> QED
  BY <1>1, <1>2, <1>3, <1>4, StaysHere

LEMMA HereStep ==
  PlacesInv /\ TypeInv /\ WritesInv /\ OpenInv /\ HereInv /\ [Next]_vars => HereInv'
<1> SUFFICES ASSUME PlacesInv, TypeInv, WritesInv, OpenInv, HereInv, [Next]_vars PROVE HereInv'
  OBVIOUS
<1>1. Doubts
  BY NextDoubts
<1> QED
  BY <1>1, MovesHere, MarksHere, EditorHere, FormOpensHere, SavesHere, WritesHere, EndsHere DEF Next

\* A change is written to another row than it was made in only if it was
\* made, or kept, while the grid showed another table than the one selected
\* (OnlyDoubtfulGoAstray): write_all takes the table of the cursor, and what
\* moves the cursor to another drops the changes, but where the list of the
\* sidebar changes under it.  No constant is assumed: keys may be typed
\* ahead, the sidebar filtered, tables dropped and answers lost.
THEOREM ChangesGoWhereMade == Spec => []OnlyDoubtfulGoAstray
<1>1. PlacesInv /\ OpenInv /\ [Next]_vars => OpenInv'
  BY OpenStep
<1>2. PlacesInv /\ TypeInv /\ WritesInv /\ OpenInv /\ HereInv /\ [Next]_vars => HereInv'
  BY HereStep
<1>3. HereInv => OnlyDoubtfulGoAstray
  BY DEF HereInv
<1> QED
  BY PlacesInvariant, WritesInvariant, OpenInit, HereInit, <1>1, <1>2, <1>3, PTL DEF Spec
=============================================================================
