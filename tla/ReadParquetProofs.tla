-------------------------- MODULE ReadParquetProofs --------------------------
(***************************************************************************)
(* For every file, filter list, projection and batch size: read_parquet    *)
(* keeps its types, never reads a group a filter rules out, and, when the  *)
(* literals are seen alike by statistics and rows, never over-prunes and   *)
(* implements FilteredScan.                                                *)
(***************************************************************************)
EXTENDS ReadParquet, ScalarFilterProofs

(* The rows and filters of a call in progress have the shapes the          *)
(* assumptions give to the constants they are drawn from.                  *)
LEMMA Shapes ==
  ASSUME TypeOK
  PROVE  /\ IsFile(file)
         /\ filters \in Seq(FilterExpr)
         /\ columns \in Seq(Names) \cup {AllColumns}
         /\ \A r \in Rows : file.group[r] \in Groups
  BY ReadAssumption DEF TypeOK, IsFile, Rows, Groups

LEMMA InitInvariant == Init => IInv
<1> SUFFICES ASSUME Init PROVE IInv
  OBVIOUS
<1>1. IsFile(file) /\ filters \in Seq(FilterExpr)
  BY ReadAssumption DEF Init, ScanInit
<1>2. TypeOK
  BY <1>1, ReadAssumption DEF Init, ScanInit, TypeOK, Pending, Groups, Rows
<1>3. \A g \in Groups : keep[g]
  BY DEF Init
<1>4. current = 1 /\ collected = <<>> /\ ends = <<>> /\ selected = {} /\ pc = "open"
      /\ result.status = "pending"
  BY DEF Init, ScanInit, Pending
<1> QED
  BY <1>2, <1>3, <1>4 DEF IInv, LastRow

(* A step that leaves the request alone leaves the meaning of the filters  *)
(* alone.                                                                  *)
LEMMA SameRequest ==
  ASSUME UNCHANGED request
  PROVE  /\ Rows' = Rows /\ Groups' = Groups /\ Matching' = Matching
         /\ \A k, g : MayMatch(filters[k], g)' = MayMatch(filters[k], g)
         /\ \A r : RowFilter(r)' = RowFilter(r)
  BY DEF request, Rows, Groups, Matching, MayMatch, RowFilter, Accepts

LEMMA PruneKeepsInvariant == IInv /\ PruneByFilter => IInv'
<1> SUFFICES ASSUME IInv, PruneByFilter PROVE IInv'
  OBVIOUS
<1>1. TypeOK /\ current \in Nat \ {0} /\ current' = current + 1
  BY DEF IInv, TypeOK, PruneByFilter
<1>2. UNCHANGED <<request, result, pc, selected, collected, ends>> /\ pc = "prune"
  BY DEF PruneByFilter
<1>3. Rows' = Rows /\ Groups' = Groups /\ \A k, g : MayMatch(filters[k], g)' = MayMatch(filters[k], g)
  BY <1>2, SameRequest
<1>4. TypeOK'
  BY <1>1, <1>2, <1>3 DEF TypeOK, PruneByFilter, request
<1>5. 1 .. current' - 1 = (1 .. current - 1) \cup {current}
  BY <1>1
<1>6. \A k \in 1 .. current' - 1 : k \in DOMAIN filters' /\ filters'[k].column \in ColumnNames
  BY <1>2, <1>5 DEF IInv, PruneByFilter, request
<1>7. ASSUME NEW g \in Groups
      PROVE  keep'[g] <=> \A k \in 1 .. current' - 1 : MayMatch(filters[k], g)'
  <2>1. keep'[g] = (keep[g] /\ MayMatch(filters[current], g))
    BY DEF PruneByFilter
  <2>2. keep[g] <=> \A k \in 1 .. current - 1 : MayMatch(filters[k], g)
    BY DEF IInv
  <2>3. filters' = filters
    BY <1>2 DEF request
  <2> QED
    BY <2>1, <2>2, <2>3, <1>3, <1>5
<1>8. selected = {} /\ collected = <<>> /\ ends = <<>> /\ result.status = "pending"
  BY <1>1, <1>2 DEF IInv, TypeOK
<1> QED
  BY <1>2, <1>3, <1>4, <1>6, <1>7, <1>8 DEF IInv, LastRow

(* The steps that fail leave everything but pc and result alone.           *)
LEMMA FailureKeepsInvariant ==
  IInv /\ (PruneUnknownColumn \/ AssembleUnknownColumn \/ ReaderFails) => IInv'
<1> SUFFICES ASSUME IInv, PruneUnknownColumn \/ AssembleUnknownColumn \/ ReaderFails
             PROVE  IInv'
  OBVIOUS
<1>1. /\ UNCHANGED <<request, current, keep, selected, collected, ends>>
      /\ pc' = "done" /\ result' = Err
  BY DEF PruneUnknownColumn, AssembleUnknownColumn, ReaderFails, Return
<1>2. /\ Rows' = Rows /\ Groups' = Groups /\ SelectedRows' = SelectedRows
      /\ AllLookedAt' = AllLookedAt /\ LastRow' = LastRow /\ LastEnd' = LastEnd
      /\ \A k, g : MayMatch(filters[k], g)' = MayMatch(filters[k], g)
      /\ filters' = filters /\ result'.status = "err"
  BY <1>1, SameRequest
     DEF SelectedRows, AllLookedAt, LastRow, LastEnd, request, Err
<1>3. TypeOK'
  BY <1>1, <1>2 DEF IInv, TypeOK, request
<1> QED
  BY <1>1, <1>2, <1>3 DEF IInv

LEMMA OpenKeepsInvariant == IInv /\ Open => IInv'
<1> SUFFICES ASSUME IInv, Open PROVE IInv'
  OBVIOUS
<1>1. /\ UNCHANGED <<request, result, current, keep, selected, collected, ends>>
      /\ pc = "open" /\ pc' = "prune"
  BY DEF Open
<1>2. /\ Rows' = Rows /\ Groups' = Groups /\ SelectedRows' = SelectedRows
      /\ AllLookedAt' = AllLookedAt /\ LastRow' = LastRow /\ LastEnd' = LastEnd
      /\ \A k, g : MayMatch(filters[k], g)' = MayMatch(filters[k], g)
      /\ filters' = filters
  BY <1>1, SameRequest DEF SelectedRows, AllLookedAt, LastRow, LastEnd, request
<1>3. result.status = "pending" /\ result' = result
  BY <1>1 DEF IInv, TypeOK
<1>4. TypeOK'
  BY <1>1, <1>2, <1>3 DEF IInv, TypeOK, request
<1> QED
  BY <1>1, <1>2, <1>3, <1>4 DEF IInv

LEMMA BuildKeepsInvariant == IInv /\ BuildReader => IInv'
<1> SUFFICES ASSUME IInv, BuildReader PROVE IInv'
  OBVIOUS
<1>1. /\ UNCHANGED <<request, result, current, keep, collected, ends>>
      /\ pc = "prune" /\ pc' = "read" /\ current \notin DOMAIN filters
      /\ selected' = {r \in Rows : file.group[r] \in SurvivingRowGroups /\ RowFilter(r)}
  BY DEF BuildReader
<1>2. /\ Rows' = Rows /\ Groups' = Groups /\ SelectedRows' = SelectedRows
      /\ AllLookedAt' = AllLookedAt /\ LastRow' = LastRow /\ LastEnd' = LastEnd
      /\ \A k, g : MayMatch(filters[k], g)' = MayMatch(filters[k], g)
      /\ filters' = filters
  BY <1>1, SameRequest DEF SelectedRows, AllLookedAt, LastRow, LastEnd, request
<1>3. TypeOK /\ collected = <<>> /\ ends = <<>> /\ result.status = "pending"
      /\ result' = result
  BY <1>1 DEF IInv, TypeOK
<1>4. AllLookedAt
  <2>1. filters \in Seq(FilterExpr)
    BY <1>3, Shapes
  <2>2. DOMAIN filters = 1 .. Len(filters) /\ Len(filters) \in Nat
    BY <2>1
  <2>3. \A k \in 1 .. current - 1 : k \in DOMAIN filters
    BY DEF IInv
  <2>4. current \in Nat \ {0}
    BY <1>3 DEF TypeOK
  <2>5. current > Len(filters)
    BY <1>1, <2>2, <2>4
  <2>6. CASE current = 1
    BY <2>2, <2>4, <2>5, <2>6 DEF AllLookedAt
  <2>7. CASE current # 1
    <3>1. current - 1 \in 1 .. current - 1
      BY <2>4, <2>7
    <3>2. current - 1 \in 1 .. Len(filters)
      BY <2>2, <2>3, <3>1
    <3> QED
      BY <2>2, <2>4, <2>5, <3>2 DEF AllLookedAt
  <2> QED
    BY <2>6, <2>7
<1>5. selected' = SelectedRows
  BY <1>1, <1>3, Shapes DEF SelectedRows, SurvivingRowGroups
<1>6. TypeOK'
  BY <1>1, <1>2, <1>3, <1>5 DEF TypeOK, request, SelectedRows
<1>7. LastRow' = 0 /\ \A r \in selected' : r > 0
  BY <1>1, <1>3, <1>5 DEF LastRow, SelectedRows, Rows
<1>8. \A r \in selected' : ~(r <= LastRow')
  BY <1>1, <1>5, <1>7, Shapes DEF SelectedRows, Rows, IsFile
<1> QED
  BY <1>1, <1>2, <1>3, <1>4, <1>5, <1>6, <1>8 DEF IInv

(* The next selected row keeps the collected rows an increasing prefix of  *)
(* the selection.                                                          *)
LEMMA DecodeKeepsInvariant == IInv /\ DecodeRow => IInv'
<1> SUFFICES ASSUME IInv, DecodeRow PROVE IInv'
  OBVIOUS
<1>1. /\ UNCHANGED <<request, result, pc, current, keep, selected, ends>>
      /\ pc = "read"
  BY DEF DecodeRow
<1>2. PICK r \in Remaining :
        (\A q \in Remaining : r <= q) /\ collected' = Append(collected, r)
  BY DEF DecodeRow
<1>3. /\ Rows' = Rows /\ Groups' = Groups /\ SelectedRows' = SelectedRows
      /\ AllLookedAt' = AllLookedAt /\ LastEnd' = LastEnd
      /\ \A k, g : MayMatch(filters[k], g)' = MayMatch(filters[k], g)
      /\ filters' = filters
  BY <1>1, SameRequest DEF SelectedRows, AllLookedAt, LastEnd, request
<1>4. /\ TypeOK /\ result.status = "pending" /\ result' = result
      /\ collected \in Seq(Rows) /\ selected \subseteq Rows /\ ends \in Seq(Nat)
      /\ Rows \subseteq Int
  BY <1>1, Shapes DEF IInv, TypeOK, Rows, IsFile
<1>5. r \in selected /\ r \in Rows /\ r > LastRow
  BY <1>2, <1>4 DEF Remaining
<1>6. /\ collected' \in Seq(Rows)
      /\ DOMAIN collected = 1 .. Len(collected) /\ Len(collected) \in Nat
      /\ Len(collected') = Len(collected) + 1
      /\ DOMAIN collected' = 1 .. Len(collected) + 1
      /\ collected'[Len(collected) + 1] = r
      /\ \A i \in 1 .. Len(collected) : collected'[i] = collected[i]
  BY <1>2, <1>4, <1>5
<1>7. LastRow' = r
  BY <1>6 DEF LastRow
<1>8. TypeOK'
  BY <1>1, <1>3, <1>4, <1>6 DEF TypeOK, request
<1>9. \A i \in DOMAIN collected' : collected'[i] \in selected'
  BY <1>1, <1>5, <1>6 DEF IInv
<1>10. /\ \A i \in DOMAIN collected : collected[i] \in Int
       /\ LastRow \in Int /\ r \in Int
       /\ \A i \in DOMAIN collected : collected[i] < r
  <2>1. \A i, j \in DOMAIN collected : i < j => collected[i] < collected[j]
    BY DEF IInv
  <2>2. \A i \in DOMAIN collected : collected[i] \in Rows
    BY <1>4
  <2>3. \A i \in DOMAIN collected : collected[i] \in Int
    BY <1>4, <2>2
  <2>4. CASE collected = <<>>
    <3>1. LastRow = 0 /\ DOMAIN collected = {}
      BY <2>4 DEF LastRow
    <3> QED
      BY <1>4, <1>5, <2>3, <3>1
  <2>5. CASE collected # <<>>
    <3>1. Len(collected) # 0
      BY <1>4, <2>5
    <3>2. Len(collected) \in DOMAIN collected /\ LastRow = collected[Len(collected)]
      BY <1>6, <2>5, <3>1 DEF LastRow
    <3>3. r \in Int /\ LastRow \in Int
      BY <1>4, <1>5, <2>3, <3>2
    <3>4. ASSUME NEW i \in DOMAIN collected
          PROVE  collected[i] < r
      <4>1. i = Len(collected) \/ i < Len(collected)
        BY <1>6
      <4>2. collected[i] <= LastRow /\ collected[i] \in Int
        BY <2>1, <2>3, <3>2, <3>3, <4>1
      <4> QED
        BY <1>5, <3>3, <4>2
    <3> QED
      BY <2>3, <3>3, <3>4
  <2> QED
    BY <2>4, <2>5
<1>11. \A i, j \in DOMAIN collected' : i < j => collected'[i] < collected'[j]
  <2>1. \A i, j \in DOMAIN collected : i < j => collected[i] < collected[j]
    BY DEF IInv
  <2> QED
    BY <1>6, <1>10, <2>1
<1>12. \A q \in selected' : q <= LastRow' => \E i \in DOMAIN collected' : collected'[i] = q
  <2> SUFFICES ASSUME NEW q \in selected, q <= r
               PROVE  \E i \in DOMAIN collected' : collected'[i] = q
    BY <1>1, <1>7
  <2>1. CASE q <= LastRow
    <3>1. \E i \in DOMAIN collected : collected[i] = q
      BY <2>1 DEF IInv
    <3> QED
      BY <1>6, <3>1
  <2>2. CASE ~(q <= LastRow)
    <3>1. q \in Int /\ LastRow \in Int
      BY <1>4, <1>10
    <3>2. q \in Remaining
      BY <2>2, <3>1 DEF Remaining
    <3>3. q = r
      BY <1>2, <1>4, <1>5, <3>1, <3>2
    <3> QED
      BY <1>6, <3>3
  <2> QED
    BY <2>1, <2>2
<1>13. ends' # <<>> => LastEnd' \in 1 .. Len(collected')
  <2>1. ends # <<>> => LastEnd \in 1 .. Len(collected)
    BY DEF IInv
  <2> QED
    BY <1>1, <1>3, <1>6, <2>1
<1> QED
  BY <1>1, <1>3, <1>4, <1>8, <1>9, <1>11, <1>12, <1>13 DEF IInv

LEMMA PushKeepsInvariant == IInv /\ PushBatch => IInv'
<1> SUFFICES ASSUME IInv, PushBatch PROVE IInv'
  OBVIOUS
<1>1. /\ UNCHANGED <<request, result, pc, current, keep, selected, collected>>
      /\ pc = "read" /\ Filling > 0 /\ ends' = Append(ends, Len(collected))
  BY DEF PushBatch
<1>2. /\ Rows' = Rows /\ Groups' = Groups /\ SelectedRows' = SelectedRows
      /\ AllLookedAt' = AllLookedAt /\ LastRow' = LastRow
      /\ \A k, g : MayMatch(filters[k], g)' = MayMatch(filters[k], g)
      /\ filters' = filters
  BY <1>1, SameRequest DEF SelectedRows, AllLookedAt, LastRow, request
<1>3. /\ TypeOK /\ result.status = "pending" /\ result' = result
      /\ Len(collected) \in Nat /\ ends \in Seq(Nat)
  BY <1>1 DEF IInv, TypeOK
<1>4. ends' \in Seq(Nat) /\ LastEnd' = Len(collected)
  BY <1>1, <1>3 DEF LastEnd
<1>5. TypeOK'
  BY <1>1, <1>2, <1>3, <1>4 DEF TypeOK, request
<1>6. LastEnd \in Nat
  BY <1>3 DEF IInv, LastEnd
<1>7. Len(collected) > 0
  BY <1>1, <1>3, <1>6 DEF Filling
<1>8. LastEnd' \in 1 .. Len(collected')
  BY <1>1, <1>3, <1>4, <1>7
<1> QED
  BY <1>1, <1>2, <1>3, <1>5, <1>8 DEF IInv

(* When nothing remains and every batch is pushed, the concatenation of    *)
(* the batches lists the selection.                                        *)
LEMMA ConcatListsSelection ==
  ASSUME IInv, Exhausted
  PROVE  Concat = collected /\ IsListing(Concat, SelectedRows)
<1>1. /\ TypeOK /\ collected \in Seq(Rows) /\ Len(collected) \in Nat /\ ends \in Seq(Nat)
      /\ pc = "read" /\ Remaining = {} /\ selected = SelectedRows /\ Rows \subseteq Int
  BY Shapes DEF IInv, TypeOK, Exhausted, Rows, IsFile
<1>2. LastEnd \in Nat
  BY <1>1 DEF IInv, LastEnd
<1>3. Len(collected) = LastEnd
  BY <1>1, <1>2 DEF Exhausted, Filling
<1>4. Concat = collected
  <2>1. CASE ends = <<>>
    <3>1. Len(collected) = 0
      BY <1>3, <2>1 DEF LastEnd
    <3> QED
      BY <1>1, <2>1, <3>1 DEF Concat
  <2>2. CASE ends # <<>>
    <3>1. Concat = SubSeq(collected, 1, Len(collected))
      BY <1>3, <2>2 DEF Concat, LastEnd
    <3> QED
      BY <1>1, <3>1
  <2> QED
    BY <2>1, <2>2
<1>5. LastRow \in Int
  <2>1. CASE collected = <<>>
    BY <2>1 DEF LastRow
  <2>2. CASE collected # <<>>
    <3>1. Len(collected) \in DOMAIN collected
      BY <1>1, <2>2
    <3>2. collected[Len(collected)] \in Rows
      BY <1>1, <3>1
    <3> QED
      BY <1>1, <2>2, <3>2 DEF LastRow
  <2> QED
    BY <2>1, <2>2
<1>6. \A r \in selected : r \in Int
  BY <1>1 DEF SelectedRows
<1>7. \A r \in selected : r <= LastRow
  BY <1>1, <1>5, <1>6 DEF Remaining
<1>8. IsListing(collected, selected)
  BY <1>7 DEF IInv, IsListing
<1> QED
  BY <1>1, <1>4, <1>8

LEMMA AssembleKeepsInvariant == IInv /\ Assemble => IInv'
<1> SUFFICES ASSUME IInv, Assemble PROVE IInv'
  OBVIOUS
<1>1. /\ UNCHANGED <<request, current, keep, selected, collected, ends>>
      /\ pc = "read" /\ pc' = "done" /\ Exhausted
      /\ result'.status = "ok" /\ result'.rows = Concat
  BY DEF Assemble, Return, Exhausted
<1>2. /\ Rows' = Rows /\ Groups' = Groups /\ SelectedRows' = SelectedRows
      /\ AllLookedAt' = AllLookedAt /\ LastRow' = LastRow /\ LastEnd' = LastEnd
      /\ \A k, g : MayMatch(filters[k], g)' = MayMatch(filters[k], g)
      /\ filters' = filters
  BY <1>1, SameRequest DEF SelectedRows, AllLookedAt, LastRow, LastEnd, request
<1>3. TypeOK'
  BY <1>1, <1>2 DEF IInv, TypeOK, request
<1>4. AllLookedAt
  BY <1>1 DEF IInv
<1>5. IsListing(result'.rows, SelectedRows)
  BY <1>1, ConcatListsSelection
<1>6. IsListing(result'.rows, SelectedRows')
  BY <1>2, <1>5
<1>7. IsListing(result.rows, SelectedRows)'
  BY <1>6 DEF IsListing
<1> QED
  BY <1>1, <1>2, <1>3, <1>4, <1>7 DEF IInv

LEMMA StutterKeepsInvariant == IInv /\ UNCHANGED vars => IInv'
<1> SUFFICES ASSUME IInv, UNCHANGED vars PROVE IInv'
  OBVIOUS
<1>1. /\ UNCHANGED <<request, result, pc, current, keep, selected, collected, ends>>
  BY DEF vars, request
<1>2. /\ Rows' = Rows /\ Groups' = Groups /\ SelectedRows' = SelectedRows
      /\ AllLookedAt' = AllLookedAt /\ LastRow' = LastRow /\ LastEnd' = LastEnd
      /\ \A k, g : MayMatch(filters[k], g)' = MayMatch(filters[k], g)
      /\ filters' = filters
  BY <1>1, SameRequest DEF SelectedRows, AllLookedAt, LastRow, LastEnd, request
<1>3. TypeOK'
  BY <1>1, <1>2 DEF IInv, TypeOK, request
<1>4. IsListing(result.rows, SelectedRows)' <=> IsListing(result.rows, SelectedRows)
  BY <1>1, <1>2 DEF IsListing
<1> QED
  BY <1>1, <1>2, <1>3, <1>4 DEF IInv

LEMMA StepInvariant == IInv /\ [Next]_vars => IInv'
<1> SUFFICES ASSUME IInv, [Next]_vars PROVE IInv'
  OBVIOUS
<1> QED
  BY OpenKeepsInvariant, PruneKeepsInvariant, FailureKeepsInvariant, BuildKeepsInvariant,
     DecodeKeepsInvariant, PushKeepsInvariant, AssembleKeepsInvariant,
     StutterKeepsInvariant DEF Next, Step, Returned

(* IInv is an invariant of the call.                                       *)
THEOREM Invariance == Spec => []IInv
  BY InitInvariant, StepInvariant, PTL DEF Spec

(* The call keeps its types.                                               *)
THEOREM TypeCorrect == Spec => []TypeOK
<1>1. IInv => TypeOK
  BY DEF IInv
<1> QED
  BY <1>1, Invariance, PTL

(* The reader reads no row group that any filter rules out.                *)
THEOREM PruningTakesEffect == Spec => []PrunedGroupsUnread
<1>1. IInv => PrunedGroupsUnread
  <2> SUFFICES ASSUME IInv, pc = "read",
                      NEW g \in SurvivingRowGroups, NEW k \in DOMAIN filters
               PROVE  MayMatch(filters[k], g)
    BY DEF PrunedGroupsUnread
  <2>1. g \in Groups /\ keep[g]
    BY DEF SurvivingRowGroups
  <2>2. k \in 1 .. current - 1
    <3>1. filters \in Seq(FilterExpr)
      BY Shapes DEF IInv
    <3>2. k \in 1 .. Len(filters) /\ Len(filters) \in Nat
      BY <3>1
    <3>3. AllLookedAt
      BY DEF IInv
    <3> QED
      BY <3>2, <3>3 DEF AllLookedAt
  <2> QED
    BY <2>1, <2>2 DEF IInv
<1> QED
  BY <1>1, Invariance, PTL

LEMMA FilterShape ==
  ASSUME IInv, NEW i \in DOMAIN filters, filters[i].column \in ColumnNames
  PROVE  /\ filters[i].op \in Op /\ filters[i].value \in ScalarValue
         /\ ColType[filters[i].column] \in ColumnType
<1>1. filters \in Seq(FilterExpr)
  BY Shapes DEF IInv
<1>2. filters[i] \in FilterExpr
  BY <1>1
<1> QED
  BY <1>2, ReadAssumption DEF FilterExpr

LEMMA KeepsAcceptedRows == IInv /\ FiltersSameNumber => NoOverPruning
<1> SUFFICES ASSUME IInv, FiltersSameNumber,
                    NEW r \in Rows, ~keep[file.group[r]], RowFilter(r)
             PROVE  FALSE
  BY DEF NoOverPruning
<1> DEFINE g == file.group[r]
<1>1. IsFile(file) /\ g \in Groups
  BY Shapes DEF IInv
<1>2. PICK k \in 1 .. current - 1 : ~MayMatch(filters[k], g)
  BY <1>1 DEF IInv
<1> DEFINE f == filters[k]
           type == ColType[f.column]
           x == file.cell[r][f.column]
           stat == file.stat[g][f.column]
<1>3. k \in DOMAIN filters /\ f.column \in ColumnNames
  BY DEF IInv
<1>4. f.op \in Op /\ f.value \in ScalarValue /\ type \in ColumnType
  BY <1>3, FilterShape
<1>5. EvaluatePredicate(type, f.op, f.value, x)
  BY <1>3 DEF RowFilter, Accepts
<1>6. x \in Values(type)
  <2>1. x \in Values(type) \cup {Null}
    BY <1>1, <1>3 DEF IsFile, Rows
  <2>2. x # Null
    BY <1>5 DEF EvaluatePredicate
  <2> QED
    BY <2>1, <2>2
<1>7. /\ stat.min \in Values(type) \cup {Null} /\ stat.max \in Values(type) \cup {Null}
      /\ StatBounds(file, g, f.column)
  BY <1>1, <1>3 DEF IsFile, Groups
<1>8. x # Null
  BY <1>5 DEF EvaluatePredicate
<1>9. (stat.min # Null => stat.min <= x) /\ (stat.max # Null => x <= stat.max)
  BY <1>7, <1>8 DEF StatBounds, Rows
<1>10. SameNumber(type, f.value)
  BY <1>3 DEF FiltersSameNumber
<1>11. CouldMatchRange(f.op, f.value, ScalarFromArray(type, stat.min),
                       ScalarFromArray(type, stat.max))
  <2> HIDE DEF f, type, x, stat
  <2> QED
    BY <1>4, <1>5, <1>6, <1>7, <1>9, <1>10, PruningIsSound
<1> QED
  BY <1>2, <1>11 DEF MayMatch

(* The group of a known filter's statistics: each is of the column's type. *)
LEMMA StatisticsShape ==
  ASSUME IInv, NEW g \in Groups, NEW name \in ColumnNames
  PROVE  LET stat == file.stat[g][name]
         IN  /\ stat.min \in Values(ColType[name]) \cup {Null}
             /\ stat.max \in Values(ColType[name]) \cup {Null}
<1>1. IsFile(file)
  BY Shapes DEF IInv
<1> QED
  BY <1>1 DEF IsFile, Groups

(* PARQ-05: the reader reads no row group whose trusted bounds leave no    *)
(* value that a filter comparing numbers would accept.                     *)
THEOREM PrunesToTheBounds == Spec => []PruningIsSharp
<1>1. IInv /\ PrunedGroupsUnread => PruningIsSharp
  <2> SUFFICES ASSUME IInv, PrunedGroupsUnread, pc = "read",
                      NEW g \in SurvivingRowGroups, NEW k \in DOMAIN filters,
                      Decidable(ColType[filters[k].column], filters[k].value),
                      Bounded(filters[k], g)
               PROVE  HasCandidate(filters[k], g)
    BY DEF PruningIsSharp
  <2> DEFINE f == filters[k]
             type == ColType[f.column]
             stat == file.stat[g][f.column]
  <2>1. g \in Groups
    BY DEF SurvivingRowGroups
  <2>2. f.column \in ColumnNames
    <3>1. filters \in Seq(FilterExpr) /\ AllLookedAt
      BY Shapes DEF IInv
    <3>2. k \in 1 .. current - 1
      BY <3>1 DEF AllLookedAt
    <3> QED
      BY <3>2 DEF IInv
  <2>3. f.op \in Op /\ f.value \in ScalarValue /\ type \in ColumnType
    BY <2>2, FilterShape
  <2>4. Trusted(type, stat.min) /\ Trusted(type, stat.max) /\ stat.min <= stat.max
    BY DEF Bounded
  <2>5. stat.min \in Values(type) /\ stat.max \in Values(type)
    BY <2>1, <2>2, <2>4, StatisticsShape DEF Trusted
  <2>6. CouldMatchRange(f.op, f.value, ScalarFromArray(type, stat.min),
                        ScalarFromArray(type, stat.max))
    BY DEF PrunedGroupsUnread, MayMatch
  <2>7. \E x \in Values(type) :
          stat.min <= x /\ x <= stat.max /\ EvaluatePredicate(type, f.op, f.value, x)
    <3> Decidable(type, f.value)
      OBVIOUS
    <3> HIDE DEF f, type, stat
    <3> QED
      BY <2>3, <2>4, <2>5, <2>6, PruningIsTight
  <2> QED
    BY <2>7 DEF HasCandidate
<1> QED
  BY <1>1, Invariance, PruningTakesEffect, PTL

(* The filter loop never passes the end of the list by more than one, and  *)
(* the last row collected is a row of the file, or 0.                      *)
LEMMA LoopBounds ==
  ASSUME IInv
  PROVE  /\ Len(filters) \in Nat /\ DOMAIN filters = 1 .. Len(filters)
         /\ current \in 1 .. Len(filters) + 1
         /\ file.n \in Nat /\ LastRow \in 0 .. file.n
         /\ Len(collected) \in Nat /\ LastEnd \in Nat
<1>1. /\ IsFile(file) /\ filters \in Seq(FilterExpr)
      /\ collected \in Seq(Rows) /\ ends \in Seq(Nat) /\ current \in Nat \ {0}
  BY Shapes DEF IInv, TypeOK
<1>2. Len(filters) \in Nat /\ DOMAIN filters = 1 .. Len(filters) /\ Len(collected) \in Nat
  BY <1>1
<1>3. current \in 1 .. Len(filters) + 1
  <2>1. CASE current = 1
    BY <1>2, <2>1
  <2>2. CASE current # 1
    <3>1. current - 1 \in 1 .. current - 1
      BY <1>1, <2>2
    <3>2. current - 1 \in 1 .. Len(filters)
      BY <1>2, <3>1 DEF IInv
    <3> QED
      BY <1>1, <1>2, <3>2
  <2> QED
    BY <2>1, <2>2
<1>4. file.n \in Nat
  BY <1>1 DEF IsFile
<1>5. LastRow \in 0 .. file.n
  <2>1. CASE collected = <<>>
    BY <1>4, <2>1 DEF LastRow
  <2>2. CASE collected # <<>>
    <3>1. collected[Len(collected)] \in Rows
      BY <1>1, <2>2
    <3> QED
      BY <1>4, <2>2, <3>1 DEF LastRow, Rows
  <2> QED
    BY <2>1, <2>2
<1>6. LastEnd \in Nat
  BY <1>1 DEF IInv, LastEnd
<1> QED
  BY <1>2, <1>3, <1>4, <1>5, <1>6

(* The parts of Work are natural numbers.                                  *)
WorkCounted ==
  /\ StepsLeft \in Nat /\ FiltersLeft \in Nat /\ RowsLeft \in Nat
  /\ BatchOpen \in 0 .. 1

LEMMA CountsWork == IInv => WorkCounted
  BY LoopBounds DEF WorkCounted, IInv, TypeOK, StepsLeft, FiltersLeft, RowsLeft, BatchOpen

(* A row less outweighs a batch opened.                                    *)
LEMMA SmallerSum ==
  ASSUME NEW a \in Nat, NEW b \in Nat, NEW c \in Nat, NEW d \in 0 .. 1,
         NEW e \in Nat, NEW f \in Nat, NEW g \in Nat, NEW h \in 0 .. 1,
         e <= a, f <= b, g <= c, h <= d \/ g < c,
         e < a \/ f < b \/ g < c \/ h < d
  PROVE  /\ e + f + 2 * g + h \in Nat
         /\ e + f + 2 * g + h < a + b + 2 * c + d
  OBVIOUS

(* The safety half of termination: each step of a call leaves less to do.  *)
THEOREM EveryStepIsProgress == Spec => WorkShrinks
<1>1. IInv /\ IInv' /\ [Next]_vars => [Work' \in Nat /\ Work' < Work]_vars
  <2> SUFFICES ASSUME IInv, IInv', Next, ~UNCHANGED vars
               PROVE  Work' \in Nat /\ Work' < Work
    OBVIOUS
  <2>1. /\ StepsLeft \in Nat /\ FiltersLeft \in Nat /\ RowsLeft \in Nat /\ BatchOpen \in 0 .. 1
        /\ StepsLeft' \in Nat /\ FiltersLeft' \in Nat /\ RowsLeft' \in Nat
        /\ BatchOpen' \in 0 .. 1
    <3>1. WorkCounted /\ WorkCounted'
      BY CountsWork, PTL
    <3> QED
      BY <3>1 DEF WorkCounted
  <2>2. UNCHANGED request
    BY DEF Next, Step, Open, PruneByFilter, PruneUnknownColumn, BuildReader, DecodeRow,
           PushBatch, Assemble, AssembleUnknownColumn, ReaderFails, Returned, vars
  <2>3. /\ current' = current => FiltersLeft' = FiltersLeft
        /\ LastRow' = LastRow => RowsLeft' = RowsLeft
        /\ Filling' = Filling => BatchOpen' = BatchOpen
    BY <2>2 DEF request, FiltersLeft, RowsLeft, BatchOpen
  <2>4. CASE Open \/ BuildReader
    <3>1. StepsLeft' = StepsLeft - 1 /\ current' = current
          /\ LastRow' = LastRow /\ Filling' = Filling
      BY <2>4 DEF Open, BuildReader, StepsLeft, LastRow, Filling, LastEnd
    <3> QED
      BY <2>1, <2>3, <3>1, SmallerSum DEF Work
  <2>5. CASE PruneByFilter
    <3>1. StepsLeft' = StepsLeft /\ current' = current + 1
          /\ LastRow' = LastRow /\ Filling' = Filling
      BY <2>5 DEF PruneByFilter, StepsLeft, LastRow, Filling, LastEnd
    <3>2. FiltersLeft' = FiltersLeft - 1
      BY <2>2, <3>1, LoopBounds DEF FiltersLeft, request
    <3> QED
      BY <2>1, <2>3, <3>1, <3>2, SmallerSum DEF Work
  <2>6. CASE DecodeRow
    <3>1. StepsLeft' = StepsLeft /\ current' = current
      BY <2>6 DEF DecodeRow, StepsLeft
    <3>2. PICK r \in Remaining : collected' = Append(collected, r)
      BY <2>6 DEF DecodeRow
    <3>3. collected \in Seq(Rows) /\ r \in Rows /\ r > LastRow
      BY <3>2 DEF IInv, TypeOK, Remaining
    <3>4. LastRow' = r
      BY <3>2, <3>3 DEF LastRow
    <3>5. RowsLeft' < RowsLeft
      BY <2>2, <3>3, <3>4, LoopBounds DEF Rows, RowsLeft, request
    <3>6. /\ StepsLeft' <= StepsLeft /\ FiltersLeft' <= FiltersLeft
          /\ RowsLeft' <= RowsLeft /\ RowsLeft' < RowsLeft
      BY <2>1, <2>3, <3>1, <3>5
    <3>7. /\ StepsLeft' + FiltersLeft' + 2 * RowsLeft' + BatchOpen' \in Nat
          /\ StepsLeft' + FiltersLeft' + 2 * RowsLeft' + BatchOpen'
               < StepsLeft + FiltersLeft + 2 * RowsLeft + BatchOpen
      BY <2>1, <3>6, SmallerSum
    <3> QED
      BY <3>7 DEF Work
  <2>7. CASE PushBatch
    <3>1. /\ StepsLeft' = StepsLeft /\ current' = current
          /\ LastRow' = LastRow /\ Filling > 0 /\ collected' = collected
          /\ ends \in Seq(Nat) /\ ends' = Append(ends, Len(collected))
      BY <2>7 DEF PushBatch, StepsLeft, LastRow, IInv, TypeOK
    <3>2. LastEnd' = Len(collected)
      BY <3>1, LoopBounds DEF LastEnd
    <3>3. Filling' = 0
      BY <3>1, <3>2, LoopBounds DEF Filling
    <3>4. BatchOpen = 1 /\ BatchOpen' = 0
      BY <3>1, <3>3 DEF BatchOpen
    <3> QED
      BY <2>1, <2>3, <3>1, <3>4, SmallerSum DEF Work
  <2>8. CASE Assemble \/ PruneUnknownColumn \/ AssembleUnknownColumn \/ ReaderFails
    <3>1. /\ StepsLeft' < StepsLeft /\ current' = current
          /\ LastRow' = LastRow /\ Filling' = Filling
      BY <2>8 DEF Assemble, PruneUnknownColumn, AssembleUnknownColumn, ReaderFails,
                  Exhausted, Return, StepsLeft, LastRow, Filling, LastEnd
    <3>2. /\ StepsLeft' <= StepsLeft /\ FiltersLeft' <= FiltersLeft
          /\ RowsLeft' <= RowsLeft /\ BatchOpen' <= BatchOpen
      BY <2>1, <2>3, <3>1
    <3>3. /\ StepsLeft' + FiltersLeft' + 2 * RowsLeft' + BatchOpen' \in Nat
          /\ StepsLeft' + FiltersLeft' + 2 * RowsLeft' + BatchOpen'
               < StepsLeft + FiltersLeft + 2 * RowsLeft + BatchOpen
      BY <2>1, <3>1, <3>2, SmallerSum
    <3> QED
      BY <3>3 DEF Work
  <2> QED
    BY <2>4, <2>5, <2>6, <2>7, <2>8 DEF Next, Step, Returned
<1> QED
  BY <1>1, Invariance, PTL DEF Spec, WorkShrinks

(* D-26 and T-03-04: over-pruning never drops a row the row filter accepts *)
(* when every literal is seen alike by the statistics and by the rows.     *)
THEOREM NeverOverPrunes == Spec => [](FiltersSameNumber => NoOverPruning)
  BY Invariance, KeepsAcceptedRows, PTL

LEMMA RowFilterIsWanted ==
  ASSUME IInv, FiltersExact, AllLookedAt, NEW r \in Rows
  PROVE  RowFilter(r) <=> Wanted(r)
<1>1. \A i \in DOMAIN filters : filters[i].column \in ColumnNames
  <2>1. filters \in Seq(FilterExpr)
    BY Shapes DEF IInv
  <2>2. DOMAIN filters = 1 .. Len(filters) /\ Len(filters) \in Nat
    BY <2>1
  <2>3. \A i \in DOMAIN filters : i \in 1 .. current - 1
    BY <2>2 DEF AllLookedAt
  <2> QED
    BY <2>3 DEF IInv
<1>2. ASSUME NEW i \in DOMAIN filters
      PROVE  LET f == filters[i]
             IN  /\ Comparable(ColType[f.column], f.value)
                 /\ Accepts(f, r) <=> Satisfies(f.op, file.cell[r][f.column], f.value)
  <2> DEFINE f == filters[i]
             type == ColType[f.column]
             x == file.cell[r][f.column]
  <2>1. f.column \in ColumnNames
    BY <1>1
  <2>2. f.op \in Op /\ f.value \in ScalarValue /\ type \in ColumnType
    BY <2>1, FilterShape
  <2>3. x \in Values(type) \cup {Null}
    BY <2>1, Shapes DEF IInv, IsFile, Rows
  <2>4. Exact(type, f.value)
    BY <2>1 DEF FiltersExact
  <2>5. EvaluatePredicate(type, f.op, f.value, x) <=> Satisfies(f.op, x, f.value)
    <3> HIDE DEF f, type, x
    <3> QED
      BY <2>2, <2>3, <2>4, ExactPredicate
  <2> QED
    BY <2>1, <2>4, <2>5 DEF Accepts, Exact
<1> QED
  BY <1>2 DEF RowFilter, Wanted

(* D-26: the answer contains only matching rows, by the meaning of the     *)
(* filters, whenever the columns can represent their literals or the guard *)
(* stands in for an integer literal beyond them.                           *)
THEOREM AnswerIsExact == Spec => [](FiltersExact => OnlyMatchingRows)
<1>1. IInv /\ FiltersExact => OnlyMatchingRows
  <2> SUFFICES ASSUME IInv, FiltersExact, result.status = "ok",
                      NEW i \in DOMAIN result.rows
               PROVE  Wanted(result.rows[i])
    BY DEF OnlyMatchingRows
  <2>1. AllLookedAt /\ result.rows[i] \in SelectedRows
    BY DEF IInv, IsListing
  <2> QED
    BY <2>1, RowFilterIsWanted DEF SelectedRows
<1> QED
  BY <1>1, Invariance, PTL

(* And no matching row is missing from it, however the rows are cut into   *)
(* groups, provided the statistics see the literals as the rows do.        *)
THEOREM AnswerIsComplete ==
  Spec => [](FiltersExact /\ FiltersSameNumber => NoMatchingRowLost)
<1>1. IInv /\ FiltersExact /\ FiltersSameNumber => NoMatchingRowLost
  <2> SUFFICES ASSUME IInv, FiltersExact, FiltersSameNumber, result.status = "ok",
                      NEW r \in Rows, Wanted(r)
               PROVE  \E i \in DOMAIN result.rows : result.rows[i] = r
    BY DEF NoMatchingRowLost
  <2>1. AllLookedAt /\ IsListing(result.rows, SelectedRows)
    BY DEF IInv
  <2>2. RowFilter(r)
    BY <2>1, RowFilterIsWanted
  <2>3. keep[file.group[r]]
    BY <2>2, KeepsAcceptedRows DEF NoOverPruning
  <2> QED
    BY <2>1, <2>2, <2>3 DEF SelectedRows, IsListing
<1> QED
  BY <1>1, Invariance, PTL

(* project puts the requested columns in the requested order.              *)
LEMMA ReorderIsRequest ==
  ASSUME IInv, columns # AllColumns => \A k \in DOMAIN columns : Found(columns[k])
  PROVE  /\ Reordered = Requested
         /\ \A i \in DOMAIN Requested : Requested[i] \in ColumnNames
<1>1. CASE columns = AllColumns
  BY <1>1 DEF Reordered, Requested, ColumnNames
<1>2. CASE columns # AllColumns
  <2>1. columns \in Seq(Names)
    BY <1>2, Shapes DEF IInv
  <2>2. ASSUME NEW k \in DOMAIN columns
        PROVE  Schema[IndexOf(columns[k])] = columns[k] /\ columns[k] \in ColumnNames
    <3>1. PICK i \in ProjectionMask : Schema[i] = columns[k]
      BY <1>2 DEF Found
    <3>2. IndexOf(columns[k]) \in ProjectionMask /\ Schema[IndexOf(columns[k])] = columns[k]
      BY <3>1 DEF IndexOf
    <3> QED
      BY <3>1, <3>2 DEF ProjectionMask, ColumnNames
  <2>3. columns = [k \in DOMAIN columns |-> columns[k]]
    BY <2>1
  <2>4. [k \in DOMAIN columns |-> Schema[IndexOf(columns[k])]]
        = [k \in DOMAIN columns |-> columns[k]]
    BY <2>2
  <2> QED
    BY <1>2, <2>2, <2>3, <2>4 DEF Reordered, Requested
<1> QED
  BY <1>1, <1>2

LEMMA AssembleAnswers == IInv /\ FiltersSameNumber /\ Assemble => ScanAnswer
<1> SUFFICES ASSUME IInv, FiltersSameNumber, Assemble PROVE ScanAnswer
  OBVIOUS
<1>1. /\ Exhausted /\ pc = "read" /\ UNCHANGED <<file, filters, columns>>
      /\ result' = [status |-> "ok", rows |-> Concat, cols |-> Reordered]
      /\ columns # AllColumns => \A k \in DOMAIN columns : Found(columns[k])
  BY DEF Assemble, Return, request, Exhausted
<1>2. result.status = "pending" /\ AllLookedAt
  BY <1>1 DEF IInv, TypeOK
<1>3. \A i \in DOMAIN filters : filters[i].column \in ColumnNames
  <2>1. filters \in Seq(FilterExpr)
    BY Shapes DEF IInv
  <2>2. DOMAIN filters = 1 .. Len(filters) /\ Len(filters) \in Nat
    BY <2>1
  <2>3. \A i \in DOMAIN filters : i \in 1 .. current - 1
    BY <1>2, <2>2 DEF AllLookedAt
  <2> QED
    BY <2>3 DEF IInv
<1>4. SelectedRows = Matching
  <2>1. \A r \in Rows : RowFilter(r) => keep[file.group[r]]
    BY KeepsAcceptedRows DEF NoOverPruning
  <2> QED
    BY <2>1 DEF SelectedRows, Matching, RowFilter
<1>5. IsListing(Concat, Matching)
  BY <1>1, <1>4, ConcatListsSelection
<1>6. Reordered = Requested /\ \A i \in DOMAIN Requested : Requested[i] \in ColumnNames
  BY <1>1, ReorderIsRequest
<1>7. result'.status = "ok" /\ result'.rows = Concat /\ result'.cols = Reordered
  BY <1>1
<1> QED
  BY <1>1, <1>2, <1>3, <1>5, <1>6, <1>7 DEF ScanAnswer, AllKnown

(* Whatever the row groups, their statistics and the batch size, a read    *)
(* whose literals are seen alike by statistics and rows implements         *)
(* FilteredScan: one answer, an error or exactly the accepted rows.        *)
THEOREM ImplementsFilteredScan == Spec /\ []FiltersSameNumber => ScanSpec
<1>1. Init => ScanInit
  BY DEF Init
<1>2. IInv /\ FiltersSameNumber /\ [Next]_vars => [ScanNext]_scanVars
  <2> SUFFICES ASSUME IInv, FiltersSameNumber, [Next]_vars
               PROVE  [ScanNext]_scanVars
    OBVIOUS
  <2>1. CASE Open \/ PruneByFilter \/ BuildReader \/ DecodeRow \/ PushBatch
             \/ Returned \/ UNCHANGED vars
    BY <2>1 DEF Open, PruneByFilter, BuildReader, DecodeRow, PushBatch, Returned,
                vars, request, scanVars
  <2>2. CASE PruneUnknownColumn \/ AssembleUnknownColumn \/ ReaderFails
    <3>1. /\ pc \in {"open", "prune", "read"} /\ result' = Err
          /\ UNCHANGED <<file, filters, columns>>
      BY <2>2 DEF PruneUnknownColumn, AssembleUnknownColumn, ReaderFails, Exhausted,
                  Return, request
    <3>2. result.status = "pending"
      BY <3>1 DEF IInv, TypeOK
    <3> QED
      BY <3>1, <3>2 DEF ScanNext, ScanFail
  <2>3. CASE Assemble
    BY <2>3, AssembleAnswers DEF ScanNext
  <2> QED
    BY <2>1, <2>2, <2>3 DEF Next, Step
<1> QED
  BY <1>1, <1>2, Invariance, PTL DEF Spec, ScanSpec
=============================================================================
