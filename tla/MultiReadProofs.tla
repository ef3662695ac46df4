--------------------------- MODULE MultiReadProofs ---------------------------
(***************************************************************************)
(* Proofs about ParquetStore and MultiRead.                                *)
(***************************************************************************)
EXTENDS MultiRead, FiniteSetTheorems, SequenceTheorems, TLAPS

(***************************************************************************)
(* The operators of ParquetFiles.                                          *)
(***************************************************************************)

LEMMA FunctionIsSeq ==
  ASSUME NEW S, NEW n \in Nat, NEW f \in [1 .. n -> S]
  PROVE  f \in Seq(S) /\ Len(f) = n
<1>1. f \in Seq(S)
  BY SeqDef, Zenon
<1>2. Len(f) \in Nat /\ 1 .. Len(f) = 1 .. n
  BY <1>1, LenProperties, Zenon
<1> QED
  BY <1>1, <1>2

LEMMA CallShape ==
  ASSUME call \in Calls, NEW w \in Writers
  PROVE  call[w] \in Call /\ Target(w) \in Paths /\ call[w].table \in Table
<1>1. call[w] \in Call
  BY CallsAssumption
<1> QED
  BY <1>1 DEF Call, Target

LEMMA ContentShape ==
  ASSUME NEW t \in Table
  PROVE  /\ Whole(t) \in Content /\ Mixed(t) \in Content /\ Damaged(t) \in Content
         /\ Junk \in Content /\ Absent \in Content
<1>1. NoTable \in Table
  BY DEF NoTable, Table
<1> QED
  BY <1>1 DEF Whole, Mixed, Damaged, Junk, Absent, Content

LEMMA RequestShape ==
  ASSUME NEW r \in Requests
  PROVE  /\ r.mode \in {"single", "directory", "list"}
         /\ r.paths \in Seq(Paths)
         /\ r.mode = "single" => Len(r.paths) = 1
         /\ r.columns \in Seq(Names) \cup {None}
BY MultiReadAssumption

(* What the request leaves of a table is a table, with the columns asked   *)
(* for at their places.                                                    *)
LEMMA BatchShape ==
  ASSUME NEW t \in Table, NEW r \in Requests, Knows(t, r)
  PROVE  /\ BatchOf(t, r) \in Table
         /\ r.columns # None =>
              /\ Len(BatchOf(t, r).fields) = Len(r.columns)
              /\ \A i \in DOMAIN r.columns : BatchOf(t, r).fields[i].name = r.columns[i]
<1> DEFINE s == BatchOf(t, r).fields
<1>1. t.fields \in Seq(Field) /\ t.rows \subseteq Rows
  BY DEF Table
<1>2. BatchOf(t, r).rows \subseteq Rows
  BY <1>1 DEF BatchOf
<1>3. CASE r.columns = None
  <2>1. s \in Seq(Field)
    BY <1>1, <1>3 DEF BatchOf
  <2>2. BatchOf(t, r) = [fields |-> s, rows |-> BatchOf(t, r).rows]
    BY DEF BatchOf
  <2> QED
    BY <1>2, <1>3, <2>1, <2>2 DEF Table
<1>4. CASE r.columns # None
  <2>1. r.columns \in Seq(Names)
    BY <1>4, RequestShape
  <2>2. ASSUME NEW k \in DOMAIN r.columns
        PROVE  FieldNamed(t, r.columns[k]) \in Field
               /\ FieldNamed(t, r.columns[k]).name = r.columns[k]
    <3>1. \E i \in DOMAIN t.fields : t.fields[i].name = r.columns[k]
      BY <1>4 DEF Knows, HasColumn
    <3> QED
      BY <1>1, <3>1 DEF FieldNamed
  <2>3. s = [k \in 1 .. Len(r.columns) |-> FieldNamed(t, r.columns[k])]
    BY <1>4, <2>1 DEF BatchOf
  <2>4. s \in [1 .. Len(r.columns) -> Field] /\ Len(r.columns) \in Nat
    BY <2>1, <2>2, <2>3
  <2>5. s \in Seq(Field) /\ Len(s) = Len(r.columns)
    <3> HIDE DEF s
    <3> QED
      BY <2>4, FunctionIsSeq
  <2>6. BatchOf(t, r) = [fields |-> s, rows |-> BatchOf(t, r).rows]
    BY DEF BatchOf
  <2>7. BatchOf(t, r) \in Table
    <3> HIDE DEF s
    <3> QED
      BY <1>2, <2>5, <2>6 DEF Table
  <2>8. \A i \in DOMAIN r.columns : s[i].name = r.columns[i]
    BY <2>1, <2>2, <2>3
  <2> QED
    BY <2>5, <2>7, <2>8
<1> QED
  BY <1>3, <1>4

(* Whatever a read gives has the columns of the footer it went by; a good  *)
(* file gives one batch, and only a good or a mixed one gives any.         *)
LEMMA ReadingShape ==
  ASSUME NEW c \in Content, NEW r \in Requests, Knows(c.table, r),
         NEW b \in Readings(c, r) \cup Scrambled(c.table, r)
  PROVE  /\ b \in Table /\ b.fields = BatchOf(c.table, r).fields
         /\ b \in Readings(c, r) => c.kind \in {"whole", "mixed"}
         /\ b \in Readings(c, r) /\ c.kind = "whole" => b = BatchOf(c.table, r)
<1>1. c.table \in Table /\ BatchOf(c.table, r) \in Table
  BY BatchShape DEF Content
<1>2. b \in Scrambled(c.table, r) => b \in Table /\ b.fields = BatchOf(c.table, r).fields
  BY <1>1 DEF Scrambled, Table
<1>3. b \in Readings(c, r) =>
        \/ c.kind = "whole" /\ b = BatchOf(c.table, r)
        \/ c.kind = "mixed" /\ b \in Scrambled(c.table, r)
  BY DEF Readings
<1> QED
  BY <1>1, <1>2, <1>3

(* A resolved request has at least one path.                               *)
LEMMA ResolutionShape ==
  ASSUME request \in Requests, Resolvable(request), NEW s \in Resolutions(request)
  PROVE  /\ s \in Seq(Paths) /\ s # <<>>
         /\ Len(s) <= Len(request.paths) + Cardinality(Paths)
<1>p. Len(request.paths) \in Nat /\ Cardinality(Paths) \in Nat
  BY RequestShape, FilesAssumption, FS_CardinalityType, LenProperties
<1>1. CASE request.mode = "directory"
  <2>1. Listing # {} /\ Listing \subseteq Paths
    BY <1>1, FilesAssumption DEF Resolvable, Listing
  <2>2. IsFiniteSet(Listing)
    BY <2>1, FilesAssumption, FS_Subset
  <2>3. Cardinality(Listing) \in Nat /\ Cardinality(Listing) # 0
    BY <2>1, <2>2, FS_CardinalityType, FS_EmptySet
  <2>7. Cardinality(Listing) <= Cardinality(Paths)
    BY <2>1, FilesAssumption, FS_Subset
  <2>4. s \in [1 .. Cardinality(Listing) -> Listing]
    BY <1>1 DEF Resolutions
  <2>5. s \in Seq(Listing) /\ Len(s) = Cardinality(Listing)
    BY <2>3, <2>4, FunctionIsSeq
  <2>6. s \in Seq(Paths)
    BY <2>1, <2>5, SeqMonotonic, Zenon
  <2> QED
    BY <1>p, <2>3, <2>5, <2>6, <2>7
<1>2. CASE request.mode = "single"
  <2>1. s = request.paths
    BY <1>2 DEF Resolutions
  <2>2. request.paths \in Seq(Paths) /\ Len(request.paths) = 1
    BY <1>2, RequestShape
  <2>3. request.paths # <<>>
    <3> SUFFICES ASSUME request.paths = <<>> PROVE FALSE
      OBVIOUS
    <3>1. Len(request.paths) = 0
      BY EmptySeq
    <3> QED
      BY <2>2, <3>1
  <2> QED
    BY <1>p, <2>1, <2>2, <2>3
<1>3. CASE request.mode = "list"
  <2>1. s = request.paths /\ request.paths # <<>>
    BY <1>3 DEF Resolutions, Resolvable
  <2> QED
    BY <1>p, <1>3, <2>1, RequestShape
<1> QED
  BY <1>1, <1>2, <1>3, RequestShape

(* Matching schemas are the same schema.                                   *)
LEMMA MatchingIsEqual ==
  ASSUME NEW s \in Seq(Field), NEW t \in Seq(Field), SchemasMatch(s, t)
  PROVE  s = t
<1>1. \A i \in DOMAIN s \cup DOMAIN t :
        i \in DOMAIN s /\ i \in DOMAIN t /\ FieldsMatch(s[i], t[i])
  BY DEF SchemasMatch, Differences
<1>2. DOMAIN s = DOMAIN t
  BY <1>1
<1>3. Len(s) = Len(t)
  BY <1>2
<1>4. \A i \in 1 .. Len(s) : s[i] = t[i]
  <2> TAKE i \in 1 .. Len(s)
  <2>1. s[i] \in Field /\ t[i] \in Field /\ FieldsMatch(s[i], t[i])
    BY <1>1, <1>3
  <2> QED
    BY <2>1 DEF Field, FieldsMatch
<1> QED
  BY <1>3, <1>4

-----------------------------------------------------------------------------
(***************************************************************************)
(* The writers.                                                            *)
(***************************************************************************)

StoreTyped == disk \in [Paths -> Content] /\ StoreInv

LEMMA StoreStarts == ScanInit /\ StoreInit => StoreTyped
<1> SUFFICES ASSUME ScanInit, StoreInit PROVE StoreTyped
  OBVIOUS
<1>1. disk \in [Paths -> Content]
  BY MultiReadAssumption DEF ScanInit
<1>2. \A p \in Paths : disk[p].table \in Table
  BY <1>1 DEF Content
<1>3. StoreTypeOK
  BY <1>2 DEF StoreInit, StoreTypeOK, TablesOf
<1> QED
  BY <1>1, <1>3 DEF StoreTyped, StoreInv, StoreInit, FinishedWriteStays, Alone

(* Leaving a content at the target keeps the types and the history.        *)
LEMMA LeaveShape ==
  ASSUME StoreTyped, NEW w \in Writers, NEW c \in Content, Leave(w, c)
  PROVE  /\ disk' \in [Paths -> Content]
         /\ held' \in [Paths -> SUBSET Table]
         /\ disk'[Target(w)] = c
         /\ \A p \in Paths : p # Target(w) => disk'[p] = disk[p]
         /\ \A p \in Paths : held[p] \subseteq held'[p]
         /\ \A p \in Paths : p # Target(w) => held'[p] = held[p]
         /\ \A p \in Paths : TablesOf(disk'[p]) \subseteq held'[p]
         /\ written' = written
<1>1. Target(w) \in Paths /\ c.table \in Table
  BY CallShape DEF StoreTyped, StoreInv, StoreTypeOK, Content
<1>2. TablesOf(c) \subseteq Table
  BY <1>1 DEF TablesOf
<1> QED
  BY <1>1, <1>2 DEF Leave, StoreTyped, StoreInv, StoreTypeOK

LEMMA LeftIsContent ==
  ASSUME StoreTyped, NEW w \in Writers
  PROVE  /\ ClosedAt(w) \subseteq Content /\ AbandonedAt(w) \subseteq Content
         /\ Overlapped(Target(w)) \subseteq Content
<1>1. call \in Calls /\ openers[Target(w)] \subseteq Writers /\ call[w].table \in Table
  BY CallShape DEF StoreTyped, StoreInv, StoreTypeOK
<1>2. \A v \in openers[Target(w)] : call[v].table \in Table
  BY <1>1, CallShape
<1> QED
  BY <1>1, <1>2, ContentShape DEF ClosedAt, AbandonedAt, Overlapped

(* Histories grow, and nothing changes where nobody has created a file.    *)
StoreMoves ==
  /\ written \subseteq written' /\ written' \subseteq Paths
  /\ \A p \in Paths : held[p] \subseteq held'[p]
  /\ \A p \in Paths \ written' :
       disk'[p] = disk[p] /\ held'[p] = held[p] /\ openers'[p] = openers[p]

LEMMA StoreStep ==
  ASSUME StoreTyped, NEW w \in Writers, Write(w)
  PROVE  StoreTyped' /\ StoreMoves
<1> USE DEF StoreTyped, StoreInv, StoreTypeOK, StoreMoves
<1>0. /\ \A v \in Writers : Target(v) \in Paths
      /\ call' = call /\ \A v \in Writers : Target(v)' = Target(v)
      /\ \A v \in Writers : Valid(v)' = Valid(v)
      /\ {Target(v) : v \in Writers} \subseteq Paths
      /\ {Target(v) : v \in Writers}' = {Target(v) : v \in Writers}
  BY CallShape DEF Write, Validate, Refuse, Create, CreateFails, WriteOver, Close, WriteFails,
                   Target, Valid
<1>1. CASE Validate(w)
  BY <1>0, <1>1 DEF Validate, FinishedWriteStays, Alone
<1>2. CASE Refuse(w)
  BY <1>0, <1>2 DEF Refuse, FinishedWriteStays, Alone
<1>3. CASE Create(w)
  <2>1. /\ disk' \in [Paths -> Content]
        /\ openers' \in [Paths -> SUBSET Writers]
        /\ wpc' \in [Writers -> {"start", "create", "writing", "ok", "refused", "failed"}]
        /\ UNCHANGED held /\ written' = written \cup {Target(w)}
        /\ \A p \in Paths \ written' : disk'[p] = disk[p] /\ openers'[p] = openers[p]
    BY <1>0, <1>3, ContentShape DEF Create, Table, Junk, NoTable, Content
  <2>2. \A p \in Paths : \A v \in openers'[p] :
          Target(v) = p /\ wpc'[v] \in {"writing", "ok", "failed"}
    BY <1>0, <1>3 DEF Create
  <2>3. \A v \in Writers :
          wpc'[v] = "writing" => v \in openers'[Target(v)] /\ Target(v) \in written'
    BY <1>0, <1>3 DEF Create
  <2>4. \A p \in Paths : TablesOf(disk'[p]) \subseteq held[p]
    BY <1>0, <1>3 DEF Create, TablesOf, Junk
  <2>5. \A v \in Writers : wpc'[v] = "ok" /\ openers'[Target(v)] = {v} =>
          disk'[Target(v)] = Whole(call[v].table)
    BY <1>0, <1>3 DEF Create, FinishedWriteStays, Alone
  <2> QED
    BY <1>0, <1>3, <2>1, <2>2, <2>3, <2>4, <2>5 DEF Create, FinishedWriteStays, Alone
<1>4. CASE CreateFails(w)
  BY <1>0, <1>4 DEF CreateFails, FinishedWriteStays, Alone
<1>5. CASE Close(w)
  <2>1. PICK c \in ClosedAt(w) : Leave(w, c)
    BY <1>5 DEF Close
  <2>2. c \in Content
    BY <2>1, LeftIsContent
  <2>3. \A v \in Writers : wpc'[v] = "ok" /\ openers[Target(v)] = {v} =>
          disk'[Target(v)] = Whole(call[v].table)
    <3> TAKE v \in Writers
    <3> HAVE wpc'[v] = "ok" /\ openers[Target(v)] = {v}
    <3>1. CASE v = w
      BY <2>1, <2>2, <3>1, LeaveShape DEF ClosedAt, Alone
    <3>2. CASE v # w
      <4>1. wpc[v] = "ok" /\ w \in openers[Target(w)]
        BY <1>5, <3>2 DEF Close
      <4>2. Target(v) # Target(w)
        BY <3>2, <4>1
      <4> QED
        BY <1>0, <2>1, <2>2, <4>1, <4>2, LeaveShape DEF FinishedWriteStays, Alone
    <3> QED
      BY <3>1, <3>2
  <2> QED
    BY <1>0, <1>5, <2>1, <2>2, <2>3, LeaveShape DEF Close, FinishedWriteStays, Alone
<1>6. CASE WriteFails(w)
  <2>1. PICK c \in AbandonedAt(w) : Leave(w, c)
    BY <1>6 DEF WriteFails
  <2>2. c \in Content
    BY <2>1, LeftIsContent
  <2>3. \A v \in Writers : wpc'[v] = "ok" /\ openers[Target(v)] = {v} =>
          disk'[Target(v)] = Whole(call[v].table)
    <3> TAKE v \in Writers
    <3> HAVE wpc'[v] = "ok" /\ openers[Target(v)] = {v}
    <3>1. v # w /\ wpc[v] = "ok" /\ w \in openers[Target(w)]
      BY <1>6 DEF WriteFails
    <3>2. Target(v) # Target(w)
      BY <3>1
    <3> QED
      BY <1>0, <2>1, <2>2, <3>1, <3>2, LeaveShape DEF FinishedWriteStays, Alone
  <2> QED
    BY <1>0, <1>6, <2>1, <2>2, <2>3, LeaveShape DEF WriteFails, FinishedWriteStays, Alone
<1>7. CASE WriteOver(w)
  <2>1. PICK c \in Overlapped(Target(w)) : Leave(w, c)
    BY <1>7 DEF WriteOver
  <2>2. c \in Content
    BY <2>1, LeftIsContent
  <2>3. \A v \in Writers : wpc[v] = "ok" /\ openers[Target(v)] = {v} =>
          disk'[Target(v)] = Whole(call[v].table)
    <3> TAKE v \in Writers
    <3> HAVE wpc[v] = "ok" /\ openers[Target(v)] = {v}
    <3>1. v # w /\ w \in openers[Target(w)]
      BY <1>7 DEF WriteOver
    <3>2. Target(v) # Target(w)
      BY <3>1
    <3> QED
      BY <1>0, <2>1, <2>2, <3>2, LeaveShape DEF FinishedWriteStays, Alone
  <2> QED
    BY <1>0, <1>7, <2>1, <2>2, <2>3, LeaveShape DEF WriteOver, FinishedWriteStays, Alone
<1> QED
  BY <1>1, <1>2, <1>3, <1>4, <1>5, <1>6, <1>7 DEF Write

-----------------------------------------------------------------------------
(***************************************************************************)
(* The reader, whatever the writers do.                                    *)
(***************************************************************************)

Loud == TypeOK /\ StoreInv /\ ReadInv

(* The invariant at the start.                                             *)
LEMMA Starts == Init => IInv
<1> SUFFICES ASSUME Init PROVE IInv
  OBVIOUS
<1>1. StoreTyped
  BY StoreStarts DEF Init
<1>2. /\ request \in Requests /\ answer = NoAnswer /\ rpc = "resolve" /\ paths = <<>>
      /\ first = <<>> /\ next = 1 /\ handle = Absent /\ batches = <<>>
      /\ opened = {} /\ torn = {} /\ written = {}
  BY DEF Init, ScanInit, StoreInit
<1>3. /\ paths \in Seq(Paths) /\ first \in Seq(Field) /\ batches \in Seq(Table)
      /\ Len(batches) = 0
  BY <1>2, EmptySeq, Zenon
<1>4. handle \in Content
  BY <1>2 DEF Absent, Content, NoTable, Table
<1>5. TypeOK
  BY <1>1, <1>2, <1>3, <1>4 DEF TypeOK, StoreTyped, StoreInv, NoAnswer
<1>6. ReadInv
  BY <1>2, <1>3 DEF ReadInv, NoAnswer
<1>7. QuietInv
  BY <1>2, <1>3 DEF QuietInv
<1> QED
  BY <1>1, <1>5, <1>6, <1>7 DEF IInv, StoreTyped

(* What a step of the reader leaves alone, and what a return is.           *)
LEMMA ReaderLeavesStore ==
  ASSUME StoreInv, UNCHANGED storeVars
  PROVE  StoreInv' /\ StoreTypeOK'
BY DEF StoreInv, StoreTypeOK, storeVars, TablesOf, FinishedWriteStays, Alone, Target, Valid

(* What the reader relies on about a batch it has, and about an open file. *)
BatchOK(k) ==
  /\ k \in DOMAIN paths
  /\ NamedAsAsked(batches[k].fields)
  /\ IF k \in torn THEN MayTear(paths[k]) ELSE BatchHeld(k)

LEMMA ReturnKeeps ==
  ASSUME Loud, rpc # "done", NEW a, Return(a), a.kind \in {"invalid", "read", "mismatch", "panic"},
         UNCHANGED <<request, paths, first, next, handle, opened, batches, torn, storeVars>>
  PROVE  Loud'
<1>1. StoreInv' /\ StoreTypeOK'
  BY ReaderLeavesStore DEF Loud, storeVars
<1>2. TypeOK'
  BY <1>1 DEF Loud, TypeOK, Return, storeVars
<1>3. ReadInv'
  BY DEF Loud, ReadInv, BatchHeld, NamedAsAsked, MayTear, Return, storeVars
<1> QED
  BY <1>1, <1>2, <1>3 DEF Loud

(* A step that moves on without an answer and without a batch.             *)
LEMMA AdvanceKeeps ==
  ASSUME Loud, rpc # "done",
         rpc' \in {"first", "check", "open", "read"},
         first' \in Seq(Field), handle' \in Content, opened' \subseteq Writers,
         paths' \in Seq(Paths),
         rpc' = "read" => handle' = disk[paths'[next]] /\ opened' = openers[paths'[next]],
         paths' # <<>>, paths' = paths \/ batches = <<>>,
         rpc' = "first" => next = 1, rpc' # "first" => next \in DOMAIN paths',
         UNCHANGED <<request, answer, next, batches, torn, storeVars>>
  PROVE  Loud'
<1>1. StoreInv' /\ StoreTypeOK'
  BY ReaderLeavesStore DEF Loud, storeVars
<1>2. TypeOK'
  BY <1>1 DEF Loud, TypeOK, storeVars
<1>3. answer.kind # "ok"
  BY DEF Loud, TypeOK
<1>4. ASSUME NEW k \in DOMAIN batches
      PROVE  BatchOK(k)'
  <2>1. paths' = paths
    BY <1>4 DEF Loud, TypeOK
  <2> QED
    BY <2>1, <1>4 DEF Loud, ReadInv, BatchOK, BatchHeld, NamedAsAsked, MayTear, storeVars
<1>5. ReadInv'
  BY <1>3, <1>4 DEF ReadInv, BatchOK, Current, storeVars
<1> QED
  BY <1>1, <1>2, <1>5 DEF Loud

LEMMA ErrorKinds ==
  /\ \A p : ReadError(p).kind = "read" /\ ReadError(p).parts = <<>>
  /\ \A p, n : SchemaMismatch(p, n).kind = "mismatch" /\ SchemaMismatch(p, n).parts = <<>>
  /\ Panic.kind = "panic" /\ InvalidArgument.kind = "invalid" /\ InvalidArgument.parts = <<>>
BY DEF ReadError, SchemaMismatch, Panic, InvalidArgument, NoAnswer

LEMMA AnswerShape ==
  ASSUME NEW s, NEW t
  PROVE  Answer(s, t).kind = "ok" /\ Answer(s, t).fields = s /\ Answer(s, t).parts = t
BY DEF Answer, NoAnswer

LEMMA ResolveErrorKind ==
  ASSUME NEW r
  PROVE  ResolveError(r).kind \in {"invalid", "read"} /\ ResolveError(r).parts = <<>>
BY ErrorKinds DEF ResolveError

LEMMA ReadStepKeeps == ASSUME Loud, Read PROVE Loud'
<1> USE DEF Loud
<1>t. /\ disk \in [Paths -> Content] /\ request \in Requests /\ paths \in Seq(Paths)
      /\ first \in Seq(Field) /\ handle \in Content /\ next \in Nat \ {0}
      /\ batches \in Seq(Table) /\ Len(batches) = next - 1 /\ torn \subseteq DOMAIN batches
      /\ answer.kind = "pending" <=> rpc # "done"
      /\ opened \subseteq Writers /\ openers \in [Paths -> SUBSET Writers]
  BY DEF TypeOK, StoreTypeOK
<1>c. rpc \in {"check", "open", "read"} =>
        paths[next] \in Paths /\ Current \in Content /\ Current.table.fields \in Seq(Field)
  BY <1>t DEF ReadInv, Current, Content, Table
<1>1. CASE ResolvePaths
  <2>1. paths' \in Seq(Paths) /\ paths' # <<>>
    BY <1>1, <1>t, ResolutionShape DEF ResolvePaths
  <2>2. next = 1 /\ batches = <<>>
    BY <1>1, <1>t, EmptySeq DEF ResolvePaths, ReadInv
  <2> QED
    BY <1>1, <1>t, <2>1, <2>2, AdvanceKeeps DEF ResolvePaths
<1>2. CASE RejectPaths
  BY <1>2, ResolveErrorKind, ReturnKeeps DEF RejectPaths
<1>3. CASE ReadFirstSchema
  <2>1. paths # <<>> /\ next = 1
    BY <1>3 DEF ReadFirstSchema, ReadInv
  <2>2. 1 \in DOMAIN paths /\ paths[1] \in Paths
    BY <1>t, <2>1
  <2>3. first' \in Seq(Field)
    BY <1>3, <1>t, <2>2 DEF ReadFirstSchema, Content, Table
  <2> QED
    BY <1>3, <1>t, <2>1, <2>2, <2>3, AdvanceKeeps DEF ReadFirstSchema
<1>4. CASE FirstSchemaFails
  BY <1>4, ErrorKinds, ReturnKeeps DEF FirstSchemaFails
<1>5. CASE CheckSchema
  <2>1. paths # <<>> /\ next \in DOMAIN paths
    BY <1>5 DEF CheckSchema, ReadInv
  <2> QED
    BY <1>5, <1>t, <2>1, AdvanceKeeps DEF CheckSchema
<1>6. CASE RejectSchema
  BY <1>6, ErrorKinds, ReturnKeeps DEF RejectSchema
<1>7. CASE OpenFile
  <2>1. paths # <<>> /\ next \in DOMAIN paths /\ openers[paths[next]] \subseteq Writers
    BY <1>7, <1>t, <1>c DEF OpenFile, ReadInv
  <2> QED
    BY <1>7, <1>t, <1>c, <2>1, AdvanceKeeps DEF OpenFile, Current
<1>8. CASE OpenFails
  BY <1>8, ErrorKinds, ReturnKeeps DEF OpenFails
<1>9. CASE ReadRows
  <2>1. StoreInv' /\ StoreTypeOK'
    BY <1>9, ReaderLeavesStore DEF ReadRows
  <2>2. /\ Current \in Content /\ next \in DOMAIN paths /\ paths[next] \in Paths
        /\ handle.table \in Table /\ Knows(handle.table, request)
    BY <1>9, <1>c, <1>t DEF ReadRows, ReadInv, Content
  <2>3. PICK b \in Decoded : batches' = Append(batches, b)
    BY <1>9 DEF ReadRows
  <2>4. /\ b \in Readings(handle, request) \cup Scrambled(handle.table, request)
        /\ Untouched => b \in Readings(handle, request)
    BY <2>3 DEF Decoded
  <2>10. /\ b \in Table /\ b.fields = BatchOf(handle.table, request).fields
         /\ b \in Readings(handle, request) => handle.kind \in {"whole", "mixed"}
         /\ b \in Readings(handle, request) /\ handle.kind = "whole" =>
              b = BatchOf(handle.table, request)
    BY <2>2, <2>4, <1>t, ReadingShape
  <2>11. NamedAsAsked(b.fields)
    <3> SUFFICES ASSUME request.columns # None PROVE NamedAsAsked(b.fields)
      BY DEF NamedAsAsked
    <3>1. request.columns \in Seq(Names)
      BY <1>t, RequestShape
    <3>2. /\ Len(b.fields) = Len(request.columns)
          /\ \A i \in DOMAIN request.columns : b.fields[i].name = request.columns[i]
      BY <1>t, <2>2, <2>10, BatchShape
    <3>3. DOMAIN b.fields = DOMAIN request.columns
      BY <2>10, <3>1, <3>2 DEF Table
    <3> QED
      BY <3>2, <3>3 DEF NamedAsAsked
  <2>5. /\ batches' \in Seq(Table) /\ Len(batches') = next
        /\ DOMAIN batches' = DOMAIN batches \cup {next}
        /\ \A k \in DOMAIN batches : batches'[k] = batches[k]
        /\ batches'[next] = b
    BY <1>t, <2>3, <2>10
  <2>6. TypeOK'
    BY <1>9, <1>t, <2>1, <2>5 DEF ReadRows, TypeOK, storeVars
  <2>12. ASSUME ~Certain PROVE MayTear(paths[next])
    BY <1>9, <2>4, <2>10, <2>12
       DEF ReadRows, ReadInv, MayTear, Certain, Untouched, Current
  <2>13. next \notin torn /\ next \notin DOMAIN batches
    BY <1>t
  <2>14. /\ Certain => torn' = torn
         /\ ~Certain => torn' = torn \cup {next}
         /\ rpc = "read" /\ UNCHANGED <<request, paths, disk, held, written>>
    BY <1>9 DEF ReadRows, storeVars
  <2>8. ASSUME NEW k \in DOMAIN batches'
        PROVE  BatchOK(k)'
    <3>1. CASE k = next /\ Certain
      <4>1. handle.table \in held'[paths'[k]] /\ batches'[k] = BatchOf(handle.table, request)
        BY <1>9, <2>2, <2>4, <2>5, <2>10, <2>14, <3>1
           DEF StoreInv, TablesOf, Current, Certain, Untouched
      <4>2. BatchHeld(k)' /\ k \notin torn'
        BY <2>2, <2>13, <2>14, <3>1, <4>1 DEF BatchHeld
      <4> QED
        BY <2>2, <2>5, <2>11, <2>14, <3>1, <4>2 DEF BatchOK, NamedAsAsked
    <3>2. CASE k = next /\ ~Certain
      BY <2>2, <2>5, <2>11, <2>12, <2>14, <3>2 DEF BatchOK, NamedAsAsked, MayTear
    <3>3. CASE k \in DOMAIN batches
      <4>1. BatchOK(k) /\ k # next
        BY <2>13, <3>3 DEF ReadInv, BatchOK
      <4>2. batches'[k] = batches[k] /\ (k \in torn' <=> k \in torn)
        BY <2>5, <2>14, <3>3, <4>1
      <4> QED
        BY <2>14, <4>1, <4>2 DEF BatchOK, BatchHeld, NamedAsAsked, MayTear
    <3> QED
      BY <2>5, <2>8, <3>1, <3>2, <3>3
  <2>9. ReadInv'
    <3>1. next' \in DOMAIN paths \/ Len(batches') = Len(paths)
      BY <1>9, <1>t, <2>2, <2>5 DEF ReadRows
    <3>2. /\ rpc' = "check" => next' \in DOMAIN paths
          /\ rpc' = "concat" => Len(batches') = Len(paths)
          /\ rpc' \in {"check", "concat"}
      BY <1>9, <1>t, <2>2, <2>5 DEF ReadRows
    <3>3. paths # <<>> /\ answer.kind # "ok"
      BY <1>9, <1>t DEF ReadRows, ReadInv
    <3> QED
      BY <1>9, <2>8, <3>2, <3>3 DEF ReadRows, ReadInv, BatchOK
  <2> QED
    BY <2>1, <2>6, <2>9
<1>10. CASE ReadFails
  BY <1>10, ErrorKinds, ReturnKeeps DEF ReadFails
<1>11. CASE ReturnOnly \/ Concat
  <2>1. /\ rpc = "concat" /\ batches # <<>> /\ Return(Answer(Leading, Parts))
        /\ UNCHANGED <<request, paths, first, next, handle, opened, batches, torn, storeVars>>
    BY <1>11, <1>t, EmptySeq DEF ReturnOnly, Concat, Several, Leading
  <2>2. StoreInv' /\ StoreTypeOK'
    BY <2>1, ReaderLeavesStore
  <2>3. TypeOK'
    BY <1>t, <2>1, <2>2, AnswerShape DEF Return, TypeOK, storeVars
  <2>4. ReadInv'
    BY <2>1 DEF ReadInv, Return, BatchHeld, NamedAsAsked, MayTear, Leading, Parts, storeVars
  <2> QED
    BY <2>2, <2>3, <2>4
<1>12. CASE ConcatFails
  BY <1>12, ErrorKinds, ReturnKeeps DEF ConcatFails, Several
<1>13. CASE ConcatPanics
  BY <1>13, ErrorKinds, ReturnKeeps DEF ConcatPanics, Several
<1> QED
  BY <1>1, <1>2, <1>3, <1>4, <1>5, <1>6, <1>7, <1>8, <1>9, <1>10, <1>11, <1>12, <1>13 DEF Read

(* A step of a writer leaves the reader's part true: histories only grow.  *)
LEMMA WriteStepKeeps ==
  ASSUME Loud, NEW w \in Writers, Write(w), UNCHANGED readVars
  PROVE  Loud'
<1>1. StoreTyped' /\ StoreMoves
  BY StoreStep DEF Loud, StoreTyped, TypeOK
<1>2. TypeOK'
  BY <1>1 DEF Loud, TypeOK, StoreTyped, StoreInv, readVars
<1>3. ASSUME NEW k \in DOMAIN batches
      PROVE  BatchOK(k)'
  <2>1. BatchOK(k) /\ paths[k] \in Paths
    BY <1>3 DEF Loud, ReadInv, BatchOK, TypeOK
  <2>2. MayTear(paths[k]) => MayTear(paths[k])'
    BY <1>1, <2>1 DEF MayTear, StoreMoves, readVars
  <2>3. BatchHeld(k) => BatchHeld(k)'
    BY <1>1, <2>1 DEF BatchHeld, StoreMoves, readVars
  <2> QED
    BY <2>1, <2>2, <2>3 DEF BatchOK, NamedAsAsked, readVars
<1>5. ASSUME rpc' = "read", paths'[next'] \notin written'
      PROVE  opened' = openers'[paths'[next']] /\ handle' = Current'
  <2>1. rpc = "read" /\ paths[next] \in Paths \ written'
    BY <1>5 DEF Loud, ReadInv, TypeOK, readVars
  <2> QED
    BY <1>1, <2>1 DEF Loud, ReadInv, Current, StoreMoves, readVars
<1>4. ReadInv'
  BY <1>3, <1>5 DEF Loud, ReadInv, BatchOK, readVars, Leading, Parts
<1> QED
  BY <1>1, <1>2, <1>4 DEF Loud, StoreTyped


-----------------------------------------------------------------------------
(***************************************************************************)
(* The reader when nobody writes.                                          *)
(***************************************************************************)

LEMMA ResolutionStays ==
  ASSUME UNCHANGED <<disk, request>>
  PROVE  /\ Resolvable(request)' <=> Resolvable(request)
         /\ Resolutions(request)' = Resolutions(request)
BY DEF Resolvable, Resolutions, Listing, BadElements, Exists, IsDir

LEMMA BatchesStay ==
  ASSUME QuietInv, UNCHANGED <<disk, request, batches>>, paths' = paths \/ batches = <<>>
  PROVE  \A k \in DOMAIN batches' : BatchCurrent(k)'
<1>1. CASE paths' = paths
  BY <1>1 DEF QuietInv, BatchCurrent
<1>2. CASE batches = <<>>
  BY <1>2
<1> QED
  BY <1>1, <1>2

LEMMA QuietStepKeeps == ASSUME Loud, QuietInv, Read PROVE QuietInv'
<1>d. UNCHANGED <<disk, request>>
  BY DEF Read, ResolvePaths, RejectPaths, ReadFirstSchema, FirstSchemaFails, CheckSchema,
         RejectSchema, OpenFile, OpenFails, ReadRows, ReadFails, ReturnOnly, Concat,
         ConcatFails, ConcatPanics, storeVars
<1>w. written' = {}
  BY DEF QuietInv, Read, ResolvePaths, RejectPaths, ReadFirstSchema, FirstSchemaFails,
         CheckSchema, RejectSchema, OpenFile, OpenFails, ReadRows, ReadFails, ReturnOnly,
         Concat, ConcatFails, ConcatPanics, storeVars
<1>1. CASE ResolvePaths
  <2>1. batches = <<>>
    BY <1>1, EmptySeq DEF ResolvePaths, Loud, TypeOK, ReadInv
  <2>2. \A k \in DOMAIN batches' : BatchCurrent(k)'
    BY <1>1, <1>d, <2>1, BatchesStay DEF ResolvePaths
  <2>3. Resolvable(request)' /\ paths' \in Resolutions(request)'
    BY <1>1, <1>d, ResolutionStays DEF ResolvePaths
  <2> QED
    BY <1>1, <1>w, <2>2, <2>3 DEF ResolvePaths, QuietInv
<1>2. CASE /\ rpc' = "done"
           /\ UNCHANGED <<paths, batches>>
  BY <1>2, <1>d, <1>w, BatchesStay DEF QuietInv
<1>3. CASE ReadFirstSchema \/ CheckSchema \/ OpenFile
  <2>1. UNCHANGED <<paths, batches, next>>
    BY <1>3 DEF ReadFirstSchema, CheckSchema, OpenFile
  <2>2. \A k \in DOMAIN batches' : BatchCurrent(k)'
    BY <1>d, <2>1, BatchesStay
  <2>3. Resolvable(request)' /\ paths' \in Resolutions(request)'
    BY <1>3, <1>d, <2>1, ResolutionStays
       DEF ReadFirstSchema, CheckSchema, OpenFile, QuietInv
  <2>4. Current' = Current
    BY <1>d, <2>1 DEF Current
  <2> QED
    BY <1>3, <1>d, <1>w, <2>1, <2>2, <2>3, <2>4
       DEF ReadFirstSchema, CheckSchema, OpenFile, QuietInv
<1>4. CASE ReadRows
  <2>1. /\ rpc' \in {"check", "concat"} /\ rpc = "read" /\ UNCHANGED <<paths, first>>
        /\ \E b \in Decoded : batches' = Append(batches, b)
        /\ Knows(handle.table, request)
    BY <1>4 DEF ReadRows
  <2>2. Resolvable(request)' /\ paths' \in Resolutions(request)'
    BY <1>d, <2>1, ResolutionStays DEF QuietInv
  <2>3. first' = disk'[paths'[1]].table.fields
    BY <1>d, <2>1 DEF QuietInv
  <2>4. /\ batches \in Seq(Table) /\ Len(batches) = next - 1 /\ next \in Nat \ {0}
    BY DEF Loud, TypeOK
  <2>6. PICK b \in Decoded : batches' = Append(batches, b)
    BY <2>1
  <2>7. handle = Current /\ b \in Readings(Current, request) /\ Knows(Current.table, request)
    <3>1. handle = Current /\ opened = openers[paths[next]]
      BY <2>1 DEF Loud, ReadInv, QuietInv
    <3> QED
      BY <2>1, <2>6, <3>1 DEF Decoded, Untouched
  <2>5. ASSUME NEW k \in DOMAIN batches' PROVE BatchCurrent(k)'
    <3>1. CASE k \in DOMAIN batches
      <4>1. batches'[k] = batches[k] /\ BatchCurrent(k)
        BY <2>4, <2>6, <3>1 DEF QuietInv
      <4> QED
        BY <1>d, <2>1, <4>1 DEF BatchCurrent
    <3>2. CASE k = next
      <4>1. batches'[k] = b
        BY <2>4, <2>6, <3>2
      <4>2. SchemasMatch(disk[paths[1]].table.fields, Current.table.fields)
        BY <1>4 DEF ReadRows, QuietInv
      <4> QED
        BY <1>d, <2>1, <2>7, <3>2, <4>1, <4>2 DEF BatchCurrent, Current
    <3> QED
      BY <2>4, <2>5, <2>6, <3>1, <3>2
  <2> QED
    BY <1>w, <2>1, <2>2, <2>3, <2>5 DEF QuietInv
<1> QED
  BY <1>1, <1>2, <1>3, <1>4
     DEF Read, Return, RejectPaths, FirstSchemaFails, RejectSchema, OpenFails, ReadFails,
         ReturnOnly, Concat, ConcatFails, ConcatPanics

-----------------------------------------------------------------------------
(***************************************************************************)
(* The theorems.                                                           *)
(***************************************************************************)

LEMMA Preserved == IInv /\ [Next]_vars => IInv'
<1> SUFFICES ASSUME IInv, [Next]_vars PROVE IInv'
  OBVIOUS
<1>1. CASE Read
  BY <1>1, ReadStepKeeps, QuietStepKeeps DEF IInv, Loud, Quiet
<1>2. ASSUME NEW w \in Writers, Write(w), UNCHANGED readVars
      PROVE  IInv'
  BY <1>2, WriteStepKeeps DEF IInv, Loud, Quiet
<1>3. CASE UNCHANGED vars
  <2>1. UNCHANGED storeVars /\ UNCHANGED readVars /\ disk' = disk /\ paths' = paths
        /\ batches' = batches /\ request' = request
    BY <1>3 DEF vars, readVars, storeVars
  <2>2. StoreInv' /\ StoreTypeOK'
    BY <2>1, ReaderLeavesStore DEF IInv
  <2>3. TypeOK'
    BY <2>1, <2>2 DEF IInv, TypeOK, readVars
  <2>4. ReadInv'
    BY <2>1 DEF IInv, ReadInv, BatchHeld, NamedAsAsked, MayTear, Current, Leading, Parts,
                readVars, storeVars
  <2>5. QuietInv => QuietInv'
    <3> SUFFICES ASSUME QuietInv PROVE QuietInv'
      OBVIOUS
    <3>1. \A k \in DOMAIN batches' : BatchCurrent(k)'
      BY <2>1, BatchesStay
    <3>2. Current' = Current
      BY <2>1 DEF Current, readVars
    <3> QED
      BY <2>1, <3>1, <3>2, ResolutionStays DEF QuietInv, readVars, storeVars
  <2> QED
    BY <2>2, <2>3, <2>4, <2>5 DEF IInv, Quiet
<1> QED
  BY <1>1, <1>2, <1>3 DEF Next, Returned

(* The inductive invariant, for any paths, writers, tables and requests.   *)
THEOREM Invariance == Spec => []IInv
BY Starts, Preserved, PTL DEF Spec

(* Reader and writers keep their types.                                    *)
THEOREM TypeCorrect == Spec => []TypeOK
<1>1. IInv => TypeOK
  BY DEF IInv
<1> QED
  BY <1>1, Invariance, PTL

(* Every part of an answer comes from one table that was whole at its      *)
(* path, but for those torn, whose file somebody created during the call   *)
(* or several writers had left mixed before it.                            *)
THEOREM PartsAreWhole == Spec => []PartsWereWritten
<1>1. IInv => PartsWereWritten
  <2> SUFFICES ASSUME IInv, answer.kind = "ok"
               PROVE  /\ Len(answer.parts) = Len(paths)
                      /\ \A k \in DOMAIN paths :
                           WasHeld(k, answer.parts[k]) \/ (k \in torn /\ MayTear(paths[k]))
    BY DEF PartsWereWritten
  <2>1. /\ batches \in Seq(Table) /\ paths \in Seq(Paths)
        /\ Len(batches) = Len(paths) /\ answer.parts = Parts
    BY AnswerShape DEF IInv, TypeOK, ReadInv
  <2>2. DOMAIN batches = 1 .. Len(paths) /\ DOMAIN paths = 1 .. Len(paths)
        /\ Len(paths) \in Nat
    BY <2>1
  <2>3. Parts = [k \in 1 .. Len(paths) |-> batches[k].rows]
    BY <2>2 DEF Parts
  <2>4. \A k \in 1 .. Len(paths) : batches[k].rows \in SUBSET Rows
    <3>1. \A k \in 1 .. Len(paths) : batches[k] \in Table
      BY <2>1, <2>2
    <3> QED
      BY <3>1 DEF Table
  <2>5. Parts \in [1 .. Len(paths) -> SUBSET Rows]
    BY <2>3, <2>4
  <2>6. Len(Parts) = Len(paths)
    BY <2>2, <2>5, FunctionIsSeq
  <2>7. ASSUME NEW k \in DOMAIN paths
        PROVE  WasHeld(k, answer.parts[k]) \/ (k \in torn /\ MayTear(paths[k]))
    BY <2>1, <2>2, <2>3, <2>7 DEF IInv, ReadInv, BatchHeld, WasHeld
  <2> QED
    BY <2>1, <2>6, <2>7
<1> QED
  BY <1>1, Invariance, PTL

(* Projected columns are found by name in every file.                      *)
THEOREM ProjectionIsByName == Spec => []ProjectedByName
<1>1. IInv => ProjectedByName
  <2> SUFFICES ASSUME IInv, answer.kind = "ok", request.columns # None
               PROVE  /\ Len(answer.fields) = Len(request.columns)
                      /\ \A k \in DOMAIN batches : \A i \in DOMAIN request.columns :
                           batches[k].fields[i].name = request.columns[i]
    BY DEF ProjectedByName
  <2>1. ASSUME NEW k \in DOMAIN batches
        PROVE  /\ Len(batches[k].fields) = Len(request.columns)
               /\ \A i \in DOMAIN request.columns :
                    batches[k].fields[i].name = request.columns[i]
    <3>1. NamedAsAsked(batches[k].fields) /\ batches[k] \in Table
      BY <2>1 DEF IInv, ReadInv, TypeOK
    <3>2. /\ Len(batches[k].fields) = Len(request.columns)
          /\ \A i \in DOMAIN batches[k].fields :
               batches[k].fields[i].name = request.columns[i]
      BY <3>1 DEF NamedAsAsked
    <3>3. request.columns \in Seq(Names)
      BY RequestShape DEF IInv, TypeOK
    <3>4. DOMAIN batches[k].fields = DOMAIN request.columns
      BY <3>1, <3>2, <3>3 DEF Table
    <3> QED
      BY <3>2, <3>4
  <2>2. 1 \in DOMAIN batches
    <3>1. batches \in Seq(Table) /\ batches # <<>>
      BY DEF IInv, TypeOK, ReadInv
    <3> QED
      BY <3>1
  <2>3. answer.fields = batches[1].fields
    BY AnswerShape DEF IInv, ReadInv, Leading
  <2> QED
    BY <2>1, <2>2, <2>3
<1> QED
  BY <1>1, Invariance, PTL

(* A refused write never touched its target.                               *)
THEOREM RefusalsAreClean == Spec => []RefusedTouchesNothing
<1>1. IInv => RefusedTouchesNothing
  BY DEF IInv, StoreInv, StoreTypeOK, RefusedTouchesNothing, Valid
<1> QED
  BY <1>1, Invariance, PTL

(* What a write that nobody overlapped left stays until the next write.    *)
THEOREM WritesStay == Spec => []FinishedWriteStays
<1>1. IInv => FinishedWriteStays
  BY DEF IInv, StoreInv
<1> QED
  BY <1>1, Invariance, PTL

-----------------------------------------------------------------------------
(***************************************************************************)
(* The errors, when nobody writes.                                         *)
(***************************************************************************)

LEMMA LeastElement ==
  ASSUME NEW S, S \subseteq Nat, S # {}
  PROVE  FirstOf(S) \in S /\ \A j \in S : FirstOf(S) <= j
<1>1. \E k \in S : \A j \in S : ~ (<<j, k>> \in OpToRel(<, Nat))
  BY NatLessThanWellFounded, WFMin, Zenon
<1>2. PICK k \in S : \A j \in S : ~ (<<j, k>> \in OpToRel(<, Nat))
  BY <1>1
<1>3. \A j \in S : ~ (j < k)
  BY <1>2, Zenon DEF OpToRel
<1>4. \A j \in S : k <= j
  BY <1>3
<1> QED
  BY <1>4 DEF FirstOf

(* The column a mismatch names is where the schemas first part.            *)
LEMMA MismatchShape ==
  ASSUME NEW s \in Seq(Field), NEW t \in Seq(Field), ~SchemasMatch(s, t)
  PROVE  \E i \in Differences(s, t) :
           /\ \A j \in 1 .. i - 1 : FieldsMatch(s[j], t[j])
           /\ FirstMismatch(s, t) = IF i \in DOMAIN s THEN s[i].name ELSE t[i].name
<1> DEFINE i == FirstOf(Differences(s, t))
<1>1. Differences(s, t) \subseteq Nat \ {0} /\ Differences(s, t) # {}
  BY DEF SchemasMatch, Differences
<1>2. i \in Differences(s, t) /\ \A j \in Differences(s, t) : i <= j
  BY <1>1, LeastElement
<1>3. i \in Nat \ {0} /\ (i \in 1 .. Len(s) \/ i \in 1 .. Len(t))
  BY <1>1, <1>2 DEF Differences
<1>4. ASSUME NEW j \in 1 .. i - 1 PROVE FieldsMatch(s[j], t[j])
  <2> HIDE DEF i
  <2>1. j \in DOMAIN s \cup DOMAIN t
    BY <1>3
  <2>2. j \notin Differences(s, t)
    BY <1>2, <1>3
  <2> QED
    BY <2>1, <2>2 DEF Differences
<1>5. FirstMismatch(s, t) = IF i \in DOMAIN s THEN s[i].name ELSE t[i].name
  BY DEF FirstMismatch, FirstOf
<1> QED
  BY <1>2, <1>4, <1>5

(* The first bad element of a list is one.                                 *)
LEMMA BadElementShape ==
  ASSUME NEW s \in Seq(Paths), BadElements(s) # {}, disk \in [Paths -> Content],
         NEW p, p = s[FirstOf(BadElements(s))], ~IsDir(p)
  PROVE  ~Exists(p) \/ p \notin ParquetNamed
<1>1. BadElements(s) \subseteq Nat
  BY DEF BadElements
<1>2. FirstOf(BadElements(s)) \in BadElements(s)
  BY <1>1, LeastElement
<1> QED
  BY <1>2 DEF BadElements

(* A mismatch is answered by one step only.                                *)
LEMMA MismatchComesFromCheck ==
  ASSUME IInv, Read, answer'.kind = "mismatch"
  PROVE  RejectSchema
<1>1. answer.kind # "mismatch" /\ rpc # "done"
  BY DEF IInv, TypeOK, Read, ResolvePaths, RejectPaths, ReadFirstSchema, FirstSchemaFails,
         CheckSchema, RejectSchema, OpenFile, OpenFails, ReadRows, ReadFails, ReturnOnly,
         Concat, ConcatFails, ConcatPanics, Several
<1>2. ~(ResolvePaths \/ ReadFirstSchema \/ CheckSchema \/ OpenFile \/ ReadRows)
  BY <1>1 DEF ResolvePaths, ReadFirstSchema, CheckSchema, OpenFile, ReadRows
<1>3. ~(RejectPaths \/ FirstSchemaFails \/ OpenFails \/ ReadFails \/ ConcatFails \/ ConcatPanics)
  BY ErrorKinds, ResolveErrorKind
     DEF RejectPaths, FirstSchemaFails, OpenFails, ReadFails, ConcatFails, ConcatPanics, Return
<1>4. ~(ReturnOnly \/ Concat)
  BY AnswerShape DEF ReturnOnly, Concat, Return
<1> QED
  BY <1>2, <1>3, <1>4 DEF Read

LEMMA MismatchStep == ASSUME IInv, Quiet, RejectSchema PROVE MismatchIsFirst'
<1> USE DEF IInv
<1> DEFINE s == disk[paths[1]].table.fields
           t == disk[paths[next]].table.fields
<1>1. /\ rpc = "check" /\ UNCHANGED <<disk, paths>>
      /\ ~SchemasMatch(first, Current.table.fields)
      /\ answer' = SchemaMismatch(paths[next], FirstMismatch(first, Current.table.fields))
  BY DEF RejectSchema, Return, storeVars
<1>2. /\ next \in DOMAIN paths /\ 1 \in DOMAIN paths /\ paths[next] \in Paths
      /\ paths[1] \in Paths /\ next \in Nat \ {0}
      /\ batches \in Seq(Table) /\ Len(batches) = next - 1
  BY <1>1 DEF TypeOK, ReadInv
<1>3. s \in Seq(Field) /\ t \in Seq(Field)
  BY <1>2 DEF TypeOK, Content, Table
<1>4. first = s /\ Current.table.fields = t
  BY <1>1 DEF QuietInv, Current
<1>5. ~SchemasMatch(s, t)
  BY <1>1, <1>4
<1>6. \A j \in 1 .. next - 1 : SchemasMatch(s, disk[paths[j]].table.fields)
  <2>1. \A j \in 1 .. next - 1 : j \in DOMAIN batches
    BY <1>2
  <2> QED
    BY <2>1 DEF QuietInv, BatchCurrent
<1>7. /\ answer'.path = paths[next]
      /\ answer'.column = FirstMismatch(s, t)
  BY <1>1, <1>4 DEF SchemaMismatch, NoAnswer
<1>8. \E i \in Differences(s, t) :
        /\ \A j \in 1 .. i - 1 : FieldsMatch(s[j], t[j])
        /\ answer'.column = IF i \in DOMAIN s THEN s[i].name ELSE t[i].name
  <2> HIDE DEF s, t
  <2> QED
    BY <1>3, <1>5, <1>7, MismatchShape
<1> QED
  BY <1>1, <1>2, <1>6, <1>7, <1>8 DEF MismatchIsFirst

(* The file and the column a schema mismatch names are the first ones.     *)
THEOREM MismatchNamesFirst == Spec => []MismatchIsFirst
<1>1. Init => MismatchIsFirst
  BY DEF Init, ScanInit, NoAnswer, MismatchIsFirst
<1>2. IInv /\ MismatchIsFirst /\ [Next]_vars => MismatchIsFirst'
  <2> SUFFICES ASSUME IInv, MismatchIsFirst, [Next]_vars, Quiet, answer'.kind = "mismatch"
               PROVE  MismatchIsFirst'
    BY DEF MismatchIsFirst, Quiet
  <2>1. CASE Read
    BY <2>1, MismatchComesFromCheck, MismatchStep
  <2>2. CASE UNCHANGED vars
    BY <2>2 DEF MismatchIsFirst, vars, readVars, storeVars
  <2> QED
    BY <2>1, <2>2 DEF Next, Returned, Quiet
<1> QED
  BY <1>1, <1>2, Invariance, PTL DEF Spec

-----------------------------------------------------------------------------
(* The answer of the last step is the one MultiScan asks for.              *)
LEMMA QuietAnswer == ASSUME IInv, Quiet, ReturnOnly \/ Concat PROVE ScanAnswer
<1> USE DEF IInv
<1>1. /\ rpc = "concat" /\ answer' = Answer(Leading, Parts) /\ batches # <<>>
      /\ UNCHANGED <<disk, request>> /\ answer.kind = "pending"
  BY EmptySeq DEF ReturnOnly, Concat, Several, Return, Leading, TypeOK, storeVars
<1>2. /\ batches \in Seq(Table) /\ paths \in Seq(Paths) /\ Len(batches) = Len(paths)
  BY <1>1 DEF TypeOK, ReadInv
<1>3. DOMAIN batches = DOMAIN paths /\ 1 \in DOMAIN paths
  BY <1>1, <1>2
<1>4. \A k \in DOMAIN paths : BatchCurrent(k) /\ batches[k] \in Gives(paths[k])
  BY <1>3 DEF QuietInv, BatchCurrent, Gives
<1>5. AllOf(paths)
  BY <1>4 DEF AllOf, BatchCurrent, Readings, HasFooter
<1>6. batches = [k \in DOMAIN paths |-> batches[k]]
  BY <1>2, <1>3
<1>7. batches \in [DOMAIN paths -> UNION {Gives(paths[k]) : k \in DOMAIN paths}]
  BY <1>4, <1>6
<1>9. answer' = Answer(batches[1].fields, [k \in DOMAIN paths |-> batches[k].rows])
  BY <1>1, <1>3 DEF Leading, Parts
<1>8. Resolvable(request) /\ paths \in Resolutions(request)
  BY <1>1 DEF QuietInv
<1> QED
  BY <1>1, <1>4, <1>5, <1>7, <1>8, <1>9 DEF ScanAnswer

(* Even the batch of a mixed file has the columns of its footer.           *)
LEMMA CurrentFields ==
  ASSUME TypeOK, NEW k, BatchCurrent(k), paths[k] \in Paths
  PROVE  batches[k].fields = BatchOf(disk[paths[k]].table, request).fields
<1>1. disk[paths[k]] \in Content /\ request \in Requests
  BY DEF TypeOK
<1> QED
  BY <1>1, ReadingShape DEF BatchCurrent

(* Files with one schema cannot panic the concatenation.                   *)
LEMMA QuietNeverPanics == ASSUME IInv, Quiet, rpc = "concat" PROVE ColumnsThere
<1> USE DEF IInv
<1>1. /\ batches \in Seq(Table) /\ paths \in Seq(Paths) /\ Len(batches) = Len(paths)
      /\ disk \in [Paths -> Content] /\ paths # <<>>
  BY DEF TypeOK, ReadInv
<1>2. DOMAIN batches = DOMAIN paths /\ 1 \in DOMAIN paths
  BY <1>1
<1>3. ASSUME NEW k \in DOMAIN batches
      PROVE  Len(batches[k].fields) = Len(batches[1].fields)
  <2>1. BatchCurrent(k) /\ BatchCurrent(1)
    BY <1>2, <1>3 DEF QuietInv
  <2>2. paths[k] \in Paths /\ paths[1] \in Paths
    BY <1>1, <1>2, <1>3
  <2>3. /\ disk[paths[k]].table.fields \in Seq(Field)
        /\ disk[paths[1]].table.fields \in Seq(Field)
    BY <1>1, <2>2 DEF Content, Table
  <2>4. disk[paths[k]].table.fields = disk[paths[1]].table.fields
    BY <2>1, <2>3, MatchingIsEqual DEF BatchCurrent
  <2>5. /\ batches[k].fields = BatchOf(disk[paths[k]].table, request).fields
        /\ batches[1].fields = BatchOf(disk[paths[1]].table, request).fields
    BY <2>1, <2>2, CurrentFields
  <2>6. BatchOf(disk[paths[k]].table, request).fields =
          BatchOf(disk[paths[1]].table, request).fields
    BY <2>4 DEF BatchOf, FieldNamed
  <2> QED
    BY <2>5, <2>6
<1>4. \A k \in DOMAIN batches : Len(Leading) = Len(batches[k].fields)
  BY <1>3 DEF Leading
<1>5. Len(Leading) \in Nat
  BY <1>1, <1>2 DEF Leading, Table
<1> QED
  BY <1>4, <1>5 DEF ColumnsThere

(* When nobody writes, reading several files is one answer from the disk:  *)
(* an error, or all files' rows in the caller's order under one schema.    *)
THEOREM ImplementsMultiScan == Writers = {} => (Spec => ScanSpec)
<1> SUFFICES ASSUME Writers = {} PROVE Spec => ScanSpec
  OBVIOUS
<1>1. Init => ScanInit
  BY DEF Init
<1>2. IInv /\ [Next]_vars => [ScanNext]_scanVars
  <2> SUFFICES ASSUME IInv, [Next]_vars PROVE [ScanNext]_scanVars
    OBVIOUS
  <2>1. CASE ReturnOnly \/ Concat
    BY <2>1, QuietAnswer DEF ScanNext, Quiet
  <2>2. CASE RejectPaths \/ FirstSchemaFails \/ RejectSchema \/ OpenFails \/ ReadFails
             \/ ConcatFails
    <3>1. /\ answer.kind = "pending" /\ UNCHANGED <<disk, request>>
      BY <2>2 DEF IInv, TypeOK, RejectPaths, FirstSchemaFails, RejectSchema, OpenFails,
                  ReadFails, ConcatFails, Several, storeVars
    <3>2. answer'.kind \in {"invalid", "read", "mismatch"} /\ answer'.parts = <<>>
      BY <2>2, ErrorKinds, ResolveErrorKind
         DEF RejectPaths, FirstSchemaFails, RejectSchema, OpenFails, ReadFails,
             ConcatFails, Return
    <3> QED
      BY <3>1, <3>2 DEF ScanFail, ScanNext
  <2>3. CASE ConcatPanics
    BY <2>3, QuietNeverPanics DEF ConcatPanics, Several, Quiet
  <2>4. CASE ResolvePaths \/ ReadFirstSchema \/ CheckSchema \/ OpenFile \/ ReadRows
    BY <2>4 DEF ResolvePaths, ReadFirstSchema, CheckSchema, OpenFile, ReadRows,
                storeVars, scanVars
  <2>5. CASE UNCHANGED vars
    BY <2>5 DEF vars, readVars, storeVars, scanVars
  <2> QED
    BY <2>1, <2>2, <2>3, <2>4, <2>5 DEF Next, Read, Returned
<1> QED
  BY <1>1, <1>2, Invariance, PTL DEF Spec, ScanSpec

-----------------------------------------------------------------------------
(* A concatenation of files with one schema fails only by overflow.        *)
LEMMA QuietTypes ==
  ASSUME IInv, Quiet, Several, NothingLimited
  PROVE  TypesAgree /\ NullsAgree /\ ~CanOverflow
<1> USE DEF IInv
<1> DEFINE t == disk[paths[1]].table
<1>1. /\ batches \in Seq(Table) /\ paths \in Seq(Paths) /\ Len(batches) = Len(paths)
      /\ disk \in [Paths -> Content] /\ request \in Requests /\ Len(batches) > 1
  BY DEF TypeOK, ReadInv, Several
<1>2. DOMAIN batches = DOMAIN paths /\ 1 \in DOMAIN paths /\ paths[1] \in Paths
  BY <1>1
<1>3. t \in Table /\ t.fields \in Seq(Field)
  BY <1>1, <1>2 DEF Content, Table
<1>4. ASSUME NEW k \in DOMAIN batches
      PROVE  batches[k].fields = BatchOf(t, request).fields
  <2>1. BatchCurrent(k) /\ paths[k] \in Paths
    BY <1>1, <1>2, <1>4 DEF QuietInv
  <2>2. disk[paths[k]].table.fields \in Seq(Field)
    BY <1>1, <2>1 DEF Content, Table
  <2>3. disk[paths[k]].table.fields = t.fields
    BY <1>3, <2>1, <2>2, MatchingIsEqual DEF BatchCurrent
  <2>4. BatchOf(disk[paths[k]].table, request).fields = BatchOf(t, request).fields
    BY <2>3 DEF BatchOf, FieldNamed
  <2> QED
    BY <2>1, <2>4, CurrentFields
<1>5. Leading = BatchOf(t, request).fields /\ Knows(t, request)
  BY <1>2, <1>4 DEF Leading, QuietInv, BatchCurrent
<1>6. \A k \in DOMAIN batches : batches[k].fields = Leading
  BY <1>4, <1>5
<1>7. TypesAgree /\ NullsAgree
  BY <1>6 DEF TypesAgree, NullsAgree
<1>8. ASSUME NEW i \in DOMAIN Leading PROVE Leading[i].type \notin Limited
  <2>1. CASE request.columns = None
    BY <1>2, <1>5, <1>8, <2>1 DEF BatchOf, NothingLimited
  <2>2. CASE request.columns # None
    <3>1. i \in DOMAIN request.columns /\ Leading[i] = FieldNamed(t, request.columns[i])
      BY <1>5, <1>8, <2>2 DEF BatchOf
    <3>2. \E j \in DOMAIN t.fields : t.fields[j].name = request.columns[i]
      BY <1>5, <2>2, <3>1 DEF Knows, HasColumn
    <3>3. \E j \in DOMAIN t.fields : Leading[i] = t.fields[j]
      BY <3>1, <3>2 DEF FieldNamed
    <3> QED
      BY <1>2, <3>3 DEF NothingLimited
  <2> QED
    BY <2>1, <2>2
<1> QED
  BY <1>7, <1>8 DEF CanOverflow

LEMMA ResolveErrorIsTrue ==
  ASSUME IInv, RejectPaths, answer'.kind = "read"
  PROVE  ~Readable(answer'.path)
<1> USE DEF IInv
<1> DEFINE p == request.paths[FirstOf(BadElements(request.paths))]
<1>1. ~Resolvable(request) /\ answer' = ResolveError(request)
  BY DEF RejectPaths, Return
<1>2. answer' # InvalidArgument
  BY ErrorKinds
<1>3. /\ request.mode = "list" /\ request.paths # <<>>
      /\ ~IsDir(p) /\ answer' = ReadError(p)
  BY <1>1, <1>2 DEF ResolveError
<1>4. request.paths \in Seq(Paths) /\ disk \in [Paths -> Content]
  BY RequestShape DEF TypeOK
<1>5. BadElements(request.paths) # {}
  BY <1>1, <1>3 DEF Resolvable
<1>6. ~Exists(p) \/ p \notin ParquetNamed
  BY <1>3, <1>4, <1>5, BadElementShape
<1>7. answer'.path = p
  BY <1>3 DEF ReadError, NoAnswer
<1> QED
  BY <1>6, <1>7 DEF Readable, Exists

LEMMA ReadErrorStep ==
  ASSUME IInv, Quiet, NothingLimited, Read, answer'.kind = "read"
  PROVE  ~Readable(answer'.path)
<1> USE DEF IInv
<1>e. \A p : ReadError(p).path = p
  BY DEF ReadError, NoAnswer
<1>1. CASE RejectPaths
  BY <1>1, ResolveErrorIsTrue
<1>2. CASE FirstSchemaFails
  BY <1>2, <1>e DEF FirstSchemaFails, Return, Readable, HasFooter
<1>3. CASE OpenFails
  BY <1>3, <1>e DEF OpenFails, Return, Readable, HasFooter, Current
<1>4. CASE ReadFails
  <2>1. handle = Current /\ (Certain <=> Current.kind = "whole")
    BY <1>4 DEF ReadFails, QuietInv, ReadInv, Certain, Untouched
  <2> QED
    BY <1>4, <1>e, <2>1 DEF ReadFails, Return, Readable, Current
<1>5. CASE ConcatFails
  BY <1>5, QuietTypes DEF ConcatFails
<1>6. CASE RejectSchema \/ ConcatPanics
  BY <1>6, ErrorKinds DEF RejectSchema, ConcatPanics, Return
<1>7. CASE ReturnOnly \/ Concat
  BY <1>7, AnswerShape DEF ReturnOnly, Concat, Return
<1>8. CASE ResolvePaths \/ ReadFirstSchema \/ CheckSchema \/ OpenFile \/ ReadRows
  <2>1. answer'.kind = "pending"
    BY <1>8 DEF TypeOK, ResolvePaths, ReadFirstSchema, CheckSchema, OpenFile, ReadRows
  <2> QED
    BY <2>1
<1> QED
  BY <1>1, <1>2, <1>3, <1>4, <1>5, <1>6, <1>7, <1>8 DEF Read

(* A read error names a file that cannot be read, except on overflow.      *)
THEOREM ReadErrorNamesTheFile == Spec => []ReadErrorIsTrue
<1> USE DEF ReadErrorIsTrue, ReadErrorNamesOffender
<1>1. Init => ReadErrorIsTrue
  BY DEF Init, ScanInit, NoAnswer
<1>2. IInv /\ ReadErrorIsTrue /\ [Next]_vars => ReadErrorIsTrue'
  <2> SUFFICES ASSUME IInv, ReadErrorIsTrue, [Next]_vars, Quiet, NothingLimited',
                      answer'.kind = "read"
               PROVE  ~Readable(answer.path)'
    BY DEF Quiet
  <2>1. UNCHANGED <<disk, request>>
    BY DEF Next, Quiet, Returned, vars, readVars, storeVars, Read, ResolvePaths, RejectPaths,
           ReadFirstSchema, FirstSchemaFails, CheckSchema, RejectSchema, OpenFile, OpenFails,
           ReadRows, ReadFails, ReturnOnly, Concat, ConcatFails, ConcatPanics
  <2>2. NothingLimited
    BY <2>1 DEF NothingLimited
  <2>3. CASE Read
    BY <2>1, <2>2, <2>3, ReadErrorStep DEF Readable
  <2>4. CASE UNCHANGED vars
    BY <2>1, <2>2, <2>4 DEF Readable, vars, readVars
  <2> QED
    BY <2>3, <2>4 DEF Next, Returned, Quiet
<1> QED
  BY <1>1, <1>2, Invariance, PTL DEF Spec

-----------------------------------------------------------------------------
(***************************************************************************)
(* What is left of MultiScan when others write.                            *)
(***************************************************************************)

(* The batches behind an answer, but for those torn, are what the request  *)
(* leaves of one table for each path, of those the path has held.          *)
LEMMA BusyAnswers == ASSUME IInv, ReturnOnly \/ Concat PROVE BusyAnswer
<1> USE DEF IInv
<1>1. /\ rpc = "concat" /\ answer' = Answer(Leading, Parts) /\ batches # <<>>
      /\ UNCHANGED <<disk, held, written, request, paths, torn>> /\ Unanswered
  BY EmptySeq DEF ReturnOnly, Concat, Several, Return, Leading, TypeOK, storeVars, Unanswered
<1>2. /\ batches \in Seq(Table) /\ paths \in Seq(Paths) /\ Len(batches) = Len(paths)
      /\ paths # <<>>
  BY <1>1 DEF TypeOK, ReadInv
<1>3. DOMAIN batches = DOMAIN paths /\ 1 \in DOMAIN paths
  BY <1>1, <1>2
<1>4. \A k \in DOMAIN paths : paths[k] \in Paths /\ (k \notin torn => BatchHeld(k))
  BY <1>2, <1>3 DEF ReadInv
<1>5. /\ answer'.fields = Leading /\ answer'.parts = Parts
      /\ Parts = [k \in DOMAIN paths |-> batches[k].rows]
  BY <1>1, <1>3, AnswerShape DEF Parts
<1>6. \A k \in DOMAIN paths : batches[k] \in Table
  BY <1>2, <1>3
<1>7. answer'.parts \in [DOMAIN paths -> SUBSET Rows]
  BY <1>5, <1>6 DEF Table
<1>8. NamedAsAsked(answer'.fields)
  BY <1>3, <1>5 DEF ReadInv, Leading
<1>9. ASSUME NEW k \in DOMAIN paths
      PROVE  FitsUnder(batches[k].fields, Leading)
  <2>2. batches[k].fields \in Seq(Field) /\ Leading \in Seq(Field)
    BY <1>3, <1>6 DEF Table, Leading
  <2>3. CASE Concat
    <3>1. Len(Leading) <= Len(batches[k].fields)
      BY <1>3, <1>9, <2>3 DEF Concat, ColumnsThere
    <3>2. DOMAIN Leading \subseteq DOMAIN batches[k].fields
      BY <2>2, <3>1
    <3>3. \A i \in DOMAIN Leading : batches[k].fields[i].type = Leading[i].type
      BY <1>3, <1>9, <2>3, <3>2 DEF Concat, TypesAgree
    <3> QED
      BY <3>1, <3>3 DEF FitsUnder
  <2>4. CASE ReturnOnly
    <3>1. Len(batches) = 1
      BY <2>4 DEF ReturnOnly
    <3>2. k = 1
      BY <1>2, <1>3, <1>9, <3>1
    <3> QED
      BY <2>2, <3>2 DEF FitsUnder, Leading
  <2> QED
    BY <2>3, <2>4
<1>10. ASSUME NEW k \in DOMAIN paths \ torn
       PROVE  \E t \in EverHeld : IsPart(k, t, answer'.fields, answer'.parts[k])
  <2>1. PICK t \in held[paths[k]] : Knows(t, request) /\ batches[k] = BatchOf(t, request)
    BY <1>4 DEF BatchHeld
  <2>2. t \in EverHeld
    BY <1>4, <2>1 DEF EverHeld
  <2>3. answer'.parts[k] = batches[k].rows
    BY <1>5
  <2>4. FitsUnder(batches[k].fields, answer'.fields)
    BY <1>5, <1>9
  <2>5. k = 1 => answer'.fields = batches[k].fields
    BY <1>5 DEF Leading
  <2> QED
    BY <2>1, <2>2, <2>3, <2>4, <2>5 DEF IsPart
<1>11. answer' = Answer(answer'.fields, answer'.parts)
  BY <1>1, <1>5
<1> QED
  BY <1>1, <1>2, <1>7, <1>8, <1>10, <1>11 DEF BusyAnswer

(* Every other end of a call is an error of one of its files, a refusal of *)
(* its paths, or a panic over several files.                               *)
LEMMA BusyFails ==
  ASSUME IInv, FirstSchemaFails \/ RejectSchema \/ OpenFails \/ ReadFails
               \/ ConcatFails \/ ConcatPanics
  PROVE  BusyFail
<1> USE DEF IInv
<1>1. /\ Unanswered /\ UNCHANGED <<disk, held, written, request, paths, torn>>
      /\ rpc \in {"first", "check", "open", "read", "concat"}
  BY DEF TypeOK, Unanswered, FirstSchemaFails, RejectSchema, OpenFails, ReadFails,
         ConcatFails, ConcatPanics, Several, storeVars
<1>2. paths # <<>> /\ paths \in Seq(Paths)
  BY <1>1 DEF TypeOK, ReadInv
<1>3. 1 \in DOMAIN paths
  BY <1>2
<1>4. rpc \in {"check", "open", "read"} => next \in DOMAIN paths
  BY DEF ReadInv
<1>5. /\ \A p : ReadError(p).path = p
      /\ \A p, n : SchemaMismatch(p, n).path = p
      /\ Panic.parts = <<>>
  BY DEF ReadError, SchemaMismatch, Panic, NoAnswer
<1>6. CASE FirstSchemaFails \/ ConcatFails
  <2>1. answer' = ReadError(paths[1])
    BY <1>6 DEF FirstSchemaFails, ConcatFails, Return
  <2> QED
    BY <1>1, <1>2, <1>3, <1>5, <2>1, ErrorKinds DEF BusyFail
<1>7. CASE OpenFails \/ ReadFails
  <2>1. answer' = ReadError(paths[next]) /\ next \in DOMAIN paths
    BY <1>4, <1>7 DEF OpenFails, ReadFails, Return
  <2> QED
    BY <1>1, <1>2, <1>5, <2>1, ErrorKinds DEF BusyFail
<1>8. CASE RejectSchema
  <2>1. \E n : answer' = SchemaMismatch(paths[next], n)
    BY <1>8 DEF RejectSchema, Return
  <2>2. next \in DOMAIN paths
    BY <1>4, <1>8 DEF RejectSchema
  <2> QED
    BY <1>1, <1>2, <1>5, <2>1, <2>2, ErrorKinds DEF BusyFail
<1>9. CASE ConcatPanics
  <2>1. answer' = Panic /\ Len(batches) > 1 /\ rpc = "concat"
    BY <1>9 DEF ConcatPanics, Several, Return
  <2>2. Len(paths) > 1
    BY <2>1 DEF ReadInv
  <2> QED
    BY <1>1, <1>2, <1>5, <2>1, <2>2 DEF BusyFail
<1> QED
  BY <1>6, <1>7, <1>8, <1>9

(* A batch is torn only where somebody created the file or left it mixed.  *)
LEMMA BusyTears == ASSUME IInv, ReadRows PROVE [BusyNext]_busyVars
<1> USE DEF IInv
<1>1. /\ rpc = "read" /\ Unanswered /\ next \in DOMAIN paths
      /\ UNCHANGED <<disk, held, written, request, answer, paths>>
  BY DEF ReadRows, ReadInv, TypeOK, Unanswered, storeVars
<1>2. CASE Certain
  BY <1>1, <1>2 DEF ReadRows, busyVars
<1>3. CASE ~Certain
  <2>1. \E b : b \in Decoded
    BY DEF ReadRows
  <2>2. MayTear(paths[next])
    BY <1>1, <1>3, <2>1 DEF ReadInv, Decoded, Readings, MayTear, Certain, Untouched, Current
  <2>3. torn' = torn \cup {next}
    BY <1>3 DEF ReadRows
  <2> QED
    BY <1>1, <2>2, <2>3 DEF BusyTear, BusyNext
<1> QED
  BY <1>2, <1>3

(* D-21 in the presence of writers: whatever other processes do to the     *)
(* files, a read is one choice of paths and then one answer, each part of  *)
(* it from a table that was whole at its path, or torn where a writer was. *)
THEOREM ImplementsBusyScan == Spec => BusySpec
<1>1. Init => BusyInit
  BY DEF Init, BusyInit, StoreInit
<1>2. IInv /\ [Next]_vars => [BusyNext]_busyVars
  <2> SUFFICES ASSUME IInv, [Next]_vars PROVE [BusyNext]_busyVars
    OBVIOUS
  <2>1. CASE ReturnOnly \/ Concat
    BY <2>1, BusyAnswers DEF BusyNext
  <2>2. CASE FirstSchemaFails \/ RejectSchema \/ OpenFails \/ ReadFails
             \/ ConcatFails \/ ConcatPanics
    BY <2>2, BusyFails DEF BusyNext
  <2>3. CASE ResolvePaths \/ RejectPaths
    <3>1. /\ Unanswered /\ paths = <<>> /\ UNCHANGED <<disk, held, written, request, torn>>
      BY <2>3 DEF IInv, TypeOK, ReadInv, Unanswered, ResolvePaths, RejectPaths, storeVars
    <3> QED
      BY <2>3, <3>1 DEF ResolvePaths, RejectPaths, Return, BusyResolve, BusyReject, BusyNext
  <2>4. CASE ReadFirstSchema \/ CheckSchema \/ OpenFile \/ UNCHANGED vars
    BY <2>4 DEF ReadFirstSchema, CheckSchema, OpenFile, vars, readVars, storeVars, busyVars
  <2>6. CASE ReadRows
    BY <2>6, BusyTears
  <2>5. ASSUME NEW w \in Writers, Write(w), UNCHANGED readVars
        PROVE  [BusyNext]_busyVars
    <3>1. StoreMoves
      BY <2>5, StoreStep DEF IInv, TypeOK, StoreTyped
    <3> QED
      BY <2>5, <3>1 DEF StoreMoves, BusyWrite, BusyNext, readVars
  <2> QED
    BY <2>1, <2>2, <2>3, <2>4, <2>5, <2>6 DEF Next, Read, Returned
<1> QED
  BY <1>1, <1>2, Invariance, PTL DEF Spec, BusySpec

-----------------------------------------------------------------------------
(***************************************************************************)
(* Every step of a read is progress.                                       *)
(***************************************************************************)

(* What is left, at each place of the call.                                *)
LEMMA WorkShape ==
  ASSUME IInv
  PROVE  /\ FilesLeft \in Nat /\ StepsLeft \in 0 .. 4 /\ Work \in Nat
         /\ Len(paths) \in Nat /\ next \in Nat
         /\ rpc = "resolve" => FilesLeft = Len(request.paths) + Cardinality(Paths)
         /\ rpc \in {"first", "check", "open", "read"} =>
              FilesLeft = Len(paths) + 1 - next /\ FilesLeft > 0
         /\ rpc \in {"concat", "done"} => FilesLeft = 0
<1>1. /\ request \in Requests /\ next \in Nat \ {0} /\ Len(paths) \in Nat
      /\ batches \in Seq(Table) /\ paths \in Seq(Paths) /\ Len(batches) = next - 1
      /\ rpc \in {"resolve", "first", "check", "open", "read", "concat", "done"}
  BY LenProperties DEF IInv, TypeOK
<1>2. Len(request.paths) \in Nat /\ Cardinality(Paths) \in Nat
  BY <1>1, RequestShape, FilesAssumption, FS_CardinalityType, LenProperties
<1>3. StepsLeft \in 0 .. 4
  BY <1>1 DEF StepsLeft
<1>4. rpc \in {"first", "check", "open", "read"} => next \in 1 .. Len(paths)
  BY <1>1, EmptySeq DEF IInv, ReadInv
<1>5. rpc = "concat" => Len(paths) + 1 - next = 0
  BY <1>1 DEF IInv, ReadInv
<1>6. /\ FilesLeft \in Nat
      /\ rpc = "resolve" => FilesLeft = Len(request.paths) + Cardinality(Paths)
      /\ rpc \in {"first", "check", "open", "read"} =>
           FilesLeft = Len(paths) + 1 - next /\ FilesLeft > 0
      /\ rpc \in {"concat", "done"} => FilesLeft = 0
  BY <1>1, <1>2, <1>4, <1>5 DEF FilesLeft
<1> QED
  BY <1>1, <1>3, <1>6 DEF Work

(* A return leaves nothing to do.                                          *)
LEMMA ReturnIsProgress ==
  ASSUME IInv, rpc # "done", rpc' = "done"
  PROVE  Work' \in Nat /\ Work' < Work
<1>1. Work' = 0
  BY DEF Work, FilesLeft, StepsLeft
<1>2. Work > 0
  <2>1. rpc \in {"resolve", "first", "check", "open", "concat"} => StepsLeft > 0
    BY DEF StepsLeft
  <2>2. rpc \in {"resolve", "first", "check", "open", "read", "concat"}
    BY DEF IInv, TypeOK
  <2> QED
    BY <2>1, <2>2, WorkShape DEF Work
<1> QED
  BY <1>1, <1>2

(* The arithmetic of Work: a step less, or three for a file less.          *)
LEMMA FewerSteps ==
  ASSUME NEW a \in Nat, NEW b \in Nat, NEW d \in Nat, d < b
  PROVE  3 * a + d \in Nat /\ 3 * a + d < 3 * a + b
  OBVIOUS

LEMMA LessLeft ==
  ASSUME NEW a \in Nat, NEW b \in Nat, NEW c \in Nat, NEW d \in Nat,
         c = a - 1, d < b + 3
  PROVE  3 * c + d \in Nat /\ 3 * c + d < 3 * a + b
  OBVIOUS

(* Resolving, the three steps for each file, and every return.             *)
LEMMA ReadIsProgress ==
  ASSUME IInv, Read
  PROVE  Work' \in Nat /\ Work' < Work
<1>1. CASE ResolvePaths
  <2>1. /\ paths' \in Seq(Paths) /\ paths' # <<>>
        /\ Len(paths') <= Len(request.paths) + Cardinality(Paths)
    BY <1>1, ResolutionShape DEF IInv, TypeOK, ResolvePaths
  <2>2. next' = 1 /\ rpc = "resolve" /\ rpc' = "first"
    BY <1>1 DEF IInv, ReadInv, ResolvePaths
  <2>3. FilesLeft' = Len(paths') /\ StepsLeft' = 3 /\ StepsLeft = 4 /\ Len(paths') \in Nat
    BY <2>1, <2>2, LenProperties DEF FilesLeft, StepsLeft
  <2>4. FilesLeft' <= FilesLeft /\ FilesLeft \in Nat
    BY <2>1, <2>2, <2>3, WorkShape
  <2> QED
    BY <2>3, <2>4 DEF Work
<1>2. CASE ReadFirstSchema \/ CheckSchema \/ OpenFile
  <2>1. /\ rpc \in {"first", "check", "open"} /\ UNCHANGED <<paths, next>>
        /\ rpc' \in {"check", "open", "read"}
    BY <1>2 DEF ReadFirstSchema, CheckSchema, OpenFile
  <2>2. StepsLeft' < StepsLeft /\ StepsLeft' \in Nat /\ StepsLeft \in Nat
    BY <1>2 DEF ReadFirstSchema, CheckSchema, OpenFile, StepsLeft
  <2>3. FilesLeft' = FilesLeft /\ FilesLeft \in Nat
    BY <2>1, WorkShape DEF FilesLeft
  <2>4. Work' = 3 * FilesLeft + StepsLeft' /\ Work = 3 * FilesLeft + StepsLeft
    BY <2>3 DEF Work
  <2>5. /\ 3 * FilesLeft + StepsLeft' \in Nat
        /\ 3 * FilesLeft + StepsLeft' < 3 * FilesLeft + StepsLeft
    BY <2>2, <2>3, FewerSteps
  <2> QED
    BY <2>4, <2>5
<1>3. CASE ReadRows
  <2>1. /\ rpc = "read" /\ paths' = paths /\ next' = next + 1
        /\ rpc' \in {"check", "concat"}
    BY <1>3 DEF ReadRows
  <2>2. FilesLeft' = FilesLeft - 1 /\ FilesLeft \in Nat /\ FilesLeft' \in Nat
    BY <2>1, WorkShape DEF FilesLeft
  <2>3. StepsLeft = 0 /\ StepsLeft' \in Nat /\ StepsLeft' < StepsLeft + 3
    BY <2>1 DEF StepsLeft
  <2>4. 3 * FilesLeft' + StepsLeft' \in Nat /\ 3 * FilesLeft' + StepsLeft' < 3 * FilesLeft + StepsLeft
    BY <2>2, <2>3, LessLeft
  <2> QED
    BY <2>4 DEF Work
<1>4. CASE \/ RejectPaths \/ FirstSchemaFails \/ RejectSchema \/ OpenFails \/ ReadFails
           \/ ReturnOnly \/ Concat \/ ConcatFails \/ ConcatPanics
  <2>1. rpc # "done" /\ rpc' = "done"
    BY <1>4 DEF RejectPaths, FirstSchemaFails, RejectSchema, OpenFails, ReadFails, ReturnOnly,
                Concat, ConcatFails, ConcatPanics, Several, Return
  <2> QED
    BY <2>1, ReturnIsProgress
<1> QED
  BY <1>1, <1>2, <1>3, <1>4 DEF Read

(* The safety half of termination: no step of a read goes back, whatever   *)
(* the writers do between its steps.                                       *)
THEOREM EveryStepIsProgress == Spec => WorkShrinks
<1>1. IInv /\ [Next]_vars => [Work' \in Nat /\ Work' < Work]_readVars
  BY ReadIsProgress DEF Next, Returned, vars
<1> QED
  BY <1>1, Invariance, PTL DEF Spec, WorkShrinks
=============================================================================
