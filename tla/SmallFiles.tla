----------------------------- MODULE SmallFiles -----------------------------
(***************************************************************************)
(* Column types, literals and Parquet files for TLC.  The unit is one half *)
(* (One = 2), an "i64" holds -4..3, an "i8" -2..1 and a "u64" 0..7, so a   *)
(* u64 statistic can lie beyond i64 and an i64 literal beyond an i8        *)
(* column.                                                                 *)
(***************************************************************************)
EXTENDS ScalarFilter, Sequences, TLC

CONSTANTS a, b, c, d, missing

AnyName == {a, b, c, d, missing}
TwoColumns == <<a, b>>
FourColumns == <<a, b, c, d>>

Half == 2
MinI64 == -8
MaxI64 == 6

I8   == [kind |-> "int",  lo |-> -4, hi |-> 2]
I64s == [kind |-> "int",  lo |-> -8, hi |-> 6]
U64  == [kind |-> "int",  lo |-> 0,  hi |-> 14]
Dbl  == [kind |-> "f64",  lo |-> 0,  hi |-> 0]
Flt  == [kind |-> "f32",  lo |-> 0,  hi |-> 0]
Bln  == [kind |-> "bool", lo |-> 0,  hi |-> 0]
Str  == [kind |-> "utf8", lo |-> 0,  hi |-> 0]

(* Doubles and floats that round nothing, doubles that represent only even *)
(* integers beyond 2 (as beyond 2^53), and such floats without the halves. *)
AllHalves == -16 .. 16
CoarseDoubles == (-4 .. 4) \cup {x \in -16 .. 16 : x % 4 = 0}
CoarseFloats == {x \in CoarseDoubles : x % 2 = 0}

(* The string of rank 0 is no number and no truth value; the one of rank 1 *)
(* reads as TRUE and as 1.  Literals print as the strings of rank 2 and 3. *)
MCParse(text, kind) == IF text = 1 THEN Half ELSE Null
MCFormat(v) == IF v.val = 0 THEN 2 ELSE 3

Ints(lo, hi) == {n \in lo .. hi : n % Half = 0}

I64Literals == [kind : {"Int64"}, val : Ints(MinI64, MaxI64)]

Filters(cs, ops, literals) == [column : cs, op : ops, value : literals]

Singles(fs) == {<<>>} \cup {<<f>> : f \in fs}
Pairs(fs) == {<<f, g>> : f, g \in fs}

(* Ways to cut n rows into row groups.                                     *)
Layouts(n) ==
  {lay \in [1 .. n -> 1 .. n] :
     \A r \in 1 .. n : IF r = 1 THEN lay[r] = 1 ELSE lay[r] - lay[r - 1] \in {0, 1}}

LeastOf(S) == CHOOSE x \in S : \A y \in S : x <= y
MostOf(S) == CHOOSE x \in S : \A y \in S : x >= y

(* The statistics a writer records for one column of one group.            *)
Recorded(values) ==
  IF values = {} THEN [min |-> Null, max |-> Null]
  ELSE [min |-> LeastOf(values), max |-> MostOf(values)]

FileOf(n, cells, lay, withStats) ==
  LET groups == IF n = 0 THEN 0 ELSE lay[n]
      values(g, name) == {cells[r][name] : r \in {q \in 1 .. n : lay[q] = g}} \ {Null}
  IN  [n |-> n, groups |-> groups, group |-> lay, cell |-> cells,
       stat |-> [g \in 1 .. groups |-> [name \in DOMAIN cells[1] |->
                   IF withStats THEN Recorded(values(g, name))
                   ELSE [min |-> Null, max |-> Null]]]]

FilesOf(n, rows) ==
  {FileOf(n, cells, lay, withStats) :
     cells \in [1 .. n -> rows], lay \in Layouts(n), withStats \in BOOLEAN}

(* With the statistics recorded.                                           *)
RecordedFiles(n, rows) ==
  {FileOf(n, cells, lay, TRUE) : cells \in [1 .. n -> rows], lay \in Layouts(n)}

RowsOver2(va, vb) == {(a :> x @@ b :> y) : x \in va, y \in vb}
RowsOver4(va, vb, vc, vd) ==
  {(a :> x @@ b :> y @@ c :> z @@ d :> w) : x \in va, y \in vb, z \in vc, w \in vd}
=============================================================================
