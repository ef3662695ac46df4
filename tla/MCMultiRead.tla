----------------------------- MODULE MCMultiRead -----------------------------
(***************************************************************************)
(* Instances of MultiRead for TLC.  Paths 1 and 2 are .parquet files, path *)
(* 3 has another extension.                                                *)
(***************************************************************************)
EXTENDS MultiRead

CONSTANTS a, b, v, w, none

AnyName == {a, b}
AnyType == {"int", "utf8", "dict"}
CanOverflowTypes == {"utf8", "dict"}

F(name, type) == [name |-> name, type |-> type, nullable |-> FALSE, ordered |-> FALSE]
Nullable(f) == [f EXCEPT !.nullable = TRUE]
Ordered(f) == [f EXCEPT !.ordered = TRUE]
T(fields, rows) == [fields |-> fields, rows |-> rows]

A    == <<F(a, "int")>>
AB   == <<F(a, "int"), F(b, "int")>>
BA   == <<F(b, "int"), F(a, "int")>>
Text == <<F(a, "utf8")>>

(* A table, others of the same schema, and one for each way to differ.     *)
Same == {T(A, {1, 2}), T(A, {3}), T(A, {})}
Other ==
  {T(<<F(b, "int")>>, {1}), T(Text, {2}), T(AB, {3}), T(BA, {2, 3}),
   T(<<Nullable(F(a, "int"))>>, {1, 3})}
Categorical == {T(<<F(a, "dict")>>, {1}), T(<<Ordered(F(a, "dict"))>>, {2})}

R(mode, s) ==
  {[mode |-> mode, paths |-> s, columns |-> c, filter |-> f] :
     c \in {none, <<a>>, <<b, a>>},
     f \in {none, [column |-> a, rows |-> {1, 3}]}}

OfOne == R("single", <<1>>) \cup R("single", <<3>>) \cup R("directory", <<>>)
OfSeveral ==
  UNION {R("list", s) : s \in {<<>>, <<1>>, <<2, 1>>, <<1, 1, 2>>, <<1, 3>>}}

-----------------------------------------------------------------------------
(* Nobody writes: every content of two paths.                              *)

AllPaths == 1 .. 3
TwoNamed == {1, 2}
ThreeRows == 1 .. 3
TwoRows == {1, 2}
AnyContent ==
  {Absent, Directory, Junk, Damaged(T(A, {1, 2})), Mixed(T(A, {1})), Mixed(T(BA, {2}))}
  \cup {Whole(t) : t \in Same \cup Other \cup Categorical}
QuietDisks == {[p \in AllPaths |-> IF p = 3 THEN Whole(T(A, {2, 3})) ELSE d[p]] :
                 d \in [TwoNamed -> AnyContent]}
QuietRequests == OfOne \cup OfSeveral
NoCalls == {<<>>}

(* Two writers replace or create files of various schemas while a list or  *)
(* the directory is read, filtered or not; one file may already be mixed.  *)

BusyDisks ==
  {[p \in TwoNamed |-> IF p = 1 THEN Whole(T(AB, {1, 2})) ELSE c] :
     c \in {Absent, Whole(T(AB, {2})), Mixed(T(AB, {1}))}}
BusyRequests ==
  {r \in R("directory", <<>>) : r.columns # <<a>> /\ (r.filter # none <=> r.columns = none)}
  \cup {r \in R("list", <<1, 2>>) : r.columns # none /\ (r.filter # none <=> r.columns = <<a>>)}
Written == {T(AB, {1}), T(BA, {1, 2}), T(A, {})}
ACall(p, o, n, t) == [path |-> p, options |-> o, batches |-> n, table |-> t]
GoodCalls == {ACall(p, "valid", 1, t) : p \in TwoNamed, t \in Written}
BadCalls ==
  {ACall(1, o, 1, T(AB, {1})) : o \in {"codec", "zero"}}
  \cup {ACall(1, "valid", n, T(AB, {1})) : n \in {0, 2}}
TwoCalls ==
  {c \in [{v, w} -> GoodCalls \cup BadCalls] :
     /\ c[w] \in GoodCalls
     /\ IF c[v] \in GoodCalls THEN c[v].path <= c[w].path
        ELSE c[w].path = 1 /\ c[w].table = T(BA, {1, 2})}

(* One writer gives a column another name between check and read.          *)
RenameDisks == {[p \in TwoNamed |-> Whole(T(A, {p}))]}
RenameRequests == {r \in R("list", <<1, 2>>) : r.columns = none /\ r.filter = none}
RenameCalls == {[x \in {w} |-> ACall(2, "valid", 1, T(<<F(b, "int")>>, {3}))]}

(* Two good files with a categorical column.                               *)
CategoricalDisks == {[p \in TwoNamed |-> Whole(T(<<F(a, "dict")>>, {p}))]}
=============================================================================
