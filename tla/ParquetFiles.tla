---------------------------- MODULE ParquetFiles ----------------------------
(***************************************************************************)
(* What is at a path, what one file gives to a read, and when two files    *)
(* have the same schema (parquet_io.rs); and which paths a path argument   *)
(* stands for (resolve_parquet_paths in table.rs).                         *)
(*                                                                         *)
(* A path is its rank in the lexicographic order, and all paths lie in one *)
(* directory.  A row is a number and a filter the rows it accepts: which   *)
(* rows of a file those are, and in which order they come, is the promise  *)
(* of FilteredScan.  A file without a readable footer gives nothing to a   *)
(* read; what one gives whose pages were not all written with its footer   *)
(* is any rows at all.                                                     *)
(***************************************************************************)
EXTENDS Naturals, Sequences, FiniteSets

CONSTANTS
  Paths,         \* The paths of the directory, a set of ranks.
  ParquetNamed,  \* Those with the extension .parquet.
  Names,         \* Column names.
  Types,         \* Arrow data types.
  Rows,          \* The rows a file may give.
  None           \* No column named, no projection, no filter.

VARIABLES
  disk,    \* What is at each path.
  held,    \* History: the tables each path has held.
  written  \* History: the paths at which a file has been created.

Field == [name : Names, type : Types, nullable : BOOLEAN, ordered : BOOLEAN]

(* The columns of a file have different names.                             *)
Distinct(s) == \A i, j \in DOMAIN s : s[i].name = s[j].name => i = j

Table == [fields : Seq(Field), rows : SUBSET Rows]

NoTable == [fields |-> <<>>, rows |-> {}]

(* Nothing; a sub-directory; a file without a readable footer; a file with *)
(* a good footer whose pages do not decode; one with a good footer over    *)
(* pages of several writers; a good file.                                  *)
Absent    == [kind |-> "absent",    table |-> NoTable]
Directory == [kind |-> "directory", table |-> NoTable]
Junk      == [kind |-> "junk",      table |-> NoTable]
Damaged(t) == [kind |-> "damaged", table |-> t]
Mixed(t)   == [kind |-> "mixed",   table |-> t]
Whole(t)   == [kind |-> "whole",   table |-> t]

Content ==
  [kind : {"absent", "directory", "junk", "damaged", "mixed", "whole"}, table : Table]

HasFooter(c) == c.kind \in {"damaged", "mixed", "whole"}

(* The table a content stands for, if any.                                 *)
TablesOf(c) == {t \in {c.table} : c.kind = "whole"}

ASSUME FilesAssumption ==
  /\ IsFiniteSet(Paths) /\ Paths \subseteq Nat \ {0}
  /\ ParquetNamed \subseteq Paths
  /\ None \notin Names /\ None \notin Seq(Names)

(***************************************************************************)
(* Schemas.                                                                *)
(***************************************************************************)

FieldsMatch(f, g) ==
  /\ f.name = g.name
  /\ f.type = g.type
  /\ f.nullable = g.nullable
  /\ f.ordered = g.ordered

(* Mutant: the longer schema's last columns are not looked at.             *)
DifferInCommon(s, t) ==
  {i \in DOMAIN s \cap DOMAIN t : ~FieldsMatch(s[i], t[i])}

Differences(s, t) ==
  {i \in DOMAIN s \cup DOMAIN t :
     i \in DOMAIN s \cap DOMAIN t => ~FieldsMatch(s[i], t[i])}

SchemasMatch(s, t) == Differences(s, t) = {}

(* Mutant: the last difference is named.                                   *)
LastMismatch(s, t) ==
  LET i == CHOOSE k \in Differences(s, t) : \A j \in Differences(s, t) : j <= k
  IN  IF i \in DOMAIN s THEN s[i].name ELSE t[i].name

(* The column an error names: the first schema's, where it has one.        *)
FirstMismatch(s, t) ==
  LET i == CHOOSE k \in Differences(s, t) : \A j \in Differences(s, t) : k <= j
  IN  IF i \in DOMAIN s THEN s[i].name ELSE t[i].name

(***************************************************************************)
(* What read_parquet gives for one file.  A request is                     *)
(*   [mode, paths, columns, filter]:                                       *)
(* mode is "single", "directory" or "list"; columns is None or a sequence  *)
(* of names; filter is None or [column, rows].                             *)
(***************************************************************************)

HasColumn(t, name) == \E i \in DOMAIN t.fields : t.fields[i].name = name

Knows(t, r) ==
  /\ r.columns # None => \A k \in DOMAIN r.columns : HasColumn(t, r.columns[k])
  /\ r.filter # None => HasColumn(t, r.filter.column)

FieldNamed(t, name) == t.fields[CHOOSE i \in DOMAIN t.fields : t.fields[i].name = name]

(* Mutant: the columns asked for, in the order of the file.                *)
BatchInFileOrder(t, r) ==
  [fields |-> IF r.columns = None THEN t.fields
              ELSE SelectSeq(t.fields, LAMBDA f :
                     \E k \in DOMAIN r.columns : r.columns[k] = f.name),
   rows   |-> IF r.filter = None THEN t.rows
              ELSE t.rows \cap r.filter.rows]

BatchOf(t, r) ==
  [fields |-> IF r.columns = None THEN t.fields
              ELSE [k \in DOMAIN r.columns |-> FieldNamed(t, r.columns[k])],
   rows   |-> IF r.filter = None THEN t.rows
              ELSE t.rows \cap r.filter.rows]

(* A read that took its row groups and offsets from a footer of t and its  *)
(* pages from a file that has other ones: the columns are those of t, the  *)
(* rows anything.  Row groups may be passed over on statistics that are    *)
(* not theirs, pages may be of several writers, and each column, those of  *)
(* the filter among them, is decoded on its own, so that a row need not    *)
(* be one of any table nor satisfy the filter.                             *)
Scrambled(t, r) ==
  {[fields |-> BatchOf(t, r).fields, rows |-> s] : s \in SUBSET Rows}

(* The batches a read of this content may give, if it gives one.           *)
Readings(c, r) ==
  CASE c.kind = "whole" -> {BatchOf(c.table, r)}
    [] c.kind = "mixed" -> Scrambled(c.table, r)
    [] OTHER            -> {}

(***************************************************************************)
(* The paths a request stands for, looking at the disk.                    *)
(***************************************************************************)

IsDir(p) == disk[p].kind = "directory"
Exists(p) == disk[p].kind # "absent"

Listing == {p \in ParquetNamed : Exists(p) /\ ~IsDir(p)}

Increasing(s) == \A i, j \in DOMAIN s : i < j => s[i] < s[j]

BadElements(s) ==
  {k \in DOMAIN s : IsDir(s[k]) \/ ~Exists(s[k]) \/ s[k] \notin ParquetNamed}

FirstOf(S) == CHOOSE k \in S : \A j \in S : k <= j

Resolvable(r) ==
  CASE r.mode = "directory" -> Listing # {}
    [] r.mode = "single"    -> ~IsDir(r.paths[1])
    [] r.mode = "list"      -> r.paths # <<>> /\ BadElements(r.paths) = {}

(* The paths resolved: there is one such sequence.                         *)
Resolutions(r) ==
  IF r.mode = "directory"
  THEN {s \in [1 .. Cardinality(Listing) -> Listing] : Increasing(s)}
  ELSE {r.paths}

(***************************************************************************)
(* Answers.  path and column belong to the errors, fields and parts to a   *)
(* table: parts[k] is the rows of the k-th file, and the table's rows are  *)
(* the parts one after the other.                                          *)
(***************************************************************************)

NoAnswer ==
  [kind |-> "pending", path |-> 0, column |-> None, fields |-> <<>>, parts |-> <<>>]

InvalidArgument == [NoAnswer EXCEPT !.kind = "invalid"]
ReadError(p)    == [NoAnswer EXCEPT !.kind = "read", !.path = p]
Panic           == [NoAnswer EXCEPT !.kind = "panic"]
SchemaMismatch(p, name) ==
  [NoAnswer EXCEPT !.kind = "mismatch", !.path = p, !.column = name]
Answer(fields, parts) ==
  [NoAnswer EXCEPT !.kind = "ok", !.fields = fields, !.parts = parts]

(* A list element that is a directory is a bad argument, one that is not   *)
(* there or has another extension a file that cannot be read.              *)
ResolveError(r) ==
  IF r.mode # "list" \/ r.paths = <<>> THEN InvalidArgument
  ELSE LET p == r.paths[FirstOf(BadElements(r.paths))]
       IN  IF IsDir(p) THEN InvalidArgument ELSE ReadError(p)
=============================================================================
