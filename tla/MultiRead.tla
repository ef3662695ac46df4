------------------------------ MODULE MultiRead ------------------------------
(***************************************************************************)
(* Table.from_parquet on several files (resolve_parquet_paths and          *)
(* read_parquet_multi), while other processes write the files with         *)
(* to_parquet.  Each file is opened twice, once for its schema and once    *)
(* for its rows; nothing locks it in between, nor while it is read: the    *)
(* pages are fetched as they are decoded, from a file that a writer        *)
(* truncates and fills in place, by a footer read when it was opened.      *)
(***************************************************************************)
EXTENDS BusyScan, ParquetStore

CONSTANT Limited  \* Types whose concatenation can overflow: dictionary keys, string offsets.

VARIABLES
  rpc,      \* "resolve", "first", "check", "open", "read", "concat" or "done".
  first,    \* The fields of the first file.
  next,     \* The position in paths of the file being read.
  handle,   \* What the open file held when it was opened,
  opened,   \* and who had created it: openers of its path at that time.
  batches   \* One batch for each file read.

readVars == <<request, answer, rpc, paths, first, next, handle, opened, batches, torn>>

vars == <<readVars, storeVars>>

ASSUME MultiReadAssumption ==
  /\ Disks \subseteq [Paths -> Content]
  /\ \A d \in Disks : \A p \in Paths : Distinct(d[p].table.fields)
  /\ \A r \in Requests :
       /\ r.mode \in {"single", "directory", "list"}
       /\ r.paths \in Seq(Paths)
       /\ r.mode = "single" => Len(r.paths) = 1
       /\ r.columns \in Seq(Names) \cup {None}
  /\ Limited \subseteq Types

Init ==
  /\ ScanInit
  /\ StoreInit
  /\ rpc = "resolve"
  /\ paths = <<>>
  /\ first = <<>>
  /\ next = 1
  /\ handle = Absent
  /\ opened = {}
  /\ batches = <<>>
  /\ torn = {}

-----------------------------------------------------------------------------
(***************************************************************************)
(* The steps of one call.                                                  *)
(***************************************************************************)

Return(a) == rpc' = "done" /\ answer' = a

Current == disk[paths[next]]

ResolvePaths ==
  /\ rpc = "resolve"
  /\ Resolvable(request)
  /\ paths' \in Resolutions(request)
  /\ rpc' = "first"
  /\ UNCHANGED <<request, answer, first, next, handle, opened, batches, torn, storeVars>>

RejectPaths ==
  /\ rpc = "resolve"
  /\ ~Resolvable(request)
  /\ Return(ResolveError(request))
  /\ UNCHANGED <<request, paths, first, next, handle, opened, batches, torn, storeVars>>

(* read_raw_schema of the first path.                                      *)
ReadFirstSchema ==
  /\ rpc = "first"
  /\ HasFooter(disk[paths[1]])
  /\ first' = disk[paths[1]].table.fields
  /\ rpc' = "check"
  /\ UNCHANGED <<request, answer, paths, next, handle, opened, batches, torn, storeVars>>

FirstSchemaFails ==
  /\ rpc = "first"
  /\ ~HasFooter(disk[paths[1]])
  /\ Return(ReadError(paths[1]))
  /\ UNCHANGED <<request, paths, first, next, handle, opened, batches, torn, storeVars>>

(* Mutant: a schema that differs does not stop the call.                   *)
CheckNoSchema ==
  /\ rpc = "check"
  /\ HasFooter(Current)
  /\ rpc' = "open"
  /\ UNCHANGED <<request, answer, paths, first, next, handle, opened, batches, torn, storeVars>>

(* read_raw_schema of the next path, and the comparison with the first.    *)
CheckSchema ==
  /\ rpc = "check"
  /\ HasFooter(Current)
  /\ SchemasMatch(first, Current.table.fields)
  /\ rpc' = "open"
  /\ UNCHANGED <<request, answer, paths, first, next, handle, opened, batches, torn, storeVars>>

RejectSchema ==
  /\ rpc = "check"
  /\ HasFooter(Current)
  /\ ~SchemasMatch(first, Current.table.fields)
  /\ Return(SchemaMismatch(paths[next], FirstMismatch(first, Current.table.fields)))
  /\ UNCHANGED <<request, paths, first, next, handle, opened, batches, torn, storeVars>>

(* File::open and the footer, again, in read_parquet.                      *)
OpenFile ==
  /\ rpc = "open"
  /\ HasFooter(Current)
  /\ handle' = Current
  /\ opened' = openers[paths[next]]
  /\ rpc' = "read"
  /\ UNCHANGED <<request, answer, paths, first, next, batches, torn, storeVars>>

(* Mutant: an unreadable file is tried again.                             *)
OpenRetries ==
  /\ rpc \in {"check", "open"}
  /\ ~HasFooter(Current)
  /\ rpc' = "check"
  /\ UNCHANGED <<request, answer, paths, first, next, handle, opened, batches, torn, storeVars>>

(* Mutant: the first path is blamed.                                       *)
OpenFailsFirst ==
  /\ rpc \in {"check", "open"}
  /\ ~HasFooter(Current)
  /\ Return(ReadError(paths[1]))
  /\ UNCHANGED <<request, paths, first, next, handle, opened, batches, torn, storeVars>>

(* The footer of the next path cannot be read, at either time.             *)
OpenFails ==
  /\ rpc \in {"check", "open"}
  /\ ~HasFooter(Current)
  /\ Return(ReadError(paths[next]))
  /\ UNCHANGED <<request, paths, first, next, handle, opened, batches, torn, storeVars>>

(* Nobody has created or written the file since it was opened.  A writer   *)
(* creates one file, so the same openers have not been others meanwhile.   *)
Untouched == openers[paths[next]] = opened /\ Current = handle

(* Mutant: the first path is read each time.                               *)
DecodedFirst ==
  IF Untouched THEN Readings(disk[paths[1]], request) ELSE Scrambled(handle.table, request)

(* The batches the open file may give.  Where it was written since it was  *)
(* opened, its row groups, their statistics and the offsets of their pages *)
(* are still those of the footer read then.                                *)
Decoded == IF Untouched THEN Readings(handle, request) ELSE Scrambled(handle.table, request)

Certain == Untouched /\ handle.kind = "whole"

(* The rest of read_parquet.                                               *)
ReadRows ==
  /\ rpc = "read"
  /\ Knows(handle.table, request)
  /\ \E b \in Decoded : batches' = Append(batches, b)
  /\ torn' = IF Certain THEN torn ELSE torn \cup {next}
  /\ next' = next + 1
  /\ rpc' = IF next < Len(paths) THEN "check" ELSE "concat"
  /\ UNCHANGED <<request, answer, paths, first, handle, opened, storeVars>>

(* Pages that do not decode or are not there, or columns the file lacks.   *)
ReadFails ==
  /\ rpc = "read"
  /\ ~Certain \/ ~Knows(handle.table, request)
  /\ Return(ReadError(paths[next]))
  /\ UNCHANGED <<request, paths, first, next, handle, opened, batches, torn, storeVars>>

Parts == [k \in DOMAIN batches |-> batches[k].rows]

(* A single batch is the answer.                                           *)
ReturnOnly ==
  /\ rpc = "concat"
  /\ Len(batches) = 1
  /\ Return(Answer(batches[1].fields, Parts))
  /\ UNCHANGED <<request, paths, first, next, handle, opened, batches, torn, storeVars>>

Leading == batches[1].fields

(* Mutant: columns past the last one are left out.                         *)
ColumnsAnyNumber == TRUE

(* concat_batches takes the first batch's columns by position: every batch *)
(* must have them, and of the same type; names are not looked at.          *)
ColumnsThere == \A k \in DOMAIN batches : Len(Leading) <= Len(batches[k].fields)

TypesAgree ==
  \A k \in DOMAIN batches : \A i \in DOMAIN Leading \cap DOMAIN batches[k].fields :
    batches[k].fields[i].type = Leading[i].type

NullsAgree ==
  \A k \in DOMAIN batches : \A i \in DOMAIN Leading \cap DOMAIN batches[k].fields :
    batches[k].fields[i].nullable => Leading[i].nullable

CanOverflow == \E i \in DOMAIN Leading : Leading[i].type \in Limited

Several == rpc = "concat" /\ Len(batches) > 1

Concat ==
  /\ Several
  /\ ColumnsThere
  /\ TypesAgree
  /\ Return(Answer(Leading, Parts))
  /\ UNCHANGED <<request, paths, first, next, handle, opened, batches, torn, storeVars>>

(* The error is laid to the first path.                                    *)
ConcatFails ==
  /\ Several
  /\ ~TypesAgree \/ ~NullsAgree \/ CanOverflow
  /\ Return(ReadError(paths[1]))
  /\ UNCHANGED <<request, paths, first, next, handle, opened, batches, torn, storeVars>>

(* RecordBatch::column past the last column.                               *)
ConcatPanics ==
  /\ Several
  /\ ~ColumnsThere
  /\ Return(Panic)
  /\ UNCHANGED <<request, paths, first, next, handle, opened, batches, torn, storeVars>>

Returned == rpc = "done" /\ UNCHANGED vars

Read ==
  \/ ResolvePaths
  \/ RejectPaths
  \/ ReadFirstSchema
  \/ FirstSchemaFails
  \/ CheckSchema
  \/ RejectSchema
  \/ OpenFile
  \/ OpenFails
  \/ ReadRows
  \/ ReadFails
  \/ ReturnOnly
  \/ Concat
  \/ ConcatFails
  \/ ConcatPanics

Next == Read \/ Returned \/ \E w \in Writers : Write(w) /\ UNCHANGED readVars

Spec == Init /\ [][Next]_vars

FairSpec == Spec /\ WF_vars(Read)

-----------------------------------------------------------------------------
(***************************************************************************)
(* Properties.                                                             *)
(***************************************************************************)

Quiet == Writers = {}

(* The type invariant of the call.  One batch is there for each file read, *)
(* and an answer exactly when the call has returned.                       *)
TypeOK ==
  /\ disk \in [Paths -> Content]
  /\ StoreTypeOK
  /\ request \in Requests
  /\ rpc \in {"resolve", "first", "check", "open", "read", "concat", "done"}
  /\ paths \in Seq(Paths)
  /\ first \in Seq(Field)
  /\ next \in Nat \ {0}
  /\ handle \in Content
  /\ opened \subseteq Writers
  /\ batches \in Seq(Table)
  /\ Len(batches) = next - 1
  /\ torn \subseteq DOMAIN batches
  /\ answer.kind = "pending" <=> rpc # "done"

WasHeld(k, rows) ==
  \E t \in held[paths[k]] : Knows(t, request) /\ rows = BatchOf(t, request).rows

(* D-21, "rows in the caller's order", while other processes write: part k *)
(* of an answer is what the filters and the projection leave of one table  *)
(* that was whole at the k-th path at some time.  The one exception is a   *)
(* file created again between its opening and its last page, or one that   *)
(* several writers had already left mixed: read_parquet has nothing that   *)
(* would notice, and the part is torn.  It concerns that part alone, and   *)
(* only where some writer has been: every other part, those of files that  *)
(* were replaced before they were opened or after they were read among     *)
(* them, is whole, of its own path and in its place.                       *)
PartsWereWritten ==
  answer.kind = "ok" =>
    /\ Len(answer.parts) = Len(paths)
    /\ \A k \in DOMAIN paths :
         WasHeld(k, answer.parts[k]) \/ (k \in torn /\ MayTear(paths[k]))

(* A projection is by name in every file: whatever is replaced in the      *)
(* meantime, column i of the answer comes from columns of the name asked   *)
(* for, although the batches are put together by position.                 *)
ProjectedByName ==
  answer.kind = "ok" /\ request.columns # None =>
    /\ Len(answer.fields) = Len(request.columns)
    /\ \A k \in DOMAIN batches : \A i \in DOMAIN request.columns :
         batches[k].fields[i].name = request.columns[i]

(* D-21: "strict cross-file schema-match, never a silent union/merge".     *)
(* All batches behind an answer have the columns of the first.             *)
StrictAcrossFiles ==
  answer.kind = "ok" =>
    \A k \in DOMAIN batches : SchemasMatch(batches[1].fields, batches[k].fields)

(* MultiParquetReadError::SchemaMismatch carries "the first file, the      *)
(* first mismatched file, and the first differing column name".  When      *)
(* nobody writes, every file before the one named agrees with the first,   *)
(* the one named does not, and the column named is where they part.        *)
MismatchIsFirst ==
  Quiet /\ answer.kind = "mismatch" =>
    \E k \in DOMAIN paths :
      LET s == disk[paths[1]].table.fields
          t == disk[paths[k]].table.fields
      IN  /\ answer.path = paths[k]
          /\ \A j \in 1 .. k - 1 : SchemasMatch(s, disk[paths[j]].table.fields)
          /\ \E i \in Differences(s, t) :
               /\ \A j \in 1 .. i - 1 : FieldsMatch(s[j], t[j])
               /\ answer.column = IF i \in DOMAIN s THEN s[i].name ELSE t[i].name

(* MultiParquetReadError::Read is for "a specific file [that] failed to    *)
(* open/parse" and carries "the offending path".  When nobody writes, the  *)
(* file named cannot be read or lacks a column asked for.                  *)
Readable(p) ==
  p \in ParquetNamed /\ disk[p].kind = "whole" /\ Knows(disk[p].table, request)

ReadErrorNamesOffender == Quiet /\ answer.kind = "read" => ~Readable(answer.path)

(* The same where no column's concatenation can overflow.                 *)
NothingLimited ==
  \A p \in Paths : \A i \in DOMAIN disk[p].table.fields :
    disk[p].table.fields[i].type \notin Limited

ReadErrorIsTrue == NothingLimited => ReadErrorNamesOffender

(* The inductive invariant behind the properties above.  Batch k, unless   *)
(* torn, is what the request leaves of a table path k has held, and only   *)
(* where a file was created or mixed a batch is torn; an open file at a    *)
(* path nobody has written is the file there.  An answer is made of one    *)
(* batch for each path.  When nobody writes, the schema compared is the    *)
(* first file's, every batch is one the file at its path gives, that file  *)
(* matches the first, and so does the file at hand once it is checked.     *)
BatchHeld(k) ==
  \E t \in held[paths[k]] : Knows(t, request) /\ batches[k] = BatchOf(t, request)

ReadInv ==
  /\ rpc = "resolve" => paths = <<>>
  /\ rpc \in {"resolve", "first"} => next = 1
  /\ rpc \in {"first", "check", "open", "read", "concat"} => paths # <<>>
  /\ rpc \in {"check", "open", "read"} => next \in DOMAIN paths
  /\ rpc = "concat" => Len(batches) = Len(paths)
  /\ rpc = "read" /\ paths[next] \notin written =>
       opened = openers[paths[next]] /\ handle = Current
  /\ \A k \in DOMAIN batches :
       /\ k \in DOMAIN paths
       /\ NamedAsAsked(batches[k].fields)
       /\ IF k \in torn THEN MayTear(paths[k]) ELSE BatchHeld(k)
  /\ answer.kind = "ok" =>
       Len(batches) = Len(paths) /\ batches # <<>> /\ answer = Answer(Leading, Parts)

BatchCurrent(k) ==
  LET t == disk[paths[k]].table
  IN  /\ Knows(t, request)
      /\ SchemasMatch(disk[paths[1]].table.fields, t.fields)
      /\ batches[k] \in Readings(disk[paths[k]], request)

QuietInv ==
  /\ rpc \in {"first", "check", "open", "read", "concat"} =>
       Resolvable(request) /\ paths \in Resolutions(request)
  /\ rpc \in {"check", "open", "read"} => first = disk[paths[1]].table.fields
  /\ rpc \in {"open", "read"} => SchemasMatch(first, Current.table.fields)
  /\ written = {}
  /\ \A k \in DOMAIN batches : BatchCurrent(k)

IInv == TypeOK /\ StoreInv /\ ReadInv /\ (Quiet => QuietInv)

(* What the call has still to do: three steps for each file, and what      *)
(* comes before and after the files.                                       *)
FilesLeft ==
  CASE rpc = "resolve" -> Len(request.paths) + Cardinality(Paths)
    [] rpc = "done"    -> 0
    [] OTHER           -> Len(paths) + 1 - next

StepsLeft ==
  CASE rpc = "resolve" -> 4 [] rpc = "first"  -> 3 [] rpc = "check" -> 2
    [] rpc = "open"    -> 1 [] rpc = "read"   -> 0 [] rpc = "concat" -> 1
    [] rpc = "done"    -> 0

Work == 3 * FilesLeft + StepsLeft

(* However often files are replaced under it, from_parquet never goes back *)
(* to a file or tries one again: each of its steps leaves it less to do.   *)
WorkShrinks == [][Work' \in Nat /\ Work' < Work]_readVars

(* from_parquet returns however often files are replaced under it.         *)
Terminates == <>(rpc = "done")
=============================================================================
