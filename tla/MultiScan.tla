------------------------------ MODULE MultiScan ------------------------------
(***************************************************************************)
(* What Table.from_parquet promises of several files, when nobody writes:  *)
(* one answer, either an error or what each file gives to the request, in  *)
(* the order of the paths, all files having the schema of the first.  A    *)
(* good file gives the rows the filters leave of it.                       *)
(***************************************************************************)
EXTENDS ParquetFiles

CONSTANTS
  Disks,     \* The initial contents considered.
  Requests   \* The requests considered.

VARIABLES
  request,  \* What the caller asked for.
  answer    \* What the call returned.

ScanInit ==
  /\ disk \in Disks
  /\ request \in Requests
  /\ answer = NoAnswer

AllOf(s) ==
  /\ \A k \in DOMAIN s : HasFooter(disk[s[k]]) /\ Knows(disk[s[k]].table, request)
  /\ \A k \in DOMAIN s : SchemasMatch(disk[s[1]].table.fields, disk[s[k]].table.fields)

(* The batches the file at a path gives to the request.                    *)
Gives(p) == Readings(disk[p], request)

ScanAnswer ==
  /\ answer.kind = "pending"
  /\ Resolvable(request)
  /\ \E s \in Resolutions(request) :
       /\ AllOf(s)
       /\ \E batch \in [DOMAIN s -> UNION {Gives(s[k]) : k \in DOMAIN s}] :
            /\ \A k \in DOMAIN s : batch[k] \in Gives(s[k])
            /\ answer' = Answer(batch[1].fields, [k \in DOMAIN s |-> batch[k].rows])
  /\ UNCHANGED <<disk, request>>

ScanFail ==
  /\ answer.kind = "pending"
  /\ answer'.kind \in {"invalid", "read", "mismatch"}
  /\ answer'.parts = <<>>
  /\ UNCHANGED <<disk, request>>

ScanNext == ScanAnswer \/ ScanFail

scanVars == <<disk, request, answer>>

ScanSpec == ScanInit /\ [][ScanNext]_scanVars
=============================================================================
