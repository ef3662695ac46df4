------------------------------- MODULE BusyScan -------------------------------
(***************************************************************************)
(* What Table.from_parquet still promises of several files when other      *)
(* processes write them in the meantime.  Which files it reads is decided  *)
(* once, from what is there at that moment.  It answers once: with an      *)
(* error, of one of those files unless the concatenation panicked, or with *)
(* one part for each of them, in their order.  A part is what the request  *)
(* leaves of a table that was whole at its path at some time; only of a    *)
(* file that somebody created since the call began, or over which writers  *)
(* had met before, it may be torn, and then its rows are anything.  The    *)
(* parts need not come from one time, and of their schemas only the types  *)
(* of the columns agree, by position.                                      *)
(***************************************************************************)
EXTENDS MultiScan

VARIABLES
  paths,  \* The resolved paths.
  torn    \* History: the positions in paths whose rows may be anything.

busyVars == <<disk, held, written, request, answer, paths, torn>>

BusyInit ==
  /\ ScanInit
  /\ held = [p \in Paths |-> TablesOf(disk[p])]
  /\ written = {}
  /\ paths = <<>>
  /\ torn = {}

Unanswered == answer.kind = "pending"

(* Others write: nothing changes where nobody has created a file, and what *)
(* a path has held is not forgotten.                                       *)
BusyWrite ==
  /\ written \subseteq written'
  /\ \A p \in Paths : held[p] \subseteq held'[p]
  /\ \A p \in Paths \ written' : disk'[p] = disk[p] /\ held'[p] = held[p]
  /\ UNCHANGED <<request, answer, paths, torn>>

BusyResolve ==
  /\ Unanswered /\ paths = <<>>
  /\ Resolvable(request)
  /\ paths' \in Resolutions(request)
  /\ UNCHANGED <<disk, held, written, request, answer, torn>>

MayTear(p) == p \in written \/ disk[p].kind = "mixed"

(* A file was written while it was read.                                   *)
BusyTear ==
  /\ Unanswered
  /\ \E k \in DOMAIN paths : MayTear(paths[k]) /\ torn' = torn \cup {k}
  /\ UNCHANGED <<disk, held, written, request, answer, paths>>

(* A batch with these columns can go under one with those of s.            *)
FitsUnder(t, s) == Len(s) <= Len(t) /\ \A i \in DOMAIN s : t[i].type = s[i].type

EverHeld == UNION {held[p] : p \in Paths}

(* What may be at position k of an answer with these columns, when it is   *)
(* not torn: what the request leaves of this table.                        *)
IsPart(k, t, fields, rows) ==
  LET batch == BatchOf(t, request)
  IN  /\ t \in held[paths[k]]
      /\ Knows(t, request)
      /\ rows = batch.rows
      /\ FitsUnder(batch.fields, fields)
      /\ k = 1 => fields = batch.fields

(* The columns of an answer, torn or not, are named as asked.              *)
NamedAsAsked(fields) ==
  request.columns # None =>
    /\ Len(fields) = Len(request.columns)
    /\ \A i \in DOMAIN fields : fields[i].name = request.columns[i]

BusyAnswer ==
  /\ Unanswered /\ paths # <<>>
  /\ answer' = Answer(answer'.fields, answer'.parts)
  /\ answer'.parts \in [DOMAIN paths -> SUBSET Rows]
  /\ NamedAsAsked(answer'.fields)
  /\ \A k \in DOMAIN paths \ torn : \E t \in EverHeld :
       IsPart(k, t, answer'.fields, answer'.parts[k])
  /\ UNCHANGED <<disk, held, written, request, paths, torn>>

BusyReject ==
  /\ Unanswered /\ paths = <<>>
  /\ ~Resolvable(request)
  /\ answer' = ResolveError(request)
  /\ UNCHANGED <<disk, held, written, request, paths, torn>>

BusyFail ==
  /\ Unanswered /\ paths # <<>>
  /\ \/ answer'.kind \in {"read", "mismatch"} /\ \E k \in DOMAIN paths : answer'.path = paths[k]
     \/ answer' = Panic /\ Len(paths) > 1
  /\ answer'.parts = <<>>
  /\ UNCHANGED <<disk, held, written, request, paths, torn>>

BusyNext ==
  \/ BusyWrite
  \/ BusyResolve
  \/ BusyTear
  \/ BusyAnswer
  \/ BusyReject
  \/ BusyFail

BusySpec == BusyInit /\ [][BusyNext]_busyVars
=============================================================================
