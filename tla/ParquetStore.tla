---------------------------- MODULE ParquetStore ----------------------------
(***************************************************************************)
(* Table.to_parquet called by several processes on shared paths.  A write  *)
(* creates the target anew (File::create truncates the file in place),     *)
(* writes row groups and, on close, the footer, without which the file     *)
(* cannot be read.  A write can fail or its process die at any point.  A   *)
(* to_parquet call keeps Python's lock, so overlapping calls belong to     *)
(* different processes.  Nothing keeps them apart: each writes at its own  *)
(* offsets of the same file.                                               *)
(***************************************************************************)
EXTENDS ParquetFiles

CONSTANTS
  Writers,   \* One to_parquet call each.
  Calls      \* The calls considered, [path, options, batches, table] for each writer.

VARIABLES
  call,      \* The arguments of each writer.
  wpc,       \* "start", "create", "writing", "ok", "refused" or "failed".
  openers    \* Writers that created the file at a path and may write to what is there.

storeVars == <<disk, call, wpc, openers, held, written>>

Call == [path : Paths, options : {"valid", "codec", "zero"}, batches : 0 .. 2, table : Table]

ASSUME CallsAssumption ==
  /\ Calls \subseteq [Writers -> Call]
  /\ \A c \in Calls : \A w \in Writers : Distinct(c[w].table.fields)

StoreInit ==
  /\ call \in Calls
  /\ wpc = [w \in Writers |-> "start"]
  /\ openers = [p \in Paths |-> {}]
  /\ held = [p \in Paths |-> TablesOf(disk[p])]
  /\ written = {}

Target(w) == call[w].path

(* Mutant: the checks of the arguments do not stop the call.               *)
AnyArguments(w) == TRUE

(* A row group size of 0, an unknown codec, a table without batches.       *)
Valid(w) == call[w].options = "valid" /\ call[w].batches > 0

Validate(w) ==
  /\ wpc[w] = "start"
  /\ Valid(w)
  /\ wpc' = [wpc EXCEPT ![w] = "create"]
  /\ UNCHANGED <<disk, call, openers, held, written>>

(* Refused arguments, or batches that cannot be concatenated.              *)
Refuse(w) ==
  /\ wpc[w] = "start"
  /\ call[w].options # "valid" \/ call[w].batches # 1
  /\ wpc' = [wpc EXCEPT ![w] = "refused"]
  /\ UNCHANGED <<disk, call, openers, held, written>>

(* File::create: whatever was there is gone.                               *)
Create(w) ==
  /\ wpc[w] = "create"
  /\ ~IsDir(Target(w))
  /\ disk' = [disk EXCEPT ![Target(w)] = Junk]
  /\ openers' = [openers EXCEPT ![Target(w)] = {w} \cup {v \in @ : wpc[v] = "writing"}]
  /\ wpc' = [wpc EXCEPT ![w] = "writing"]
  /\ written' = written \cup {Target(w)}
  /\ UNCHANGED <<call, held>>

CreateFails(w) ==
  /\ wpc[w] = "create"
  /\ wpc' = [wpc EXCEPT ![w] = "failed"]
  /\ UNCHANGED <<disk, call, openers, held, written>>

(* What several writers of one file may leave: the bytes of each over      *)
(* those of the others.  Where a footer survives, the pages it points to   *)
(* may be of any of them, or of none.                                      *)
Overlapped(p) ==
  {Junk} \cup {Damaged(call[v].table) : v \in openers[p]}
         \cup {Mixed(call[v].table) : v \in openers[p]}

Alone(w) == openers[Target(w)] = {w}

(* Mutant: the writer is dropped, not closed.                              *)
DroppedAt(w) == {Junk}

ClosedAt(w) ==
  IF Alone(w) THEN {Whole(call[w].table)} ELSE Overlapped(Target(w))

(* What an abandoned file holds: no footer, or all of it when only the     *)
(* return of close was missing.                                            *)
AbandonedAt(w) ==
  IF Alone(w) THEN {Junk, Whole(call[w].table)} ELSE Overlapped(Target(w))

Leave(w, c) ==
  /\ disk' = [disk EXCEPT ![Target(w)] = c]
  /\ held' = [held EXCEPT ![Target(w)] = @ \cup TablesOf(c)]
  /\ UNCHANGED written

(* Row groups written into a file another process writes, too.             *)
WriteOver(w) ==
  /\ wpc[w] = "writing"
  /\ ~Alone(w)
  /\ \E c \in Overlapped(Target(w)) : Leave(w, c)
  /\ UNCHANGED <<call, wpc, openers>>

(* ArrowWriter::close writes the footer.                                   *)
Close(w) ==
  /\ wpc[w] = "writing"
  /\ \E c \in ClosedAt(w) : Leave(w, c)
  /\ wpc' = [wpc EXCEPT ![w] = "ok"]
  /\ UNCHANGED <<call, openers>>

(* An error of ArrowWriter, or the end of the process.                     *)
WriteFails(w) ==
  /\ wpc[w] = "writing"
  /\ \E c \in AbandonedAt(w) : Leave(w, c)
  /\ wpc' = [wpc EXCEPT ![w] = "failed"]
  /\ UNCHANGED <<call, openers>>

Write(w) ==
  \/ Validate(w)
  \/ Refuse(w)
  \/ Create(w)
  \/ CreateFails(w)
  \/ WriteOver(w)
  \/ Close(w)
  \/ WriteFails(w)

-----------------------------------------------------------------------------
(* to_parquet: "no file is written (validation happens before              *)
(* File::create)".  A call that was refused never touched its target, and  *)
(* one whose arguments are bad is never anything but refused.              *)
RefusedTouchesNothing ==
  \A w \in Writers :
    wpc[w] = "refused" \/ ~(call[w].options = "valid" /\ call[w].batches > 0) =>
      /\ \A p \in Paths : w \notin openers[p]
      /\ wpc[w] \in {"start", "refused"}

(* A call that returned without error left its table at its path, whole,   *)
(* unless another process wrote there at the same time or since.           *)
FinishedWriteStays ==
  \A w \in Writers :
    wpc[w] = "ok" /\ Alone(w) => disk[Target(w)] = Whole(call[w].table)

StoreTypeOK ==
  /\ call \in Calls
  /\ wpc \in [Writers -> {"start", "create", "writing", "ok", "refused", "failed"}]
  /\ openers \in [Paths -> SUBSET Writers]
  /\ held \in [Paths -> SUBSET Table]
  /\ written \subseteq {Target(w) : w \in Writers}

(* Why the two hold: only a writer past its checks that created the file   *)
(* counts among its openers, every one that is writing does, and a whole   *)
(* file is part of the history of its path.                                *)
StoreInv ==
  /\ StoreTypeOK
  /\ \A p \in Paths : \A w \in openers[p] : Target(w) = p /\ wpc[w] \in {"writing", "ok", "failed"}
  /\ \A w \in Writers : wpc[w] = "writing" => w \in openers[Target(w)] /\ Target(w) \in written
  /\ \A w \in Writers : wpc[w] \notin {"start", "refused"} => Valid(w)
  /\ \A p \in Paths : TablesOf(disk[p]) \subseteq held[p]
  /\ FinishedWriteStays
=============================================================================
