--------------------------- MODULE SharedBuffers ---------------------------
(***************************************************************************)
(* The memory behind the Tables: which objects keep a column's buffer      *)
(* alive, from the DataFrame it may be borrowed from (Table.from_pandas)   *)
(* through the Table, its PyCapsule exports, the imports of other          *)
(* libraries and of from_arrow, to the DataFrames of to_pandas.            *)
(*                                                                         *)
(* A buffer lives as long as something refers to it: a DataFrame, the      *)
(* Series in hand, or the owner of an Arrow array.  Arrays that share one  *)
(* owner count their references in Rust; only when the last is gone does   *)
(* the owner let go of the buffer.  The owner of a borrowed numpy buffer   *)
(* holds a Python reference: dropped by a thread that does not hold the    *)
(* GIL, it is put aside, and released later by a thread that does.         *)
(*                                                                         *)
(* Every step of a call may let other Python threads run.                  *)
(***************************************************************************)
EXTENDS Naturals, Sequences, Functions

CONSTANTS
  Labels,     \* The column labels of the DataFrame, in order.
  Dtypes,     \* The dtypes considered: functions from labels to kinds.
  Blocks,     \* Allocations; none is used twice.
  Owners,     \* Identities of the reference-counted owners of arrays.
  Handles,    \* Identities of the objects that hold arrays.
  None,       \* No buffer: the column, or the Series, is gone.
  MaxWrites   \* Bound on the in-place writes to one buffer.

VARIABLES
  dtype,     \* Per label: the kind of the column.
  frame,     \* Per label: the buffer of the DataFrame's column, or None.
  memory,    \* Per block: "unused", "live" or "freed".
  refs,      \* Per block: labels of the frame, "series" and owners.
  content,   \* Per block: how often it has been written to.
  pc,        \* "idle", or within from_pandas "fetch" or "obtain".
  next,      \* The column from_pandas converts next.
  series,    \* The buffer of the Series in hand, or None.
  building,  \* The arrays of the columns converted so far.
  handle,    \* Per handle: its kind and its arrays.
  pool       \* Owners dropped without the GIL, not yet released.

vars == <<dtype, frame, memory, refs, content, pc, next, series, building,
          handle, pool>>

Columns == Range(Labels)

(* A contiguous numeric numpy column, which is borrowed; numpy's other     *)
(* fixed-width values; its bools and objects; a Categorical; Arrow memory. *)
Kinds == {"numeric", "temporal", "boxed", "categorical", "arrow"}

(* An array: its column, its buffer and the owner of that, and whether its *)
(* record says zero-copy.                                                  *)
Array == [column : Columns, block : Blocks, owner : Owners, zeroCopy : BOOLEAN]

ASSUME BufferAssumption ==
  /\ Labels \in Seq(Columns)
  /\ Dtypes \subseteq [Columns -> Kinds]
  /\ None \notin Blocks \cup Nat
  /\ "series" \notin Columns \cup Owners
  /\ Columns \cap Owners = {}
  /\ MaxWrites \in Nat

-----------------------------------------------------------------------------
Free == [kind |-> "none", arrays |-> {}]

Held(h) == handle[h].arrays

Arrays == building \cup UNION {Held(h) : h \in Handles}

Init ==
  /\ dtype \in Dtypes
  /\ frame \in [Columns -> Blocks]
  /\ \A l, m \in Columns : frame[l] = frame[m] => l = m
  /\ refs = [b \in Blocks |-> {l \in Columns : frame[l] = b}]
  /\ memory = [b \in Blocks |-> IF refs[b] = {} THEN "unused" ELSE "live"]
  /\ content = [b \in Blocks |-> 0]
  /\ pc = "idle" /\ next = 1 /\ series = None /\ building = {}
  /\ handle = [h \in Handles |-> Free]
  /\ pool = {}

(* References given up everywhere and, on one block, taken.  A block comes *)
(* to life when it is first referred to and is freed when nothing refers   *)
(* to it any more.                                                         *)
Exchange(lost, block, taken) ==
  /\ refs' = [b \in Blocks |-> (refs[b] \ lost) \cup (IF b = block THEN taken ELSE {})]
  /\ memory' = [b \in Blocks |->
                  IF memory[b] = "freed" THEN "freed"
                  ELSE IF refs'[b] # {} THEN "live"
                  ELSE IF memory[b] = "live" THEN "freed" ELSE "unused"]

Release(lost) == Exchange(lost, None, {})

(* An owner no array and no pending release has.                           *)
NewOwner(o) == \A b \in Blocks : o \notin refs[b]

Unused(b) == memory[b] = "unused"

OwnersIn(arrays) == {a.owner : a \in arrays}

-----------------------------------------------------------------------------
(***************************************************************************)
(* Table.from_pandas: one Series in hand at a time.                        *)
(***************************************************************************)

Label == Labels[next]

StartConversion ==
  /\ pc = "idle"
  /\ pc' = "fetch" /\ next' = 1
  /\ UNCHANGED <<dtype, frame, memory, refs, content, series, building, handle, pool>>

(* df[label]: the Series refers to the buffer.                             *)
FetchSeries ==
  /\ pc = "fetch"
  /\ next \in DOMAIN Labels
  /\ frame[Label] # None
  /\ series' = frame[Label]
  /\ pc' = "obtain"
  /\ Exchange({}, frame[Label], {"series"})
  /\ UNCHANGED <<dtype, frame, content, next, building, handle, pool>>

(* The array is pushed, its owner takes the buffer, the Series is let go.  *)
Push(block, owner, zeroCopy) ==
  /\ building' = building \cup
       {[column |-> Label, block |-> block, owner |-> owner, zeroCopy |-> zeroCopy]}
  /\ next' = next + 1
  /\ pc' = "fetch"
  /\ series' = None

(* Mutant: the owner is that of the frame's column by now.                 *)
BorrowOwningColumn ==
  /\ pc = "obtain"
  /\ dtype[Label] = "numeric"
  /\ \E o \in Owners :
       NewOwner(o) /\ Push(series, o, TRUE) /\ Exchange({"series"}, frame[Label], {o})
  /\ UNCHANGED <<dtype, frame, content, handle, pool>>

(* borrow_numpy_numeric_column, on the Series in hand.                     *)
BorrowBuffer ==
  /\ pc = "obtain"
  /\ dtype[Label] = "numeric"
  /\ \E o \in Owners :
       NewOwner(o) /\ Push(series, o, TRUE) /\ Exchange({"series"}, series, {o})
  /\ UNCHANGED <<dtype, frame, content, handle, pool>>

(* import_column_via_pandas_stream asks the frame for the column again.    *)
(* Whether the stream shares the buffer is pandas' and pyarrow's choice:   *)
(* it may, reported as zero-copy or not, wherever Arrow's layout is that   *)
(* of the column, the codes of a Categorical included,                     *)
ImportShared ==
  /\ pc = "obtain"
  /\ dtype[Label] \in {"arrow", "temporal", "categorical"}
  /\ frame[Label] # None
  /\ \E o \in Owners :
       /\ NewOwner(o)
       /\ Push(frame[Label], o, dtype[Label] = "arrow")
       /\ Exchange({"series"}, frame[Label], {o})
  /\ UNCHANGED <<dtype, frame, content, handle, pool>>

(* or the values are converted, or several batches concatenated.           *)
ImportCopied ==
  /\ pc = "obtain"
  /\ dtype[Label] # "numeric"
  /\ frame[Label] # None
  /\ \E o \in Owners, n \in Blocks :
       NewOwner(o) /\ Unused(n) /\ Push(n, o, FALSE) /\ Exchange({"series"}, n, {o})
  /\ UNCHANGED <<dtype, frame, content, handle, pool>>

(* An error at any column, or check_strict after the last: what was built  *)
(* is dropped.                                                             *)
Abandon ==
  /\ pc # "idle"
  /\ pc' = "idle" /\ series' = None /\ building' = {}
  /\ Release({"series"} \cup OwnersIn(building))
  /\ UNCHANGED <<dtype, frame, content, next, handle, pool>>

ReturnTable ==
  /\ pc = "fetch"
  /\ next \notin DOMAIN Labels
  /\ \E t \in Handles :
       /\ handle[t] = Free
       /\ handle' = [handle EXCEPT ![t] = [kind |-> "table", arrays |-> building]]
  /\ pc' = "idle" /\ building' = {}
  /\ UNCHANGED <<dtype, frame, memory, refs, content, next, series, pool>>

-----------------------------------------------------------------------------
(***************************************************************************)
(* Handing a Table's arrays on: the arrays are cloned, the owners shared.  *)
(***************************************************************************)

IsTable(t) == handle[t].kind \in {"table", "imported"}

memoryVars == <<dtype, frame, memory, refs, content, pc, next, series, building, pool>>

HandOn(kind, arrays) ==
  /\ \E h \in Handles :
       /\ handle[h] = Free
       /\ handle' = [handle EXCEPT ![h] = [kind |-> kind, arrays |-> arrays]]
  /\ UNCHANGED memoryVars

(* __arrow_c_stream__ makes a capsule,                                     *)
Export(t) == IsTable(t) /\ HandOn("capsule", Held(t))

(* which another library consumes, once: it moves the stream out.          *)
Consume(c) ==
  /\ handle[c].kind = "capsule"
  /\ handle' = [handle EXCEPT ![c] = [kind |-> "foreign", arrays |-> Held(c)]]
  /\ UNCHANGED memoryVars

(* from_arrow, of another library's object or of a Table.                  *)
FromArrow(f) ==
  /\ IsTable(f) \/ handle[f].kind = "foreign"
  /\ HandOn("imported", Held(f))

(* to_pandas: pandas takes the arrays as they are, except a dictionary,    *)
(* whose codes it may take or copy to memory of its own.                   *)
ToPandas(t) ==
  /\ IsTable(t)
  /\ \E taken \in {Held(t), {a \in Held(t) : dtype[a.column] # "categorical"}} :
       HandOn("pandas", taken)

(* column(name): one column, as an object of its own.                      *)
ColumnOf(t) ==
  /\ IsTable(t)
  /\ \E l \in Columns : HandOn("column", {a \in Held(t) : a.column = l})

-----------------------------------------------------------------------------
(***************************************************************************)
(* Letting go.                                                             *)
(***************************************************************************)

(* Mutant: the first of several handles to go takes the owner with it.     *)
OwnersOf(h) == OwnersIn(Held(h))

(* The owners whose last array goes with handle h.                         *)
LastOf(h) ==
  {a.owner : a \in {x \in Held(h) :
     \A g \in Handles \ {h} : x.owner \notin OwnersIn(Held(g))}}

Borrowed(owner, h) ==
  \E a \in Held(h) : a.owner = owner /\ dtype[a.column] = "numeric"

(* The last reference to the object goes.                                  *)
Drop(h) ==
  /\ handle[h] # Free
  /\ handle' = [handle EXCEPT ![h] = Free]
  /\ Release(LastOf(h))
  /\ UNCHANGED <<dtype, frame, content, pc, next, series, building, pool>>

(* Mutant: without the GIL the reference is forgotten.                     *)
DropForgetting(h) ==
  /\ handle[h].kind = "foreign"
  /\ handle' = [handle EXCEPT ![h] = Free]
  /\ Release({o \in LastOf(h) : ~Borrowed(o, h)})
  /\ UNCHANGED <<dtype, frame, content, pc, next, series, building, pool>>

(* Another library's object goes, on a thread without the GIL: what its    *)
(* owners hold in Python is not released yet.                              *)
DropWithoutGil(h) ==
  /\ handle[h].kind = "foreign"
  /\ handle' = [handle EXCEPT ![h] = Free]
  /\ LET later == {o \in LastOf(h) : Borrowed(o, h)}
     IN  pool' = pool \cup later /\ Release(LastOf(h) \ later)
  /\ UNCHANGED <<dtype, frame, content, pc, next, series, building>>

(* The next thread to enter with the GIL releases them.                    *)
ReleasePool ==
  /\ pool # {}
  /\ Release(pool)
  /\ pool' = {}
  /\ UNCHANGED <<dtype, frame, content, pc, next, series, building, handle>>

-----------------------------------------------------------------------------
(***************************************************************************)
(* The caller, and other threads, with the DataFrame.                      *)
(***************************************************************************)

DropColumn(l) ==
  /\ frame[l] # None
  /\ frame' = [frame EXCEPT ![l] = None]
  /\ Release({l})
  /\ UNCHANGED <<dtype, content, pc, next, series, building, handle, pool>>

ReplaceColumn(l) ==
  /\ frame[l] # None
  /\ \E n \in Blocks :
       Unused(n) /\ frame' = [frame EXCEPT ![l] = n] /\ Exchange({l}, n, {l})
  /\ UNCHANGED <<dtype, content, pc, next, series, building, handle, pool>>

(* A write into numpy's memory; Arrow memory is never written to.          *)
WriteInPlace(l) ==
  /\ frame[l] # None
  /\ dtype[l] # "arrow"
  /\ content[frame[l]] < MaxWrites
  /\ content' = [content EXCEPT ![frame[l]] = @ + 1]
  /\ UNCHANGED <<dtype, frame, memory, refs, pc, next, series, building, handle, pool>>

Next ==
  \/ StartConversion \/ FetchSeries \/ BorrowBuffer \/ ImportShared \/ ImportCopied
  \/ Abandon \/ ReturnTable
  \/ \E h \in Handles :
       \/ Export(h) \/ Consume(h) \/ FromArrow(h) \/ ToPandas(h) \/ ColumnOf(h)
       \/ Drop(h) \/ DropWithoutGil(h)
  \/ ReleasePool
  \/ \E l \in Columns : DropColumn(l) \/ ReplaceColumn(l) \/ WriteInPlace(l)

Spec == Init /\ [][Next]_vars

-----------------------------------------------------------------------------
(***************************************************************************)
(* Properties.                                                             *)
(***************************************************************************)

HandleKinds == {"none", "table", "imported", "capsule", "foreign", "pandas", "column"}

(* The type invariant: between two conversions no Series and no half-built *)
(* arrays are left over.                                                   *)
TypeOK ==
  /\ dtype \in [Columns -> Kinds]
  /\ frame \in [Columns -> Blocks \cup {None}]
  /\ memory \in [Blocks -> {"unused", "live", "freed"}]
  /\ refs \in [Blocks -> SUBSET (Columns \cup Owners \cup {"series"})]
  /\ content \in [Blocks -> 0 .. MaxWrites]
  /\ pc \in {"idle", "fetch", "obtain"}
  /\ next \in Nat \ {0}
  /\ series \in Blocks \cup {None}
  /\ building \subseteq Array
  /\ handle \in [Handles -> [kind : HandleKinds, arrays : SUBSET Array]]
  /\ pool \subseteq Owners
  /\ pc = "obtain" <=> series # None
  /\ pc = "idle" => building = {}

(* T-01-03 and T-01-04: the owner "keeps the numpy array alive for as long *)
(* as this Arrow buffer lives".  No array anyone can still read points to  *)
(* freed memory: not one half-built when its column is replaced, nor one   *)
(* another library holds when DataFrame and Table are gone.                *)
NoDangling == \A a \in Arrays : memory[a.block] = "live"

(* The reverse: nothing keeps a buffer alive but a frame, a Series or an   *)
(* array that still is there.  A rejected strict conversion, a capsule     *)
(* nobody consumed and a foreign drop without the GIL leave nothing behind *)
(* once the releases put aside are made.                                   *)
NothingLeaks ==
  \A b \in Blocks :
    memory[b] = "live" /\ pool = {} =>
      b = series \/ (\E l \in Columns : frame[l] = b) \/ (\E a \in Arrays : a.block = b)

(* The inductive invariant: a block's referents are the columns of the     *)
(* frame that lie in it, the Series in hand, and the owners of arrays in   *)
(* it or put aside; every owner has one block.  In memory the frame still  *)
(* can write to lie only the arrays that may change with it.               *)
ReferentsExact ==
  \A b \in Blocks :
    /\ memory[b] = "live" <=> refs[b] # {}
    /\ \A l \in Columns : l \in refs[b] <=> frame[l] = b
    /\ "series" \in refs[b] <=> series = b
    /\ \A o \in refs[b] \cap Owners :
         o \in pool \/ \E a \in Arrays : a.owner = o /\ a.block = b

OwnersSeparate ==
  /\ \A a \in Arrays : a.owner \in refs[a.block] /\ a.owner \notin pool
  /\ \A b, c \in Blocks : \A o \in Owners : o \in refs[b] \cap refs[c] => b = c
  /\ \A a \in building : \A h \in Handles : a.owner \notin OwnersIn(Held(h))
  /\ \A o \in pool : \E b \in Blocks : o \in refs[b]

WritesStay ==
  /\ \A l, m \in Columns : frame[l] = frame[m] => l = m \/ frame[l] = None
  /\ pc = "obtain" =>
       /\ next \in DOMAIN Labels
       /\ \A l \in Columns : frame[l] = series => l = Label
  /\ \A a \in Arrays : \A l \in Columns :
       frame[l] = a.block =>
         l = a.column /\ dtype[l] # "boxed"

(* A table gets an array for every column; numpy's numbers are reported as *)
(* zero-copy, and of the rest only Arrow memory is.                        *)
TablesComplete ==
  /\ pc # "idle" => \A k \in 1 .. next - 1 : \E a \in building : a.column = Labels[k]
  /\ \A a \in Arrays :
       /\ a.zeroCopy => dtype[a.column] \in {"numeric", "arrow"}
       /\ dtype[a.column] = "numeric" => a.zeroCopy

IInv ==
  TypeOK /\ ReferentsExact /\ OwnersSeparate /\ WritesStay /\ TablesComplete

(***************************************************************************)
(* What the holders of arrays can read.  Freed memory reads as None.       *)
(***************************************************************************)
Reading(a) == IF memory[a.block] = "live" THEN content[a.block] ELSE None

ViewOf(a) ==
  [column |-> a.column, zeroCopy |-> a.zeroCopy, reads |-> Reading(a),
   linked |-> frame[a.column] = a.block]

Writes == [l \in Columns |-> IF frame[l] = None THEN None ELSE content[frame[l]]]

Shown == [h \in Handles |-> {ViewOf(a) : a \in Held(h)}]

Views == INSTANCE TableViews WITH writes <- Writes, view <- Shown

(* T-01-03 and T-01-04 for whoever reads: a Table and what is made of it   *)
(* are values.  Of all that happens to the DataFrame, the Tables and other *)
(* libraries' objects, nothing changes what one of them shows but a write  *)
(* to a column it is linked to, and that shows in all of them alike.       *)
TablesAreViews == Views!ViewsSpec
=============================================================================
