----------------------------- MODULE TableViews -----------------------------
(***************************************************************************)
(* What Tables and everything made from them promise to whoever reads      *)
(* them, with no memory in sight.  An object shows columns of one          *)
(* conversion.  What it reads in a column never changes while it is there, *)
(* unless the column is linked to that of the DataFrame: then it shows     *)
(* every write to it, until the DataFrame's column is replaced or dropped. *)
(* Which columns are linked is not said, but for numpy's bools and objects *)
(* which never are: numpy's numbers are reported as zero-copy, of the rest *)
(* only Arrow memory is, and one reported as copied may be linked.         *)
(* Objects that come from one another show the same.                       *)
(***************************************************************************)
EXTENDS Naturals

CONSTANTS Columns, Dtypes, Handles, None

VARIABLES
  dtype,   \* Per label: the kind of the column.
  writes,  \* Per label: the writes to the DataFrame's column, or None.
  view     \* Per object: the columns it shows.

viewVars == <<dtype, writes, view>>

View == [column : Columns, zeroCopy : BOOLEAN, reads : Nat, linked : BOOLEAN]

ViewsInit ==
  /\ dtype \in Dtypes
  /\ writes = [l \in Columns |-> 0]
  /\ view = [h \in Handles |-> {}]

Shows(h, columns) == view[h] = {} /\ view' = [view EXCEPT ![h] = columns]

(* A column fresh from its conversion.                                     *)
Convertible(v) ==
  /\ v \in View
  /\ v.zeroCopy => dtype[v.column] \in {"numeric", "arrow"}
  /\ dtype[v.column] = "numeric" => v.zeroCopy
  /\ v.linked => v.reads = writes[v.column] /\ dtype[v.column] # "boxed"

NewTable(h) ==
  /\ Shows(h, view'[h])
  /\ \A v \in view'[h] : Convertible(v)
  /\ {v.column : v \in view'[h]} = Columns
  /\ UNCHANGED <<dtype, writes>>

(* Some or all columns of one object are handed on to another.             *)
HandOn(g, h) ==
  /\ Shows(h, view'[h])
  /\ view'[h] \subseteq view[g]
  /\ UNCHANGED <<dtype, writes>>

LetGo(h) ==
  /\ view' = [view EXCEPT ![h] = {}]
  /\ UNCHANGED <<dtype, writes>>

Linked(v, l) == v.linked /\ v.column = l

(* A column whose values or link are others by now.                        *)
Now(v, reads, linked) ==
  [column |-> v.column, zeroCopy |-> v.zeroCopy, reads |-> reads, linked |-> linked]

(* A write reaches exactly the columns linked to the one written to.       *)
Write(l) ==
  /\ writes[l] # None
  /\ writes' = [writes EXCEPT ![l] = @ + 1]
  /\ view' = [h \in Handles |->
                {IF Linked(v, l) THEN Now(v, v.reads + 1, TRUE) ELSE v : v \in view[h]}]
  /\ UNCHANGED dtype

(* The DataFrame gets another column of that label, or none.               *)
Detach(l) ==
  /\ \A m \in Columns \ {l} : writes'[m] = writes[m]
  /\ view' = [h \in Handles |->
                {IF Linked(v, l) THEN Now(v, v.reads, FALSE) ELSE v : v \in view[h]}]
  /\ UNCHANGED dtype

ViewsNext ==
  \/ \E h \in Handles : NewTable(h) \/ LetGo(h) \/ \E g \in Handles : HandOn(g, h)
  \/ \E l \in Columns : Write(l) \/ Detach(l)

ViewsSpec == ViewsInit /\ [][ViewsNext]_viewVars
=============================================================================
