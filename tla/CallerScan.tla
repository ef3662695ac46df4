----------------------------- MODULE CallerScan -----------------------------
(***************************************************************************)
(* What Table.from_parquet promises the Python caller of a filtered read   *)
(* of one file, in terms of the tuples the caller wrote: a malformed tuple *)
(* is refused with the exception of the first one; otherwise one answer, a *)
(* ValueError or a table.  The table's rows satisfy every tuple that       *)
(* compares what the column can represent, and if all tuples do they are   *)
(* all such rows, in file order.                                           *)
(***************************************************************************)
EXTENDS FilterArguments, Sequences, Functions

CONSTANTS
  Names,        \* Column names.
  Schema,       \* The columns of the file, in declared order.
  ColType,      \* The type of each column.
  Files,        \* The file contents considered.
  ArgLists,     \* The filters arguments considered.
  Projections,  \* The columns arguments considered.
  AllColumns    \* columns=None.

VARIABLES
  file,     \* The file.
  args,     \* filters: a sequence of tuples [column, operator, value].
  columns,  \* columns: a sequence of names, or AllColumns.
  answer    \* [kind, class, rows, cols]

Pending == [kind |-> "pending", class |-> "none", rows |-> <<>>, cols |-> <<>>]

Raised(class) == [kind |-> "raised", class |-> class, rows |-> <<>>, cols |-> <<>>]

Table(rows, cols) == [kind |-> "table", class |-> "none", rows |-> rows, cols |-> cols]

Known == {Schema[i] : i \in DOMAIN Schema}

Requested == IF columns = AllColumns THEN Schema ELSE columns

AllKnown ==
  /\ \A k \in DOMAIN args : args[k].column \in Known
  /\ \A i \in DOMAIN Requested : Requested[i] \in Known

Honoured(t) == Representable(ColType[t.column], t.value)

Asked(r) ==
  \A k \in DOMAIN args :
    LET t == args[k]
    IN  Honoured(t) => Means(t.operator, file.cell[r][t.column], t.value)

Matching == {r \in 1 .. file.n : Asked(r)}

Increasing(s) == \A i, j \in DOMAIN s : i < j => s[i] < s[j]

CallInit ==
  /\ file \in Files
  /\ args \in ArgLists
  /\ columns \in Projections
  /\ answer = Pending

FirstMalformed(k) ==
  /\ k \in DOMAIN args
  /\ Malformed(args[k])
  /\ \A j \in 1 .. k - 1 : ~Malformed(args[j])

(* An operator is looked at before the value of the same tuple.            *)
RefuseTuple ==
  /\ answer = Pending
  /\ \E k \in DOMAIN args :
       /\ FirstMalformed(k)
       /\ answer' = Raised(IF args[k].operator \in Operators
                           THEN "ValueError" ELSE "PydartError")
  /\ UNCHANGED <<file, args, columns>>

FailToRead ==
  /\ answer = Pending
  /\ \A k \in DOMAIN args : ~Malformed(args[k])
  /\ answer' = Raised("ValueError")
  /\ UNCHANGED <<file, args, columns>>

AnswerTable ==
  /\ answer = Pending
  /\ \A k \in DOMAIN args : ~Malformed(args[k])
  /\ AllKnown
  /\ LET rows == answer'.rows
     IN  /\ answer' = Table(rows, Requested)
         /\ Increasing(rows)
         /\ Range(rows) \subseteq Matching
         /\ (\A k \in DOMAIN args : Honoured(args[k])) => Range(rows) = Matching
  /\ UNCHANGED <<file, args, columns>>

CallNext == RefuseTuple \/ FailToRead \/ AnswerTable

callVars == <<file, args, columns, answer>>

CallSpec == CallInit /\ [][CallNext]_callVars
=============================================================================
