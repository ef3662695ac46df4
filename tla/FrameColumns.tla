---------------------------- MODULE FrameColumns ----------------------------
(***************************************************************************)
(* What from_pandas looks at in a DataFrame: the labels of its columns and *)
(* the column at each of them.                                             *)
(***************************************************************************)
EXTENDS Naturals, Sequences, Functions

CONSTANTS
  Labels,  \* The column labels of the DataFrame, in order.
  Frames,  \* The states of a DataFrame: a column per label, or Gone.
  Gone     \* No Series: the label was dropped, or is there twice.

DtypeClass == {"ArrowDtype", "CategoricalDtype", "DatetimeTZDtype", "masked", "numpy"}

(* "iuf" stands for the integer and float dtypes the borrow accepts and    *)
(* "half" for those of the same kinds it does not (float16, longdouble).   *)
DtypeKind == {"iuf", "half", "b", "O", "M", "m", "other"}

Temporal == {"M", "m"}

(***************************************************************************)
(* A column: its dtype, for a temporal one whether its unit is the         *)
(* nanosecond, whether its values are C-contiguous, its length, the        *)
(* lengths of the batches its Arrow stream yields, whether an object       *)
(* column holds only str and missing values, and whether a categorical is  *)
(* ordered.                                                                *)
(***************************************************************************)
Column ==
  [class : DtypeClass, kind : DtypeKind, ns : BOOLEAN, contiguous : BOOLEAN,
   rows : Nat, chunks : Seq(Nat), onlyStr : BOOLEAN, ordered : BOOLEAN]

(* The labels are those of df.columns, taken once; a column's stream       *)
(* yields all its rows.                                                    *)
ASSUME FramesAssumption ==
  /\ Labels \in Seq(Range(Labels))
  /\ Frames \subseteq [Range(Labels) -> Column \cup {Gone}]
  /\ Gone \notin Column
  /\ \A f \in Frames : \A l \in Range(Labels) :
       f[l] # Gone => SumFunction(f[l].chunks) = f[l].rows
=============================================================================
