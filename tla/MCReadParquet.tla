---------------------------- MODULE MCReadParquet ----------------------------
(***************************************************************************)
(* Instances of ReadParquet for TLC, over the files of SmallFiles.         *)
(***************************************************************************)
EXTENDS ReadParquet, SmallFiles

-----------------------------------------------------------------------------
(* An i8 column against every i64 literal, of which -4, -3, 2 and 3 lie    *)
(* beyond its bounds, and pairs of filters on a u64 column, whose rows 4   *)
(* and 5 lie beyond i64.  The files vary one column at a time.             *)
IntTypes == (a :> I8 @@ b :> U64)
IntFiles ==
  FilesOf(0, RowsOver2({Null}, {Null}))
  \cup FilesOf(3, RowsOver2({Null, -4, 0, 2}, {Null}))
  \cup FilesOf(3, RowsOver2({Null}, {0, 4, 10}))
IntFilters ==
  Singles(Filters({a}, Op, I64Literals))
  \cup Pairs(Filters({b}, {"Lt", "Ge"}, [kind : {"Int64"}, val : {-2, 4, 6}]))
OnlyAll == {AllColumns}

(* Requests: filters and projections naming known and unknown columns, in  *)
(* any order, repeated or none at all.                                     *)

RequestFiles ==
  FilesOf(0, RowsOver2({Null}, {Null})) \cup
  {FileOf(3, cells, lay, TRUE) : lay \in Layouts(3),
     cells \in [1 .. 3 -> {(a :> -2 @@ b :> 2), (a :> 2 @@ b :> 10), (a :> 2 @@ b :> Null)}]}
Positive(name) == [column |-> name, op |-> "Gt", value |-> [kind |-> "Int64", val |-> 0]]
Small(name) == [column |-> name, op |-> "Lt", value |-> [kind |-> "Int64", val |-> 6]]
RequestFilters ==
  {<<>>, <<Positive(a)>>, <<Small(b), Positive(a)>>, <<Positive(a), Positive(missing)>>,
   <<Positive(missing)>>}
RequestProjections ==
  {AllColumns, <<>>, <<b>>, <<b, a>>, <<a, a>>, <<a, missing>>, <<missing>>}

(* Both families in one state space: every filter on files read whole, and  *)
(* every request on files of one shape.                                    *)
EitherFiles == IntFiles \cup RequestFiles
EitherFilters == IntFilters \cup RequestFilters
FileInit ==
  /\ Init
  /\ \/ file \in IntFiles /\ filters \in IntFilters /\ columns = AllColumns
     \/ file \in RequestFiles /\ filters \in RequestFilters

FileSpec == FileInit /\ [][Next]_vars /\ WF_vars(Step)

-----------------------------------------------------------------------------
(* Literals the caller may write that the column cannot represent.         *)

(* A float column without the halves its literals have, and an i64 column  *)
(* whose integers reach into the gaps of the doubles.                      *)
WideMax == 14
NarrowTypes == (a :> Flt @@ b :> [kind |-> "int", lo |-> -14, hi |-> 14])
NarrowFiles == FilesOf(2, RowsOver2({0, 2, 4}, {4, 6, 8}))
NarrowFilters ==
  Singles(Filters({a}, Op, [kind : {"Float64"}, val : {0, 1, 3, 4}])
          \cup Filters({b}, Op, [kind : {"Float64"}, val : {4, 8}]))
=============================================================================
