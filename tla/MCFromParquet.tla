---------------------------- MODULE MCFromParquet ----------------------------
(***************************************************************************)
(* Python filters over the files of SmallFiles.                            *)
(***************************************************************************)
EXTENDS FromParquet, SmallFiles

Py(type, values) == [type : {type}, val : values]

Tuples(cs, operators, values) == [column : cs, operator : operators, value : values]

(* A double column, where doubles have gaps (the int 3 is no double), a    *)
(* truth value, a string and an i64, against Python values of every kind:  *)
(* ints beyond i64 and beyond the doubles among them.                      *)
ValueTypes == (a :> Dbl @@ b :> Bln @@ c :> Str @@ d :> I64s)
DoubleFiles == RecordedFiles(2, RowsOver4({Null, -3, 4, 8}, {Null}, {Null}, {Null}))
TextFiles   == RecordedFiles(2, RowsOver4({Null}, {0, 2}, {0, 1}, {Null}))
LongFiles   == RecordedFiles(2, RowsOver4({Null}, {Null}, {Null}, {4, 6}))
ValueFiles  == DoubleFiles \cup TextFiles \cup LongFiles
AllValues ==
  Py("bool", {0, 2}) \cup Py("int", {2, 4, 6, 8, 18})
  \cup Py("float", {-3, 4, Nan}) \cup Py("decimal", {3})
  \cup Py("str", {0, 1}) \cup Py("other", {0})
MaxF64 == 16

(* Every tuple alone, and pairs in which one tuple, or both, are refused.  *)
PairTuples ==
  Tuples({a}, {"<", "=<"}, Py("int", {4, 18})) \cup Tuples({b}, {"=="}, Py("other", {0}))
  \cup Tuples({missing}, {">"}, Py("int", {2}))
ValueArgs ==
  Singles(Tuples({a, b, c}, Operators, AllValues))
  \cup Singles(Tuples({d}, Operators, Py("int", {4, 6}) \cup Py("str", {1})))
  \cup Pairs(PairTuples)

OnlyAll == {AllColumns}

(* An i8 and a u64 column against every Python number: floats with a       *)
(* fraction or beyond the column, ints beyond i64 and beyond u64.          *)
IntTypes == (a :> I8 @@ b :> U64)
IntFiles == FilesOf(2, RowsOver2({-4, 0, 2}, {0, 8, 14}))
IntArgs ==
  Singles(Tuples({a, b}, Operators,
     Py("int", {-10, -8, 0, 6, 8, 10, 16}) \cup Py("float", {-1, 1, 4, 10})
     \cup Py("decimal", {3})))
=============================================================================
