---------------------------- MODULE MCFromPandas ----------------------------
(***************************************************************************)
(* DataFrames of two columns for FromPandas: one column of each kind the   *)
(* conversion tells apart, two rows long, and an empty frame.              *)
(***************************************************************************)
EXTENDS FromPandas, TLC

CONSTANT NoColumn  \* Stands for Gone.

MCLabels == <<"a", "b">>

Numpy(kind) ==
  [class |-> "numpy", kind |-> kind, ns |-> TRUE, contiguous |-> TRUE,
   rows |-> 2, chunks |-> <<2>>, onlyStr |-> TRUE, ordered |-> FALSE]

Arrow(kind, chunks) == [Numpy(kind) EXCEPT !.class = "ArrowDtype", !.chunks = chunks]

Strided     == [Numpy("iuf") EXCEPT !.contiguous = FALSE]
MixedObject == [Numpy("O") EXCEPT !.onlyStr = FALSE]
Micros      == [Numpy("M") EXCEPT !.ns = FALSE]
Zoned       == [Numpy("M") EXCEPT !.class = "DatetimeTZDtype"]
Masked      == [Numpy("iuf") EXCEPT !.class = "masked"]

Categorical(ordered) ==
  [Numpy("O") EXCEPT !.class = "CategoricalDtype", !.ordered = ordered]

AllColumns ==
  {Numpy("iuf"), Numpy("half"), Numpy("b"), Numpy("O"), Numpy("m"),
   Numpy("other"), Strided, MixedObject, Micros, Zoned, Masked,
   Arrow("iuf", <<2>>), Arrow("b", <<1, 1>>), Arrow("O", <<2>>),
   Categorical(TRUE), Categorical(FALSE)}

Empty(c) == [c EXCEPT !.rows = 0, !.chunks = <<>>]

Frame(c, d) == ("a" :> c) @@ ("b" :> d)

(* Fewer columns, each of another kind, for frames that change: a column   *)
(* can be dropped and the frame can shrink to one row.                     *)
ChangingFirst ==
  {Numpy("iuf"), Numpy("O"), MixedObject,
   Arrow("iuf", <<2>>), Arrow("iuf", <<1, 1>>), Categorical(TRUE)}

ChangingSecond == {Numpy("iuf"), MixedObject, Arrow("iuf", <<1, 1>>)}

OneRow == [Numpy("iuf") EXCEPT !.rows = 1, !.chunks = <<1>>]

ChangingFrames ==
  {Frame(c, d) : c \in ChangingFirst, d \in ChangingSecond}
    \cup {Frame(OneRow, OneRow), Frame(OneRow, NoColumn)}

(* Every pair of columns, of two rows and of none.                         *)
AllFrames ==
  {Frame(c, d) : c, d \in AllColumns}
    \cup {Frame(Empty(c), Empty(d)) : c, d \in {Numpy("O"), Numpy("iuf"), Arrow("iuf", <<2>>)}}
    \cup ChangingFrames

(* Only frames of the fewer columns change.                                *)
Changing == [l \in DOMAIN frame |-> frame[l].column] \in ChangingFrames

ChangeFrame == Changing /\ Edit /\ Changing'

FrameSpec == Init /\ [][Convert \/ ChangeFrame \/ Returned]_vars
=============================================================================
