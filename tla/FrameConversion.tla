-------------------------- MODULE FrameConversion --------------------------
(***************************************************************************)
(* What Table.from_pandas promises of a DataFrame that other threads may   *)
(* change while it runs.  It answers once, for the columns in their order. *)
(* Each column is looked at twice at most, once to plan it and once to     *)
(* take its data, and both times it is one that the DataFrame has had at   *)
(* that label since the call began; so if nobody changes the DataFrame,    *)
(* what is below says exactly which columns convert, to what and with      *)
(* which report, and which failure or which table the caller gets.         *)
(***************************************************************************)
EXTENDS FrameColumns

VARIABLES
  seen,    \* History: the columns each label has had.
  strict,  \* The caller's strict flag.
  answer   \* [status, column, table]

conversionVars == <<seen, strict, answer>>

Unanswered == [status |-> "pending", column |-> 0, table |-> <<>>]

Failure(status, k) == [status |-> status, column |-> k, table |-> <<>>]

Table(columns) == [status |-> "table", column |-> 0, table |-> columns]

-----------------------------------------------------------------------------
(***************************************************************************)
(* One column, planned as p and taken as c.                                *)
(***************************************************************************)

(* No Series, or one no conversion is offered for: a dtype out of scope, a *)
(* unit other than the nanosecond, objects not all str (D-08, D-11, D-15). *)
Unsupported(p) ==
  \/ p = Gone
  \/ p.class = "masked"
  \/ p.class \in {"ArrowDtype", "numpy"} /\ p.kind = "other"
  \/ p.class = "DatetimeTZDtype" /\ ~p.ns
  \/ p.class \in {"ArrowDtype", "numpy"} /\ p.kind \in Temporal /\ ~p.ns
  \/ p.class = "numpy" /\ p.kind = "O" /\ ~p.onlyStr

(* Contiguous numbers of a width that Arrow arrays are not built over.     *)
NotBuilt(p) == p.class = "numpy" /\ p.kind = "half" /\ p.contiguous

(* Contiguous numpy numbers are taken from the Series that was planned;    *)
(* everything else is taken from the DataFrame once more.                  *)
FromSeries(p) == p.class = "numpy" /\ p.kind = "iuf" /\ p.contiguous

TakenFrom(p, c) == IF FromSeries(p) THEN p ELSE c

(* A Series' buffer and the only batch of an Arrow-backed column are shared. *)
Shares(p, c) == FromSeries(p) \/ (c.class = "ArrowDtype" /\ Len(c.chunks) <= 1)

Concatenated(p, c) == ~FromSeries(p) /\ Len(c.chunks) > 1

(* The reason the report gives for a copy, if it reports one.              *)
Reason(p, c) ==
  IF Concatenated(p, c) THEN "chunked"
  ELSE IF FromSeries(p) \/ p.class = "ArrowDtype" THEN "none" ELSE "planned"

Converts(p, c) == ~Unsupported(p) /\ ~NotBuilt(p) /\ TakenFrom(p, c) # Gone

Delivered(p, c, shared) ==
  [rows     |-> TakenFrom(p, c).rows,
   nullable |-> ~FromSeries(p),
   ordered  |-> p.class = "CategoricalDtype" /\ c.class = "CategoricalDtype" /\ p.ordered,
   shared   |-> shared,
   zeroCopy |-> Reason(p, c) = "none",
   reason   |-> Reason(p, c)]

(* What a column can become.                                               *)
Deliverable(l) ==
  {Delivered(x[1], x[2], x[3]) :
     x \in {y \in seen[l] \X seen[l] \X BOOLEAN :
              Converts(y[1], y[2]) /\ (Shares(y[1], y[2]) => y[3])}}

(* How its conversion can fail.  An export by pandas may fail at any time. *)
Failures(l) ==
  {"unsupported" : p \in {q \in seen[l] : Unsupported(q)}}
    \cup {"other" : p \in {q \in seen[l] : ~Unsupported(q) /\ NotBuilt(q)}}
    \cup {"import" : p \in {q \in seen[l] : ~Unsupported(q) /\ ~NotBuilt(q) /\ ~FromSeries(q)}}

-----------------------------------------------------------------------------
(***************************************************************************)
(* The call.                                                               *)
(***************************************************************************)

ConversionInit ==
  /\ \E f \in Frames : seen = [l \in DOMAIN f |-> {f[l]}]
  /\ strict \in BOOLEAN
  /\ answer = Unanswered

(* Other threads change the DataFrame.                                     *)
ChangeFrame ==
  /\ \A l \in DOMAIN seen : seen[l] \subseteq seen'[l]
  /\ UNCHANGED <<strict, answer>>

(* The first column that does not convert is the one the failure names.    *)
FailToConvert ==
  /\ answer = Unanswered
  /\ \E k \in DOMAIN Labels :
       /\ \A j \in 1 .. k - 1 : Deliverable(Labels[j]) # {}
       /\ \E status \in Failures(Labels[k]) : answer' = Failure(status, k)
  /\ UNCHANGED <<seen, strict>>

Tables ==
  {t \in [DOMAIN Labels -> UNION {Deliverable(l) : l \in Range(Labels)}] :
     \A k \in DOMAIN Labels : t[k] \in Deliverable(Labels[k])}

Rectangular(t) == Labels # <<>> /\ \A j, k \in DOMAIN Labels : t[j].rows = t[k].rows

FailToAssemble ==
  /\ answer = Unanswered
  /\ answer' = Failure("arrow", 0)
  /\ \E t \in Tables : ~Rectangular(t)
  /\ UNCHANGED <<seen, strict>>

(* strict=True names the first column that is reported as copied.          *)
RefuseCopies ==
  /\ answer = Unanswered
  /\ strict
  /\ \E k \in DOMAIN Labels :
       /\ answer' = Failure("strict", k)
       /\ \E t \in Tables :
            /\ Rectangular(t)
            /\ ~t[k].zeroCopy
            /\ \A j \in 1 .. k - 1 : t[j].zeroCopy
  /\ UNCHANGED <<seen, strict>>

AnswerTable ==
  /\ answer = Unanswered
  /\ LET t == answer'.table
     IN  /\ t \in Tables
         /\ Rectangular(t)
         /\ strict => \A k \in DOMAIN Labels : t[k].zeroCopy
         /\ answer' = Table(t)
  /\ UNCHANGED <<seen, strict>>

ConversionNext ==
  ChangeFrame \/ FailToConvert \/ FailToAssemble \/ RefuseCopies \/ AnswerTable

ConversionSpec == ConversionInit /\ [][ConversionNext]_conversionVars
=============================================================================
