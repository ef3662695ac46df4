------------------------ MODULE SharedBuffersProofs ------------------------
(***************************************************************************)
(* The invariants of SharedBuffers, for every DataFrame, every number of   *)
(* buffers, owners and handles, and any number of in-place writes.  IInv   *)
(* is inductive: a buffer's referents are exactly what the objects say     *)
(* they are.                                                               *)
(***************************************************************************)
EXTENDS SharedBuffers, TLAPS

(* A block that is referred to is live, and only such a block.             *)
LEMMA Alive ==
  ASSUME IInv, NEW b \in Blocks
  PROVE  memory[b] = "live" <=> refs[b] # {}
BY DEF IInv, ReferentsExact

(* A column of the frame and the Series in hand lie in live blocks.        *)
LEMMA FrameAlive ==
  ASSUME IInv
  PROVE  /\ \A l \in Columns : frame[l] # None =>
              frame[l] \in Blocks /\ memory[frame[l]] = "live" /\ l \in refs[frame[l]]
         /\ series # None =>
              series \in Blocks /\ memory[series] = "live" /\ "series" \in refs[series]
<1>1. ASSUME NEW l \in Columns, frame[l] # None
      PROVE  frame[l] \in Blocks /\ memory[frame[l]] = "live" /\ l \in refs[frame[l]]
  <2>1. frame[l] \in Blocks
    BY <1>1 DEF IInv, TypeOK
  <2>2. l \in refs[frame[l]]
    BY <2>1 DEF IInv, ReferentsExact
  <2> QED
    BY <2>1, <2>2, Alive
<1>2. ASSUME series # None
      PROVE  series \in Blocks /\ memory[series] = "live" /\ "series" \in refs[series]
  <2>1. series \in Blocks
    BY <1>2 DEF IInv, TypeOK
  <2>2. "series" \in refs[series]
    BY <2>1 DEF IInv, ReferentsExact
  <2> QED
    BY <2>1, <2>2, Alive
<1> QED
  BY <1>1, <1>2

(* The block of an array is live.                                          *)
LEMMA ArrayAlive ==
  ASSUME IInv, NEW a \in Arrays
  PROVE  a \in Array /\ a.owner \in refs[a.block] /\ memory[a.block] = "live"
<1>1. a \in Array
  BY DEF IInv, TypeOK, Arrays, Held
<1>2. a.owner \in refs[a.block]
  BY DEF IInv, OwnersSeparate
<1> QED
  BY <1>1, <1>2, Alive DEF Array

(* What an exchange of references does, when the block is not yet freed.   *)
LEMMA Exchanged ==
  ASSUME IInv, NEW lost, NEW block, NEW taken,
         \A r \in taken : r \in Columns \cup Owners \cup {"series"},
         block \in Blocks => memory[block] # "freed",
         Exchange(lost, block, taken)
  PROVE  /\ refs' \in [Blocks -> SUBSET (Columns \cup Owners \cup {"series"})]
         /\ memory' \in [Blocks -> {"unused", "live", "freed"}]
         /\ \A b \in Blocks :
              /\ memory'[b] = "live" <=> refs'[b] # {}
              /\ \A r : r \in refs'[b] <=>
                   (r \in refs[b] /\ r \notin lost) \/ (b = block /\ r \in taken)
<1>1. refs \in [Blocks -> SUBSET (Columns \cup Owners \cup {"series"})]
      /\ memory \in [Blocks -> {"unused", "live", "freed"}]
  BY DEF IInv, TypeOK
<1>2. refs' = [b \in Blocks |-> (refs[b] \ lost) \cup (IF b = block THEN taken ELSE {})]
  BY DEF Exchange
<1>3. refs' \in [Blocks -> SUBSET (Columns \cup Owners \cup {"series"})]
  BY <1>1, <1>2
<1>4. memory' = [b \in Blocks |->
                  IF memory[b] = "freed" THEN "freed"
                  ELSE IF refs'[b] # {} THEN "live"
                  ELSE IF memory[b] = "live" THEN "freed" ELSE "unused"]
  BY DEF Exchange
<1>5. memory' \in [Blocks -> {"unused", "live", "freed"}]
  BY <1>4
<1>6. ASSUME NEW b \in Blocks
      PROVE  /\ memory'[b] = "live" <=> refs'[b] # {}
             /\ \A r : r \in refs'[b] <=>
                  (r \in refs[b] /\ r \notin lost) \/ (b = block /\ r \in taken)
  <2>1. \A r : r \in refs'[b] <=>
                  (r \in refs[b] /\ r \notin lost) \/ (b = block /\ r \in taken)
    BY <1>2
  <2>2. memory[b] = "freed" => refs[b] = {} /\ b # block
    BY Alive, BufferAssumption
  <2>3. memory[b] = "freed" => refs'[b] = {}
    BY <2>1, <2>2
  <2>4. memory'[b] = "live" <=> refs'[b] # {}
    BY <1>4, <2>3
  <2> QED
    BY <2>1, <2>4
<1> QED
  BY <1>3, <1>5, <1>6

(* A release: no block gains a reference.                                  *)
LEMMA Released ==
  ASSUME IInv, NEW lost, Release(lost)
  PROVE  /\ refs' \in [Blocks -> SUBSET (Columns \cup Owners \cup {"series"})]
         /\ memory' \in [Blocks -> {"unused", "live", "freed"}]
         /\ \A b \in Blocks :
              /\ memory'[b] = "live" <=> refs'[b] # {}
              /\ \A r : r \in refs'[b] <=> r \in refs[b] /\ r \notin lost
<1>1. None \notin Blocks
  BY BufferAssumption
<1>2. Exchange(lost, None, {})
  BY DEF Release
<1>3. \A r \in {} : r \in Columns \cup Owners \cup {"series"}
  OBVIOUS
<1>4. None \in Blocks => memory[None] # "freed"
  BY <1>1
<1>5. /\ refs' \in [Blocks -> SUBSET (Columns \cup Owners \cup {"series"})]
      /\ memory' \in [Blocks -> {"unused", "live", "freed"}]
      /\ \A b \in Blocks :
           /\ memory'[b] = "live" <=> refs'[b] # {}
           /\ \A r : r \in refs'[b] <=>
                (r \in refs[b] /\ r \notin lost) \/ (b = None /\ r \in {})
  BY <1>2, <1>3, <1>4, Exchanged
<1> QED
  BY <1>5

-----------------------------------------------------------------------------
(* Every initial state satisfies the inductive invariant.                  *)
LEMMA Initially == Init => IInv
<1> SUFFICES ASSUME Init
             PROVE  IInv
  OBVIOUS
<1>1. Arrays = {}
  BY DEF Init, Arrays, Held, Free
<1>2. TypeOK
  BY BufferAssumption DEF Init, TypeOK, Free, HandleKinds
<1>3. ReferentsExact
  BY BufferAssumption DEF Init, ReferentsExact
<1>4. OwnersSeparate
  BY <1>1, BufferAssumption DEF Init, OwnersSeparate
<1>5. WritesStay /\ TablesComplete
  BY <1>1 DEF Init, WritesStay, TablesComplete
<1> QED
  BY <1>2, <1>3, <1>4, <1>5 DEF IInv

-----------------------------------------------------------------------------
(* A converted column joins the arrays being built.                        *)
LEMMA PushStep ==
  ASSUME IInv, pc = "obtain",
         NEW block \in Blocks, NEW o \in Owners, NEW z \in BOOLEAN,
         NewOwner(o), memory[block] # "freed",
         \A l \in Columns : frame[l] = block =>
           l = Label /\ dtype[l] # "boxed",
         z => dtype[Label] \in {"numeric", "arrow"}, dtype[Label] = "numeric" => z,
         Push(block, o, z), Exchange({"series"}, block, {o}),
         UNCHANGED <<dtype, frame, content, handle, pool>>
  PROVE  IInv'
<1> DEFINE new == [column |-> Label, block |-> block, owner |-> o, zeroCopy |-> z]
<1>1. /\ refs' \in [Blocks -> SUBSET (Columns \cup Owners \cup {"series"})]
      /\ memory' \in [Blocks -> {"unused", "live", "freed"}]
      /\ \A b \in Blocks :
           /\ memory'[b] = "live" <=> refs'[b] # {}
           /\ \A r : r \in refs'[b] <=>
                (r \in refs[b] /\ r # "series") \/ (b = block /\ r = o)
  <2>1. \A r \in {o} : r \in Columns \cup Owners \cup {"series"}
    OBVIOUS
  <2>2. /\ refs' \in [Blocks -> SUBSET (Columns \cup Owners \cup {"series"})]
        /\ memory' \in [Blocks -> {"unused", "live", "freed"}]
        /\ \A b \in Blocks :
             /\ memory'[b] = "live" <=> refs'[b] # {}
             /\ \A r : r \in refs'[b] <=>
                  (r \in refs[b] /\ r \notin {"series"}) \/ (b = block /\ r \in {o})
    BY <2>1, Exchanged
  <2> QED
    BY <2>2
<1>2. building' = building \cup {new} /\ Arrays' = Arrays \cup {new}
  BY DEF Push, Arrays, Held
<1>3. Label \in Columns
  BY BufferAssumption DEF IInv, WritesStay, Label, Columns, Range
<1>4. new \in Array
  BY <1>3 DEF Array, IInv, TypeOK
<1>5. o # "series" /\ o \notin Columns
  BY BufferAssumption
<1>6. \A a \in Arrays : a.owner # o /\ a.block \in Blocks /\ a.owner \in Owners
  BY ArrayAlive DEF NewOwner, Array
<1>7. TypeOK'
  <2>1. /\ pc' = "fetch" /\ series' = None /\ next' = next + 1
    BY DEF Push
  <2>2. building' \subseteq Array
    BY <1>2, <1>4 DEF IInv, TypeOK
  <2>3. next' \in Nat \ {0}
    BY <2>1 DEF IInv, TypeOK
  <2> QED
    BY <1>1, <2>1, <2>2, <2>3 DEF IInv, TypeOK
<1>8. ReferentsExact'
  <2> SUFFICES ASSUME NEW b \in Blocks
               PROVE  /\ \A l \in Columns : l \in refs'[b] <=> frame[l] = b
                      /\ "series" \in refs'[b] <=> series' = b
                      /\ \A x \in refs'[b] \cap Owners :
                           x \in pool \/ \E a \in Arrays' : a.owner = x /\ a.block = b
    BY <1>1 DEF ReferentsExact
  <2>1. \A l \in Columns : l \in refs'[b] <=> frame[l] = b
    BY <1>1, <1>5, BufferAssumption DEF IInv, ReferentsExact
  <2>2. "series" \notin refs'[b] /\ series' # b
    BY <1>1, <1>5, BufferAssumption DEF Push
  <2>3. ASSUME NEW x \in refs'[b] \cap Owners
        PROVE  x \in pool \/ \E a \in Arrays' : a.owner = x /\ a.block = b
    <3>1. CASE x \in refs[b]
      BY <3>1, <1>2 DEF IInv, ReferentsExact
    <3>2. CASE x \notin refs[b]
      <4>1. b = block /\ x = o
        BY <3>2, <1>1
      <4>2. new \in Arrays' /\ new.owner = o /\ new.block = block
        BY <1>2
      <4> QED
        BY <4>1, <4>2
    <3> QED
      BY <3>1, <3>2
  <2> QED
    BY <2>1, <2>2, <2>3
<1>9. OwnersSeparate'
  <2>1. \A a \in Arrays' : a.owner \in refs'[a.block] /\ a.owner \notin pool'
    <3>1. o \notin pool
      BY DEF IInv, OwnersSeparate, NewOwner
    <3>2. \A a \in Arrays : a.owner \in refs'[a.block] /\ a.owner \notin pool
      BY <1>1, <1>6, BufferAssumption DEF IInv, OwnersSeparate
    <3> QED
      BY <1>1, <1>2, <3>1, <3>2
  <2>2. ASSUME NEW b \in Blocks, NEW c \in Blocks, NEW x \in Owners,
               x \in refs'[b] \cap refs'[c]
        PROVE  b = c
    <3>1. CASE x = o
      BY <2>2, <3>1, <1>1 DEF NewOwner
    <3>2. CASE x # o
      BY <2>2, <3>2, <1>1 DEF IInv, OwnersSeparate
    <3> QED
      BY <3>1, <3>2
  <2>3. \A a \in building' : \A h \in Handles : a.owner \notin OwnersIn(Held(h)')
    <3>1. \A h \in Handles : \A x \in Held(h) : x \in Arrays /\ x.owner # o
      BY <1>6 DEF Arrays
    <3>2. \A a \in building : \A h \in Handles : a.owner \notin OwnersIn(Held(h))
      BY DEF IInv, OwnersSeparate
    <3> QED
      BY <1>2, <3>1, <3>2 DEF OwnersIn, Held
  <2>4. \A x \in pool' : \E b \in Blocks : x \in refs'[b]
    BY <1>1, BufferAssumption DEF IInv, OwnersSeparate, TypeOK
  <2> QED
    BY <2>1, <2>2, <2>3, <2>4 DEF OwnersSeparate, OwnersIn, Held
<1>10. WritesStay'
  BY <1>2 DEF IInv, WritesStay, Push
<1>11. TablesComplete'
  <2>1. next' = next + 1 /\ next \in Nat \ {0}
    BY DEF Push, IInv, TypeOK
  <2>2. ASSUME NEW k \in 1 .. next' - 1
        PROVE  \E a \in building' : a.column = Labels[k]
    <3>1. CASE k = next
      <4>1. new \in building' /\ new.column = Label
        BY <1>2
      <4>2. Label = Labels[k]
        BY <3>1 DEF Label
      <4> QED
        BY <4>1, <4>2
    <3>2. CASE k # next
      <4>1. k \in 1 .. next - 1
        BY <2>1, <3>2
      <4> QED
        BY <4>1, <1>2 DEF IInv, TablesComplete
    <3> QED
      BY <3>1, <3>2
  <2>3. \A a \in Arrays' :
          /\ a.zeroCopy => dtype[a.column] \in {"numeric", "arrow"}
          /\ dtype[a.column] = "numeric" => a.zeroCopy
    BY <1>2 DEF IInv, TablesComplete
  <2> QED
    BY <2>2, <2>3 DEF TablesComplete
<1> QED
  BY <1>7, <1>8, <1>9, <1>10, <1>11 DEF IInv

(* Owners are given up together with their last arrays: of the arrays that *)
(* remain none has an owner in lost, and an owner not lost has its array.  *)
LEMMA ReleaseStep ==
  ASSUME IInv, NEW lost, Release(lost),
         \A r \in lost : r \in Owners \cup {"series"},
         UNCHANGED <<dtype, frame, content>>,
         building' \subseteq building,
         handle' \in [Handles -> [kind : HandleKinds, arrays : SUBSET Array]],
         \A h \in Handles : Held(h)' \subseteq Held(h),
         pool' \subseteq Owners,
         pc' \in {"idle", "fetch", "obtain"}, next' = next,
         pc' = "obtain" <=> series' # None, pc' = "idle" => building' = {},
         pc' = "obtain" => pc = "obtain",
         pc' # "idle" => pc # "idle" /\ building' = building,
         series' = IF "series" \in lost THEN None ELSE series,
         \A a \in Arrays' : a.owner \notin lost /\ a.owner \notin pool',
         \A a \in Arrays : a.owner \in lost \/ a.owner \in pool' \/
           \E x \in Arrays' : x.owner = a.owner,
         \A o \in pool : o \in lost \/ o \in pool',
         \A o \in pool' : o \notin lost /\ (o \in pool \/ \E a \in Arrays : a.owner = o)
  PROVE  IInv'
<1>1. /\ refs' \in [Blocks -> SUBSET (Columns \cup Owners \cup {"series"})]
      /\ memory' \in [Blocks -> {"unused", "live", "freed"}]
      /\ \A b \in Blocks :
           /\ memory'[b] = "live" <=> refs'[b] # {}
           /\ \A r : r \in refs'[b] <=> r \in refs[b] /\ r \notin lost
  BY Released
<1>2. \A a \in Arrays' : a \in Arrays
  BY DEF Arrays, Held
<1>3. \A a \in Arrays : a \in Array /\ a.block \in Blocks /\ a.owner \in Owners
                        /\ a.owner \in refs[a.block]
  BY ArrayAlive DEF Array
<1>4. TypeOK'
  BY <1>1 DEF IInv, TypeOK
<1>5. ReferentsExact'
  <2> SUFFICES ASSUME NEW b \in Blocks
               PROVE  /\ \A l \in Columns : l \in refs'[b] <=> frame[l] = b
                      /\ "series" \in refs'[b] <=> series' = b
                      /\ \A o \in refs'[b] \cap Owners :
                           o \in pool' \/ \E a \in Arrays' : a.owner = o /\ a.block = b
    BY <1>1 DEF ReferentsExact
  <2>1. \A l \in Columns : l \in refs'[b] <=> frame[l] = b
    BY <1>1, BufferAssumption DEF IInv, ReferentsExact
  <2>2. "series" \in refs'[b] <=> series' = b
    BY <1>1, BufferAssumption DEF IInv, ReferentsExact
  <2>3. ASSUME NEW o \in refs'[b] \cap Owners, o \notin pool'
        PROVE  \E a \in Arrays' : a.owner = o /\ a.block = b
    <3>1. o \in refs[b] /\ o \notin lost /\ o \notin pool
      BY <1>1, <2>3
    <3>2. PICK a \in Arrays : a.owner = o /\ a.block = b
      BY <3>1 DEF IInv, ReferentsExact
    <3>3. PICK x \in Arrays' : x.owner = o
      BY <3>1, <3>2, <2>3
    <3>4. x.block = b
      BY <3>1, <3>3, <1>2, <1>3 DEF IInv, OwnersSeparate
    <3> QED
      BY <3>3, <3>4
  <2> QED
    BY <2>1, <2>2, <2>3
<1>6. OwnersSeparate'
  <2>1. \A a \in Arrays' : a.owner \in refs'[a.block] /\ a.owner \notin pool'
    BY <1>1, <1>2, <1>3
  <2>2. \A b, c \in Blocks : \A o \in Owners : o \in refs'[b] \cap refs'[c] => b = c
    BY <1>1 DEF IInv, OwnersSeparate
  <2>3. \A a \in building' : \A h \in Handles : a.owner \notin OwnersIn(Held(h)')
    BY DEF IInv, OwnersSeparate, OwnersIn
  <2>4. \A o \in pool' : \E b \in Blocks : o \in refs'[b]
    <3> SUFFICES ASSUME NEW o \in pool'
                 PROVE  \E b \in Blocks : o \in refs[b] /\ o \notin lost
      BY <1>1
    <3>1. CASE o \in pool
      BY <3>1 DEF IInv, OwnersSeparate
    <3>2. CASE \E a \in Arrays : a.owner = o
      BY <3>2, <1>3
    <3> QED
      BY <3>1, <3>2
  <2> QED
    BY <2>1, <2>2, <2>3, <2>4 DEF OwnersSeparate, OwnersIn, Held
<1>7. WritesStay'
  <2>1. pc' = "obtain" => series' = series
    BY DEF IInv, TypeOK
  <2>2. Label' = Label
    BY DEF Label
  <2> QED
    BY <1>2, <2>1, <2>2 DEF IInv, WritesStay
<1>8. TablesComplete'
  BY <1>2 DEF IInv, TablesComplete
<1> QED
  BY <1>4, <1>5, <1>6, <1>7, <1>8 DEF IInv

-----------------------------------------------------------------------------
(* Arrays are handed on: the memory stays as it is.                        *)
LEMMA HandOnStep ==
  ASSUME IInv,
         UNCHANGED <<dtype, frame, memory, refs, content, series, pool>>,
         building' \in {building, {}},
         handle' \in [Handles -> [kind : HandleKinds, arrays : SUBSET Array]],
         Arrays' = Arrays,
         \A a \in building' : \A h \in Handles : Held(h)' = Held(h) \/ a.owner \notin OwnersIn(Held(h)'),
         pc' = "obtain" => pc = "obtain" /\ next' = next,
         pc' \in {"idle", "fetch", "obtain"}, next' \in Nat \ {0},
         pc' = "obtain" <=> series # None, pc' = "idle" => building' = {},
         pc' # "idle" => next' = 1 \/ (next' = next /\ pc # "idle" /\ building' = building)
  PROVE  IInv'
<1>1. TypeOK'
  BY DEF IInv, TypeOK
<1>2. ReferentsExact'
  BY DEF IInv, ReferentsExact
<1>3. OwnersSeparate'
  <2>1. \A a \in building' : \A h \in Handles : a.owner \notin OwnersIn(Held(h)')
    BY DEF IInv, OwnersSeparate
  <2> QED
    BY <2>1 DEF IInv, OwnersSeparate, OwnersIn, Held
<1>4. WritesStay'
  BY DEF IInv, WritesStay, Label
<1>5. TablesComplete'
  <2>1. ASSUME pc' # "idle", NEW k \in 1 .. next' - 1
        PROVE  \E a \in building' : a.column = Labels[k]
    <3>1. CASE next' = 1
      BY <2>1, <3>1
    <3>2. CASE next' = next /\ pc # "idle" /\ building' = building
      BY <2>1, <3>2 DEF IInv, TablesComplete
    <3> QED
      BY <2>1, <3>1, <3>2
  <2>2. \A a \in Arrays' :
          /\ a.zeroCopy => dtype'[a.column] \in {"numeric", "arrow"}
          /\ dtype'[a.column] = "numeric" => a.zeroCopy
    BY DEF IInv, TablesComplete
  <2> QED
    BY <2>1, <2>2 DEF TablesComplete
<1> QED
  BY <1>1, <1>2, <1>3, <1>4, <1>5 DEF IInv

(* A column of the frame changes its block, or goes: n is a fresh block or *)
(* None.                                                                   *)
LEMMA FrameStep ==
  ASSUME IInv, NEW l \in Columns, frame[l] # None,
         NEW n \in Blocks \cup {None}, n \in Blocks => Unused(n),
         frame' = [frame EXCEPT ![l] = n],
         Exchange({l}, n, IF n = None THEN {} ELSE {l}),
         UNCHANGED <<dtype, content, pc, next, series, building, handle, pool>>
  PROVE  IInv'
<1> DEFINE taken == IF n = None THEN {} ELSE {l}
<1>1. /\ refs' \in [Blocks -> SUBSET (Columns \cup Owners \cup {"series"})]
      /\ memory' \in [Blocks -> {"unused", "live", "freed"}]
      /\ \A b \in Blocks :
           /\ memory'[b] = "live" <=> refs'[b] # {}
           /\ \A r : r \in refs'[b] <=>
                (r \in refs[b] /\ r # l) \/ (b = n /\ r = l)
  <2>1. \A r \in taken : r \in Columns \cup Owners \cup {"series"}
    OBVIOUS
  <2>2. n \in Blocks => memory[n] # "freed"
    BY DEF Unused
  <2>3. /\ refs' \in [Blocks -> SUBSET (Columns \cup Owners \cup {"series"})]
        /\ memory' \in [Blocks -> {"unused", "live", "freed"}]
        /\ \A b \in Blocks :
             /\ memory'[b] = "live" <=> refs'[b] # {}
             /\ \A r : r \in refs'[b] <=>
                  (r \in refs[b] /\ r \notin {l}) \/ (b = n /\ r \in taken)
    BY <2>1, <2>2, Exchanged
  <2> QED
    BY <2>3, BufferAssumption
<1>2. Arrays' = Arrays
  BY DEF Arrays, Held
<1>3. frame' \in [Columns -> Blocks \cup {None}]
  BY DEF IInv, TypeOK
<1>4. n \in Blocks => refs[n] = {} /\ (\A m \in Columns : frame[m] # n) /\ series # n
                       /\ \A a \in Arrays : a.block # n
  BY FrameAlive, ArrayAlive, Alive, BufferAssumption DEF Unused
<1>5. l # "series" /\ l \notin Owners
  BY BufferAssumption
<1>6. TypeOK'
  BY <1>1, <1>3 DEF IInv, TypeOK
<1>7. ReferentsExact'
  <2> SUFFICES ASSUME NEW b \in Blocks
               PROVE  /\ \A m \in Columns : m \in refs'[b] <=> frame'[m] = b
                      /\ "series" \in refs'[b] <=> series = b
                      /\ \A o \in refs'[b] \cap Owners :
                           o \in pool \/ \E a \in Arrays : a.owner = o /\ a.block = b
    BY <1>1, <1>2 DEF ReferentsExact
  <2>1. \A m \in Columns : m \in refs'[b] <=> frame'[m] = b
    BY <1>1, <1>4, BufferAssumption DEF IInv, TypeOK, ReferentsExact
  <2> QED
    BY <2>1, <1>1, <1>5 DEF IInv, ReferentsExact
<1>8. OwnersSeparate'
  <2>1. \A b \in Blocks : \A o \in Owners : o \in refs'[b] <=> o \in refs[b]
    BY <1>1, <1>5
  <2>2. \A a \in Arrays : a.owner \in refs'[a.block] /\ a.owner \notin pool
    BY <2>1, ArrayAlive DEF Array, IInv, OwnersSeparate
  <2>3. \A o \in pool : o \in Owners
    BY DEF IInv, TypeOK
  <2> QED
    BY <1>2, <2>1, <2>2, <2>3 DEF IInv, OwnersSeparate, OwnersIn, Held
<1>9. WritesStay'
  <2>1. \A m \in Columns : frame'[m] = IF m = l THEN n ELSE frame[m]
    BY DEF IInv, TypeOK
  <2>2. pc = "obtain" => series # None
    BY DEF IInv, TypeOK
  <2>3. \A a \in Arrays : a.block # None
    BY ArrayAlive, BufferAssumption DEF Array
  <2>4. \A k, m \in Columns : frame'[k] = frame'[m] => k = m \/ frame'[k] = None
    BY <2>1, <1>4 DEF IInv, WritesStay
  <2>5. pc = "obtain" =>
          next \in DOMAIN Labels /\ \A m \in Columns : frame'[m] = series => m = Label
    BY <2>1, <2>2, <1>4 DEF IInv, WritesStay
  <2>6. \A a \in Arrays : \A m \in Columns :
          frame'[m] = a.block => m = a.column /\ dtype[m] # "boxed"
    BY <2>1, <2>3, <1>4 DEF IInv, WritesStay
  <2> QED
    BY <1>2, <2>4, <2>5, <2>6 DEF WritesStay, Label
<1>10. TablesComplete'
  BY <1>2 DEF IInv, TablesComplete
<1> QED
  BY <1>6, <1>7, <1>8, <1>9, <1>10 DEF IInv

(* The owners of handle h go with it: all at once, or later.               *)
LEMMA DropStep ==
  ASSUME IInv, NEW h \in Handles, NEW later, \A o \in later : o \in LastOf(h),
         handle' = [handle EXCEPT ![h] = Free], pool' = pool \cup later,
         Release(LastOf(h) \ later),
         UNCHANGED <<dtype, frame, content, pc, next, series, building>>
  PROVE  IInv'
<1>1. \A g \in Handles : Held(g)' = IF g = h THEN {} ELSE Held(g)
  BY DEF IInv, TypeOK, Held, Free
<1>2. \A o \in LastOf(h) : o \in Owners /\ o \notin pool
  BY ArrayAlive DEF LastOf, Arrays, Array, IInv, OwnersSeparate
<1>3. "series" \notin LastOf(h) /\ "series" \notin later
  BY <1>2, BufferAssumption
<1>4. \A a \in Arrays' : a \in Arrays /\ a.owner \notin LastOf(h)
  <2> SUFFICES ASSUME NEW a \in Arrays'
               PROVE  a \in Arrays /\ a.owner \notin LastOf(h)
    OBVIOUS
  <2>1. CASE a \in building
    <3>1. a.owner \notin OwnersIn(Held(h))
      BY <2>1 DEF IInv, OwnersSeparate
    <3> QED
      BY <2>1, <3>1 DEF Arrays, LastOf, OwnersIn
  <2>2. CASE \E g \in Handles \ {h} : a \in Held(g)
    <3>1. \E g \in Handles \ {h} : a.owner \in OwnersIn(Held(g))
      BY <2>2 DEF OwnersIn
    <3> QED
      BY <2>2, <3>1 DEF Arrays, LastOf
  <2> QED
    BY <1>1, <2>1, <2>2 DEF Arrays
<1>5. \A a \in Arrays : a.owner \in LastOf(h) \/ \E x \in Arrays' : x.owner = a.owner
  <2> SUFFICES ASSUME NEW a \in Arrays, a.owner \notin LastOf(h)
               PROVE  \E x \in Arrays' : x.owner = a.owner
    OBVIOUS
  <2>1. CASE a \in Held(h)
    <3>1. PICK g \in Handles \ {h} : a.owner \in OwnersIn(Held(g))
      BY <2>1 DEF LastOf
    <3> QED
      BY <3>1, <1>1 DEF OwnersIn, Arrays
  <2> QED
    BY <2>1, <1>1 DEF Arrays
<1>6. handle' \in [Handles -> [kind : HandleKinds, arrays : SUBSET Array]]
  <2>1. Free \in [kind : HandleKinds, arrays : SUBSET Array]
    BY DEF Free, HandleKinds
  <2> QED
    BY <2>1 DEF IInv, TypeOK
<1>7. \A g \in Handles : Held(g)' \subseteq Held(g)
  BY <1>1
<1>8. pool' \subseteq Owners
  BY <1>2 DEF IInv, TypeOK
<1>9. \A o \in LastOf(h) \ later : o \in Owners \cup {"series"}
  BY <1>2
<1>10. "series" \notin LastOf(h) \ later
  BY <1>3
<1>11. series' = IF "series" \in LastOf(h) \ later THEN None ELSE series
  BY <1>10
<1>12. \A a \in Arrays' : a.owner \notin LastOf(h) \ later /\ a.owner \notin pool'
  BY <1>4 DEF IInv, OwnersSeparate
<1>13. \A a \in Arrays : a.owner \in LastOf(h) \ later \/ a.owner \in pool' \/
         \E x \in Arrays' : x.owner = a.owner
  BY <1>5
<1>14. \A o \in pool' : o \notin LastOf(h) \ later /\ (o \in pool \/ \E a \in Arrays : a.owner = o)
  BY <1>2 DEF LastOf, Arrays
<1>15. pc \in {"idle", "fetch", "obtain"} /\ (pc = "obtain" <=> series # None)
       /\ (pc = "idle" => building = {})
  BY DEF IInv, TypeOK
<1> QED
  BY <1>6, <1>7, <1>8, <1>9, <1>11, <1>12, <1>13, <1>14, <1>15, ReleaseStep

-----------------------------------------------------------------------------
(* Every step preserves the inductive invariant.                           *)
LEMMA Inductive == IInv /\ [Next]_vars => IInv'
<1> SUFFICES ASSUME IInv, [Next]_vars
             PROVE  IInv'
  OBVIOUS
<1>1. /\ frame \in [Columns -> Blocks \cup {None}] /\ next \in Nat \ {0}
      /\ pc \in {"idle", "fetch", "obtain"} /\ (pc = "obtain" <=> series # None)
      /\ (pc = "idle" => building = {}) /\ pool \subseteq Owners
      /\ handle \in [Handles -> [kind : HandleKinds, arrays : SUBSET Array]]
      /\ content \in [Blocks -> 0 .. MaxWrites]
  BY DEF IInv, TypeOK
<1>2. CASE StartConversion
  <2>1. Arrays' = Arrays /\ \A h \in Handles : Held(h)' = Held(h)
    BY <1>2 DEF StartConversion, Arrays, Held
  <2> QED
    BY <1>1, <1>2, <2>1, HandOnStep DEF StartConversion
<1>3. CASE FetchSeries
  <2> USE <1>3 DEF FetchSeries
  <2> DEFINE block == frame[Label]
  <2>1. Label \in Columns
    BY DEF Label, Columns, Range
  <2>2. block \in Blocks /\ memory[block] = "live"
    BY <2>1, FrameAlive
  <2>3. \A r \in {"series"} : r \in Columns \cup Owners \cup {"series"}
    OBVIOUS
  <2>4. /\ refs' \in [Blocks -> SUBSET (Columns \cup Owners \cup {"series"})]
        /\ memory' \in [Blocks -> {"unused", "live", "freed"}]
        /\ \A b \in Blocks :
             /\ memory'[b] = "live" <=> refs'[b] # {}
             /\ \A r : r \in refs'[b] <=>
                  (r \in refs[b] /\ r \notin {}) \/ (b = block /\ r \in {"series"})
    BY <2>2, <2>3, Exchanged
  <2>5. Arrays' = Arrays /\ \A h \in Handles : Held(h)' = Held(h)
    BY DEF Arrays, Held
  <2>6. pc = "fetch" /\ series = None /\ series' = block /\ pc' = "obtain"
    BY <1>1
  <2>7. TypeOK'
    BY <2>2, <2>4, <2>6, BufferAssumption DEF IInv, TypeOK
  <2>8. ReferentsExact'
    <3> SUFFICES ASSUME NEW b \in Blocks
                 PROVE  /\ \A l \in Columns : l \in refs'[b] <=> frame[l] = b
                        /\ "series" \in refs'[b] <=> series' = b
                        /\ \A o \in refs'[b] \cap Owners :
                             o \in pool \/ \E a \in Arrays : a.owner = o /\ a.block = b
      BY <2>4, <2>5 DEF ReferentsExact
    <3>1. \A r : r # "series" => (r \in refs'[b] <=> r \in refs[b])
      BY <2>4
    <3>2. "series" \notin refs[b]
      BY <2>6, BufferAssumption DEF IInv, ReferentsExact
    <3>3. "series" \in refs'[b] <=> series' = b
      BY <2>4, <2>6, <3>2
    <3> QED
      BY <3>1, <3>3, BufferAssumption DEF IInv, ReferentsExact
  <2>9. OwnersSeparate'
    <3>1. \A b \in Blocks : \A o \in Owners : o \in refs'[b] <=> o \in refs[b]
      BY <2>4, BufferAssumption
    <3>2. \A a \in Arrays : a.owner \in refs'[a.block] /\ a.owner \notin pool
      BY <3>1, ArrayAlive DEF Array, IInv, OwnersSeparate
    <3> QED
      BY <1>1, <2>5, <3>1, <3>2 DEF IInv, OwnersSeparate, OwnersIn, Held
  <2>10. WritesStay'
    <3>1. \A l \in Columns : frame[l] = block => l = Label
      BY <2>1 DEF IInv, WritesStay
    <3>2. next \in DOMAIN Labels /\ Label' = Label
      BY DEF Label
    <3> QED
      BY <2>5, <2>6, <3>1, <3>2 DEF IInv, WritesStay
  <2>11. TablesComplete'
    BY <2>5, <2>6 DEF IInv, TablesComplete
  <2> QED
    BY <2>7, <2>8, <2>9, <2>10, <2>11 DEF IInv
<1>4. CASE BorrowBuffer
  <2>1. PICK o \in Owners :
          NewOwner(o) /\ Push(series, o, TRUE) /\ Exchange({"series"}, series, {o})
    BY <1>4 DEF BorrowBuffer
  <2>2. pc = "obtain" /\ UNCHANGED <<dtype, frame, content, handle, pool>>
    BY <1>4 DEF BorrowBuffer
  <2>3. series \in Blocks /\ memory[series] # "freed"
    BY <1>1, <2>2, FrameAlive
  <2>4. \A l \in Columns : frame[l] = series =>
          l = Label /\ dtype[l] # "boxed"
    BY <1>4, <2>2 DEF BorrowBuffer, IInv, WritesStay
  <2>5. TRUE => dtype[Label] \in {"numeric", "arrow"}
    BY <1>4 DEF BorrowBuffer
  <2> QED
    BY <2>1, <2>2, <2>3, <2>4, <2>5, PushStep
<1>5. CASE ImportShared
  <2> DEFINE z == dtype[Label] = "arrow"
  <2>1. PICK o \in Owners :
          NewOwner(o) /\ Push(frame[Label], o, z) /\ Exchange({"series"}, frame[Label], {o})
    BY <1>5 DEF ImportShared
  <2>2. pc = "obtain" /\ UNCHANGED <<dtype, frame, content, handle, pool>>
        /\ frame[Label] # None /\ dtype[Label] \in {"arrow", "temporal", "categorical"}
    BY <1>5 DEF ImportShared
  <2>3. Label \in Columns
    BY <2>2 DEF IInv, WritesStay, Label, Columns, Range
  <2>4. frame[Label] \in Blocks /\ memory[frame[Label]] # "freed"
    BY <2>2, <2>3, FrameAlive
  <2>5. \A l \in Columns : frame[l] = frame[Label] =>
          l = Label /\ dtype[l] # "boxed"
    BY <2>2, <2>3 DEF IInv, WritesStay
  <2>6. z \in BOOLEAN
    OBVIOUS
  <2> QED
    BY <2>1, <2>2, <2>4, <2>5, <2>6, PushStep
<1>6. CASE ImportCopied
  <2>1. PICK o \in Owners, n \in Blocks :
          NewOwner(o) /\ Unused(n) /\ Push(n, o, FALSE) /\ Exchange({"series"}, n, {o})
    BY <1>6 DEF ImportCopied
  <2>2. pc = "obtain" /\ UNCHANGED <<dtype, frame, content, handle, pool>>
    BY <1>6 DEF ImportCopied
  <2>3. memory[n] # "freed" /\ memory[n] # "live"
    BY <2>1 DEF Unused
  <2>4. \A l \in Columns : frame[l] # n
    BY <2>3, FrameAlive, BufferAssumption
  <2>5. \A l \in Columns : frame[l] = n =>
          l = Label /\ dtype[l] # "boxed"
    BY <2>4
  <2>6. dtype[Label] # "numeric"
    BY <1>6 DEF ImportCopied
  <2> QED
    BY <2>1, <2>2, <2>3, <2>5, <2>6, PushStep
<1>7. CASE Abandon
  <2> USE <1>7 DEF Abandon
  <2> DEFINE lost == {"series"} \cup OwnersIn(building)
  <2>1. \A h \in Handles : Held(h)' = Held(h)
    BY DEF Held
  <2>2. \A a \in Arrays : a.owner \in Owners /\ a.owner \notin pool
    BY ArrayAlive DEF Array, IInv, OwnersSeparate
  <2>3. \A r \in lost : r \in Owners \cup {"series"}
    BY <2>2 DEF OwnersIn, Arrays
  <2>4. \A h \in Handles : \A x \in Held(h) : x.owner \notin OwnersIn(building)
    BY DEF IInv, OwnersSeparate, OwnersIn
  <2>5. \A a \in Arrays' : a.owner \notin lost /\ a.owner \notin pool'
    BY <2>1, <2>2, <2>4, BufferAssumption DEF Arrays
  <2>6. \A a \in Arrays : a.owner \in lost \/ a.owner \in pool' \/
          \E x \in Arrays' : x.owner = a.owner
    BY <2>1 DEF Arrays, OwnersIn
  <2>7. \A o \in pool' : o \notin lost /\ (o \in pool \/ \E a \in Arrays : a.owner = o)
    BY <1>1, <2>2, BufferAssumption DEF Arrays, OwnersIn
  <2>8. series' = IF "series" \in lost THEN None ELSE series
    OBVIOUS
  <2>9. Release(lost) /\ UNCHANGED <<dtype, frame, content>> /\ building' \subseteq building
        /\ handle' = handle /\ pool' = pool /\ next' = next /\ pc' = "idle" /\ series' = None
        /\ building' = {}
    OBVIOUS
  <2> QED
    BY ONLY IInv, <1>1, <2>1, <2>3, <2>5, <2>6, <2>7, <2>8, <2>9, ReleaseStep
<1>8. CASE ReturnTable
  <2> USE <1>8 DEF ReturnTable
  <2>1. PICK t \in Handles :
          /\ handle[t] = Free
          /\ handle' = [handle EXCEPT ![t] = [kind |-> "table", arrays |-> building]]
    OBVIOUS
  <2>2. [kind |-> "table", arrays |-> building] \in [kind : HandleKinds, arrays : SUBSET Array]
    BY DEF IInv, TypeOK, HandleKinds
  <2>3. handle' \in [Handles -> [kind : HandleKinds, arrays : SUBSET Array]]
    BY <1>1, <2>1, <2>2
  <2>4. \A h \in Handles : Held(h)' = IF h = t THEN building ELSE Held(h)
    BY <1>1, <2>1 DEF Held
  <2>5. Held(t) = {}
    BY <2>1 DEF Held, Free
  <2>6. Arrays' = Arrays
    BY <2>4, <2>5 DEF Arrays
  <2> QED
    BY <1>1, <2>3, <2>6, HandOnStep
<1>9. ASSUME NEW h \in Handles, NEW kind \in HandleKinds, NEW arrays,
             arrays \subseteq Held(h), HandOn(kind, arrays)
      PROVE  IInv'
  <2>1. PICK g \in Handles :
          /\ handle[g] = Free
          /\ handle' = [handle EXCEPT ![g] = [kind |-> kind, arrays |-> arrays]]
    BY <1>9 DEF HandOn
  <2>2. UNCHANGED memoryVars
    BY <1>9 DEF HandOn
  <2>3. arrays \in SUBSET Array
    BY <1>1, <1>9 DEF Held
  <2>4. handle' \in [Handles -> [kind : HandleKinds, arrays : SUBSET Array]]
    BY <1>1, <2>1, <2>3
  <2>5. \A f \in Handles : Held(f)' = IF f = g THEN arrays ELSE Held(f)
    BY <1>1, <2>1 DEF Held
  <2>6. Held(g) = {}
    BY <2>1 DEF Held, Free
  <2>7. Arrays' = Arrays
    BY <1>9, <2>2, <2>5, <2>6 DEF Arrays, memoryVars
  <2>8. \A a \in building' : \A f \in Handles :
          Held(f)' = Held(f) \/ a.owner \notin OwnersIn(Held(f)')
    BY <1>9, <2>2, <2>5 DEF IInv, OwnersSeparate, OwnersIn, memoryVars
  <2> QED
    BY <1>1, <2>2, <2>4, <2>7, <2>8, HandOnStep DEF memoryVars
<1>10. ASSUME NEW h \in Handles, Export(h) \/ FromArrow(h) \/ ToPandas(h) \/ ColumnOf(h)
       PROVE  IInv'
  <2>1. CASE Export(h)
    BY <2>1, <1>9 DEF Export, HandleKinds
  <2>2. CASE FromArrow(h)
    BY <2>2, <1>9 DEF FromArrow, HandleKinds
  <2>3. CASE ToPandas(h)
    <3>1. PICK taken : taken \subseteq Held(h) /\ HandOn("pandas", taken)
      BY <2>3 DEF ToPandas
    <3> QED
      BY <3>1, <1>9 DEF HandleKinds
  <2>4. CASE ColumnOf(h)
    <3>1. PICK l \in Columns : HandOn("column", {a \in Held(h) : a.column = l})
      BY <2>4 DEF ColumnOf
    <3> QED
      BY <3>1, <1>9 DEF HandleKinds
  <2> QED
    BY <1>10, <2>1, <2>2, <2>3, <2>4
<1>11. ASSUME NEW h \in Handles, Consume(h)
       PROVE  IInv'
  <2>1. handle' = [handle EXCEPT ![h] = [kind |-> "foreign", arrays |-> Held(h)]]
        /\ UNCHANGED memoryVars
    BY <1>11 DEF Consume
  <2>2. Held(h) \in SUBSET Array
    BY <1>1 DEF Held
  <2>3. handle' \in [Handles -> [kind : HandleKinds, arrays : SUBSET Array]]
    BY <1>1, <2>1, <2>2 DEF HandleKinds
  <2>4. \A f \in Handles : Held(f)' = Held(f)
    BY <1>1, <2>1 DEF Held
  <2>5. Arrays' = Arrays
    BY <2>1, <2>4 DEF Arrays, memoryVars
  <2> QED
    BY <1>1, <2>1, <2>3, <2>4, <2>5, HandOnStep DEF memoryVars
<1>12. ASSUME NEW h \in Handles, Drop(h)
       PROVE  IInv'
  <2>1. LastOf(h) = LastOf(h) \ {} /\ pool = pool \cup {}
    OBVIOUS
  <2>2. Release(LastOf(h) \ {}) /\ pool' = pool \cup {}
    BY <1>12, <2>1 DEF Drop
  <2>3. handle' = [handle EXCEPT ![h] = Free]
        /\ UNCHANGED <<dtype, frame, content, pc, next, series, building>>
    BY <1>12 DEF Drop
  <2> QED
    BY <2>2, <2>3, DropStep
<1>13. ASSUME NEW h \in Handles, DropWithoutGil(h)
       PROVE  IInv'
  <2> DEFINE later == {o \in LastOf(h) : Borrowed(o, h)}
  <2>1. /\ handle' = [handle EXCEPT ![h] = Free]
        /\ pool' = pool \cup later /\ Release(LastOf(h) \ later)
        /\ UNCHANGED <<dtype, frame, content, pc, next, series, building>>
    BY <1>13 DEF DropWithoutGil
  <2>2. \A o \in later : o \in LastOf(h)
    OBVIOUS
  <2> HIDE DEF later
  <2> QED
    BY <2>1, <2>2, DropStep
<1>14. CASE ReleasePool
  <2> USE <1>14 DEF ReleasePool
  <2>1. Arrays' = Arrays /\ \A h \in Handles : Held(h)' = Held(h)
    BY DEF Arrays, Held
  <2>2. \A a \in Arrays : a.owner \notin pool
    BY DEF IInv, OwnersSeparate
  <2>3. \A o \in pool : o \in Owners \cup {"series"}
    BY <1>1
  <2>4. series' = IF "series" \in pool THEN None ELSE series
    BY <1>1, BufferAssumption
  <2>5. Release(pool) /\ UNCHANGED <<dtype, frame, content>> /\ building' = building
        /\ handle' = handle /\ pool' = {} /\ next' = next /\ pc' = pc /\ series' = series
    OBVIOUS
  <2> QED
    BY ONLY IInv, <1>1, <2>1, <2>2, <2>3, <2>4, <2>5, ReleaseStep
<1>15. ASSUME NEW l \in Columns, DropColumn(l)
       PROVE  IInv'
  <2>1. Exchange({l}, None, IF None = None THEN {} ELSE {l})
    BY <1>15 DEF DropColumn, Release
  <2> QED
    BY <1>15, <2>1, FrameStep, BufferAssumption DEF DropColumn
<1>16. ASSUME NEW l \in Columns, ReplaceColumn(l)
       PROVE  IInv'
  <2>1. PICK n \in Blocks :
          Unused(n) /\ frame' = [frame EXCEPT ![l] = n] /\ Exchange({l}, n, {l})
    BY <1>16 DEF ReplaceColumn
  <2>2. Exchange({l}, n, IF n = None THEN {} ELSE {l})
    BY <2>1, BufferAssumption
  <2> QED
    BY <1>16, <2>1, <2>2, FrameStep DEF ReplaceColumn
<1>17. ASSUME NEW l \in Columns, WriteInPlace(l)
       PROVE  IInv'
  <2> USE <1>17 DEF WriteInPlace
  <2>1. Arrays' = Arrays /\ \A h \in Handles : Held(h)' = Held(h)
    BY DEF Arrays, Held
  <2>2. frame[l] \in Blocks
    BY <1>1
  <2>3. TypeOK'
    <3>1. content' \in [Blocks -> 0 .. MaxWrites]
      BY <1>1, <2>2, BufferAssumption
    <3> QED
      BY <3>1 DEF IInv, TypeOK
  <2>4. ReferentsExact'
    BY <2>1 DEF IInv, ReferentsExact
  <2>5. OwnersSeparate'
    BY <2>1 DEF IInv, OwnersSeparate, OwnersIn, Held
  <2>6. WritesStay'
    BY <2>1 DEF IInv, WritesStay, Label
  <2>7. TablesComplete'
    BY <2>1 DEF IInv, TablesComplete
  <2> QED
    BY <2>3, <2>4, <2>5, <2>6, <2>7 DEF IInv
<1>18. CASE UNCHANGED vars
  BY <1>1, <1>18, HandOnStep DEF vars, Arrays, Held
<1> QED
  BY <1>2, <1>3, <1>4, <1>5, <1>6, <1>7, <1>8, <1>10, <1>11, <1>12, <1>13, <1>14,
     <1>15, <1>16, <1>17, <1>18 DEF Next

-----------------------------------------------------------------------------
(* The inductive invariant holds in every reachable state.                 *)
THEOREM Invariance == Spec => []IInv
BY Initially, Inductive, PTL DEF Spec

(* Type correctness: after a conversion, finished or abandoned at any      *)
(* column, no Series and no half-built array is left over.                 *)
THEOREM TypeCorrect == Spec => []TypeOK
<1>1. IInv => TypeOK
  BY DEF IInv
<1> QED
  BY <1>1, Invariance, PTL

(* T-01-03 and T-01-04: whatever is replaced, dropped, exported, imported  *)
(* or released without the GIL, and in whatever order, no array points to  *)
(* freed memory.                                                           *)
THEOREM BuffersOutliveArrays == Spec => []NoDangling
<1>1. IInv => NoDangling
  BY ArrayAlive DEF NoDangling
<1> QED
  BY <1>1, Invariance, PTL

(* And no buffer outlives its last user but for a release put aside until  *)
(* a thread holds the GIL.                                                 *)
THEOREM BuffersAreReleased == Spec => []NothingLeaks
<1>1. IInv => NothingLeaks
  <2> SUFFICES ASSUME IInv, NEW b \in Blocks, memory[b] = "live", pool = {}
               PROVE  b = series \/ (\E l \in Columns : frame[l] = b)
                      \/ (\E a \in Arrays : a.block = b)
    BY DEF NothingLeaks
  <2>1. PICK r \in refs[b] : TRUE
    BY Alive
  <2>2. r \in Columns \cup Owners \cup {"series"}
    BY DEF IInv, TypeOK
  <2>3. CASE r \in Columns
    BY <2>3 DEF IInv, ReferentsExact
  <2>4. CASE r = "series"
    BY <2>4 DEF IInv, ReferentsExact
  <2>5. CASE r \in Owners
    BY <2>5 DEF IInv, ReferentsExact
  <2> QED
    BY <2>2, <2>3, <2>4, <2>5
<1> QED
  BY <1>1, Invariance, PTL

-----------------------------------------------------------------------------
(***************************************************************************)
(* SharedBuffers implements TableViews: whoever holds an array reads what  *)
(* the block holds, and nothing but a write changes that.                  *)
(***************************************************************************)

(* What an array shows: never freed memory, and under the rules of a       *)
(* column fresh from its conversion.                                       *)
LEMMA ArrayShows ==
  ASSUME IInv, NEW a \in Arrays
  PROVE  /\ a.block \in Blocks
         /\ ViewOf(a) = [column |-> a.column, zeroCopy |-> a.zeroCopy,
                         reads |-> content[a.block], linked |-> frame[a.column] = a.block]
         /\ Views!Convertible(ViewOf(a))
<1>1. a \in Array /\ a.block \in Blocks /\ memory[a.block] = "live"
  BY ArrayAlive DEF Array
<1>2. content[a.block] \in Nat /\ a.column \in Columns /\ a.zeroCopy \in BOOLEAN
  BY <1>1 DEF Array, IInv, TypeOK
<1> DEFINE v == [column |-> a.column, zeroCopy |-> a.zeroCopy,
                 reads |-> content[a.block], linked |-> frame[a.column] = a.block]
<1>3. ViewOf(a) = v
  BY <1>1 DEF ViewOf, Reading
<1>4. v \in Views!View
  <2>1. (frame[a.column] = a.block) \in BOOLEAN
    OBVIOUS
  <2> QED
    BY <1>2, <2>1 DEF Views!View
<1>5. /\ v.zeroCopy => dtype[v.column] \in {"numeric", "arrow"}
      /\ dtype[v.column] = "numeric" => v.zeroCopy
  BY DEF IInv, TablesComplete
<1>6. ASSUME v.linked
      PROVE  v.reads = Writes[v.column] /\ dtype[v.column] # "boxed"
  <2>1. frame[a.column] = a.block /\ frame[a.column] # None
    BY <1>1, <1>6, BufferAssumption
  <2>2. dtype[a.column] # "boxed"
    BY <1>2, <2>1 DEF IInv, WritesStay
  <2>3. Writes[a.column] = content[a.block]
    BY <1>2, <2>1 DEF Writes
  <2> QED
    BY <2>2, <2>3
<1> HIDE DEF v
<1>7. Views!Convertible(v)
  BY <1>4, <1>5, <1>6 DEF Views!Convertible
<1> QED
  BY <1>1, <1>3, <1>7 DEF v

(* As long as the frame and what is written stay, so does what is shown.   *)
LEMMA ArrayShowsStill ==
  ASSUME IInv, IInv', UNCHANGED <<frame, content>>, NEW a \in Arrays, a \in Arrays'
  PROVE  ViewOf(a)' = ViewOf(a)
<1>1. memory[a.block] = "live"
  BY ArrayAlive
<1>2. memory'[a.block] = "live"
  BY DEF IInv, OwnersSeparate, ReferentsExact, TypeOK, Arrays, Held, Array
<1> QED
  BY <1>1, <1>2 DEF ViewOf, Reading

(* One object comes to hold other arrays, of those that there are or were: *)
(* only what it shows changes.                                             *)
LEMMA HolderShows ==
  ASSUME IInv, IInv', UNCHANGED <<frame, content>>,
         NEW g \in Handles, NEW arrays, \A a \in arrays : a \in Arrays,
         \A h \in Handles : Held(h)' = IF h = g THEN arrays ELSE Held(h)
  PROVE  /\ Writes' = Writes
         /\ Shown' = [Shown EXCEPT ![g] = {ViewOf(a) : a \in arrays}]
<1>1. Writes' = Writes
  BY DEF Writes
<1>2. \A h \in Handles : \A a \in Held(h)' : ViewOf(a)' = ViewOf(a)
  <2> SUFFICES ASSUME NEW h \in Handles, NEW a \in Held(h)'
               PROVE  ViewOf(a)' = ViewOf(a)
    OBVIOUS
  <2>1. a \in Arrays /\ a \in Arrays'
    BY DEF Arrays
  <2> QED
    BY <2>1, ArrayShowsStill
<1>3. Shown' = [h \in Handles |-> {ViewOf(a) : a \in IF h = g THEN arrays ELSE Held(h)}]
  <2>1. Shown' = [h \in Handles |-> {ViewOf(a)' : a \in Held(h)'}]
    BY DEF Shown
  <2>2. \A h \in Handles : {ViewOf(a)' : a \in Held(h)'} =
          {ViewOf(a) : a \in IF h = g THEN arrays ELSE Held(h)}
    BY <1>2
  <2> QED
    BY <2>1, <2>2
<1>4. Shown = [h \in Handles |-> {ViewOf(a) : a \in Held(h)}]
  BY DEF Shown
<1>5. [Shown EXCEPT ![g] = {ViewOf(a) : a \in arrays}] =
        [h \in Handles |-> {ViewOf(a) : a \in IF h = g THEN arrays ELSE Held(h)}]
  BY <1>4
<1> QED
  BY <1>1, <1>3, <1>5

(* Nothing that is shown changes when no object holds other arrays.        *)
LEMMA NothingShows ==
  ASSUME IInv, IInv', UNCHANGED <<dtype, frame, content>>,
         \A h \in Handles : Held(h)' = Held(h)
  PROVE  UNCHANGED <<dtype, Writes, Shown>>
<1>1. Writes' = Writes
  BY DEF Writes
<1>2. \A h \in Handles : \A a \in Held(h) : ViewOf(a)' = ViewOf(a)
  <2> SUFFICES ASSUME NEW h \in Handles, NEW a \in Held(h)
               PROVE  ViewOf(a)' = ViewOf(a)
    OBVIOUS
  <2>1. a \in Arrays /\ a \in Arrays'
    BY DEF Arrays
  <2> QED
    BY <2>1, ArrayShowsStill
<1>3. \A h \in Handles : {ViewOf(a)' : a \in Held(h)'} = {ViewOf(a) : a \in Held(h)}
  BY <1>2
<1>4. Shown' = Shown
  BY <1>3 DEF Shown
<1> QED
  BY <1>1, <1>4

(* An object without arrays gets some: of a table being built, or of       *)
(* another object.                                                         *)
LEMMA GainerShows ==
  ASSUME IInv, IInv', UNCHANGED <<frame, content>>,
         NEW g \in Handles, handle[g] = Free,
         NEW arrays, \A a \in arrays : a \in Arrays, NEW kind,
         handle' = [handle EXCEPT ![g] = [kind |-> kind, arrays |-> arrays]]
  PROVE  /\ Writes' = Writes
         /\ Shown'[g] = {ViewOf(a) : a \in arrays}
         /\ Views!Shows(g, Shown'[g])
<1>1. \A h \in Handles : Held(h)' = IF h = g THEN arrays ELSE Held(h)
  BY DEF IInv, TypeOK, Held
<1>2. Writes' = Writes /\ Shown' = [Shown EXCEPT ![g] = {ViewOf(a) : a \in arrays}]
  BY <1>1, HolderShows
<1>3. Shown[g] = {}
  <2>1. Held(g) = {}
    BY DEF Held, Free
  <2> QED
    BY <2>1 DEF Shown
<1>4. Shown'[g] = {ViewOf(a) : a \in arrays}
  BY <1>2 DEF Shown
<1> QED
  BY <1>2, <1>3, <1>4 DEF Views!Shows

(* Handing on is handing on, dropping is letting go.                       *)
LEMMA HandOnShows ==
  ASSUME IInv, IInv', NEW h \in Handles, NEW kind, NEW arrays, arrays \subseteq Held(h),
         HandOn(kind, arrays)
  PROVE  Views!ViewsNext
<1>1. PICK g \in Handles :
        /\ handle[g] = Free
        /\ handle' = [handle EXCEPT ![g] = [kind |-> kind, arrays |-> arrays]]
  BY DEF HandOn
<1>2. UNCHANGED <<dtype, frame, content>>
  BY DEF HandOn, memoryVars
<1>3. \A a \in arrays : a \in Arrays
  BY DEF Arrays
<1>4. Writes' = Writes /\ Shown'[g] = {ViewOf(a) : a \in arrays}
      /\ Views!Shows(g, Shown'[g])
  BY <1>1, <1>2, <1>3, GainerShows
<1>5. Shown'[g] \subseteq Shown[h]
  BY <1>4 DEF Shown
<1>6. Views!HandOn(h, g)
  BY <1>2, <1>4, <1>5 DEF Views!HandOn
<1> QED
  BY <1>6 DEF Views!ViewsNext

LEMMA DropShows ==
  ASSUME IInv, IInv', UNCHANGED <<dtype, frame, content>>, NEW h \in Handles,
         handle' = [handle EXCEPT ![h] = Free]
  PROVE  Views!ViewsNext
<1>1. \A g \in Handles : Held(g)' = IF g = h THEN {} ELSE Held(g)
  BY DEF IInv, TypeOK, Held, Free
<1>2. \A a \in {} : a \in Arrays
  OBVIOUS
<1>3. Writes' = Writes /\ Shown' = [Shown EXCEPT ![h] = {ViewOf(a) : a \in {}}]
  BY <1>1, <1>2, HolderShows
<1>4. Views!LetGo(h)
  BY <1>3 DEF Views!LetGo
<1> QED
  BY <1>4 DEF Views!ViewsNext

(* A new Table shows every column, as its conversion left it.              *)
LEMMA NewTableShows ==
  ASSUME IInv, IInv', ReturnTable
  PROVE  Views!ViewsNext
<1>1. PICK g \in Handles :
        /\ handle[g] = Free
        /\ handle' = [handle EXCEPT ![g] = [kind |-> "table", arrays |-> building]]
  BY DEF ReturnTable
<1>2. UNCHANGED <<dtype, frame, content>> /\ pc = "fetch" /\ next \notin DOMAIN Labels
  BY DEF ReturnTable
<1>3. \A a \in building : a \in Arrays /\ a.column \in Columns
  BY ArrayAlive DEF Arrays, Array
<1>4. Writes' = Writes /\ Shown'[g] = {ViewOf(a) : a \in building}
      /\ Views!Shows(g, Shown'[g])
  BY <1>1, <1>2, <1>3, GainerShows
<1>5. \A v \in Shown'[g] : Views!Convertible(v)
  BY <1>3, <1>4, ArrayShows
<1>6. {v.column : v \in Shown'[g]} = Columns
  <2>1. \A a \in building : ViewOf(a).column = a.column
    BY DEF ViewOf
  <2>2. {v.column : v \in Shown'[g]} = {a.column : a \in building}
    BY <1>4, <2>1
  <2>3. ASSUME NEW l \in Columns
        PROVE  \E a \in building : a.column = l
    <3>1. PICK k \in DOMAIN Labels : Labels[k] = l
      BY DEF Columns, Range
    <3>2. k \in 1 .. next - 1
      BY <1>2, BufferAssumption DEF IInv, TypeOK
    <3> QED
      BY <1>2, <3>1, <3>2 DEF IInv, TablesComplete
  <2> QED
    BY <1>3, <2>2, <2>3
<1>7. Views!NewTable(g)
  BY <1>2, <1>4, <1>5, <1>6 DEF Views!NewTable
<1> QED
  BY <1>7 DEF Views!ViewsNext

(* What an array that is still there shows after a step.                   *)
LEMMA ArrayShowsNext ==
  ASSUME IInv', NEW a \in Arrays'
  PROVE  ViewOf(a)' = [column |-> a.column, zeroCopy |-> a.zeroCopy,
                       reads |-> content'[a.block], linked |-> frame'[a.column] = a.block]
<1>1. memory'[a.block] = "live"
  BY DEF IInv, OwnersSeparate, ReferentsExact, TypeOK, Arrays, Held, Array
<1> QED
  BY <1>1 DEF ViewOf, Reading

(* A column replaced or dropped is no longer that of its arrays.           *)
LEMMA DetachShows ==
  ASSUME IInv, IInv', UNCHANGED <<dtype, content, building, handle>>,
         NEW l \in Columns, NEW n \in Blocks \cup {None}, n \in Blocks => Unused(n),
         frame' = [frame EXCEPT ![l] = n]
  PROVE  Views!ViewsNext
<1>1. \A m \in Columns : frame'[m] = IF m = l THEN n ELSE frame[m]
  BY DEF IInv, TypeOK
<1>2. \A m \in Columns \ {l} : Writes'[m] = Writes[m]
  BY <1>1 DEF Writes
<1> DEFINE After(v) == IF Views!Linked(v, l) THEN Views!Now(v, v.reads, FALSE) ELSE v
<1>3. ASSUME NEW a \in Arrays
      PROVE  ViewOf(a)' = After(ViewOf(a))
  <2>1. a \in Arrays' /\ a.block # n /\ a.column \in Columns
    BY ArrayAlive, BufferAssumption DEF Arrays, Held, Array, Unused
  <2>2. ViewOf(a)' = [column |-> a.column, zeroCopy |-> a.zeroCopy,
                      reads |-> content[a.block], linked |-> frame'[a.column] = a.block]
    BY <2>1, ArrayShowsNext
  <2>3. ViewOf(a) = [column |-> a.column, zeroCopy |-> a.zeroCopy,
                     reads |-> content[a.block], linked |-> frame[a.column] = a.block]
    BY ArrayShows
  <2> DEFINE v == [column |-> a.column, zeroCopy |-> a.zeroCopy,
                   reads |-> content[a.block], linked |-> frame[a.column] = a.block]
             gone == [column |-> a.column, zeroCopy |-> a.zeroCopy,
                      reads |-> content[a.block], linked |-> FALSE]
  <2>4. CASE a.column = l
    <3>1. frame'[a.column] # a.block
      BY <1>1, <2>1, <2>4
    <3>2. ViewOf(a)' = gone
      BY <2>2, <3>1
    <3>3. Views!Now(v, v.reads, FALSE) = gone
      BY DEF Views!Now
    <3>4. CASE frame[a.column] = a.block
      <4>1. Views!Linked(v, l)
        BY <2>4, <3>4 DEF Views!Linked
      <4> QED
        BY <2>3, <3>2, <3>3, <4>1
    <3>5. CASE frame[a.column] # a.block
      <4>1. v = gone
        BY <3>5
      <4> QED
        BY <2>3, <3>2, <3>3, <4>1
    <3> QED
      BY <3>4, <3>5
  <2>5. CASE a.column # l
    <3>1. ViewOf(a)' = ViewOf(a)
      BY <1>1, <2>1, <2>2, <2>3, <2>5
    <3>2. ~Views!Linked(ViewOf(a), l)
      BY <2>3, <2>5 DEF Views!Linked
    <3> QED
      BY <3>1, <3>2
  <2> QED
    BY <2>4, <2>5
<1> HIDE DEF After
<1>4. Shown' = [h \in Handles |-> {After(v) : v \in Shown[h]}]
  <2>1. \A h \in Handles : \A a \in Held(h) : ViewOf(a)' = After(ViewOf(a))
    BY <1>3 DEF Arrays
  <2>2. \A h \in Handles : {ViewOf(a)' : a \in Held(h)} = {After(ViewOf(a)) : a \in Held(h)}
    BY <2>1
  <2>3. \A h \in Handles : {After(v) : v \in Shown[h]} = {After(ViewOf(a)) : a \in Held(h)}
    BY DEF Shown
  <2>4. Shown' = [h \in Handles |-> {ViewOf(a)' : a \in Held(h)'}]
    BY DEF Shown
  <2>5. \A h \in Handles : {ViewOf(a)' : a \in Held(h)'} = {ViewOf(a)' : a \in Held(h)}
    BY DEF Held
  <2> QED
    BY <2>2, <2>3, <2>4, <2>5
<1>5. Views!Detach(l)
  BY <1>2, <1>4 DEF Views!Detach, After
<1> QED
  BY <1>5 DEF Views!ViewsNext

(* A write shows in the arrays that lie in the column's block, and those   *)
(* are the linked ones.                                                    *)
LEMMA WriteShows ==
  ASSUME IInv, IInv', NEW l \in Columns, WriteInPlace(l)
  PROVE  Views!ViewsNext
<1>1. /\ frame[l] \in Blocks /\ frame[l] # None
      /\ content \in [Blocks -> Nat]
      /\ content' = [content EXCEPT ![frame[l]] = @ + 1]
      /\ UNCHANGED <<dtype, frame, building, handle>>
  BY BufferAssumption DEF WriteInPlace, IInv, TypeOK
<1>2. Writes[l] # None /\ Writes' = [Writes EXCEPT ![l] = @ + 1]
  <2>1. \A m \in Columns : frame[m] # None => frame[m] \in Blocks
    BY DEF IInv, TypeOK
  <2>2. \A m \in Columns : frame[m] = frame[l] => m = l
    BY <1>1 DEF IInv, WritesStay
  <2>3. Writes[l] = content[frame[l]]
    BY <1>1 DEF Writes
  <2>4. Writes[l] # None
    BY <1>1, <2>3, BufferAssumption
  <2>5. \A m \in Columns : Writes'[m] = IF m = l THEN Writes[l] + 1 ELSE Writes[m]
    BY <1>1, <2>1, <2>2, <2>3 DEF Writes
  <2>6. Writes' = [Writes EXCEPT ![l] = @ + 1]
    BY <2>5 DEF Writes
  <2> QED
    BY <2>4, <2>6
<1> DEFINE After(v) == IF Views!Linked(v, l) THEN Views!Now(v, v.reads + 1, TRUE) ELSE v
<1>3. ASSUME NEW a \in Arrays
      PROVE  ViewOf(a)' = After(ViewOf(a))
  <2>1. a \in Arrays' /\ a.block \in Blocks /\ a.column \in Columns
    BY <1>1, ArrayAlive DEF Arrays, Held, Array
  <2>2. ViewOf(a)' = [column |-> a.column, zeroCopy |-> a.zeroCopy,
                      reads |-> content'[a.block], linked |-> frame[a.column] = a.block]
    BY <1>1, <2>1, ArrayShowsNext
  <2>3. ViewOf(a) = [column |-> a.column, zeroCopy |-> a.zeroCopy,
                     reads |-> content[a.block], linked |-> frame[a.column] = a.block]
    BY ArrayShows
  <2>4. Views!Linked(ViewOf(a), l) <=> a.block = frame[l]
    <3> DEFINE v == [column |-> a.column, zeroCopy |-> a.zeroCopy,
                     reads |-> content[a.block], linked |-> frame[a.column] = a.block]
    <3>1. v.column = a.column /\ (v.linked <=> frame[a.column] = a.block)
      OBVIOUS
    <3>2. ViewOf(a) = v
      BY <2>3
    <3>3. frame[l] = a.block => a.column = l
      BY DEF IInv, WritesStay
    <3> HIDE DEF v
    <3>4. Views!Linked(v, l) <=> a.block = frame[l]
      BY <3>1, <3>3 DEF Views!Linked
    <3> QED
      BY <3>2, <3>4
  <2>5. CASE a.block = frame[l]
    <3>1. a.column = l
      BY <2>1, <2>5 DEF IInv, WritesStay
    <3>2. ViewOf(a)' = [column |-> a.column, zeroCopy |-> a.zeroCopy,
                        reads |-> content[a.block] + 1, linked |-> TRUE]
      BY <1>1, <2>1, <2>2, <2>5, <3>1
    <3>3. Views!Now(ViewOf(a), ViewOf(a).reads + 1, TRUE) =
            [column |-> a.column, zeroCopy |-> a.zeroCopy,
             reads |-> content[a.block] + 1, linked |-> TRUE]
      BY <2>3 DEF Views!Now
    <3> QED
      BY <2>4, <2>5, <3>2, <3>3
  <2>6. CASE a.block # frame[l]
    <3>1. content'[a.block] = content[a.block]
      BY <1>1, <2>1, <2>6
    <3> QED
      BY <2>2, <2>3, <2>4, <2>6, <3>1
  <2> QED
    BY <2>5, <2>6
<1> HIDE DEF After
<1>4. Shown' = [h \in Handles |-> {After(v) : v \in Shown[h]}]
  <2>1. \A h \in Handles : \A a \in Held(h) : ViewOf(a)' = After(ViewOf(a))
    BY <1>3 DEF Arrays
  <2>2. \A h \in Handles : {ViewOf(a)' : a \in Held(h)} = {After(ViewOf(a)) : a \in Held(h)}
    BY <2>1
  <2>3. \A h \in Handles : {After(v) : v \in Shown[h]} = {After(ViewOf(a)) : a \in Held(h)}
    BY DEF Shown
  <2>4. Shown' = [h \in Handles |-> {ViewOf(a)' : a \in Held(h)'}]
    BY DEF Shown
  <2>5. \A h \in Handles : {ViewOf(a)' : a \in Held(h)'} = {ViewOf(a)' : a \in Held(h)}
    BY <1>1 DEF Held
  <2> QED
    BY <2>2, <2>3, <2>4, <2>5
<1>5. Views!Write(l)
  BY <1>1, <1>2, <1>4 DEF Views!Write, After
<1> QED
  BY <1>5 DEF Views!ViewsNext

-----------------------------------------------------------------------------
(* Every step is one of TableViews or shows nobody anything new.           *)
LEMMA StepShows ==
  IInv /\ [Next]_vars => [Views!ViewsNext]_<<dtype, Writes, Shown>>
<1> SUFFICES ASSUME IInv, [Next]_vars
             PROVE  Views!ViewsNext \/ UNCHANGED <<dtype, Writes, Shown>>
  OBVIOUS
<1>1. IInv'
  BY Inductive
<1>2. CASE UNCHANGED <<dtype, frame, content, handle>>
  BY <1>1, <1>2, NothingShows DEF Held
<1>3. CASE StartConversion \/ FetchSeries \/ BorrowBuffer \/ ImportShared \/ ImportCopied
             \/ Abandon \/ ReleasePool \/ UNCHANGED vars
  BY <1>2, <1>3 DEF StartConversion, FetchSeries, BorrowBuffer, ImportShared, ImportCopied,
                    Abandon, ReleasePool, vars
<1>4. CASE ReturnTable
  BY <1>1, <1>4, NewTableShows
<1>5. ASSUME NEW h \in Handles, Export(h) \/ FromArrow(h) \/ ToPandas(h) \/ ColumnOf(h)
      PROVE  Views!ViewsNext
  <2>1. PICK kind, arrays : arrays \subseteq Held(h) /\ HandOn(kind, arrays)
    <3>1. CASE ToPandas(h)
      BY <3>1 DEF ToPandas
    <3>2. CASE ~ToPandas(h)
      BY <1>5, <3>2 DEF Export, FromArrow, ColumnOf
    <3> QED
      BY <3>1, <3>2
  <2> QED
    BY <1>1, <2>1, HandOnShows
<1>6. ASSUME NEW h \in Handles, Consume(h)
      PROVE  UNCHANGED <<dtype, Writes, Shown>>
  <2>1. \A g \in Handles : Held(g)' = Held(g)
    BY <1>6 DEF Consume, Held, IInv, TypeOK
  <2> QED
    BY <1>1, <1>6, <2>1, NothingShows DEF Consume, memoryVars
<1>7. ASSUME NEW h \in Handles, Drop(h) \/ DropWithoutGil(h)
      PROVE  Views!ViewsNext
  BY <1>1, <1>7, DropShows DEF Drop, DropWithoutGil
<1>8. ASSUME NEW l \in Columns, DropColumn(l)
      PROVE  Views!ViewsNext
  BY <1>1, <1>8, DetachShows, BufferAssumption DEF DropColumn
<1>9. ASSUME NEW l \in Columns, ReplaceColumn(l)
      PROVE  Views!ViewsNext
  BY <1>1, <1>9, DetachShows DEF ReplaceColumn
<1>10. ASSUME NEW l \in Columns, WriteInPlace(l)
       PROVE  Views!ViewsNext
  BY <1>1, <1>10, WriteShows
<1> QED
  BY <1>3, <1>4, <1>5, <1>6, <1>7, <1>8, <1>9, <1>10 DEF Next

(* T-01-03 and T-01-04 for whoever reads: in every interleaving of         *)
(* conversions, exports, imports, drops and what is done to the DataFrame, *)
(* a Table and what is made of it are values, but for writes to a column   *)
(* they are linked to.                                                     *)
THEOREM ImplementsTableViews == Spec => TablesAreViews
<1>1. Init => Views!ViewsInit
  <2> SUFFICES ASSUME Init
               PROVE  Views!ViewsInit
    OBVIOUS
  <2>1. \A l \in Columns : frame[l] # None /\ content[frame[l]] = 0
    BY BufferAssumption DEF Init
  <2>2. Writes = [l \in Columns |-> 0]
    BY <2>1 DEF Writes
  <2>3. \A h \in Handles : Held(h) = {}
    BY DEF Init, Held, Free
  <2>4. Shown = [h \in Handles |-> {}]
    BY <2>3 DEF Shown
  <2> QED
    BY <2>2, <2>4 DEF Init, Views!ViewsInit
<1>2. IInv /\ [Next]_vars => [Views!ViewsNext]_(Views!viewVars)
  BY StepShows DEF Views!viewVars
<1> QED
  BY <1>1, <1>2, Invariance, PTL DEF Spec, TablesAreViews, Views!ViewsSpec
=============================================================================
