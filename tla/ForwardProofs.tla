------------------------------ MODULE ForwardProofs ------------------------------
(***************************************************************************)
(* The forward pass, for every value of the constants.  The kernels whose  *)
(* indices are modelled: slices of a packed matrix, however many and       *)
(* however deep, read the bytes of their own elements; a window of the     *)
(* convolution holds the channel's own last inputs wherever the outputs    *)
(* go; the selections by scores pick what the scores' order says, NaN      *)
(* among them or not.  And the whole pass on two ranks: the ranks meet in  *)
(* the same gathers whatever the decoder decides and wherever the indexer  *)
(* bound stops them, every instruction finds its own operands whole in the *)
(* shared scratch, and no access leaves its buffer.                        *)
(***************************************************************************)
EXTENDS PackedView, ConvHistory, Selection, RankedForward, SequenceLemmas,
        FiniteSetTheorems, TLAPS

(* Where an element is in a storage with n elements to a byte. *)
Offset(row, col, stride, n) == row * stride + col \div n

(* One of the two storages of a view. *)
Placed(span, stride, wholeSpan, wholeStride, n) ==
  /\ stride = wholeStride
  /\ span.at = wholeSpan.at + Offset(origin[1], origin[2], stride, n)
  /\ span.size = (view.rows - 1) * stride + view.cols \div n

(* A whole matrix: spans of the exact size, inside the address space. *)
Fitting(span, stride, n) ==
  /\ span.at \in Nat
  /\ stride = whole.cols \div n
  /\ span.size = whole.rows * stride
  /\ span.at + span.size <= Word

Dimensions ==
  /\ view.rows \in Nat \ {0} /\ view.cols \in Nat \ {0}
  /\ whole.rows \in Nat \ {0} /\ whole.cols \in Nat \ {0}
  /\ origin \in Nat \X Nat
  /\ origin[1] + view.rows <= whole.rows
  /\ origin[2] + view.cols <= whole.cols
  /\ origin[2] % Group = 0 /\ view.cols % Group = 0 /\ whole.cols % Group = 0

(* A view lies in the matrix it was sliced from, on a group's boundary,    *)
(* with that matrix's strides.                                             *)
ViewInvariant ==
  \/ view = NoView /\ whole = NoView /\ origin = <<0, 0>>
  \/ /\ view # NoView
     /\ Dimensions
     /\ Placed(view.packed, view.packed_stride, whole.packed, whole.packed_stride, 2)
     /\ Placed(view.scales, view.scale_stride, whole.scales, whole.scale_stride, Group)
     /\ Fitting(whole.packed, whole.packed_stride, 2)
     /\ Fitting(whole.scales, whole.scale_stride, Group)

-----------------------------------------------------------------------------
(* Facts about products and quotients of natural numbers. *)
LEMMA ProductMonotone ==
  ASSUME NEW a \in Nat, NEW b \in Nat, NEW s \in Nat, a <= b
  PROVE  a * s \in Nat /\ b * s \in Nat /\ a * s <= b * s
<1>1. PICK d \in Nat : b = a + d
  <2>1. b - a \in Nat /\ b = a + (b - a)
    OBVIOUS
  <2> QED
    BY <2>1
<1>2. b * s = a * s + d * s
  BY <1>1
<1>3. a * s \in Nat /\ d * s \in Nat
  OBVIOUS
<1> QED
  BY <1>2, <1>3

LEMMA OneLess ==
  ASSUME NEW a \in Nat \ {0}, NEW s \in Nat
  PROVE  (a - 1) * s + s = a * s /\ (a - 1) * s \in Nat
<1>1. (a - 1) \in Nat
  OBVIOUS
<1> QED
  BY <1>1

LEMMA Distribute ==
  ASSUME NEW a \in Nat, NEW b \in Nat, NEW s \in Nat
  PROVE  (a + b) * s = a * s + b * s /\ a * s \in Nat /\ b * s \in Nat
OBVIOUS

LEMMA QuotientSum ==
  ASSUME NEW a \in Nat, NEW b \in Nat, NEW n \in {2, Group}, a % Group = 0
  PROVE  (a + b) \div n = a \div n + b \div n
<1>1. CASE n = 2
  BY <1>1 DEF Group
<1>2. CASE n = Group
  BY <1>2 DEF Group
<1> QED
  BY <1>1, <1>2

LEMMA Quotients ==
  ASSUME NEW a \in Nat, NEW b \in Nat, NEW n \in {2, Group}, a % Group = 0
  PROVE  /\ a \div n \in Nat /\ b \div n \in Nat
         /\ (a + b) % 2 = b % 2
         /\ b < a => b \div n < a \div n
         /\ b <= a => b \div n <= a \div n
<1>1. CASE n = 2
  BY <1>1 DEF Group
<1>2. CASE n = Group
  BY <1>2 DEF Group
<1> QED
  BY <1>1, <1>2

-----------------------------------------------------------------------------
(* Offsets of a view stay inside its own span, ...                         *)
LEMMA ElementInSpan ==
  ASSUME NEW vr \in Nat \ {0}, NEW vc \in Nat \ {0}, NEW n \in {2, Group}, NEW s \in Nat,
         NEW r \in 0 .. vr - 1, NEW c \in 0 .. vc - 1, vc % Group = 0
  PROVE  Offset(r, c, s, n) < (vr - 1) * s + vc \div n
<1>1. r \in Nat /\ c \in Nat /\ c < vc /\ vr - 1 \in Nat /\ r <= vr - 1
  OBVIOUS
<1>2. c \div n \in Nat /\ vc \div n \in Nat /\ c \div n < vc \div n
  BY <1>1, Quotients
<1>3. r * s \in Nat /\ (vr - 1) * s \in Nat /\ r * s <= (vr - 1) * s
  BY <1>1, ProductMonotone
<1> DEFINE b == r * s  e == c \div n  f == vc \div n  g == (vr - 1) * s
<1>4. b \in Nat /\ e \in Nat /\ f \in Nat /\ g \in Nat /\ b <= g /\ e < f
  BY <1>2, <1>3
<1> HIDE DEF b, e, f, g
<1>5. b + e < g + f
  BY <1>4
<1> QED
  BY <1>5 DEF Offset, b, e, f, g

(* ... and do not wrap: counted from the whole matrix they are below the   *)
(* end of its span.                                                        *)
LEMMA SliceAddress ==
  ASSUME NEW wr \in Nat, NEW wc \in Nat, NEW row \in Nat, NEW col \in Nat,
         NEW n \in {2, Group}, NEW at \in Nat,
         row < wr, col < wc, wc % Group = 0, at + wr * (wc \div n) <= Word
  PROVE  at + Offset(row, col, wc \div n, n) \in 0 .. Word - 1
<1> DEFINE s == wc \div n
<1>1. s \in Nat /\ col \div n \in Nat /\ col \div n < s
  BY Quotients
<1>2. row * s \in Nat /\ (row + 1) * s = row * s + 1 * s
  <2>1. 1 \in Nat
    OBVIOUS
  <2> HIDE DEF s
  <2> QED
    BY <1>1, <2>1, Distribute
<1>3. (row + 1) * s <= wr * s /\ wr * s \in Nat
  <2>1. row + 1 \in Nat /\ row + 1 <= wr
    OBVIOUS
  <2> HIDE DEF s
  <2> QED
    BY <1>1, <2>1, ProductMonotone
<1>4. 1 * s = s
  BY <1>1
<1> DEFINE p == row * s  q == (row + 1) * s  w == wr * s  d == col \div n
<1>5. /\ p \in Nat /\ q = p + s /\ w \in Nat /\ d \in Nat /\ d < s /\ s \in Nat
      /\ q <= w /\ at + w <= Word /\ Word \in Nat
  BY <1>1, <1>2, <1>3, <1>4, PackedViewAssumption
<1> HIDE DEF s, p, q, w, d
<1>6. at + (p + d) \in 0 .. Word - 1
  BY <1>5
<1> QED
  BY <1>6 DEF Offset, s, p, d

-----------------------------------------------------------------------------
LEMMA ConstructKeeps ==
  ASSUME ViewInvariant, Construct
  PROVE  ViewInvariant'
<1>1. view = NoView /\ whole = NoView /\ origin = <<0, 0>> /\ origin' = origin
  BY DEF ViewInvariant, Construct
<1>2. CASE UNCHANGED <<view, whole>>
  BY <1>1, <1>2 DEF ViewInvariant
<1>3. CASE ~UNCHANGED <<view, whole>>
  <2>1. PICK rows \in Rows, cols \in Columns, packed \in Spans, scales \in Spans :
          LET p == Multiplied(rows, cols \div 2)
              t == Multiplied(rows, cols \div Group)
              made == [packed |-> Subspan(packed, 0, p), scales |-> Subspan(scales, 0, t),
                       rows |-> rows, cols |-> cols,
                       packed_stride |-> cols \div 2, scale_stride |-> cols \div Group]
          IN /\ ~BadElements(rows, cols) /\ cols % Group = 0
             /\ ~Overflows(rows, cols \div 2) /\ ~Overflows(rows, cols \div Group)
             /\ ~TooShort(packed, p, 1) /\ ~TooShort(scales, t, 1)
             /\ view' = made /\ whole' = made
    BY <1>3 DEF Construct
  <2>2. rows \in Nat \ {0} /\ cols \in Nat \ {0} /\ rows - 1 \in Nat /\ Word \in Nat
    BY <2>1, PackedViewAssumption DEF BadElements
  <2>3. ASSUME NEW n \in {2, Group}, NEW span \in Spans, ~Overflows(rows, cols \div n),
               ~TooShort(span, Multiplied(rows, cols \div n), 1)
        PROVE  LET made == Subspan(span, 0, Multiplied(rows, cols \div n))
               IN /\ made.at \in Nat
                  /\ made.size = rows * (cols \div n)
                  /\ made.at + made.size <= Word
                  /\ made.at = made.at + Offset(0, 0, cols \div n, n)
                  /\ made.size = (rows - 1) * (cols \div n) + cols \div n
    <3> DEFINE s == cols \div n  p == rows * s
    <3>1. s \in Nat
      BY <2>1, <2>2, Quotients
    <3>2. p \in Nat /\ p < Word /\ p % Word = p
      <4>1. p \in Nat
        BY <2>2, <3>1
      <4>2. p < Word
        <5>1. ~(p >= Word)
          BY <2>3 DEF Overflows
        <5> HIDE DEF p
        <5> QED
          BY <2>2, <4>1, <5>1
      <4> HIDE DEF p
      <4> QED
        BY <2>2, <4>1, <4>2
    <3>3. (rows - 1) * s + s = p
      BY <2>2, <3>1, OneLess
    <3>4. 0 * s = 0 /\ 0 \div n = 0
      <4>1. 0 * s = 0
        BY <3>1
      <4>2. n = 2 \/ n = 16
        BY DEF Group
      <4> QED
        BY <4>1, <4>2
    <3>5. span.at \in 0 .. Word - 1 /\ span.size \in 0 .. Word - span.at
      BY PackedViewAssumption
    <3>6. Multiplied(rows, s) = p
      BY <3>2 DEF Multiplied
    <3> HIDE DEF s, p
    <3>7. ~(span.size \div 1 < p)
      BY <2>3, <3>6 DEF TooShort, s
    <3>8. p <= span.size
      BY <3>2, <3>5, <3>7, <2>2
    <3>9. (span.at + 0) % Word = span.at
      BY <3>5, <2>2
    <3>10. Subspan(span, 0, p) = [at |-> span.at, size |-> p]
      BY <3>9 DEF Subspan
    <3>11. span.at \in Nat /\ span.at + p <= Word /\ span.at = span.at + Offset(0, 0, s, n)
      BY <2>2, <3>2, <3>4, <3>5, <3>8 DEF Offset
    <3> QED
      BY <3>3, <3>6, <3>10, <3>11 DEF s, p
  <2>4. /\ view'.rows = rows /\ view'.cols = cols /\ whole' = view'
        /\ view'.packed = Subspan(packed, 0, Multiplied(rows, cols \div 2))
        /\ view'.scales = Subspan(scales, 0, Multiplied(rows, cols \div Group))
        /\ view'.packed_stride = cols \div 2 /\ view'.scale_stride = cols \div Group
    BY <2>1
  <2>5. view' # NoView /\ origin' = <<0, 0>>
    BY <1>1, <2>2, <2>4 DEF NoView
  <2>6. Dimensions'
    BY <2>1, <2>2, <2>4, <2>5 DEF Dimensions, Group
  <2>7. /\ Placed(view.packed, view.packed_stride, whole.packed, whole.packed_stride, 2)'
        /\ Fitting(whole.packed, whole.packed_stride, 2)'
    BY <2>1, <2>3, <2>4, <2>5 DEF Placed, Fitting
  <2>8. /\ Placed(view.scales, view.scale_stride, whole.scales, whole.scale_stride, Group)'
        /\ Fitting(whole.scales, whole.scale_stride, Group)'
    BY <2>1, <2>3, <2>4, <2>5 DEF Placed, Fitting
  <2> QED
    BY <2>5, <2>6, <2>7, <2>8 DEF ViewInvariant
<1> QED
  BY <1>2, <1>3

LEMMA SliceKeeps ==
  ASSUME ViewInvariant, Slice
  PROVE  ViewInvariant'
<1>1. /\ view # NoView /\ Dimensions /\ whole' = whole
      /\ Placed(view.packed, view.packed_stride, whole.packed, whole.packed_stride, 2)
      /\ Placed(view.scales, view.scale_stride, whole.scales, whole.scale_stride, Group)
      /\ Fitting(whole.packed, whole.packed_stride, 2)
      /\ Fitting(whole.scales, whole.scale_stride, Group)
  BY DEF ViewInvariant, Slice
<1>2. CASE UNCHANGED <<view, origin>>
  BY <1>1, <1>2 DEF ViewInvariant, Dimensions, Placed, Fitting
<1>3. CASE ~UNCHANGED <<view, origin>>
  <2>1. PICK row \in Rows, rows \in Rows, col \in Columns, cols \in Columns :
          /\ rows # 0 /\ cols # 0 /\ ~(row >= view.rows) /\ ~(col >= view.cols)
          /\ ~(rows > view.rows - row) /\ ~(cols > view.cols - col)
          /\ col % Group = 0 /\ cols % Group = 0
          /\ view' = SliceOf(view, row, rows, col, cols)
          /\ origin' = <<origin[1] + row, origin[2] + col>>
    BY <1>3 DEF Slice
  <2> DEFINE o1 == origin[1]  o2 == origin[2]
  <2>2. /\ o1 \in Nat /\ o2 \in Nat /\ row \in Nat /\ col \in Nat
        /\ rows \in Nat \ {0} /\ cols \in Nat \ {0}
        /\ row < view.rows /\ col < view.cols
        /\ row + rows <= view.rows /\ col + cols <= view.cols
    BY <1>1, <2>1, PackedViewAssumption DEF Dimensions
  <2>3. /\ view'.rows = rows /\ view'.cols = cols
        /\ view'.packed_stride = view.packed_stride /\ view'.scale_stride = view.scale_stride
        /\ view'.packed = Subspan(view.packed, row * view.packed_stride + col \div 2,
                                  (rows - 1) * view.packed_stride + cols \div 2)
        /\ view'.scales = Subspan(view.scales, row * view.scale_stride + col \div Group,
                                  (rows - 1) * view.scale_stride + cols \div Group)
    BY <2>1 DEF SliceOf
  <2>4. view' # NoView
    BY <2>2, <2>3 DEF NoView
  <2>5. Dimensions'
    <3>1. origin' \in Nat \X Nat /\ origin'[1] = o1 + row /\ origin'[2] = o2 + col
      BY <2>1, <2>2
    <3>2. (o2 + col) % Group = 0
      BY <1>1, <2>1, <2>2 DEF Dimensions, Group
    <3>3. o1 + row + rows <= whole.rows /\ o2 + col + cols <= whole.cols
      BY <1>1, <2>2 DEF Dimensions
    <3> QED
      BY <1>1, <2>1, <2>2, <2>3, <3>1, <3>2, <3>3 DEF Dimensions
  <2>6. ASSUME NEW span, NEW stride, NEW wholeSpan, NEW wholeStride, NEW n \in {2, Group},
               Placed(span, stride, wholeSpan, wholeStride, n),
               Fitting(wholeSpan, wholeStride, n)
        PROVE  (span.at + Offset(row, col, stride, n)) % Word
                 = wholeSpan.at + Offset(o1 + row, o2 + col, stride, n)
    <3>1. /\ stride = whole.cols \div n /\ stride = wholeStride
          /\ span.at = wholeSpan.at + Offset(o1, o2, stride, n)
          /\ wholeSpan.at \in Nat /\ wholeSpan.at + whole.rows * stride <= Word
      BY <2>6 DEF Placed, Fitting
    <3>2. /\ view.rows \in Nat /\ view.cols \in Nat /\ whole.rows \in Nat /\ whole.cols \in Nat
          /\ o1 + view.rows <= whole.rows /\ o2 + view.cols <= whole.cols
          /\ o2 % Group = 0 /\ whole.cols % Group = 0
      BY <1>1 DEF Dimensions
    <3> DEFINE wr == whole.rows  wc == whole.cols  at == wholeSpan.at
               here == at + Offset(o1 + row, o2 + col, stride, n)
    <3>3. /\ o1 + row \in Nat /\ o2 + col \in Nat /\ o1 + row < wr /\ o2 + col < wc
          /\ wr \in Nat /\ wc \in Nat /\ at \in Nat /\ o2 % Group = 0 /\ wc % Group = 0
          /\ at + wr * stride <= Word /\ stride = wc \div n
      BY <2>2, <3>1, <3>2
    <3> HIDE DEF o1, o2, wr, wc, at
    <3>4. here \in 0 .. Word - 1 /\ stride \in Nat
      BY <3>3, SliceAddress, Quotients
    <3>5. (at + Offset(o1, o2, stride, n)) + Offset(row, col, stride, n) = here
      <4>0. o2 \in Nat /\ col \in Nat /\ o2 % Group = 0
        BY <2>2, <3>3
      <4>1. (o2 + col) \div n = o2 \div n + col \div n
        BY <4>0, QuotientSum
      <4>2. o2 \div n \in Nat /\ col \div n \in Nat
        BY <4>0, Quotients
      <4>3. (o1 + row) * stride = o1 * stride + row * stride /\ o1 * stride \in Nat /\ row * stride \in Nat
        BY <2>2, <3>3, <3>4, Distribute
      <4> DEFINE a == o1 * stride  b == row * stride  d == o2 \div n  f == col \div n
                  sum == (o1 + row) * stride + (o2 + col) \div n
      <4>4. /\ a \in Nat /\ b \in Nat /\ d \in Nat /\ f \in Nat /\ at \in Nat
            /\ sum = (a + b) + (d + f)
        BY <2>2, <3>3, <3>4, <4>1, <4>2, <4>3
      <4> HIDE DEF a, b, d, f, sum
      <4>5. (at + (a + d)) + (b + f) = at + sum
        BY <4>4
      <4> QED
        BY <4>5 DEF here, Offset, a, b, d, f, sum
    <3> HIDE DEF here
    <3>6. here % Word = here
      BY <3>4, PackedViewAssumption
    <3> QED
      BY <3>1, <3>5, <3>6 DEF here, at
  <2>7. Placed(view.packed, view.packed_stride, whole.packed, whole.packed_stride, 2)'
    <3>1. (view.packed.at + Offset(row, col, view.packed_stride, 2)) % Word
            = whole.packed.at + Offset(o1 + row, o2 + col, view.packed_stride, 2)
      BY <1>1, <2>6
    <3>2. origin'[1] = o1 + row /\ origin'[2] = o2 + col
      BY <2>1
    <3> QED
      BY <1>1, <2>3, <3>1, <3>2 DEF Placed, Subspan, Offset
  <2>8. Placed(view.scales, view.scale_stride, whole.scales, whole.scale_stride, Group)'
    <3>1. (view.scales.at + Offset(row, col, view.scale_stride, Group)) % Word
            = whole.scales.at + Offset(o1 + row, o2 + col, view.scale_stride, Group)
      BY <1>1, <2>6
    <3>2. origin'[1] = o1 + row /\ origin'[2] = o2 + col
      BY <2>1
    <3> QED
      BY <1>1, <2>3, <3>1, <3>2 DEF Placed, Subspan, Offset
  <2> QED
    BY <1>1, <2>4, <2>5, <2>7, <2>8 DEF ViewInvariant, Fitting
<1> QED
  BY <1>2, <1>3

-----------------------------------------------------------------------------
(* Every view the program can hold lies in the matrix that was validated,  *)
(* at the place its slices add up to.                                      *)
THEOREM ViewsLieInTheirMatrix == ViewSpec => []ViewInvariant
<1>1. ViewInit => ViewInvariant
  BY DEF ViewInit, ViewInvariant
<1>2. ViewInvariant /\ [ViewNext]_viewVars => ViewInvariant'
  <2> SUFFICES ASSUME ViewInvariant, [ViewNext]_viewVars
               PROVE  ViewInvariant'
    OBVIOUS
  <2>1. CASE Construct
    BY <2>1, ConstructKeeps
  <2>2. CASE Slice
    BY <2>2, SliceKeeps
  <2>3. CASE Dequantize \/ PackedGemv \/ ViewRest \/ UNCHANGED viewVars
    <3>1. UNCHANGED <<view, origin, whole>>
      BY <2>3 DEF Dequantize, PackedGemv, ViewRest, viewVars
    <3> QED
      BY <3>1 DEF ViewInvariant, Dimensions, Placed, Fitting
  <2> QED
    BY <2>1, <2>2, <2>3 DEF ViewNext
<1> QED
  BY <1>1, <1>2, PTL DEF ViewSpec

LEMMA ElementsOfAView ==
  ASSUME ViewInvariant
  PROVE  ViewsReadTheirElements
<1> SUFFICES ASSUME NEW e \in Elements(view)
             PROVE  /\ PackedIndex(view, e[1], e[2]) < view.packed.size
                    /\ ScaleIndex(view, e[1], e[2]) < view.scales.size
                    /\ BytesRead(view, e[1], e[2])
                         = BytesRead(whole, origin[1] + e[1], origin[2] + e[2])
                    /\ (origin[2] + e[2]) % 2 = e[2] % 2
  BY DEF ViewsReadTheirElements
<1>1. view # NoView
  BY DEF Elements, NoView
<1>2. /\ Dimensions
      /\ Placed(view.packed, view.packed_stride, whole.packed, whole.packed_stride, 2)
      /\ Placed(view.scales, view.scale_stride, whole.scales, whole.scale_stride, Group)
      /\ Fitting(whole.packed, whole.packed_stride, 2)
      /\ Fitting(whole.scales, whole.scale_stride, Group)
  BY <1>1 DEF ViewInvariant
<1> DEFINE r == e[1]  c == e[2]  o1 == origin[1]  o2 == origin[2]
<1>3. /\ r \in 0 .. view.rows - 1 /\ c \in 0 .. view.cols - 1
      /\ o1 \in Nat /\ o2 \in Nat /\ o2 % Group = 0 /\ view.cols % Group = 0
      /\ view.rows \in Nat \ {0} /\ view.cols \in Nat \ {0} /\ whole.cols \in Nat
  BY <1>2 DEF Dimensions, Elements
<1> HIDE DEF r, c, o1, o2
<1>4. ASSUME NEW span, NEW stride, NEW wholeSpan, NEW wholeStride, NEW n \in {2, Group},
             Placed(span, stride, wholeSpan, wholeStride, n),
             Fitting(wholeSpan, wholeStride, n)
      PROVE  /\ Offset(r, c, stride, n) < span.size
             /\ span.at + Offset(r, c, stride, n)
                  = wholeSpan.at + Offset(o1 + r, o2 + c, wholeStride, n)
  <2>1. /\ stride = whole.cols \div n /\ stride = wholeStride /\ wholeSpan.at \in Nat
        /\ span.at = wholeSpan.at + Offset(o1, o2, stride, n)
        /\ span.size = (view.rows - 1) * stride + view.cols \div n
    BY <1>4 DEF Placed, Fitting, o1, o2
  <2>2. stride \in Nat
    <3>1. 0 \in Nat /\ 0 % Group = 0
      BY DEF Group
    <3> QED
      BY <1>3, <2>1, <3>1, Quotients
  <2> DEFINE vr == view.rows  vc == view.cols  at == wholeSpan.at
  <2>3. /\ vr \in Nat \ {0} /\ vc \in Nat \ {0} /\ at \in Nat /\ r \in Nat /\ c \in Nat
        /\ r \in 0 .. vr - 1 /\ c \in 0 .. vc - 1 /\ vc % Group = 0
    BY <1>3, <2>1
  <2> HIDE DEF vr, vc, at
  <2>4. Offset(r, c, stride, n) < (vr - 1) * stride + vc \div n
    BY <2>2, <2>3, ElementInSpan
  <2>5. (at + Offset(o1, o2, stride, n)) + Offset(r, c, stride, n)
          = at + Offset(o1 + r, o2 + c, stride, n)
    <3>1. (o2 + c) \div n = o2 \div n + c \div n
      BY <1>3, <2>2, <2>3, QuotientSum
    <3>2. o2 \div n \in Nat /\ c \div n \in Nat
      BY <1>3, <2>2, <2>3, Quotients
    <3>3. (o1 + r) * stride = o1 * stride + r * stride /\ o1 * stride \in Nat /\ r * stride \in Nat
      BY <1>3, <2>2, <2>3, Distribute
    <3> DEFINE a == o1 * stride  b == r * stride  d == o2 \div n  f == c \div n
                sum == (o1 + r) * stride + (o2 + c) \div n
    <3>4. /\ a \in Nat /\ b \in Nat /\ d \in Nat /\ f \in Nat /\ at \in Nat
          /\ sum = (a + b) + (d + f)
      BY <1>3, <2>2, <2>3, <3>1, <3>2, <3>3
    <3> HIDE DEF a, b, d, f, sum
    <3>5. (at + (a + d)) + (b + f) = at + sum
      BY <3>4
    <3> QED
      BY <3>5 DEF Offset, a, b, d, f, sum
  <2> QED
    BY <2>1, <2>4, <2>5 DEF vr, vc, at
<1>5. /\ PackedIndex(view, r, c) < view.packed.size
      /\ view.packed.at + PackedIndex(view, r, c) = whole.packed.at + PackedIndex(whole, o1 + r, o2 + c)
  BY <1>2, <1>4 DEF PackedIndex, Offset
<1>6. /\ ScaleIndex(view, r, c) < view.scales.size
      /\ view.scales.at + ScaleIndex(view, r, c) = whole.scales.at + ScaleIndex(whole, o1 + r, o2 + c)
  BY <1>2, <1>4 DEF ScaleIndex, Offset
<1>7. (o2 + c) % 2 = c % 2
  BY <1>3 DEF Group
<1> QED
  BY <1>5, <1>6, <1>7 DEF BytesRead, r, c, o1, o2

(* However slices are nested, an element of a view is read inside the      *)
(* view's spans and from the bytes of that element of the matrix that was  *)
(* validated, whatever its size and wherever it lies.                      *)
THEOREM SlicesReadTheirElements == ViewSpec => []ViewsReadTheirElements
BY ViewsLieInTheirMatrix, ElementsOfAView, PTL

-----------------------------------------------------------------------------
(* A byte of a span that does not overlap the output is in none of the     *)
(* output's floats.                                                        *)
LEMMA ApartFromOutput ==
  ASSUME NEW out, NEW span, NEW n \in Nat, NEW k \in 0 .. n - 1, NEW byte \in Nat,
         out.at \in Nat, out.size = FloatSize * n, span.at \in Nat, span.size \in Nat,
         span.at <= byte, byte < span.at + span.size, ~Overlaps(out, span)
  PROVE  byte \notin BytesWritten(out, k)
<1> DEFINE a == out.at  b == span.at  s == span.size
<1>1. /\ a \in Nat /\ b \in Nat /\ s \in Nat /\ n > 0 /\ s > 0 /\ b <= byte /\ byte < b + s
      /\ ~(IF a <= b THEN b - a < 4 * n ELSE a - b < s)
  BY DEF Overlaps, FloatSize
<1> HIDE DEF a, b, s
<1>2. byte \notin a + 4 * k .. a + 4 * k + 3
  <2>1. CASE a <= b
    BY <1>1, <2>1
  <2>2. CASE ~(a <= b)
    BY <1>1, <2>2
  <2> QED
    BY <2>1, <2>2
<1>3. BytesWritten(out, k) = a + 4 * k .. a + 4 * k + 3
  BY <1>1 DEF BytesWritten, FloatSize, a
<1> QED
  BY <1>2, <1>3

(* The bytes an element is read from are in the view's two spans.          *)
LEMMA BytesInSpans ==
  ASSUME ViewInvariant, NEW e \in Elements(view)
  PROVE  /\ view.packed.at \in Nat /\ view.packed.size \in Nat
         /\ view.scales.at \in Nat /\ view.scales.size \in Nat
         /\ PackedIndex(view, e[1], e[2]) \in Nat /\ ScaleIndex(view, e[1], e[2]) \in Nat
         /\ PackedIndex(view, e[1], e[2]) < view.packed.size
         /\ ScaleIndex(view, e[1], e[2]) < view.scales.size
<1>1. /\ PackedIndex(view, e[1], e[2]) < view.packed.size
      /\ ScaleIndex(view, e[1], e[2]) < view.scales.size
  BY ElementsOfAView DEF ViewsReadTheirElements
<1>2. /\ Dimensions
      /\ Placed(view.packed, view.packed_stride, whole.packed, whole.packed_stride, 2)
      /\ Placed(view.scales, view.scale_stride, whole.scales, whole.scale_stride, Group)
      /\ Fitting(whole.packed, whole.packed_stride, 2)
      /\ Fitting(whole.scales, whole.scale_stride, Group)
  <2>1. view # NoView
    BY DEF Elements, NoView
  <2> QED
    BY <2>1 DEF ViewInvariant
<1> DEFINE r == e[1]  c == e[2]
<1>3. /\ r \in Nat /\ c \in Nat /\ view.rows - 1 \in Nat /\ view.cols \in Nat
      /\ origin[1] \in Nat /\ origin[2] \in Nat /\ whole.cols \in Nat
  BY <1>2 DEF Dimensions, Elements
<1> HIDE DEF r, c
<1>4. ASSUME NEW span, NEW stride, NEW wholeSpan, NEW wholeStride, NEW n \in {2, Group},
             Placed(span, stride, wholeSpan, wholeStride, n),
             Fitting(wholeSpan, wholeStride, n)
      PROVE  span.at \in Nat /\ span.size \in Nat /\ Offset(r, c, stride, n) \in Nat
  <2>1. /\ stride = whole.cols \div n /\ wholeSpan.at \in Nat
        /\ span.at = wholeSpan.at + Offset(origin[1], origin[2], stride, n)
        /\ span.size = (view.rows - 1) * stride + view.cols \div n
    BY <1>4 DEF Placed, Fitting
  <2>2. 0 \in Nat /\ 0 % Group = 0
    BY DEF Group
  <2>3. /\ stride \in Nat /\ view.cols \div n \in Nat
        /\ origin[2] \div n \in Nat /\ c \div n \in Nat
    BY <1>3, <2>1, <2>2, Quotients
  <2>4. (view.rows - 1) * stride \in Nat /\ origin[1] * stride \in Nat /\ r * stride \in Nat
    BY <1>3, <2>3
  <2> DEFINE g == (view.rows - 1) * stride  o == origin[1] * stride  b == r * stride
             d == origin[2] \div n  f == c \div n  h == view.cols \div n
  <2>5. g \in Nat /\ o \in Nat /\ b \in Nat /\ d \in Nat /\ f \in Nat /\ h \in Nat
    BY <2>3, <2>4
  <2> HIDE DEF g, o, b, d, f, h
  <2>6. wholeSpan.at + (o + d) \in Nat /\ g + h \in Nat /\ b + f \in Nat
    BY <2>1, <2>5
  <2> QED
    BY <2>1, <2>6 DEF Offset, g, o, b, d, f, h
<1>5. /\ view.packed.at \in Nat /\ view.packed.size \in Nat
      /\ PackedIndex(view, r, c) \in Nat
  BY <1>2, <1>4 DEF PackedIndex, Offset
<1>6. /\ view.scales.at \in Nat /\ view.scales.size \in Nat
      /\ ScaleIndex(view, r, c) \in Nat
  BY <1>2, <1>4 DEF ScaleIndex, Offset
<1> QED
  BY <1>1, <1>5, <1>6 DEF r, c

(* An output of n floats that overlaps neither span meets no element's     *)
(* bytes.                                                                  *)
LEMMA OutputMeetsNoElement ==
  ASSUME ViewInvariant, NEW out, NEW n \in Nat, NEW k \in 0 .. n - 1,
         NEW e \in Elements(view), out.at \in Nat, out.size = FloatSize * n,
         ~Overlaps(out, view.packed), ~Overlaps(out, view.scales)
  PROVE  BytesWritten(out, k) \cap BytesRead(view, e[1], e[2]) = {}
<1> DEFINE i == PackedIndex(view, e[1], e[2])  j == ScaleIndex(view, e[1], e[2])
           pa == view.packed.at  ps == view.packed.size
           sa == view.scales.at  ss == view.scales.size
<1>1. /\ pa \in Nat /\ ps \in Nat /\ i \in Nat /\ i < ps
      /\ sa \in Nat /\ ss \in Nat /\ j \in Nat /\ j < ss
  BY BytesInSpans
<1>2. BytesRead(view, e[1], e[2]) = {pa + i, sa + j}
  BY DEF BytesRead
<1> HIDE DEF i, j, pa, ps, sa, ss
<1>3. /\ pa + i \in Nat /\ pa <= pa + i /\ pa + i < pa + ps
      /\ sa + j \in Nat /\ sa <= sa + j /\ sa + j < sa + ss
  BY <1>1
<1>4. pa + i \notin BytesWritten(out, k)
  BY <1>1, <1>3, ApartFromOutput DEF pa, ps
<1>5. sa + j \notin BytesWritten(out, k)
  BY <1>1, <1>3, ApartFromOutput DEF sa, ss
<1> QED
  BY <1>2, <1>4, <1>5

(* The last element of the last row has the last float. *)
LEMMA FloatOfElement ==
  ASSUME NEW rows \in Nat, NEW cols \in Nat,
         NEW r \in 0 .. rows - 1, NEW c \in 0 .. cols - 1
  PROVE  rows * cols \in Nat /\ r * cols + c \in 0 .. rows * cols - 1
<1>1. r + 1 \in Nat /\ r + 1 <= rows /\ r \in Nat /\ c \in Nat /\ c < cols
  OBVIOUS
<1>2. (r + 1) * cols <= rows * cols /\ rows * cols \in Nat
  BY <1>1, ProductMonotone
<1>3. (r + 1) * cols = r * cols + 1 * cols /\ r * cols \in Nat /\ 1 * cols = cols
  <2>1. 1 \in Nat
    OBVIOUS
  <2> QED
    BY <1>1, <2>1, Distribute
<1> DEFINE p == r * cols  q == (r + 1) * cols  w == rows * cols
<1>4. p \in Nat /\ w \in Nat /\ q <= w /\ q = p + cols
  BY <1>2, <1>3
<1> HIDE DEF p, q, w
<1>5. p + c \in 0 .. w - 1
  BY <1>1, <1>4
<1> QED
  BY <1>4, <1>5 DEF p, w

(* Neither the dequantization nor the product ever computes from a byte of *)
(* the weights that its own output has overwritten, wherever the caller's  *)
(* buffers lie (nvfp4_decode.cpp: the overlap checks before the loops).    *)
THEOREM AcceptedOutputsSpareTheWeights == ViewSpec => []OutputsSpareTheWeights
<1>1. ViewInit => OutputsSpareTheWeights
  BY DEF ViewInit, OutputsSpareTheWeights
<1>2. ViewInvariant /\ OutputsSpareTheWeights /\ [ViewNext]_viewVars => OutputsSpareTheWeights'
  <2> SUFFICES ASSUME ViewInvariant, OutputsSpareTheWeights, [ViewNext]_viewVars
               PROVE  outcome' # "garbled"
    BY DEF OutputsSpareTheWeights
  <2>1. CASE Construct \/ Slice
    BY <2>1 DEF Construct, Slice, OutputsSpareTheWeights
  <2>2. CASE Dequantize
    <3>1. PICK buffer \in Spans :
            LET n == view.rows * view.cols
                out == [buffer EXCEPT !.size = FloatSize * n]
            IN outcome' =
                 IF \/ BadElements(view.rows, view.cols) \/ TooShort(buffer, n, FloatSize)
                    \/ Overlaps(out, view.packed) \/ Overlaps(out, view.scales)
                 THEN "refused"
                 ELSE IF ReadsItsOwnOutput(view, out) THEN "garbled" ELSE "dequantized"
      BY <2>2 DEF Dequantize
    <3> DEFINE n == view.rows * view.cols
               out == [buffer EXCEPT !.size = FloatSize * n]
    <3>2. ASSUME ~Overlaps(out, view.packed), ~Overlaps(out, view.scales)
          PROVE  ~ReadsItsOwnOutput(view, out)
      <4> SUFFICES ASSUME NEW e \in Elements(view), NEW f \in Elements(view)
                   PROVE  BytesWritten(out, f[1] * view.cols + f[2])
                            \cap BytesRead(view, e[1], e[2]) = {}
        BY DEF ReadsItsOwnOutput
      <4>1. view.rows \in Nat /\ view.cols \in Nat
        <5>1. view # NoView
          BY <2>2 DEF Dequantize
        <5> QED
          BY <5>1 DEF ViewInvariant, Dimensions
      <4>2. f[1] \in 0 .. view.rows - 1 /\ f[2] \in 0 .. view.cols - 1
        BY DEF Elements
      <4>3. n \in Nat /\ f[1] * view.cols + f[2] \in 0 .. n - 1
        BY <4>1, <4>2, FloatOfElement
      <4>4. out.at \in Nat /\ out.size = FloatSize * n
        BY PackedViewAssumption
      <4> HIDE DEF n, out
      <4> QED
        BY <3>2, <4>3, <4>4, OutputMeetsNoElement
    <3> QED
      BY <3>1, <3>2
  <2>3. CASE PackedGemv
    <3>1. PICK x \in Spans, y \in Spans :
            LET out == [y EXCEPT !.size = FloatSize * view.rows]
            IN outcome' =
                 IF \/ TooShort(x, view.cols, FloatSize) \/ TooShort(y, view.rows, FloatSize)
                    \/ Overlaps(out, view.packed) \/ Overlaps(out, view.scales)
                 THEN "refused"
                 ELSE IF \E e \in Elements(view), k \in 0 .. view.rows - 1 :
                           BytesWritten(out, k) \cap BytesRead(view, e[1], e[2]) # {}
                      THEN "garbled" ELSE "multiplied"
      BY <2>3 DEF PackedGemv
    <3> DEFINE out == [y EXCEPT !.size = FloatSize * view.rows]
    <3>2. view.rows \in Nat
      <4>1. view # NoView
        BY <2>3 DEF PackedGemv
      <4> QED
        BY <4>1 DEF ViewInvariant, Dimensions
    <3>3. out.at \in Nat /\ out.size = FloatSize * view.rows
      BY PackedViewAssumption
    <3>4. ASSUME ~Overlaps(out, view.packed), ~Overlaps(out, view.scales),
                 NEW e \in Elements(view), NEW k \in 0 .. view.rows - 1
          PROVE  BytesWritten(out, k) \cap BytesRead(view, e[1], e[2]) = {}
      <4> HIDE DEF out
      <4> QED
        BY <3>2, <3>3, <3>4, OutputMeetsNoElement
    <3> QED
      BY <3>1, <3>4
  <2>4. CASE ViewRest \/ UNCHANGED viewVars
    BY <2>4 DEF ViewRest, viewVars, OutputsSpareTheWeights
  <2> QED
    BY <2>1, <2>2, <2>3, <2>4 DEF ViewNext
<1> QED
  BY <1>1, <1>2, ViewsLieInTheirMatrix, PTL DEF ViewSpec

-----------------------------------------------------------------------------
(* The convolution.  What a channel keeps after n calls. *)
RecentAfter(c, n) ==
  [k \in 1 .. History |->
     IF n - History + k >= 1 THEN Rounded(Given(c, n - History + k)) ELSE Zero]

(* A channel that the call in progress has still to convolve. *)
Waiting(c) == channel # 0 /\ c >= channel

KeepsRecent(c) == mem[c] = RecentAfter(c, IF Waiting(c) THEN calls - 1 ELSE calls)

(* The channels not yet convolved still have their inputs, the others have *)
(* left the product of their own window.                                   *)
CellsInvariant ==
  /\ input \in Nat /\ output \in Nat /\ ~Refused(input, output)
  /\ \A c \in 1 .. Channels :
       IF Waiting(c)
       THEN input + c \in DOMAIN array /\ array[input + c] = Given(c, calls)
       ELSE /\ output + c \in DOMAIN array
            /\ array[output + c] = Product(Append(RecentAfter(c, calls - 1), Given(c, calls)))

ConvInvariant ==
  /\ channel \in 0 .. Channels /\ calls \in Nat
  /\ given = [c \in 1 .. Channels |-> [i \in 1 .. calls |-> Given(c, i)]]
  /\ Kernel < 1 => calls = 0
  /\ calls = 0 => channel = 0
  /\ Kernel >= 1 => /\ DOMAIN mem = 1 .. Channels /\ mem = [c \in 1 .. Channels |-> mem[c]]
                    /\ \A c \in 1 .. Channels : KeepsRecent(c)
  /\ calls > 0 => CellsInvariant
-----------------------------------------------------------------------------
(* What a channel can keep. *)
Values(c) == {Zero} \cup {Rounded(Given(c, i)) : i \in Nat}

LEMMA RecentIsSeq ==
  ASSUME NEW c, NEW n \in Nat, Kernel >= 1
  PROVE  /\ History \in Nat
         /\ RecentAfter(c, n) \in Seq(Values(c)) /\ Len(RecentAfter(c, n)) = History
         /\ \A k \in 1 .. History :
              RecentAfter(c, n)[k] = IF n - History + k >= 1 THEN Rounded(Given(c, n - History + k))
                                                             ELSE Zero
<1>1. History \in Nat
  BY ConvAssumption DEF History
<1>2. \A k \in 1 .. History : n - History + k >= 1 => n - History + k \in Nat
  BY <1>1
<1>3. RecentAfter(c, n) \in [1 .. History -> Values(c)]
  BY <1>2 DEF RecentAfter, Values
<1>4. RecentAfter(c, n) \in Seq(Values(c)) /\ Len(RecentAfter(c, n)) = History
  BY <1>1, <1>3, FunctionIsSeq
<1> QED
  BY <1>1, <1>4 DEF RecentAfter

(* Moving the history up and adding the rounded input is the next history. *)
LEMMA HistoryMoves ==
  ASSUME NEW c, NEW n \in Nat \ {0}, Kernel >= 1, History > 0
  PROVE  Append(Tail(RecentAfter(c, n - 1)), Rounded(Given(c, n))) = RecentAfter(c, n)
<1> DEFINE old == RecentAfter(c, n - 1)
           new == RecentAfter(c, n)
           e == Rounded(Given(c, n))
           S == Values(c)
           moved == Append(Tail(old), e)
<1>1. /\ History \in Nat \ {0} /\ n - 1 \in Nat
      /\ old \in Seq(S) /\ Len(old) = History
      /\ new \in Seq(S) /\ Len(new) = History
  BY RecentIsSeq
<1>2. \A k \in 1 .. History : new[k] = IF n - History + k >= 1 THEN Rounded(Given(c, n - History + k)) ELSE Zero
  BY RecentIsSeq
<1>3. \A k \in 1 .. History : old[k] = IF n - 1 - History + k >= 1 THEN Rounded(Given(c, n - 1 - History + k)) ELSE Zero
  BY <1>1, RecentIsSeq
<1>4. new[History] = e
  <2>1. n - History + History = n /\ n >= 1 /\ History \in 1 .. History
    BY <1>1
  <2> QED
    BY <1>2, <2>1
<1>5. e \in S
  BY DEF Values
<1> HIDE DEF old, new, S
<1>6. old # << >>
  BY <1>1, EmptySeq
<1>7. /\ Tail(old) \in Seq(S) /\ Len(Tail(old)) = History - 1
      /\ \A k \in 1 .. History - 1 : Tail(old)[k] = old[k + 1]
  BY <1>1, <1>6, HeadTailProperties
<1> HIDE DEF e
<1>8. /\ moved \in Seq(S) /\ Len(moved) = History
      /\ \A k \in 1 .. History - 1 : moved[k] = old[k + 1]
      /\ moved[History] = e
  <2>1. /\ moved \in Seq(S) /\ Len(moved) = Len(Tail(old)) + 1
        /\ \A k \in 1 .. Len(Tail(old)) : moved[k] = Tail(old)[k]
        /\ moved[Len(Tail(old)) + 1] = e
    BY <1>5, <1>7, AppendProperties
  <2> HIDE DEF moved
  <2>2. Len(Tail(old)) + 1 = History
    BY <1>1, <1>7
  <2> QED
    BY <1>7, <2>1, <2>2
<1>9. \A k \in 1 .. History : moved[k] = new[k]
  <2> SUFFICES ASSUME NEW k \in 1 .. History PROVE moved[k] = new[k]
    OBVIOUS
  <2>1. CASE k = History
    BY <1>4, <1>8, <2>1
  <2>2. CASE k # History
    <3>1. k \in 1 .. History - 1 /\ k + 1 \in 1 .. History /\ n - 1 - History + (k + 1) = n - History + k
      BY <1>1, <2>2
    <3> HIDE DEF moved
    <3>2. moved[k] = old[k + 1]
      BY <1>8, <3>1
    <3> QED
      BY <1>2, <1>3, <3>1, <3>2
  <2> QED
    BY <2>1, <2>2
<1> HIDE DEF moved
<1>10. moved = new
  BY <1>1, <1>8, <1>9, SeqEqual
<1> QED
  BY <1>10 DEF moved, new, old, e

(* The property's own account of the history. *)
LEMMA RecentIs ==
  ASSUME ConvInvariant, calls > 0, NEW c \in 1 .. Channels
  PROVE  /\ Recent(c) = RecentAfter(c, calls - 1)
         /\ given[c][calls] = Given(c, calls)
<1> DEFINE n == calls
           left == Zeros(History)
           right == [i \in 1 .. n - 1 |-> Rounded(given[c][i])]
           S == Values(c)
           earlier == left \o right
           recent == SubSeq(earlier, n, n + History - 1)
<1>1. n \in Nat \ {0} /\ n - 1 \in Nat /\ Kernel >= 1 /\ History \in Nat /\ n \in 1 .. n
  BY ConvAssumption DEF ConvInvariant, History
<1>2. \A i \in 1 .. n : given[c][i] = Given(c, i)
  BY DEF ConvInvariant
<1>3. /\ left \in Seq(S) /\ Len(left) = History /\ \A i \in 1 .. History : left[i] = Zero
      /\ right \in Seq(S) /\ Len(right) = n - 1
      /\ \A i \in 1 .. n - 1 : right[i] = Rounded(Given(c, i))
  <2>1. \A i \in 1 .. History : left[i] = Zero
    BY DEF Zeros
  <2>2. \A i \in 1 .. n - 1 : right[i] = Rounded(Given(c, i))
    BY <1>1, <1>2
  <2>3. left \in [1 .. History -> S] /\ right \in [1 .. n - 1 -> S]
    <3>1. 1 .. n - 1 \subseteq Nat
      BY <1>1
    <3>2. right \in [1 .. n - 1 -> S]
      BY <2>2, <3>1 DEF Values
    <3> QED
      BY <3>2 DEF Zeros, Values
  <2> HIDE DEF left, right, S
  <2> QED
    BY <1>1, <2>1, <2>2, <2>3, FunctionIsSeq
<1> HIDE DEF left, right, S
<1>4. /\ earlier \in Seq(S) /\ Len(earlier) = History + (n - 1)
      /\ \A i \in 1 .. History : earlier[i] = Zero
      /\ \A i \in History + 1 .. History + (n - 1) : earlier[i] = Rounded(Given(c, i - History))
  <2>1. /\ earlier \in Seq(S) /\ Len(earlier) = Len(left) + Len(right)
        /\ \A i \in 1 .. Len(left) + Len(right) :
             earlier[i] = IF i <= Len(left) THEN left[i] ELSE right[i - Len(left)]
    BY <1>3, ConcatProperties
  <2> HIDE DEF earlier
  <2>2. \A i \in 1 .. History : earlier[i] = Zero
    BY <1>1, <1>3, <2>1
  <2>3. ASSUME NEW i \in History + 1 .. History + (n - 1)
        PROVE  earlier[i] = Rounded(Given(c, i - History))
    <3>1. i \in 1 .. Len(left) + Len(right) /\ ~(i <= Len(left)) /\ i - History \in 1 .. n - 1
      BY <1>1, <1>3
    <3> QED
      BY <1>3, <2>1, <3>1
  <2> QED
    BY <1>3, <2>1, <2>2, <2>3
<1> HIDE DEF earlier
<1>5. /\ Len(recent) = History
      /\ \A k \in 1 .. History : recent[k] = earlier[n + k - 1]
      /\ recent \in Seq(S)
  <2>1. /\ n \in Int /\ n + History - 1 \in Int
        /\ \A i \in n .. n + History - 1 : earlier[i] \in S
    BY <1>1, <1>4, ElementOfSeq
  <2>2. /\ recent \in Seq(S)
        /\ Len(recent) = IF n <= n + History - 1 THEN (n + History - 1) - n + 1 ELSE 0
        /\ \A i \in 1 .. (n + History - 1) - n + 1 : recent[i] = earlier[n + i - 1]
    BY <2>1, SubSeqProperties
  <2> HIDE DEF recent
  <2>3. (n + History - 1) - n + 1 = History
    BY <1>1
  <2>4. Len(recent) = History
    BY <1>1, <2>2
  <2> QED
    BY <2>2, <2>3, <2>4
<1> HIDE DEF recent, n
<1>6. /\ RecentAfter(c, n - 1) \in Seq(S) /\ Len(RecentAfter(c, n - 1)) = History
      /\ \A k \in 1 .. History :
           RecentAfter(c, n - 1)[k] = IF n - 1 - History + k >= 1
                                      THEN Rounded(Given(c, n - 1 - History + k)) ELSE Zero
  BY <1>1, RecentIsSeq DEF S
<1>7. \A k \in 1 .. History : recent[k] = RecentAfter(c, n - 1)[k]
  <2> SUFFICES ASSUME NEW k \in 1 .. History PROVE recent[k] = RecentAfter(c, n - 1)[k]
    OBVIOUS
  <2>1. CASE n - 1 - History + k >= 1
    <3>1. n + k - 1 \in History + 1 .. History + (n - 1) /\ n + k - 1 - History = n - 1 - History + k
      BY <1>1, <2>1
    <3>2. earlier[n + k - 1] = Rounded(Given(c, (n + k - 1) - History))
      BY <1>4, <3>1
    <3>3. (n + k - 1) - History = n - 1 - History + k
      BY <1>1
    <3> QED
      BY <1>5, <1>6, <2>1, <3>2, <3>3
  <2>2. CASE ~(n - 1 - History + k >= 1)
    <3>1. n + k - 1 \in 1 .. History
      BY <1>1, <2>2
    <3> QED
      BY <1>4, <1>5, <1>6, <2>2, <3>1
  <2> QED
    BY <2>1, <2>2
<1>8. recent = RecentAfter(c, n - 1)
  BY <1>1, <1>5, <1>6, <1>7, SeqEqual
<1> QED
  BY <1>1, <1>2, <1>8 DEF Recent, recent, earlier, left, right, n

LEMMA ConvBegins == ConvInit => ConvInvariant
<1> SUFFICES ASSUME ConvInit PROVE ConvInvariant
  OBVIOUS
<1>1. Channels \in Nat \ {0} /\ channel = 0 /\ calls = 0
  BY ConvAssumption DEF ConvInit
<1>2. given = [c \in 1 .. Channels |-> [i \in 1 .. calls |-> Given(c, i)]]
  <2>1. << >> = [i \in 1 .. 0 |-> Given(0, i)] 
    OBVIOUS
  <2>2. \A c \in 1 .. Channels : << >> = [i \in 1 .. 0 |-> Given(c, i)]
    OBVIOUS
  <2> QED
    BY <1>1, <2>2 DEF ConvInit
<1>3. ASSUME Kernel >= 1, NEW c \in 1 .. Channels
      PROVE  KeepsRecent(c)
  <2>1. History \in Nat
    BY <1>3, ConvAssumption DEF History
  <2>2. \A k \in 1 .. History : ~(0 - History + k >= 1)
    BY <2>1
  <2>3. RecentAfter(c, 0) = Zeros(History)
    BY <2>2 DEF RecentAfter, Zeros
  <2> QED
    BY <1>1, <2>3 DEF KeepsRecent, Waiting, ConvInit
<1> QED
  BY <1>1, <1>2, <1>3 DEF ConvInvariant, ConvInit

(* A call that is not refused lays out its inputs; every channel waits. *)
LEMMA CallKeeps ==
  ASSUME ConvInvariant, Call
  PROVE  ConvInvariant'
<1> DEFINE n == calls
<1>1. Channels \in Nat \ {0} /\ channel = 0 /\ n \in Nat /\ mem' = mem
  BY ConvAssumption DEF ConvInvariant, Call
<1>2. PICK left \in Places, right \in Places :
        IF Refused(left, right)
        THEN failed' = TRUE /\ UNCHANGED <<array, input, output, channel, calls, given>>
        ELSE /\ input' = left /\ output' = right /\ channel' = 1 /\ calls' = n + 1
             /\ array' = [i \in left + 1 .. left + Channels |-> Given(i - left, n + 1)]
             /\ given' = [c \in 1 .. Channels |-> Append(given[c], Given(c, n + 1))]
             /\ UNCHANGED failed
  BY DEF Call
<1>3. CASE Refused(left, right)
  <2>1. UNCHANGED <<array, input, output, channel, calls, given, mem>>
    BY <1>1, <1>2, <1>3
  <2> QED
    BY <2>1 DEF ConvInvariant, CellsInvariant, KeepsRecent, Waiting
<1>4. CASE ~Refused(left, right)
  <2>1. /\ input' = left /\ output' = right /\ channel' = 1 /\ calls' = n + 1
        /\ array' = [i \in left + 1 .. left + Channels |-> Given(i - left, n + 1)]
        /\ given' = [c \in 1 .. Channels |-> Append(given[c], Given(c, n + 1))]
    BY <1>2, <1>4
  <2>2. Kernel >= 1 /\ ~(Kernel < 1) /\ left \in Nat /\ right \in Nat
    BY <1>4, ConvAssumption DEF Refused
  <2>3. \A c \in 1 .. Channels : c >= 1
    BY <1>1
  <2>4. ASSUME NEW c \in 1 .. Channels
        PROVE  Append(given[c], Given(c, n + 1)) = [i \in 1 .. n + 1 |-> Given(c, i)]
    <3> DEFINE S == {Given(c, i) : i \in Nat}
               old == [i \in 1 .. n |-> Given(c, i)]
               new == [i \in 1 .. n + 1 |-> Given(c, i)]
    <3>1. given[c] = old
      BY DEF ConvInvariant
    <3>2. 1 .. n \subseteq Nat /\ 1 .. n + 1 \subseteq Nat /\ n + 1 \in Nat
      BY <1>1
    <3>3. old \in [1 .. n -> S] /\ new \in [1 .. n + 1 -> S] /\ Given(c, n + 1) \in S
      BY <3>2
    <3>4. \A i \in 1 .. n : old[i] = Given(c, i)
      OBVIOUS
    <3>5. \A i \in 1 .. n + 1 : new[i] = Given(c, i)
      OBVIOUS
    <3> HIDE DEF n, S, old, new
    <3>6. old \in Seq(S) /\ Len(old) = n /\ new \in Seq(S) /\ Len(new) = n + 1
      BY <1>1, <3>2, <3>3, FunctionIsSeq
    <3>7. /\ Append(old, Given(c, n + 1)) \in Seq(S) /\ Len(Append(old, Given(c, n + 1))) = n + 1
          /\ \A i \in 1 .. n : Append(old, Given(c, n + 1))[i] = old[i]
          /\ Append(old, Given(c, n + 1))[n + 1] = Given(c, n + 1)
      BY <3>3, <3>6, AppendProperties
    <3>8. 1 .. n + 1 = (1 .. n) \cup {n + 1}
      BY <1>1
    <3>9. \A i \in 1 .. n + 1 : Append(old, Given(c, n + 1))[i] = new[i]
      BY <3>4, <3>5, <3>7, <3>8
    <3>10. Append(old, Given(c, n + 1)) = new
      BY <3>6, <3>7, <3>9, SeqEqual
    <3> QED
      BY <3>1, <3>10 DEF new
  <2>5. given' = [c \in 1 .. Channels |-> [i \in 1 .. calls' |-> Given(c, i)]]
    BY <2>1, <2>4
  <2>6. \A c \in 1 .. Channels : Waiting(c)' /\ ~Waiting(c) /\ calls' - 1 = calls
    BY <1>1, <2>1, <2>3 DEF Waiting
  <2>7. \A c \in 1 .. Channels : KeepsRecent(c)'
    <3> SUFFICES ASSUME NEW c \in 1 .. Channels PROVE KeepsRecent(c)'
      OBVIOUS
    <3>1. mem[c] = RecentAfter(c, calls)
      BY <2>2, <2>6 DEF ConvInvariant, KeepsRecent
    <3> QED
      BY <1>1, <2>6, <3>1 DEF KeepsRecent
  <2>8. CellsInvariant'
    <3>1. \A c \in 1 .. Channels : left + c \in DOMAIN array' /\ array'[left + c] = Given(c, calls')
      <4> SUFFICES ASSUME NEW c \in 1 .. Channels
                   PROVE  left + c \in DOMAIN array' /\ array'[left + c] = Given(c, calls')
        OBVIOUS
      <4>1. left + c \in left + 1 .. left + Channels /\ (left + c) - left = c
        BY <1>1, <2>2
      <4> QED
        BY <2>1, <4>1
    <3>2. ~Refused(input', output')
      BY <1>4, <2>1
    <3> QED
      BY <2>1, <2>2, <2>6, <3>1, <3>2 DEF CellsInvariant, Refused, Apart
  <2>9. channel' \in 0 .. Channels /\ calls' \in Nat /\ calls' # 0
    BY <1>1, <2>1
  <2>10. DOMAIN mem' = 1 .. Channels /\ mem' = [c \in 1 .. Channels |-> mem'[c]]
    BY <1>1, <2>2 DEF ConvInvariant
  <2> QED
    BY <2>2, <2>5, <2>7, <2>8, <2>9, <2>10 DEF ConvInvariant
<1> QED
  BY <1>3, <1>4

(* The stretches are equal or apart: an output goes over the channel's own *)
(* input, which has been read, or over no input at all; and outputs go to  *)
(* cells of their own.                                                     *)
LEMMA OutputSparesInputs ==
  ASSUME ConvInvariant, CellsInvariant, channel \in 1 .. Channels, 
         NEW c \in 1 .. Channels, c # channel
  PROVE  /\ output + c # output + channel
         /\ Waiting(c) => input + c # output + channel
<1>1. /\ input \in Nat /\ output \in Nat /\ Channels \in Nat /\ channel \in Nat /\ c \in Nat
      /\ input # output => input >= output + Channels \/ output >= input + Channels
  BY ConvAssumption DEF CellsInvariant, Refused, Apart
<1>2. c <= Channels /\ channel <= Channels /\ 1 <= c /\ 1 <= channel
  BY <1>1
<1> QED
  BY <1>1, <1>2

LEMMA ConvolveKeeps ==
  ASSUME ConvInvariant, Convolve
  PROVE  ConvInvariant'
<1> DEFINE n == calls
           raw == array[input + channel]
           cell == output + channel
<1>1. /\ Channels \in Nat \ {0} /\ channel \in 1 .. Channels /\ channel # 0
      /\ n \in Nat \ {0} /\ Kernel >= 1 /\ CellsInvariant
      /\ History \in Nat
      /\ input \in Nat /\ output \in Nat
  BY ConvAssumption DEF ConvInvariant, CellsInvariant, Convolve, History
<1>2. /\ array' = [i \in DOMAIN array \cup {cell} |->
                     IF i = cell THEN Product(Append(mem[channel], raw)) ELSE array[i]]
      /\ mem' = IF History <= 0 THEN mem ELSE [mem EXCEPT ![channel] = Kept(channel, raw)]
      /\ channel' = IF channel = Channels THEN 0 ELSE channel + 1
      /\ input' = input /\ output' = output /\ calls' = calls /\ given' = given
  BY DEF Convolve
<1>3. \A c \in 1 .. Channels : Waiting(c)' <=> c > channel
  BY <1>1, <1>2 DEF Waiting
<1>4. \A c \in 1 .. Channels : Waiting(c) <=> c >= channel
  BY <1>1 DEF Waiting
<1>5. raw = Given(channel, n) /\ mem[channel] = RecentAfter(channel, n - 1)
  <2>1. Waiting(channel)
    BY <1>1, <1>4
  <2> QED
    BY <1>1, <2>1 DEF CellsInvariant, ConvInvariant, KeepsRecent
<1>6. /\ DOMAIN array' = DOMAIN array \cup {cell}
      /\ array'[cell] = Product(Append(RecentAfter(channel, n - 1), Given(channel, n)))
      /\ \A i \in DOMAIN array : i # cell => array'[i] = array[i]
  BY <1>2, <1>5
<1>7. /\ DOMAIN mem = 1 .. Channels /\ mem = [c \in 1 .. Channels |-> mem[c]]
      /\ \A c \in 1 .. Channels : KeepsRecent(c)
  BY <1>1 DEF ConvInvariant
<1>8. mem'[channel] = RecentAfter(channel, n)
  <2>1. CASE History > 0
    <3>1. mem'[channel] = Append(Tail(RecentAfter(channel, n - 1)), Rounded(Given(channel, n)))
      BY <1>1, <1>2, <1>5, <1>7, <2>1 DEF Kept
    <3> QED
      BY <1>1, <2>1, <3>1, HistoryMoves
  <2>2. CASE History = 0
    <3>1. mem' = mem
      BY <1>2, <2>2
    <3>2. RecentAfter(channel, n - 1) = RecentAfter(channel, n)
      BY <2>2 DEF RecentAfter
    <3> QED
      BY <1>5, <3>1, <3>2
  <2> QED
    BY <1>1, <2>1, <2>2
<1>9. /\ DOMAIN mem' = 1 .. Channels /\ mem' = [c \in 1 .. Channels |-> mem'[c]]
      /\ \A c \in 1 .. Channels : c # channel => mem'[c] = mem[c]
  BY <1>2, <1>7
<1> HIDE DEF n, raw, cell
<1>10. ASSUME NEW c \in 1 .. Channels
       PROVE  KeepsRecent(c)'
  <2>1. CASE c = channel
    <3>1. ~Waiting(c)'
      BY <1>1, <1>3, <2>1
    <3> QED
      BY <1>2, <1>8, <2>1, <3>1 DEF KeepsRecent, n
  <2>2. CASE c # channel
    <3>0. c > channel <=> c >= channel
      BY <1>1, <2>2
    <3>1. Waiting(c)' <=> Waiting(c)
      BY <1>3, <1>4, <3>0
    <3>2. mem'[c] = mem[c] /\ mem[c] = RecentAfter(c, IF Waiting(c) THEN calls - 1 ELSE calls)
      BY <1>7, <1>9, <2>2 DEF KeepsRecent
    <3> QED
      BY <1>2, <3>1, <3>2 DEF KeepsRecent
  <2> QED
    BY <2>1, <2>2
<1>11. ASSUME NEW c \in 1 .. Channels
       PROVE  IF Waiting(c)'
              THEN input + c \in DOMAIN array' /\ array'[input + c] = Given(c, n)
              ELSE /\ output + c \in DOMAIN array'
                   /\ array'[output + c] = Product(Append(RecentAfter(c, n - 1), Given(c, n)))
  <2>1. CASE c = channel
    <3>1. ~Waiting(c)' /\ output + c = cell
      BY <1>1, <1>3, <2>1 DEF cell
    <3> QED
      BY <1>6, <2>1, <3>1
  <2>2. CASE c # channel /\ Waiting(c)
    <3>1. Waiting(c)' /\ input + c # cell
      BY <1>1, <1>3, <1>4, <2>2, OutputSparesInputs DEF cell
    <3>2. input + c \in DOMAIN array /\ array[input + c] = Given(c, n)
      BY <1>1, <2>2 DEF CellsInvariant, n
    <3> QED
      BY <1>6, <3>1, <3>2
  <2>3. CASE c # channel /\ ~Waiting(c)
    <3>1. ~Waiting(c)'
      BY <1>1, <1>3, <1>4, <2>3
    <3>2. output + c # cell
      BY <1>1, <2>3, OutputSparesInputs DEF cell
    <3>3. /\ output + c \in DOMAIN array
          /\ array[output + c] = Product(Append(RecentAfter(c, n - 1), Given(c, n)))
      BY <1>1, <2>3 DEF CellsInvariant, n
    <3> QED
      BY <1>6, <3>1, <3>2, <3>3
  <2> QED
    BY <2>1, <2>2, <2>3
<1>12. CellsInvariant'
  <2>1. ~Refused(input, output)'
    BY <1>1, <1>2 DEF CellsInvariant, Refused, Apart
  <2> QED
    BY <1>1, <1>2, <1>11, <2>1 DEF CellsInvariant, n
<1>13. channel' \in 0 .. Channels /\ calls' \in Nat /\ calls' # 0
  BY <1>1, <1>2 DEF n
<1>14. given' = [c \in 1 .. Channels |-> [i \in 1 .. calls' |-> Given(c, i)]]
  BY <1>2 DEF ConvInvariant
<1> QED
  BY <1>1, <1>9, <1>10, <1>12, <1>13, <1>14 DEF ConvInvariant

LEMMA ConvKeeps ==
  ASSUME ConvInvariant, [ConvNext]_convVars
  PROVE  ConvInvariant'
<1>1. CASE UNCHANGED convVars
  BY <1>1 DEF convVars, ConvInvariant, CellsInvariant, KeepsRecent, Waiting
<1> QED
  BY <1>1, CallKeeps, ConvolveKeeps DEF ConvNext, ConvRest

(* For any number of channels, kernel size, stretches and calls, an output *)
(* is the product of the channel's own inputs of the last Kernel calls     *)
(* (text_forward.cpp:1484-1509).                                           *)
THEOREM WindowsHoldTheirInputs == ConvSpec => []OutputsSeeTheRecentInputs
<1>1. ConvSpec => []ConvInvariant
  BY ConvBegins, ConvKeeps, PTL DEF ConvSpec
<1>2. ConvInvariant => OutputsSeeTheRecentInputs
  <2> SUFFICES ASSUME ConvInvariant, channel = 0, calls > 0, NEW c \in 1 .. Channels
               PROVE  array[output + c] = Product(Append(Recent(c), given[c][calls]))
    BY DEF OutputsSeeTheRecentInputs
  <2>1. array[output + c] = Product(Append(RecentAfter(c, calls - 1), Given(c, calls)))
    BY DEF ConvInvariant, CellsInvariant, Waiting
  <2> QED
    BY <2>1, RecentIs
<1> QED
  BY <1>1, <1>2, PTL

-----------------------------------------------------------------------------
(* The selections.  `best' is the first of the largest scores before the   *)
(* scan's next id among the unused; of all ids, whether or not NaN is      *)
(* among the scores, it is the one that argmax would hold: NaN in the      *)
(* first place is never replaced and elsewhere never chosen.               *)
Leads(a, n) ==
  /\ a \in 1 .. n - 1
  /\ IF scores[1] = NaN THEN a = 1
     ELSE /\ scores[a] # NaN
          /\ \A id \in 1 .. n - 1 : id = a \/ scores[id] = NaN \/ Before(a, id)

(* Of numbers, `a' is best among the unused before id n. *)
LeadsUnused(a, n) ==
  /\ a = 0 => 1 .. n - 1 \subseteq Used
  /\ a # 0 => a \in (1 .. n - 1) \ Used
  /\ Numbers /\ a # 0 => \A id \in (1 .. n - 1) \ Used : id = a \/ Before(a, id)

PicksInvariant ==
  /\ picks \in Seq(Ids) /\ Len(picks) <= Top
  /\ \A i, j \in 1 .. Len(picks) : picks[i] = picks[j] => i = j
  /\ Numbers => \A i \in 1 .. Len(picks) : \A id \in Ids \ {picks[j] : j \in 1 .. i} :
                  Before(picks[i], id)
  /\ picks # << >> => Leads(picks[1], Count + 1)

ScanInvariant ==
  /\ nextId \in 1 .. Count + 1
  /\ LeadsUnused(best, nextId)
  /\ picks = << >> => (best = 0 /\ nextId = 1) \/ Leads(best, nextId)

TopInvariant ==
  /\ nextRow \in 2 .. Count + 1
  /\ Leads(top.best, nextRow)
  /\ top.value \in Int
  /\ top = [best |-> top.best, second |-> top.second, value |-> top.value]
  /\ Numbers /\ nextRow = 2 => top.value = Floor
  /\ Numbers /\ nextRow > 2 =>
       /\ top.second \in 1 .. nextRow - 1 /\ top.second # top.best
       /\ top.value = scores[top.second]
       /\ \A id \in 1 .. nextRow - 1 : id \in {top.best, top.second} \/ Before(top.second, id)

SelectionInvariant ==
  /\ scores \in [Ids -> Levels \cup {NaN}]
  /\ PicksInvariant /\ ScanInvariant /\ TopInvariant

-----------------------------------------------------------------------------
LEMMA ScoresAreIntegers ==
  ASSUME scores \in [Ids -> Levels \cup {NaN}]
  PROVE  /\ Count \in Nat \ {0} /\ Top \in 1 .. Count
         /\ Floor \in Int
         /\ \A id \in Ids : scores[id] \in Int
         /\ \A id \in Ids : scores[id] # NaN => scores[id] > Floor
<1>1. NaN \in Int /\ Floor \in Int
  BY SelectionAssumption DEF NaN
<1>2. \A id \in Ids : scores[id] \in Levels \cup {NaN}
  OBVIOUS
<1> QED
  BY <1>1, <1>2, SelectionAssumption

(* Of two leaders of the same ids each would come before the other. *)
LEMMA OneLeads ==
  ASSUME scores \in [Ids -> Levels \cup {NaN}], NEW n \in 2 .. Count + 1,
         NEW a, NEW b, Leads(a, n), Leads(b, n)
  PROVE  a = b
<1>1. a \in Ids /\ b \in Ids
  BY ScoresAreIntegers DEF Leads, Ids
<1>2. CASE scores[1] = NaN
  BY <1>2 DEF Leads
<1>3. CASE scores[1] # NaN /\ a # b
  BY <1>1, <1>3, ScoresAreIntegers DEF Leads, Before
<1> QED
  BY <1>2, <1>3

(* The next id against the one held, in both scans. *)
LEMMA LeadsNext ==
  ASSUME scores \in [Ids -> Levels \cup {NaN}], NEW n \in 2 .. Count,
         NEW a, Leads(a, n)
  PROVE  Leads(IF Greater(scores[n], scores[a]) THEN n ELSE a, n + 1)
<1>1. a \in Ids /\ n \in Ids /\ 1 \in Ids /\ n # a /\ 1 .. (n + 1) - 1 = (1 .. n - 1) \cup {n}
  BY ScoresAreIntegers DEF Leads, Ids
<1>2. CASE scores[1] = NaN
  BY <1>1, <1>2 DEF Leads, Greater
<1>3. CASE scores[1] # NaN /\ Greater(scores[n], scores[a])
  <2>1. scores[n] # NaN /\ scores[a] # NaN /\ scores[n] > scores[a]
    BY <1>3 DEF Greater
  <2>2. ASSUME NEW id \in 1 .. (n + 1) - 1
        PROVE  id = n \/ scores[id] = NaN \/ Before(n, id)
    BY <1>1, <1>3, <2>1, ScoresAreIntegers DEF Leads, Before, Ids
  <2> QED
    BY <1>1, <1>3, <2>1, <2>2 DEF Leads
<1>4. CASE scores[1] # NaN /\ ~Greater(scores[n], scores[a])
  <2>1. scores[a] # NaN /\ (scores[n] = NaN \/ scores[n] <= scores[a])
    BY <1>1, <1>4, ScoresAreIntegers DEF Leads, Greater
  <2>2. ASSUME NEW id \in 1 .. (n + 1) - 1
        PROVE  id = a \/ scores[id] = NaN \/ Before(a, id)
    <3>1. CASE id = n
      BY <1>1, <2>1, <3>1, ScoresAreIntegers DEF Leads, Before
    <3>2. CASE id # n
      BY <1>1, <1>4, <3>2 DEF Leads
    <3> QED
      BY <3>1, <3>2
  <2> QED
    BY <1>1, <1>4, <2>1, <2>2 DEF Leads
<1> QED
  BY <1>2, <1>3, <1>4

LEMMA SelectionBegins == SelectionInit => SelectionInvariant
<1> SUFFICES ASSUME SelectionInit PROVE SelectionInvariant
  OBVIOUS
<1>1. scores \in [Ids -> Levels \cup {NaN}]
  BY DEF SelectionInit
<1>2. 1 \in Ids /\ 1 .. 2 - 1 = {1} /\ 1 .. 1 - 1 = {}
  BY <1>1, ScoresAreIntegers DEF Ids
<1>3. PicksInvariant
  <2>1. << >> \in Seq(Ids) /\ Len(<< >>) = 0 /\ 1 .. Len(<< >>) = {}
    BY EmptySeq
  <2>2. 0 <= Top
    BY <1>1, ScoresAreIntegers
  <2> QED
    BY <2>1, <2>2 DEF SelectionInit, PicksInvariant
<1>4. ScanInvariant
  BY <1>1, <1>2, ScoresAreIntegers DEF SelectionInit, ScanInvariant, LeadsUnused
<1>5. Leads(1, 2)
  BY <1>2 DEF Leads
<1>6. TopInvariant
  BY <1>1, <1>5, ScoresAreIntegers DEF SelectionInit, TopInvariant
<1> QED
  BY <1>1, <1>3, <1>4, <1>6 DEF SelectionInvariant

(* The used ids are those of the picks made. *)
LEMMA UsedAre ==
  ASSUME picks \in Seq(Ids)
  PROVE  /\ Used \subseteq Ids /\ Len(picks) \in Nat
         /\ DOMAIN picks = 1 .. Len(picks)
         /\ Used = {picks[i] : i \in 1 .. Len(picks)}
<1>1. Len(picks) \in Nat /\ DOMAIN picks = 1 .. Len(picks) /\ \A i \in 1 .. Len(picks) : picks[i] \in Ids
  BY LenProperties, ElementOfSeq
<1> QED
  BY <1>1 DEF Used

LEMMA LookKeeps ==
  ASSUME SelectionInvariant, Look
  PROVE  SelectionInvariant'
<1>1. scores \in [Ids -> Levels \cup {NaN}] /\ PicksInvariant /\ ScanInvariant /\ TopInvariant
  BY DEF SelectionInvariant
<1>2. /\ scores' = scores /\ picks' = picks /\ nextRow' = nextRow /\ top' = top
      /\ nextId <= Count /\ nextId' = nextId + 1
      /\ best' = IF nextId \notin Used /\ Better(best, nextId) THEN nextId ELSE best
  BY DEF Look
<1>3. PicksInvariant' /\ TopInvariant'
  BY <1>1, <1>2 DEF PicksInvariant, TopInvariant, Leads, Before, Numbers
<1>4. Used' = Used /\ Numbers' = Numbers
  BY <1>2 DEF Used, Numbers
<1>5. nextId \in Ids /\ nextId' \in 1 .. Count + 1
      /\ 1 .. (nextId + 1) - 1 = (1 .. nextId - 1) \cup {nextId}
      /\ nextId \notin 1 .. nextId - 1 /\ nextId # 0
      /\ 1 .. nextId - 1 \subseteq Ids /\ 1 .. nextId \subseteq Ids
  BY <1>1, <1>2, ScoresAreIntegers DEF ScanInvariant, Ids
<1>6. LeadsUnused(best, nextId)' 
  <2> SUFFICES LeadsUnused(best', nextId + 1)
    BY <1>2, <1>4 DEF LeadsUnused, Before
  <2>0. LeadsUnused(best, nextId)
    BY <1>1 DEF ScanInvariant
  <2>1. CASE nextId \in Used
    BY <1>2, <1>5, <2>0, <2>1 DEF LeadsUnused
  <2>2. CASE nextId \notin Used /\ best = 0
    BY <1>2, <1>5, <2>0, <2>2 DEF LeadsUnused, Better
  <2>3. CASE nextId \notin Used /\ best # 0 /\ Greater(scores[nextId], scores[best])
    <3>1. best' = nextId
      BY <1>2, <2>3 DEF Better
    <3>2. scores[nextId] > scores[best] /\ best \in Ids
      BY <1>5, <2>0, <2>3 DEF Greater, LeadsUnused
    <3>3. ASSUME Numbers, NEW id \in (1 .. (nextId + 1) - 1) \ Used, id # nextId
          PROVE  Before(nextId, id)
      <4>1. id \in (1 .. nextId - 1) \ Used /\ id \in Ids
        BY <1>5, <3>3
      <4>2. id = best \/ Before(best, id)
        BY <2>0, <2>3, <3>3, <4>1 DEF LeadsUnused
      <4> QED
        BY <1>1, <1>5, <3>2, <4>1, <4>2, ScoresAreIntegers DEF Before
    <3> QED
      BY <1>5, <2>3, <3>1, <3>3 DEF LeadsUnused
  <2>4. CASE nextId \notin Used /\ best # 0 /\ ~Greater(scores[nextId], scores[best])
    <3>1. best' = best /\ best \in (1 .. nextId - 1) \ Used
      BY <1>2, <2>0, <2>4 DEF Better, LeadsUnused
    <3>2. Numbers => scores[nextId] <= scores[best] /\ best < nextId
      <4>1. best \in Ids /\ best < nextId
        BY <1>5, <3>1
      <4> QED
        BY <1>1, <1>5, <2>4, <4>1, ScoresAreIntegers DEF Numbers, Greater
    <3>3. ASSUME Numbers, NEW id \in (1 .. (nextId + 1) - 1) \ Used
          PROVE  id = best \/ Before(best, id)
      <4>1. CASE id = nextId
        BY <1>1, <1>5, <3>1, <3>2, <3>3, <4>1, ScoresAreIntegers DEF Before
      <4>2. CASE id # nextId
        BY <1>5, <2>0, <2>4, <3>3, <4>2 DEF LeadsUnused
      <4> QED
        BY <4>1, <4>2
    <3> QED
      BY <1>5, <2>4, <3>1, <3>3 DEF LeadsUnused
  <2> QED
    BY <2>1, <2>2, <2>3, <2>4
<1>7. ASSUME picks = << >>
      PROVE  Leads(best', nextId + 1)
  <2>1. Used = {}
    <3>1. Len(<< >>) = 0 /\ 1 .. Len(<< >>) = {}
      BY EmptySeq
    <3> QED
      BY <1>1, <1>7, <3>1, UsedAre DEF PicksInvariant
  <2>2. CASE nextId = 1
    <3>1. best = 0 
      BY <1>1, <2>2 DEF ScanInvariant, LeadsUnused
    <3>2. best' = 1
      BY <1>2, <2>1, <2>2, <3>1 DEF Better
    <3> QED
      BY <1>5, <2>2, <3>2 DEF Leads
  <2>3. CASE nextId # 1
    <3>1. Leads(best, nextId) /\ nextId \in 2 .. Count
      BY <1>1, <1>2, <1>7, <2>3, ScoresAreIntegers DEF ScanInvariant
    <3>2. best # 0
      BY <3>1 DEF Leads
    <3>3. best' = IF Greater(scores[nextId], scores[best]) THEN nextId ELSE best
      BY <1>2, <2>1, <3>2 DEF Better
    <3> QED
      BY <1>1, <3>1, <3>3, LeadsNext
  <2> QED
    BY <2>2, <2>3
<1>8. ScanInvariant'
  BY <1>2, <1>5, <1>6, <1>7 DEF ScanInvariant, Leads, Before
<1> QED
  BY <1>1, <1>2, <1>3, <1>8 DEF SelectionInvariant

LEMMA CountTo ==
  ASSUME NEW n \in Nat
  PROVE  IsFiniteSet(1 .. n) /\ Cardinality(1 .. n) = n
<1>1. IsFiniteSet(1 .. n)
  BY FS_Interval
<1>2. Cardinality(1 .. n) = IF 1 > n THEN 0 ELSE n - 1 + 1
  BY FS_Interval
<1>3. Cardinality(1 .. n) = n
  BY <1>2
<1> QED
  BY <1>1, <1>3

(* Fewer picks than ids leave one unused: the scan's end finds it. *)
LEMMA SomeUnused ==
  ASSUME picks \in Seq(Ids), Len(picks) < Count, Count \in Nat
  PROVE  ~(Ids \subseteq Used)
<1>1. /\ Used = {picks[i] : i \in 1 .. Len(picks)} /\ Len(picks) \in Nat
      /\ DOMAIN picks = 1 .. Len(picks) /\ picks \in [1 .. Len(picks) -> Used]
  <2>1. picks \in [1 .. Len(picks) -> Ids]
    BY LenProperties
  <2> QED
    BY <2>1, UsedAre
<1>2. picks \in Surjection(1 .. Len(picks), Used)
  BY <1>1 DEF Surjection
<1>3. IsFiniteSet(1 .. Len(picks)) /\ Cardinality(1 .. Len(picks)) = Len(picks)
  BY <1>1, CountTo
<1>4. IsFiniteSet(Used) /\ Cardinality(Used) <= Len(picks)
  BY <1>2, <1>3, FS_Surjection
<1>5. Cardinality(Ids) = Count
  BY FS_Interval DEF Ids
<1>6. Cardinality(Used) \in Nat
  BY <1>4, FS_CardinalityType
<1>7. Ids \subseteq Used => Count <= Cardinality(Used)
  BY <1>4, <1>5, FS_Subset
<1> QED
  BY <1>1, <1>4, <1>6, <1>7

LEMMA PickKeeps ==
  ASSUME SelectionInvariant, Pick
  PROVE  SelectionInvariant'
<1> DEFINE m == Len(picks)
<1>1. scores \in [Ids -> Levels \cup {NaN}] /\ PicksInvariant /\ ScanInvariant /\ TopInvariant
  BY DEF SelectionInvariant
<1>2. /\ scores' = scores /\ picks' = Append(picks, best) /\ nextRow' = nextRow /\ top' = top
      /\ m < Top /\ nextId > Count /\ best' = 0 /\ nextId' = 1
  BY DEF Pick
<1>3. /\ picks \in Seq(Ids) /\ m \in Nat /\ Used = {picks[i] : i \in 1 .. m}
      /\ \A i \in 1 .. m : picks[i] \in Ids
  BY <1>1, UsedAre, ElementOfSeq, LenProperties DEF PicksInvariant
<1>4. nextId = Count + 1 /\ 1 .. (Count + 1) - 1 = Ids /\ Count \in Nat /\ m < Count /\ 1 \in Ids
  <2>1. Count \in Nat \ {0} /\ Top <= Count /\ 1 \in Ids
    BY <1>1, ScoresAreIntegers DEF Ids
  <2>2. nextId \in 1 .. Count + 1
    BY <1>1 DEF ScanInvariant
  <2> QED
    BY <1>2, <1>3, <2>1, <2>2, SelectionAssumption DEF Ids
<1>5. best \in Ids \ Used
  <2>1. LeadsUnused(best, Count + 1)
    BY <1>1, <1>4 DEF ScanInvariant
  <2>2. best # 0
    BY <1>3, <1>4, <2>1, SomeUnused DEF LeadsUnused
  <2> QED
    BY <1>4, <2>1, <2>2 DEF LeadsUnused
<1>6. /\ picks' \in Seq(Ids) /\ Len(picks') = m + 1 /\ picks'[m + 1] = best
      /\ \A i \in 1 .. m : picks'[i] = picks[i]
  <2>1. best \in Ids
    BY <1>5
  <2> QED
    BY <1>2, <1>3, <2>1, AppendProperties
<1>7. Numbers' = Numbers /\ TopInvariant'
  BY <1>1, <1>2 DEF TopInvariant, Leads, Before, Numbers
<1> HIDE DEF m
<1>8. 1 .. m + 1 = (1 .. m) \cup {m + 1} /\ m + 1 \notin 1 .. m /\ m + 1 \in 1 .. m + 1
  BY <1>3
<1>9. PicksInvariant'
  <2>1. m + 1 <= Top
    BY <1>1, <1>2, <1>3, ScoresAreIntegers
  <2>2. ASSUME NEW i \in 1 .. m + 1, NEW j \in 1 .. m + 1, picks'[i] = picks'[j]
        PROVE  i = j
    <3>1. \A k \in 1 .. m : picks'[k] \in Used /\ picks'[k] # best
      BY <1>3, <1>5, <1>6
    <3>2. CASE i \in 1 .. m /\ j \in 1 .. m
      BY <1>1, <1>6, <2>2, <3>2 DEF PicksInvariant, m
    <3>3. CASE i = m + 1 \/ j = m + 1
      BY <1>6, <1>8, <2>2, <3>1, <3>3
    <3> QED
      BY <1>8, <3>2, <3>3
  <2>3. ASSUME Numbers, NEW i \in 1 .. m + 1, NEW id \in Ids \ {picks'[j] : j \in 1 .. i}
        PROVE  Before(picks'[i], id)
    <3>1. CASE i = m + 1
      <4>1. {picks'[j] : j \in 1 .. i} = Used \cup {best}
        BY <1>3, <1>6, <1>8, <3>1
      <4>2. id \in (1 .. (Count + 1) - 1) \ Used /\ id # best
        BY <1>4, <2>3, <4>1
      <4>3. LeadsUnused(best, Count + 1) /\ best # 0
        BY <1>1, <1>4, <1>5 DEF ScanInvariant, Ids
      <4>4. Before(best, id)
        BY <2>3, <4>2, <4>3 DEF LeadsUnused
      <4> QED
        BY <1>6, <3>1, <4>4
    <3>2. CASE i # m + 1
      <4>1. i \in 1 .. m /\ 1 .. i \subseteq 1 .. m
        BY <1>3, <1>8, <3>2
      <4>2. {picks'[j] : j \in 1 .. i} = {picks[j] : j \in 1 .. i}
        BY <1>6, <4>1
      <4>3. Before(picks[i], id)
        BY <1>1, <2>3, <4>1, <4>2 DEF PicksInvariant, m
      <4> QED
        BY <1>6, <4>1, <4>3
    <3> QED
      BY <3>1, <3>2
  <2>4. Leads(picks'[1], Count + 1)
    <3>1. CASE m = 0
      <4>1. picks = << >> /\ nextId # 1
        BY <1>3, <1>4, <3>1, EmptySeq DEF m
      <4>2. Leads(best, Count + 1)
        BY <1>1, <1>4, <4>1 DEF ScanInvariant
      <4> QED
        BY <1>6, <3>1, <4>2
    <3>2. CASE m # 0
      <4>1. 1 \in 1 .. m /\ picks # << >>
        BY <1>3, <3>2, EmptySeq DEF m
      <4>2. Leads(picks[1], Count + 1)
        BY <1>1, <4>1 DEF PicksInvariant
      <4> QED
        BY <1>6, <4>1, <4>2
    <3> QED
      BY <3>1, <3>2
  <2>5. Leads(picks[1], Count + 1)'
    BY <1>2, <2>4 DEF Leads, Before
  <2>6. \A i \in 1 .. m + 1 : \A id \in Ids \ {picks'[j] : j \in 1 .. i} : 
          Numbers => Before(picks'[i], id)
    BY <2>3
  <2>7. Numbers' => (\A i \in 1 .. Len(picks) : \A id \in Ids \ {picks[j] : j \in 1 .. i} :
                       Before(picks[i], id))'
    BY <1>2, <1>6, <1>7, <2>6 DEF Before
  <2>8. (\A i, j \in 1 .. Len(picks) : picks[i] = picks[j] => i = j)'
    BY <1>6, <2>2
  <2>9. picks' \in Seq(Ids) /\ Len(picks') <= Top
    BY <1>6, <2>1
  <2> QED
    BY <2>5, <2>7, <2>8, <2>9 DEF PicksInvariant
<1>10. ScanInvariant'
  <2>1. picks' # << >>
    BY <1>3, <1>6, EmptySeq
  <2>2. 1 .. 1 - 1 = {}
    OBVIOUS
  <2> QED
    BY <1>2, <1>4, <2>1, <2>2 DEF ScanInvariant, LeadsUnused, Ids
<1> QED
  BY <1>1, <1>2, <1>7, <1>9, <1>10 DEF SelectionInvariant

(* A row that beats the best makes it the second; one that beats only the  *)
(* second takes its place.                                                 *)
LEMMA ScanRowKeeps ==
  ASSUME SelectionInvariant, ScanRow
  PROVE  SelectionInvariant'
<1> DEFINE n == nextRow
<1>1. scores \in [Ids -> Levels \cup {NaN}] /\ PicksInvariant /\ ScanInvariant /\ TopInvariant
  BY DEF SelectionInvariant
<1>2. /\ scores' = scores /\ picks' = picks /\ nextId' = nextId /\ best' = best
      /\ n <= Count /\ nextRow' = n + 1 /\ top' = TopAfter(n)
  BY DEF ScanRow
<1>3. PicksInvariant' /\ ScanInvariant'
  BY <1>1, <1>2 DEF PicksInvariant, ScanInvariant, LeadsUnused, Used, Leads, Before, Numbers
<1>4. /\ n \in 2 .. Count /\ n + 1 \in 2 .. Count + 1
      /\ 1 .. (n + 1) - 1 = (1 .. n - 1) \cup {n} /\ n \notin 1 .. n - 1
      /\ n \in Ids /\ 1 .. n - 1 \subseteq Ids
  BY <1>1, <1>2, ScoresAreIntegers DEF TopInvariant, Ids
<1>5. /\ Leads(top.best, n) /\ top.value \in Int /\ top.best \in 1 .. n - 1
      /\ top = [best |-> top.best, second |-> top.second, value |-> top.value]
  BY <1>1 DEF TopInvariant, Leads
<1>6. /\ top'.best = IF Greater(scores[n], scores[top.best]) THEN n ELSE top.best
      /\ top'.value \in Int
      /\ top' = [best |-> top'.best, second |-> top'.second, value |-> top'.value]
  <2>1. CASE Greater(scores[n], scores[top.best])
    <3>1. top' = [best |-> n, second |-> top.best, value |-> scores[top.best]]
      BY <1>2, <2>1 DEF TopAfter
    <3>2. scores[top.best] \in Int
      BY <1>1, <1>4, <1>5, ScoresAreIntegers
    <3> QED
      BY <2>1, <3>1, <3>2
  <2>2. CASE ~Greater(scores[n], scores[top.best]) /\ Greater(scores[n], top.value)
    <3>1. top' = [best |-> top.best, second |-> n, value |-> scores[n]]
      BY <1>2, <1>5, <2>2 DEF TopAfter
    <3>2. scores[n] \in Int
      BY <1>1, <1>4, ScoresAreIntegers
    <3> QED
      BY <2>2, <3>1, <3>2
  <2>3. CASE ~Greater(scores[n], scores[top.best]) /\ ~Greater(scores[n], top.value)
    BY <1>2, <1>5, <2>3 DEF TopAfter
  <2> QED
    BY <2>1, <2>2, <2>3
<1> HIDE DEF n
<1>7. Leads(top'.best, n + 1)
  BY <1>1, <1>4, <1>5, <1>6, LeadsNext
<1>8. ASSUME Numbers
      PROVE  /\ top'.second \in 1 .. n /\ top'.second # top'.best
             /\ top'.value = scores[top'.second]
             /\ \A id \in 1 .. n : id \in {top'.best, top'.second} \/ Before(top'.second, id)
  <2>1. /\ \A id \in 1 .. n : scores[id] \in Int /\ scores[id] # NaN /\ scores[id] > Floor
        /\ 1 \in Ids /\ Floor \in Int /\ 1 .. n = (1 .. n - 1) \cup {n}
    BY <1>1, <1>4, <1>8, ScoresAreIntegers DEF Numbers
  <2>2. /\ scores[1] # NaN /\ n \in 1 .. n
        /\ \A id \in 1 .. n - 1 : id = top.best \/ Before(top.best, id)
    BY <1>4, <1>5, <1>8, <2>1 DEF Leads, Numbers
  <2>3. /\ n # 2 => /\ top.second \in 1 .. n - 1 /\ top.second # top.best
                    /\ top.value = scores[top.second]
                    /\ \A id \in 1 .. n - 1 :
                         id \in {top.best, top.second} \/ Before(top.second, id)
        /\ n = 2 => top.value = Floor
    BY <1>1, <1>4, <1>8 DEF TopInvariant, n
  <2>4. CASE scores[n] > scores[top.best]
    <3>1. top' = [best |-> n, second |-> top.best, value |-> scores[top.best]]
      BY <1>2, <1>5, <2>1, <2>4 DEF TopAfter, Greater, n
    <3>2. top'.best = n /\ top'.second = top.best /\ top'.value = scores[top.best]
      BY <3>1
    <3> QED
      BY <1>4, <1>5, <2>1, <2>2, <3>2
  <2>5. CASE ~(scores[n] > scores[top.best]) /\ scores[n] > top.value
    <3>1. top.value # NaN
      <4>1. CASE n = 2
        BY <2>1, <2>3, <4>1 DEF NaN
      <4>2. CASE n # 2
        BY <2>1, <2>3, <4>2
      <4> QED
        BY <4>1, <4>2
    <3>2. top' = [best |-> top.best, second |-> n, value |-> scores[n]]
      BY <1>2, <1>5, <2>1, <2>5, <3>1 DEF TopAfter, Greater, n
    <3>3. top'.best = top.best /\ top'.second = n /\ top'.value = scores[n]
      BY <3>2
    <3>4. ASSUME NEW id \in 1 .. n, id # top.best, id # n
          PROVE  Before(n, id)
      <4>1. n # 2 /\ id \in 1 .. n - 1
        BY <1>4, <1>5, <2>1, <3>4
      <4>2. id = top.second \/ Before(top.second, id)
        BY <2>3, <3>4, <4>1
      <4>3. scores[id] <= scores[top.second] /\ scores[n] > scores[top.second]
        BY <2>1, <2>3, <2>5, <4>1, <4>2 DEF Before
      <4> QED
        BY <2>1, <2>3, <4>1, <4>3 DEF Before
    <3> QED
      BY <1>4, <1>5, <2>2, <3>3, <3>4
  <2>6. CASE ~(scores[n] > scores[top.best]) /\ ~(scores[n] > top.value)
    <3>1. top' = top
      BY <1>2, <2>6 DEF TopAfter, Greater, n
    <3>2. n # 2
      BY <2>1, <2>2, <2>3, <2>6
    <3>3. Before(top.second, n)
      <4>1. scores[n] <= scores[top.second] /\ top.second < n
        BY <1>4, <2>1, <2>2, <2>3, <2>6, <3>2
      <4> QED
        BY <2>1, <2>2, <2>3, <3>2, <4>1 DEF Before
    <3> QED
      BY <2>1, <2>3, <3>1, <3>2, <3>3
  <2> QED
    BY <2>4, <2>5, <2>6
<1>9. TopInvariant'
  <2>1. Leads(top.best, nextRow)'
    BY <1>2, <1>7 DEF Leads, Before
  <2>2. Numbers' = Numbers /\ nextRow' # 2 /\ nextRow' - 1 = n
    BY <1>2, <1>4 DEF Numbers, n
  <2>3. Numbers' =>
          /\ top'.second \in 1 .. nextRow' - 1 /\ top'.second # top'.best
          /\ top'.value = scores'[top'.second]
          /\ \A id \in 1 .. nextRow' - 1 :
               id \in {top'.best, top'.second} \/ Before(top.second, id)'
    BY <1>2, <1>8, <2>2 DEF Before
  <2>4. nextRow' \in 2 .. Count + 1
    BY <1>2, <1>4 DEF n
  <2> QED
    BY <1>6, <2>1, <2>2, <2>3, <2>4 DEF TopInvariant
<1> QED
  BY <1>1, <1>2, <1>3, <1>9 DEF SelectionInvariant

LEMMA SelectionKeeps ==
  ASSUME SelectionInvariant, [SelectionNext]_selectionVars
  PROVE  SelectionInvariant'
<1>1. CASE Look
  BY <1>1, LookKeeps
<1>2. CASE Pick
  BY <1>2, PickKeeps
<1>3. CASE ScanRow
  BY <1>3, ScanRowKeeps
<1>4. CASE UNCHANGED selectionVars
  BY <1>4 DEF selectionVars, SelectionInvariant, PicksInvariant, ScanInvariant, TopInvariant,
              LeadsUnused, Used, Leads, Before, Numbers
<1> QED
  BY <1>1, <1>2, <1>3, <1>4 DEF SelectionNext, SelectionRest

(* What the invariant says when the picks and argmax are compared. *)
LEMMA RankedByInvariant ==
  ASSUME SelectionInvariant
  PROVE  PicksAreRanked
<1>1. scores \in [Ids -> Levels \cup {NaN}] /\ PicksInvariant /\ TopInvariant
  BY DEF SelectionInvariant
<1>2. /\ picks \in Seq(Ids) /\ Len(picks) \in Nat /\ DOMAIN picks = 1 .. Len(picks)
      /\ Used \subseteq Ids /\ \A i \in 1 .. Len(picks) : picks[i] \in Ids
  BY <1>1, UsedAre, ElementOfSeq DEF PicksInvariant
<1>3. IsInjective(picks)
  BY <1>1, <1>2 DEF PicksInvariant, IsInjective
<1>4. ASSUME nextRow > Count, picks # << >>
      PROVE  top.best = picks[1] /\ nextRow = Count + 1
  <2>1. nextRow = Count + 1 /\ Count + 1 \in 2 .. Count + 1
    BY <1>1, <1>4, ScoresAreIntegers DEF TopInvariant
  <2>2. Leads(top.best, Count + 1) /\ Leads(picks[1], Count + 1)
    BY <1>1, <1>4, <2>1 DEF TopInvariant, PicksInvariant
  <2> QED
    BY <1>1, <2>1, <2>2, OneLeads
<1>5. ASSUME nextRow > Count, Numbers, Len(picks) >= 2
      PROVE  top.second = picks[2] /\ top.value = scores[picks[2]]
  <2>1. picks # << >> /\ 1 \in 1 .. Len(picks) /\ 2 \in 1 .. Len(picks) /\ picks[1] # picks[2]
    BY <1>1, <1>2, <1>5, EmptySeq DEF PicksInvariant
  <2>2. top.best = picks[1] /\ nextRow = Count + 1
    BY <1>4, <1>5, <2>1
  <2>3. nextRow > 2 /\ 1 .. nextRow - 1 = Ids
    BY <1>1, <1>2, <1>5, <2>2, ScoresAreIntegers DEF PicksInvariant, Ids
  <2>4. /\ top.second \in Ids /\ top.second # picks[1] /\ top.value = scores[top.second]
        /\ \A id \in Ids : id \in {picks[1], top.second} \/ Before(top.second, id)
    BY <1>1, <1>5, <2>2, <2>3 DEF TopInvariant
  <2>5. \A id \in Ids : id \in {picks[1], picks[2]} \/ Before(picks[2], id)
    <3>1. {picks[j] : j \in 1 .. 2} = {picks[1], picks[2]}
      OBVIOUS
    <3> QED
      BY <1>1, <1>5, <2>1, <3>1 DEF PicksInvariant
  <2>6. picks[2] \in Ids /\ scores[picks[2]] \in Int /\ scores[top.second] \in Int
    BY <1>1, <1>2, <2>1, <2>4, ScoresAreIntegers
  <2>7. top.second = picks[2]
    <3>1. top.second # picks[2] => Before(top.second, picks[2]) /\ Before(picks[2], top.second)
      BY <2>1, <2>4, <2>5, <2>6
    <3> QED
      BY <2>4, <2>6, <3>1 DEF Before, Ids
  <2> QED
    BY <2>4, <2>7
<1>6. Numbers => \A i \in DOMAIN picks : \A id \in Ids \ {picks[j] : j \in 1 .. i} :
                   Before(picks[i], id)
  BY <1>1, <1>2 DEF PicksInvariant
<1> QED
  BY <1>2, <1>3, <1>4, <1>5, <1>6 DEF PicksAreRanked

(* For any scores, NaN among them or not, the selections pick what their   *)
(* order says and argmax agrees with the first two of them                 *)
(* (text_forward.cpp:1447-1471, 1394-1406, 668-695).                       *)
THEOREM PicksFollowTheScores == SelectionSpec => []PicksAreRanked
<1>1. SelectionSpec => []SelectionInvariant
  BY SelectionBegins, SelectionKeeps, PTL DEF SelectionSpec
<1>2. SelectionInvariant => PicksAreRanked
  BY RankedByInvariant
<1> QED
  BY <1>1, <1>2, PTL

-----------------------------------------------------------------------------
(***************************************************************************)
(* Running a program.  A listing is a finite sequence of instructions;     *)
(* Runs(n, p, e, f) says that the listing p, executed by step n on the     *)
(* buffers e, finds every operand where it reads it, stays inside every    *)
(* buffer it touches, and leaves the buffers f.  Runs composes: what holds *)
(* of the parts of a program holds of the program.  The values are those   *)
(* of LayerPrograms: <<step, label>> of the instruction that computed      *)
(* them.                                                                   *)
(***************************************************************************)

(* The stages of a flattening: each appends one sequence. *)
Families(S, n) == [1 .. n -> Seq(S)]
IsFlattening(F, S, n, ss) ==
  /\ F \in [0 .. n -> Seq(S)] /\ F[0] = << >> /\ F[n] = FlattenSeq(ss)
  /\ \A i \in 1 .. n : F[i] = F[i - 1] \o ss[i]

LEMMA FlattenStages ==
  ASSUME NEW S, NEW n \in Nat, NEW ss \in Families(S, n)
  PROVE  \E F : IsFlattening(F, S, n, ss)
<1> USE DEF Families
<1> DEFINE step == [i \in 1 .. n |-> [s \in Seq(S) |-> s \o ss[i]]]
<1>1. ASSUME NEW i \in 1 .. n, NEW s \in Seq(S) PROVE step[i][s] = s \o ss[i]
  <2>1. step[i] = [t \in Seq(S) |-> t \o ss[i]]
    BY Zenon
  <2> QED BY <2>1, Zenon
<1>2. \A i \in 1 .. n : \A s \in Seq(S) : s \o ss[i] \in Seq(S)
  BY ConcatProperties
<1>3. step \in [1 .. n -> [Seq(S) -> Seq(S)]]
  BY <1>2, Zenon
<1>4. << >> \in Seq(S)
  OBVIOUS
<1> HIDE DEF step
<1>5. PICK F \in [0 .. n -> Seq(S)] :
        F[0] = << >> /\ \A i \in 1 .. n : F[i] = step[i][F[i - 1]]
  <2>1. step \in StepFunctions(Seq(S), n)
    BY <1>3, Zenon DEF StepFunctions
  <2>2. PICK F : IsRun(F, Seq(S), n, << >>, step)
    BY <1>4, <2>1, RunExists
  <2> QED BY <2>2, Zenon DEF IsRun
<1>6. \A i \in 1 .. n : F[i - 1] \in Seq(S)
  BY <1>5
<1>7. \A i \in 1 .. n : F[i] = F[i - 1] \o ss[i]
  BY <1>1, <1>5, <1>6, Zenon
<1>8. Len(ss) = n
  BY LenProperties
<1>9. ASSUME n = 0 PROVE F[n] = FlattenSeq(ss)
  <2>1. ss = << >>
    BY <1>9
  <2>2. FlattenSeq(ss) = << >>
    BY <1>8, <1>9, <2>1 DEF FlattenSeq
  <2> QED BY <1>5, <1>9, <2>2, Zenon
<1>10. ASSUME n > 0 PROVE F[n] = FlattenSeq(ss)
  <2> DEFINE Rule(f) == [i \in 1 .. n |-> IF i = 1 THEN ss[i] ELSE f[i - 1] \o ss[i]]
             Flat == CHOOSE f : f = Rule(f)
             own == [i \in 1 .. n |-> F[i]]
  <2>1. FlattenSeq(ss) = Flat[n]
    BY <1>8, <1>10 DEF FlattenSeq
  <2>2. F[1] = ss[1]
    <3>1. F[1] = << >> \o ss[1]
      <4>1. 1 \in 1 .. n /\ 1 - 1 = 0
        BY <1>10
      <4> QED BY <1>5, <1>7, <4>1, Zenon
    <3>2. ss[1] \in Seq(S)
      BY <1>10
    <3> QED BY <3>1, <3>2, ConcatEmptySeq
  <2>3. \A i \in 1 .. n : i # 1 => i - 1 \in 1 .. n
    OBVIOUS
  <2>4. own = Rule(own)
    <3> SUFFICES ASSUME NEW i \in 1 .. n
                 PROVE  F[i] = IF i = 1 THEN ss[i] ELSE own[i - 1] \o ss[i]
      BY Zenon
    <3>1. CASE i = 1
      BY <2>2, <3>1, Zenon
    <3>2. CASE i # 1
      <4>1. own[i - 1] = F[i - 1]
        BY <2>3, <3>2, Zenon
      <4> QED BY <1>7, <3>2, <4>1, Zenon
    <3> QED BY <3>1, <3>2
  <2>5. Flat = Rule(Flat)
    <3> HIDE DEF Rule, own
    <3> QED BY <2>4, Zenon
  <2> HIDE DEF Flat
  <2>6. Flat[1] = ss[1]
    <3>1. 1 \in 1 .. n
      BY <1>10
    <3> QED BY <2>5, <3>1, Zenon
  <2>7. \A i \in 1 .. n : i # 1 => Flat[i] = Flat[i - 1] \o ss[i]
    BY <2>5, Zenon
  <2> DEFINE Same == {i \in Nat : i + 1 \in 1 .. n => Flat[i + 1] = F[i + 1]}
  <2>8. 0 \in Same
    BY <2>2, <2>6
  <2>9. ASSUME NEW i \in Nat, i \in Same PROVE i + 1 \in Same
    <3> SUFFICES ASSUME (i + 1) + 1 \in 1 .. n PROVE Flat[(i + 1) + 1] = F[(i + 1) + 1]
      OBVIOUS
    <3>1. i + 1 \in 1 .. n /\ (i + 1) + 1 # 1 /\ ((i + 1) + 1) - 1 = i + 1
      OBVIOUS
    <3>2. Flat[i + 1] = F[i + 1]
      BY <2>9, <3>1
    <3> QED BY <1>7, <2>7, <3>1, <3>2, Zenon
  <2>10. Same = Nat
    <3> HIDE DEF Same
    <3>1. Same \in SUBSET Nat
      BY DEF Same
    <3> QED BY <2>8, <2>9, <3>1, EveryNat
  <2>11. n - 1 \in Nat /\ (n - 1) + 1 = n /\ n \in 1 .. n
    BY <1>10
  <2>12. Flat[n] = F[n]
    BY <2>10, <2>11
  <2> QED BY <2>1, <2>12, Zenon
<1>11. n = 0 \/ n > 0
  OBVIOUS
<1>12. F[n] = FlattenSeq(ss)
  BY <1>9, <1>10, <1>11, Zenon
<1> QED BY <1>5, <1>7, <1>12, Zenon DEF IsFlattening

-----------------------------------------------------------------------------
(* Instruction sequences.                                                  *)
Listing(p) == \E S : p \in Seq(S)

LEMMA ListingIs ==
  ASSUME NEW p, Listing(p)
  PROVE  Len(p) \in Nat /\ DOMAIN p = 1 .. Len(p)
BY LenProperties DEF Listing

(* Joining two programs keeps the instructions of both, in order.          *)
LEMMA Joined ==
  ASSUME NEW p, NEW q, Listing(p), Listing(q)
  PROVE  /\ Listing(p \o q) /\ Len(p \o q) = Len(p) + Len(q)
         /\ \A i \in 1 .. Len(p) : (p \o q)[i] = p[i]
         /\ \A i \in 1 .. Len(q) : (p \o q)[Len(p) + i] = q[i]
<1>1. PICK S : p \in Seq(S)
  BY DEF Listing
<1>2. PICK T : q \in Seq(T)
  BY DEF Listing
<1>3. p \in Seq(S \cup T) /\ q \in Seq(S \cup T)
  BY <1>1, <1>2, SeqMonotonic
<1>4. /\ p \o q \in Seq(S \cup T) /\ Len(p \o q) = Len(p) + Len(q)
      /\ \A i \in 1 .. Len(p) + Len(q) :
           (p \o q)[i] = IF i <= Len(p) THEN p[i] ELSE q[i - Len(p)]
  BY <1>3, ConcatProperties
<1>5. Listing(p \o q)
  BY <1>4 DEF Listing
<1>6. Len(p) \in Nat /\ Len(q) \in Nat
  BY ListingIs
<1>7. ASSUME NEW i \in 1 .. Len(p) PROVE (p \o q)[i] = p[i]
  BY <1>4, <1>6
<1>8. ASSUME NEW i \in 1 .. Len(q) PROVE (p \o q)[Len(p) + i] = q[i]
  <2>1. Len(p) + i \in 1 .. Len(p) + Len(q) /\ ~(Len(p) + i <= Len(p)) /\ (Len(p) + i) - Len(p) = i
    BY <1>6
  <2> QED BY <1>4, <2>1
<1> QED BY <1>4, <1>5, <1>7, <1>8

LEMMA ListingNone == Listing(<< >>) /\ Len(<< >>) = 0
<1>1. << >> \in Seq({})
  OBVIOUS
<1> QED BY <1>1 DEF Listing

LEMMA ListingOne ==
  ASSUME NEW x PROVE Listing(<<x>>) /\ Len(<<x>>) = 1 /\ <<x>>[1] = x
<1>1. <<x>> \in Seq({x})
  OBVIOUS
<1> QED BY <1>1 DEF Listing

(* Longer tuples, one element at a time. *)
LEMMA TupleOfTwo == ASSUME NEW a, NEW b PROVE <<a, b>> = <<a>> \o <<b>>
<1>1. <<a>> \in Seq({a, b}) /\ <<b>> \in Seq({a, b}) /\ <<a, b>> \in Seq({a, b})
  OBVIOUS
<1>2. /\ <<a>> \o <<b>> \in Seq({a, b}) /\ Len(<<a>> \o <<b>>) = 2
      /\ \A i \in 1 .. 2 : (<<a>> \o <<b>>)[i] = IF i <= 1 THEN a ELSE b
  BY <1>1, ConcatProperties
<1>3. Len(<<a, b>>) = 2 /\ \A i \in 1 .. 2 : <<a, b>>[i] = IF i <= 1 THEN a ELSE b
  OBVIOUS
<1> DEFINE S == {a, b}
           tuple == <<a, b>>
           parts == <<a>> \o <<b>>
<1>4. /\ tuple \in Seq(S) /\ parts \in Seq(S) /\ Len(tuple) = 2 /\ Len(parts) = 2
      /\ \A i \in 1 .. 2 : tuple[i] = parts[i]
  BY <1>1, <1>2, <1>3
<1> HIDE DEF S, tuple, parts
<1>5. tuple = parts
  BY <1>4, SeqEqual
<1> QED BY <1>5 DEF tuple, parts
LEMMA TupleOfThree == ASSUME NEW a, NEW b, NEW c PROVE <<a, b, c>> = <<a, b>> \o <<c>>
OBVIOUS
LEMMA TupleOfFour ==
  ASSUME NEW a, NEW b, NEW c, NEW d PROVE <<a, b, c, d>> = <<a, b>> \o <<c, d>>
OBVIOUS
LEMMA TupleOfFive ==
  ASSUME NEW a, NEW b, NEW c, NEW d, NEW e PROVE <<a, b, c, d, e>> = <<a, b>> \o <<c, d, e>>
OBVIOUS
LEMMA TupleOfSix ==
  ASSUME NEW a, NEW b, NEW c, NEW d, NEW e, NEW f
  PROVE  <<a, b, c, d, e, f>> = <<a, b, c>> \o <<d, e, f>>
OBVIOUS

-----------------------------------------------------------------------------
(* What the buffers of a rank hold, one value for both halves.             *)
IsContents(e) == e = [b \in Buffers |-> e[b]]

(* AccessesFit, of one instruction.                                        *)
Fits(x) ==
  /\ x.out \in DOMAIN Capacity => x.rows <= Capacity[x.out]
  /\ \A read \in x.reads : read[1] \in DOMAIN Capacity => read[3] <= Capacity[read[1]]

DueIn(n, b) == IF b = "taps" THEN 2 ELSE n
Finds(n, e, read) == read[1] \in Buffers /\ e[read[1]] = <<DueIn(n, read[1]), read[2]>>

(* Instruction x of step n finds its operands in e and leaves f.           *)
Executes(n, x, e, f) ==
  /\ x.out \in Buffers /\ f = [e EXCEPT ![x.out] = <<n, x.op>>]
  /\ \A read \in x.reads : Finds(n, e, read)
  /\ Fits(x)

(* What the buffers hold before, between and after the instructions of p.  *)
Trace(n, p, g) ==
  /\ Listing(p) /\ DOMAIN g = 0 .. Len(p)
  /\ \A k \in 0 .. Len(p) : IsContents(g[k])
  /\ \A k \in 1 .. Len(p) : Executes(n, p[k], g[k - 1], g[k])

Runs(n, p, e, f) == \E g : Trace(n, p, g) /\ g[0] = e /\ g[Len(p)] = f

LEMMA RunsKeep ==
  ASSUME NEW n, NEW p, NEW e, NEW f, Runs(n, p, e, f)
  PROVE  Listing(p) /\ IsContents(e) /\ IsContents(f)
<1>1. PICK g : Trace(n, p, g) /\ g[0] = e /\ g[Len(p)] = f
  BY Zenon DEF Runs
<1>2. Listing(p)
  BY <1>1, Zenon DEF Trace
<1>3. 0 \in 0 .. Len(p) /\ Len(p) \in 0 .. Len(p)
  BY <1>2, ListingIs
<1> QED BY <1>1, <1>2, <1>3, Zenon DEF Trace

LEMMA RunsNone ==
  ASSUME NEW n, NEW e, IsContents(e) PROVE Runs(n, << >>, e, e)
<1> DEFINE g == [k \in 0 .. 0 |-> e]
<1>1. g[0] = e /\ DOMAIN g = 0 .. 0 /\ \A k \in 0 .. 0 : g[k] = e
  OBVIOUS
<1> HIDE DEF g
<1>2. Trace(n, << >>, g)
  <2>1. \A k \in 1 .. 0 : FALSE
    OBVIOUS
  <2> QED BY <1>1, <2>1, ListingNone, Zenon DEF Trace
<1> QED BY <1>1, <1>2, ListingNone, Zenon DEF Runs

LEMMA RunsOne ==
  ASSUME NEW n, NEW x, NEW e, NEW f, IsContents(e), Executes(n, x, e, f)
  PROVE  Runs(n, <<x>>, e, f) /\ IsContents(f)
<1> DEFINE g == [k \in 0 .. 1 |-> IF k = 0 THEN e ELSE f]
<1>1. g[0] = e /\ g[1] = f /\ DOMAIN g = 0 .. 1
  OBVIOUS
<1>2. IsContents(f)
  <2>1. \A v : [e EXCEPT ![x.out] = v] = [b \in Buffers |-> IF b = x.out THEN v ELSE e[b]]
    BY DEF IsContents
  <2> DEFINE v == <<n, x.op>>
  <2>2. f = [b \in Buffers |-> IF b = x.out THEN v ELSE e[b]]
    BY <2>1, Zenon DEF Executes
  <2> HIDE DEF v
  <2>3. f = [b \in Buffers |-> f[b]]
    BY <2>2
  <2> QED BY <2>3 DEF IsContents
<1> HIDE DEF g
<1>3. \A k \in 0 .. 1 : k = 0 \/ k = 1
  OBVIOUS
<1>4. \A k \in 0 .. 1 : IsContents(g[k])
  BY <1>1, <1>2, <1>3, Zenon
<1>5. \A k \in 1 .. 1 : k = 1 /\ k - 1 = 0
  OBVIOUS
<1>6. \A k \in 1 .. 1 : Executes(n, <<x>>[k], g[k - 1], g[k])
  BY <1>1, <1>5, ListingOne, Zenon
<1>7. Trace(n, <<x>>, g)
  BY <1>1, <1>4, <1>6, ListingOne, Zenon DEF Trace
<1> QED BY <1>1, <1>2, <1>7, ListingOne, Zenon DEF Runs

(* Traces of two programs that meet make a trace of their joining.         *)
LEMMA RunsBoth ==
  ASSUME NEW n, NEW p, NEW q, NEW e, NEW f, NEW h, Runs(n, p, e, f), Runs(n, q, f, h)
  PROVE  Runs(n, p \o q, e, h)
<1>1. PICK g1 : Trace(n, p, g1) /\ g1[0] = e /\ g1[Len(p)] = f
  BY Zenon DEF Runs
<1>2. PICK g2 : Trace(n, q, g2) /\ g2[0] = f /\ g2[Len(q)] = h
  BY Zenon DEF Runs
<1>3. Listing(p) /\ Listing(q)
  BY <1>1, <1>2, Zenon DEF Trace
<1> DEFINE lp == Len(p)
           lq == Len(q)
           r == p \o q
<1>4. lp \in Nat /\ lq \in Nat
  BY <1>3, ListingIs
<1>5. /\ Listing(r) /\ Len(r) = lp + lq
      /\ \A i \in 1 .. lp : r[i] = p[i]
      /\ \A i \in 1 .. lq : r[lp + i] = q[i]
  BY <1>3, Joined
<1> DEFINE g == [k \in 0 .. lp + lq |-> IF k <= lp THEN g1[k] ELSE g2[k - lp]]
<1>6. /\ \A k \in 0 .. lp : IsContents(g1[k])
      /\ \A k \in 1 .. lp : Executes(n, p[k], g1[k - 1], g1[k])
      /\ \A k \in 0 .. lq : IsContents(g2[k])
      /\ \A k \in 1 .. lq : Executes(n, q[k], g2[k - 1], g2[k])
  BY <1>1, <1>2, Zenon DEF Trace
<1> HIDE DEF lp, lq, r
<1>7. /\ DOMAIN g = 0 .. lp + lq
      /\ \A k \in 0 .. lp : g[k] = g1[k]
      /\ \A k \in 0 .. lq : g[lp + k] = g2[k]
  <2>1. \A k \in 0 .. lp : k \in 0 .. lp + lq /\ k <= lp
    BY <1>4
  <2>2. ASSUME NEW k \in 0 .. lq PROVE g[lp + k] = g2[k]
    <3>1. lp + k \in 0 .. lp + lq /\ (lp + k) - lp = k
      BY <1>4
    <3>2. CASE k = 0
      <4>1. lp + k = lp /\ lp <= lp /\ lp \in 0 .. lp + lq
        BY <1>4, <3>2
      <4>2. g[lp] = g1[lp]
        BY <4>1, Zenon
      <4> QED BY <1>1, <1>2, <3>2, <4>1, <4>2, Zenon DEF lp
    <3>3. CASE k # 0
      <4>1. ~(lp + k <= lp)
        BY <1>4, <3>3
      <4> QED BY <3>1, <4>1, Zenon
    <3> QED BY <3>2, <3>3
  <2> QED BY <2>1, <2>2, Zenon
<1> HIDE DEF g
<1>8. \A k \in 0 .. lp + lq : k \in 0 .. lp \/ (k - lp \in 0 .. lq /\ k = lp + (k - lp))
  BY <1>4
<1>9. \A k \in 0 .. lp + lq : IsContents(g[k])
  <2> SUFFICES ASSUME NEW k \in 0 .. lp + lq PROVE IsContents(g[k])
    OBVIOUS
  <2>1. CASE k \in 0 .. lp
    BY <1>6, <1>7, <2>1, Zenon
  <2>2. CASE k - lp \in 0 .. lq /\ k = lp + (k - lp)
    BY <1>6, <1>7, <2>2, Zenon
  <2> QED BY <1>8, <2>1, <2>2
<1>10. \A k \in 1 .. lp + lq : Executes(n, r[k], g[k - 1], g[k])
  <2> SUFFICES ASSUME NEW k \in 1 .. lp + lq PROVE Executes(n, r[k], g[k - 1], g[k])
    OBVIOUS
  <2>1. CASE k <= lp
    <3>1. k \in 1 .. lp /\ k \in 0 .. lp /\ k - 1 \in 0 .. lp
      BY <1>4, <2>1
    <3> QED BY <1>5, <1>6, <1>7, <3>1, Zenon
  <2>2. CASE ~(k <= lp)
    <3> DEFINE i == k - lp
    <3>1. i \in 1 .. lq /\ i \in 0 .. lq /\ i - 1 \in 0 .. lq /\ k = lp + i /\ k - 1 = lp + (i - 1)
      BY <1>4, <2>2
    <3> HIDE DEF i
    <3> QED BY <1>5, <1>6, <1>7, <3>1, Zenon
  <2> QED BY <2>1, <2>2
<1>11. Trace(n, r, g)
  BY <1>5, <1>7, <1>9, <1>10, Zenon DEF Trace
<1>12. g[0] = e /\ g[Len(r)] = h
  <2>1. 0 \in 0 .. lp /\ lq \in 0 .. lq
    BY <1>4
  <2> QED BY <1>1, <1>2, <1>5, <1>7, <2>1, Zenon DEF lq
<1> QED BY <1>11, <1>12, Zenon DEF Runs, r

-----------------------------------------------------------------------------
(* The pinned model.                                                       *)
LEMMA Pinned ==
  ASSUME NEW field \in DOMAIN Glm53FlashSpec \ {"layers"}
  PROVE  Model[field] = Glm53FlashSpec[field]
<1>1. {f \in DOMAIN Glm53FlashSpec \ {"layers"} : Model[f] # Glm53FlashSpec[f]}
        \subseteq ModelErrors(Model)
  BY Zenon DEF ModelErrors
<1> QED BY <1>1, LayerProgramsAssumption

LEMMA PinnedNumbers ==
  /\ Model.hidden_size = 4096 /\ Model.intermediate_size = 12288
  /\ Model.attention_heads = 64 /\ Model.q_lora_rank = 1536 /\ Model.kv_lora_rank = 512
  /\ Model.qk_head_dim = 256 /\ Model.v_head_dim = 256
  /\ Model.linear_attention_heads = 64 /\ Model.linear_attention_head_dim = 128
  /\ Model.hyper_connection_streams = 4 /\ Model.routed_experts = 288
  /\ Model.experts_per_token = 8 /\ Model.moe_intermediate_size = 2048
<1>1. {"hidden_size", "intermediate_size", "attention_heads", "q_lora_rank", "kv_lora_rank",
       "qk_head_dim", "v_head_dim", "linear_attention_heads", "linear_attention_head_dim",
       "hyper_connection_streams", "routed_experts", "experts_per_token",
       "moe_intermediate_size"} \subseteq DOMAIN Glm53FlashSpec \ {"layers"}
  BY DEF Glm53FlashSpec
<1>2. /\ Glm53FlashSpec.hidden_size = 4096 /\ Glm53FlashSpec.intermediate_size = 12288
      /\ Glm53FlashSpec.attention_heads = 64 /\ Glm53FlashSpec.q_lora_rank = 1536
      /\ Glm53FlashSpec.kv_lora_rank = 512 /\ Glm53FlashSpec.qk_head_dim = 256
      /\ Glm53FlashSpec.v_head_dim = 256 /\ Glm53FlashSpec.linear_attention_heads = 64
      /\ Glm53FlashSpec.linear_attention_head_dim = 128
      /\ Glm53FlashSpec.hyper_connection_streams = 4 /\ Glm53FlashSpec.routed_experts = 288
      /\ Glm53FlashSpec.experts_per_token = 8 /\ Glm53FlashSpec.moe_intermediate_size = 2048
  BY DEF Glm53FlashSpec
<1> QED BY <1>1, <1>2, Pinned

LEMMA PinnedLayers ==
  /\ Len(Model.layers) = 45
  /\ \A i \in 1 .. 45 :
       /\ Model.layers[i].index = i - 1
       /\ Model.layers[i].mixer = IF IsSparseMlaLayer(i - 1) THEN "sparse_mla" ELSE "kda"
<1>1. Len(Model.layers) = 45
  <2>1. (IF Len(Model.layers) # 45 THEN {"layer count"} ELSE {}) \subseteq ModelErrors(Model)
    BY Zenon DEF ModelErrors
  <2> QED BY <2>1, LayerProgramsAssumption
<1>2. DOMAIN Model.layers = 1 .. 45
  BY <1>1, LayerProgramsAssumption, LenProperties
<1>3. ASSUME NEW i \in 1 .. 45 PROVE Model.layers[i] = MakeLayers(i)[i]
  <2>1. {<<"layer", k>> : k \in {j \in DOMAIN Model.layers : Model.layers[j] # MakeLayers(j)[j]}}
          \subseteq ModelErrors(Model)
    BY Zenon DEF ModelErrors
  <2>2. {<<"layer", k>> : k \in {j \in DOMAIN Model.layers : Model.layers[j] # MakeLayers(j)[j]}} = {}
    BY <2>1, LayerProgramsAssumption
  <2> QED BY <1>2, <2>2
<1>4. ASSUME NEW i \in 1 .. 45
      PROVE  MakeLayers(i)[i].index = i - 1
             /\ MakeLayers(i)[i].mixer = IF IsSparseMlaLayer(i - 1) THEN "sparse_mla" ELSE "kda"
  BY DEF MakeLayers
<1> QED BY <1>1, <1>3, <1>4

LEMMA Sizes ==
  /\ Width = 8192 /\ KvWidth = 32768
  /\ DOMAIN Capacity = {"a", "b", "c", "d", "streams", "branch", "collapsed", "final"}
  /\ Capacity["a"] = 32768 /\ Capacity["b"] = 32768 /\ Capacity["c"] = 32768
  /\ Capacity["d"] = 32768 /\ Capacity["streams"] = 16384 /\ Capacity["branch"] = 4096
  /\ Capacity["collapsed"] = 4096 /\ Capacity["final"] = 8192
<1>1. Width = 8192 /\ KvWidth = 32768
  BY PinnedNumbers DEF Width, KvWidth
<1>2. Model.hyper_connection_streams * Model.hidden_size = 16384
  BY PinnedNumbers
<1>3. /\ Larger(Width, KvWidth) = 32768
      /\ Larger(Larger(Width, KvWidth), Model.intermediate_size) = 32768
      /\ Larger(Model.hidden_size, Width) = 8192
  BY <1>1, PinnedNumbers DEF Larger
<1> DEFINE sizes(wide, most, flat, hidden, last) ==
             [a |-> wide, b |-> wide, c |-> wide, d |-> most, streams |-> flat,
              branch |-> hidden, collapsed |-> hidden, final |-> last]
<1>4. Capacity = sizes(Larger(Width, KvWidth),
                       Larger(Larger(Width, KvWidth), Model.intermediate_size),
                       Model.hyper_connection_streams * Model.hidden_size,
                       Model.hidden_size, Larger(Model.hidden_size, Width))
  BY Zenon DEF Capacity
<1> HIDE DEF sizes
<1>5. Capacity = sizes(32768, 32768, 16384, 4096, 8192)
  BY <1>2, <1>3, <1>4, PinnedNumbers
<1> USE DEF sizes
<1> QED BY <1>1, <1>5

LEMMA BuffersAre ==
  Buffers = {"a", "b", "c", "d", "streams", "branch", "collapsed", "final",
             "post", "comb", "residual", "forget", "latents", "scores", "routes", "logits",
             "taps", "context", "draft", "normed", "prepared", "saved", "branched",
             "draft_logits", "path"}
BY Sizes DEF Buffers

-----------------------------------------------------------------------------
(* One instruction.                                                        *)
After(n, e, out, op) == [e EXCEPT ![out] = <<n, op>>]

(* What an instruction leaves behind.                                      *)
Wrote(n, e, out, op, f) ==
  /\ IsContents(f) /\ f[out] = <<n, op>>
  /\ \A b \in Buffers : b # out => f[b] = e[b]

LEMMA AfterWrote ==
  ASSUME NEW n, NEW e, NEW out \in Buffers, NEW op, IsContents(e)
  PROVE  Wrote(n, e, out, op, After(n, e, out, op))
<1> DEFINE v == <<n, op>>
           f == [b \in Buffers |-> IF b = out THEN v ELSE e[b]]
<1>1. \A w : [e EXCEPT ![out] = w] = [b \in Buffers |-> IF b = out THEN w ELSE e[b]]
  BY DEF IsContents
<1>2. After(n, e, out, op) = f
  BY <1>1, Zenon DEF After
<1> HIDE DEF v
<1>3. f = [b \in Buffers |-> f[b]] /\ f[out] = v /\ \A b \in Buffers : b # out => f[b] = e[b]
  OBVIOUS
<1> HIDE DEF f
<1>4. Wrote(n, e, out, op, f)
  BY <1>3, Zenon DEF IsContents, v, Wrote
<1> QED BY <1>2, <1>4

(* An operand is there, and the buffer has that many floats.               *)
Takes(n, e, read) ==
  Finds(n, e, read) /\ (read[1] \in DOMAIN Capacity => read[3] <= Capacity[read[1]])

LEMMA LocalRuns ==
  ASSUME NEW n, NEW op, NEW reads, NEW out \in Buffers, NEW rows, NEW needs, NEW e,
         IsContents(e), \A read \in reads : Takes(n, e, read),
         out \in DOMAIN Capacity => rows <= Capacity[out]
  PROVE  Runs(n, <<Local(op, reads, out, rows, needs)>>, e, After(n, e, out, op))
<1> DEFINE x == Local(op, reads, out, rows, needs)
<1>1. x.op = op /\ x.reads = reads /\ x.out = out /\ x.rows = rows
  BY DEF Local
<1> HIDE DEF x
<1>2. Executes(n, x, e, After(n, e, out, op))
  BY <1>1, Zenon DEF Executes, After, Takes, Fits
<1>3. Runs(n, <<x>>, e, After(n, e, out, op))
  BY <1>2, RunsOne, Zenon
<1> QED BY <1>3 DEF x

LEMMA LinearRuns ==
  ASSUME NEW n, NEW op, NEW needs, NEW from, NEW cols, NEW out \in Buffers, NEW rows, NEW e,
         IsContents(e), Takes(n, e, <<from[1], from[2], cols>>),
         out \in DOMAIN Capacity => rows <= Capacity[out]
  PROVE  Runs(n, <<Linear(op, needs, from, cols, out, rows)>>, e, After(n, e, out, op))
<1> DEFINE x == Linear(op, needs, from, cols, out, rows)
           read == <<from[1], from[2], cols>>
<1>1. x.op = op /\ x.reads = {read} /\ x.out = out /\ x.rows = rows
  BY DEF Linear
<1> HIDE DEF x, read
<1>2. \A r \in {read} : Takes(n, e, r)
  BY DEF read
<1>3. Executes(n, x, e, After(n, e, out, op))
  BY <1>1, <1>2, Zenon DEF Executes, After, Takes, Fits
<1>4. Runs(n, <<x>>, e, After(n, e, out, op))
  BY <1>3, RunsOne, Zenon
<1> QED BY <1>4 DEF x

Room(b, count) == b \in DOMAIN Capacity => count <= Capacity[b]

LEMMA TakesIt ==
  ASSUME NEW n, NEW e, NEW b \in Buffers, NEW v, NEW count, b # "taps", e[b] = <<n, v>>,
         Room(b, count)
  PROVE  Takes(n, e, <<b, v, count>>)
<1> DEFINE read == <<b, v, count>>
<1>1. read[1] = b /\ read[2] = v /\ read[3] = count
  OBVIOUS
<1> HIDE DEF read
<1>2. Takes(n, e, read)
  BY <1>1, Zenon DEF Takes, Finds, DueIn, Room
<1> QED BY <1>2 DEF read

LEMMA LocalStep ==
  ASSUME NEW n, NEW op, NEW reads, NEW out \in Buffers, NEW rows, NEW e,
         IsContents(e), \A read \in reads : Takes(n, e, read), Room(out, rows)
  PROVE  \E f : /\ Wrote(n, e, out, op, f)
                /\ \A needs : Runs(n, <<Local(op, reads, out, rows, needs)>>, e, f)
<1> DEFINE f == After(n, e, out, op)
<1>1. Wrote(n, e, out, op, f)
  BY AfterWrote, Zenon
<1>2. ASSUME NEW needs PROVE Runs(n, <<Local(op, reads, out, rows, needs)>>, e, f)
  BY LocalRuns, Zenon DEF Room
<1> HIDE DEF f
<1> QED BY <1>1, <1>2, Zenon

LEMMA LinearStep ==
  ASSUME NEW n, NEW op, NEW from, NEW cols, NEW out \in Buffers, NEW rows, NEW e,
         IsContents(e), Takes(n, e, <<from[1], from[2], cols>>), Room(out, rows)
  PROVE  \E f : /\ Wrote(n, e, out, op, f)
                /\ \A needs : Runs(n, <<Linear(op, needs, from, cols, out, rows)>>, e, f)
<1> DEFINE f == After(n, e, out, op)
<1>1. Wrote(n, e, out, op, f)
  BY AfterWrote, Zenon
<1>2. ASSUME NEW needs PROVE Runs(n, <<Linear(op, needs, from, cols, out, rows)>>, e, f)
  BY LinearRuns, Zenon DEF Room
<1> HIDE DEF f
<1> QED BY <1>1, <1>2, Zenon

(* Instructions in a row. *)
LEMMA RunsTwo ==
  ASSUME NEW n, NEW x1, NEW x2, NEW e0, NEW e1, NEW e2,
         Runs(n, <<x1>>, e0, e1), Runs(n, <<x2>>, e1, e2)
  PROVE  Runs(n, <<x1, x2>>, e0, e2)
BY RunsBoth, TupleOfTwo, Zenon

LEMMA RunsThree ==
  ASSUME NEW n, NEW x1, NEW x2, NEW x3, NEW e0, NEW e1, NEW e2, NEW e3,
         Runs(n, <<x1>>, e0, e1), Runs(n, <<x2>>, e1, e2), Runs(n, <<x3>>, e2, e3)
  PROVE  Runs(n, <<x1, x2, x3>>, e0, e3)
<1>1. Runs(n, <<x1, x2>>, e0, e2)
  BY RunsTwo, Zenon
<1> QED BY <1>1, RunsBoth, TupleOfThree, Zenon

LEMMA RunsFour ==
  ASSUME NEW n, NEW x1, NEW x2, NEW x3, NEW x4, NEW e0, NEW e1, NEW e2, NEW e3, NEW e4,
         Runs(n, <<x1>>, e0, e1), Runs(n, <<x2>>, e1, e2), Runs(n, <<x3>>, e2, e3),
         Runs(n, <<x4>>, e3, e4)
  PROVE  Runs(n, <<x1, x2, x3, x4>>, e0, e4)
<1>1. Runs(n, <<x1, x2>>, e0, e2)
  BY RunsTwo, Zenon
<1>2. Runs(n, <<x3, x4>>, e2, e4)
  BY RunsTwo, Zenon
<1>3. <<x1, x2, x3, x4>> = <<x1, x2>> \o <<x3, x4>>
  OBVIOUS
<1> DEFINE tuple == <<x1, x2, x3, x4>>
           parts == <<x1, x2>> \o <<x3, x4>>
<1>4. Runs(n, parts, e0, e4)
  BY <1>1, <1>2, RunsBoth, Zenon
<1>5. tuple = parts
  BY <1>3, Zenon
<1> HIDE DEF tuple, parts
<1>6. Runs(n, tuple, e0, e4)
  BY <1>4, <1>5
<1> QED BY <1>6 DEF tuple

LEMMA RunsFive ==
  ASSUME NEW n, NEW x1, NEW x2, NEW x3, NEW x4, NEW x5,
         NEW e0, NEW e1, NEW e2, NEW e3, NEW e4, NEW e5,
         Runs(n, <<x1>>, e0, e1), Runs(n, <<x2>>, e1, e2), Runs(n, <<x3>>, e2, e3),
         Runs(n, <<x4>>, e3, e4), Runs(n, <<x5>>, e4, e5)
  PROVE  Runs(n, <<x1, x2, x3, x4, x5>>, e0, e5)
<1>1. Runs(n, <<x1, x2>>, e0, e2)
  BY RunsTwo, Zenon
<1>2. Runs(n, <<x3, x4, x5>>, e2, e5)
  BY RunsThree, Zenon
<1>3. <<x1, x2, x3, x4, x5>> = <<x1, x2>> \o <<x3, x4, x5>>
  OBVIOUS
<1> DEFINE tuple == <<x1, x2, x3, x4, x5>>
           parts == <<x1, x2>> \o <<x3, x4, x5>>
<1>4. Runs(n, parts, e0, e5)
  BY <1>1, <1>2, RunsBoth, Zenon
<1>5. tuple = parts
  BY <1>3, Zenon
<1> HIDE DEF tuple, parts
<1>6. Runs(n, tuple, e0, e5)
  BY <1>4, <1>5
<1> QED BY <1>6 DEF tuple

LEMMA RunsSix ==
  ASSUME NEW n, NEW x1, NEW x2, NEW x3, NEW x4, NEW x5, NEW x6,
         NEW e0, NEW e1, NEW e2, NEW e3, NEW e4, NEW e5, NEW e6,
         Runs(n, <<x1>>, e0, e1), Runs(n, <<x2>>, e1, e2), Runs(n, <<x3>>, e2, e3),
         Runs(n, <<x4>>, e3, e4), Runs(n, <<x5>>, e4, e5), Runs(n, <<x6>>, e5, e6)
  PROVE  Runs(n, <<x1, x2, x3, x4, x5, x6>>, e0, e6)
<1>1. Runs(n, <<x1, x2, x3>>, e0, e3)
  BY RunsThree, Zenon
<1>2. Runs(n, <<x4, x5, x6>>, e3, e6)
  BY RunsThree, Zenon
<1>3. <<x1, x2, x3, x4, x5, x6>> = <<x1, x2, x3>> \o <<x4, x5, x6>>
  OBVIOUS
<1> DEFINE tuple == <<x1, x2, x3, x4, x5, x6>>
           parts == <<x1, x2, x3>> \o <<x4, x5, x6>>
<1>4. Runs(n, parts, e0, e6)
  BY <1>1, <1>2, RunsBoth, Zenon
<1>5. tuple = parts
  BY <1>3, Zenon
<1> HIDE DEF tuple, parts
<1>6. Runs(n, tuple, e0, e6)
  BY <1>4, <1>5
<1> QED BY <1>6 DEF tuple

-----------------------------------------------------------------------------
(* mix() and feed() leave the taps alone, and between them the normalised  *)
(* branch input, the residual and the two mixing vectors.                  *)
Entered(n, l, half, e) ==
  /\ e["branch"] = <<n, <<l, half, "in">>>> /\ e["residual"] = <<n, <<l, half, "residual">>>>
  /\ e["post"] = <<n, <<l, half, "post">>>> /\ e["comb"] = <<n, <<l, half, "comb">>>>

LEMMA EnterRuns ==
  ASSUME NEW n, NEW l, NEW half, NEW before, NEW norm, NEW e0, IsContents(e0),
         e0["streams"] = <<n, before>>
  PROVE  \E f : /\ Runs(n, Enter(l, half, before, norm), e0, f)
                /\ Entered(n, l, half, f) /\ f["taps"] = e0["taps"]
<1> DEFINE hc == Model.hyper_connection_streams
           hidden == Model.hidden_size
           flat == hc * hidden
           reads == {<<"streams", before, flat>>}
           reads5 == {<<"collapsed", <<l, half, "collapsed">>, hidden>>}
<1>1. /\ Room("streams", flat) /\ Room("collapsed", hidden) /\ Room("branch", hidden)
      /\ \A count : Room("post", count) /\ Room("comb", count) /\ Room("residual", count)
  BY PinnedNumbers, Sizes DEF Room
<1>2. /\ {"post", "comb", "collapsed", "residual", "branch", "streams", "taps"} \subseteq Buffers
  BY BuffersAre
<1> HIDE DEF flat, hidden
<1>3. ASSUME NEW e, e["streams"] = <<n, before>> PROVE \A read \in reads : Takes(n, e, read)
  BY <1>1, <1>2, <1>3, TakesIt
<1> HIDE DEF reads
<1>4. PICK e1 : /\ Wrote(n, e0, "post", <<l, half, "post">>, e1)
                /\ \A needs : Runs(n, <<Local(<<l, half, "post">>, reads, "post", hc, needs)>>, e0, e1)
  BY <1>1, <1>2, <1>3, LocalStep
<1>5. PICK e2 : /\ Wrote(n, e1, "comb", <<l, half, "comb">>, e2)
                /\ \A needs : Runs(n, <<Local(<<l, half, "comb">>, reads, "comb", hc * hc, needs)>>, e1, e2)
  <2>1. e1["streams"] = <<n, before>> /\ IsContents(e1)
    BY <1>2, <1>4 DEF Wrote
  <2> QED BY <1>1, <1>2, <1>3, <2>1, LocalStep
<1>6. PICK e3 : /\ Wrote(n, e2, "collapsed", <<l, half, "collapsed">>, e3)
                /\ \A needs : Runs(n, <<Local(<<l, half, "collapsed">>, reads, "collapsed", hidden, needs)>>, e2, e3)
  <2>1. e2["streams"] = <<n, before>> /\ IsContents(e2)
    BY <1>2, <1>4, <1>5 DEF Wrote
  <2> QED BY <1>1, <1>2, <1>3, <2>1, LocalStep
<1>7. PICK e4 : /\ Wrote(n, e3, "residual", <<l, half, "residual">>, e4)
                /\ \A needs : Runs(n, <<Local(<<l, half, "residual">>, reads, "residual", flat, needs)>>, e3, e4)
  <2>1. e3["streams"] = <<n, before>> /\ IsContents(e3)
    BY <1>2, <1>4, <1>5, <1>6 DEF Wrote
  <2> QED BY <1>1, <1>2, <1>3, <2>1, LocalStep
<1>8. PICK e5 : /\ Wrote(n, e4, "branch", <<l, half, "in">>, e5)
                /\ \A needs : Runs(n, <<Local(<<l, half, "in">>, reads5, "branch", hidden, needs)>>, e4, e5)
  <2>1. \A read \in reads5 : Takes(n, e4, read)
    BY <1>1, <1>2, <1>6, <1>7, TakesIt DEF Wrote
  <2>2. IsContents(e4)
    BY <1>7 DEF Wrote
  <2> HIDE DEF reads5
  <2> QED BY <1>1, <1>2, <2>1, <2>2, LocalStep
<1>9. Runs(n, Enter(l, half, before, norm), e0, e5)
  BY <1>4, <1>5, <1>6, <1>7, <1>8, RunsFive, Zenon DEF Enter, reads, flat, hidden
<1>10. Entered(n, l, half, e5) /\ e5["taps"] = e0["taps"]
  BY <1>2, <1>4, <1>5, <1>6, <1>7, <1>8 DEF Entered, Wrote
<1> QED BY <1>9, <1>10, Zenon

-----------------------------------------------------------------------------
(***************************************************************************)
(* Listings of many parts: tuples, concatenations, and the flattening of a *)
(* family of listings (the layers of a step, the experts of a layer, the   *)
(* cached latents of the sparse mixer).                                    *)
(***************************************************************************)

LEMMA ListingTwo ==
  ASSUME NEW x1, NEW x2
  PROVE  Listing(<<x1, x2>>)
<1>1. <<x1, x2>> \in Seq({x1, x2})
  OBVIOUS
<1> QED BY <1>1 DEF Listing

LEMMA ListingThree ==
  ASSUME NEW x1, NEW x2, NEW x3
  PROVE  Listing(<<x1, x2, x3>>)
<1>1. <<x1, x2, x3>> \in Seq({x1, x2, x3})
  OBVIOUS
<1> QED BY <1>1 DEF Listing

LEMMA ListingFour ==
  ASSUME NEW x1, NEW x2, NEW x3, NEW x4
  PROVE  Listing(<<x1, x2, x3, x4>>)
<1>1. <<x1, x2, x3, x4>> \in Seq({x1, x2, x3, x4})
  OBVIOUS
<1> QED BY <1>1 DEF Listing

LEMMA ListingFive ==
  ASSUME NEW x1, NEW x2, NEW x3, NEW x4, NEW x5
  PROVE  Listing(<<x1, x2, x3, x4, x5>>)
<1>1. <<x1, x2, x3, x4, x5>> \in Seq({x1, x2, x3, x4, x5})
  OBVIOUS
<1> QED BY <1>1 DEF Listing

LEMMA ListingSix ==
  ASSUME NEW x1, NEW x2, NEW x3, NEW x4, NEW x5, NEW x6
  PROVE  Listing(<<x1, x2, x3, x4, x5, x6>>)
<1>1. <<x1, x2, x3, x4, x5, x6>> \in Seq({x1, x2, x3, x4, x5, x6})
  OBVIOUS
<1> QED BY <1>1 DEF Listing

LEMMA ListingFifteen ==
  ASSUME NEW x1, NEW x2, NEW x3, NEW x4, NEW x5, NEW x6, NEW x7, NEW x8, NEW x9, NEW x10, NEW x11, NEW x12, NEW x13, NEW x14, NEW x15
  PROVE  Listing(<<x1, x2, x3, x4, x5, x6, x7, x8, x9, x10, x11, x12, x13, x14, x15>>)
<1>1. <<x1, x2, x3, x4, x5, x6, x7, x8, x9, x10, x11, x12, x13, x14, x15>> \in Seq({x1, x2, x3, x4, x5, x6, x7, x8, x9, x10, x11, x12, x13, x14, x15})
  OBVIOUS
<1> QED BY <1>1 DEF Listing

(* Listings one after the other: what each contributes is in the whole.    *)
Has(p, x) == \E i \in 1 .. Len(p) : p[i] = x

LEMMA JoinedHas ==
  ASSUME NEW p, NEW q, NEW x, Listing(p), Listing(q), Has(p, x) \/ Has(q, x)
  PROVE  Has(p \o q, x)
<1> DEFINE r == p \o q
<1>1. /\ Len(r) = Len(p) + Len(q) /\ Len(p) \in Nat /\ Len(q) \in Nat
      /\ \A i \in 1 .. Len(p) : r[i] = p[i]
      /\ \A i \in 1 .. Len(q) : r[Len(p) + i] = q[i]
  BY Joined, ListingIs
<1> HIDE DEF r
<1>2. CASE Has(p, x)
  <2>1. PICK i \in 1 .. Len(p) : p[i] = x
    BY <1>2 DEF Has
  <2>2. i \in 1 .. Len(r) /\ r[i] = x
    BY <1>1, <2>1
  <2> QED BY <2>2 DEF Has, r
<1>3. CASE Has(q, x)
  <2>1. PICK i \in 1 .. Len(q) : q[i] = x
    BY <1>3 DEF Has
  <2>2. Len(p) + i \in 1 .. Len(r) /\ r[Len(p) + i] = x
    BY <1>1, <2>1
  <2> QED BY <2>2 DEF Has, r
<1> QED BY <1>2, <1>3

(* A family of listings: they share one set of elements, which makes their *)
(* concatenation a listing.                                                *)
Listings(m, ss) ==
  /\ ss = [j \in 1 .. m |-> ss[j]]
  /\ \A j \in 1 .. m : Listing(ss[j])

LEMMA FamilyOfListings ==
  ASSUME NEW m \in Nat, NEW ss, Listings(m, ss)
  PROVE  \E S : ss \in [1 .. m -> Seq(S)]
<1> DEFINE elements(j) == {ss[j][i] : i \in 1 .. Len(ss[j])}
           S == UNION {elements(j) : j \in 1 .. m}
<1>1. ASSUME NEW j \in 1 .. m PROVE ss[j] \in Seq(S)
  <2>1. PICK T : ss[j] \in Seq(T)
    BY DEF Listing, Listings
  <2>2. \A i \in 1 .. Len(ss[j]) : ss[j][i] \in S
    <3>1. \A i \in 1 .. Len(ss[j]) : ss[j][i] \in elements(j)
      OBVIOUS
    <3> HIDE DEF elements
    <3> QED BY <3>1
  <2>3. ss[j] = [i \in 1 .. Len(ss[j]) |-> ss[j][i]] /\ Len(ss[j]) \in Nat
    BY <2>1
  <2> HIDE DEF S
  <2> QED BY <2>2, <2>3
<1> HIDE DEF S
<1>2. ss \in [1 .. m -> Seq(S)]
  BY <1>1 DEF Listings
<1> QED BY <1>2

LEMMA FlattenedListing ==
  ASSUME NEW m \in Nat, NEW ss, Listings(m, ss)
  PROVE  \E F : /\ F[0] = << >> /\ F[m] = FlattenSeq(ss)
                /\ \A j \in 0 .. m : Listing(F[j])
                /\ \A j \in 1 .. m : F[j] = F[j - 1] \o ss[j]
<1>1. PICK S : ss \in Families(S, m)
  BY FamilyOfListings, Zenon DEF Families
<1>2. PICK F : IsFlattening(F, S, m, ss)
  BY <1>1, FlattenStages, Zenon
<1>3. \A j \in 0 .. m : Listing(F[j])
  BY <1>2, Zenon DEF IsFlattening, Listing
<1> QED BY <1>2, <1>3, Zenon DEF IsFlattening

LEMMA FlattenListing ==
  ASSUME NEW m \in Nat, NEW ss, Listings(m, ss)
  PROVE  Listing(FlattenSeq(ss))
<1>1. PICK F : F[m] = FlattenSeq(ss) /\ \A j \in 0 .. m : Listing(F[j])
  BY FlattenedListing, Zenon
<1>2. m \in 0 .. m
  OBVIOUS
<1> QED BY <1>1, <1>2, Zenon

LEMMA FlattenHas ==
  ASSUME NEW m \in Nat, NEW ss, Listings(m, ss),
         NEW k \in 1 .. m, NEW x, Has(ss[k], x)
  PROVE  Has(FlattenSeq(ss), x)
<1>1. PICK F : /\ F[0] = << >> /\ F[m] = FlattenSeq(ss)
               /\ \A j \in 0 .. m : Listing(F[j])
               /\ \A j \in 1 .. m : F[j] = F[j - 1] \o ss[j]
  BY FlattenedListing, Zenon
<1> DEFINE Within == {j \in Nat : j \in k .. m => Has(F[j], x)}
<1>2. 0 \in Within
  OBVIOUS
<1>3. ASSUME NEW j \in Nat, j \in Within PROVE j + 1 \in Within
  <2> SUFFICES ASSUME j + 1 \in k .. m PROVE Has(F[j + 1], x)
    OBVIOUS
  <2>1. j + 1 \in 1 .. m /\ (j + 1) - 1 = j /\ j \in 0 .. m /\ (j + 1 = k \/ j \in k .. m)
    OBVIOUS
  <2>2. F[j + 1] = F[j] \o ss[j + 1] /\ Listing(F[j]) /\ Listing(ss[j + 1])
    BY <1>1, <2>1, Zenon DEF Listings
  <2>3. Has(F[j], x) \/ Has(ss[j + 1], x)
    <3>1. CASE j + 1 = k
      BY <3>1, Zenon
    <3>2. CASE j \in k .. m
      BY <1>3, <3>2
    <3> QED BY <2>1, <3>1, <3>2
  <2>4. Has(F[j] \o ss[j + 1], x)
    BY <2>2, <2>3, JoinedHas, Zenon
  <2> QED BY <2>2, <2>4, Zenon
<1>4. Within = Nat
  <2> HIDE DEF Within
  <2>1. Within \in SUBSET Nat
    BY DEF Within
  <2> QED BY <1>2, <1>3, <2>1, EveryNat
<1>5. m \in Within /\ m \in k .. m
  BY <1>4
<1>6. Has(F[m], x)
  BY <1>5
<1> QED BY <1>1, <1>6, Zenon

(* What the buffers hold, as pairs of a buffer and a value.                *)
Marked(marks, e) == IsContents(e) /\ \A mark \in marks : e[mark[1]] = mark[2]

(* A list of programs runs when each takes any contents with its mark to   *)
(* contents with the next.                                                 *)
LEMMA FlattenRuns ==
  ASSUME NEW n, NEW m \in Nat, NEW ss, Listings(m, ss),
         NEW marks, NEW e, Marked(marks[0], e),
         \A j \in 1 .. m : \A g : Marked(marks[j - 1], g) =>
            \E f : Runs(n, ss[j], g, f) /\ Marked(marks[j], f)
  PROVE  \E f : Runs(n, FlattenSeq(ss), e, f) /\ Marked(marks[m], f)
<1>1. PICK F : /\ F[0] = << >> /\ F[m] = FlattenSeq(ss)
               /\ \A j \in 0 .. m : Listing(F[j])
               /\ \A j \in 1 .. m : F[j] = F[j - 1] \o ss[j]
  BY FlattenedListing, Zenon
<1> DEFINE Good(j) == \E f : Runs(n, F[j], e, f) /\ Marked(marks[j], f)
           Done == {j \in Nat : j \in 0 .. m => Good(j)}
<1>2. 0 \in Done
  <2>1. Runs(n, << >>, e, e)
    BY RunsNone, Zenon DEF Marked
  <2>2. Good(0)
    BY <1>1, <2>1, Zenon
  <2> HIDE DEF Good
  <2> QED BY <2>2
<1>3. ASSUME NEW j \in Nat, j \in Done PROVE j + 1 \in Done
  <2> SUFFICES ASSUME j + 1 \in 0 .. m PROVE Good(j + 1)
    <3> HIDE DEF Good
    <3> QED OBVIOUS
  <2>1. j + 1 \in 1 .. m /\ (j + 1) - 1 = j /\ j \in 0 .. m
    OBVIOUS
  <2>2. Good(j)
    <3> HIDE DEF Good
    <3> QED BY <1>3, <2>1
  <2>3. PICK g : Runs(n, F[j], e, g) /\ Marked(marks[j], g)
    BY <2>2, Zenon
  <2>4. PICK f : Runs(n, ss[j + 1], g, f) /\ Marked(marks[j + 1], f)
    BY <2>1, <2>3, Zenon
  <2>5. F[j + 1] = F[j] \o ss[j + 1]
    BY <1>1, <2>1, Zenon
  <2>6. Runs(n, F[j] \o ss[j + 1], e, f)
    BY <2>3, <2>4, RunsBoth, Zenon
  <2> QED BY <2>4, <2>5, <2>6, Zenon
<1>4. Done = Nat
  <2> HIDE DEF Done
  <2>1. Done \in SUBSET Nat
    BY DEF Done
  <2> QED BY <1>2, <1>3, <2>1, EveryNat
<1>5. Good(m)
  <2>1. m \in Done /\ m \in 0 .. m
    <3> HIDE DEF Good
    <3> QED BY <1>4
  <2> HIDE DEF Good
  <2> QED BY <2>1
<1> QED BY <1>1, <1>5, Zenon

-----------------------------------------------------------------------------
(***************************************************************************)
(* The programs of LayerPrograms in parts.  Every part is a listing, and   *)
(* every program has a gather.                                             *)
(***************************************************************************)

(* Every part of a program is a listing.                                   *)
LEMMA ListingJoined ==
  ASSUME NEW p, NEW q, Listing(p), Listing(q) PROVE Listing(p \o q)
BY Joined, Zenon

LEMMA ListingSteps ==
  /\ \A l, half, before, norm : Listing(Enter(l, half, before, norm))
  /\ \A l, half, y : Listing(Leave(l, half, y))
  /\ \A l : Listing(RecordTap(l))
  /\ \A l, tag, inter, y, gate, up, down : Listing(Gated(l, tag, inter, y, gate, up, down))
<1>1. ASSUME NEW l, NEW half, NEW before, NEW norm PROVE Listing(Enter(l, half, before, norm))
  BY ListingFive, Zenon DEF Enter
<1>2. ASSUME NEW l, NEW half, NEW y PROVE Listing(Leave(l, half, y))
  BY ListingOne, Zenon DEF Leave
<1>3. ASSUME NEW l PROVE Listing(RecordTap(l))
  BY ListingOne, ListingNone, Zenon DEF RecordTap
<1>4. ASSUME NEW l, NEW tag, NEW inter, NEW y, NEW gate, NEW up, NEW down
      PROVE  Listing(Gated(l, tag, inter, y, gate, up, down))
  BY ListingFour, Zenon DEF Gated
<1> QED BY <1>1, <1>2, <1>3, <1>4, Zenon

LEMMA ListingKda == ASSUME NEW l PROVE Listing(Kda(l))
BY ListingFifteen, ZenonT(30) DEF Kda

LEMMA ListingDense == ASSUME NEW l PROVE Listing(DenseMlp(l))
BY ListingSteps, Zenon DEF DenseMlp

(* The MLA mixer in three parts: projections, cached latents, output.      *)
MlaLinear(l, name, weight, from, cols, to, rows) ==
  Linear(<<l, name>>, Bf16(In(l, "self_attn." \o weight \o ".weight"), rows, cols),
         from, cols, to, rows)
MlaNorm(l, name, buf, n) ==
  Local(<<l, name, "norm">>, {<<buf, <<l, name>>, n>>}, buf, n,
        {Loaded(In(l, "self_attn." \o name \o "_layernorm.weight"), n)})
Queries == Model.attention_heads * Model.qk_head_dim
MlaValues == Model.attention_heads * Model.v_head_dim
MlaProject(l) ==
  LET x == <<"branch", <<l, "attn", "in">>>>
      q == Model.q_lora_rank
      kv == Model.kv_lora_rank
  IN << MlaLinear(l, "q_a", "q_a_proj", x, Model.hidden_size, "b", q), MlaNorm(l, "q_a", "b", q),
        MlaLinear(l, "q_b", "q_b_proj", <<"b", <<l, "q_a", "norm">>>>, q, "c", Queries),
        MlaLinear(l, "kv_a", "kv_a_proj_with_mqa", x, Model.hidden_size, "a", kv),
        MlaNorm(l, "kv_a", "a", kv),
        Local(<<l, "latent">>, {<<"a", <<l, "kv_a", "norm">>, kv>>}, "latents", kv, {}) >>
MlaLatent(l, tokens, j) ==
  << [MlaLinear(l, "kv_b", "kv_b_proj", <<"latents", <<l, "latent">>>>, Model.kv_lora_rank, "d",
                KvWidth) EXCEPT !.op = <<l, "kv_b", j>>],
     Local(<<l, "scores", j>>,
           {<<"c", <<l, "q_b">>, Queries>>, <<"d", <<l, "kv_b", j>>, KvWidth>>},
           "scores", Model.attention_heads * tokens, {}) >>
MlaOutput(l, tokens) ==
  << Local(<<l, "attended">>,
           {<<"scores", <<l, "scores", tokens>>, Model.attention_heads * tokens>>},
           "b", MlaValues, {}),
     MlaLinear(l, "mixed", "o_proj", <<"b", <<l, "attended">>>>, MlaValues, "a", Model.hidden_size) >>
MlaLatents(l, tokens) == [j \in 1 .. tokens |-> MlaLatent(l, tokens, j)]

LEMMA MlaParts ==
  ASSUME NEW l, NEW tokens
  PROVE  Mla(l, tokens) = MlaProject(l) \o FlattenSeq(MlaLatents(l, tokens)) \o MlaOutput(l, tokens)
BY Zenon DEF Mla, MlaProject, MlaLatent, MlaLatents, MlaOutput, MlaLinear, MlaNorm, Queries, MlaValues

LEMMA ListingMla ==
  ASSUME NEW l, NEW tokens \in Nat
  PROVE  Listing(Mla(l, tokens)) /\ Listings(tokens, MlaLatents(l, tokens)) /\ Listing(MlaProject(l))
         /\ Listing(MlaOutput(l, tokens)) /\ Listing(FlattenSeq(MlaLatents(l, tokens)))
<1>1. Listing(MlaProject(l))
  BY ListingSix, Zenon DEF MlaProject
<1>2. Listing(MlaOutput(l, tokens))
  BY ListingTwo, Zenon DEF MlaOutput
<1>3. \A j : Listing(MlaLatent(l, tokens, j))
  BY ListingTwo, Zenon DEF MlaLatent
<1>4. Listings(tokens, MlaLatents(l, tokens))
  BY <1>3 DEF Listings, MlaLatents
<1>5. Listing(FlattenSeq(MlaLatents(l, tokens)))
  BY <1>4, FlattenListing, Zenon
<1>6. Listing(MlaProject(l) \o FlattenSeq(MlaLatents(l, tokens)))
  BY <1>1, <1>5, ListingJoined, Zenon
<1>7. Listing(Mla(l, tokens))
  BY <1>2, <1>6, MlaParts, ListingJoined, Zenon
<1> QED BY <1>1, <1>2, <1>4, <1>5, <1>7

(* The mixture of experts in four parts: routing, the picked experts, the  *)
(* shared one, and its addition.                                           *)
MoeRoute(l) ==
  << Linear(<<l, "router">>, Bf16(In(l, "mlp.gate.weight"), Model.routed_experts, Model.hidden_size),
            <<"branch", <<l, "ffn", "in">>>>, Model.hidden_size, "b", Model.routed_experts),
     Local(<<l, "routes">>, {<<"b", <<l, "router">>, Model.routed_experts>>},
           "routes", Model.experts_per_token,
           {Loaded(In(l, "mlp.gate.e_score_correction_bias"), Model.routed_experts)}),
     Local(<<l, "sum", 0>>, {}, "a", Model.hidden_size, {}) >>
MoeAdd(l, pick, value, more) ==
  << Local(<<l, "sum", pick>>,
           {<<"a", <<l, "sum", pick - 1>>, Model.hidden_size>>, <<"c", value, Model.hidden_size>>}
             \cup more, "a", Model.hidden_size, {}) >>
MoeGated(l, tag, gate, up, down) == Gated(l, tag, Model.moe_intermediate_size, "c", gate, up, down)
MoeExpert(l, pick) ==
  LET prefixes(part) == {<<"expert", l, e, part>> : e \in PickedExperts}
      inter == Model.moe_intermediate_size
  IN MoeGated(l, <<l, "expert", pick>>,
              Nvfp4(prefixes("gate_proj"), inter, Model.hidden_size),
              Nvfp4(prefixes("up_proj"), inter, Model.hidden_size),
              Nvfp4(prefixes("down_proj"), Model.hidden_size, inter))
     \o MoeAdd(l, pick, <<l, "expert", pick, "down">>,
               {<<"routes", <<l, "routes">>, Model.experts_per_token>>})
MoeShared(l) ==
  LET inter == Model.moe_intermediate_size
      shared(part) == In(l, "mlp.shared_experts." \o part \o ".weight")
  IN MoeGated(l, <<l, "shared">>, Bf16(shared("gate_proj"), inter, Model.hidden_size),
              Bf16(shared("up_proj"), inter, Model.hidden_size),
              Bf16(shared("down_proj"), Model.hidden_size, inter))
MoeExperts(l) == [pick \in 1 .. Model.experts_per_token |-> MoeExpert(l, pick)]

LEMMA MoeParts ==
  ASSUME NEW l
  PROVE  Moe(l) = MoeRoute(l) \o FlattenSeq(MoeExperts(l)) \o MoeShared(l)
                    \o MoeAdd(l, Model.experts_per_token + 1, <<l, "shared", "down">>, {})
BY Zenon DEF Moe, MoeRoute, MoeExpert, MoeExperts, MoeShared, MoeAdd, MoeGated

LEMMA ListingMoe ==
  ASSUME NEW l
  PROVE  Listing(Moe(l)) /\ Listings(8, MoeExperts(l))
<1>1. Listing(MoeRoute(l))
  BY ListingThree, Zenon DEF MoeRoute
<1>2. \A pick, value, more : Listing(MoeAdd(l, pick, value, more))
  BY ListingOne, Zenon DEF MoeAdd
<1>3. Listing(MoeShared(l))
  BY ListingSteps, Zenon DEF MoeShared, MoeGated
<1>4. ASSUME NEW pick PROVE Listing(MoeExpert(l, pick))
  <2>1. \A tag, gate, up, down : Listing(MoeGated(l, tag, gate, up, down))
    BY ListingSteps, Zenon DEF MoeGated
  <2> QED BY <1>2, <2>1, ListingJoined, Zenon DEF MoeExpert
<1>5. Model.experts_per_token = 8
  BY PinnedNumbers
<1>6. Listings(8, MoeExperts(l))
  BY <1>4, <1>5 DEF Listings, MoeExperts
<1>7. Listing(FlattenSeq(MoeExperts(l)))
  <2>1. 8 \in Nat
    OBVIOUS
  <2> QED BY <1>6, <2>1, FlattenListing, Zenon
<1>8. Listing(MoeRoute(l) \o FlattenSeq(MoeExperts(l)))
  BY <1>1, <1>7, ListingJoined, Zenon
<1>9. Listing(MoeRoute(l) \o FlattenSeq(MoeExperts(l)) \o MoeShared(l))
  BY <1>3, <1>8, ListingJoined, Zenon
<1>10. Listing(Moe(l))
  BY <1>2, <1>9, MoeParts, ListingJoined, Zenon
<1> QED BY <1>6, <1>10

(* One layer in its two branches.                                          *)
Mixer(layer, tokens) == IF layer.mixer = "kda" THEN Kda(layer.index) ELSE Mla(layer.index, tokens)
Feed(layer) == IF layer.ffn = "dense" THEN DenseMlp(layer.index) ELSE Moe(layer.index)
Fed(layer) == IF layer.ffn = "dense" THEN <<layer.index, "mlp", "down">>
              ELSE <<layer.index, "sum", Model.experts_per_token + 1>>

LEMMA LayerParts ==
  ASSUME NEW layer, NEW before, NEW tokens
  PROVE  LayerProgram(layer, before, tokens)
           = Enter(layer.index, "attn", before, "input_layernorm.weight")
             \o Mixer(layer, tokens)
             \o Leave(layer.index, "attn", <<layer.index, "mixed">>)
             \o Enter(layer.index, "ffn", <<layer.index, "attn", "streams">>,
                      "post_attention_layernorm.weight")
             \o Feed(layer)
             \o Leave(layer.index, "ffn", Fed(layer))
BY Zenon DEF LayerProgram, Mixer, Feed, Fed

LEMMA ListingLayer ==
  ASSUME NEW layer, NEW before, NEW tokens \in Nat
  PROVE  /\ Listing(LayerProgram(layer, before, tokens))
         /\ \A x : Has(Mixer(layer, tokens), x) => Has(LayerProgram(layer, before, tokens), x)
<1> DEFINE p1 == Enter(layer.index, "attn", before, "input_layernorm.weight")
           p2 == Mixer(layer, tokens)
           p3 == Leave(layer.index, "attn", <<layer.index, "mixed">>)
           p4 == Enter(layer.index, "ffn", <<layer.index, "attn", "streams">>,
                       "post_attention_layernorm.weight")
           p5 == Feed(layer)
           p6 == Leave(layer.index, "ffn", Fed(layer))
<1>1. Listing(p1) /\ Listing(p3) /\ Listing(p4) /\ Listing(p6)
  BY ListingSteps, Zenon
<1>2. Listing(p2)
  BY ListingKda, ListingMla, Zenon DEF Mixer
<1>3. Listing(p5)
  BY ListingDense, ListingMoe, Zenon DEF Feed
<1>4. LayerProgram(layer, before, tokens) = p1 \o p2 \o p3 \o p4 \o p5 \o p6
  BY LayerParts, Zenon
<1> HIDE DEF p1, p2, p3, p4, p5, p6
<1>5. Listing(p1 \o p2) /\ \A x : Has(p2, x) => Has(p1 \o p2, x)
  BY <1>1, <1>2, ListingJoined, JoinedHas, Zenon
<1>6. Listing(p1 \o p2 \o p3) /\ \A x : Has(p2, x) => Has(p1 \o p2 \o p3, x)
  BY <1>1, <1>5, ListingJoined, JoinedHas, Zenon
<1>7. Listing(p1 \o p2 \o p3 \o p4) /\ \A x : Has(p2, x) => Has(p1 \o p2 \o p3 \o p4, x)
  BY <1>1, <1>6, ListingJoined, JoinedHas, Zenon
<1>8. Listing(p1 \o p2 \o p3 \o p4 \o p5) /\ \A x : Has(p2, x) => Has(p1 \o p2 \o p3 \o p4 \o p5, x)
  BY <1>3, <1>7, ListingJoined, JoinedHas, Zenon
<1>9. /\ Listing(p1 \o p2 \o p3 \o p4 \o p5 \o p6)
      /\ \A x : Has(p2, x) => Has(p1 \o p2 \o p3 \o p4 \o p5 \o p6, x)
  BY <1>1, <1>8, ListingJoined, JoinedHas, Zenon
<1> QED BY <1>4, <1>9, Zenon DEF p2

(* A step: the embedding, every layer with its tap, the last norm.         *)
LeftBy(i) == IF i = 0 THEN <<"embed">> ELSE <<Model.layers[i].index, "ffn", "streams">>
Flat == Model.hyper_connection_streams * Model.hidden_size
StepLayer(i, tokens, capture) ==
  LayerProgram(Model.layers[i], LeftBy(i - 1), tokens)
  \o IF capture THEN RecordTap(Model.layers[i].index) ELSE <<>>
StepLayers(tokens, capture) ==
  [i \in 1 .. Len(Model.layers) |-> StepLayer(i, tokens, capture)]
StepBegin == << Local(<<"embed">>, {}, "streams", Flat, {Embeddings}) >>
StepEnd ==
  << Local(<<"hidden">>, {<<"streams", LeftBy(Len(Model.layers)), Flat>>}, "final",
           Model.hidden_size,
           {Loaded(<<"model.language_model.norm.weight">>, Model.hidden_size)}) >>

LEMMA StepParts ==
  ASSUME NEW tokens, NEW capture
  PROVE  StepProgram(tokens, capture)
           = StepBegin \o FlattenSeq(StepLayers(tokens, capture)) \o StepEnd
BY Zenon DEF StepProgram, StepBegin, StepLayers, StepLayer, StepEnd, LeftBy, Flat

LEMMA ListingStep ==
  ASSUME NEW tokens \in Nat, NEW capture
  PROVE  /\ Listing(StepProgram(tokens, capture))
         /\ Listings(45, StepLayers(tokens, capture))
         /\ \A x : Has(Mla(3, tokens), x) => Has(StepProgram(tokens, capture), x)
<1> DEFINE ss == StepLayers(tokens, capture)
<1>1. \A i : Listing(StepLayer(i, tokens, capture))
  BY ListingLayer, ListingSteps, ListingNone, ListingJoined, Zenon DEF StepLayer
<1>2. Listings(45, ss)
  BY <1>1, PinnedLayers DEF Listings, StepLayers
<1>3. ASSUME NEW x, Has(Mla(3, tokens), x) PROVE Has(ss[4], x)
  <2>1. Model.layers[4].mixer = "sparse_mla" /\ Model.layers[4].index = 3
    BY PinnedLayers DEF IsSparseMlaLayer
  <2>2. Has(Mixer(Model.layers[4], tokens), x)
    BY <1>3, <2>1 DEF Mixer
  <2>3. Has(StepLayer(4, tokens, capture), x)
    <3> DEFINE p == LayerProgram(Model.layers[4], LeftBy(4 - 1), tokens)
               t == IF capture THEN RecordTap(Model.layers[4].index) ELSE <<>>
    <3>1. Has(p, x) /\ Listing(p)
      BY <2>2, ListingLayer, Zenon
    <3>2. Listing(t)
      BY ListingSteps, ListingNone, Zenon
    <3>3. StepLayer(4, tokens, capture) = p \o t
      BY Zenon DEF StepLayer
    <3> HIDE DEF p, t
    <3> QED BY <3>1, <3>2, <3>3, JoinedHas, Zenon
  <2>4. ss[4] = StepLayer(4, tokens, capture)
    BY PinnedLayers DEF StepLayers
  <2> QED BY <2>3, <2>4
<1> HIDE DEF ss
<1>4. 45 \in Nat /\ 4 \in 1 .. 45
  OBVIOUS
<1>5. Listing(FlattenSeq(ss))
  BY <1>2, <1>4, FlattenListing, Zenon
<1>6. \A x : Has(Mla(3, tokens), x) => Has(FlattenSeq(ss), x)
  BY <1>2, <1>3, <1>4, FlattenHas, Zenon
<1>7. Listing(StepBegin) /\ Listing(StepEnd)
  BY ListingOne, Zenon DEF StepBegin, StepEnd
<1>8. /\ Listing(StepBegin \o FlattenSeq(ss))
      /\ \A x : Has(Mla(3, tokens), x) => Has(StepBegin \o FlattenSeq(ss), x)
  BY <1>5, <1>6, <1>7, ListingJoined, JoinedHas, Zenon
<1>9. /\ Listing(StepBegin \o FlattenSeq(ss) \o StepEnd)
      /\ \A x : Has(Mla(3, tokens), x) => Has(StepBegin \o FlattenSeq(ss) \o StepEnd, x)
  BY <1>7, <1>8, ListingJoined, JoinedHas, Zenon
<1> QED BY <1>2, <1>9, StepParts, Zenon DEF ss

LEMMA ListingHead == Listing(HeadProgram)
BY ListingOne, Zenon DEF HeadProgram

(* A proposal: the context and the embedded rows, five layers of two       *)
(* branches, the last norm, and the slots of the path.                     *)
DraftBegin ==
  << Local(<<Len(Model.layers), "context">>,
           {<<"taps", <<TapLayers[Len(TapLayers)], "tap">>, Model.hidden_size>>},
           "context", DraftHidden,
           Bf16(<<"draft", "fc.weight">>, DraftHidden, Len(TapLayers) * DraftHidden)
           \cup {Loaded(<<"draft", "hidden_norm.weight">>, DraftHidden)}),
     Draft(0, <<"rows">>, {}, "draft", {Embeddings}) >>
DraftNorm ==
  << Draft(DraftLayers, <<"final">>, {<<"draft", DraftLayers - 1, <<"mlp", "out">>>>}, "draft",
           {Loaded(<<"draft", "norm.weight">>, DraftHidden)}) >>
DraftStack == [i \in 1 .. DraftLayers |-> DraftLayer(i - 1)]
DraftSlots == [slot \in 1 .. Block - 1 |-> DraftSlot(slot)]

LEMMA DraftParts ==
  DraftProgram = DraftBegin \o FlattenSeq(DraftStack) \o DraftNorm \o FlattenSeq(DraftSlots)
BY Zenon DEF DraftProgram, DraftBegin, DraftStack, DraftNorm, DraftSlots

LEMMA ListingDraft ==
  /\ Listing(DraftProgram) /\ Listings(5, DraftStack) /\ Listings(7, DraftSlots)
  /\ \A x : Has(DraftSlot(1), x) => Has(DraftProgram, x)
<1>1. \A l, half, before, norm, inner : Listing(DraftBranch(l, half, before, norm, inner))
  <2> SUFFICES ASSUME NEW l, NEW half, NEW before, NEW norm, NEW inner
               PROVE  Listing(DraftBranch(l, half, before, norm, inner))
    BY Zenon
  <2>1. PICK x1, x2, x3, x4, x5 : DraftBranch(l, half, before, norm, inner) = <<x1, x2, x3, x4, x5>>
    BY Zenon DEF DraftBranch
  <2> QED BY <2>1, ListingFive, Zenon
<1>2. \A l : Listing(DraftLayer(l))
  BY <1>1, ListingJoined, Zenon DEF DraftLayer
<1>3. \A slot : Listing(DraftSlot(slot))
  BY ListingTwo, Zenon DEF DraftSlot
<1>4. Listings(5, DraftStack)
  BY <1>2 DEF Listings, DraftStack, DraftLayers
<1>5. Listings(7, DraftSlots) /\ DraftSlots[1] = DraftSlot(1)
  <2>1. Block - 1 = 7
    BY DEF Block
  <2> DEFINE ss == [slot \in 1 .. 7 |-> DraftSlot(slot)]
  <2>2. DraftSlots = ss
    BY <2>1, Zenon DEF DraftSlots
  <2>3. ss = [slot \in 1 .. 7 |-> ss[slot]] /\ \A slot \in 1 .. 7 : ss[slot] = DraftSlot(slot)
    OBVIOUS
  <2>4. ss[1] = DraftSlot(1)
    OBVIOUS
  <2> HIDE DEF ss
  <2>5. Listings(7, ss)
    BY <1>3, <2>3, Zenon DEF Listings
  <2> QED BY <2>2, <2>4, <2>5, Zenon
<1>6. 5 \in Nat /\ 7 \in Nat /\ 1 \in 1 .. 7
  OBVIOUS
<1>7. Listing(FlattenSeq(DraftStack)) /\ Listing(FlattenSeq(DraftSlots))
  BY <1>4, <1>5, <1>6, FlattenListing, Zenon
<1>8. \A x : Has(DraftSlot(1), x) => Has(FlattenSeq(DraftSlots), x)
  BY <1>5, <1>6, FlattenHas, Zenon
<1>9. Listing(DraftBegin) /\ Listing(DraftNorm)
  BY ListingOne, ListingTwo, Zenon DEF DraftBegin, DraftNorm
<1>10. Listing(DraftBegin \o FlattenSeq(DraftStack))
  BY <1>7, <1>9, ListingJoined, Zenon
<1>11. Listing(DraftBegin \o FlattenSeq(DraftStack) \o DraftNorm)
  BY <1>9, <1>10, ListingJoined, Zenon
<1>12. /\ Listing(DraftBegin \o FlattenSeq(DraftStack) \o DraftNorm \o FlattenSeq(DraftSlots))
       /\ \A x : Has(DraftSlot(1), x) =>
            Has(DraftBegin \o FlattenSeq(DraftStack) \o DraftNorm \o FlattenSeq(DraftSlots), x)
  BY <1>7, <1>8, <1>11, ListingJoined, JoinedHas, Zenon
<1> QED BY <1>4, <1>5, <1>12, DraftParts, Zenon

-----------------------------------------------------------------------------
(* Every program has a gather; a step has an instruction that stores a     *)
(* latent, which is where the indexer bound is checked.                    *)
LEMMA MlaHas ==
  ASSUME NEW l, NEW tokens \in Nat
  PROVE  /\ \E x : Has(Mla(l, tokens), x) /\ x.gathered
         /\ \E x : Has(Mla(l, tokens), x) /\ ~x.gathered /\ Len(x.op) = 2 /\ x.op[2] = "latent"
<1> DEFINE p == MlaProject(l)
           x1 == MlaLinear(l, "q_a", "q_a_proj", <<"branch", <<l, "attn", "in">>>>,
                           Model.hidden_size, "b", Model.q_lora_rank)
           x6 == Local(<<l, "latent">>,
                       {<<"a", <<l, "kv_a", "norm">>, Model.kv_lora_rank>>}, "latents",
                       Model.kv_lora_rank, {})
<1>1. PICK x2, x3, x4, x5 : p = <<x1, x2, x3, x4, x5, x6>>
  BY Zenon DEF MlaProject
<1>2. x1.gathered /\ ~x6.gathered /\ Len(x6.op) = 2 /\ x6.op[2] = "latent"
  BY DEF MlaLinear, Linear, Local
<1> HIDE DEF x1, x6
<1>3. Len(p) = 6 /\ p[1] = x1 /\ p[6] = x6
  BY <1>1
<1>4. Has(p, x1) /\ Has(p, x6)
  BY <1>3 DEF Has
<1> HIDE DEF p
<1>5. ASSUME NEW x, Has(p, x) PROVE Has(Mla(l, tokens), x)
  <2> DEFINE f == FlattenSeq(MlaLatents(l, tokens))
  <2>1. Listing(p) /\ Listing(f) /\ Listing(MlaOutput(l, tokens))
    BY ListingMla, Zenon DEF p
  <2>2. Mla(l, tokens) = p \o f \o MlaOutput(l, tokens)
    BY MlaParts, Zenon DEF p
  <2> HIDE DEF f
  <2>3. Has(p \o f, x) /\ Listing(p \o f)
    BY <1>5, <2>1, ListingJoined, JoinedHas, Zenon
  <2> QED BY <2>1, <2>2, <2>3, JoinedHas, Zenon
<1> QED BY <1>2, <1>4, <1>5, Zenon

(* Every program is a list with a gathered product; a step has a latent too.*)
LEMMA EveryProgram ==
  /\ Listing(HeadProgram) /\ \E x : Has(HeadProgram, x) /\ x.gathered
  /\ Listing(DraftProgram) /\ \E x : Has(DraftProgram, x) /\ x.gathered
  /\ \A tokens \in Nat : \A capture :
       LET p == StepProgram(tokens, capture) IN
       /\ Listing(p) /\ \E x : Has(p, x) /\ x.gathered
       /\ \E x : Has(p, x) /\ ~x.gathered /\ Len(x.op) = 2 /\ x.op[2] = "latent"
<1>1. \E x : Has(HeadProgram, x) /\ x.gathered
  <2> DEFINE x == Linear(<<"logits">>, OutputHead, <<"final", <<"hidden">>>>, Model.hidden_size,
                         "logits", Model.vocab_size)
  <2>1. x.gathered
    BY DEF Linear
  <2>2. HeadProgram = <<x>>
    BY Zenon DEF HeadProgram
  <2> HIDE DEF x
  <2>3. Has(HeadProgram, x)
    BY <2>2 DEF Has
  <2> QED BY <2>1, <2>3
<1>2. \E x : Has(DraftProgram, x) /\ x.gathered
  <2> DEFINE x == Linear(<<Len(Model.layers) + DraftLayers>> \o <<"logits", 1>>, OutputHead,
                         <<"draft", <<Len(Model.layers) + DraftLayers>> \o <<"final">>>>,
                         DraftHidden, "draft_logits", Model.vocab_size)
  <2>1. x.gathered
    BY DEF Linear
  <2>2. PICK y : DraftSlot(1) = <<x, y>>
    BY Zenon DEF DraftSlot
  <2> HIDE DEF x
  <2>3. Has(DraftSlot(1), x)
    BY <2>2 DEF Has
  <2> QED BY <2>1, <2>3, ListingDraft
<1>3. ASSUME NEW tokens \in Nat, NEW capture
      PROVE  LET p == StepProgram(tokens, capture) IN
             /\ Listing(p) /\ \E x : Has(p, x) /\ x.gathered
             /\ \E x : Has(p, x) /\ ~x.gathered /\ Len(x.op) = 2 /\ x.op[2] = "latent"
  BY MlaHas, ListingStep, Zenon
<1> QED BY <1>1, <1>2, <1>3, ListingHead, ListingDraft, Zenon

-----------------------------------------------------------------------------
(***************************************************************************)
(* What the parts of a step leave in the buffers (text_forward.cpp's       *)
(* mixers, MLPs and hyper-connections): each finds its operands when it is *)
(* entered with the value of the part before, and spares what the parts    *)
(* after it read.                                                          *)
(***************************************************************************)

(* What a mixer or an MLP leaves alone for the combination after it.       *)
Spared(e, f) ==
  /\ f["residual"] = e["residual"] /\ f["post"] = e["post"] /\ f["comb"] = e["comb"]
  /\ f["taps"] = e["taps"]

(* A KDA mixer reads only what it or its caller wrote in this step.        *)
LEMMA KdaRuns ==
  ASSUME NEW n, NEW l, NEW e0, IsContents(e0), e0["branch"] = <<n, <<l, "attn", "in">>>>
  PROVE  \E f : /\ Runs(n, Kda(l), e0, f)
                /\ Spared(e0, f) /\ f["a"] = <<n, <<l, "mixed">>>>
<1> DEFINE hidden == Model.hidden_size
           dim == Model.linear_attention_head_dim
           heads == Model.linear_attention_heads
<1>1. /\ Room("branch", hidden) /\ Room("final", Width) /\ Room("forget", Width)
      /\ Room("a", Width) /\ Room("b", Width) /\ Room("c", Width) /\ Room("d", Width)
      /\ Room("a", dim) /\ Room("a", heads) /\ Room("a", hidden)
  BY PinnedNumbers, Sizes DEF Room
<1>2. {"a", "b", "c", "d", "branch", "final", "forget", "residual", "post", "comb", "taps"} \subseteq Buffers
  BY BuffersAre
<1> HIDE DEF hidden, dim, heads
<1>3. PICK e1 :
        /\ Wrote(n, e0, "b", <<l, "q">>, e1)
        /\ \A needs : Runs(n, <<Linear(<<l, "q">>, needs, <<"branch", <<l, "attn", "in">>>>, hidden, "b", Width)>>, e0, e1)
  <2>1. IsContents(e0)
    OBVIOUS
  <2>2. e0["branch"] = <<n, <<l, "attn", "in">>>>
    OBVIOUS
  <2>3. Takes(n, e0, <<"branch", <<l, "attn", "in">>, hidden>>)
    BY <1>1, <1>2, <2>2, TakesIt
  <2> QED BY <1>1, <1>2, <2>1, <2>3, LinearStep
<1>4. PICK e2 :
        /\ Wrote(n, e1, "c", <<l, "k">>, e2)
        /\ \A needs : Runs(n, <<Linear(<<l, "k">>, needs, <<"branch", <<l, "attn", "in">>>>, hidden, "c", Width)>>, e1, e2)
  <2>1. IsContents(e1)
    BY <1>3 DEF Wrote
  <2>2. e1["branch"] = <<n, <<l, "attn", "in">>>>
    BY <1>2, <1>3 DEF Wrote
  <2>3. Takes(n, e1, <<"branch", <<l, "attn", "in">>, hidden>>)
    BY <1>1, <1>2, <2>2, TakesIt
  <2> QED BY <1>1, <1>2, <2>1, <2>3, LinearStep
<1>5. PICK e3 :
        /\ Wrote(n, e2, "d", <<l, "v">>, e3)
        /\ \A needs : Runs(n, <<Linear(<<l, "v">>, needs, <<"branch", <<l, "attn", "in">>>>, hidden, "d", Width)>>, e2, e3)
  <2>1. IsContents(e2)
    BY <1>4 DEF Wrote
  <2>2. e2["branch"] = <<n, <<l, "attn", "in">>>>
    BY <1>2, <1>3, <1>4 DEF Wrote
  <2>3. Takes(n, e2, <<"branch", <<l, "attn", "in">>, hidden>>)
    BY <1>1, <1>2, <2>2, TakesIt
  <2> QED BY <1>1, <1>2, <2>1, <2>3, LinearStep
<1>6. PICK e4 :
        /\ Wrote(n, e3, "b", <<l, "q", "conv">>, e4)
        /\ \A needs : Runs(n, <<Local(<<l, "q", "conv">>, {<<"b", <<l, "q">>, Width>>}, "b", Width, needs)>>, e3, e4)
  <2>1. IsContents(e3)
    BY <1>5 DEF Wrote
  <2>2. e3["b"] = <<n, <<l, "q">>>>
    BY <1>2, <1>3, <1>4, <1>5 DEF Wrote
  <2>3. \A read \in {<<"b", <<l, "q">>, Width>>} : Takes(n, e3, read)
    BY <1>1, <1>2, <2>2, TakesIt
  <2> QED BY <1>1, <1>2, <2>1, <2>3, LocalStep
<1>7. e4["branch"] = <<n, <<l, "attn", "in">>>>
  BY <1>2, <1>3, <1>4, <1>5, <1>6 DEF Wrote
<1>8. PICK e5 :
        /\ Wrote(n, e4, "c", <<l, "k", "conv">>, e5)
        /\ \A needs : Runs(n, <<Local(<<l, "k", "conv">>, {<<"c", <<l, "k">>, Width>>}, "c", Width, needs)>>, e4, e5)
  <2>1. IsContents(e4)
    BY <1>6 DEF Wrote
  <2>2. e4["c"] = <<n, <<l, "k">>>>
    BY <1>2, <1>4, <1>5, <1>6 DEF Wrote
  <2>3. \A read \in {<<"c", <<l, "k">>, Width>>} : Takes(n, e4, read)
    BY <1>1, <1>2, <2>2, TakesIt
  <2> QED BY <1>1, <1>2, <2>1, <2>3, LocalStep
<1>9. PICK e6 :
        /\ Wrote(n, e5, "d", <<l, "v", "conv">>, e6)
        /\ \A needs : Runs(n, <<Local(<<l, "v", "conv">>, {<<"d", <<l, "v">>, Width>>}, "d", Width, needs)>>, e5, e6)
  <2>1. IsContents(e5)
    BY <1>8 DEF Wrote
  <2>2. e5["d"] = <<n, <<l, "v">>>>
    BY <1>2, <1>5, <1>6, <1>8 DEF Wrote
  <2>3. \A read \in {<<"d", <<l, "v">>, Width>>} : Takes(n, e5, read)
    BY <1>1, <1>2, <2>2, TakesIt
  <2> QED BY <1>1, <1>2, <2>1, <2>3, LocalStep
<1>10. e6["b"] = <<n, <<l, "q", "conv">>>>
  BY <1>2, <1>6, <1>8, <1>9 DEF Wrote
<1>11. PICK e7 :
        /\ Wrote(n, e6, "a", <<l, "f_a">>, e7)
        /\ \A needs : Runs(n, <<Linear(<<l, "f_a">>, needs, <<"branch", <<l, "attn", "in">>>>, hidden, "a", dim)>>, e6, e7)
  <2>1. IsContents(e6)
    BY <1>9 DEF Wrote
  <2>2. e6["branch"] = <<n, <<l, "attn", "in">>>>
    BY <1>2, <1>7, <1>8, <1>9 DEF Wrote
  <2>3. Takes(n, e6, <<"branch", <<l, "attn", "in">>, hidden>>)
    BY <1>1, <1>2, <2>2, TakesIt
  <2> QED BY <1>1, <1>2, <2>1, <2>3, LinearStep
<1>12. PICK e8 :
        /\ Wrote(n, e7, "final", <<l, "f_b">>, e8)
        /\ \A needs : Runs(n, <<Linear(<<l, "f_b">>, needs, <<"a", <<l, "f_a">>>>, dim, "final", Width)>>, e7, e8)
  <2>1. IsContents(e7)
    BY <1>11 DEF Wrote
  <2>2. e7["a"] = <<n, <<l, "f_a">>>>
    BY <1>2, <1>11 DEF Wrote
  <2>3. Takes(n, e7, <<"a", <<l, "f_a">>, dim>>)
    BY <1>1, <1>2, <2>2, TakesIt
  <2> QED BY <1>1, <1>2, <2>1, <2>3, LinearStep
<1>13. e8["branch"] = <<n, <<l, "attn", "in">>>>
  BY <1>2, <1>7, <1>8, <1>9, <1>11, <1>12 DEF Wrote
<1>14. PICK e9 :
        /\ Wrote(n, e8, "forget", <<l, "forget">>, e9)
        /\ \A needs : Runs(n, <<Local(<<l, "forget">>, {<<"final", <<l, "f_b">>, Width>>}, "forget", Width, needs)>>, e8, e9)
  <2>1. IsContents(e8)
    BY <1>12 DEF Wrote
  <2>2. e8["final"] = <<n, <<l, "f_b">>>>
    BY <1>2, <1>12 DEF Wrote
  <2>3. \A read \in {<<"final", <<l, "f_b">>, Width>>} : Takes(n, e8, read)
    BY <1>1, <1>2, <2>2, TakesIt
  <2> QED BY <1>1, <1>2, <2>1, <2>3, LocalStep
<1>15. PICK e10 :
        /\ Wrote(n, e9, "a", <<l, "b">>, e10)
        /\ \A needs : Runs(n, <<Linear(<<l, "b">>, needs, <<"branch", <<l, "attn", "in">>>>, hidden, "a", heads)>>, e9, e10)
  <2>1. IsContents(e9)
    BY <1>14 DEF Wrote
  <2>2. e9["branch"] = <<n, <<l, "attn", "in">>>>
    BY <1>2, <1>13, <1>14 DEF Wrote
  <2>3. Takes(n, e9, <<"branch", <<l, "attn", "in">>, hidden>>)
    BY <1>1, <1>2, <2>2, TakesIt
  <2> QED BY <1>1, <1>2, <2>1, <2>3, LinearStep
<1>16. e10["b"] = <<n, <<l, "q", "conv">>>>
  BY <1>2, <1>10, <1>11, <1>12, <1>14, <1>15 DEF Wrote
<1>17. e10["c"] = <<n, <<l, "k", "conv">>>>
  BY <1>2, <1>8, <1>9, <1>11, <1>12, <1>14, <1>15 DEF Wrote
<1>18. e10["d"] = <<n, <<l, "v", "conv">>>>
  BY <1>2, <1>9, <1>11, <1>12, <1>14, <1>15 DEF Wrote
<1>19. PICK e11 :
        /\ Wrote(n, e10, "b", <<l, "recur">>, e11)
        /\ \A needs : Runs(n, <<Local(<<l, "recur">>, {<<"b", <<l, "q", "conv">>, Width>>, <<"c", <<l, "k", "conv">>, Width>>, <<"d", <<l, "v", "conv">>, Width>>, <<"forget", <<l, "forget">>, Width>>, <<"a", <<l, "b">>, heads>>}, "b", Width, needs)>>, e10, e11)
  <2>1. IsContents(e10)
    BY <1>15 DEF Wrote
  <2>2. e10["b"] = <<n, <<l, "q", "conv">>>>
    BY <1>2, <1>16 DEF Wrote
  <2>3. e10["c"] = <<n, <<l, "k", "conv">>>>
    BY <1>2, <1>17 DEF Wrote
  <2>4. e10["d"] = <<n, <<l, "v", "conv">>>>
    BY <1>2, <1>18 DEF Wrote
  <2>5. e10["forget"] = <<n, <<l, "forget">>>>
    BY <1>2, <1>14, <1>15 DEF Wrote
  <2>6. e10["a"] = <<n, <<l, "b">>>>
    BY <1>2, <1>15 DEF Wrote
  <2> DEFINE r1 == <<"b", <<l, "q", "conv">>, Width>>
             r2 == <<"c", <<l, "k", "conv">>, Width>>
             r3 == <<"d", <<l, "v", "conv">>, Width>>
             r4 == <<"forget", <<l, "forget">>, Width>>
             r5 == <<"a", <<l, "b">>, heads>>
  <2>7. Takes(n, e10, r1)
    BY <1>1, <1>2, <2>2, TakesIt
  <2>8. Takes(n, e10, r2)
    BY <1>1, <1>2, <2>3, TakesIt
  <2>9. Takes(n, e10, r3)
    BY <1>1, <1>2, <2>4, TakesIt
  <2>10. Takes(n, e10, r4)
    BY <1>1, <1>2, <2>5, TakesIt
  <2>11. Takes(n, e10, r5)
    BY <1>1, <1>2, <2>6, TakesIt
  <2> HIDE DEF r1, r2, r3, r4, r5
  <2>12. \A read \in {r1, r2, r3, r4, r5} : Takes(n, e10, read)
    BY <2>7, <2>8, <2>9, <2>10, <2>11
  <2>13. \A read \in {<<"b", <<l, "q", "conv">>, Width>>, <<"c", <<l, "k", "conv">>, Width>>, <<"d", <<l, "v", "conv">>, Width>>, <<"forget", <<l, "forget">>, Width>>, <<"a", <<l, "b">>, heads>>} : Takes(n, e10, read)
    BY <2>12, Zenon DEF r1, r2, r3, r4, r5
  <2> QED BY <1>1, <1>2, <2>1, <2>13, LocalStep
<1>20. PICK e12 :
        /\ Wrote(n, e11, "a", <<l, "g_a">>, e12)
        /\ \A needs : Runs(n, <<Linear(<<l, "g_a">>, needs, <<"branch", <<l, "attn", "in">>>>, hidden, "a", dim)>>, e11, e12)
  <2>1. IsContents(e11)
    BY <1>19 DEF Wrote
  <2>2. e11["branch"] = <<n, <<l, "attn", "in">>>>
    BY <1>2, <1>13, <1>14, <1>15, <1>19 DEF Wrote
  <2>3. Takes(n, e11, <<"branch", <<l, "attn", "in">>, hidden>>)
    BY <1>1, <1>2, <2>2, TakesIt
  <2> QED BY <1>1, <1>2, <2>1, <2>3, LinearStep
<1>21. PICK e13 :
        /\ Wrote(n, e12, "c", <<l, "g_b">>, e13)
        /\ \A needs : Runs(n, <<Linear(<<l, "g_b">>, needs, <<"a", <<l, "g_a">>>>, dim, "c", Width)>>, e12, e13)
  <2>1. IsContents(e12)
    BY <1>20 DEF Wrote
  <2>2. e12["a"] = <<n, <<l, "g_a">>>>
    BY <1>2, <1>20 DEF Wrote
  <2>3. Takes(n, e12, <<"a", <<l, "g_a">>, dim>>)
    BY <1>1, <1>2, <2>2, TakesIt
  <2> QED BY <1>1, <1>2, <2>1, <2>3, LinearStep
<1>22. PICK e14 :
        /\ Wrote(n, e13, "b", <<l, "gated">>, e14)
        /\ \A needs : Runs(n, <<Local(<<l, "gated">>, {<<"b", <<l, "recur">>, Width>>, <<"c", <<l, "g_b">>, Width>>}, "b", Width, needs)>>, e13, e14)
  <2>1. IsContents(e13)
    BY <1>21 DEF Wrote
  <2>2. e13["b"] = <<n, <<l, "recur">>>>
    BY <1>2, <1>19, <1>20, <1>21 DEF Wrote
  <2>3. e13["c"] = <<n, <<l, "g_b">>>>
    BY <1>2, <1>21 DEF Wrote
  <2> DEFINE r1 == <<"b", <<l, "recur">>, Width>>
             r2 == <<"c", <<l, "g_b">>, Width>>
  <2>4. Takes(n, e13, r1)
    BY <1>1, <1>2, <2>2, TakesIt
  <2>5. Takes(n, e13, r2)
    BY <1>1, <1>2, <2>3, TakesIt
  <2> HIDE DEF r1, r2
  <2>6. \A read \in {r1, r2} : Takes(n, e13, read)
    BY <2>4, <2>5
  <2>7. \A read \in {<<"b", <<l, "recur">>, Width>>, <<"c", <<l, "g_b">>, Width>>} : Takes(n, e13, read)
    BY <2>6, Zenon DEF r1, r2
  <2> QED BY <1>1, <1>2, <2>1, <2>7, LocalStep
<1>23. PICK e15 :
        /\ Wrote(n, e14, "a", <<l, "mixed">>, e15)
        /\ \A needs : Runs(n, <<Linear(<<l, "mixed">>, needs, <<"b", <<l, "gated">>>>, Width, "a", hidden)>>, e14, e15)
  <2>1. IsContents(e14)
    BY <1>22 DEF Wrote
  <2>2. e14["b"] = <<n, <<l, "gated">>>>
    BY <1>2, <1>22 DEF Wrote
  <2>3. Takes(n, e14, <<"b", <<l, "gated">>, Width>>)
    BY <1>1, <1>2, <2>2, TakesIt
  <2> QED BY <1>1, <1>2, <2>1, <2>3, LinearStep
<1>24. Spared(e0, e7)
  BY <1>2, <1>3, <1>4, <1>5, <1>6, <1>8, <1>9, <1>11 DEF Wrote, Spared
<1>25. Spared(e7, e15)
  BY <1>2, <1>12, <1>14, <1>15, <1>19, <1>20, <1>21, <1>22, <1>23 DEF Wrote, Spared
<1>26. Spared(e0, e15) /\ e15["a"] = <<n, <<l, "mixed">>>>
  BY <1>23, <1>24, <1>25 DEF Wrote, Spared
<1> DEFINE x == <<"branch", <<l, "attn", "in">>>>
           weight(name, rows, cols) ==
             Bf16(In(l, "self_attn." \o name \o "_proj.weight"), rows, cols)
           proj(name, to) == Linear(<<l, name>>, weight(name, Width, hidden), x, hidden, to, Width)
           conv(name, buf) ==
             Local(<<l, name, "conv">>, {<<buf, <<l, name>>, Width>>}, buf, Width,
                   {Shaped(In(l, "self_attn." \o name \o "_conv1d.weight"), "F32",
                           <<Width, 1, Model.short_conv_kernel_size>>)})
           narrow(name) == Linear(<<l, name>>, weight(name, dim, hidden), x, hidden, "a", dim)
           widen(name, from, to) ==
             Linear(<<l, name>>, weight(name, Width, dim), <<"a", <<l, from>>>>, dim, to, Width)
           forget == Local(<<l, "forget">>, {<<"final", <<l, "f_b">>, Width>>}, "forget", Width,
                           {Loaded(In(l, "self_attn.dt_bias"), Width),
                            Loaded(In(l, "self_attn.A_log"), heads)})
           b == Linear(<<l, "b">>, weight("b", heads, hidden), x, hidden, "a", heads)
           recur == Local(<<l, "recur">>,
                          {<<"b", <<l, "q", "conv">>, Width>>, <<"c", <<l, "k", "conv">>, Width>>,
                           <<"d", <<l, "v", "conv">>, Width>>, <<"forget", <<l, "forget">>, Width>>,
                           <<"a", <<l, "b">>, heads>>}, "b", Width, {})
           gated == Local(<<l, "gated">>,
                          {<<"b", <<l, "recur">>, Width>>, <<"c", <<l, "g_b">>, Width>>},
                          "b", Width, {Loaded(In(l, "self_attn.o_norm.weight"), dim)})
           mixed == Linear(<<l, "mixed">>, weight("o", hidden, Width), <<"b", <<l, "gated">>>>,
                           Width, "a", hidden)
           part1 == <<proj("q", "b"), proj("k", "c"), proj("v", "d"),
                      conv("q", "b"), conv("k", "c"), conv("v", "d")>>
           part2 == <<narrow("f_a"), widen("f_b", "f_a", "final"), forget, b>>
           part3 == <<recur, narrow("g_a"), widen("g_b", "g_a", "c"), gated, mixed>>
<1>27. Runs(n, part1, e0, e6)
  BY <1>3, <1>4, <1>5, <1>6, <1>8, <1>9, RunsSix, ZenonT(30)
<1>28. Runs(n, part2, e6, e10)
  BY <1>11, <1>12, <1>14, <1>15, RunsFour, Zenon
<1>29. Runs(n, part3, e10, e15)
  BY <1>19, <1>20, <1>21, <1>22, <1>23, RunsFive, Zenon
<1>30. Kda(l) = (part1 \o part2) \o part3
  <2>1. Kda(l) = <<proj("q", "b"), proj("k", "c"), proj("v", "d"),
                   conv("q", "b"), conv("k", "c"), conv("v", "d"),
                   narrow("f_a"), widen("f_b", "f_a", "final"), forget, b,
                   recur, narrow("g_a"), widen("g_b", "g_a", "c"), gated, mixed>>
    BY Zenon DEF Kda, GateScratch, hidden, dim, heads
  <2> HIDE DEF proj, conv, narrow, widen, forget, b, recur, gated, mixed
  <2>2. <<proj("q", "b"), proj("k", "c"), proj("v", "d"),
          conv("q", "b"), conv("k", "c"), conv("v", "d"),
          narrow("f_a"), widen("f_b", "f_a", "final"), forget, b,
          recur, narrow("g_a"), widen("g_b", "g_a", "c"), gated, mixed>>
          = (part1 \o part2) \o part3
    OBVIOUS
  <2> QED BY <2>1, <2>2, Zenon
<1> HIDE DEF part1, part2, part3
<1>31. Runs(n, part1 \o part2, e0, e10)
  BY <1>27, <1>28, RunsBoth, Zenon
<1>32. Runs(n, Kda(l), e0, e15)
  BY <1>29, <1>30, <1>31, RunsBoth, Zenon
<1> QED BY <1>26, <1>32, Zenon

(* The combination after a branch.                                         *)
Leaving(n, l, half, y, e) ==
  \E f : /\ Runs(n, Leave(l, half, y), e, f)
         /\ f["streams"] = <<n, <<l, half, "streams">>>> /\ f["taps"] = e["taps"]

(* So does the hyper-connection that closes half a layer.                  *)
LEMMA LeaveRuns ==
  ASSUME NEW n, NEW l, NEW half, NEW y, NEW e0, IsContents(e0),
         e0["a"] = <<n, y>>, e0["residual"] = <<n, <<l, half, "residual">>>>,
         e0["post"] = <<n, <<l, half, "post">>>>, e0["comb"] = <<n, <<l, half, "comb">>>>
  PROVE  Leaving(n, l, half, y, e0)
<1> DEFINE hc == Model.hyper_connection_streams
           hidden == Model.hidden_size
           flat == hc * hidden
           r1 == <<"residual", <<l, half, "residual">>, flat>>
           r2 == <<"a", y, hidden>>
           r3 == <<"post", <<l, half, "post">>, hc>>
           r4 == <<"comb", <<l, half, "comb">>, hc * hc>>
<1>1. /\ Room("streams", flat) /\ Room("a", hidden) /\ Room("residual", flat)
      /\ \A count : Room("post", count) /\ Room("comb", count)
  BY PinnedNumbers, Sizes DEF Room
<1>2. {"post", "comb", "residual", "streams", "a", "taps"} \subseteq Buffers
  BY BuffersAre
<1> HIDE DEF flat, hidden
<1>3. Takes(n, e0, r1) /\ Takes(n, e0, r2)
  BY <1>1, <1>2, TakesIt
<1>4. Takes(n, e0, r3) /\ Takes(n, e0, r4)
  BY <1>1, <1>2, TakesIt
<1> HIDE DEF r1, r2, r3, r4
<1>5. \A read \in {r1, r2, r3, r4} : Takes(n, e0, read)
  BY <1>3, <1>4
<1>6. PICK f : /\ Wrote(n, e0, "streams", <<l, half, "streams">>, f)
               /\ \A needs : Runs(n, <<Local(<<l, half, "streams">>, {r1, r2, r3, r4}, "streams",
                                             flat, needs)>>, e0, f)
  BY <1>1, <1>2, <1>5, LocalStep
<1>7. Runs(n, Leave(l, half, y), e0, f)
  BY <1>6, Zenon DEF Leave, r1, r2, r3, r4, flat, hidden
<1>8. f["streams"] = <<n, <<l, half, "streams">>>> /\ f["taps"] = e0["taps"]
  BY <1>2, <1>6 DEF Wrote
<1> QED BY <1>7, <1>8, Zenon DEF Leaving

(* What is not among the buffers a part works in keeps its value.          *)
Keeps(e, f, used) == \A b \in Buffers : b \notin used => f[b] = e[b]

(* A gated feed-forward leaves its result in y and changes b, c, d besides.*)
LEMMA GatedRuns ==
  ASSUME NEW n, NEW l, NEW tag, NEW inter, NEW y \in {"a", "c"}, NEW e0, IsContents(e0),
         Room("b", inter), Room("c", inter), Room("d", inter),
         e0["branch"] = <<n, <<l, "ffn", "in">>>>
  PROVE  \E f : /\ \A gate, up, down : Runs(n, Gated(l, tag, inter, y, gate, up, down), e0, f)
                /\ Keeps(e0, f, {"b", "c", "d", y}) /\ f[y] = <<n, tag \o <<"down">>>>
                /\ IsContents(f)
<1> DEFINE hidden == Model.hidden_size
           gateop == tag \o <<"gate">>
           upop == tag \o <<"up">>
           swop == tag \o <<"swiglu">>
           downop == tag \o <<"down">>
<1>1. /\ Room("branch", hidden) /\ Room(y, hidden)
      /\ Room("b", inter) /\ Room("c", inter) /\ Room("d", inter)
  BY PinnedNumbers, Sizes DEF Room
<1>2. {"a", "b", "c", "d", "branch", y} \subseteq Buffers
  BY BuffersAre
<1>3. y \in Buffers
  BY <1>2
<1> HIDE DEF hidden, gateop, upop, swop, downop
<1>4. PICK e1 :
        /\ Wrote(n, e0, "b", gateop, e1)
        /\ \A needs : Runs(n, <<Linear(gateop, needs, <<"branch", <<l, "ffn", "in">>>>, hidden, "b", inter)>>, e0, e1)
  <2>1. IsContents(e0)
    OBVIOUS
  <2>2. e0["branch"] = <<n, <<l, "ffn", "in">>>>
    OBVIOUS
  <2>3. Takes(n, e0, <<"branch", <<l, "ffn", "in">>, hidden>>)
    BY <1>1, <1>2, <2>2, TakesIt
  <2> QED BY <1>1, <1>2, <2>1, <2>3, LinearStep
<1>5. PICK e2 :
        /\ Wrote(n, e1, "c", upop, e2)
        /\ \A needs : Runs(n, <<Linear(upop, needs, <<"branch", <<l, "ffn", "in">>>>, hidden, "c", inter)>>, e1, e2)
  <2>1. IsContents(e1)
    BY <1>4 DEF Wrote
  <2>2. e1["branch"] = <<n, <<l, "ffn", "in">>>>
    BY <1>2, <1>4 DEF Wrote
  <2>3. Takes(n, e1, <<"branch", <<l, "ffn", "in">>, hidden>>)
    BY <1>1, <1>2, <2>2, TakesIt
  <2> QED BY <1>1, <1>2, <2>1, <2>3, LinearStep
<1>6. PICK e3 :
        /\ Wrote(n, e2, "d", swop, e3)
        /\ \A needs : Runs(n, <<Local(swop, {<<"b", gateop, inter>>, <<"c", upop, inter>>}, "d", inter, needs)>>, e2, e3)
  <2>1. IsContents(e2)
    BY <1>5 DEF Wrote
  <2>2. e2["b"] = <<n, gateop>>
    BY <1>2, <1>4, <1>5 DEF Wrote
  <2>3. e2["c"] = <<n, upop>>
    BY <1>2, <1>5 DEF Wrote
  <2> DEFINE r1 == <<"b", gateop, inter>>
             r2 == <<"c", upop, inter>>
  <2>4. Takes(n, e2, r1)
    BY <1>1, <1>2, <2>2, TakesIt
  <2>5. Takes(n, e2, r2)
    BY <1>1, <1>2, <2>3, TakesIt
  <2> HIDE DEF r1, r2
  <2>6. \A read \in {r1, r2} : Takes(n, e2, read)
    BY <2>4, <2>5
  <2>7. \A read \in {<<"b", gateop, inter>>, <<"c", upop, inter>>} : Takes(n, e2, read)
    BY <2>6, Zenon DEF r1, r2
  <2> QED BY <1>1, <1>2, <2>1, <2>7, LocalStep
<1>7. PICK e4 :
        /\ Wrote(n, e3, y, downop, e4)
        /\ \A needs : Runs(n, <<Linear(downop, needs, <<"d", swop>>, inter, y, hidden)>>, e3, e4)
  <2>1. IsContents(e3)
    BY <1>6 DEF Wrote
  <2>2. e3["d"] = <<n, swop>>
    BY <1>6 DEF Wrote
  <2>3. Takes(n, e3, <<"d", swop, inter>>)
    BY <1>1, <1>2, <2>2, TakesIt
  <2> QED BY <1>1, <1>3, <2>1, <2>3, LinearStep
<1>8. Keeps(e0, e4, {"b", "c", "d", y}) /\ e4[y] = <<n, downop>> /\ IsContents(e4)
  BY <1>4, <1>5, <1>6, <1>7 DEF Wrote, Keeps
<1>9. ASSUME NEW gate, NEW up, NEW down
     PROVE  Runs(n, Gated(l, tag, inter, y, gate, up, down), e0, e4)
  BY <1>4, <1>5, <1>6, <1>7, RunsFour, Zenon DEF Gated, hidden, gateop, upop, swop, downop
<1> QED BY <1>8, <1>9, Zenon DEF downop

LEMMA TaggedTwo == ASSUME NEW x1, NEW x2 PROVE <<x1>> \o <<x2>> = <<x1, x2>>
BY TupleOfTwo, Zenon
LEMMA TaggedBoth == ASSUME NEW x1, NEW x2, NEW x3 PROVE <<x1>> \o <<x2, x3>> = <<x1, x2, x3>>
<1>1. <<x1, x2, x3>> = <<x1>> \o <<x2, x3>>
  OBVIOUS
<1> QED BY <1>1, Zenon
LEMMA TaggedThree == ASSUME NEW x1, NEW x2, NEW x3 PROVE <<x1, x2>> \o <<x3>> = <<x1, x2, x3>>
BY TupleOfThree, Zenon
LEMMA TaggedFour ==
  ASSUME NEW x1, NEW x2, NEW x3, NEW x4
  PROVE  <<x1, x2, x3>> \o <<x4>> = <<x1, x2, x3, x4>>
<1>1. <<x1, x2, x3, x4>> = <<x1, x2, x3>> \o <<x4>>
  OBVIOUS
<1> QED BY <1>1, Zenon

(* The dense feed-forward runs.                                            *)
LEMMA DenseRuns ==
  ASSUME NEW n, NEW l, NEW e0, IsContents(e0), e0["branch"] = <<n, <<l, "ffn", "in">>>>
  PROVE  \E f : /\ Runs(n, DenseMlp(l), e0, f)
                /\ Spared(e0, f) /\ f["a"] = <<n, <<l, "mlp", "down">>>> /\ IsContents(f)
<1> DEFINE inter == Model.intermediate_size
<1>1. Room("b", inter) /\ Room("c", inter) /\ Room("d", inter)
  BY PinnedNumbers, Sizes DEF Room
<1> HIDE DEF inter
<1>2. PICK f : /\ \A gate, up, down : Runs(n, Gated(l, <<l, "mlp">>, inter, "a", gate, up, down), e0, f)
               /\ Keeps(e0, f, {"b", "c", "d", "a"}) /\ f["a"] = <<n, <<l, "mlp">> \o <<"down">>>>
               /\ IsContents(f)
  <2>1. "a" \in {"a", "c"}
    OBVIOUS
  <2> QED BY <1>1, <2>1, GatedRuns, Zenon
<1>3. Runs(n, DenseMlp(l), e0, f)
  BY <1>2, Zenon DEF DenseMlp, inter
<1>4. <<l, "mlp">> \o <<"down">> = <<l, "mlp", "down">>
  BY TaggedThree, Zenon
<1>5. Spared(e0, f)
  BY <1>2, BuffersAre DEF Keeps, Spared
<1>6. f["a"] = <<n, <<l, "mlp", "down">>>>
  BY <1>2, <1>4, Zenon
<1> QED BY <1>2, <1>3, <1>5, <1>6, Zenon

-----------------------------------------------------------------------------
(* The mixture of experts: what the experts hand on to each other.         *)
LEMMA AddRuns ==
  ASSUME NEW n, NEW l, NEW pick, NEW value, NEW more, NEW e0, IsContents(e0),
         e0["a"] = <<n, <<l, "sum", pick - 1>>>>, e0["c"] = <<n, value>>,
         \A read \in more : Takes(n, e0, read)
  PROVE  \E f : /\ Runs(n, MoeAdd(l, pick, value, more), e0, f)
                /\ Keeps(e0, f, {"a"}) /\ f["a"] = <<n, <<l, "sum", pick>>>> /\ IsContents(f)
<1> DEFINE hidden == Model.hidden_size
           r1 == <<"a", <<l, "sum", pick - 1>>, hidden>>
           r2 == <<"c", value, hidden>>
           op == <<l, "sum", pick>>
<1>1. Room("a", hidden) /\ Room("c", hidden)
  BY PinnedNumbers, Sizes DEF Room
<1>2. "a" \in Buffers /\ "c" \in Buffers
  BY BuffersAre
<1> HIDE DEF hidden
<1>3. Takes(n, e0, r1) /\ Takes(n, e0, r2)
  BY <1>1, <1>2, TakesIt
<1> HIDE DEF r1, r2, op
<1>4. \A read \in {r1, r2} \cup more : Takes(n, e0, read)
  BY <1>3
<1>5. PICK f : /\ Wrote(n, e0, "a", op, f)
               /\ \A needs : Runs(n, <<Local(op, {r1, r2} \cup more, "a", hidden, needs)>>, e0, f)
  BY <1>1, <1>2, <1>4, LocalStep
<1>6. Runs(n, MoeAdd(l, pick, value, more), e0, f)
  BY <1>5, Zenon DEF MoeAdd, r1, r2, op, hidden
<1>7. Keeps(e0, f, {"a"}) /\ f["a"] = <<n, op>> /\ IsContents(f)
  BY <1>5 DEF Wrote, Keeps
<1> QED BY <1>6, <1>7, Zenon DEF op

Picked(n, l, j, e, g) ==
  /\ IsContents(g) /\ g["branch"] = <<n, <<l, "ffn", "in">>>> /\ g["routes"] = <<n, <<l, "routes">>>>
  /\ g["a"] = <<n, <<l, "sum", j>>>>
  /\ g["residual"] = e["residual"] /\ g["post"] = e["post"] /\ g["comb"] = e["comb"]
  /\ g["taps"] = e["taps"]
MoeMarks(n, l, e) ==
  [j \in 0 .. 8 |-> {<<"branch", <<n, <<l, "ffn", "in">>>>>>, <<"routes", <<n, <<l, "routes">>>>>>,
                     <<"a", <<n, <<l, "sum", j>>>>>>, <<"residual", e["residual"]>>,
                     <<"post", e["post"]>>, <<"comb", e["comb"]>>, <<"taps", e["taps"]>>}]

LEMMA MoeMarked ==
  ASSUME NEW n, NEW l, NEW e, NEW j \in 0 .. 8, NEW g
  PROVE  Marked(MoeMarks(n, l, e)[j], g) <=> Picked(n, l, j, e, g)
<1>1. MoeMarks(n, l, e)[j]
        = {<<"branch", <<n, <<l, "ffn", "in">>>>>>, <<"routes", <<n, <<l, "routes">>>>>>,
           <<"a", <<n, <<l, "sum", j>>>>>>, <<"residual", e["residual"]>>,
           <<"post", e["post"]>>, <<"comb", e["comb"]>>, <<"taps", e["taps"]>>}
  BY Zenon DEF MoeMarks
<1> DEFINE v1 == <<n, <<l, "ffn", "in">>>>
           v2 == <<n, <<l, "routes">>>>
           v3 == <<n, <<l, "sum", j>>>>
           v4 == e["residual"]
           v5 == e["post"]
           v6 == e["comb"]
           v7 == e["taps"]
<1>2. Picked(n, l, j, e, g)
        <=> /\ IsContents(g)
            /\ g["branch"] = v1 /\ g["routes"] = v2 /\ g["a"] = v3 /\ g["residual"] = v4
            /\ g["post"] = v5 /\ g["comb"] = v6 /\ g["taps"] = v7
  BY Zenon DEF Picked
<1> HIDE DEF v1, v2, v3, v4, v5, v6, v7
<1> DEFINE m1 == <<"branch", v1>>
           m2 == <<"routes", v2>>
           m3 == <<"a", v3>>
           m4 == <<"residual", v4>>
           m5 == <<"post", v5>>
           m6 == <<"comb", v6>>
           m7 == <<"taps", v7>>
<1>3. MoeMarks(n, l, e)[j] = {m1, m2, m3, m4, m5, m6, m7}
  BY <1>1, Zenon DEF v1, v2, v3, v4, v5, v6, v7
<1>4. /\ m1[1] = "branch" /\ m2[1] = "routes" /\ m3[1] = "a" /\ m4[1] = "residual"
      /\ m5[1] = "post" /\ m6[1] = "comb" /\ m7[1] = "taps"
      /\ m1[2] = v1 /\ m2[2] = v2 /\ m3[2] = v3 /\ m4[2] = v4 /\ m5[2] = v5 /\ m6[2] = v6
      /\ m7[2] = v7
  OBVIOUS
<1> HIDE DEF m1, m2, m3, m4, m5, m6, m7
<1>5. Marked({m1, m2, m3, m4, m5, m6, m7}, g)
        <=> /\ IsContents(g)
            /\ g[m1[1]] = m1[2] /\ g[m2[1]] = m2[2] /\ g[m3[1]] = m3[2] /\ g[m4[1]] = m4[2]
            /\ g[m5[1]] = m5[2] /\ g[m6[1]] = m6[2] /\ g[m7[1]] = m7[2]
  BY DEF Marked
<1>6. Marked({m1, m2, m3, m4, m5, m6, m7}, g)
        <=> /\ IsContents(g)
            /\ g["branch"] = v1 /\ g["routes"] = v2 /\ g["a"] = v3 /\ g["residual"] = v4
            /\ g["post"] = v5 /\ g["comb"] = v6 /\ g["taps"] = v7
  BY <1>4, <1>5
<1> QED BY <1>2, <1>3, <1>6, Zenon

LEMMA ExpertRuns ==
  ASSUME NEW n, NEW l, NEW j \in 1 .. 8, NEW e, NEW g, Picked(n, l, j - 1, e, g)
  PROVE  \E f : Runs(n, MoeExpert(l, j), g, f) /\ Picked(n, l, j, e, f)
<1> DEFINE inter == Model.moe_intermediate_size
           k == Model.experts_per_token
           more == {<<"routes", <<l, "routes">>, k>>}
           tag == <<l, "expert", j>>
           down == <<l, "expert", j, "down">>
<1>1. Room("b", inter) /\ Room("c", inter) /\ Room("d", inter) /\ Room("routes", k)
  BY PinnedNumbers, Sizes DEF Room
<1>2. tag \o <<"down">> = down
  BY TaggedFour, Zenon
<1>3. {"a", "b", "c", "d", "branch", "routes", "residual", "post", "comb", "taps"} \subseteq Buffers
  BY BuffersAre
<1> HIDE DEF inter, k, tag, down
<1>4. PICK g1 : /\ \A gate, up, dn : Runs(n, Gated(l, tag, inter, "c", gate, up, dn), g, g1)
                /\ Keeps(g, g1, {"b", "c", "d", "c"}) /\ g1["c"] = <<n, tag \o <<"down">>>>
                /\ IsContents(g1)
  <2>1. "c" \in {"a", "c"}
    OBVIOUS
  <2>2. IsContents(g) /\ g["branch"] = <<n, <<l, "ffn", "in">>>>
    BY Zenon DEF Picked
  <2> QED BY <1>1, <2>1, <2>2, GatedRuns, Zenon
<1>5. g1["c"] = <<n, down>>
  BY <1>2, <1>4, Zenon
<1>6. g1["a"] = <<n, <<l, "sum", j - 1>>>> /\ g1["routes"] = <<n, <<l, "routes">>>>
  <2>1. g1["a"] = g["a"] /\ g1["routes"] = g["routes"]
    BY <1>3, <1>4 DEF Keeps
  <2> QED BY <2>1, Zenon DEF Picked
<1>7. \A read \in more : Takes(n, g1, read)
  BY <1>1, <1>3, <1>6, TakesIt
<1> HIDE DEF more
<1>8. PICK f : /\ Runs(n, MoeAdd(l, j, down, more), g1, f)
               /\ Keeps(g1, f, {"a"}) /\ f["a"] = <<n, <<l, "sum", j>>>> /\ IsContents(f)
  BY <1>4, <1>5, <1>6, <1>7, AddRuns, Zenon
<1>9. \A gate, up, dn : Runs(n, MoeGated(l, tag, gate, up, dn), g, g1)
  BY <1>4, Zenon DEF MoeGated, inter
<1>10. Runs(n, MoeExpert(l, j), g, f)
  BY <1>8, <1>9, RunsBoth, Zenon DEF MoeExpert, more, k, down, tag
<1>11. Picked(n, l, j, e, f)
  <2>1. /\ f["branch"] = g["branch"] /\ f["routes"] = g["routes"] /\ f["residual"] = g["residual"]
        /\ f["post"] = g["post"] /\ f["comb"] = g["comb"] /\ f["taps"] = g["taps"]
    BY <1>3, <1>4, <1>8 DEF Keeps
  <2> QED BY <1>8, <2>1, Zenon DEF Picked
<1> QED BY <1>10, <1>11, Zenon

LEMMA ExpertsRun ==
  ASSUME NEW n, NEW l, NEW e, NEW g, Picked(n, l, 0, e, g)
  PROVE  \E f : Runs(n, FlattenSeq(MoeExperts(l)), g, f) /\ Picked(n, l, 8, e, f)
<1> DEFINE marks == MoeMarks(n, l, e)
<1>1. /\ 8 \in Nat /\ 0 \in 0 .. 8 /\ 8 \in 0 .. 8
      /\ \A j \in 1 .. 8 : j \in 0 .. 8 /\ j - 1 \in 0 .. 8
  OBVIOUS
<1>2. \A j \in 1 .. 8 : MoeExperts(l)[j] = MoeExpert(l, j)
  BY PinnedNumbers DEF MoeExperts
<1>3. \A j \in 1 .. 8 : \A h : Marked(marks[j - 1], h) =>
        \E f : Runs(n, MoeExperts(l)[j], h, f) /\ Marked(marks[j], f)
  BY <1>1, <1>2, MoeMarked, ExpertRuns, Zenon
<1>4. Marked(marks[0], g)
  BY <1>1, MoeMarked, Zenon
<1> HIDE DEF marks
<1>5. PICK f : Runs(n, FlattenSeq(MoeExperts(l)), g, f) /\ Marked(marks[8], f)
  BY <1>1, <1>3, <1>4, ListingMoe, FlattenRuns, Zenon
<1>6. Picked(n, l, 8, e, f)
  BY <1>1, <1>5, MoeMarked, Zenon DEF marks
<1> QED BY <1>5, <1>6, Zenon

LEMMA RouteRuns ==
  ASSUME NEW n, NEW l, NEW e0, IsContents(e0), e0["branch"] = <<n, <<l, "ffn", "in">>>>
  PROVE  \E f : Runs(n, MoeRoute(l), e0, f) /\ Picked(n, l, 0, e0, f)
<1> DEFINE hidden == Model.hidden_size
           experts == Model.routed_experts
           k == Model.experts_per_token
<1>1. Room("branch", hidden) /\ Room("b", experts) /\ Room("routes", k) /\ Room("a", hidden)
  BY PinnedNumbers, Sizes DEF Room
<1>2. {"a", "b", "branch", "routes", "residual", "post", "comb", "taps"} \subseteq Buffers
  BY BuffersAre
<1> HIDE DEF hidden, experts, k
<1>3. PICK e1 :
        /\ Wrote(n, e0, "b", <<l, "router">>, e1)
        /\ \A needs : Runs(n, <<Linear(<<l, "router">>, needs, <<"branch", <<l, "ffn", "in">>>>, hidden, "b", experts)>>, e0, e1)
  <2>1. IsContents(e0)
    OBVIOUS
  <2>2. e0["branch"] = <<n, <<l, "ffn", "in">>>>
    OBVIOUS
  <2>3. Takes(n, e0, <<"branch", <<l, "ffn", "in">>, hidden>>)
    BY <1>1, <1>2, <2>2, TakesIt
  <2> QED BY <1>1, <1>2, <2>1, <2>3, LinearStep
<1>4. PICK e2 :
        /\ Wrote(n, e1, "routes", <<l, "routes">>, e2)
        /\ \A needs : Runs(n, <<Local(<<l, "routes">>, {<<"b", <<l, "router">>, experts>>}, "routes", k, needs)>>, e1, e2)
  <2>1. IsContents(e1)
    BY <1>3 DEF Wrote
  <2>2. e1["b"] = <<n, <<l, "router">>>>
    BY <1>2, <1>3 DEF Wrote
  <2>3. \A read \in {<<"b", <<l, "router">>, experts>>} : Takes(n, e1, read)
    BY <1>1, <1>2, <2>2, TakesIt
  <2> QED BY <1>1, <1>2, <2>1, <2>3, LocalStep
<1>5. PICK e3 :
        /\ Wrote(n, e2, "a", <<l, "sum", 0>>, e3)
        /\ \A needs : Runs(n, <<Local(<<l, "sum", 0>>, {}, "a", hidden, needs)>>, e2, e3)
  <2>1. IsContents(e2)
    BY <1>4 DEF Wrote
  <2> QED BY <1>1, <1>2, <2>1, LocalStep
<1>6. Runs(n, MoeRoute(l), e0, e3)
  BY <1>3, <1>4, <1>5, RunsThree, Zenon DEF MoeRoute, hidden, experts, k
<1>7. /\ e3["branch"] = e0["branch"] /\ e3["residual"] = e0["residual"] /\ e3["post"] = e0["post"]
     /\ e3["comb"] = e0["comb"] /\ e3["taps"] = e0["taps"]
  BY <1>2, <1>3, <1>4, <1>5 DEF Wrote
<1>8. IsContents(e3) /\ e3["a"] = <<n, <<l, "sum", 0>>>> /\ e3["routes"] = <<n, <<l, "routes">>>>
  BY <1>2, <1>4, <1>5 DEF Wrote
<1>9. Picked(n, l, 0, e0, e3)
  BY <1>7, <1>8, Zenon DEF Picked
<1> QED BY <1>6, <1>9, Zenon

(* The routed feed-forward runs, one expert after the other into c.        *)
LEMMA MoeRuns ==
  ASSUME NEW n, NEW l, NEW e0, IsContents(e0), e0["branch"] = <<n, <<l, "ffn", "in">>>>
  PROVE  \E f : /\ Runs(n, Moe(l), e0, f)
                /\ Spared(e0, f)
                /\ f["a"] = <<n, <<l, "sum", Model.experts_per_token + 1>>>>
<1> DEFINE inter == Model.moe_intermediate_size
           down == <<l, "shared", "down">>
<1>1. Room("b", inter) /\ Room("c", inter) /\ Room("d", inter)
  BY PinnedNumbers, Sizes DEF Room
<1>2. {"a", "b", "c", "d", "branch", "routes", "residual", "post", "comb", "taps"} \subseteq Buffers
  BY BuffersAre
<1>3. <<l, "shared">> \o <<"down">> = down
  BY TaggedThree, Zenon
<1> HIDE DEF inter, down
<1>4. PICK e1 : Runs(n, MoeRoute(l), e0, e1) /\ Picked(n, l, 0, e0, e1)
  BY RouteRuns, Zenon
<1>5. PICK e2 : Runs(n, FlattenSeq(MoeExperts(l)), e1, e2) /\ Picked(n, l, 8, e0, e2)
  BY <1>4, ExpertsRun, Zenon
<1>6. PICK e3 : /\ \A gate, up, dn : Runs(n, Gated(l, <<l, "shared">>, inter, "c", gate, up, dn), e2, e3)
                /\ Keeps(e2, e3, {"b", "c", "d", "c"}) /\ e3["c"] = <<n, <<l, "shared">> \o <<"down">>>>
                /\ IsContents(e3)
  <2>1. "c" \in {"a", "c"}
    OBVIOUS
  <2>2. IsContents(e2) /\ e2["branch"] = <<n, <<l, "ffn", "in">>>>
    BY <1>5, Zenon DEF Picked
  <2> QED BY <1>1, <2>1, <2>2, GatedRuns, Zenon
<1>7. e3["c"] = <<n, down>>
  BY <1>3, <1>6, Zenon
<1> DEFINE k == Model.experts_per_token
           last == k + 1
<1>8. last - 1 = 8 /\ k = 8
  BY PinnedNumbers
<1>9. e3["a"] = <<n, <<l, "sum", last - 1>>>>
  <2>1. e3["a"] = e2["a"]
    BY <1>2, <1>6 DEF Keeps
  <2>2. e2["a"] = <<n, <<l, "sum", 8>>>>
    BY <1>5, Zenon DEF Picked
  <2> QED BY <1>8, <2>1, <2>2
<1> HIDE DEF last, k
<1>10. PICK e4 : /\ Runs(n, MoeAdd(l, last, down, {}), e3, e4)
                 /\ Keeps(e3, e4, {"a"}) /\ e4["a"] = <<n, <<l, "sum", last>>>> /\ IsContents(e4)
  <2>1. \A read \in {} : Takes(n, e3, read)
    OBVIOUS
  <2> QED BY <1>6, <1>7, <1>9, <2>1, AddRuns, Zenon
<1>11. Runs(n, MoeShared(l), e2, e3)
  BY <1>6, Zenon DEF MoeShared, MoeGated, inter
<1>12. Runs(n, MoeRoute(l) \o FlattenSeq(MoeExperts(l)), e0, e2)
  BY <1>4, <1>5, RunsBoth, Zenon
<1>13. Runs(n, MoeRoute(l) \o FlattenSeq(MoeExperts(l)) \o MoeShared(l), e0, e3)
  BY <1>11, <1>12, RunsBoth, Zenon
<1>14. Runs(n, MoeRoute(l) \o FlattenSeq(MoeExperts(l)) \o MoeShared(l)
                 \o MoeAdd(l, last, down, {}), e0, e4)
  BY <1>10, <1>13, RunsBoth, Zenon
<1>15. Runs(n, Moe(l), e0, e4)
  BY <1>14, MoeParts, Zenon DEF last, k, down
<1>16. Spared(e0, e4)
  <2>1. /\ e4["residual"] = e2["residual"] /\ e4["post"] = e2["post"] /\ e4["comb"] = e2["comb"]
        /\ e4["taps"] = e2["taps"]
    BY <1>2, <1>6, <1>10 DEF Keeps
  <2> QED BY <1>5, <2>1, Zenon DEF Picked, Spared
<1> QED BY <1>10, <1>15, <1>16, Zenon DEF last, k

-----------------------------------------------------------------------------
(* The sparse mixer: what the expansions of the cached latents hand on.    *)
Expanded(n, l, j, s, e, g) ==
  /\ IsContents(g) /\ g["c"] = <<n, <<l, "q_b">>>> /\ g["latents"] = <<n, <<l, "latent">>>>
  /\ g["scores"] = IF j = 0 THEN s ELSE <<n, <<l, "scores", j>>>>
  /\ g["residual"] = e["residual"] /\ g["post"] = e["post"] /\ g["comb"] = e["comb"]
  /\ g["taps"] = e["taps"]

LEMMA ProjectRuns ==
  ASSUME NEW n, NEW l, NEW e0, IsContents(e0), e0["branch"] = <<n, <<l, "attn", "in">>>>
  PROVE  \E f : Runs(n, MlaProject(l), e0, f) /\ Expanded(n, l, 0, f["scores"], e0, f)
<1> DEFINE hidden == Model.hidden_size
           q == Model.q_lora_rank
           kv == Model.kv_lora_rank
<1>1. /\ Room("branch", hidden) /\ Room("a", kv) /\ Room("b", q) /\ Room("c", Queries)
      /\ Room("latents", kv)
  BY PinnedNumbers, Sizes DEF Room, Queries
<1>2. {"a", "b", "c", "branch", "latents", "scores", "residual", "post", "comb", "taps"} \subseteq Buffers
  BY BuffersAre
<1> HIDE DEF hidden, q, kv
<1>3. PICK e1 :
        /\ Wrote(n, e0, "b", <<l, "q_a">>, e1)
        /\ \A needs : Runs(n, <<Linear(<<l, "q_a">>, needs, <<"branch", <<l, "attn", "in">>>>, hidden, "b", q)>>, e0, e1)
  <2>1. IsContents(e0)
    OBVIOUS
  <2>2. e0["branch"] = <<n, <<l, "attn", "in">>>>
    OBVIOUS
  <2>3. Takes(n, e0, <<"branch", <<l, "attn", "in">>, hidden>>)
    BY <1>1, <1>2, <2>2, TakesIt
  <2> QED BY <1>1, <1>2, <2>1, <2>3, LinearStep
<1>4. PICK e2 :
        /\ Wrote(n, e1, "b", <<l, "q_a", "norm">>, e2)
        /\ \A needs : Runs(n, <<Local(<<l, "q_a", "norm">>, {<<"b", <<l, "q_a">>, q>>}, "b", q, needs)>>, e1, e2)
  <2>1. IsContents(e1)
    BY <1>3 DEF Wrote
  <2>2. e1["b"] = <<n, <<l, "q_a">>>>
    BY <1>2, <1>3 DEF Wrote
  <2>3. \A read \in {<<"b", <<l, "q_a">>, q>>} : Takes(n, e1, read)
    BY <1>1, <1>2, <2>2, TakesIt
  <2> QED BY <1>1, <1>2, <2>1, <2>3, LocalStep
<1>5. PICK e3 :
        /\ Wrote(n, e2, "c", <<l, "q_b">>, e3)
        /\ \A needs : Runs(n, <<Linear(<<l, "q_b">>, needs, <<"b", <<l, "q_a", "norm">>>>, q, "c", Queries)>>, e2, e3)
  <2>1. IsContents(e2)
    BY <1>4 DEF Wrote
  <2>2. e2["b"] = <<n, <<l, "q_a", "norm">>>>
    BY <1>2, <1>4 DEF Wrote
  <2>3. Takes(n, e2, <<"b", <<l, "q_a", "norm">>, q>>)
    BY <1>1, <1>2, <2>2, TakesIt
  <2> QED BY <1>1, <1>2, <2>1, <2>3, LinearStep
<1>6. PICK e4 :
        /\ Wrote(n, e3, "a", <<l, "kv_a">>, e4)
        /\ \A needs : Runs(n, <<Linear(<<l, "kv_a">>, needs, <<"branch", <<l, "attn", "in">>>>, hidden, "a", kv)>>, e3, e4)
  <2>1. IsContents(e3)
    BY <1>5 DEF Wrote
  <2>2. e3["branch"] = <<n, <<l, "attn", "in">>>>
    BY <1>2, <1>3, <1>4, <1>5 DEF Wrote
  <2>3. Takes(n, e3, <<"branch", <<l, "attn", "in">>, hidden>>)
    BY <1>1, <1>2, <2>2, TakesIt
  <2> QED BY <1>1, <1>2, <2>1, <2>3, LinearStep
<1>7. PICK e5 :
        /\ Wrote(n, e4, "a", <<l, "kv_a", "norm">>, e5)
        /\ \A needs : Runs(n, <<Local(<<l, "kv_a", "norm">>, {<<"a", <<l, "kv_a">>, kv>>}, "a", kv, needs)>>, e4, e5)
  <2>1. IsContents(e4)
    BY <1>6 DEF Wrote
  <2>2. e4["a"] = <<n, <<l, "kv_a">>>>
    BY <1>2, <1>6 DEF Wrote
  <2>3. \A read \in {<<"a", <<l, "kv_a">>, kv>>} : Takes(n, e4, read)
    BY <1>1, <1>2, <2>2, TakesIt
  <2> QED BY <1>1, <1>2, <2>1, <2>3, LocalStep
<1>8. PICK e6 :
        /\ Wrote(n, e5, "latents", <<l, "latent">>, e6)
        /\ \A needs : Runs(n, <<Local(<<l, "latent">>, {<<"a", <<l, "kv_a", "norm">>, kv>>}, "latents", kv, needs)>>, e5, e6)
  <2>1. IsContents(e5)
    BY <1>7 DEF Wrote
  <2>2. e5["a"] = <<n, <<l, "kv_a", "norm">>>>
    BY <1>2, <1>7 DEF Wrote
  <2>3. \A read \in {<<"a", <<l, "kv_a", "norm">>, kv>>} : Takes(n, e5, read)
    BY <1>1, <1>2, <2>2, TakesIt
  <2> QED BY <1>1, <1>2, <2>1, <2>3, LocalStep
<1>9. Runs(n, MlaProject(l), e0, e6)
  BY <1>3, <1>4, <1>5, <1>6, <1>7, <1>8, RunsSix, ZenonT(30) DEF MlaProject, MlaLinear, MlaNorm, hidden, q, kv
<1>10. /\ e6["residual"] = e0["residual"] /\ e6["post"] = e0["post"]
     /\ e6["comb"] = e0["comb"] /\ e6["taps"] = e0["taps"]
  BY <1>2, <1>3, <1>4, <1>5, <1>6, <1>7, <1>8 DEF Wrote
<1>11. /\ IsContents(e6) /\ e6["c"] = <<n, <<l, "q_b">>>> /\ e6["latents"] = <<n, <<l, "latent">>>>
  BY <1>2, <1>5, <1>6, <1>7, <1>8 DEF Wrote
<1>12. Expanded(n, l, 0, e6["scores"], e0, e6)
  BY <1>10, <1>11 DEF Expanded
<1> QED BY <1>9, <1>12, Zenon

MlaMarks(n, l, tokens, s, e) ==
  [j \in 0 .. tokens |->
     {<<"c", <<n, <<l, "q_b">>>>>>, <<"latents", <<n, <<l, "latent">>>>>>,
      <<"scores", IF j = 0 THEN s ELSE <<n, <<l, "scores", j>>>>>>, <<"residual", e["residual"]>>,
      <<"post", e["post"]>>, <<"comb", e["comb"]>>, <<"taps", e["taps"]>>}]

LEMMA MlaMarked ==
  ASSUME NEW n, NEW l, NEW tokens \in Nat, NEW s, NEW e, NEW j \in 0 .. tokens, NEW g
  PROVE  Marked(MlaMarks(n, l, tokens, s, e)[j], g) <=> Expanded(n, l, j, s, e, g)
<1> DEFINE v1 == <<n, <<l, "q_b">>>>
           v2 == <<n, <<l, "latent">>>>
           v3 == IF j = 0 THEN s ELSE <<n, <<l, "scores", j>>>>
           v4 == e["residual"]
           v5 == e["post"]
           v6 == e["comb"]
           v7 == e["taps"]
           m1 == <<"c", v1>>
           m2 == <<"latents", v2>>
           m3 == <<"scores", v3>>
           m4 == <<"residual", v4>>
           m5 == <<"post", v5>>
           m6 == <<"comb", v6>>
           m7 == <<"taps", v7>>
<1>1. MlaMarks(n, l, tokens, s, e)[j] = {m1, m2, m3, m4, m5, m6, m7}
  BY Zenon DEF MlaMarks
<1>2. Expanded(n, l, j, s, e, g)
        <=> /\ IsContents(g)
            /\ g["c"] = v1 /\ g["latents"] = v2 /\ g["scores"] = v3 /\ g["residual"] = v4
            /\ g["post"] = v5 /\ g["comb"] = v6 /\ g["taps"] = v7
  BY Zenon DEF Expanded
<1> HIDE DEF v1, v2, v3, v4, v5, v6, v7
<1>4. /\ m1[1] = "c" /\ m2[1] = "latents" /\ m3[1] = "scores" /\ m4[1] = "residual"
      /\ m5[1] = "post" /\ m6[1] = "comb" /\ m7[1] = "taps"
      /\ m1[2] = v1 /\ m2[2] = v2 /\ m3[2] = v3 /\ m4[2] = v4 /\ m5[2] = v5 /\ m6[2] = v6
      /\ m7[2] = v7
  OBVIOUS
<1> HIDE DEF m1, m2, m3, m4, m5, m6, m7
<1>5. Marked({m1, m2, m3, m4, m5, m6, m7}, g)
        <=> /\ IsContents(g)
            /\ g[m1[1]] = m1[2] /\ g[m2[1]] = m2[2] /\ g[m3[1]] = m3[2] /\ g[m4[1]] = m4[2]
            /\ g[m5[1]] = m5[2] /\ g[m6[1]] = m6[2] /\ g[m7[1]] = m7[2]
  BY DEF Marked
<1>6. Marked({m1, m2, m3, m4, m5, m6, m7}, g)
        <=> /\ IsContents(g)
            /\ g["c"] = v1 /\ g["latents"] = v2 /\ g["scores"] = v3 /\ g["residual"] = v4
            /\ g["post"] = v5 /\ g["comb"] = v6 /\ g["taps"] = v7
  BY <1>4, <1>5
<1> QED BY <1>1, <1>2, <1>6, Zenon

LEMMA Relabelled ==
  ASSUME NEW op1, NEW op, NEW needs, NEW from, NEW cols, NEW out, NEW rows
  PROVE  [Linear(op, needs, from, cols, out, rows) EXCEPT !.op = op1]
           = Linear(op1, needs, from, cols, out, rows)
<1> DEFINE reads == {<<from[1], from[2], cols>>}
           always == TRUE
           before == [op |-> op, gathered |-> always, reads |-> reads, out |-> out, rows |-> rows,
                      needs |-> needs]
           after == [op |-> op1, gathered |-> always, reads |-> reads, out |-> out, rows |-> rows,
                     needs |-> needs]
<1>1. Linear(op, needs, from, cols, out, rows) = before
  BY Zenon DEF Linear
<1>2. Linear(op1, needs, from, cols, out, rows) = after
  BY Zenon DEF Linear
<1> HIDE DEF reads, always
<1>3. [before EXCEPT !.op = op1] = after
  OBVIOUS
<1> HIDE DEF before, after
<1> QED BY <1>1, <1>2, <1>3, Zenon

LEMMA LatentRuns ==
  ASSUME NEW n, NEW l, NEW tokens \in Nat, NEW j \in 1 .. tokens, NEW s, NEW e, NEW e0,
         Expanded(n, l, j - 1, s, e, e0)
  PROVE  \E f : Runs(n, MlaLatent(l, tokens, j), e0, f) /\ Expanded(n, l, j, s, e, f)
<1> DEFINE kv == Model.kv_lora_rank
           most == Model.attention_heads * tokens
           op1 == <<l, "kv_b", j>>
           op2 == <<l, "scores", j>>
           latent == <<l, "latent">>
           r1 == <<"c", <<l, "q_b">>, Queries>>
           r2 == <<"d", op1, KvWidth>>
<1>1. /\ Room("c", Queries) /\ Room("d", KvWidth) /\ Room("latents", kv) /\ Room("scores", most)
  BY PinnedNumbers, Sizes DEF Room, Queries
<1>2. {"c", "d", "latents", "scores", "residual", "post", "comb", "taps"} \subseteq Buffers
  BY BuffersAre
<1>3. IsContents(e0) /\ e0["latents"] = <<n, latent>> /\ e0["c"] = <<n, <<l, "q_b">>>>
  BY Zenon DEF Expanded
<1> HIDE DEF kv, most, op1, op2, latent
<1>4. PICK e1 :
        /\ Wrote(n, e0, "d", op1, e1)
        /\ \A needs : Runs(n, <<Linear(op1, needs, <<"latents", latent>>, kv, "d", KvWidth)>>, e0, e1)
  <2>1. Takes(n, e0, <<"latents", latent, kv>>)
    BY <1>1, <1>2, <1>3, TakesIt
  <2> QED BY <1>1, <1>2, <1>3, <2>1, LinearStep
<1>5. Takes(n, e1, r1) /\ Takes(n, e1, r2)
  <2>1. e1["c"] = <<n, <<l, "q_b">>>> /\ e1["d"] = <<n, op1>>
    BY <1>2, <1>3, <1>4 DEF Wrote
  <2> QED BY <1>1, <1>2, <2>1, TakesIt
<1> HIDE DEF r1, r2
<1>6. PICK e2 :
        /\ Wrote(n, e1, "scores", op2, e2)
        /\ \A needs : Runs(n, <<Local(op2, {r1, r2}, "scores", most, needs)>>, e1, e2)
  <2>1. \A read \in {r1, r2} : Takes(n, e1, read)
    BY <1>5
  <2>2. IsContents(e1)
    BY <1>4 DEF Wrote
  <2> QED BY <1>1, <1>2, <2>1, <2>2, LocalStep
<1>7. Runs(n, MlaLatent(l, tokens, j), e0, e2)
  <2>2. MlaLatent(l, tokens, j)
          = << [MlaLinear(l, "kv_b", "kv_b_proj", <<"latents", latent>>, kv, "d", KvWidth)
                  EXCEPT !.op = op1], Local(op2, {r1, r2}, "scores", most, {}) >>
    BY Zenon DEF MlaLatent, kv, most, op1, op2, latent, r1, r2
  <2>3. PICK needs : [MlaLinear(l, "kv_b", "kv_b_proj", <<"latents", latent>>, kv, "d", KvWidth)
                        EXCEPT !.op = op1] = Linear(op1, needs, <<"latents", latent>>, kv, "d", KvWidth)
    <3> DEFINE w == Bf16(In(l, "self_attn." \o "kv_b_proj" \o ".weight"), KvWidth, kv)
               from == <<"latents", latent>>
               old == <<l, "kv_b">>
               to == "d"
               x == MlaLinear(l, "kv_b", "kv_b_proj", from, kv, to, KvWidth)
    <3>1. x = Linear(old, w, from, kv, to, KvWidth)
      BY Zenon DEF MlaLinear
    <3> HIDE DEF w, from, old, to, x
    <3>2. [Linear(old, w, from, kv, to, KvWidth) EXCEPT !.op = op1]
            = Linear(op1, w, from, kv, to, KvWidth)
      BY Relabelled
    <3>3. [x EXCEPT !.op = op1] = Linear(op1, w, from, kv, to, KvWidth)
      BY <3>1, <3>2, Zenon
    <3> QED BY <3>3, Zenon DEF from, to, x
  <2>4. Runs(n, << Linear(op1, needs, <<"latents", latent>>, kv, "d", KvWidth),
                   Local(op2, {r1, r2}, "scores", most, {}) >>, e0, e2)
    BY <1>4, <1>6, RunsTwo, Zenon
  <2> QED BY <2>2, <2>3, <2>4, Zenon
<1>8. /\ IsContents(e2) /\ e2["c"] = e0["c"] /\ e2["latents"] = e0["latents"]
      /\ e2["scores"] = <<n, op2>>
  BY <1>2, <1>4, <1>6 DEF Wrote
<1>9. /\ e2["residual"] = e0["residual"] /\ e2["post"] = e0["post"]
      /\ e2["comb"] = e0["comb"] /\ e2["taps"] = e0["taps"]
  BY <1>2, <1>4, <1>6 DEF Wrote
<1>10. j # 0
  OBVIOUS
<1>11. Expanded(n, l, j, s, e, e2)
  BY <1>8, <1>9, <1>10, Zenon DEF Expanded, op2
<1> QED BY <1>7, <1>11, Zenon

LEMMA LatentsRun ==
  ASSUME NEW n, NEW l, NEW tokens \in Nat, NEW s, NEW e, NEW e0, Expanded(n, l, 0, s, e, e0)
  PROVE  \E f : Runs(n, FlattenSeq(MlaLatents(l, tokens)), e0, f) /\ Expanded(n, l, tokens, s, e, f)
<1> DEFINE marks == MlaMarks(n, l, tokens, s, e)
<1>1. /\ 0 \in 0 .. tokens /\ tokens \in 0 .. tokens
      /\ \A j \in 1 .. tokens : j \in 0 .. tokens /\ j - 1 \in 0 .. tokens
  OBVIOUS
<1>2. \A j \in 1 .. tokens : MlaLatents(l, tokens)[j] = MlaLatent(l, tokens, j)
  BY Zenon DEF MlaLatents
<1>3. \A j \in 1 .. tokens : \A h : Marked(marks[j - 1], h) =>
        \E f : Runs(n, MlaLatents(l, tokens)[j], h, f) /\ Marked(marks[j], f)
  <2> SUFFICES ASSUME NEW j \in 1 .. tokens, NEW h, Marked(marks[j - 1], h)
               PROVE  \E f : Runs(n, MlaLatents(l, tokens)[j], h, f) /\ Marked(marks[j], f)
    BY Zenon
  <2>1. Expanded(n, l, j - 1, s, e, h)
    BY <1>1, MlaMarked, Zenon
  <2>2. PICK f : Runs(n, MlaLatent(l, tokens, j), h, f) /\ Expanded(n, l, j, s, e, f)
    BY <2>1, LatentRuns, Zenon
  <2>3. Marked(marks[j], f)
    BY <1>1, <2>2, MlaMarked, Zenon
  <2> QED BY <1>2, <2>2, <2>3, Zenon
<1>4. Marked(marks[0], e0)
  BY <1>1, MlaMarked, Zenon
<1> HIDE DEF marks
<1>5. PICK f : Runs(n, FlattenSeq(MlaLatents(l, tokens)), e0, f) /\ Marked(marks[tokens], f)
  BY <1>3, <1>4, ListingMla, FlattenRuns, Zenon
<1>6. Expanded(n, l, tokens, s, e, f)
  BY <1>1, <1>5, MlaMarked, Zenon DEF marks
<1> QED BY <1>5, <1>6, Zenon

(* A latent attention runs, whatever number of tokens it looks back on.    *)
LEMMA MlaRuns ==
  ASSUME NEW n, NEW l, NEW tokens \in Nat \ {0}, NEW e0, IsContents(e0),
         e0["branch"] = <<n, <<l, "attn", "in">>>>
  PROVE  \E f : /\ Runs(n, Mla(l, tokens), e0, f)
                /\ Spared(e0, f) /\ f["a"] = <<n, <<l, "mixed">>>>
<1> DEFINE hidden == Model.hidden_size
           most == Model.attention_heads * tokens
           score == <<l, "scores", tokens>>
           attended == <<l, "attended">>
           mixed == <<l, "mixed">>
<1>1. Room("scores", most) /\ Room("b", MlaValues) /\ Room("a", hidden)
  BY PinnedNumbers, Sizes DEF Room, MlaValues
<1>2. {"a", "b", "scores", "residual", "post", "comb", "taps"} \subseteq Buffers
  BY BuffersAre
<1>3. PICK e1 : Runs(n, MlaProject(l), e0, e1) /\ Expanded(n, l, 0, e1["scores"], e0, e1)
  BY ProjectRuns, Zenon
<1>4. PICK e2 : /\ Runs(n, FlattenSeq(MlaLatents(l, tokens)), e1, e2)
                /\ Expanded(n, l, tokens, e1["scores"], e0, e2)
  <2>1. tokens \in Nat
    OBVIOUS
  <2> QED BY <1>3, <2>1, LatentsRun, Zenon
<1>5. IsContents(e2) /\ e2["scores"] = <<n, score>>
  <2>1. tokens # 0
    OBVIOUS
  <2> QED BY <1>4, <2>1, Zenon DEF Expanded
<1> HIDE DEF hidden, most, score, attended, mixed
<1>6. PICK e3 :
        /\ Wrote(n, e2, "b", attended, e3)
        /\ \A needs : Runs(n, <<Local(attended, {<<"scores", score, most>>}, "b", MlaValues, needs)>>, e2, e3)
  <2>1. \A read \in {<<"scores", score, most>>} : Takes(n, e2, read)
    BY <1>1, <1>2, <1>5, TakesIt
  <2> QED BY <1>1, <1>2, <1>5, <2>1, LocalStep
<1>7. PICK e4 :
        /\ Wrote(n, e3, "a", mixed, e4)
        /\ \A needs : Runs(n, <<Linear(mixed, needs, <<"b", attended>>, MlaValues, "a", hidden)>>, e3, e4)
  <2>1. IsContents(e3) /\ e3["b"] = <<n, attended>>
    BY <1>6 DEF Wrote
  <2>2. Takes(n, e3, <<"b", attended, MlaValues>>)
    BY <1>1, <1>2, <2>1, TakesIt
  <2> QED BY <1>1, <1>2, <2>1, <2>2, LinearStep
<1>8. Runs(n, MlaOutput(l, tokens), e2, e4)
  BY <1>6, <1>7, RunsTwo, Zenon DEF MlaOutput, MlaLinear, hidden, most, score, attended, mixed
<1>9. Runs(n, MlaProject(l) \o FlattenSeq(MlaLatents(l, tokens)), e0, e2)
  BY <1>3, <1>4, RunsBoth, Zenon
<1>10. Runs(n, Mla(l, tokens), e0, e4)
  BY <1>8, <1>9, MlaParts, RunsBoth, Zenon
<1>11. Spared(e0, e4)
  <2>1. /\ e4["residual"] = e2["residual"] /\ e4["post"] = e2["post"] /\ e4["comb"] = e2["comb"]
        /\ e4["taps"] = e2["taps"]
    BY <1>2, <1>6, <1>7 DEF Wrote
  <2> QED BY <1>4, <2>1, Zenon DEF Expanded, Spared
<1>12. e4["a"] = <<n, mixed>>
  BY <1>7 DEF Wrote
<1> QED BY <1>10, <1>11, <1>12, Zenon DEF mixed

-----------------------------------------------------------------------------
(* A layer and a step.                                                     *)
Entering(n, l, half, before, norm, e) ==
  \E f : /\ Runs(n, Enter(l, half, before, norm), e, f)
         /\ Entered(n, l, half, f) /\ f["taps"] = e["taps"]

LEMMA EnterEnters ==
  ASSUME NEW n, NEW l, NEW half, NEW before, NEW norm, NEW e, IsContents(e),
         e["streams"] = <<n, before>>
  PROVE  Entering(n, l, half, before, norm, e)
<1>1. \E f : Runs(n, Enter(l, half, before, norm), e, f) /\ Entered(n, l, half, f)
             /\ f["taps"] = e["taps"]
  BY EnterRuns, SMT
<1> QED BY <1>1, Zenon DEF Entering

Passing(n, layer, before, tokens, e) ==
  \E f : /\ Runs(n, LayerProgram(layer, before, tokens), e, f)
         /\ f["streams"] = <<n, <<layer.index, "ffn", "streams">>>>
         /\ f["taps"] = e["taps"]

(* A whole layer runs and leaves its streams and the taps.                 *)
LEMMA LayerRuns ==
  ASSUME NEW n, NEW layer, NEW before, NEW tokens \in Nat \ {0}, NEW e0, IsContents(e0),
         e0["streams"] = <<n, before>>
  PROVE  Passing(n, layer, before, tokens, e0)
<1> DEFINE l == layer.index
           mixed == <<l, "mixed">>
           p1 == Enter(l, "attn", before, "input_layernorm.weight")
           p2 == Mixer(layer, tokens)
           p3 == Leave(l, "attn", mixed)
           p4 == Enter(l, "ffn", <<l, "attn", "streams">>, "post_attention_layernorm.weight")
           p5 == Feed(layer)
           p6 == Leave(l, "ffn", Fed(layer))
<1>1. LayerProgram(layer, before, tokens) = p1 \o p2 \o p3 \o p4 \o p5 \o p6
  BY LayerParts, Zenon
<1> HIDE DEF l, mixed
<1>2. PICK e1 : Runs(n, p1, e0, e1) /\ Entered(n, l, "attn", e1) /\ e1["taps"] = e0["taps"]
  <2>1. Entering(n, l, "attn", before, "input_layernorm.weight", e0)
    BY EnterEnters
  <2> QED BY <2>1, Zenon DEF Entering
<1>3. IsContents(e1) /\ e1["branch"] = <<n, <<l, "attn", "in">>>>
  BY <1>2, RunsKeep, Zenon DEF Entered
<1>4. PICK e2 : Runs(n, p2, e1, e2) /\ Spared(e1, e2) /\ e2["a"] = <<n, mixed>>
  <2>1. CASE layer.mixer = "kda"
    <3>1. p2 = Kda(l)
      BY <2>1, Zenon DEF Mixer, l
    <3>2. \E f : Runs(n, Kda(l), e1, f) /\ Spared(e1, f) /\ f["a"] = <<n, <<l, "mixed">>>>
      BY <1>3, KdaRuns, Zenon
    <3> QED BY <3>1, <3>2, Zenon DEF mixed
  <2>2. CASE layer.mixer # "kda"
    <3>1. p2 = Mla(l, tokens)
      BY <2>2, Zenon DEF Mixer, l
    <3>2. \E f : Runs(n, Mla(l, tokens), e1, f) /\ Spared(e1, f) /\ f["a"] = <<n, <<l, "mixed">>>>
      BY <1>3, MlaRuns, Zenon
    <3> QED BY <3>1, <3>2, Zenon DEF mixed
  <2> QED BY <2>1, <2>2, Zenon
<1>5. PICK e3 : /\ Runs(n, p3, e2, e3)
                /\ e3["streams"] = <<n, <<l, "attn", "streams">>>> /\ e3["taps"] = e2["taps"]
  <2>1. /\ IsContents(e2) /\ e2["residual"] = <<n, <<l, "attn", "residual">>>>
        /\ e2["post"] = <<n, <<l, "attn", "post">>>> /\ e2["comb"] = <<n, <<l, "attn", "comb">>>>
    BY <1>2, <1>4, RunsKeep, Zenon DEF Spared, Entered
  <2>2. Leaving(n, l, "attn", mixed, e2)
    BY <1>4, <2>1, LeaveRuns
  <2> QED BY <2>2, Zenon DEF Leaving
<1>6. IsContents(e3)
  BY <1>5, RunsKeep, Zenon
<1>7. PICK e4 : Runs(n, p4, e3, e4) /\ Entered(n, l, "ffn", e4) /\ e4["taps"] = e3["taps"]
  <2>1. Entering(n, l, "ffn", <<l, "attn", "streams">>, "post_attention_layernorm.weight", e3)
    BY <1>5, <1>6, EnterEnters
  <2> QED BY <2>1, Zenon DEF Entering
<1>8. IsContents(e4) /\ e4["branch"] = <<n, <<l, "ffn", "in">>>>
  BY <1>7, RunsKeep, Zenon DEF Entered
<1>9. PICK e5 : Runs(n, p5, e4, e5) /\ Spared(e4, e5) /\ e5["a"] = <<n, Fed(layer)>>
  <2>1. CASE layer.ffn = "dense"
    <3>1. p5 = DenseMlp(l) /\ Fed(layer) = <<l, "mlp", "down">>
      BY <2>1, Zenon DEF Feed, Fed, l
    <3> QED BY <1>8, <3>1, DenseRuns, Zenon
  <2>2. CASE layer.ffn # "dense"
    <3>1. p5 = Moe(l) /\ Fed(layer) = <<l, "sum", Model.experts_per_token + 1>>
      BY <2>2, Zenon DEF Feed, Fed, l
    <3> QED BY <1>8, <3>1, MoeRuns, Zenon
  <2> QED BY <2>1, <2>2, Zenon
<1>10. PICK e6 : /\ Runs(n, p6, e5, e6)
                 /\ e6["streams"] = <<n, <<l, "ffn", "streams">>>> /\ e6["taps"] = e5["taps"]
  <2>1. /\ IsContents(e5) /\ e5["residual"] = <<n, <<l, "ffn", "residual">>>>
        /\ e5["post"] = <<n, <<l, "ffn", "post">>>> /\ e5["comb"] = <<n, <<l, "ffn", "comb">>>>
    BY <1>7, <1>9, RunsKeep, Zenon DEF Spared, Entered
  <2>2. Leaving(n, l, "ffn", Fed(layer), e5)
    BY <1>9, <2>1, LeaveRuns
  <2> QED BY <2>2, Zenon DEF Leaving
<1> HIDE DEF p1, p2, p3, p4, p5, p6
<1>11. Runs(n, p1 \o p2, e0, e2)
  BY <1>2, <1>4, RunsBoth, Zenon
<1>12. Runs(n, p1 \o p2 \o p3, e0, e3)
  BY <1>5, <1>11, RunsBoth, Zenon
<1>13. Runs(n, p1 \o p2 \o p3 \o p4, e0, e4)
  BY <1>7, <1>12, RunsBoth, Zenon
<1>14. Runs(n, p1 \o p2 \o p3 \o p4 \o p5, e0, e5)
  BY <1>9, <1>13, RunsBoth, Zenon
<1>15. Runs(n, p1 \o p2 \o p3 \o p4 \o p5 \o p6, e0, e6)
  BY <1>10, <1>14, RunsBoth, Zenon
<1>16. e6["taps"] = e0["taps"]
  BY <1>2, <1>4, <1>5, <1>7, <1>9, <1>10, Zenon DEF Spared
<1> QED BY <1>1, <1>10, <1>15, <1>16, Zenon DEF l, Passing

(* The taps after the layers below index i.                                *)
TapAfter(i) == IF i <= 5 THEN 0 ELSE IF i <= 14 THEN 5 ELSE IF i <= 24 THEN 14
               ELSE IF i <= 33 THEN 24 ELSE IF i <= 42 THEN 33 ELSE 42

LEMMA TapsBefore ==
  ASSUME NEW l \in {5, 14, 24, 33, 42}
  PROVE  LET earlier == {t \in {5, 14, 24, 33, 42} : t < l}
         IN  IF l = 5 THEN earlier = {} ELSE earlier # {} /\ Max(earlier) = TapAfter(l)
<1> DEFINE earlier == {t \in {5, 14, 24, 33, 42} : t < l}
<1>1. l # 5 => /\ TapAfter(l) \in earlier
               /\ \A t \in earlier : TapAfter(l) >= t
  BY DEF TapAfter
<1>2. l = 5 => earlier = {}
  OBVIOUS
<1>3. \A t \in earlier : t \in Int
  OBVIOUS
<1> HIDE DEF earlier
<1>4. ASSUME l # 5 PROVE earlier # {} /\ Max(earlier) = TapAfter(l)
  <2>1. Max(earlier) \in earlier /\ \A t \in earlier : Max(earlier) >= t
    BY <1>1, <1>4 DEF Max
  <2>2. Max(earlier) \in Int /\ TapAfter(l) \in Int
    BY <1>1, <1>3, <1>4, <2>1
  <2> QED BY <1>1, <1>4, <2>1, <2>2
<1> QED BY <1>2, <1>4 DEF earlier

(* What the taps hold when the layers below index i are done: t before the *)
(* first of them.                                                          *)
TapValue(i, t) == IF i <= 5 THEN t ELSE <<2, <<TapAfter(i), "tap">>>>

LEMMA TapRange == Range(TapLayers) = {5, 14, 24, 33, 42}
<1>1. DOMAIN TapLayers = {1, 2, 3, 4, 5}
  BY DEF TapLayers
<1>2. /\ TapLayers[1] = 5 /\ TapLayers[2] = 14 /\ TapLayers[3] = 24 /\ TapLayers[4] = 33
      /\ TapLayers[5] = 42
  BY DEF TapLayers
<1> HIDE DEF TapLayers
<1> QED BY <1>1, <1>2 DEF Range

Tapping(l, t, e) ==
  \E f : /\ Runs(2, RecordTap(l), e, f)
         /\ f["streams"] = e["streams"] /\ f["taps"] = TapValue(l + 1, t)

LEMMA TapRuns ==
  ASSUME NEW l \in 0 .. 44, NEW t, NEW e0, IsContents(e0),
         e0["streams"] = <<2, <<l, "ffn", "streams">>>>, e0["taps"] = TapValue(l, t)
  PROVE  Tapping(l, t, e0)
<1> DEFINE taps == {5, 14, 24, 33, 42}
<1>1. CASE l \notin taps
  <2>1. RecordTap(l) = << >>
    BY <1>1, TapRange, Zenon DEF RecordTap
  <2>2. TapValue(l + 1, t) = TapValue(l, t)
    BY <1>1 DEF TapValue, TapAfter
  <2>3. Runs(2, << >>, e0, e0)
    BY RunsNone, Zenon
  <2> QED BY <2>1, <2>2, <2>3, Zenon DEF Tapping
<1>2. CASE l \in taps
  <2> DEFINE flat == Model.hyper_connection_streams * Model.hidden_size
             hidden == Model.hidden_size
             earlier == {k \in taps : k < l}
             r1 == <<"streams", <<l, "ffn", "streams">>, flat>>
             r2 == <<"taps", <<Max(earlier), "tap">>, hidden>>
             more == IF earlier = {} THEN {} ELSE {r2}
             op == <<l, "tap">>
  <2>1. Room("streams", flat) /\ Room("taps", hidden)
    BY PinnedNumbers, Sizes DEF Room
  <2>2. "streams" \in Buffers /\ "taps" \in Buffers
    BY BuffersAre
  <2>3. RecordTap(l) = << Local(op, {r1} \cup more, "taps", hidden, {}) >>
    BY <1>2, TapRange, Zenon DEF RecordTap
  <2> HIDE DEF flat, hidden
  <2>4. Takes(2, e0, r1)
    BY <2>1, <2>2, TakesIt
  <2>5. earlier # {} => Takes(2, e0, r2)
    <3> SUFFICES ASSUME earlier # {} PROVE Takes(2, e0, r2)
      OBVIOUS
    <3> DEFINE v == <<Max(earlier), "tap">>
    <3>1. l # 5 /\ Max(earlier) = TapAfter(l)
      BY <1>2, TapsBefore
    <3>2. ~(l <= 5)
      BY <1>2, <3>1
    <3>3. e0["taps"] = <<2, <<TapAfter(l), "tap">>>>
      BY <3>2, Zenon DEF TapValue
    <3>4. e0["taps"] = <<2, v>>
      BY <3>1, <3>3, Zenon
    <3> HIDE DEF v
    <3>5. r2 = <<"taps", v, hidden>>
      BY Zenon DEF v
    <3> HIDE DEF r2
    <3>6. r2[1] = "taps" /\ r2[2] = v /\ r2[3] = hidden
      BY <3>5
    <3> QED BY <2>1, <2>2, <3>4, <3>6, Zenon DEF Takes, Finds, DueIn, Room
  <2> HIDE DEF earlier, r1, r2, op
  <2>6. \A read \in {r1} \cup more : Takes(2, e0, read)
    BY <2>4, <2>5
  <2> HIDE DEF more
  <2>7. PICK f : /\ Wrote(2, e0, "taps", op, f)
                 /\ \A needs : Runs(2, <<Local(op, {r1} \cup more, "taps", hidden, needs)>>, e0, f)
    BY <2>1, <2>2, <2>6, LocalStep
  <2>8. Runs(2, RecordTap(l), e0, f)
    BY <2>3, <2>7, Zenon
  <2>9. f["streams"] = e0["streams"] /\ f["taps"] = <<2, op>>
    BY <2>2, <2>7 DEF Wrote
  <2>10. ~(l + 1 <= 5) /\ TapAfter(l + 1) = l
    BY <1>2 DEF TapAfter
  <2>11. TapValue(l + 1, t) = <<2, op>>
    BY <2>10, Zenon DEF TapValue, op
  <2> QED BY <2>8, <2>9, <2>11, Zenon DEF Tapping
<1> QED BY <1>1, <1>2, Zenon

(* The streams and the taps between the layers of a step.                  *)
Between(n, i, capture, t, g) ==
  /\ IsContents(g) /\ g["streams"] = <<n, LeftBy(i)>>
  /\ g["taps"] = IF capture THEN TapValue(i, t) ELSE t
StepMarks(n, capture, t) ==
  [i \in 0 .. 45 |-> {<<"streams", <<n, LeftBy(i)>>>>,
                      <<"taps", IF capture THEN TapValue(i, t) ELSE t>>}]

LEMMA StepMarked ==
  ASSUME NEW n, NEW capture, NEW t, NEW i \in 0 .. 45, NEW g
  PROVE  Marked(StepMarks(n, capture, t)[i], g) <=> Between(n, i, capture, t, g)
<1> DEFINE v1 == <<n, LeftBy(i)>>
           v2 == IF capture THEN TapValue(i, t) ELSE t
           m1 == <<"streams", v1>>
           m2 == <<"taps", v2>>
<1>1. StepMarks(n, capture, t)[i] = {m1, m2}
  BY Zenon DEF StepMarks
<1>2. Between(n, i, capture, t, g) <=> IsContents(g) /\ g["streams"] = v1 /\ g["taps"] = v2
  BY Zenon DEF Between
<1> HIDE DEF v1, v2
<1>3. m1[1] = "streams" /\ m2[1] = "taps" /\ m1[2] = v1 /\ m2[2] = v2
  OBVIOUS
<1> HIDE DEF m1, m2
<1>4. Marked({m1, m2}, g) <=> IsContents(g) /\ g[m1[1]] = m1[2] /\ g[m2[1]] = m2[2]
  BY DEF Marked
<1>5. Marked({m1, m2}, g) <=> IsContents(g) /\ g["streams"] = v1 /\ g["taps"] = v2
  BY <1>3, <1>4
<1> QED BY <1>1, <1>2, <1>5, Zenon

Layering(n, i, tokens, capture, t, e) ==
  \E f : Runs(n, StepLayer(i, tokens, capture), e, f) /\ Between(n, i, capture, t, f)

LEMMA StepLayerRuns ==
  ASSUME NEW n, NEW i \in 1 .. 45, NEW tokens \in Nat \ {0}, NEW capture \in BOOLEAN, NEW t,
         capture => n = 2, NEW e0, Between(n, i - 1, capture, t, e0)
  PROVE  Layering(n, i, tokens, capture, t, e0)
<1> DEFINE layer == Model.layers[i]
           l == i - 1
           program == LayerProgram(layer, LeftBy(l), tokens)
           left == <<l, "ffn", "streams">>
<1>1. layer.index = l /\ LeftBy(i) = left
  <2>1. layer.index = l
    BY PinnedLayers
  <2>2. i # 0
    OBVIOUS
  <2> QED BY <2>1, <2>2 DEF LeftBy
<1>2. l \in 0 .. 44 /\ l + 1 = i
  OBVIOUS
<1>3. IsContents(e0) /\ e0["streams"] = <<n, LeftBy(l)>>
  BY Zenon DEF Between
<1> HIDE DEF layer, l
<1>4. PICK e1 : /\ Runs(n, program, e0, e1)
                /\ e1["streams"] = <<n, <<layer.index, "ffn", "streams">>>>
                /\ e1["taps"] = e0["taps"]
  <2>1. Passing(n, layer, LeftBy(l), tokens, e0)
    BY <1>3, LayerRuns
  <2> QED BY <2>1, Zenon DEF Passing, program
<1>5. IsContents(e1) /\ e1["streams"] = <<n, left>>
  BY <1>1, <1>4, RunsKeep, Zenon
<1>6. StepLayer(i, tokens, capture) = program \o (IF capture THEN RecordTap(layer.index) ELSE <<>>)
  BY Zenon DEF StepLayer, layer, l
<1> HIDE DEF program
<1>7. CASE capture
  <2>1. e0["taps"] = TapValue(l, t)
    BY <1>7, Zenon DEF Between, l
  <2>2. PICK f : /\ Runs(2, RecordTap(l), e1, f)
                 /\ f["streams"] = e1["streams"] /\ f["taps"] = TapValue(l + 1, t)
    <3>1. n = 2
      BY <1>7
    <3>2. e1["streams"] = <<2, <<l, "ffn", "streams">>>> /\ e1["taps"] = TapValue(l, t)
      BY <1>4, <1>5, <2>1, <3>1, Zenon
    <3>3. Tapping(l, t, e1)
      BY <1>2, <1>5, <3>2, TapRuns
    <3> QED BY <3>3, Zenon DEF Tapping
  <2>3. StepLayer(i, tokens, capture) = program \o RecordTap(l)
    BY <1>1, <1>6, <1>7, Zenon
  <2>4. Runs(n, StepLayer(i, tokens, capture), e0, f)
    BY <1>4, <1>7, <2>2, <2>3, RunsBoth, Zenon
  <2>5. Between(n, i, capture, t, f)
    BY <1>1, <1>2, <1>5, <1>7, <2>2, <2>4, RunsKeep, Zenon DEF Between
  <2> QED BY <2>4, <2>5, Zenon DEF Layering
<1>8. CASE ~capture
  <2>1. Runs(n, <<>>, e1, e1)
    BY <1>5, RunsNone, Zenon
  <2>2. StepLayer(i, tokens, capture) = program \o <<>>
    BY <1>6, <1>8, Zenon
  <2>3. Runs(n, StepLayer(i, tokens, capture), e0, e1)
    BY <1>4, <2>1, <2>2, RunsBoth, Zenon
  <2>4. Between(n, i, capture, t, e1)
    BY <1>1, <1>4, <1>5, <1>8, Zenon DEF Between
  <2> QED BY <2>3, <2>4, Zenon DEF Layering
<1> QED BY <1>7, <1>8

(* A step leaves the hidden states, and the taps if it captures them.      *)
Stepping(n, tokens, capture, e) ==
  \E f : /\ Runs(n, StepProgram(tokens, capture), e, f)
         /\ f["final"] = <<n, <<"hidden">>>>
         /\ f["taps"] = IF capture THEN <<2, <<42, "tap">>>> ELSE e["taps"]

LEMMA BeginRuns ==
  ASSUME NEW n, NEW capture, NEW e, IsContents(e)
  PROVE  \E f : Runs(n, StepBegin, e, f) /\ Between(n, 0, capture, e["taps"], f)
<1>1. Room("streams", Flat)
  BY PinnedNumbers, Sizes DEF Room, Flat
<1>2. "streams" \in Buffers /\ "taps" \in Buffers
  BY BuffersAre
<1>3. \A read \in {} : Takes(n, e, read)
  OBVIOUS
<1>4. PICK f : /\ Wrote(n, e, "streams", <<"embed">>, f)
               /\ \A needs : Runs(n, <<Local(<<"embed">>, {}, "streams", Flat, needs)>>, e, f)
  BY <1>1, <1>2, <1>3, LocalStep
<1>5. Runs(n, StepBegin, e, f)
  BY <1>4, Zenon DEF StepBegin
<1>6. IsContents(f) /\ f["streams"] = <<n, <<"embed">>>> /\ f["taps"] = e["taps"]
  BY <1>2, <1>4 DEF Wrote
<1>7. LeftBy(0) = <<"embed">> /\ TapValue(0, e["taps"]) = e["taps"]
  BY DEF LeftBy, TapValue
<1>8. Between(n, 0, capture, e["taps"], f)
  BY <1>6, <1>7, Zenon DEF Between
<1> QED BY <1>5, <1>8, Zenon

Ending(n, e) ==
  \E f : Runs(n, StepEnd, e, f) /\ f["final"] = <<n, <<"hidden">>>> /\ f["taps"] = e["taps"]

LEMMA EndRuns ==
  ASSUME NEW n, NEW e, IsContents(e), e["streams"] = <<n, LeftBy(45)>>
  PROVE  Ending(n, e)
<1> DEFINE left == LeftBy(45)
           hidden == Model.hidden_size
           reads == {<<"streams", left, Flat>>}
<1>1. Room("streams", Flat) /\ Room("final", hidden)
  BY PinnedNumbers, Sizes DEF Room, Flat
<1>2. "streams" \in Buffers /\ "taps" \in Buffers /\ "final" \in Buffers
  BY BuffersAre
<1> HIDE DEF left, hidden
<1>3. Takes(n, e, <<"streams", left, Flat>>)
  BY <1>1, <1>2, TakesIt DEF left
<1>4. \A read \in reads : Takes(n, e, read)
  BY <1>3
<1>5. Len(Model.layers) = 45
  BY PinnedLayers
<1>6. \E needs : StepEnd = <<Local(<<"hidden">>, reads, "final", hidden, needs)>>
  BY <1>5, Zenon DEF StepEnd, left, hidden
<1> HIDE DEF reads
<1>7. PICK f : /\ Wrote(n, e, "final", <<"hidden">>, f)
               /\ \A needs : Runs(n, <<Local(<<"hidden">>, reads, "final", hidden, needs)>>, e, f)
  BY <1>1, <1>2, <1>4, LocalStep
<1>8. Runs(n, StepEnd, e, f)
  BY <1>6, <1>7, Zenon
<1>9. f["final"] = <<n, <<"hidden">>>> /\ f["taps"] = e["taps"]
  BY <1>2, <1>7 DEF Wrote
<1> QED BY <1>8, <1>9, Zenon DEF Ending

(* A step of the model runs and leaves the hidden state and its taps.      *)
LEMMA StepRuns ==
  ASSUME NEW n, NEW tokens \in Nat \ {0}, NEW capture \in BOOLEAN, capture => n = 2,
         NEW e, IsContents(e)
  PROVE  Stepping(n, tokens, capture, e)
<1> DEFINE t == e["taps"]
           ss == StepLayers(tokens, capture)
           marks == StepMarks(n, capture, t)
<1>1. PICK e1 : Runs(n, StepBegin, e, e1) /\ Between(n, 0, capture, t, e1)
  BY BeginRuns, Zenon
<1> HIDE DEF t
<1>2. Listings(45, ss) /\ 45 \in Nat
  BY ListingStep
<1>3. \A i \in 1 .. 45 : ss[i] = StepLayer(i, tokens, capture)
  BY PinnedLayers DEF StepLayers
<1> HIDE DEF ss
<1>4. \A i \in 0 .. 45 : \A g : Marked(marks[i], g) <=> Between(n, i, capture, t, g)
  BY StepMarked
<1> HIDE DEF marks
<1>5. ASSUME NEW j \in 1 .. 45, NEW g, Marked(marks[j - 1], g)
      PROVE  \E f : Runs(n, ss[j], g, f) /\ Marked(marks[j], f)
  <2>1. j \in 0 .. 45 /\ j - 1 \in 0 .. 45
    OBVIOUS
  <2>2. Between(n, j - 1, capture, t, g)
    BY <1>4, <1>5, <2>1, Zenon
  <2>3. Layering(n, j, tokens, capture, t, g)
    BY <2>2, StepLayerRuns
  <2>4. PICK f : Runs(n, StepLayer(j, tokens, capture), g, f) /\ Between(n, j, capture, t, f)
    BY <2>3, Zenon DEF Layering
  <2>5. Marked(marks[j], f)
    BY <1>4, <2>1, <2>4, Zenon
  <2> QED BY <1>3, <2>4, <2>5, Zenon
<1>6. 0 \in 0 .. 45 /\ 45 \in 0 .. 45
  OBVIOUS
<1>7. Marked(marks[0], e1)
  BY <1>1, <1>4, <1>6, Zenon
<1>8. PICK e2 : Runs(n, FlattenSeq(ss), e1, e2) /\ Marked(marks[45], e2)
  BY <1>2, <1>5, <1>7, FlattenRuns, Zenon
<1>9. Between(n, 45, capture, t, e2)
  BY <1>4, <1>6, <1>8, Zenon
<1>10. IsContents(e2) /\ e2["streams"] = <<n, LeftBy(45)>>
  BY <1>9, Zenon DEF Between
<1>11. Ending(n, e2)
  BY <1>10, EndRuns
<1>12. PICK f : Runs(n, StepEnd, e2, f) /\ f["final"] = <<n, <<"hidden">>>> /\ f["taps"] = e2["taps"]
  BY <1>11, Zenon DEF Ending
<1>13. Runs(n, StepBegin \o FlattenSeq(ss), e, e2)
  BY <1>1, <1>8, RunsBoth, Zenon
<1>14. Runs(n, StepBegin \o FlattenSeq(ss) \o StepEnd, e, f)
  BY <1>12, <1>13, RunsBoth, Zenon
<1>15. Runs(n, StepProgram(tokens, capture), e, f)
  BY <1>14, StepParts, Zenon DEF ss
<1>16. TapValue(45, t) = <<2, <<42, "tap">>>>
  BY DEF TapValue, TapAfter
<1>17. f["taps"] = IF capture THEN <<2, <<42, "tap">>>> ELSE e["taps"]
  BY <1>9, <1>12, <1>16, Zenon DEF Between, t
<1> QED BY <1>12, <1>15, <1>17, Zenon DEF Stepping

-----------------------------------------------------------------------------
(***************************************************************************)
(* The head and a proposal of the draft model: its five layers read the    *)
(* taps of the prompt, and leave them and the scratch of the model alone.  *)
(***************************************************************************)

(* The head reads the hidden states the step has left.                     *)
Heading(n, e) == \E f : Runs(n, HeadProgram, e, f) /\ f["taps"] = e["taps"]

(* The head runs on the hidden state of this step.                         *)
LEMMA HeadRuns ==
  ASSUME NEW n, NEW e, IsContents(e), e["final"] = <<n, <<"hidden">>>>
  PROVE  Heading(n, e)
<1> DEFINE hidden == Model.hidden_size
           from == <<"final", <<"hidden">>>>
<1>1. Room("final", hidden) /\ Room("logits", Model.vocab_size)
  BY PinnedNumbers, Sizes DEF Room
<1>2. "final" \in Buffers /\ "taps" \in Buffers /\ "logits" \in Buffers
  BY BuffersAre
<1> HIDE DEF hidden
<1>3. from[1] = "final" /\ from[2] = <<"hidden">>
  OBVIOUS
<1>4. Takes(n, e, <<"final", <<"hidden">>, hidden>>)
  BY <1>1, <1>2, TakesIt
<1>5. Takes(n, e, <<from[1], from[2], hidden>>)
  BY <1>3, <1>4
<1> HIDE DEF from
<1>6. PICK f : /\ Wrote(n, e, "logits", <<"logits">>, f)
               /\ \A needs : Runs(n, <<Linear(<<"logits">>, needs, from, hidden, "logits",
                                              Model.vocab_size)>>, e, f)
  BY <1>1, <1>2, <1>5, LinearStep
<1>7. Runs(n, HeadProgram, e, f)
  BY <1>6, Zenon DEF HeadProgram, from, hidden
<1>8. f["taps"] = e["taps"]
  BY <1>2, <1>6 DEF Wrote
<1> QED BY <1>7, <1>8, Zenon DEF Heading

-----------------------------------------------------------------------------
(* The labels of a draft are numbered on from the layers of the model.     *)
Label(l, op) == <<Len(Model.layers) + l>> \o op
DraftRead(r) == <<r[1], <<Len(Model.layers) + r[2]>> \o r[3], Block * DraftHidden>>

(* The buffers of a draft are not the scratch of the model.                *)
Roomy == {"context", "draft", "normed", "prepared", "saved", "branched", "draft_logits", "path"}

LEMMA RoomyAre ==
  /\ Roomy \subseteq Buffers /\ "taps" \notin Roomy /\ "taps" \in Buffers
  /\ \A b \in Roomy : \A count : Room(b, count)
BY BuffersAre, Sizes DEF Roomy, Room

LEMMA RowsThere ==
  ASSUME NEW n, NEW e, NEW b \in Roomy, NEW l, NEW op, e[b] = <<n, Label(l, op)>>
  PROVE  Takes(n, e, DraftRead(<<b, l, op>>))
<1> DEFINE r == <<b, l, op>>
           v == Label(l, op)
           count == Block * DraftHidden
<1>1. r[1] = b /\ r[2] = l /\ r[3] = op
  OBVIOUS
<1> HIDE DEF r
<1>2. DraftRead(r) = <<b, v, count>>
  BY <1>1, Zenon DEF DraftRead, Label
<1>3. b \in Buffers /\ b # "taps" /\ Room(b, count)
  BY RoomyAre, Zenon
<1> HIDE DEF v, count
<1>4. Takes(n, e, <<b, v, count>>)
  BY <1>3, TakesIt DEF v
<1> QED BY <1>2, <1>4, Zenon DEF r

Drafts(n, l, op, reads, out, e, f) ==
  /\ Wrote(n, e, out, Label(l, op), f)
  /\ \A needs : Runs(n, <<Draft(l, op, reads, out, needs)>>, e, f)

LEMMA DraftStep ==
  ASSUME NEW n, NEW l, NEW op, NEW reads, NEW out \in Roomy, NEW e, IsContents(e),
         \A r \in reads : Takes(n, e, DraftRead(r))
  PROVE  \E f : Drafts(n, l, op, reads, out, e, f)
<1> DEFINE label == Label(l, op)
           found == {DraftRead(r) : r \in reads}
           rows == Block * DraftHidden
<1>1. out \in Buffers /\ Room(out, rows)
  BY RoomyAre, Zenon
<1>2. \A read \in found : Takes(n, e, read)
  BY Zenon
<1>3. \A needs : Draft(l, op, reads, out, needs) = Local(label, found, out, rows, needs)
  BY Zenon DEF Draft, Label, DraftRead
<1> HIDE DEF label, found, rows
<1>4. PICK f : /\ Wrote(n, e, out, label, f)
               /\ \A needs : Runs(n, <<Local(label, found, out, rows, needs)>>, e, f)
  BY <1>1, <1>2, LocalStep
<1>5. \A needs : Runs(n, <<Draft(l, op, reads, out, needs)>>, e, f)
  BY <1>3, <1>4, Zenon
<1> QED BY <1>4, <1>5, Zenon DEF Drafts, label

(* What a branch leaves.                                                   *)
Drafted(n, l, op, e, f) ==
  /\ IsContents(f) /\ f["draft"] = <<n, Label(l, op)>>
  /\ f["context"] = e["context"] /\ f["taps"] = e["taps"]
Branching(n, l, half, before, norm, inner, e) ==
  \E f : /\ Runs(n, DraftBranch(l, half, before, norm, inner), e, f)
         /\ Drafted(n, l, <<half, "out">>, e, f)

LEMMA BranchRuns ==
  ASSUME NEW n, NEW l, NEW half, NEW b1, NEW b2, NEW norm, NEW inner, NEW e0, IsContents(e0),
         e0["draft"] = <<n, Label(b1, b2)>>, e0["context"] = <<n, Label(0, <<"context">>)>>
  PROVE  Branching(n, l, half, <<b1, b2>>, norm, inner, e0)
<1> DEFINE before == <<b1, b2>>
           r1 == {<<"draft", before[1], before[2]>>}
           r2 == {<<"normed", l, <<half, "normed">>>>}
           r4 == {<<"prepared", l, <<half, "prepared">>>>}
                   \cup IF half = "attention" THEN {<<"context", 0, <<"context">>>>} ELSE {}
           r5 == {<<"draft", before[1], before[2]>>, <<"branched", l, <<half, "branch">>>>,
                  <<"saved", l, <<half, "saved">>>>}
<1>1. before[1] = b1 /\ before[2] = b2
  OBVIOUS
<1>2. {"context", "draft", "normed", "prepared", "saved", "branched"} \subseteq Roomy
  BY DEF Roomy
<1> HIDE DEF before
<1>3. ASSUME NEW e, e["draft"] = <<n, Label(b1, b2)>>
      PROVE  Takes(n, e, DraftRead(<<"draft", before[1], before[2]>>))
  BY <1>1, <1>2, <1>3, RowsThere
<1>4. PICK e1 : Drafts(n, l, <<half, "normed">>, r1, "normed", e0, e1)
  <2>1. \A r \in r1 : Takes(n, e0, DraftRead(r))
    BY <1>3
  <2> HIDE DEF r1
  <2> QED BY <1>2, <2>1, DraftStep
<1>5. /\ IsContents(e1) /\ e1["normed"] = <<n, Label(l, <<half, "normed">>)>>
      /\ e1["draft"] = e0["draft"] /\ e1["context"] = e0["context"] /\ e1["taps"] = e0["taps"]
  BY <1>2, <1>4, RoomyAre DEF Drafts, Wrote
<1>6. PICK e2 : Drafts(n, l, <<half, "prepared">>, r2, "prepared", e1, e2)
  <2>1. \A r \in r2 : Takes(n, e1, DraftRead(r))
    BY <1>2, <1>5, RowsThere
  <2> HIDE DEF r2
  <2> QED BY <1>2, <1>5, <2>1, DraftStep
<1>7. /\ IsContents(e2) /\ e2["normed"] = e1["normed"]
      /\ e2["prepared"] = <<n, Label(l, <<half, "prepared">>)>>
      /\ e2["draft"] = e1["draft"] /\ e2["context"] = e1["context"] /\ e2["taps"] = e1["taps"]
  BY <1>2, <1>6, RoomyAre DEF Drafts, Wrote
<1>8. PICK e3 : Drafts(n, l, <<half, "saved">>, r2, "saved", e2, e3)
  <2>1. \A r \in r2 : Takes(n, e2, DraftRead(r))
    BY <1>2, <1>5, <1>7, RowsThere
  <2> HIDE DEF r2
  <2> QED BY <1>2, <1>7, <2>1, DraftStep
<1>9. /\ IsContents(e3) /\ e3["prepared"] = e2["prepared"]
      /\ e3["saved"] = <<n, Label(l, <<half, "saved">>)>>
      /\ e3["draft"] = e2["draft"] /\ e3["context"] = e2["context"] /\ e3["taps"] = e2["taps"]
  BY <1>2, <1>8, RoomyAre DEF Drafts, Wrote
<1>10. PICK e4 : Drafts(n, l, <<half, "branch">>, r4, "branched", e3, e4)
  <2>1. Takes(n, e3, DraftRead(<<"prepared", l, <<half, "prepared">>>>))
    BY <1>2, <1>7, <1>9, RowsThere
  <2>2. Takes(n, e3, DraftRead(<<"context", 0, <<"context">>>>))
    BY <1>2, <1>5, <1>7, <1>9, RowsThere
  <2>3. \A r \in r4 : Takes(n, e3, DraftRead(r))
    BY <2>1, <2>2
  <2> HIDE DEF r4
  <2> QED BY <1>2, <1>9, <2>3, DraftStep
<1>11. /\ IsContents(e4) /\ e4["saved"] = e3["saved"]
       /\ e4["branched"] = <<n, Label(l, <<half, "branch">>)>>
       /\ e4["draft"] = e3["draft"] /\ e4["context"] = e3["context"] /\ e4["taps"] = e3["taps"]
  BY <1>2, <1>10, RoomyAre DEF Drafts, Wrote
<1>12. PICK e5 : Drafts(n, l, <<half, "out">>, r5, "draft", e4, e5)
  <2>1. Takes(n, e4, DraftRead(<<"draft", before[1], before[2]>>))
    BY <1>3, <1>5, <1>7, <1>9, <1>11
  <2>2. Takes(n, e4, DraftRead(<<"branched", l, <<half, "branch">>>>))
    BY <1>2, <1>11, RowsThere
  <2>3. Takes(n, e4, DraftRead(<<"saved", l, <<half, "saved">>>>))
    BY <1>2, <1>9, <1>11, RowsThere
  <2>4. \A r \in r5 : Takes(n, e4, DraftRead(r))
    BY <2>1, <2>2, <2>3
  <2> HIDE DEF r5
  <2> QED BY <1>2, <1>11, <2>4, DraftStep
<1>13. /\ IsContents(e5) /\ e5["draft"] = <<n, Label(l, <<half, "out">>)>>
       /\ e5["context"] = e4["context"] /\ e5["taps"] = e4["taps"]
  BY <1>2, <1>12, RoomyAre DEF Drafts, Wrote
<1>14. Runs(n, DraftBranch(l, half, before, norm, inner), e0, e5)
  <2> DEFINE x1(needs) == Draft(l, <<half, "normed">>, r1, "normed", needs)
             x2(needs) == Draft(l, <<half, "prepared">>, r2, "prepared", needs)
             x3(needs) == Draft(l, <<half, "saved">>, r2, "saved", needs)
             x4(needs) == Draft(l, <<half, "branch">>, r4, "branched", needs)
             x5(needs) == Draft(l, <<half, "out">>, r5, "draft", needs)
  <2>1. \E n1, n2, n3, n4, n5 :
          DraftBranch(l, half, before, norm, inner) = <<x1(n1), x2(n2), x3(n3), x4(n4), x5(n5)>>
    BY Zenon DEF DraftBranch, r1, r2, r4, r5
  <2>2. /\ \A needs : Runs(n, <<x1(needs)>>, e0, e1)
        /\ \A needs : Runs(n, <<x2(needs)>>, e1, e2)
        /\ \A needs : Runs(n, <<x3(needs)>>, e2, e3)
        /\ \A needs : Runs(n, <<x4(needs)>>, e3, e4)
        /\ \A needs : Runs(n, <<x5(needs)>>, e4, e5)
    BY <1>4, <1>6, <1>8, <1>10, <1>12, Zenon DEF Drafts
  <2> HIDE DEF x1, x2, x3, x4, x5
  <2> QED BY <2>1, <2>2, RunsFive, Zenon
<1>15. e5["context"] = e0["context"] /\ e5["taps"] = e0["taps"]
  BY <1>5, <1>7, <1>9, <1>11, <1>13
<1>16. Drafted(n, l, <<half, "out">>, e0, e5)
  BY <1>13, <1>15, Zenon DEF Drafted
<1> QED BY <1>14, <1>16, Zenon DEF Branching, before

(* The label a draft layer starts from: the rows, then the layer before.   *)
Start(l) == IF l = 0 THEN Label(0, <<"rows">>) ELSE Label(l - 1, <<"mlp", "out">>)
Stacked(n, l, t, e) ==
  /\ IsContents(e) /\ e["draft"] = <<n, Start(l)>>
  /\ e["context"] = <<n, Label(0, <<"context">>)>> /\ e["taps"] = t
Stacking(n, l, t, e) == \E f : Runs(n, DraftLayer(l), e, f) /\ Stacked(n, l + 1, t, f)

LEMMA DraftLayerRuns ==
  ASSUME NEW n, NEW l \in Nat, NEW t, NEW e0, Stacked(n, l, t, e0)
  PROVE  Stacking(n, l, t, e0)
<1>1. PICK b1, b2 : /\ Label(b1, b2) = Start(l)
                    /\ <<b1, b2>> = IF l = 0 THEN <<0, <<"rows">>>> ELSE <<l - 1, <<"mlp", "out">>>>
  <2>1. CASE l = 0
    BY <2>1, Zenon DEF Start
  <2>2. CASE l # 0
    BY <2>2, Zenon DEF Start
  <2> QED BY <2>1, <2>2
<1>2. /\ IsContents(e0) /\ e0["draft"] = <<n, Label(b1, b2)>>
      /\ e0["context"] = <<n, Label(0, <<"context">>)>> /\ e0["taps"] = t
  BY <1>1, Zenon DEF Stacked
<1> DEFINE before == <<b1, b2>>
           out == <<"attention", "out">>
<1>3. PICK norm1, inner1, norm2, inner2 :
        DraftLayer(l) = DraftBranch(l, "attention", before, norm1, inner1)
                        \o DraftBranch(l, "mlp", <<l, out>>, norm2, inner2)
  BY <1>1, Zenon DEF DraftLayer
<1>4. PICK e1 : /\ Runs(n, DraftBranch(l, "attention", before, norm1, inner1), e0, e1)
                /\ Drafted(n, l, out, e0, e1)
  <2>1. Branching(n, l, "attention", before, norm1, inner1, e0)
    BY <1>2, BranchRuns
  <2> QED BY <2>1, Zenon DEF Branching
<1> HIDE DEF before, out
<1>5. /\ IsContents(e1) /\ e1["draft"] = <<n, Label(l, out)>>
      /\ e1["context"] = <<n, Label(0, <<"context">>)>> /\ e1["taps"] = t
  BY <1>2, <1>4, Zenon DEF Drafted
<1>6. PICK e2 : /\ Runs(n, DraftBranch(l, "mlp", <<l, out>>, norm2, inner2), e1, e2)
                /\ Drafted(n, l, <<"mlp", "out">>, e1, e2)
  <2>1. Branching(n, l, "mlp", <<l, out>>, norm2, inner2, e1)
    BY <1>5, BranchRuns
  <2> QED BY <2>1, Zenon DEF Branching
<1>7. Runs(n, DraftLayer(l), e0, e2)
  BY <1>3, <1>4, <1>6, RunsBoth, Zenon
<1>8. Start(l + 1) = Label(l, <<"mlp", "out">>)
  BY DEF Start
<1>9. Stacked(n, l + 1, t, e2)
  BY <1>5, <1>6, <1>8, Zenon DEF Stacked, Drafted
<1> QED BY <1>7, <1>9, Zenon DEF Stacking

StackMarks(n, t) ==
  [i \in 0 .. 5 |-> {<<"draft", <<n, Start(i)>>>>, <<"context", <<n, Label(0, <<"context">>)>>>>,
                     <<"taps", t>>}]

LEMMA StackMarked ==
  ASSUME NEW n, NEW t, NEW i \in 0 .. 5, NEW g
  PROVE  Marked(StackMarks(n, t)[i], g) <=> Stacked(n, i, t, g)
<1> DEFINE v1 == <<n, Start(i)>>
           v2 == <<n, Label(0, <<"context">>)>>
           m1 == <<"draft", v1>>
           m2 == <<"context", v2>>
           m3 == <<"taps", t>>
<1>1. StackMarks(n, t)[i] = {m1, m2, m3}
  BY Zenon DEF StackMarks
<1>2. Stacked(n, i, t, g) <=>
        IsContents(g) /\ g["draft"] = v1 /\ g["context"] = v2 /\ g["taps"] = t
  BY Zenon DEF Stacked
<1> HIDE DEF v1, v2
<1>3. /\ m1[1] = "draft" /\ m2[1] = "context" /\ m3[1] = "taps"
      /\ m1[2] = v1 /\ m2[2] = v2 /\ m3[2] = t
  OBVIOUS
<1> HIDE DEF m1, m2, m3
<1>4. Marked({m1, m2, m3}, g) <=>
        IsContents(g) /\ g[m1[1]] = m1[2] /\ g[m2[1]] = m2[2] /\ g[m3[1]] = m3[2]
  BY DEF Marked
<1>5. Marked({m1, m2, m3}, g) <=>
        IsContents(g) /\ g["draft"] = v1 /\ g["context"] = v2 /\ g["taps"] = t
  BY <1>3, <1>4
<1> QED BY <1>1, <1>2, <1>5, Zenon

LEMMA StackRuns ==
  ASSUME NEW n, NEW t, NEW e, Stacked(n, 0, t, e)
  PROVE  \E f : Runs(n, FlattenSeq(DraftStack), e, f) /\ Stacked(n, 5, t, f)
<1> DEFINE ss == DraftStack
           marks == StackMarks(n, t)
<1>1. Listings(5, ss) /\ 5 \in Nat
  BY ListingDraft
<1>2. \A i \in 1 .. 5 : ss[i] = DraftLayer(i - 1)
  BY DEF DraftStack, DraftLayers
<1> HIDE DEF ss
<1>3. \A i \in 0 .. 5 : \A g : Marked(marks[i], g) <=> Stacked(n, i, t, g)
  BY StackMarked
<1> HIDE DEF marks
<1>4. ASSUME NEW j \in 1 .. 5, NEW g, Marked(marks[j - 1], g)
      PROVE  \E f : Runs(n, ss[j], g, f) /\ Marked(marks[j], f)
  <2> DEFINE l == j - 1
  <2>1. j \in 0 .. 5 /\ l \in 0 .. 5 /\ l \in Nat /\ l + 1 = j
    OBVIOUS
  <2>2. Marked(marks[l], g) /\ ss[j] = DraftLayer(l)
    BY <1>2, <1>4
  <2> HIDE DEF l
  <2>3. Stacked(n, l, t, g)
    BY <1>3, <2>1, <2>2, Zenon
  <2>4. Stacking(n, l, t, g)
    BY <2>1, <2>3, DraftLayerRuns
  <2>5. PICK f : Runs(n, DraftLayer(l), g, f) /\ Stacked(n, j, t, f)
    BY <2>1, <2>4, Zenon DEF Stacking
  <2>6. Marked(marks[j], f)
    BY <1>3, <2>1, <2>5, Zenon
  <2> QED BY <2>2, <2>5, <2>6, Zenon
<1>5. 0 \in 0 .. 5 /\ 5 \in 0 .. 5
  OBVIOUS
<1>6. Marked(marks[0], e)
  BY <1>3, <1>5, Zenon
<1>7. PICK f : Runs(n, FlattenSeq(ss), e, f) /\ Marked(marks[5], f)
  BY <1>1, <1>4, <1>6, FlattenRuns, Zenon
<1> QED BY <1>3, <1>5, <1>7, Zenon DEF ss

(* The context, projected from the taps, and the embedded rows.            *)
Opening(n, e) == \E f : Runs(n, DraftBegin, e, f) /\ Stacked(n, 0, e["taps"], f)

LEMMA OpeningRuns ==
  ASSUME NEW n, NEW e0, IsContents(e0), e0["taps"] = <<2, <<42, "tap">>>>
  PROVE  Opening(n, e0)
<1> DEFINE hidden == Model.hidden_size
           v == <<42, "tap">>
           read == <<"taps", v, hidden>>
           label == <<Len(Model.layers), "context">>
<1>1. "taps" \in Buffers /\ "context" \in Roomy /\ "draft" \in Roomy /\ "taps" \notin Roomy
  BY RoomyAre DEF Roomy
<1>2. Room("taps", hidden) /\ Room("context", DraftHidden) /\ "context" \in Buffers
      /\ "draft" \in Buffers
  BY Sizes, BuffersAre DEF Room
<1>3. Len(Model.layers) = 45 /\ TapLayers[Len(TapLayers)] = 42
  BY PinnedLayers DEF TapLayers
<1>4. label = Label(0, <<"context">>)
  <2>1. Len(Model.layers) + 0 = Len(Model.layers)
    BY <1>3
  <2> DEFINE k == Len(Model.layers)
  <2> HIDE DEF k
  <2>2. <<k>> \o <<"context">> = <<k, "context">>
    BY TaggedTwo
  <2> QED BY <2>1, <2>2, Zenon DEF Label, k
<1>5. Takes(n, e0, read)
  <2>1. read[1] = "taps" /\ read[2] = v /\ read[3] = hidden
    OBVIOUS
  <2> HIDE DEF read, v, hidden
  <2> QED BY <1>1, <1>2, <2>1, Zenon DEF Takes, Finds, DueIn, Room, v
<1>6. \A r \in {read} : Takes(n, e0, r)
  BY <1>5
<1>7. PICK n1, n2 : DraftBegin = << Local(label, {read}, "context", DraftHidden, n1),
                                    Draft(0, <<"rows">>, {}, "draft", n2) >>
  BY <1>3, Zenon DEF DraftBegin
<1> HIDE DEF label, read
<1>8. PICK e1 : /\ Wrote(n, e0, "context", label, e1)
                /\ \A needs : Runs(n, <<Local(label, {read}, "context", DraftHidden, needs)>>, e0, e1)
  BY <1>2, <1>6, LocalStep
<1>9. IsContents(e1) /\ e1["context"] = <<n, label>> /\ e1["taps"] = e0["taps"]
  BY <1>1, <1>8 DEF Wrote
<1>10. PICK e2 : Drafts(n, 0, <<"rows">>, {}, "draft", e1, e2)
  <2>1. \A r \in {} : Takes(n, e1, DraftRead(r))
    OBVIOUS
  <2> QED BY <1>1, <1>9, <2>1, DraftStep
<1>11. /\ IsContents(e2) /\ e2["context"] = e1["context"] /\ e2["taps"] = e1["taps"]
       /\ e2["draft"] = <<n, Label(0, <<"rows">>)>>
  BY <1>1, <1>2, <1>10 DEF Drafts, Wrote
<1>12. Runs(n, DraftBegin, e0, e2)
  BY <1>7, <1>8, <1>10, RunsTwo, Zenon DEF Drafts
<1>13. Start(0) = Label(0, <<"rows">>)
  BY DEF Start
<1>14. Stacked(n, 0, e0["taps"], e2)
  BY <1>4, <1>9, <1>11, <1>13, Zenon DEF Stacked
<1> QED BY <1>12, <1>14, Zenon DEF Opening

(* The slots read the normalised rows and extend the path.                 *)
Slotted(n, slot, t, p, e) ==
  /\ IsContents(e) /\ e["draft"] = <<n, Label(DraftLayers, <<"final">>)>> /\ e["taps"] = t
  /\ e["path"] = IF slot = 0 THEN p ELSE <<n, Label(DraftLayers, <<"path", slot>>)>>
Slotting(n, slot, t, p, e) ==
  \E f : Runs(n, DraftSlot(slot), e, f) /\ Slotted(n, slot, t, p, f)

LEMMA SlotRuns ==
  ASSUME NEW n, NEW slot \in Nat \ {0}, NEW t, NEW p, NEW e0, Slotted(n, slot - 1, t, p, e0)
  PROVE  Slotting(n, slot, t, p, e0)
<1> DEFINE l == DraftLayers
           final == Label(l, <<"final">>)
           logits == Label(l, <<"logits", slot>>)
           from == <<"draft", final>>
           reads == {<<"draft_logits", l, <<"logits", slot>>>>, <<"draft", l, <<"final">>>>}
                      \cup IF slot = 1 THEN {} ELSE {<<"path", l, <<"path", slot - 1>>>>}
<1>1. /\ IsContents(e0) /\ e0["draft"] = <<n, final>> /\ e0["taps"] = t
      /\ slot # 1 => e0["path"] = <<n, Label(l, <<"path", slot - 1>>)>>
  <2>1. slot # 1 => slot - 1 # 0
    OBVIOUS
  <2> QED BY <2>1, Zenon DEF Slotted
<1>2. {"draft", "draft_logits", "path"} \subseteq Roomy /\ "taps" \notin Roomy /\ "taps" \in Buffers
  BY RoomyAre DEF Roomy
<1>3. /\ "draft" \in Buffers /\ "draft_logits" \in Buffers /\ "path" \in Buffers
      /\ Room("draft", DraftHidden) /\ Room("draft_logits", Model.vocab_size)
  BY <1>2, RoomyAre
<1>4. PICK needs1, needs2 :
        DraftSlot(slot) = << Linear(logits, needs1, from, DraftHidden, "draft_logits",
                                    Model.vocab_size),
                             Draft(l, <<"path", slot>>, reads, "path", needs2) >>
  BY Zenon DEF DraftSlot, Label
<1>5. from[1] = "draft" /\ from[2] = final
  OBVIOUS
<1> HIDE DEF final, logits, from
<1>6. Takes(n, e0, <<"draft", final, DraftHidden>>)
  BY <1>1, <1>3, TakesIt
<1>7. Takes(n, e0, <<from[1], from[2], DraftHidden>>)
  BY <1>5, <1>6
<1>8. PICK e1 : /\ Wrote(n, e0, "draft_logits", logits, e1)
                /\ \A needs : Runs(n, <<Linear(logits, needs, from, DraftHidden, "draft_logits",
                                               Model.vocab_size)>>, e0, e1)
  BY <1>1, <1>3, <1>7, LinearStep
<1>9. /\ IsContents(e1) /\ e1["draft_logits"] = <<n, logits>> /\ e1["draft"] = e0["draft"]
      /\ e1["path"] = e0["path"] /\ e1["taps"] = e0["taps"]
  BY <1>2, <1>3, <1>8 DEF Wrote
<1>10. PICK e2 : Drafts(n, l, <<"path", slot>>, reads, "path", e1, e2)
  <2>1. Takes(n, e1, DraftRead(<<"draft_logits", l, <<"logits", slot>>>>))
    BY <1>2, <1>9, RowsThere DEF logits
  <2>2. Takes(n, e1, DraftRead(<<"draft", l, <<"final">>>>))
    BY <1>1, <1>2, <1>9, RowsThere DEF final
  <2>3. slot # 1 => Takes(n, e1, DraftRead(<<"path", l, <<"path", slot - 1>>>>))
    BY <1>1, <1>2, <1>9, RowsThere
  <2>4. \A r \in reads : Takes(n, e1, DraftRead(r))
    BY <2>1, <2>2, <2>3
  <2> HIDE DEF reads
  <2> QED BY <1>2, <1>9, <2>4, DraftStep
<1>11. /\ IsContents(e2) /\ e2["draft"] = e1["draft"] /\ e2["taps"] = e1["taps"]
       /\ e2["path"] = <<n, Label(l, <<"path", slot>>)>>
  BY <1>2, <1>3, <1>10 DEF Drafts, Wrote
<1> HIDE DEF reads
<1>12. Runs(n, DraftSlot(slot), e0, e2)
  BY <1>4, <1>8, <1>10, RunsTwo, Zenon DEF Drafts
<1>13. slot # 0
  OBVIOUS
<1>14. Slotted(n, slot, t, p, e2)
  BY <1>1, <1>9, <1>11, <1>13, Zenon DEF Slotted, final
<1> QED BY <1>12, <1>14, Zenon DEF Slotting

SlotMarks(n, t, p) ==
  [i \in 0 .. 7 |->
     {<<"draft", <<n, Label(DraftLayers, <<"final">>)>>>>, <<"taps", t>>,
      <<"path", IF i = 0 THEN p ELSE <<n, Label(DraftLayers, <<"path", i>>)>>>>}]

LEMMA SlotMarked ==
  ASSUME NEW n, NEW t, NEW p, NEW i \in 0 .. 7, NEW g
  PROVE  Marked(SlotMarks(n, t, p)[i], g) <=> Slotted(n, i, t, p, g)
<1> DEFINE v1 == <<n, Label(DraftLayers, <<"final">>)>>
           v3 == IF i = 0 THEN p ELSE <<n, Label(DraftLayers, <<"path", i>>)>>
           m1 == <<"draft", v1>>
           m2 == <<"taps", t>>
           m3 == <<"path", v3>>
<1>1. SlotMarks(n, t, p)[i] = {m1, m2, m3}
  BY Zenon DEF SlotMarks
<1>2. Slotted(n, i, t, p, g) <=>
        IsContents(g) /\ g["draft"] = v1 /\ g["taps"] = t /\ g["path"] = v3
  BY Zenon DEF Slotted
<1> HIDE DEF v1, v3
<1>3. /\ m1[1] = "draft" /\ m2[1] = "taps" /\ m3[1] = "path"
      /\ m1[2] = v1 /\ m2[2] = t /\ m3[2] = v3
  OBVIOUS
<1> HIDE DEF m1, m2, m3
<1>4. Marked({m1, m2, m3}, g) <=>
        IsContents(g) /\ g[m1[1]] = m1[2] /\ g[m2[1]] = m2[2] /\ g[m3[1]] = m3[2]
  BY DEF Marked
<1>5. Marked({m1, m2, m3}, g) <=>
        IsContents(g) /\ g["draft"] = v1 /\ g["taps"] = t /\ g["path"] = v3
  BY <1>3, <1>4
<1> QED BY <1>1, <1>2, <1>5, Zenon

LEMMA SlotsRun ==
  ASSUME NEW n, NEW t, NEW p, NEW e, Slotted(n, 0, t, p, e)
  PROVE  \E f : Runs(n, FlattenSeq(DraftSlots), e, f) /\ Slotted(n, 7, t, p, f)
<1> DEFINE ss == DraftSlots
           marks == SlotMarks(n, t, p)
<1>1. Listings(7, ss) /\ 7 \in Nat
  BY ListingDraft
<1>2. \A i \in 1 .. 7 : ss[i] = DraftSlot(i)
  <2>1. Block - 1 = 7
    BY DEF Block
  <2>2. ss = [slot \in 1 .. 7 |-> DraftSlot(slot)]
    BY <2>1, Zenon DEF DraftSlots
  <2> HIDE DEF ss
  <2> QED BY <2>2, Zenon
<1> HIDE DEF ss
<1>3. \A i \in 0 .. 7 : \A g : Marked(marks[i], g) <=> Slotted(n, i, t, p, g)
  BY SlotMarked
<1> HIDE DEF marks
<1>4. ASSUME NEW j \in 1 .. 7, NEW g, Marked(marks[j - 1], g)
      PROVE  \E f : Runs(n, ss[j], g, f) /\ Marked(marks[j], f)
  <2>1. j \in 0 .. 7 /\ j - 1 \in 0 .. 7 /\ j \in Nat \ {0}
    OBVIOUS
  <2>2. Slotted(n, j - 1, t, p, g)
    BY <1>3, <1>4, <2>1, Zenon
  <2>3. Slotting(n, j, t, p, g)
    BY <2>1, <2>2, SlotRuns
  <2>4. PICK f : Runs(n, DraftSlot(j), g, f) /\ Slotted(n, j, t, p, f)
    BY <2>3, Zenon DEF Slotting
  <2>5. Marked(marks[j], f)
    BY <1>3, <2>1, <2>4, Zenon
  <2> QED BY <1>2, <2>4, <2>5, Zenon
<1>5. 0 \in 0 .. 7 /\ 7 \in 0 .. 7
  OBVIOUS
<1>6. Marked(marks[0], e)
  BY <1>3, <1>5, Zenon
<1>7. PICK f : Runs(n, FlattenSeq(ss), e, f) /\ Marked(marks[7], f)
  BY <1>1, <1>4, <1>6, FlattenRuns, Zenon
<1> QED BY <1>3, <1>5, <1>7, Zenon DEF ss

(* A proposal finds all its operands when the taps are the prompt's.       *)
Proposing(n, e) == \E f : Runs(n, DraftProgram, e, f) /\ f["taps"] = e["taps"]

(* The draft proposal runs on the taps of the prompt.                      *)
LEMMA ProposalRuns ==
  ASSUME NEW n, NEW e0, IsContents(e0), e0["taps"] = <<2, <<42, "tap">>>>
  PROVE  Proposing(n, e0)
<1> DEFINE t == e0["taps"]
           p1 == DraftBegin
           p2 == FlattenSeq(DraftStack)
           p3 == DraftNorm
           p4 == FlattenSeq(DraftSlots)
<1>1. PICK e1 : Runs(n, p1, e0, e1) /\ Stacked(n, 0, t, e1)
  <2>1. Opening(n, e0)
    BY OpeningRuns
  <2> QED BY <2>1, Zenon DEF Opening
<1> HIDE DEF t
<1>2. PICK e2 : Runs(n, p2, e1, e2) /\ Stacked(n, 5, t, e2)
  BY <1>1, StackRuns, Zenon
<1>3. PICK e3 : Runs(n, p3, e2, e3) /\ Slotted(n, 0, t, e3["path"], e3)
  <2> DEFINE last == DraftLayers - 1
             reads == {<<"draft", last, <<"mlp", "out">>>>}
  <2>1. Start(5) = Label(last, <<"mlp", "out">>)
    BY DEF Start, DraftLayers
  <2>2. IsContents(e2) /\ e2["draft"] = <<n, Label(last, <<"mlp", "out">>)>> /\ e2["taps"] = t
    BY <1>2, <2>1, Zenon DEF Stacked
  <2>3. PICK needs : p3 = <<Draft(DraftLayers, <<"final">>, reads, "draft", needs)>>
    BY Zenon DEF DraftNorm
  <2> HIDE DEF last
  <2>4. "draft" \in Roomy /\ "taps" \notin Roomy /\ "taps" \in Buffers
    BY RoomyAre DEF Roomy
  <2>5. \A r \in reads : Takes(n, e2, DraftRead(r))
    BY <2>2, <2>4, RowsThere
  <2> HIDE DEF reads
  <2>6. PICK f : Drafts(n, DraftLayers, <<"final">>, reads, "draft", e2, f)
    BY <2>2, <2>4, <2>5, DraftStep
  <2>7. /\ IsContents(f) /\ f["draft"] = <<n, Label(DraftLayers, <<"final">>)>>
        /\ f["taps"] = e2["taps"]
    BY <2>4, <2>6 DEF Drafts, Wrote
  <2>8. Slotted(n, 0, t, f["path"], f)
    BY <2>2, <2>7, Zenon DEF Slotted
  <2>9. Runs(n, p3, e2, f)
    BY <2>3, <2>6, Zenon DEF Drafts
  <2> QED BY <2>8, <2>9, Zenon
<1>4. PICK e4 : Runs(n, p4, e3, e4) /\ Slotted(n, 7, t, e3["path"], e4)
  BY <1>3, SlotsRun, Zenon
<1> HIDE DEF p1, p2, p3, p4
<1>5. Runs(n, p1 \o p2, e0, e2)
  BY <1>1, <1>2, RunsBoth, Zenon
<1>6. Runs(n, p1 \o p2 \o p3, e0, e3)
  BY <1>3, <1>5, RunsBoth, Zenon
<1>7. Runs(n, p1 \o p2 \o p3 \o p4, e0, e4)
  BY <1>4, <1>6, RunsBoth, Zenon
<1>8. Runs(n, DraftProgram, e0, e4)
  BY <1>7, DraftParts, Zenon DEF p1, p2, p3, p4
<1>9. e4["taps"] = t
  BY <1>4, Zenon DEF Slotted
<1> QED BY <1>8, <1>9, Zenon DEF Proposing, t

-----------------------------------------------------------------------------
(***************************************************************************)
(* The control of two ranks.  Control(r) is what decides the program rank  *)
(* r runs and the next one.  Two ranks are in step when they are at the    *)
(* same program with no gather between their positions (Abreast), or one   *)
(* has gone on to the next program, where the other will follow it, and    *)
(* has not reached that program's first gather (Ahead).                    *)
(***************************************************************************)

Stages == {"prime", "prompt", "head", "draft", "decode"}
Controls ==
  [stage : Stages, cached : 0 .. IndexTopk, kept : 0 .. IndexTopk, steps : Nat, argmaxes : Nat]
Control(r) == [stage |-> stage[r], cached |-> cached[r], kept |-> kept[r], steps |-> steps[r],
               argmaxes |-> argmaxes[r]]
Laid(c) ==
  CASE c.stage = "head" -> HeadProgram
    [] c.stage = "draft" -> DraftProgram
    [] c.stage = "prompt" -> PromptProgram
    [] OTHER -> StepPrograms[c.cached + 1]
Refuses(c, i) ==
  /\ ~Laid(c)[i].gathered /\ c.cached + 1 > IndexTopk
  /\ Len(Laid(c)[i].op) = 2 /\ Laid(c)[i].op[2] = "latent"
Decision(v, c) == IF c.argmaxes = MaxHeads THEN "stop" ELSE v[c.argmaxes]
Ended(c) ==
  LET to == CASE c.stage = "prime" -> "prompt" [] c.stage = "draft" -> "decode" [] OTHER -> "head"
  IN [stage |-> to,
      cached |-> CASE c.stage = "prime" -> 0 [] c.stage = "draft" -> c.cached [] OTHER -> c.cached + 1,
      kept |-> IF c.stage = "draft" THEN c.cached ELSE c.kept,
      steps |-> IF to = "head" THEN c.steps ELSE c.steps + 1,
      argmaxes |-> IF to = "head" THEN c.argmaxes + 1 ELSE c.argmaxes]
Chosen(c, choice) ==
  [stage |-> IF choice = "propose" THEN "draft" ELSE "decode",
   cached |-> IF choice = "rewind" THEN c.kept ELSE c.cached,
   kept |-> c.kept,
   steps |-> IF choice = "propose" THEN c.steps ELSE c.steps + 1,
   argmaxes |-> c.argmaxes]
Succ(v, c) == IF c.stage = "head" THEN Chosen(c, Decision(v, c)) ELSE Ended(c)
Goes(v, c) == c.stage = "head" => Decision(v, c) # "stop"

Stands(v, c, p, f) ==
  /\ c \in Controls /\ p \in 1 .. Len(Laid(c)) + 1
  /\ f \in {"run", "sent", "stopped", "failed"}
  /\ \A i \in 1 .. p - 1 : ~Refuses(c, i)
  /\ f = "sent" => p <= Len(Laid(c)) /\ Laid(c)[p].gathered
  /\ f = "failed" => p <= Len(Laid(c)) /\ Refuses(c, p)
  /\ f = "stopped" => p > Len(Laid(c)) /\ ~Goes(v, c)

Abreast(c, p, d, q) ==
  /\ c = d
  /\ \A i \in 1 .. Len(Laid(c)) : (p <= i /\ i < q) \/ (q <= i /\ i < p) => ~Laid(c)[i].gathered
Ahead(v, c, p, d, q, g) ==
  /\ Goes(v, d) /\ c = Succ(v, d) /\ g = "run"
  /\ \A i \in q .. Len(Laid(d)) : ~Laid(d)[i].gathered
  /\ \A i \in 1 .. p - 1 : ~Laid(c)[i].gathered
  /\ \A i \in 1 .. Len(Laid(d)) : ~Refuses(d, i)
Pair(v, c, p, f, d, q, g) ==
  Abreast(c, p, d, q) \/ Ahead(v, c, p, d, q, g) \/ Ahead(v, d, q, c, p, f)

-----------------------------------------------------------------------------
(* What the programs contribute: each is a sequence, each has a gather,    *)
(* and a step has an instruction that the indexer bound refuses.           *)
Steps == {"prime", "prompt", "decode"}
LaidOut(c) ==
  /\ Len(Laid(c)) \in Nat
  /\ \E i \in 1 .. Len(Laid(c)) : Laid(c)[i].gathered
  /\ c.stage \in Steps /\ c.cached + 1 > IndexTopk => \E i \in 1 .. Len(Laid(c)) : Refuses(c, i)

LEMMA SuccIsControl ==
  ASSUME NEW v, NEW c \in Controls, c.stage \in Steps => c.cached < IndexTopk
  PROVE  Succ(v, c) \in Controls
<1>1. IndexTopk \in Nat \ {0}
  BY RankedForwardAssumption
<1>2. /\ c.stage \in Stages /\ c.cached \in 0 .. IndexTopk /\ c.kept \in 0 .. IndexTopk
      /\ c.steps \in Nat /\ c.argmaxes \in Nat
  BY DEF Controls
<1>3. CASE c.stage = "head"
  <2>1. \A choice : Chosen(c, choice) \in Controls
    BY <1>1, <1>2 DEF Chosen, Controls, Stages
  <2> QED BY <1>3, <2>1 DEF Succ
<1>4. CASE c.stage # "head"
  <2>1. Ended(c) \in Controls
    BY <1>1, <1>2, <1>4 DEF Ended, Controls, Stages, Steps
  <2> QED BY <1>4, <2>1 DEF Succ
<1> QED BY <1>3, <1>4

(* A rank steps over an instruction that it computes in full.              *)
LEMMA PassKeeps ==
  ASSUME NEW v, NEW c, NEW p, NEW d, NEW q, NEW g, Stands(v, c, p, "run"), Stands(v, d, q, g),
         LaidOut(c), LaidOut(d), Pair(v, c, p, "run", d, q, g),
         p <= Len(Laid(c)), ~Laid(c)[p].gathered, ~Refuses(c, p)
  PROVE  Stands(v, c, p + 1, "run") /\ Pair(v, c, p + 1, "run", d, q, g)
<1>1. Len(Laid(c)) \in Nat /\ p \in 1 .. Len(Laid(c)) /\ q \in Nat
  BY DEF LaidOut, Stands
<1>2. Stands(v, c, p + 1, "run")
  BY <1>1 DEF Stands
<1>3. CASE Abreast(c, p, d, q)
  <2>1. Abreast(c, p + 1, d, q)
    BY <1>1, <1>3 DEF Abreast
  <2> QED BY <1>2, <2>1 DEF Pair
<1>4. CASE Ahead(v, c, p, d, q, g)
  <2>1. Ahead(v, c, p + 1, d, q, g)
    BY <1>1, <1>4 DEF Ahead
  <2> QED BY <1>2, <2>1 DEF Pair
<1>5. CASE Ahead(v, d, q, c, p, "run")
  <2>1. Ahead(v, d, q, c, p + 1, "run")
    BY <1>1, <1>5 DEF Ahead
  <2> QED BY <1>2, <2>1 DEF Pair
<1> QED BY <1>3, <1>4, <1>5 DEF Pair

(* A rank throws at the indexer bound.                                     *)
LEMMA FailKeeps ==
  ASSUME NEW v, NEW c, NEW p, NEW d, NEW q, NEW g, Stands(v, c, p, "run"), Stands(v, d, q, g),
         LaidOut(c), LaidOut(d), Pair(v, c, p, "run", d, q, g),
         p <= Len(Laid(c)), Refuses(c, p)
  PROVE  Stands(v, c, p, "failed") /\ Pair(v, c, p, "failed", d, q, g)
<1>1. Len(Laid(c)) \in Nat /\ p \in 1 .. Len(Laid(c))
  BY DEF LaidOut, Stands
<1>2. Stands(v, c, p, "failed")
  BY <1>1 DEF Stands
<1>3. ~Ahead(v, d, q, c, p, "run")
  BY <1>1 DEF Ahead
<1> QED BY <1>2, <1>3 DEF Pair

(* A rank arrives at a gather.                                             *)
LEMMA SendKeeps ==
  ASSUME NEW v, NEW c, NEW p, NEW d, NEW q, NEW g, Stands(v, c, p, "run"), Stands(v, d, q, g),
         LaidOut(c), LaidOut(d), Pair(v, c, p, "run", d, q, g),
         p <= Len(Laid(c)), Laid(c)[p].gathered
  PROVE  Stands(v, c, p, "sent") /\ Pair(v, c, p, "sent", d, q, g)
<1>1. Len(Laid(c)) \in Nat /\ p \in 1 .. Len(Laid(c))
  BY DEF LaidOut, Stands
<1>2. Stands(v, c, p, "sent")
  BY <1>1 DEF Stands
<1>3. ~Ahead(v, d, q, c, p, "run")
  BY <1>1 DEF Ahead
<1> QED BY <1>2, <1>3 DEF Pair

LEMMA SuccTyped ==
  ASSUME NEW v, NEW c, NEW p, Stands(v, c, p, "run"), LaidOut(c), p > Len(Laid(c))
  PROVE  Succ(v, c) \in Controls
<1>1. Len(Laid(c)) \in Nat
  BY DEF LaidOut
<1>2. p = Len(Laid(c)) + 1
  BY <1>1 DEF Stands
<1>3. \A i \in 1 .. Len(Laid(c)) : ~Refuses(c, i)
  BY <1>1, <1>2 DEF Stands
<1>4. IndexTopk \in Nat /\ c \in Controls /\ c.cached \in 0 .. IndexTopk
  BY RankedForwardAssumption DEF Controls, Stands
<1>5. c.stage \in Steps => ~(c.cached + 1 > IndexTopk)
  BY <1>3 DEF LaidOut
<1> QED BY <1>4, <1>5, SuccIsControl

(* A rank begins its next program.                                         *)
LEMMA GoKeeps ==
  ASSUME NEW v, NEW c, NEW p, NEW d, NEW q, NEW g, Stands(v, c, p, "run"), Stands(v, d, q, g),
         LaidOut(c), LaidOut(d), LaidOut(Succ(v, c)), Pair(v, c, p, "run", d, q, g),
         p > Len(Laid(c)), Goes(v, c)
  PROVE  Stands(v, Succ(v, c), 1, "run") /\ Pair(v, Succ(v, c), 1, "run", d, q, g)
<1>1. Len(Laid(c)) \in Nat /\ p = Len(Laid(c)) + 1
  <2>1. Len(Laid(c)) \in Nat
    BY DEF LaidOut
  <2>2. p \in 1 .. Len(Laid(c)) + 1
    BY DEF Stands
  <2> QED BY <2>1, <2>2
<1>2. \A i \in 1 .. Len(Laid(c)) : ~Refuses(c, i)
  BY <1>1 DEF Stands
<1>3. Succ(v, c) \in Controls
  BY SuccTyped
<1>4. Stands(v, Succ(v, c), 1, "run")
  BY <1>3 DEF Stands, LaidOut
<1>5. CASE Abreast(c, p, d, q)
  <2>1. \A i \in q .. Len(Laid(d)) : ~Laid(d)[i].gathered
    BY <1>1, <1>5 DEF Abreast, Stands
  <2>2. g = "run"
    <3>1. g # "sent"
      BY <2>1 DEF Stands, LaidOut
    <3>2. g # "failed"
      BY <1>2, <1>5 DEF Abreast, Stands
    <3>3. g # "stopped"
      BY <1>5 DEF Abreast, Stands
    <3> QED BY <3>1, <3>2, <3>3 DEF Stands
  <2>3. Ahead(v, Succ(v, c), 1, d, q, g)
    BY <1>2, <1>5, <2>1, <2>2 DEF Ahead, Abreast
  <2> QED BY <1>4, <2>3 DEF Pair
<1>6. ~Ahead(v, c, p, d, q, g)
  BY <1>1 DEF Ahead, LaidOut
<1>7. CASE Ahead(v, d, q, c, p, "run")
  <2>1. Abreast(Succ(v, c), 1, d, q)
    BY <1>7 DEF Ahead, Abreast, Stands
  <2> QED BY <1>4, <2>1 DEF Pair
<1> QED BY <1>5, <1>6, <1>7 DEF Pair

(* A rank has chosen its last token.                                       *)
LEMMA StopKeeps ==
  ASSUME NEW v, NEW c, NEW p, NEW d, NEW q, NEW g, Stands(v, c, p, "run"), Stands(v, d, q, g),
         LaidOut(c), LaidOut(d), Pair(v, c, p, "run", d, q, g),
         p > Len(Laid(c)), ~Goes(v, c)
  PROVE  Stands(v, c, p, "stopped") /\ Pair(v, c, p, "stopped", d, q, g)
<1>1. Stands(v, c, p, "stopped")
  BY DEF Stands
<1>2. ~Ahead(v, d, q, c, p, "run")
  BY DEF Ahead
<1> QED BY <1>1, <1>2 DEF Pair

(* Two ranks in a gather are in the same one, ...                          *)
LEMMA MeetingsAgree ==
  ASSUME NEW v, NEW c, NEW p, NEW d, NEW q, Stands(v, c, p, "sent"), Stands(v, d, q, "sent"),
         LaidOut(c), LaidOut(d), Pair(v, c, p, "sent", d, q, "sent")
  PROVE  c = d /\ p = q
<1>1. Abreast(c, p, d, q)
  BY DEF Pair, Ahead
<1>2. p \in 1 .. Len(Laid(c)) /\ q \in 1 .. Len(Laid(c))
  BY <1>1 DEF Stands, Abreast, LaidOut
<1>3. Laid(c)[p].gathered /\ Laid(c)[q].gathered
  BY <1>1 DEF Stands, Abreast
<1> QED BY <1>1, <1>2, <1>3 DEF Abreast, LaidOut

(* ... and leave it together.                                              *)
LEMMA MeetKeeps ==
  ASSUME NEW v, NEW c, NEW p, Stands(v, c, p, "sent"), LaidOut(c)
  PROVE  Stands(v, c, p + 1, "run") /\ Pair(v, c, p + 1, "run", c, p + 1, "run")
<1>1. p \in 1 .. Len(Laid(c)) /\ Len(Laid(c)) \in Nat /\ ~Refuses(c, p)
  BY DEF Stands, LaidOut, Refuses
<1>2. Stands(v, c, p + 1, "run")
  BY <1>1 DEF Stands
<1>3. Abreast(c, p + 1, c, p + 1)
  BY <1>1 DEF Abreast
<1> QED BY <1>2, <1>3 DEF Pair

(* No rank waits in a gather for one that has left.                        *)
LEMMA NobodyWaits ==
  ASSUME NEW v, NEW c, NEW p, NEW d, NEW q, NEW g, Stands(v, c, p, "sent"), Stands(v, d, q, g),
         LaidOut(c), LaidOut(d), Pair(v, c, p, "sent", d, q, g)
  PROVE  g \in {"run", "sent"}
<1>1. p \in 1 .. Len(Laid(c)) /\ Len(Laid(c)) \in Nat /\ Laid(c)[p].gathered /\ Len(Laid(d)) \in Nat
  BY DEF Stands, LaidOut
<1>2. ~Ahead(v, d, q, c, p, "sent")
  BY DEF Ahead
<1>3. CASE Abreast(c, p, d, q)
  <2>1. g # "failed"
    <3> SUFFICES ASSUME g = "failed" PROVE FALSE
      OBVIOUS
    <3>1. Refuses(c, q) /\ q \in 1 .. Len(Laid(c)) /\ ~Laid(c)[q].gathered
      BY <1>1, <1>3 DEF Stands, Abreast, Refuses
    <3>2. p <= q
      BY <1>1, <3>1 DEF Stands
    <3>3. p # q
      BY <1>1, <3>1
    <3> QED BY <1>1, <1>3, <3>1, <3>2, <3>3 DEF Abreast
  <2>2. g # "stopped"
    BY <1>1, <1>3 DEF Stands, Abreast
  <2> QED BY <2>1, <2>2 DEF Stands
<1>4. CASE Ahead(v, c, p, d, q, g)
  BY <1>4 DEF Ahead
<1> QED BY <1>2, <1>3, <1>4 DEF Pair

-----------------------------------------------------------------------------
InStep ==
  /\ \A r \in Rank : Stands(verdict, Control(r), pc[r], phase[r])
  /\ Pair(verdict, Control(0), pc[0], phase[0], Control(1), pc[1], phase[1])
Whole(r) ==
  stage[r] = "head" =>
    /\ phase[r] = "sent" => held[r]["logits"][r + 1] = Value(r)
    /\ pc[r] > 1 => held[r]["logits"][1] = held[r]["logits"][2]

IsPair(x) == x = <<x[1], x[2]>>
IsRow(c) == IsContents(c) /\ \A b \in Buffers : IsPair(c[b])
Halves(h) ==
  /\ h = [r \in Rank |-> h[r]]
  /\ \A r \in Rank : IsRow(h[r])

RankTypes ==
  /\ phase \in [Rank -> {"run", "sent", "stopped", "failed"}]
  /\ stage \in [Rank -> Stages]
  /\ pc \in [Rank -> Nat \ {0}]
  /\ steps \in [Rank -> Nat] /\ argmaxes \in [Rank -> Nat]
  /\ cached \in [Rank -> 0 .. IndexTopk] /\ kept \in [Rank -> 0 .. IndexTopk]
RankInvariant == RankTypes /\ InStep /\ Halves(held) /\ \A r \in Rank : Whole(r)

LEMMA StepsLaid ==
  ASSUME NEW c \in Controls, c.stage \in Steps
  PROVE  \E tokens \in Nat \ {0} : \E capture \in BOOLEAN :
           (capture <=> c.stage = "prompt") /\ Laid(c) = StepProgram(tokens, capture)
<1>1. c.cached \in Nat /\ c.cached + 1 \in 1 .. IndexTopk + 1 /\ IndexTopk + 1 \in Nat
  BY RankedForwardAssumption DEF Controls
<1>2. CASE c.stage = "prompt"
  <2>1. Laid(c) = StepProgram(1, TRUE)
    BY <1>2, Zenon DEF Laid, PromptProgram
  <2>2. 1 \in Nat \ {0} /\ TRUE \in BOOLEAN
    OBVIOUS
  <2> QED BY <1>2, <2>1, <2>2, Zenon
<1>3. CASE c.stage # "prompt"
  <2> DEFINE ss == [tokens \in 1 .. IndexTopk + 1 |-> StepProgram(tokens, FALSE)]
             S == {StepProgram(tokens, FALSE) : tokens \in Nat}
  <2>1. Laid(c) = StepPrograms[c.cached + 1]
    BY <1>3 DEF Laid, Steps
  <2>2. ss[c.cached + 1] = StepProgram(c.cached + 1, FALSE)
    BY <1>1
  <2>3. StepPrograms = <<>> \o ss
    BY Zenon DEF StepPrograms
  <2>4. \A i \in Nat : StepProgram(i, FALSE) \in S
    BY Zenon
  <2> HIDE DEF S
  <2>5. ss \in Seq(S)
    <3>1. ss = [i \in 1 .. IndexTopk + 1 |-> ss[i]]
      OBVIOUS
    <3>2. \A i \in 1 .. IndexTopk + 1 : ss[i] \in S
      <4>1. \A i \in 1 .. IndexTopk + 1 : i \in Nat
        OBVIOUS
      <4> QED BY <2>4, <4>1, Zenon
    <3> HIDE DEF ss
    <3> QED BY <1>1, <3>1, <3>2
  <2> HIDE DEF ss
  <2>6. <<>> \o ss = ss
    BY <2>5, ConcatEmptySeq
  <2> DEFINE k == c.cached + 1
  <2>7. k \in Nat \ {0} /\ FALSE \in BOOLEAN
    BY <1>1
  <2>8. Laid(c) = StepPrograms[k] /\ ss[k] = StepProgram(k, FALSE)
    BY <2>1, <2>2
  <2> HIDE DEF k
  <2>9. Laid(c) = StepProgram(k, FALSE)
    BY <2>3, <2>6, <2>8, Zenon
  <2> QED BY <1>3, <2>7, <2>9, Zenon
<1> QED BY <1>2, <1>3

LEMMA EveryListing ==
  ASSUME NEW c \in Controls
  PROVE  Listing(Laid(c)) /\ \E x : Has(Laid(c), x) /\ x.gathered
<1>1. CASE c.stage = "head"
  BY <1>1, EveryProgram DEF Laid
<1>2. CASE c.stage = "draft"
  BY <1>2, EveryProgram DEF Laid
<1>3. CASE c.stage \in Steps
  <2>1. \E tokens \in Nat : \E capture : Laid(c) = StepProgram(tokens, capture)
    BY <1>3, StepsLaid
  <2> QED BY <2>1, EveryProgram, Zenon
<1>4. c.stage \in Stages
  BY DEF Controls
<1> QED BY <1>1, <1>2, <1>3, <1>4 DEF Stages, Steps

LEMMA EveryLaidOut ==
  ASSUME NEW c \in Controls PROVE LaidOut(c)
<1>1. Listing(Laid(c)) /\ \E x : Has(Laid(c), x) /\ x.gathered
  BY EveryListing
<1>2. ASSUME c.stage \in Steps, c.cached + 1 > IndexTopk
      PROVE  \E i \in 1 .. Len(Laid(c)) : Refuses(c, i)
  <2>1. \E x : Has(Laid(c), x) /\ ~x.gathered /\ Len(x.op) = 2 /\ x.op[2] = "latent"
    <3>1. \E tokens \in Nat : \E capture : Laid(c) = StepProgram(tokens, capture)
      BY <1>2, StepsLaid
    <3> QED BY <3>1, EveryProgram, Zenon
  <2> QED BY <1>2, <2>1 DEF Has, Refuses
<1>3. Len(Laid(c)) \in Nat
  BY <1>1, ListingIs
<1> QED BY <1>1, <1>2, <1>3, Zenon DEF LaidOut, Has

LEMMA StepsOn ==
  ASSUME NEW v, NEW c, NEW p, NEW d, NEW q, NEW g, Stands(v, c, p, "run"), Stands(v, d, q, g),
         Pair(v, c, p, "run", d, q, g), p > Len(Laid(c)), Goes(v, c)
  PROVE  Stands(v, Succ(v, c), 1, "run") /\ Pair(v, Succ(v, c), 1, "run", d, q, g)
<1>1. LaidOut(c) /\ LaidOut(d)
  BY EveryLaidOut, Zenon DEF Stands
<1>2. LaidOut(Succ(v, c))
  BY <1>1, SuccTyped, EveryLaidOut, Zenon
<1> QED BY <1>1, <1>2, GoKeeps, Zenon

LEMMA PairTurns ==
  ASSUME NEW v, NEW c, NEW p, NEW f, NEW d, NEW q, NEW g
  PROVE  Pair(v, c, p, f, d, q, g) <=> Pair(v, d, q, g, c, p, f)
BY DEF Pair, Abreast

LEMMA ProgramIs ==
  ASSUME NEW r PROVE Program(r) = Laid(Control(r))
<1>1. Control(r).stage = stage[r] /\ Control(r).cached = cached[r]
  BY DEF Control
<1> QED BY <1>1, Zenon DEF Program, Laid

(* What one rank does, the other standing still. *)
Still(o) ==
  /\ phase'[o] = phase[o] /\ stage'[o] = stage[o] /\ pc'[o] = pc[o] /\ steps'[o] = steps[o]
  /\ argmaxes'[o] = argmaxes[o] /\ cached'[o] = cached[o] /\ kept'[o] = kept[o]

LEMMA OneMoves ==
  ASSUME RankInvariant, NEW r \in Rank, Still(1 - r), verdict' = verdict,
         Stands(verdict, Control(r)', pc'[r], phase'[r]),
         Pair(verdict, Control(r)', pc'[r], phase'[r], Control(1 - r), pc[1 - r], phase[1 - r])
  PROVE  InStep'
<1> DEFINE o == 1 - r
<1>1. o \in Rank /\ o # r /\ (r = 0 => o = 1) /\ (r = 1 => o = 0) /\ Rank = {0, 1}
  BY DEF Rank
<1>2. Control(o)' = Control(o) /\ pc'[o] = pc[o] /\ phase'[o] = phase[o]
  BY Zenon DEF Still, Control
<1>3. Stands(verdict, Control(o), pc[o], phase[o])
  BY <1>1 DEF RankInvariant, InStep
<1> HIDE DEF o
<1>4. \A k \in Rank : k = r \/ k = o
  BY <1>1
<1>5. \A k \in Rank : Stands(verdict', Control(k)', pc'[k], phase'[k])
  BY <1>2, <1>3, <1>4, Zenon
<1>6. Pair(verdict', Control(r)', pc'[r], phase'[r], Control(o)', pc'[o], phase'[o])
  BY <1>2, Zenon DEF o
<1>7. Pair(verdict', Control(o)', pc'[o], phase'[o], Control(r)', pc'[r], phase'[r])
  BY <1>6, PairTurns, Zenon
<1>8. Pair(verdict', Control(0)', pc'[0], phase'[0], Control(1)', pc'[1], phase'[1])
  <2>1. CASE r = 0
    BY <1>1, <1>6, <2>1, Zenon
  <2>2. CASE r = 1
    BY <1>1, <1>7, <2>2, Zenon
  <2> QED BY <1>1, <2>1, <2>2
<1> QED BY <1>5, <1>8, Zenon DEF InStep

(* What the invariant says of one rank and of the other. *)
LEMMA OneStands ==
  ASSUME RankInvariant, NEW r \in Rank
  PROVE  /\ Stands(verdict, Control(r), pc[r], phase[r])
         /\ Stands(verdict, Control(1 - r), pc[1 - r], phase[1 - r])
         /\ LaidOut(Control(r)) /\ LaidOut(Control(1 - r))
         /\ Pair(verdict, Control(r), pc[r], phase[r], Control(1 - r), pc[1 - r], phase[1 - r])
<1>1. 1 - r \in Rank
  BY DEF Rank
<1>2. /\ Stands(verdict, Control(r), pc[r], phase[r])
      /\ Stands(verdict, Control(1 - r), pc[1 - r], phase[1 - r])
  BY <1>1, Zenon DEF RankInvariant, InStep
<1>3. LaidOut(Control(r)) /\ LaidOut(Control(1 - r))
  BY <1>2, EveryLaidOut, Zenon DEF Stands
<1>4. Pair(verdict, Control(r), pc[r], phase[r], Control(1 - r), pc[1 - r], phase[1 - r])
  <2>1. Pair(verdict, Control(0), pc[0], phase[0], Control(1), pc[1], phase[1])
    BY Zenon DEF RankInvariant, InStep
  <2>2. Pair(verdict, Control(1), pc[1], phase[1], Control(0), pc[0], phase[0])
    BY <2>1, PairTurns, Zenon
  <2>3. CASE r = 0
    <3>1. 1 - r = 1
      BY <2>3
    <3> QED BY <2>1, <2>3, <3>1, Zenon
  <2>4. CASE r = 1
    <3>1. 1 - r = 0
      BY <2>4
    <3> QED BY <2>2, <2>4, <3>1, Zenon
  <2> QED BY <2>3, <2>4 DEF Rank
<1> QED BY <1>2, <1>3, <1>4

LEMMA Overfills ==
  ASSUME NEW r
  PROVE  /\ Instruction(r) = Laid(Control(r))[pc[r]]
         /\ ~Instruction(r).gathered => (Overfull(r) <=> Refuses(Control(r), pc[r]))
         /\ Running(r) <=> phase[r] = "run" /\ pc[r] <= Len(Laid(Control(r)))
<1>1. Program(r) = Laid(Control(r))
  BY ProgramIs
<1>2. Instruction(r) = Laid(Control(r))[pc[r]]
  BY <1>1, Zenon DEF Instruction
<1>3. Control(r).cached = cached[r]
  BY DEF Control
<1> QED BY <1>1, <1>2, <1>3, Zenon DEF Overfull, Refuses, Running

-----------------------------------------------------------------------------
(* g is h with another row for rank r, which is the old one with another   *)
(* value in buffer out.                                                    *)
NewRow(h, g, r, new) == g = [h EXCEPT ![r] = new]
NewValue(c, new, out, w) == new = [c EXCEPT ![out] = w]
NewBoth(h, g, r, out, v) == g = [h EXCEPT ![r][out] = <<v, v>>]
NewHalf(h, g, r, out, rows, v) == g = [h EXCEPT ![r][out][rows] = v]

LEMMA RowWritten ==
  ASSUME NEW h, NEW g, Halves(h), NEW r \in Rank, NEW new, IsRow(new), NewRow(h, g, r, new)
  PROVE  /\ Halves(g) /\ g[r] = new
         /\ \A k \in Rank : k # r => g[k] = h[k]
<1>1. g = [k \in Rank |-> IF k = r THEN new ELSE h[k]]
  BY DEF Halves, NewRow
<1>2. \A k \in Rank : k # r => g[k] = h[k]
  BY <1>1
<1>3. g[r] = new /\ g = [k \in Rank |-> g[k]]
  BY <1>1
<1>4. \A k \in Rank : IsRow(g[k])
  <2> SUFFICES ASSUME NEW k \in Rank PROVE IsRow(g[k])
    OBVIOUS
  <2>1. CASE k = r
    BY <1>3, <2>1, Zenon
  <2>2. CASE k # r
    BY <1>2, <2>2, Zenon DEF Halves
  <2> QED BY <2>1, <2>2
<1> QED BY <1>2, <1>3, <1>4, Zenon DEF Halves

LEMMA ValueWritten ==
  ASSUME NEW c, IsRow(c), NEW new, NEW out, NEW w, NewValue(c, new, out, w),
         out \in Buffers => IsPair(w)
  PROVE  /\ IsRow(new) /\ (out \in Buffers => new[out] = w)
         /\ \A b \in Buffers : b # out => new[b] = c[b]
<1>1. new = [b \in Buffers |-> IF b = out THEN w ELSE c[b]]
  BY DEF IsRow, IsContents, NewValue
<1>2. new = [b \in Buffers |-> new[b]]
  BY <1>1
<1>3. \A b \in Buffers : (b = out => new[b] = w) /\ (b # out => new[b] = c[b])
  BY <1>1
<1>4. \A b \in Buffers : IsPair(c[b])
  BY DEF IsRow
<1>5. \A b \in Buffers : IsPair(new[b])
  BY <1>3, <1>4, Zenon
<1> QED BY <1>2, <1>3, <1>5, Zenon DEF IsRow, IsContents

(* A write of both halves of a buffer, ... *)
LEMMA WriteBoth ==
  ASSUME NEW h, NEW g, NEW r \in Rank, NEW out, NEW v, Halves(h), NewBoth(h, g, r, out, v)
  PROVE  /\ Halves(g)
         /\ \A k \in Rank : k # r => g[k] = h[k]
         /\ out \in Buffers => g[r][out] = <<v, v>>
         /\ \A b \in Buffers : b # out => g[r][b] = h[r][b]
<1> DEFINE w == <<v, v>>
           new == [h[r] EXCEPT ![out] = w]
<1>1. NewRow(h, g, r, new) /\ NewValue(h[r], new, out, w) /\ IsRow(h[r]) /\ IsPair(w)
  BY DEF NewRow, NewValue, NewBoth, Halves, IsPair
<1> HIDE DEF w, new
<1>2. /\ IsRow(new) /\ (out \in Buffers => new[out] = w)
      /\ \A b \in Buffers : b # out => new[b] = h[r][b]
  BY <1>1, ValueWritten
<1>3. /\ Halves(g) /\ g[r] = new
      /\ \A k \in Rank : k # r => g[k] = h[k]
  BY <1>1, <1>2, RowWritten
<1>4. /\ Halves(g)
      /\ \A k \in Rank : k # r => g[k] = h[k]
      /\ out \in Buffers => g[r][out] = w
      /\ \A b \in Buffers : b # out => g[r][b] = h[r][b]
  BY <1>2, <1>3, Zenon
<1> QED BY <1>4 DEF w

(* ... and of one half. *)
LEMMA WriteHalf ==
  ASSUME NEW h, NEW g, NEW r \in Rank, NEW out, NEW rows \in {1, 2}, NEW v, Halves(h),
         NewHalf(h, g, r, out, rows, v)
  PROVE  /\ Halves(g)
         /\ \A k \in Rank : k # r => g[k] = h[k]
         /\ out \in Buffers => g[r][out][rows] = v /\ g[r][out][3 - rows] = h[r][out][3 - rows]
         /\ \A b \in Buffers : b # out => g[r][b] = h[r][b]
<1> DEFINE w == [h[r][out] EXCEPT ![rows] = v]
           new == [h[r] EXCEPT ![out] = w]
<1>1. NewRow(h, g, r, new) /\ NewValue(h[r], new, out, w) /\ IsRow(h[r])
  BY DEF NewRow, NewValue, NewHalf, Halves
<1>2. out \in Buffers => IsPair(w) /\ w[rows] = v /\ w[3 - rows] = h[r][out][3 - rows]
  BY <1>1 DEF IsPair, IsRow
<1> HIDE DEF w, new
<1>3. /\ IsRow(new) /\ (out \in Buffers => new[out] = w)
      /\ \A b \in Buffers : b # out => new[b] = h[r][b]
  BY <1>1, <1>2, ValueWritten
<1>4. /\ Halves(g) /\ g[r] = new
      /\ \A k \in Rank : k # r => g[k] = h[k]
  BY <1>1, <1>3, RowWritten
<1>5. /\ Halves(g)
      /\ \A k \in Rank : k # r => g[k] = h[k]
      /\ out \in Buffers => g[r][out][rows] = v /\ g[r][out][3 - rows] = h[r][out][3 - rows]
      /\ \A b \in Buffers : b # out => g[r][b] = h[r][b]
  BY <1>2, <1>3, <1>4, Zenon
<1> QED BY <1>5

(* gather_rows on both sides. *)
Exchanged(h, g, out) ==
  g = [r \in Rank |-> [h[r] EXCEPT ![out][2 - r] = h[1 - r][out][2 - r]]]

LEMMA Exchange ==
  ASSUME NEW h, NEW g, NEW out, Halves(h), Exchanged(h, g, out)
  PROVE  /\ Halves(g)
         /\ \A r \in Rank :
              /\ out \in Buffers => /\ g[r][out][r + 1] = h[r][out][r + 1]
                                    /\ g[r][out][2 - r] = h[1 - r][out][2 - r]
              /\ \A b \in Buffers : b # out => g[r][b] = h[r][b]
<1>1. ASSUME NEW r \in Rank
      PROVE  /\ IsRow(g[r])
             /\ out \in Buffers => /\ g[r][out][r + 1] = h[r][out][r + 1]
                                   /\ g[r][out][2 - r] = h[1 - r][out][2 - r]
             /\ \A b \in Buffers : b # out => g[r][b] = h[r][b]
  <2> DEFINE v == h[1 - r][out][2 - r]
             w == [h[r][out] EXCEPT ![2 - r] = v]
             new == [h[r] EXCEPT ![out] = w]
  <2>1. g[r] = new /\ NewValue(h[r], new, out, w) /\ IsRow(h[r])
    BY DEF Exchanged, NewValue, Halves
  <2>2. 2 - r \in {1, 2} /\ r + 1 \in {1, 2} /\ r + 1 # 2 - r
    BY DEF Rank
  <2> HIDE DEF v
  <2>3. out \in Buffers => IsPair(w) /\ w[2 - r] = v /\ w[r + 1] = h[r][out][r + 1]
    BY <2>1, <2>2 DEF IsPair, IsRow
  <2> HIDE DEF w, new
  <2>4. /\ IsRow(new) /\ (out \in Buffers => new[out] = w)
        /\ \A b \in Buffers : b # out => new[b] = h[r][b]
    BY <2>1, <2>3, ValueWritten
  <2> QED BY <2>1, <2>3, <2>4, Zenon DEF v
<1>2. g = [r \in Rank |-> g[r]]
  BY DEF Exchanged
<1> QED BY <1>1, <1>2, Zenon DEF Halves

-----------------------------------------------------------------------------
LEMMA HeadIs ==
  /\ Len(HeadProgram) = 1 /\ HeadProgram[1].gathered = TRUE /\ HeadProgram[1].out = "logits"
  /\ "logits" \in Buffers
<1> DEFINE x == Linear(<<"logits">>, OutputHead, <<"final", <<"hidden">>>>, Model.hidden_size,
                       "logits", Model.vocab_size)
<1>1. x.gathered = TRUE /\ x.out = "logits"
  BY DEF Linear
<1>2. HeadProgram = <<x>>
  BY DEF HeadProgram
<1> HIDE DEF x
<1>3. Len(HeadProgram) = 1 /\ HeadProgram[1] = x
  BY <1>2
<1> QED BY <1>1, <1>3 DEF Buffers

LEMMA StillIs ==
  ASSUME RankTypes, NEW o, Still(o)
  PROVE  Control(o)' = Control(o) /\ Instruction(o)' = Instruction(o) /\ Value(o)' = Value(o)
<1>1. Control(o)' = Control(o)
  BY Zenon DEF Still, Control
<1>2. Program(o)' = Program(o)
  BY Zenon DEF Still, Program
<1>3. Instruction(o)' = Instruction(o)
  BY <1>2, Zenon DEF Still, Instruction
<1> QED BY <1>1, <1>3, Zenon DEF Still, Value

LEMMA StillWhole ==
  ASSUME RankInvariant, NEW o \in Rank, Still(o), held'[o] = held[o] PROVE Whole(o)'
<1>1. Value(o)' = Value(o)
  BY StillIs, Zenon DEF RankInvariant
<1> QED BY <1>1, Zenon DEF RankInvariant, Whole, Still

LEMMA AtHead ==
  ASSUME RankInvariant, NEW r \in Rank, stage[r] = "head"
  PROVE  /\ pc[r] \in {1, 2} /\ Program(r) = HeadProgram /\ Laid(Control(r)) = HeadProgram
         /\ pc[r] <= Len(Program(r)) => pc[r] = 1 /\ Instruction(r) = HeadProgram[1]
<1>1. Program(r) = HeadProgram
  BY DEF Program
<1>2. Laid(Control(r)) = HeadProgram
  BY <1>1, ProgramIs, Zenon
<1>3. pc[r] \in 1 .. Len(Laid(Control(r))) + 1
  BY OneStands, Zenon DEF Stands
<1>4. pc[r] \in {1, 2}
  BY <1>2, <1>3, HeadIs
<1>5. pc[r] <= Len(Program(r)) => pc[r] = 1
  BY <1>1, <1>4, HeadIs
<1> QED BY <1>1, <1>2, <1>4, <1>5, Zenon DEF Instruction

(* An operator that is not a gathered product keeps it.                    *)
LEMMA ExecuteKeeps ==
  ASSUME RankInvariant, NEW r \in Rank, Execute(r) PROVE RankInvariant'
<1> DEFINE c == Control(r)
<1>1. /\ phase[r] = "run" /\ pc[r] <= Len(Laid(c)) /\ ~Laid(c)[pc[r]].gathered
      /\ Instruction(r) = Laid(c)[pc[r]] /\ (Overfull(r) <=> Refuses(c, pc[r]))
  BY Overfills, Zenon DEF Execute
<1>2. RankTypes /\ Halves(held) /\ \A k \in Rank : Whole(k)
  BY Zenon DEF RankInvariant
<1>3. Control(r)' = c
  BY Zenon DEF Control, Execute
<1>4. 1 - r \in Rank /\ 1 - r # r /\ \A k \in Rank : k = r \/ k = 1 - r
  BY DEF Rank
<1>5. stage[r] # "head"
  <2> SUFFICES ASSUME stage[r] = "head" PROVE FALSE
    OBVIOUS
  <2>1. Instruction(r) = HeadProgram[1]
    BY <1>1, AtHead, ProgramIs, Zenon
  <2> QED BY <1>1, <2>1, HeadIs
<1>6. stage' = stage
  BY DEF Execute
<1>7. Whole(r)'
  BY <1>5, <1>6, Zenon DEF Whole
<1>8. CASE Overfull(r)
  <2>1. /\ phase' = [phase EXCEPT ![r] = "failed"]
        /\ UNCHANGED <<verdict, stage, pc, steps, argmaxes, cached, kept, held>>
    BY <1>8, Zenon DEF Execute
  <2>2. Still(1 - r) /\ phase'[r] = "failed" /\ pc'[r] = pc[r]
    BY <1>2, <1>4, <2>1 DEF Still, RankTypes
  <2>3. InStep'
    <3>1. /\ Stands(verdict, c, pc[r], "failed")
          /\ Pair(verdict, c, pc[r], "failed", Control(1 - r), pc[1 - r], phase[1 - r])
      BY <1>1, <1>8, OneStands, FailKeeps, Zenon
    <3> HIDE DEF c
    <3> QED BY <1>3, <2>1, <2>2, <3>1, OneMoves, Zenon
  <2>4. RankTypes'
    BY <1>2, <2>1 DEF RankTypes
  <2>5. Halves(held')
    BY <1>2, <2>1, Zenon
  <2>6. Whole(1 - r)'
    BY <1>4, <2>1, <2>2, StillWhole, Zenon
  <2> QED BY <1>4, <1>7, <2>3, <2>4, <2>5, <2>6, Zenon DEF RankInvariant
<1>9. CASE ~Overfull(r)
  <2>1. /\ held' = [held EXCEPT ![r][Instruction(r).out] = <<Value(r), Value(r)>>]
        /\ pc' = [pc EXCEPT ![r] = @ + 1]
        /\ UNCHANGED <<verdict, phase, stage, steps, argmaxes, cached, kept>>
    BY <1>9, Zenon DEF Execute
  <2>2. Still(1 - r) /\ phase'[r] = phase[r] /\ pc'[r] = pc[r] + 1
    BY <1>2, <1>4, <2>1 DEF Still, RankTypes
  <2>3. InStep'
    <3>1. /\ Stands(verdict, c, pc[r] + 1, "run")
          /\ Pair(verdict, c, pc[r] + 1, "run", Control(1 - r), pc[1 - r], phase[1 - r])
      BY <1>1, <1>9, OneStands, PassKeeps, Zenon
    <3> HIDE DEF c
    <3> QED BY <1>1, <1>3, <2>1, <2>2, <3>1, OneMoves, Zenon
  <2>4. RankTypes'
    BY <1>2, <2>1 DEF RankTypes
  <2>5. Halves(held') /\ held'[1 - r] = held[1 - r]
    <3> DEFINE out == Instruction(r).out
               v == Value(r)
    <3>1. NewBoth(held, held', r, out, v)
      BY <2>1, Zenon DEF NewBoth
    <3> HIDE DEF out, v
    <3>2. Halves(held)
      BY <1>2
    <3>3. Halves(held') /\ \A k \in Rank : k # r => held'[k] = held[k]
      BY <3>1, <3>2, WriteBoth
    <3> QED BY <1>4, <3>3, Zenon
  <2>6. Whole(1 - r)'
    <3>1. Still(1 - r) /\ held'[1 - r] = held[1 - r]
      BY <2>2, <2>5, Zenon
    <3> QED BY <1>4, <3>1, StillWhole, Zenon
  <2> QED BY <1>4, <1>7, <2>3, <2>4, <2>5, <2>6, Zenon DEF RankInvariant
<1> QED BY <1>8, <1>9

(* So does a half of a gathered product,                                   *)
LEMMA MultiplyKeeps ==
  ASSUME RankInvariant, NEW r \in Rank, Multiply(r) PROVE RankInvariant'
<1> DEFINE c == Control(r)
           out == Instruction(r).out
           v == Value(r)
<1>1. /\ phase[r] = "run" /\ pc[r] <= Len(Laid(c)) /\ Laid(c)[pc[r]].gathered
      /\ pc[r] <= Len(Program(r)) /\ Instruction(r) = Laid(c)[pc[r]]
  BY Overfills, ProgramIs, Zenon DEF Multiply
<1>2. RankTypes /\ Halves(held) /\ \A k \in Rank : Whole(k)
  BY Zenon DEF RankInvariant
<1>3. Control(r)' = c /\ v' = v
  BY Zenon DEF Control, Multiply, Value, Instruction, Program
<1>4. 1 - r \in Rank /\ 1 - r # r /\ r + 1 \in {1, 2} /\ \A k \in Rank : k = r \/ k = 1 - r
  BY DEF Rank
<1>5. /\ held' = [held EXCEPT ![r][out][r + 1] = v]
      /\ phase' = [phase EXCEPT ![r] = "sent"]
      /\ UNCHANGED <<verdict, stage, pc, steps, argmaxes, cached, kept>>
  BY Zenon DEF Multiply
<1>6. Still(1 - r) /\ phase'[r] = "sent" /\ pc'[r] = pc[r] /\ stage'[r] = stage[r]
  BY <1>2, <1>4, <1>5 DEF Still, RankTypes
<1> HIDE DEF c, out, v
<1>7. InStep'
  <2>1. /\ Stands(verdict, c, pc[r], "sent")
        /\ Pair(verdict, c, pc[r], "sent", Control(1 - r), pc[1 - r], phase[1 - r])
    BY <1>1, OneStands, SendKeeps, Zenon DEF c
  <2> QED BY <1>3, <1>5, <1>6, <2>1, OneMoves, Zenon
<1>8. RankTypes'
  BY <1>2, <1>5 DEF RankTypes
<1>9. /\ Halves(held') /\ held'[1 - r] = held[1 - r]
      /\ out \in Buffers => held'[r][out][r + 1] = v
  <2>1. NewHalf(held, held', r, out, r + 1, v)
    BY <1>5, Zenon DEF NewHalf
  <2> QED BY <1>2, <1>4, <2>1, WriteHalf
<1>10. Whole(1 - r)'
  BY <1>4, <1>6, <1>9, StillWhole, Zenon
<1>11. Whole(r)'
  <2>1. CASE stage[r] = "head"
    <3>1. pc[r] = 1 /\ out = "logits" /\ out \in Buffers
      BY <1>1, <2>1, AtHead, HeadIs, Zenon DEF out
    <3>2. held'[r][out][r + 1] = v
      BY <1>9, <3>1, Zenon
    <3>3. ~(pc'[r] > 1)
      BY <1>6, <3>1
    <3> QED BY <1>3, <1>9, <3>1, <3>2, <3>3, Zenon DEF Whole, v
  <2>2. CASE stage[r] # "head"
    BY <1>6, <2>2, Zenon DEF Whole
  <2> QED BY <2>1, <2>2
<1> QED BY <1>4, <1>7, <1>8, <1>9, <1>10, <1>11, Zenon DEF RankInvariant

(* A step of rank r changes its own control state only. *)
Rewrites(r) ==
  /\ stage' = [stage EXCEPT ![r] = stage'[r]] /\ pc' = [pc EXCEPT ![r] = pc'[r]]
  /\ steps' = [steps EXCEPT ![r] = steps'[r]] /\ argmaxes' = [argmaxes EXCEPT ![r] = argmaxes'[r]]
  /\ cached' = [cached EXCEPT ![r] = cached'[r]] /\ kept' = [kept EXCEPT ![r] = kept'[r]]

LEMMA RewritesTyped ==
  ASSUME RankTypes, NEW r \in Rank, Rewrites(r), Control(r)' \in Controls, pc'[r] = 1,
         phase' = phase
  PROVE  RankTypes'
<1>1. /\ stage'[r] \in Stages /\ cached'[r] \in 0 .. IndexTopk /\ kept'[r] \in 0 .. IndexTopk
      /\ steps'[r] \in Nat /\ argmaxes'[r] \in Nat
  BY DEF Control, Controls
<1> QED BY <1>1 DEF RankTypes, Rewrites

(* EndStep and Choose write no buffer; a program begins at 1. *)
LEMMA EndStepKeeps ==
  ASSUME RankInvariant, NEW r \in Rank, EndStep(r) PROVE RankInvariant'
<1> DEFINE c == Control(r)
<1>1. /\ phase[r] = "run" /\ pc[r] > Len(Laid(c)) /\ stage[r] # "head" /\ UNCHANGED <<verdict, phase, held>>
  BY ProgramIs, Zenon DEF EndStep
<1>2. RankTypes /\ Halves(held) /\ \A k \in Rank : Whole(k)
  BY Zenon DEF RankInvariant
<1>3. 1 - r \in Rank /\ 1 - r # r /\ \A k \in Rank : k = r \/ k = 1 - r
  BY DEF Rank
<1>4. Goes(verdict, c) /\ Succ(verdict, c) = Ended(c)
  BY <1>1 DEF Control, Goes, Succ
<1>5. Control(r)' = Ended(c) /\ pc'[r] = 1 /\ phase'[r] = phase[r]
  BY <1>1, <1>2 DEF RankTypes, EndStep, Control, Ended
<1>6. Still(1 - r)
  BY <1>1, <1>2, <1>3 DEF Still, RankTypes, EndStep
<1> HIDE DEF c
<1>7. /\ Stands(verdict, Ended(c), 1, "run")
      /\ Pair(verdict, Ended(c), 1, "run", Control(1 - r), pc[1 - r], phase[1 - r])
  BY <1>1, <1>4, OneStands, StepsOn, Zenon DEF c
<1>8. InStep'
  BY <1>1, <1>5, <1>6, <1>7, OneMoves, Zenon
<1>9. RankTypes'
  <2>1. Control(r)' \in Controls
    BY <1>5, <1>7, Zenon DEF Stands
  <2>2. Rewrites(r)
    BY <1>1, <1>2 DEF Rewrites, RankTypes, EndStep
  <2> QED BY <1>1, <1>2, <1>5, <2>1, <2>2, RewritesTyped, Zenon
<1>10. Whole(1 - r)' /\ Halves(held')
  BY <1>1, <1>2, <1>3, <1>6, StillWhole, Zenon
<1>11. Whole(r)'
  <2>1. ~(pc'[r] > 1) /\ phase'[r] # "sent"
    BY <1>1, <1>5
  <2> QED BY <2>1, Zenon DEF Whole
<1> QED BY <1>3, <1>8, <1>9, <1>10, <1>11, Zenon DEF RankInvariant

(* the choice after the head,                                              *)
LEMMA ChooseKeeps ==
  ASSUME RankInvariant, NEW r \in Rank, Choose(r) PROVE RankInvariant'
<1> DEFINE c == Control(r)
<1>1. /\ phase[r] = "run" /\ pc[r] > Len(Laid(c)) /\ stage[r] = "head"
      /\ UNCHANGED <<verdict, argmaxes, kept, held>>
  BY ProgramIs, Zenon DEF Choose
<1>2. RankTypes /\ Halves(held) /\ \A k \in Rank : Whole(k)
  BY Zenon DEF RankInvariant
<1>3. 1 - r \in Rank /\ 1 - r # r /\ \A k \in Rank : k = r \/ k = 1 - r
  BY DEF Rank
<1>4. PICK choice \in Decisions(r) :
        IF choice = "stop"
        THEN /\ phase' = [phase EXCEPT ![r] = "stopped"]
             /\ UNCHANGED <<stage, pc, steps, cached>>
        ELSE /\ cached' = [cached EXCEPT ![r] = IF choice = "rewind" THEN kept[r] ELSE @]
             /\ stage' = [stage EXCEPT ![r] = IF choice = "propose" THEN "draft" ELSE "decode"]
             /\ steps' = [steps EXCEPT ![r] = IF choice = "propose" THEN @ ELSE @ + 1]
             /\ pc' = [pc EXCEPT ![r] = 1]
             /\ UNCHANGED phase
  BY Zenon DEF Choose
<1>5. choice = Decision(verdict, c)
  <2>1. pc[r] = 2
    <3>1. pc[r] \in {1, 2} /\ Laid(c) = HeadProgram
      BY <1>1, AtHead, Zenon
    <3>2. pc[r] > Len(HeadProgram)
      BY <1>1, <3>1, Zenon
    <3> QED BY <3>1, <3>2, HeadIs
  <2>2. held[r]["logits"][1] = held[r]["logits"][2]
    BY <1>1, <1>2, <2>1 DEF Whole
  <2>3. c.argmaxes = argmaxes[r]
    BY DEF Control
  <2> QED BY <1>4, <2>2, <2>3, Zenon DEF Decisions, Decision
<1>6. c.stage = "head"
  BY <1>1 DEF Control
<1>7. \A k \in Rank : Whole(k)' \/ k # 1 - r
  <2>1. Still(1 - r) /\ held' = held
    BY <1>1, <1>2, <1>3, <1>4 DEF Still, RankTypes
  <2>2. Whole(1 - r)'
    BY <1>3, <2>1, StillWhole, Zenon
  <2> QED BY <2>2, Zenon
<1>8. Halves(held')
  BY <1>1, <1>2, Zenon
<1>9. CASE choice = "stop"
  <2>1. /\ phase' = [phase EXCEPT ![r] = "stopped"]
        /\ UNCHANGED <<verdict, stage, pc, steps, argmaxes, cached, kept, held>>
    BY <1>1, <1>4, <1>9
  <2>2. Still(1 - r) /\ phase'[r] = "stopped" /\ pc'[r] = pc[r] /\ stage'[r] = stage[r]
    BY <1>2, <1>3, <2>1 DEF Still, RankTypes
  <2>3. Control(r)' = c
    BY <2>1, Zenon DEF Control
  <2>4. InStep'
    <3>1. ~Goes(verdict, c)
      BY <1>5, <1>6, <1>9 DEF Goes
    <3>2. /\ Stands(verdict, c, pc[r], "stopped")
          /\ Pair(verdict, c, pc[r], "stopped", Control(1 - r), pc[1 - r], phase[1 - r])
      BY <1>1, <3>1, OneStands, StopKeeps, Zenon
    <3> HIDE DEF c
    <3> QED BY <2>1, <2>2, <2>3, <3>2, OneMoves, Zenon
  <2>5. RankTypes'
    BY <1>2, <2>1 DEF RankTypes
  <2>6. Whole(r)'
    <3>1. phase'[r] # "sent" /\ held'[r] = held[r]
      BY <2>1, <2>2
    <3> QED BY <1>2, <2>2, <3>1, Zenon DEF Whole
  <2> QED BY <1>3, <1>7, <1>8, <2>4, <2>5, <2>6, Zenon DEF RankInvariant
<1>10. CASE choice # "stop"
  <2>1. /\ cached' = [cached EXCEPT ![r] = IF choice = "rewind" THEN kept[r] ELSE @]
        /\ stage' = [stage EXCEPT ![r] = IF choice = "propose" THEN "draft" ELSE "decode"]
        /\ steps' = [steps EXCEPT ![r] = IF choice = "propose" THEN @ ELSE @ + 1]
        /\ pc' = [pc EXCEPT ![r] = 1] /\ phase' = phase /\ argmaxes' = argmaxes /\ kept' = kept
    BY <1>1, <1>4, <1>10
  <2>2. Goes(verdict, c) /\ Succ(verdict, c) = Chosen(c, choice)
    BY <1>5, <1>6, <1>10 DEF Goes, Succ
  <2>3. Control(r)' = Chosen(c, choice) /\ pc'[r] = 1 /\ phase'[r] = phase[r]
    BY <1>2, <2>1 DEF RankTypes, Control, Chosen
  <2>4. Still(1 - r)
    BY <1>2, <1>3, <2>1 DEF Still, RankTypes
  <2> HIDE DEF c
  <2>5. /\ Stands(verdict, Chosen(c, choice), 1, "run")
        /\ Pair(verdict, Chosen(c, choice), 1, "run", Control(1 - r), pc[1 - r], phase[1 - r])
    BY <1>1, <2>2, OneStands, StepsOn, Zenon DEF c
  <2>6. InStep'
    <3>1. verdict' = verdict
      BY <1>1
    <3> QED BY <1>1, <2>3, <2>4, <2>5, <3>1, OneMoves, Zenon
  <2>7. RankTypes'
    <3>1. Control(r)' \in Controls
      BY <2>3, <2>5, Zenon DEF Stands
    <3>2. Rewrites(r)
      BY <1>2, <2>1 DEF Rewrites, RankTypes
    <3> QED BY <1>2, <2>1, <2>3, <3>1, <3>2, RewritesTyped, Zenon
  <2>8. Whole(r)'
    <3>1. ~(pc'[r] > 1) /\ phase'[r] # "sent"
      BY <1>1, <2>3
    <3> QED BY <3>1, Zenon DEF Whole
  <2> QED BY <1>3, <1>7, <1>8, <2>6, <2>7, <2>8, Zenon DEF RankInvariant
<1> QED BY <1>9, <1>10

(* and the gather, where the two halves meet.                              *)
LEMMA GatherKeeps == ASSUME RankInvariant, Gather PROVE RankInvariant'
<1> DEFINE c == Control(0)
           p == pc[0]
<1>1. RankTypes /\ Halves(held) /\ \A k \in Rank : Whole(k)
  BY Zenon DEF RankInvariant
<1>2. phase[0] = "sent" /\ phase[1] = "sent" /\ 0 \in Rank /\ 1 \in Rank /\ 1 - 0 = 1 /\ 1 - 1 = 0
  BY DEF Rank, Gather
<1>3. /\ Stands(verdict, c, p, "sent") /\ LaidOut(c)
      /\ Stands(verdict, Control(1), pc[1], "sent") /\ LaidOut(Control(1))
      /\ Pair(verdict, c, p, "sent", Control(1), pc[1], "sent")
  BY <1>2, OneStands, Zenon
<1>4. Control(1) = c /\ pc[1] = p
  BY <1>3, MeetingsAgree, Zenon
<1>5. /\ phase' = [r \in Rank |-> "run"] /\ pc' = [r \in Rank |-> pc[r] + 1]
      /\ UNCHANGED <<verdict, stage, steps, argmaxes, cached, kept>>
  BY Zenon DEF Gather
<1>6. \A r \in Rank : phase'[r] = "run" /\ pc'[r] = p + 1 /\ Control(r)' = c
  <2>1. \A r \in Rank : r = 0 \/ r = 1
    BY DEF Rank
  <2>2. \A r : Control(r)' = Control(r)
    BY <1>5, Zenon DEF Control
  <2>3. \A r \in Rank : pc[r] = p /\ Control(r) = c
    BY <1>4, <2>1, Zenon
  <2> HIDE DEF p, c
  <2> QED BY <1>5, <2>2, <2>3
<1>7. InStep'
  <2>1. Stands(verdict, c, p + 1, "run") /\ Pair(verdict, c, p + 1, "run", c, p + 1, "run")
    BY <1>3, MeetKeeps, Zenon
  <2>2. verdict' = verdict
    BY <1>5
  <2> HIDE DEF c, p
  <2> QED BY <1>2, <1>6, <2>1, <2>2, Zenon DEF InStep
<1>8. RankTypes'
  BY <1>1, <1>5 DEF RankTypes
<1> DEFINE x == Instruction(0)
<1>9. Instruction(1) = x /\ Instruction(0) = x /\ Value(0) = Value(1)
  <2>1. Instruction(0) = Laid(c)[p] /\ Instruction(1) = Laid(c)[p]
    BY <1>4, Overfills, Zenon
  <2>2. steps[0] = steps[1]
    BY <1>4 DEF Control
  <2> QED BY <2>1, <2>2, Zenon DEF Value
<1>10. Exchanged(held, held', x.out)
  <2>1. \A r \in Rank : Instruction(r).out = x.out /\ Instruction(1 - r).out = x.out
    <3>1. \A r \in Rank : (r = 0 /\ 1 - r = 1) \/ (r = 1 /\ 1 - r = 0)
      BY DEF Rank
    <3> HIDE DEF x
    <3> QED BY <1>9, <3>1, Zenon
  <2>2. held' = [r \in Rank |->
          [held[r] EXCEPT ![Instruction(r).out][2 - r] = held[1 - r][Instruction(1 - r).out][2 - r]]]
    BY Zenon DEF Gather
  <2> DEFINE out == x.out
  <2> HIDE DEF x, out
  <2>3. \A r \in Rank : Instruction(r).out = out /\ Instruction(1 - r).out = out
    BY <2>1 DEF out
  <2>4. held' = [r \in Rank |-> [held[r] EXCEPT ![out][2 - r] = held[1 - r][out][2 - r]]]
    BY <2>2, <2>3
  <2> QED BY <2>4 DEF Exchanged, out
<1> HIDE DEF x, c, p
<1>11. Halves(held')
  BY <1>1, <1>10, Exchange
<1>12. ASSUME NEW r \in Rank PROVE Whole(r)'
  <2>1. phase'[r] # "sent" /\ stage'[r] = stage[r]
    BY <1>5
  <2>2. CASE stage[r] = "head"
    <3>1. stage[0] = "head" /\ stage[1] = "head"
      <4>1. stage[0] = stage[1]
        BY <1>4 DEF Control, c
      <4> QED BY <2>2, <4>1 DEF Rank
    <3>2. x.out = "logits"
      <4>1. pc[0] <= Len(Program(0))
        BY <1>2, <1>3, ProgramIs, Zenon DEF Stands, p, c
      <4>2. x = HeadProgram[1]
        BY <1>2, <3>1, <4>1, AtHead, Zenon DEF x
      <4> QED BY <4>2, HeadIs
    <3>3. held[0]["logits"][1] = Value(0) /\ held[1]["logits"][2] = Value(1)
      <4>1. 0 + 1 = 1 /\ 1 + 1 = 2
        OBVIOUS
      <4>2. held[0]["logits"][0 + 1] = Value(0) /\ held[1]["logits"][1 + 1] = Value(1)
        BY <1>1, <1>2, <3>1, Zenon DEF Whole
      <4> QED BY <4>1, <4>2
    <3>4. ASSUME NEW k \in Rank
          PROVE  /\ held'[k]["logits"][k + 1] = held[k]["logits"][k + 1]
                 /\ held'[k]["logits"][2 - k] = held[1 - k]["logits"][2 - k]
      BY <1>1, <1>10, <3>2, Exchange, HeadIs
    <3>5. held'[r]["logits"][1] = held'[r]["logits"][2]
      <4>1. CASE r = 0
        BY <1>9, <3>3, <3>4, <4>1
      <4>2. CASE r = 1
        BY <1>9, <3>3, <3>4, <4>2
      <4> QED BY <4>1, <4>2 DEF Rank
    <3> QED BY <2>1, <3>5, Zenon DEF Whole
  <2>3. CASE stage[r] # "head"
    BY <2>1, <2>3, Zenon DEF Whole
  <2> QED BY <2>2, <2>3
<1> QED BY <1>7, <1>8, <1>11, <1>12 DEF RankInvariant

LEMMA RanksBegin == Init => RankInvariant
<1> SUFFICES ASSUME Init PROVE RankInvariant
  OBVIOUS
<1>1. IndexTopk \in Nat \ {0}
  BY RankedForwardAssumption
<1>2. RankTypes
  BY <1>1 DEF RankTypes, Init, Stages
<1>3. \A r \in Rank : phase[r] = "run" /\ stage[r] = "prime" /\ pc[r] = 1
  BY DEF Init
<1>4. Control(0) = Control(1) /\ 0 \in Rank /\ 1 \in Rank
  BY DEF Control, Init, Rank
<1>5. \A r \in Rank : Control(r) \in Controls
  BY <1>2 DEF RankTypes, Controls, Control
<1>6. InStep
  <2>1. \A r \in Rank : Stands(verdict, Control(r), pc[r], phase[r])
    <3> SUFFICES ASSUME NEW r \in Rank PROVE Stands(verdict, Control(r), 1, "run")
      BY <1>3, Zenon
    <3>1. Control(r) \in Controls /\ Len(Laid(Control(r))) \in Nat
      BY <1>5, EveryLaidOut DEF LaidOut
    <3> QED BY <3>1 DEF Stands
  <2>2. Abreast(Control(0), 1, Control(1), 1)
    BY <1>4 DEF Abreast
  <2> QED BY <1>3, <1>4, <2>1, <2>2, Zenon DEF InStep, Pair
<1>7. Halves(held)
  <2> DEFINE w == <<Nothing, Nothing>>
  <2>1. IsPair(w)
    BY DEF IsPair
  <2>2. held = [r \in Rank |-> [b \in Buffers |-> w]]
    BY DEF Init
  <2> HIDE DEF w
  <2>3. held = [r \in Rank |-> held[r]] /\ \A r \in Rank : held[r] = [b \in Buffers |-> held[r][b]]
    BY <2>2
  <2>4. \A r \in Rank : \A b \in Buffers : held[r][b] = w
    BY <2>2
  <2> QED BY <2>1, <2>3, <2>4, Zenon DEF Halves, IsRow, IsContents
<1>8. \A r \in Rank : Whole(r)
  BY <1>3 DEF Whole
<1> QED BY <1>2, <1>6, <1>7, <1>8 DEF RankInvariant

LEMMA RestKeeps == ASSUME RankInvariant, UNCHANGED vars PROVE RankInvariant'
<1>1. UNCHANGED <<verdict, phase, stage, pc, steps, argmaxes, cached, kept, held>>
  BY DEF vars
<1>2. \A r : Control(r)' = Control(r) /\ Value(r)' = Value(r)
  BY <1>1, Zenon DEF Control, Value, Instruction, Program
<1>3. RankTypes'
  BY <1>1, Zenon DEF RankInvariant, RankTypes
<1>4. InStep'
  BY <1>1, <1>2, Zenon DEF RankInvariant, InStep
<1>5. Halves(held') /\ \A r \in Rank : Whole(r)'
  BY <1>1, <1>2, Zenon DEF RankInvariant, Whole
<1> QED BY <1>3, <1>4, <1>5 DEF RankInvariant

LEMMA RanksKeep == ASSUME RankInvariant, [Next]_vars PROVE RankInvariant'
<1>1. CASE \E r \in Rank : Execute(r) \/ Multiply(r) \/ EndStep(r) \/ Choose(r)
  BY <1>1, ExecuteKeeps, MultiplyKeeps, EndStepKeeps, ChooseKeeps, Zenon
<1>2. CASE Gather
  BY <1>2, GatherKeeps
<1>3. CASE Rest \/ UNCHANGED vars
  BY <1>3, RestKeeps, Zenon DEF Rest
<1> QED BY <1>1, <1>2, <1>3, Zenon DEF Next

LEMMA AgreementHolds == RankInvariant => GathersAgree
<1> SUFFICES ASSUME RankInvariant PROVE GathersAgree
  OBVIOUS
<1>1. ASSUME \A r \in Rank : phase[r] = "sent"
      PROVE  Value(0) = Value(1) /\ Instruction(0).rows = Instruction(1).rows
  <2>1. 0 \in Rank /\ 1 \in Rank /\ 1 - 0 = 1
    BY DEF Rank
  <2>2. Control(0) = Control(1) /\ pc[0] = pc[1]
    <3>1. phase[0] = "sent" /\ phase[1] = "sent"
      BY <1>1, <2>1
    <3>2. /\ Stands(verdict, Control(0), pc[0], "sent") /\ LaidOut(Control(0))
          /\ Stands(verdict, Control(1), pc[1], "sent") /\ LaidOut(Control(1))
          /\ Pair(verdict, Control(0), pc[0], "sent", Control(1), pc[1], "sent")
      BY <2>1, <3>1, OneStands, Zenon
    <3> QED BY <3>2, MeetingsAgree, Zenon
  <2>3. Instruction(0) = Instruction(1)
    BY <2>2, Overfills, Zenon
  <2>4. steps[0] = steps[1]
    BY <2>2 DEF Control
  <2> QED BY <2>3, <2>4, Zenon DEF Value
<1>2. ASSUME NEW r \in Rank, phase[r] = "sent" PROVE phase[1 - r] \in {"run", "sent"}
  BY <1>2, OneStands, NobodyWaits, Zenon
<1> QED BY <1>1, <1>2, Zenon DEF GathersAgree

(* Whatever the tokens decide after every argmax and wherever the indexer  *)
(* bound stops a step, the two ranks meet in gathers of the same value and *)
(* the same rows, and none waits for one that has left: generate_text's    *)
(* schedule of gathers (apply_rows, gather_rows) needs no agreement beyond *)
(* the order of the instructions, on any cache length and any bound.       *)
THEOREM RanksStayTogether == Spec => []GathersAgree
<1>1. Init => RankInvariant
  BY RanksBegin
<1>2. RankInvariant /\ [Next]_vars => RankInvariant'
  BY RanksKeep
<1>3. RankInvariant => GathersAgree
  BY AgreementHolds
<1> QED BY <1>1, <1>2, <1>3, PTL DEF Spec

-----------------------------------------------------------------------------
(***************************************************************************)
(* The contents of the buffers.  Between two programs, Entry is what the   *)
(* next one relies on and Exit what the last one leaves; inside a program  *)
(* the buffers of a rank follow a trace of it (Follows), torn only in the  *)
(* rows a gather is bringing.                                              *)
(***************************************************************************)

(* What a program relies on, and what it leaves for the next.              *)
PromptTaps == <<2, <<42, "tap">>>>
Entry(c, e) ==
  /\ IsContents(e)
  /\ c.stage \in {"head", "draft", "decode"} => e["taps"] = PromptTaps
  /\ c.stage = "head" => e["final"] = <<c.steps, <<"hidden">>>>
Exit(c, f) ==
  /\ c.stage # "prime" => f["taps"] = PromptTaps
  /\ c.stage \in {"prompt", "decode"} => f["final"] = <<c.steps, <<"hidden">>>>
(* The step that the prompt is, whose taps a proposal takes.               *)
Numbered(c) ==
  /\ c.stage = "prime" => c.steps = 1
  /\ c.stage = "prompt" => c.steps = 2

(* Whatever the stage, its program runs from what the stage before left.   *)
LEMMA EntryRuns ==
  ASSUME NEW c \in Controls, Numbered(c), NEW e, Entry(c, e)
  PROVE  \E f : Runs(c.steps, Laid(c), e, f) /\ Exit(c, f)
<1> DEFINE n == c.steps
<1>1. CASE c.stage = "head"
  <2>1. Laid(c) = HeadProgram /\ c.stage # "prompt" /\ c.stage # "decode"
    BY <1>1 DEF Laid
  <2>2. IsContents(e) /\ e["final"] = <<n, <<"hidden">>>> /\ e["taps"] = PromptTaps
    BY <1>1 DEF Entry
  <2>3. Heading(n, e)
    BY <2>2, HeadRuns
  <2>4. PICK f : Runs(n, HeadProgram, e, f) /\ f["taps"] = e["taps"]
    BY <2>3, Zenon DEF Heading
  <2>5. Exit(c, f)
    BY <2>1, <2>2, <2>4 DEF Exit
  <2> QED BY <2>1, <2>4, <2>5, Zenon
<1>2. CASE c.stage = "draft"
  <2>1. Laid(c) = DraftProgram /\ c.stage # "prompt" /\ c.stage # "decode"
    BY <1>2 DEF Laid
  <2>2. IsContents(e) /\ e["taps"] = PromptTaps
    BY <1>2 DEF Entry
  <2>3. Proposing(n, e)
    BY <2>2, ProposalRuns DEF PromptTaps
  <2>4. PICK f : Runs(n, DraftProgram, e, f) /\ f["taps"] = e["taps"]
    BY <2>3, Zenon DEF Proposing
  <2>5. Exit(c, f)
    BY <2>1, <2>2, <2>4 DEF Exit
  <2> QED BY <2>1, <2>4, <2>5, Zenon
<1>3. CASE c.stage \in Steps
  <2>1. PICK tokens \in Nat \ {0}, capture \in BOOLEAN :
          (capture <=> c.stage = "prompt") /\ Laid(c) = StepProgram(tokens, capture)
    BY <1>3, StepsLaid
  <2>2. capture => n = 2
    BY <2>1 DEF Numbered
  <2>3. IsContents(e) /\ (c.stage = "decode" => e["taps"] = PromptTaps)
    BY DEF Entry
  <2>4. Stepping(n, tokens, capture, e)
    BY <2>2, <2>3, StepRuns
  <2>5. PICK f : /\ Runs(n, StepProgram(tokens, capture), e, f)
                 /\ f["final"] = <<n, <<"hidden">>>>
                 /\ f["taps"] = IF capture THEN <<2, <<42, "tap">>>> ELSE e["taps"]
    BY <2>4, Zenon DEF Stepping
  <2>6. c.stage # "prime" => f["taps"] = PromptTaps
    <3> SUFFICES ASSUME c.stage # "prime" PROVE f["taps"] = PromptTaps
      OBVIOUS
    <3>1. CASE c.stage = "prompt"
      BY <2>1, <2>5, <3>1, Zenon DEF PromptTaps
    <3>2. CASE c.stage = "decode"
      <4>1. ~capture
        BY <2>1, <3>2
      <4> QED BY <2>3, <2>5, <3>2, <4>1, Zenon
    <3> QED BY <1>3, <3>1, <3>2 DEF Steps
  <2>7. Exit(c, f)
    BY <2>5, <2>6, Zenon DEF Exit
  <2> QED BY <2>1, <2>5, <2>7, Zenon
<1>4. c.stage \in Stages
  BY DEF Controls
<1> QED BY <1>1, <1>2, <1>3, <1>4 DEF Stages, Steps

(* How one program follows another.                                        *)
LeadsTo(c, d) ==
  /\ c.stage = "prime" => d.stage = "prompt" /\ d.steps = 2
  /\ c.stage \in {"prompt", "decode"} => d.stage = "head" /\ d.steps = c.steps
  /\ c.stage = "head" => d.stage \in {"draft", "decode"}
  /\ c.stage = "draft" => d.stage = "decode"

LEMMA ExitEnters ==
  ASSUME NEW c \in Controls, NEW d, LeadsTo(c, d), NEW f, IsContents(f), Exit(c, f)
  PROVE  Entry(d, f) /\ Numbered(d)
<1>1. c.stage \in {"prime", "prompt", "head", "draft", "decode"}
  BY DEF Controls, Stages
<1>2. CASE c.stage = "prime"
  BY <1>2 DEF LeadsTo, Entry, Numbered
<1>3. CASE c.stage \in {"prompt", "decode"}
  BY <1>3 DEF LeadsTo, Exit, Entry, Numbered
<1>4. CASE c.stage = "head"
  BY <1>4 DEF LeadsTo, Exit, Entry, Numbered
<1>5. CASE c.stage = "draft"
  BY <1>5 DEF LeadsTo, Exit, Entry, Numbered
<1> QED BY <1>1, <1>2, <1>3, <1>4, <1>5

-----------------------------------------------------------------------------
(* The buffers of a rank follow a trace of its program; while the rank is  *)
(* in a gather, its own rows (half k) are ahead of the others.             *)
Half(c, p, f, k, g, b, rows) ==
  IF f = "sent" /\ b = Laid(c)[p].out /\ rows = k
  THEN <<c.steps, Laid(c)[p].op>> ELSE g[p - 1][b]
Tracks(c, p, f, row, k, g) ==
  /\ Trace(c.steps, Laid(c), g) /\ Exit(c, g[Len(Laid(c))])
  /\ \A b \in Buffers : \A rows \in {1, 2} : row[b][rows] = Half(c, p, f, k, g, b, rows)
Follows(c, p, f, row, k) == \E g : Tracks(c, p, f, row, k, g)

LEMMA EntryFollows ==
  ASSUME NEW c \in Controls, Numbered(c), NEW e, Entry(c, e), NEW f, f # "sent", NEW k, NEW row,
         \A b \in Buffers : \A rows \in {1, 2} : row[b][rows] = e[b]
  PROVE  Follows(c, 1, f, row, k)
<1>1. PICK h : Runs(c.steps, Laid(c), e, h) /\ Exit(c, h)
  BY EntryRuns, Zenon
<1>2. PICK g : Trace(c.steps, Laid(c), g) /\ g[0] = e /\ g[Len(Laid(c))] = h
  BY <1>1, Zenon DEF Runs
<1>3. 1 - 1 = 0
  OBVIOUS
<1>4. Tracks(c, 1, f, row, k, g)
  BY <1>1, <1>2, <1>3, Zenon DEF Tracks, Half
<1> QED BY <1>4, Zenon DEF Follows

(* Instruction p done: both halves are what it leaves.                     *)
LEMMA FollowsOn ==
  ASSUME NEW c, NEW p \in 1 .. Len(Laid(c)), NEW row, NEW k, NEW g, NEW f1, NEW f2, f2 # "sent",
         Tracks(c, p, f1, row, k, g), NEW new,
         LET x == Laid(c)[p] IN
           /\ x.out \in Buffers => \A rows \in {1, 2} : new[x.out][rows] = <<c.steps, x.op>>
           /\ \A b \in Buffers : b # x.out => new[b] = row[b]
  PROVE  Follows(c, p + 1, f2, new, k)
<1> DEFINE x == Laid(c)[p]
           v == <<c.steps, x.op>>
<1>1. Trace(c.steps, Laid(c), g)
  BY Zenon DEF Tracks
<1>2. Executes(c.steps, x, g[p - 1], g[p]) /\ IsContents(g[p - 1])
  <2>1. p - 1 \in 0 .. Len(Laid(c))
    BY <1>1, ListingIs DEF Trace
  <2> QED BY <1>1, <2>1, Zenon DEF Trace
<1>3. /\ x.out \in Buffers => \A rows \in {1, 2} : new[x.out][rows] = v
      /\ \A b \in Buffers : b # x.out => new[b] = row[b]
  BY Zenon
<1> HIDE DEF x
<1>4. \A b \in Buffers : g[p][b] = IF b = x.out THEN v ELSE g[p - 1][b]
  <2> DEFINE out == x.out
  <2>1. g[p] = [g[p - 1] EXCEPT ![out] = v]
    BY <1>2, Zenon DEF Executes
  <2> HIDE DEF v, out
  <2>2. \A b \in Buffers : g[p][b] = IF b = out THEN v ELSE g[p - 1][b]
    BY <1>2, <2>1 DEF IsContents
  <2> QED BY <2>2 DEF out
<1> HIDE DEF v
<1>5. ASSUME NEW b \in Buffers, NEW rows \in {1, 2} PROVE new[b][rows] = g[p][b]
  <2>1. CASE b = x.out
    BY <1>3, <1>4, <2>1, Zenon
  <2>2. CASE b # x.out
    <3>1. row[b][rows] = g[p - 1][b]
      BY <2>2, Zenon DEF Tracks, Half, x
    <3> QED BY <1>3, <1>4, <2>2, <3>1, Zenon
  <2> QED BY <2>1, <2>2
<1>6. (p + 1) - 1 = p
  OBVIOUS
<1> DEFINE q == p + 1
<1>7. q - 1 = p
  BY <1>6
<1> HIDE DEF q
<1>8. Tracks(c, q, f2, new, k, g)
  BY <1>5, <1>7, Zenon DEF Tracks, Half
<1> QED BY <1>8, Zenon DEF Follows, q

LEMMA FollowsSent ==
  ASSUME NEW c, NEW p \in 1 .. Len(Laid(c)), NEW row, NEW k \in {1, 2}, NEW f, f # "sent",
         Follows(c, p, f, row, k), NEW new,
         LET x == Laid(c)[p] IN
           /\ x.out \in Buffers => new[x.out][k] = <<c.steps, x.op>>
                                   /\ new[x.out][3 - k] = row[x.out][3 - k]
           /\ \A b \in Buffers : b # x.out => new[b] = row[b]
  PROVE  Follows(c, p, "sent", new, k)
<1> DEFINE x == Laid(c)[p]
           v == <<c.steps, x.op>>
<1>1. PICK g : Tracks(c, p, f, row, k, g)
  BY Zenon DEF Follows
<1>2. /\ x.out \in Buffers => new[x.out][k] = v /\ new[x.out][3 - k] = row[x.out][3 - k]
      /\ \A b \in Buffers : b # x.out => new[b] = row[b]
  BY Zenon
<1>3. \A b \in Buffers : \A rows \in {1, 2} : row[b][rows] = g[p - 1][b]
  BY <1>1, Zenon DEF Tracks, Half
<1>4. \A rows \in {1, 2} : rows = k \/ rows = 3 - k
  OBVIOUS
<1>5. ASSUME NEW b \in Buffers, NEW rows \in {1, 2} PROVE new[b][rows] = Half(c, p, "sent", k, g, b, rows)
  <2>1. CASE b = x.out /\ rows = k
    BY <1>2, <2>1, Zenon DEF Half
  <2>2. CASE b = x.out /\ rows # k
    BY <1>2, <1>3, <1>4, <2>2, Zenon DEF Half
  <2>3. CASE b # x.out
    BY <1>2, <1>3, <2>3, Zenon DEF Half
  <2> QED BY <2>1, <2>2, <2>3, Zenon
<1>6. Tracks(c, p, "sent", new, k, g)
  BY <1>1, <1>5, Zenon DEF Tracks
<1> QED BY <1>6, Zenon DEF Follows

(* A program is over: its trace ends where the next one's begins.          *)
LEMMA FollowsNext ==
  ASSUME NEW c \in Controls, NEW p, p = Len(Laid(c)) + 1, NEW row, NEW k, Listing(Laid(c)),
         Follows(c, p, "run", row, k), NEW d \in Controls, LeadsTo(c, d)
  PROVE  Follows(d, 1, "run", row, k) /\ Numbered(d)
<1> DEFINE l == Len(Laid(c))
<1>1. l \in 0 .. l /\ p - 1 = l
  BY ListingIs
<1>2. PICK g : Tracks(c, p, "run", row, k, g)
  BY Zenon DEF Follows
<1>3. IsContents(g[l]) /\ Exit(c, g[l])
  BY <1>1, <1>2, Zenon DEF Tracks, Trace
<1>4. Entry(d, g[l]) /\ Numbered(d)
  BY <1>3, ExitEnters, Zenon
<1>5. "run" # "sent"
  OBVIOUS
<1>6. \A b \in Buffers : \A rows \in {1, 2} : row[b][rows] = g[l][b]
  BY <1>1, <1>2, <1>5, Zenon DEF Tracks, Half
<1> HIDE DEF l
<1>7. Follows(d, 1, "run", row, k)
  BY <1>4, <1>5, <1>6, EntryFollows, Zenon
<1> QED BY <1>4, <1>7

LEMMA FollowsStill ==
  ASSUME NEW c, NEW p, NEW row, NEW k, NEW f1, NEW f2, f1 # "sent", f2 # "sent",
         Follows(c, p, f1, row, k)
  PROVE  Follows(c, p, f2, row, k)
<1>1. PICK g : Tracks(c, p, f1, row, k, g)
  BY Zenon DEF Follows
<1>2. Tracks(c, p, f2, row, k, g)
  BY <1>1, Zenon DEF Tracks, Half
<1> QED BY <1>2, Zenon DEF Follows

(* Every instruction finds its operands where it reads them.               *)
LEMMA FollowsFinds ==
  ASSUME NEW c, NEW p \in 1 .. Len(Laid(c)), NEW row, NEW k, NEW f, f # "sent",
         Follows(c, p, f, row, k)
  PROVE  /\ Fits(Laid(c)[p])
         /\ \A read \in Laid(c)[p].reads : \A rows \in {1, 2} :
              row[read[1]][rows] = <<DueIn(c.steps, read[1]), read[2]>>
<1> DEFINE x == Laid(c)[p]
<1>1. PICK g : Tracks(c, p, f, row, k, g)
  BY Zenon DEF Follows
<1>2. Executes(c.steps, x, g[p - 1], g[p])
  BY <1>1, Zenon DEF Tracks, Trace
<1>3. \A b \in Buffers : \A rows \in {1, 2} : row[b][rows] = g[p - 1][b]
  BY <1>1, Zenon DEF Tracks, Half
<1> HIDE DEF x
<1>4. Fits(x)
  BY <1>2, Zenon DEF Executes
<1>5. ASSUME NEW read \in x.reads, NEW rows \in {1, 2}
      PROVE  row[read[1]][rows] = <<DueIn(c.steps, read[1]), read[2]>>
  BY <1>2, <1>3, Zenon DEF Executes, Finds
<1> QED BY <1>4, <1>5 DEF x

-----------------------------------------------------------------------------
(* The invariant of the contents: the buffers of each rank follow a trace  *)
(* of the program it is in, and its step numbers are those of the stages.  *)
Filled(r) == Numbered(Control(r)) /\ Follows(Control(r), pc[r], phase[r], held[r], r + 1)
ContentInvariant == RankInvariant /\ \A r \in Rank : Filled(r)

LEMMA StillFilled ==
  ASSUME ContentInvariant, NEW o \in Rank, Still(o), held'[o] = held[o] PROVE Filled(o)'
<1>1. Control(o)' = Control(o)
  BY StillIs, Zenon DEF ContentInvariant, RankInvariant
<1>2. Filled(o) /\ pc'[o] = pc[o] /\ phase'[o] = phase[o]
  BY Zenon DEF ContentInvariant, Still
<1>3. (o + 1)' = o + 1
  OBVIOUS
<1> QED BY <1>1, <1>2, Zenon DEF Filled

LEMMA OthersFilled ==
  ASSUME NEW r \in Rank, Filled(r)', Filled(1 - r)' PROVE \A k \in Rank : Filled(k)'
<1>1. \A k \in Rank : k = r \/ k = 1 - r
  BY DEF Rank
<1> QED BY <1>1, Zenon

(* What the invariant says of a rank at an instruction, and at the end.    *)
LEMMA RankAt ==
  ASSUME ContentInvariant, NEW r \in Rank
  PROVE  /\ Control(r) \in Controls /\ Listing(Laid(Control(r)))
         /\ Len(Laid(Control(r))) \in Nat /\ pc[r] \in 1 .. Len(Laid(Control(r))) + 1
         /\ Numbered(Control(r)) /\ Follows(Control(r), pc[r], phase[r], held[r], r + 1)
         /\ Value(r) = <<Control(r).steps, Instruction(r).op>>
         /\ Instruction(r) = Laid(Control(r))[pc[r]]
         /\ r + 1 \in {1, 2} /\ 3 - (r + 1) = 2 - r
<1>1. Stands(verdict, Control(r), pc[r], phase[r])
  BY OneStands, Zenon DEF ContentInvariant
<1>2. Control(r) \in Controls /\ pc[r] \in 1 .. Len(Laid(Control(r))) + 1
  BY <1>1, Zenon DEF Stands
<1>3. Filled(r)
  BY Zenon DEF ContentInvariant
<1>4. Control(r).steps = steps[r]
  BY DEF Control
<1>5. Value(r) = <<Control(r).steps, Instruction(r).op>>
  BY <1>4, Zenon DEF Value
<1>6. Instruction(r) = Laid(Control(r))[pc[r]]
  BY Overfills, Zenon
<1>7. r + 1 \in {1, 2} /\ 3 - (r + 1) = 2 - r
  BY DEF Rank
<1>8. Len(Laid(Control(r))) \in Nat
  BY <1>2, EveryLaidOut, Zenon DEF LaidOut
<1>9. Listing(Laid(Control(r)))
  BY <1>2, EveryListing, Zenon
<1> QED BY <1>2, <1>3, <1>5, <1>6, <1>7, <1>8, <1>9, Zenon DEF Filled

(* An operator fills what it writes with what the trace says.              *)
LEMMA ExecuteFills ==
  ASSUME ContentInvariant, NEW r \in Rank, Execute(r) PROVE \A k \in Rank : Filled(k)'
<1> DEFINE c == Control(r)
           p == pc[r]
           x == Laid(c)[p]
           v == Value(r)
<1>1. RankTypes /\ Halves(held)
  BY Zenon DEF ContentInvariant, RankInvariant
<1>2. /\ phase[r] = "run" /\ p \in 1 .. Len(Laid(c)) /\ Instruction(r) = x
  <2>1. phase[r] = "run" /\ p <= Len(Laid(c)) /\ Instruction(r) = x
    BY Overfills, Zenon DEF Execute
  <2> QED BY <2>1, RankAt
<1>3. Control(r)' = c
  BY Zenon DEF Control, Execute
<1>4. 1 - r \in Rank /\ 1 - r # r
  BY DEF Rank
<1>5. Numbered(c) /\ Follows(c, p, phase[r], held[r], r + 1) /\ v = <<c.steps, x.op>>
  BY <1>2, RankAt, Zenon
<1>6. CASE Overfull(r)
  <2>1. /\ phase' = [phase EXCEPT ![r] = "failed"]
        /\ UNCHANGED <<verdict, stage, pc, steps, argmaxes, cached, kept, held>>
    BY <1>6, Zenon DEF Execute
  <2>2. Still(1 - r) /\ phase'[r] = "failed" /\ pc'[r] = pc[r] /\ held'[r] = held[r]
        /\ held'[1 - r] = held[1 - r]
    BY <1>1, <1>4, <2>1 DEF Still, RankTypes
  <2>3. Filled(1 - r)'
    BY <1>4, <2>2, StillFilled, Zenon
  <2>4. phase[r] # "sent" /\ "failed" # "sent"
    BY <1>2
  <2>5. Follows(c, p, "failed", held[r], r + 1)
    BY <1>5, <2>4, FollowsStill, Zenon
  <2>6. Filled(r)'
    BY <1>3, <1>5, <2>2, <2>5, Zenon DEF Filled
  <2> QED BY <2>3, <2>6, OthersFilled
<1>7. CASE ~Overfull(r)
  <2>1. /\ held' = [held EXCEPT ![r][Instruction(r).out] = <<v, v>>]
        /\ pc' = [pc EXCEPT ![r] = @ + 1]
        /\ UNCHANGED <<verdict, phase, stage, steps, argmaxes, cached, kept>>
    BY <1>7, Zenon DEF Execute
  <2>2. Still(1 - r) /\ phase'[r] = phase[r] /\ pc'[r] = p + 1
    BY <1>1, <1>4, <2>1 DEF Still, RankTypes
  <2> DEFINE out == x.out
  <2>3. NewBoth(held, held', r, out, v)
    BY <1>2, <2>1, Zenon DEF NewBoth
  <2> HIDE DEF v, out, x, c, p
  <2>4. /\ \A k \in Rank : k # r => held'[k] = held[k]
        /\ out \in Buffers => held'[r][out] = <<v, v>>
        /\ \A b \in Buffers : b # out => held'[r][b] = held[r][b]
    BY <1>1, <2>3, WriteBoth
  <2>5. out \in Buffers => \A rows \in {1, 2} : held'[r][out][rows] = v
    BY <2>4
  <2>6. PICK g : Tracks(c, p, phase[r], held[r], r + 1, g)
    BY <1>5, Zenon DEF Follows
  <2>7. Follows(c, p + 1, "run", held'[r], r + 1)
    <3>1. "run" # "sent"
      OBVIOUS
    <3>2. /\ x.out \in Buffers => \A rows \in {1, 2} : held'[r][x.out][rows] = <<c.steps, x.op>>
          /\ \A b \in Buffers : b # x.out => held'[r][b] = held[r][b]
      BY <1>5, <2>4, <2>5, Zenon DEF out
    <3> QED BY <1>2, <2>6, <3>1, <3>2, FollowsOn, Zenon DEF x
  <2>8. Filled(r)'
    BY <1>2, <1>3, <1>5, <2>2, <2>7, Zenon DEF Filled
  <2>9. Filled(1 - r)'
    BY <1>4, <2>2, <2>4, StillFilled, Zenon
  <2> QED BY <2>8, <2>9, OthersFilled
<1> QED BY <1>6, <1>7

HalfWritten(h, g, r, out, rows, v) ==
  /\ \A k \in Rank : k # r => g[k] = h[k]
  /\ out \in Buffers => g[r][out][rows] = v /\ g[r][out][3 - rows] = h[r][out][3 - rows]
  /\ \A b \in Buffers : b # out => g[r][b] = h[r][b]
LEMMA OwnHalf ==
  ASSUME NEW h, NEW g, NEW r \in Rank, NEW out, NEW v, Halves(h), NewHalf(h, g, r, out, r + 1, v)
  PROVE  HalfWritten(h, g, r, out, r + 1, v)
<1>1. r + 1 \in {1, 2}
  BY DEF Rank
<1> QED BY <1>1, WriteHalf DEF HalfWritten

(* A half of a product fills the rank's half of its output.                *)
LEMMA MultiplyFills ==
  ASSUME ContentInvariant, NEW r \in Rank, Multiply(r) PROVE \A k \in Rank : Filled(k)'
<1> DEFINE c == Control(r)
           p == pc[r]
           x == Laid(c)[p]
           v == Value(r)
           own == r + 1
           out == x.out
<1>1. RankTypes /\ Halves(held)
  BY Zenon DEF ContentInvariant, RankInvariant
<1>2. /\ phase[r] = "run" /\ p \in 1 .. Len(Laid(c)) /\ Instruction(r) = x
  <2>1. phase[r] = "run" /\ p <= Len(Laid(c)) /\ Instruction(r) = x
    BY Overfills, Zenon DEF Multiply
  <2> QED BY <2>1, RankAt
<1>3. Control(r)' = c
  BY Zenon DEF Control, Multiply
<1>4. 1 - r \in Rank /\ 1 - r # r /\ own \in {1, 2}
  BY DEF Rank
<1>5. Numbered(c) /\ Follows(c, p, "run", held[r], own) /\ v = <<c.steps, x.op>>
  BY <1>2, RankAt, Zenon
<1>6. /\ held' = [held EXCEPT ![r][out][own] = v]
      /\ phase' = [phase EXCEPT ![r] = "sent"]
      /\ UNCHANGED <<verdict, stage, pc, steps, argmaxes, cached, kept>>
  BY <1>2, Zenon DEF Multiply
<1>7. Still(1 - r) /\ phase'[r] = "sent" /\ pc'[r] = p
  BY <1>1, <1>4, <1>6 DEF Still, RankTypes
<1>8. NewHalf(held, held', r, out, own, v)
  BY <1>6, Zenon DEF NewHalf
<1> HIDE DEF c, p, x, v, own, out
<1>9. /\ \A k \in Rank : k # r => held'[k] = held[k]
      /\ out \in Buffers => held'[r][out][own] = v /\ held'[r][out][3 - own] = held[r][out][3 - own]
      /\ \A b \in Buffers : b # out => held'[r][b] = held[r][b]
  <2>1. HalfWritten(held, held', r, out, own, v)
    BY <1>1, <1>8, OwnHalf, Zenon DEF own
  <2> QED BY <2>1, Zenon DEF HalfWritten
<1>10. Follows(c, p, "sent", held'[r], own)
  <2>1. "run" # "sent"
    OBVIOUS
  <2>2. /\ x.out \in Buffers => held'[r][x.out][own] = <<c.steps, x.op>>
                                /\ held'[r][x.out][3 - own] = held[r][x.out][3 - own]
        /\ \A b \in Buffers : b # x.out => held'[r][b] = held[r][b]
    BY <1>5, <1>9, Zenon DEF out
  <2> QED BY <1>2, <1>4, <1>5, <2>1, <2>2, FollowsSent, ZenonT(30) DEF x
<1>11. Filled(r)'
  BY <1>3, <1>5, <1>7, <1>10, Zenon DEF Filled, own
<1>12. Filled(1 - r)'
  BY <1>4, <1>7, <1>9, StillFilled, Zenon
<1> QED BY <1>11, <1>12, OthersFilled

(* A rank begins the program that the last one leads to.                   *)
LEMMA NextFills ==
  ASSUME ContentInvariant, RankInvariant', NEW r \in Rank, Still(1 - r), held' = held,
         phase[r] = "run", phase'[r] = "run", pc[r] > Len(Laid(Control(r))), pc'[r] = 1,
         LeadsTo(Control(r), Control(r)')
  PROVE  \A k \in Rank : Filled(k)'
<1> DEFINE c == Control(r)
           d == Control(r)'
<1>1. d \in Controls
  <2>1. Stands(verdict, Control(r), pc[r], phase[r])'
    BY Zenon DEF RankInvariant, InStep
  <2> QED BY <2>1, Zenon DEF Stands
<1>2. c \in Controls /\ Listing(Laid(c)) /\ Follows(c, pc[r], "run", held[r], r + 1)
  BY RankAt, Zenon
<1>3. pc[r] = Len(Laid(c)) + 1
  <2>1. Len(Laid(c)) \in Nat /\ pc[r] \in 1 .. Len(Laid(c)) + 1
    BY RankAt, Zenon
  <2> QED BY <2>1
<1>4. LeadsTo(c, d)
  OBVIOUS
<1> HIDE DEF c, d
<1>5. Follows(d, 1, "run", held[r], r + 1) /\ Numbered(d)
  BY <1>1, <1>2, <1>3, <1>4, FollowsNext, Zenon
<1>6. Filled(r)'
  BY <1>5, Zenon DEF Filled, d
<1>7. Filled(1 - r)'
  <2>1. 1 - r \in Rank /\ held'[1 - r] = held[1 - r]
    BY DEF Rank
  <2> QED BY <2>1, StillFilled, Zenon
<1> QED BY <1>6, <1>7, OthersFilled

(* The end of a program starts the next where the last one ended.          *)
LEMMA EndStepFills ==
  ASSUME ContentInvariant, RankInvariant', NEW r \in Rank, EndStep(r)
  PROVE  \A k \in Rank : Filled(k)'
<1> DEFINE c == Control(r)
<1>1. /\ phase[r] = "run" /\ pc[r] > Len(Laid(c)) /\ stage[r] # "head" /\ UNCHANGED <<verdict, phase, held>>
  BY ProgramIs, Zenon DEF EndStep
<1>2. RankTypes
  BY Zenon DEF ContentInvariant, RankInvariant
<1>3. Control(r)' = Ended(c) /\ pc'[r] = 1 /\ phase'[r] = "run"
  BY <1>1, <1>2 DEF RankTypes, EndStep, Control, Ended
<1>4. 1 - r \in Rank /\ 1 - r # r
  BY DEF Rank
<1>5. Still(1 - r)
  BY <1>1, <1>2, <1>4 DEF Still, RankTypes, EndStep
<1>6. c.stage \in Stages /\ c.stage # "head"
  BY <1>1, <1>2 DEF Control, RankTypes
<1>7. Numbered(c)
  BY RankAt, Zenon
<1> HIDE DEF c
<1>8. LeadsTo(c, Ended(c))
  BY <1>6, <1>7 DEF LeadsTo, Ended, Stages, Numbered
<1>9. LeadsTo(Control(r), Control(r)')
  BY <1>3, <1>8, Zenon DEF c
<1> QED BY <1>1, <1>3, <1>5, <1>9, NextFills, Zenon DEF c

(* So does the choice after the head.                                      *)
LEMMA ChooseFills ==
  ASSUME ContentInvariant, RankInvariant', NEW r \in Rank, Choose(r)
  PROVE  \A k \in Rank : Filled(k)'
<1> DEFINE c == Control(r)
<1>1. /\ phase[r] = "run" /\ pc[r] > Len(Laid(c)) /\ stage[r] = "head"
      /\ UNCHANGED <<verdict, argmaxes, kept, held>>
  BY ProgramIs, Zenon DEF Choose
<1>2. RankTypes
  BY Zenon DEF ContentInvariant, RankInvariant
<1>3. 1 - r \in Rank /\ 1 - r # r
  BY DEF Rank
<1>4. PICK choice :
        IF choice = "stop"
        THEN /\ phase' = [phase EXCEPT ![r] = "stopped"]
             /\ UNCHANGED <<stage, pc, steps, cached>>
        ELSE /\ cached' = [cached EXCEPT ![r] = IF choice = "rewind" THEN kept[r] ELSE @]
             /\ stage' = [stage EXCEPT ![r] = IF choice = "propose" THEN "draft" ELSE "decode"]
             /\ steps' = [steps EXCEPT ![r] = IF choice = "propose" THEN @ ELSE @ + 1]
             /\ pc' = [pc EXCEPT ![r] = 1]
             /\ UNCHANGED phase
  BY Zenon DEF Choose
<1>5. CASE choice = "stop"
  <2>1. /\ phase' = [phase EXCEPT ![r] = "stopped"]
        /\ UNCHANGED <<verdict, stage, pc, steps, argmaxes, cached, kept, held>>
    BY <1>1, <1>4, <1>5
  <2>2. /\ Still(1 - r) /\ phase'[r] = "stopped" /\ pc'[r] = pc[r] /\ held'[r] = held[r]
        /\ held'[1 - r] = held[1 - r]
    BY <1>2, <1>3, <2>1 DEF Still, RankTypes
  <2>3. Control(r)' = c
    BY <2>1, Zenon DEF Control
  <2>4. Numbered(c) /\ Follows(c, pc[r], "run", held[r], r + 1)
    BY <1>1, RankAt, Zenon
  <2>5. "run" # "sent" /\ "stopped" # "sent"
    OBVIOUS
  <2>6. Follows(c, pc[r], "stopped", held[r], r + 1)
    BY <2>4, <2>5, FollowsStill, Zenon
  <2>7. Filled(r)'
    BY <2>2, <2>3, <2>4, <2>6, Zenon DEF Filled
  <2>8. Filled(1 - r)'
    BY <1>3, <2>2, StillFilled, Zenon
  <2> QED BY <2>7, <2>8, OthersFilled
<1>6. CASE choice # "stop"
  <2>1. /\ cached' = [cached EXCEPT ![r] = IF choice = "rewind" THEN kept[r] ELSE @]
        /\ stage' = [stage EXCEPT ![r] = IF choice = "propose" THEN "draft" ELSE "decode"]
        /\ steps' = [steps EXCEPT ![r] = IF choice = "propose" THEN @ ELSE @ + 1]
        /\ pc' = [pc EXCEPT ![r] = 1] /\ phase' = phase /\ argmaxes' = argmaxes /\ kept' = kept
    BY <1>1, <1>4, <1>6
  <2>2. Control(r)' = Chosen(c, choice) /\ pc'[r] = 1 /\ phase'[r] = "run"
    BY <1>1, <1>2, <2>1 DEF RankTypes, Control, Chosen
  <2>3. Still(1 - r) /\ held' = held
    BY <1>1, <1>2, <1>3, <2>1 DEF Still, RankTypes
  <2>4. c.stage = "head"
    BY <1>1 DEF Control
  <2> HIDE DEF c
  <2>5. LeadsTo(c, Chosen(c, choice))
    BY <2>4 DEF LeadsTo, Chosen
  <2>6. LeadsTo(Control(r), Control(r)')
    BY <2>2, <2>5, Zenon DEF c
  <2> QED BY <1>1, <2>2, <2>3, <2>6, NextFills, Zenon DEF c
<1> QED BY <1>5, <1>6

(* The other rank's half of a gather is what it computed for its own value,*)
(* which is the same one.                                                  *)
LEMMA GatherFills ==
  ASSUME ContentInvariant, Gather PROVE \A r \in Rank : Filled(r)'
<1> DEFINE c == Control(0)
           p == pc[0]
           x == Laid(c)[p]
           v == <<c.steps, x.op>>
           out == x.out
<1>1. RankInvariant /\ Halves(held)
  BY Zenon DEF ContentInvariant, RankInvariant
<1>2. phase[0] = "sent" /\ phase[1] = "sent" /\ 0 \in Rank /\ 1 \in Rank /\ 1 - 0 = 1
  BY DEF Rank, Gather
<1>3. /\ Stands(verdict, c, p, "sent") /\ LaidOut(c)
      /\ Stands(verdict, Control(1), pc[1], "sent") /\ LaidOut(Control(1))
      /\ Pair(verdict, c, p, "sent", Control(1), pc[1], "sent")
  BY <1>1, <1>2, OneStands, Zenon
<1>4. Control(1) = c /\ pc[1] = p
  BY <1>3, MeetingsAgree, Zenon
<1>5. p \in 1 .. Len(Laid(c))
  BY <1>3 DEF Stands, LaidOut
<1>6. ASSUME NEW r \in Rank
      PROVE  /\ Instruction(r) = x /\ Control(r) = c /\ pc[r] = p /\ phase[r] = "sent"
             /\ 1 - r \in Rank
  <2>1. (r = 0 \/ r = 1) /\ 1 - r \in Rank
    BY DEF Rank
  <2>2. Control(r) = c /\ pc[r] = p /\ phase[r] = "sent"
    BY <1>2, <1>4, <2>1, Zenon
  <2>3. Instruction(r) = x
    BY <2>2, Overfills, Zenon
  <2> QED BY <2>1, <2>2, <2>3
<1>7. /\ phase' = [r \in Rank |-> "run"] /\ pc' = [r \in Rank |-> pc[r] + 1]
      /\ UNCHANGED <<verdict, stage, steps, argmaxes, cached, kept>>
      /\ held' = [r \in Rank |->
           [held[r] EXCEPT ![Instruction(r).out][2 - r] = held[1 - r][Instruction(1 - r).out][2 - r]]]
  BY Zenon DEF Gather
<1> HIDE DEF c, p, x, v, out
<1>8. ASSUME NEW r \in Rank PROVE phase'[r] = "run" /\ pc'[r] = p + 1 /\ Control(r)' = c
  <2>1. Control(r)' = Control(r)
    BY <1>7, Zenon DEF Control
  <2>2. pc[r] = p /\ Control(r) = c
    BY <1>6
  <2> QED BY <1>7, <2>1, <2>2
<1>9. Exchanged(held, held', out)
  <2>1. \A r \in Rank : Instruction(r).out = out /\ Instruction(1 - r).out = out
    BY <1>6, Zenon DEF out
  <2>2. held' = [r \in Rank |-> [held[r] EXCEPT ![out][2 - r] = held[1 - r][out][2 - r]]]
    BY <1>7, <2>1
  <2> QED BY <2>2 DEF Exchanged
<1>10. ASSUME NEW r \in Rank
       PROVE  /\ out \in Buffers => held'[r][out][r + 1] = held[r][out][r + 1]
                                    /\ held'[r][out][2 - r] = held[1 - r][out][2 - r]
              /\ \A b \in Buffers : b # out => held'[r][b] = held[r][b]
  BY <1>1, <1>9, Exchange
<1>11. ASSUME NEW r \in Rank PROVE \E g : Tracks(c, p, "sent", held[r], r + 1, g)
  <2>1. Follows(Control(r), pc[r], phase[r], held[r], r + 1)
    BY RankAt, Zenon
  <2>2. Follows(c, p, "sent", held[r], r + 1)
    BY <1>6, <2>1, Zenon
  <2> QED BY <2>2, Zenon DEF Follows
<1>12. ASSUME NEW r \in Rank, out \in Buffers PROVE held[r][out][r + 1] = v
  <2>1. r + 1 \in {1, 2}
    BY DEF Rank
  <2>2. PICK g : Tracks(c, p, "sent", held[r], r + 1, g)
    BY <1>11
  <2>3. held[r][out][r + 1] = Half(c, p, "sent", r + 1, g, out, r + 1)
    BY <1>12, <2>1, <2>2, Zenon DEF Tracks
  <2> QED BY <2>3, Zenon DEF Half, out, v, x
<1>13. ASSUME NEW r \in Rank PROVE Filled(r)'
  <2>1. out \in Buffers => \A rows \in {1, 2} : held'[r][out][rows] = v
    <3> SUFFICES ASSUME out \in Buffers PROVE \A rows \in {1, 2} : held'[r][out][rows] = v
      OBVIOUS
    <3>1. held'[r][out][r + 1] = v
      BY <1>10, <1>12, Zenon
    <3>2. held'[r][out][2 - r] = v
      <4>1. 1 - r \in Rank /\ (1 - r) + 1 = 2 - r
        BY DEF Rank
      <4>2. held[1 - r][out][(1 - r) + 1] = v
        BY <1>12, <4>1, Zenon
      <4> QED BY <1>10, <4>1, <4>2, Zenon
    <3>3. \A rows \in {1, 2} : rows = r + 1 \/ rows = 2 - r
      BY DEF Rank
    <3> QED BY <3>1, <3>2, <3>3, Zenon
  <2>2. PICK g : Tracks(c, p, "sent", held[r], r + 1, g)
    BY <1>11
  <2>3. /\ x.out \in Buffers => \A rows \in {1, 2} : held'[r][x.out][rows] = <<c.steps, x.op>>
        /\ \A b \in Buffers : b # x.out => held'[r][b] = held[r][b]
    BY <1>10, <2>1, Zenon DEF out, v
  <2>4. "run" # "sent"
    OBVIOUS
  <2>5. Follows(c, p + 1, "run", held'[r], r + 1)
    BY <1>5, <2>2, <2>3, <2>4, FollowsOn, Zenon DEF x
  <2>6. Numbered(c)
    BY <1>6, RankAt, Zenon
  <2> QED BY <1>8, <2>5, <2>6, Zenon DEF Filled
<1> QED BY <1>13

LEMMA ContentsBegin == Init => ContentInvariant
<1> SUFFICES ASSUME Init PROVE ContentInvariant
  OBVIOUS
<1>1. RankInvariant
  BY RanksBegin
<1>2. ASSUME NEW r \in Rank PROVE Filled(r)
  <2> DEFINE c == Control(r)
             e == [b \in Buffers |-> Nothing]
  <2>1. phase[r] = "run" /\ pc[r] = 1 /\ c.stage = "prime" /\ c.steps = 1
    BY DEF Init, Control
  <2>2. c \in Controls
    BY <1>1, OneStands, Zenon DEF Stands
  <2>3. \A b \in Buffers : \A rows \in {1, 2} : held[r][b][rows] = e[b]
    <3> DEFINE w == <<Nothing, Nothing>>
               nothing == Nothing
    <3>1. w[1] = nothing /\ w[2] = nothing /\ \A b \in Buffers : e[b] = nothing
      OBVIOUS
    <3>2. held = [q \in Rank |-> [b \in Buffers |-> w]]
      BY DEF Init
    <3> HIDE DEF w, e, nothing
    <3>3. \A b \in Buffers : held[r][b] = w
      BY <3>2
    <3> QED BY <3>1, <3>3
  <2>4. IsContents(e)
    BY DEF IsContents
  <2> HIDE DEF c, e
  <2>5. Entry(c, e) /\ Numbered(c)
    BY <2>1, <2>4 DEF Entry, Numbered
  <2>6. "run" # "sent"
    OBVIOUS
  <2>7. Follows(c, 1, "run", held[r], r + 1)
    BY <2>2, <2>3, <2>5, <2>6, EntryFollows, Zenon
  <2> QED BY <2>1, <2>5, <2>7, Zenon DEF Filled, c
<1> QED BY <1>1, <1>2, Zenon DEF ContentInvariant

LEMMA ContentsKeep == ASSUME ContentInvariant, [Next]_vars PROVE ContentInvariant'
<1>1. RankInvariant'
  BY RanksKeep, Zenon DEF ContentInvariant
<1>2. CASE \E r \in Rank : Execute(r) \/ Multiply(r) \/ EndStep(r) \/ Choose(r)
  <2>1. \A r \in Rank : Filled(r)'
    BY <1>1, <1>2, ExecuteFills, MultiplyFills, EndStepFills, ChooseFills, Zenon
  <2> QED BY <1>1, <2>1, Zenon DEF ContentInvariant
<1>3. CASE Gather
  <2>1. \A r \in Rank : Filled(r)'
    BY <1>3, GatherFills
  <2> QED BY <1>1, <2>1, Zenon DEF ContentInvariant
<1>4. CASE Rest \/ UNCHANGED vars
  <2>1. UNCHANGED <<verdict, phase, stage, pc, steps, argmaxes, cached, kept, held>>
    BY <1>4, Zenon DEF Rest, vars
  <2>2. \A r \in Rank : Still(r) /\ held'[r] = held[r]
    BY <2>1, Zenon DEF Still
  <2>3. \A r \in Rank : Filled(r)'
    BY <2>2, StillFilled, Zenon
  <2> QED BY <1>1, <2>3, Zenon DEF ContentInvariant
<1> QED BY <1>2, <1>3, <1>4, Zenon DEF Next

(* An instruction that is about to run.                                    *)
LEMMA OperandsFound ==
  ASSUME ContentInvariant, NEW r \in Rank, Running(r)
  PROVE  /\ Fits(Instruction(r))
         /\ \A read \in Instruction(r).reads : \A rows \in {1, 2} :
              held[r][read[1]][rows] = <<Due(r, read[1]), read[2]>>
<1> DEFINE c == Control(r)
<1>1. phase[r] = "run" /\ pc[r] <= Len(Laid(c)) /\ Instruction(r) = Laid(c)[pc[r]]
  BY Overfills, Zenon
<1>2. Follows(c, pc[r], "run", held[r], r + 1)
  BY <1>1, RankAt, Zenon
<1>3. pc[r] \in 1 .. Len(Laid(c))
  BY <1>1, RankAt
<1>4. \A b : Due(r, b) = DueIn(c.steps, b)
  BY DEF Due, DueIn, Control
<1>5. "run" # "sent"
  OBVIOUS
<1> HIDE DEF c
<1>6. /\ Fits(Laid(c)[pc[r]])
      /\ \A read \in Laid(c)[pc[r]].reads : \A rows \in {1, 2} :
           held[r][read[1]][rows] = <<DueIn(c.steps, read[1]), read[2]>>
  BY <1>2, <1>3, <1>5, FollowsFinds, Zenon
<1> QED BY <1>1, <1>4, <1>6, Zenon

(* The content invariant holds in every reachable state.                   *)
LEMMA ContentsInvariant == Spec => []ContentInvariant
<1>1. Init => ContentInvariant
  BY ContentsBegin
<1>2. ContentInvariant /\ [Next]_vars => ContentInvariant'
  BY ContentsKeep
<1> QED BY <1>1, <1>2, PTL DEF Spec

(* In every step of every run, prompt, rollback and proposal included, an  *)
(* instruction that is about to run finds both halves of every operand to  *)
(* be the value its own step (for the taps, the prompt) computed for it:   *)
(* the scratch vectors text_forward.cpp shares between the mixers, the     *)
(* MLPs and the streams are never overwritten before their last reader,    *)
(* never read half gathered, and never left over from an earlier step.     *)
THEOREM OperandsStay == Spec => []OperandsAreTheirs
<1>1. ContentInvariant => OperandsAreTheirs
  BY OperandsFound, Zenon DEF OperandsAreTheirs
<1> QED BY <1>1, ContentsInvariant, PTL

(* No instruction of any program reads or writes past the end of a vector  *)
(* the constructor of TextModel sized, on any cache length the indexer     *)
(* bound lets through (text_forward.cpp).                                  *)
THEOREM AccessesStayInside == Spec => []AccessesFit
<1>1. ContentInvariant => AccessesFit
  BY OperandsFound, Zenon DEF AccessesFit, Fits
<1> QED BY <1>1, ContentsInvariant, PTL

=============================================================================
