------------------------------ MODULE PackedView ------------------------------
(***************************************************************************)
(* Nvfp4MatrixView of nvfp4_decode.cpp: a matrix over packed weights (two  *)
(* to a byte) and block scales (one byte for sixteen), slices of it that   *)
(* keep the parent's strides, and the dequantization and product that read *)
(* through it while they write to memory of the same address space.  A     *)
(* span is [at, size]; sizes and addresses are size_t, of Word values.     *)
(***************************************************************************)
EXTENDS Integers, Sequences

CONSTANTS
  Word,      \* number of values of size_t and uintptr_t: 2^64 in the program
  Rows,      \* row counts and row numbers that are asked for
  Columns,   \* column counts and column numbers that are asked for
  Spans,     \* the buffers a caller can hand over: [at, size]
  MaxSlices  \* bound: how deep slices are nested

ASSUME PackedViewAssumption ==
  /\ Word \in Nat /\ MaxSlices \in Nat
  /\ Rows \subseteq 0 .. Word - 1 /\ Columns \subseteq 0 .. Word - 1
  /\ Spans \subseteq [at : 0 .. Word - 1, size : Nat]
  /\ \A s \in Spans : s.size \in 0 .. Word - s.at

VARIABLES
  view,     \* the current view
  origin,   \* its first row and column in the matrix first validated
  whole,    \* that matrix
  slices,   \* slices taken
  outcome   \* "view" | what was thrown | what was computed

viewVars == <<view, origin, whole, slices, outcome>>

Group == 16
FloatSize == 4

(* checked_mul: the product, and when it is refused. *)
Multiplied(a, b) == (a * b) % Word
Overflows(a, b) == a * b >= Word

(* What elements() and require_size throw for. *)
BadElements(rows, cols) == rows = 0 \/ cols = 0 \/ Overflows(rows, cols)
TooShort(span, n, width) == span.size \div width < n \/ Overflows(n, width)

(* Slip: the ends are compared, and an end may wrap. *)
OverlapsByEnds(a, b) ==
  a.size > 0 /\ b.size > 0
    /\ a.at < (b.at + b.size) % Word /\ b.at < (a.at + a.size) % Word

Overlaps(a, b) ==
  /\ a.size > 0 /\ b.size > 0
  /\ IF a.at <= b.at THEN b.at - a.at < a.size ELSE a.at - b.at < b.size

Subspan(span, offset, size) == [at |-> (span.at + offset) % Word, size |-> size]

(* The bytes at(row, col) reads, in a span given by its index. *)
PackedIndex(v, row, col) == row * v.packed_stride + col \div 2
ScaleIndex(v, row, col) == row * v.scale_stride + col \div Group
BytesRead(v, row, col) ==
  {v.packed.at + PackedIndex(v, row, col), v.scales.at + ScaleIndex(v, row, col)}

Elements(v) == (0 .. v.rows - 1) \X (0 .. v.cols - 1)

-----------------------------------------------------------------------------
NoView == [packed |-> [at |-> 0, size |-> 0], scales |-> [at |-> 0, size |-> 0],
           rows |-> 0, cols |-> 0, packed_stride |-> 0, scale_stride |-> 0]

ViewInit ==
  /\ view = NoView /\ whole = NoView /\ origin = <<0, 0>>
  /\ slices = 0 /\ outcome = "view"

(* The public constructor.  The scales' values are finite and in range, or *)
(* the view is refused: `badScales'.                                       *)
Construct ==
  /\ outcome = "view" /\ view = NoView
  /\ \E rows \in Rows, cols \in Columns, packed, scales \in Spans, badScales \in BOOLEAN :
       LET p == Multiplied(rows, cols \div 2)
           s == Multiplied(rows, cols \div Group)
           refused == \/ BadElements(rows, cols) \/ cols % Group # 0
                      \/ Overflows(rows, cols \div 2) \/ Overflows(rows, cols \div Group)
                      \/ TooShort(packed, p, 1) \/ TooShort(scales, s, 1) \/ badScales
           made == [packed |-> Subspan(packed, 0, p), scales |-> Subspan(scales, 0, s),
                    rows |-> rows, cols |-> cols,
                    packed_stride |-> cols \div 2, scale_stride |-> cols \div Group]
       IN IF refused THEN outcome' = "refused" /\ UNCHANGED <<view, whole>>
          ELSE view' = made /\ whole' = made /\ UNCHANGED outcome
  /\ UNCHANGED <<origin, slices>>

(* Slip: a slice's rows are as far apart as its own columns are wide. *)
TightSlice(v, row, rows, col, cols) ==
  [packed |-> Subspan(v.packed, row * v.packed_stride + col \div 2, rows * (cols \div 2)),
   scales |-> Subspan(v.scales, row * v.scale_stride + col \div Group, rows * (cols \div Group)),
   rows |-> rows, cols |-> cols,
   packed_stride |-> cols \div 2, scale_stride |-> cols \div Group]

SliceOf(v, row, rows, col, cols) ==
  [packed |-> Subspan(v.packed, row * v.packed_stride + col \div 2,
                      (rows - 1) * v.packed_stride + cols \div 2),
   scales |-> Subspan(v.scales, row * v.scale_stride + col \div Group,
                      (rows - 1) * v.scale_stride + cols \div Group),
   rows |-> rows, cols |-> cols,
   packed_stride |-> v.packed_stride, scale_stride |-> v.scale_stride]

Slice ==
  /\ outcome = "view" /\ view # NoView /\ slices < MaxSlices
  /\ \E row, rows \in Rows, col, cols \in Columns :
       IF \/ rows = 0 \/ cols = 0 \/ row >= view.rows \/ col >= view.cols
          \/ rows > view.rows - row \/ cols > view.cols - col
          \/ col % Group # 0 \/ cols % Group # 0
       THEN outcome' = "out_of_range" /\ UNCHANGED <<view, origin>>
       ELSE /\ view' = SliceOf(view, row, rows, col, cols)
            /\ origin' = <<origin[1] + row, origin[2] + col>>
            /\ UNCHANGED outcome
  /\ slices' = slices + 1 /\ UNCHANGED whole

(* Where float k of the row-major output goes. *)
BytesWritten(out, k) == out.at + FloatSize * k .. out.at + FloatSize * k + FloatSize - 1

(* nvfp4_dequantize writes an element before it reads the next: is one of  *)
(* the bytes it reads already gone?                                        *)
ReadsItsOwnOutput(v, out) ==
  \E e, f \in Elements(v) :
    /\ f[1] * v.cols + f[2] < e[1] * v.cols + e[2]
    /\ BytesWritten(out, f[1] * v.cols + f[2]) \cap BytesRead(v, e[1], e[2]) # {}

Dequantize ==
  /\ outcome = "view" /\ view # NoView
  /\ \E buffer \in Spans :
       LET n == view.rows * view.cols
           out == [buffer EXCEPT !.size = FloatSize * n]
       IN outcome' =
            IF \/ BadElements(view.rows, view.cols) \/ TooShort(buffer, n, FloatSize)
               \/ Overlaps(out, view.packed) \/ Overlaps(out, view.scales)
            THEN "refused"
            ELSE IF ReadsItsOwnOutput(view, out) THEN "garbled" ELSE "dequantized"
  /\ UNCHANGED <<view, origin, whole, slices>>

(* nvfp4_packed_gemv holds the products back until all are there, and      *)
(* refuses an output over its weights all the same: they must stay as they *)
(* are for the views that are still in use.                                *)
PackedGemv ==
  /\ outcome = "view" /\ view # NoView
  /\ \E x, y \in Spans :
       LET out == [y EXCEPT !.size = FloatSize * view.rows]
       IN outcome' =
            IF \/ TooShort(x, view.cols, FloatSize) \/ TooShort(y, view.rows, FloatSize)
               \/ Overlaps(out, view.packed) \/ Overlaps(out, view.scales)
            THEN "refused"
            ELSE IF \E e \in Elements(view), k \in 0 .. view.rows - 1 :
                      BytesWritten(out, k) \cap BytesRead(view, e[1], e[2]) # {}
                 THEN "garbled" ELSE "multiplied"
  /\ UNCHANGED <<view, origin, whole, slices>>

ViewRest == outcome # "view" /\ UNCHANGED viewVars

ViewNext == Construct \/ Slice \/ Dequantize \/ PackedGemv \/ ViewRest

ViewSpec == ViewInit /\ [][ViewNext]_viewVars

-----------------------------------------------------------------------------
(* However slices are nested, every element of a view is read inside the   *)
(* view's own spans (operator[] of a span checks nothing), and from the    *)
(* bytes that hold that element in the matrix that was validated.          *)
ViewsReadTheirElements ==
  \A e \in Elements(view) :
    /\ PackedIndex(view, e[1], e[2]) < view.packed.size
    /\ ScaleIndex(view, e[1], e[2]) < view.scales.size
    /\ BytesRead(view, e[1], e[2]) = BytesRead(whole, origin[1] + e[1], origin[2] + e[2])
    /\ (origin[2] + e[2]) % 2 = e[2] % 2

(* No output that is accepted reaches a byte of the weights: nothing is    *)
(* computed from a byte that was overwritten, wherever the buffers lie,    *)
(* the last address included.                                              *)
OutputsSpareTheWeights == outcome # "garbled"
=============================================================================
