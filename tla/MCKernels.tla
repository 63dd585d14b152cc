------------------------------ MODULE MCKernels ------------------------------
(***************************************************************************)
(* The kernels whose indices are modelled, one at a time: a packed view, a *)
(* convolution, a selection by scores.  They share no memory.              *)
(*                                                                         *)
(* An address space of 512 bytes, with buffers at its bottom, in its       *)
(* middle and up to its last byte; three channels and a kernel of four;    *)
(* five scores of three levels or NaN.                                     *)
(***************************************************************************)
EXTENDS PackedView, ConvHistory, Selection

VARIABLE kernel  \* "view", "convolution" or "selection"

MCSpans ==
  {[at |-> a, size |-> n] : a \in {0, 24, 72, 128, 448}, n \in {0, 8, 9, 64}}
  \cup {[at |-> 72, size |-> 256], [at |-> 256, size |-> 256], [at |-> 424, size |-> 88],
        [at |-> 0, size |-> 511]}

KernelInit ==
  /\ kernel \in {"view", "convolution", "selection"}
  /\ ViewInit /\ ConvInit /\ SelectionInit
  /\ kernel # "selection" => \A id \in Ids : scores[id] = NaN

KernelNext ==
  /\ \/ kernel = "view" /\ ViewNext /\ UNCHANGED <<convVars, selectionVars>>
     \/ kernel = "convolution" /\ ConvNext /\ UNCHANGED <<viewVars, selectionVars>>
     \/ kernel = "selection" /\ SelectionNext /\ UNCHANGED <<viewVars, convVars>>
  /\ UNCHANGED kernel

KernelSpec == KernelInit /\ [][KernelNext]_<<viewVars, convVars, selectionVars, kernel>>
=============================================================================
