----------------------------- MODULE ShardHeader -----------------------------
(***************************************************************************)
(* read_shard (src/src/checkpoint_binding.cpp): whether the tensors a      *)
(* safetensors header declares lie in the payload, each with the size its  *)
(* dtype and shape give, without sharing a byte.  Sizes are computed in    *)
(* unsigned integers that wrap at MaxUint.                                 *)
(***************************************************************************)
EXTENDS Integers, Functions, SequencesExt

CONSTANTS
  MaxUint,       \* 2^64 - 1
  Width,         \* bytes of one element of each supported dtype
  Declarations,  \* sequences of [dtype, shape, begin, end]
  Payloads       \* bytes after the header, a 64-bit count like every size

ASSUME HeaderAssumption ==
  /\ MaxUint \in Nat
  /\ \A dtype \in DOMAIN Width : Width[dtype] \in Nat \ {0}
  /\ \A h \in Declarations : h \in Seq([dtype : STRING, shape : Seq(Int), begin : Int, end : Int])
  /\ Payloads \subseteq 0 .. MaxUint

VARIABLES
  declared, \* the parsed header
  payload,  \* payload_bytes
  phase,    \* "validate", "sort", "compare", "accepted", "refused"
  next,     \* the tensor to validate
  order     \* the tensors with bytes, in the order of their ranges

headerVars == <<declared, payload, phase, next, order>>

Refused == -1

(* Slip: products wrap unnoticed. *)
WrappingTimes(product, factor) ==
  IF product = Refused \/ factor < 0 THEN Refused ELSE (product * factor) % (MaxUint + 1)

Times(product, factor) ==
  IF product = Refused \/ factor < 0 THEN Refused
  ELSE IF factor # 0 /\ product > MaxUint \div factor THEN Refused
  ELSE (product * factor) % (MaxUint + 1)

(* expected_tensor_bytes *)
TensorBytes(tensor) ==
  IF tensor.dtype \notin DOMAIN Width THEN Refused
  ELSE Times(FoldLeft(Times, 1, tensor.shape), Width[tensor.dtype])

(* validate_tensor_offsets *)
OffsetsValid(tensor, bytes) ==
  /\ tensor.begin >= 0 /\ tensor.end >= tensor.begin
  /\ tensor.end - tensor.begin = TensorBytes(tensor)
  /\ tensor.end <= bytes

WithBytes == {i \in 1..Len(declared) : declared[i].begin # declared[i].end}

(* std::sort on (begin, end) *)
Before(a, b) == a.begin < b.begin \/ (a.begin = b.begin /\ a.end <= b.end)

HeaderInit ==
  /\ declared \in Declarations /\ payload \in Payloads
  /\ phase = "validate" /\ next = 1 /\ order = << >>

ValidateTensor ==
  /\ phase = "validate" /\ next <= Len(declared)
  /\ IF OffsetsValid(declared[next], payload)
     THEN next' = next + 1 /\ UNCHANGED phase
     ELSE phase' = "refused" /\ UNCHANGED next
  /\ UNCHANGED <<declared, payload, order>>

SortRanges ==
  /\ phase = "validate" /\ next > Len(declared)
  /\ \E n \in 0..Len(declared) : order' \in Bijection(1..n, WithBytes)
  /\ \A i, j \in DOMAIN order' : i < j => Before(declared[order'[i]], declared[order'[j]])
  /\ phase' = "compare"
  /\ UNCHANGED <<declared, payload, next>>

(* Slip: only the beginnings are compared. *)
BeginningsApart ==
  \A i \in DOMAIN order : i > 1 => declared[order[i]].begin > declared[order[i - 1]].begin

(* Each range with the one before it. *)
NeighboursApart ==
  \A i \in DOMAIN order : i > 1 => declared[order[i]].begin >= declared[order[i - 1]].end

CompareNeighbours ==
  /\ phase = "compare"
  /\ phase' = IF NeighboursApart THEN "accepted" ELSE "refused"
  /\ UNCHANGED <<declared, payload, next, order>>

HeaderRest == phase \in {"accepted", "refused"} /\ UNCHANGED headerVars

HeaderNext == ValidateTensor \/ SortRanges \/ CompareNeighbours \/ HeaderRest

HeaderSpec == HeaderInit /\ [][HeaderNext]_headerVars

-----------------------------------------------------------------------------
(* Two tensors share no byte. *)
Apart(i, j) ==
  \/ declared[i].begin = declared[i].end \/ declared[j].begin = declared[j].end
  \/ declared[i].end <= declared[j].begin \/ declared[j].end <= declared[i].begin

(* Comparing each range with its predecessor is enough: in an accepted     *)
(* header no two tensors overlap and all lie in the payload                *)
(* (checkpoint_binding.cpp:404-417).                                       *)
AcceptedIsDisjoint ==
  phase = "accepted" =>
    /\ \A i \in 1..Len(declared) :
         0 <= declared[i].begin /\ declared[i].begin <= declared[i].end /\ declared[i].end <= payload
    /\ \A i, j \in 1..Len(declared) : i # j => Apart(i, j)

(* The exact number of bytes of a tensor, without any bound. *)
TrueBytes(tensor) == Width[tensor.dtype] * FoldLeft(LAMBDA n, dim : n * dim, 1, tensor.shape)

Sound ==
  /\ \A i \in 1..Len(declared) :
       /\ 0 <= declared[i].begin /\ declared[i].begin <= declared[i].end /\ declared[i].end <= payload
       /\ declared[i].dtype \in DOMAIN Width
       /\ \A k \in 1..Len(declared[i].shape) : declared[i].shape[k] >= 0
       /\ declared[i].end - declared[i].begin = TrueBytes(declared[i])
  /\ \A i, j \in 1..Len(declared) : i # j => Apart(i, j)

(* A range has exactly the bytes dtype and shape call for: a product that  *)
(* wraps around never passes for a small one.  And a sound header is       *)
(* refused only for an empty tensor whose other dimensions overflow before *)
(* the zero is reached (checkpoint_binding.cpp:99-128).                    *)
SizesAreExact ==
  /\ phase = "accepted" => \A i \in 1..Len(declared) :
       /\ declared[i].dtype \in DOMAIN Width
       /\ declared[i].end - declared[i].begin = TrueBytes(declared[i])
  /\ phase = "refused" /\ Sound => \E i \in 1..Len(declared) :
       TrueBytes(declared[i]) = 0 /\ TensorBytes(declared[i]) = Refused
=============================================================================
