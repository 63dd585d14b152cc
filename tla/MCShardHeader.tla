---------------------------- MODULE MCShardHeader ----------------------------
(* Sizes wrap at 16.  One tensor of every dtype, shape of up to two        *)
(* dimensions and pair of offsets; and every header of up to three byte    *)
(* tensors whose offsets fit their size.                                   *)
EXTENDS ShardHeader

MCWidth == [dtype \in {"F8_E4M3", "BF16"} |-> IF dtype = "BF16" THEN 2 ELSE 1]

Dims == {-1, 0, 1, 2, 3, 8}
Shapes == {<< >>} \cup {<<a>> : a \in Dims} \cup {<<a, b>> : a \in Dims, b \in Dims}
Lone == {<<tensor>> : tensor \in
           [dtype : {"F8_E4M3", "BF16", "U128"}, shape : Shapes, begin : -1..4, end : -1..5]}

Fitting == {[dtype |-> "F8_E4M3", shape |-> <<b - a>>, begin |-> a, end |-> b] :
              <<a, b>> \in {range \in (0..3) \X (0..3) : range[1] <= range[2]}}
MCDeclarations == Lone \cup UNION {[1..n -> Fitting] : n \in {0, 2, 3}}
=============================================================================
