------------------------ MODULE MCAllocateWarpGroups ------------------------
(* Kernels with one op of up to three partitions, or two of up to two,      *)
(* whose warps and registers the user gives or the compiler chooses.        *)
EXTENDS AllocateWarpGroups

CONSTANTS Sizes,     \* warp counts of partitions
          Requests,  \* requested registers
          Tensors    \* what the largest tensors of a partition need

OpOf(nums, req) == [nums |-> nums, req |-> req, tensors |-> <<>>, least |-> <<>>]
SingleOps == UNION {{<<OpOf(s, r)>> : r \in {<<>>} \cup TupleOf(Requests, Len(s))} :
                       s \in BoundedSeq(Sizes, 3) \ {<<>>}}
PairedOps == {<<OpOf(<<a>>, <<r>>), OpOf(<<b, c>>, <<24, r>>)>> :
                 a, b, c \in Sizes, r \in Requests}

AutoOp(nums, tensors, least) == [nums |-> nums, req |-> <<>>, tensors |-> tensors, least |-> least]
AutoOps == {<<AutoOp(<<n>>, <<t>>, <<l>>)>> : n \in Sizes, t \in Tensors, l \in {1, 4}}
      \cup {<<AutoOp(<<n, 8>>, <<t, u>>, <<1, l>>)>> : n \in Sizes, t, u \in Tensors, l \in {1, 4}}
      \cup {<<AutoOp(<<8, 4, n>>, <<t, u, 0>>, <<4, l, 2>>), AutoOp(<<8>>, <<u>>, <<1>>)>> :
               n \in Sizes, t, u \in Tensors, l \in {1, 4}}

MCKernels == [base : {4, 8}, maxnreg : {0, 128}, auto : {FALSE}, ops : SingleOps \cup PairedOps]
        \cup [base : {4, 8}, maxnreg : {0, 128}, auto : {TRUE}, ops : AutoOps]
=============================================================================
