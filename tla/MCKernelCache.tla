--------------------------- MODULE MCKernelCache ---------------------------
(* Two processes and one directory: one keeps intermediate stages and one   *)
(* only the binary, or one recompiles what is there.                        *)
EXTENDS KernelCache

MCStages == <<"ttir", "cubin">>
MCSettings == {[always_compile |-> FALSE, store_binary_only |-> FALSE],
               [always_compile |-> TRUE, store_binary_only |-> TRUE]}
=============================================================================
