-------------------------- MODULE MCWarpSpecialize --------------------------
(* Two default warps and three workers; one op uses all of the workers, the *)
(* other leaves one of them idle.                                           *)
EXTENDS WarpSpecialize

MCOps == << [nums |-> <<1, 2>>, starts |-> <<4, 2>>, regs |-> <<200, 72, 80>>,
             caps |-> TRUE, bars |-> {0, 1, 2}],
            [nums |-> <<2>>, starts |-> <<2>>, regs |-> <<>>,
             caps |-> FALSE, bars |-> {1}] >>
MCPrograms == {<<>>, <<1>>, <<1, 1>>, <<1, 2, 1>>, <<2, 1>>}
=============================================================================
