--------------------------- MODULE MCWarpPipeline ---------------------------
(* The machine for the ops as AllocateWarpGroups leaves them: padded, with  *)
(* its start ids and registers.  The state bytes are two bits wide, so that *)
(* the exit id is the last one a byte can hold.                             *)
EXTENDS WarpSpecialize

MCOps == << [nums |-> <<1, 2, 1>>, starts |-> <<6, 4, 7>>, regs |-> <<168, 88, 88, 88>>,
             caps |-> TRUE, bars |-> {0, 2}] >>
MCPrograms == {<<1>>, <<1, 1>>}

WG == INSTANCE WarpGroups
Padded == WG!padToMaxWarpGroups([nums |-> <<1, 2>>, req |-> <<24, 88>>], NumWorker)

ASSUME PipelineAssumption ==
    /\ NumWorker = 4 * WG!numExtraWarpGroups({3})
    /\ MaxNReg = WG!maxnreg(128, NumDefault + NumWorker)
    /\ MCOps[1].nums = Padded.nums
    /\ \E idx \in WG!SortedIdx(Padded.nums) :
          MCOps[1].starts = WG!StartIds(NumDefault, Padded.nums, idx)
    /\ MCOps[1].regs = WG!ActualRegisters(NumDefault, MaxNReg, Padded.nums,
                                          Padded.req, MCOps[1].starts)
=============================================================================
