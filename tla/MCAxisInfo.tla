----------------------------- MODULE MCAxisInfo -----------------------------
EXTENDS AxisInfo
MCPointer == [value |-> 16, divisibility |-> 16]
MCParams == {[value |-> 8, divisibility |-> 4]}
MCTerms == {[op |-> "muli", by |-> 4], [op |-> "divsi", by |-> 2]}
=============================================================================
