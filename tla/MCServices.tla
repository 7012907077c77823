------------------------------ MODULE MCServices ------------------------------
EXTENDS Services

MCItemOf == [s \in Stacks |-> 7]     \* all stacks of one item
=============================================================================
