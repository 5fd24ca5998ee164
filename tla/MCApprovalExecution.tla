------------------------ MODULE MCApprovalExecution ------------------------
EXTENDS ApprovalExecution, TLC

ClientSymmetry == Permutations(Clients)
============================================================================
