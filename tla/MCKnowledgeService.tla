-------------------------- MODULE MCKnowledgeService --------------------------
EXTENDS KnowledgeService, TLC

CallSymmetry == Permutations(Calls)
=============================================================================
