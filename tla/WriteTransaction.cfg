CONSTANT MaxBatch <- MCMaxBatch
SPECIFICATION Spec
INVARIANT TypeOK
INVARIANT OutcomeMatchesReply
