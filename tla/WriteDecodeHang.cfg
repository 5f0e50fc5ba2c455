CONSTANT MaxBatch <- MCMaxBatch
SPECIFICATION Spec
PROPERTY DecodeTerminates
