SPECIFICATION Spec
INVARIANT EncodeNumMatchesReference
