CONSTANTS
    Tables <- MCTables
    Actions <- MCActions
    Flows <- MCFlows
SPECIFICATION Spec
INVARIANT TypeOK
INVARIANT EntryIdsConsistent
INVARIANT EntryMatchesRequest
