CONSTANTS
    Tables <- CollideTables
    Actions <- CollideActions
    Flows <- CollideFlows
SPECIFICATION Spec
INVARIANT EntryIdsConsistent
