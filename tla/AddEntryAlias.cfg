CONSTANTS
    Tables <- MCTables
    Actions <- MCActions
    Flows <- MCFlows
SPECIFICATION Spec
INVARIANT NameErrorsJustified
