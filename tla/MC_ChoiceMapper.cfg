CONSTANTS
    Words <- MCWords
    LowerWord <- MCLowerWord
SPECIFICATION Spec
INVARIANTS
    ResolvesByAliasGrammar
CHECK_DEADLOCK FALSE
