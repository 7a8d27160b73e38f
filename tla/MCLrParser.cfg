SPECIFICATION Spec
CONSTANTS
  Grammars <- MCGrammars
  MaxTokens = 6
  MaxHeight = 7
INVARIANT ParsesTheLanguage
INVARIANT PrecedenceDecides
INVARIANT ConflictsAreReal
INVARIANT ContextsAlive
CHECK_DEADLOCK FALSE
