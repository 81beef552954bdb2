SPECIFICATION LiveSpec
CONSTANTS
  Symbols <- MCSymbols
  Docs <- MCDocs
  AnyTexts <- MCTexts
INVARIANTS JsonTypeOK CallsNest ParsesBack
PROPERTIES Returns
