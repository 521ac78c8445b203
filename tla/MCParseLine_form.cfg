\* Lines of up to three lexemes.
SPECIFICATION ParseSpec
CONSTANTS
  MAXARGS = 4
  Lexeme = {"<", ">", "unclosed", "word", "&", "'&'", "fg"}
  LEXEMES = 3
INVARIANTS
  AsDocumented
CHECK_DEADLOCK FALSE
