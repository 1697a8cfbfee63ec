SPECIFICATION Spec
CONSTANTS
  Words = {"select", "from", "where", "and", "or", "not", "order", "by", "desc", "limit", "effective", "at", "as", "of", "like", "in", "is", "null", "a"}
  Kinds = {"Star", "Comma", "LParen", "RParen", "Eq"}
  Lexemes <- MCLexemes
  Starts <- MCStarts
  MaxLexemes = 5
  Datetimes = {"t"}
  Hlcs = {"h"}
  None = None
INVARIANTS AcceptsQueries FilterAsWritten LastClauseCounts
CHECK_DEADLOCK FALSE
