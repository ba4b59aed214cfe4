CONSTANTS
  NumericTexts <- MCNumericTexts
  FilesystemStyles = {"file", "FILE"}
  ParseConfiguration <- MCParseConfiguration
  ConfigIds = {1, 2}
  Payloads <- MCPayloads
  Overrides <- MCOverrides
  Paths <- MCPaths
  Texts <- MCTexts
  EmptyText = ""
  Length <- MCLength
  Offsets = {0, 1, 3}
  GuessLanguage <- MCGuessLanguage
  LibFormat <- MCLibFormat

SPECIFICATION Spec

INVARIANTS
  TypeOK
  UniqueIds
  CacheIsFresh
  StylesNeedNoFiles
  ResultsMatchCode

PROPERTIES
  OverrideServesOnce
  OneConfigAtATime
