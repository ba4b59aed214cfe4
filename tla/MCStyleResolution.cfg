CONSTANTS
  NumericTexts <- MCNumericTexts
  FilesystemStyles = {"file", "FILE"}
  ParseConfiguration <- MCParseConfiguration
  Plugins <- MCPlugins
  Globals <- MCGlobals
  Overrides <- MCOverrides

SPECIFICATION Spec
CHECK_DEADLOCK FALSE

INVARIANTS
  SourcesRanked
  BadGlobalsReported
  FilesystemStyleRejected
  ValidityExplained
  ResolvedIsFixedPoint
