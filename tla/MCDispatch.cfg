SPECIFICATION DispatchSpec
CONSTANTS
  Chars <- MCChars
  Matches <- MCMatches
  Docs <- MCDocs
  MaxRoutes = 3
  Names = {"u", "v"}
  Pems = {"ca", "pem"}
  MaxEdits = 2
  Paths <- MCPaths
  Hosts <- MCHosts
  HeaderSets <- MCHeaderSets
  None = None
INVARIANTS FindIsBest NoRouteLost ServedAsConfigured
