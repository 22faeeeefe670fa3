SPECIFICATION Spec
CONSTANTS
  Clients = {c1, c2}
  Commands <- AllCommands
  Lines <- SomeLines
  Depth = 2
  Codes = {"a", "b", "up"}
  Chunk = 2
  Limit = 2
  MaxLines = 2
  Nobody = Nobody
INVARIANTS LinesHandledWhole KeysAsPressed
PROPERTIES ClosedForCause CompleteLinesHandled
