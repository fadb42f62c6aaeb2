SPECIFICATION ArtSpec
CONSTANTS
  ArtPath = {p1}
  Content = {c1, c2}
  ArtRequest = {a1, a2}
  MaxVersion = 3
  Fails = FALSE
INVARIANT NewestNotSuperseded
CHECK_DEADLOCK FALSE
