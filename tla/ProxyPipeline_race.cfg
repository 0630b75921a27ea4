CONSTANTS
  q1 = q1  q2 = q2  q3 = q3  n1 = n1  n2 = n2  r1 = r1  r2 = r2  i1 = i1  i2 = i2  i3 = i3
  NoRow = NoRow  NoId = NoId  NoLink = NoLink  Lost = Lost  Nobody = Nobody  Public = Public
  Questions = {q1, q2, q3}  Similarity <- Similar  Fuzzy <- Close  Parts <- Decomposed
  Conversations <- Singles  Arrivals <- TwoSpaces  Elsewhere <- SecondOnly
  Namespaces = {n1}  Fallback = {}
  Requests = {r1, r2}
  Ids = {i1, i2, i3}
  SemanticMax = 3  FuzzyMax = 3  FactMax = 5  LongAnswers = {}  FactQuality = 1000
  HasEmbedder = TRUE  Promoting = TRUE  MaxDaily = 1
  MaxEntries = 2  EvictionInterval = 1  MaxFacts = 1  MaxLinks = 1  ScanInterval = 1
  DbThreshold = 1  EmbedThreshold = 1
  MaxFaults = 0  MaxSessions = 1
SPECIFICATION Spec
SYMMETRY Symmetry
INVARIANTS OfferedWasValid TrackerBounded  
