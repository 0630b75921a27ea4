CONSTANTS
  d1 = d1  s1 = s1  s2 = s2  h1 = h1  h2 = h2  k1 = k1  k2 = k2  k3 = k3
  chat = chat  gateway = gateway  r1 = r1  r2 = r2
  i1 = i1  i2 = i2  i3 = i3  i4 = i4
  NoHash = NoHash  Unborn = Unborn  Retired = Retired
  NoRow = NoRow  NoId = NoId  NoKey = NoKey  NoDoc = NoDoc
  Docs = {d1}  Sections = {s1}  DocOf <- OneSection  Hashes = {h1, h2}
  Keys = {k1}  TemporalKeys = {}  Near = {}  Related = {}
  Services = {chat, gateway}  IngestService = gateway  MayCrash = {gateway}
  CascadeAfterIngest = TRUE
  Requests = {r1, r2}  ServiceOf <- TwoServices
  Ids = {i1, i2, i3}
  MaxEntries = 1  EvictionInterval = 2  MaxReads = 1
  HasEmbedder = FALSE  Verdicts = {TRUE}
SPECIFICATION Spec
SYMMETRY Symmetry
INVARIANTS TypeOK UniqueKey ExactServedWasCurrent StaleRowsExplained
 
