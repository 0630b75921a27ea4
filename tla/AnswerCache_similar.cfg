CONSTANTS
  d1 = d1  s1 = s1  s2 = s2  h1 = h1  h2 = h2  k1 = k1  k2 = k2  k3 = k3
  chat = chat  gateway = gateway  r1 = r1  r2 = r2
  i1 = i1  i2 = i2  i3 = i3  i4 = i4
  NoHash = NoHash  Unborn = Unborn  Retired = Retired
  NoRow = NoRow  NoId = NoId  NoKey = NoKey  NoDoc = NoDoc
  Docs = {d1}  Sections = {s1}  DocOf <- OneSection  Hashes = {h1}
  Keys = {k1, k2, k3}  TemporalKeys = {k3}  Near <- NearPair  Related <- RelatedToThird
  Services = {chat, gateway}  IngestService = gateway  MayCrash = {}
  CascadeAfterIngest = TRUE
  Requests = {r1}  ServiceOf <- OneRequest
  Ids = {i1, i2, i3, i4}
  MaxEntries = 1  EvictionInterval = 2  MaxReads = 1
  HasEmbedder = TRUE  Verdicts = {TRUE, FALSE}
SPECIFICATION Spec
SYMMETRY Symmetry
INVARIANT EvictionBound
