SPECIFICATION Spec
CHECK_DEADLOCK FALSE
CONSTANTS
  Builder = {b1}
  Api = {flickr, twitter}
  Paged = {flickr}
  Item = {i1, i2, anon}
  Anonymous = {anon}
  Catalog <- MCCatalog
  Requests <- MCRequests
  Numbers = {0, 2}
  MaxBuilds = 2
  MaxFaults = 2
  MaxRound = 3
  b1 = b1
  flickr = flickr
  twitter = twitter
  i1 = i1
  i2 = i2
  i3 = i3
  anon = anon
INVARIANTS
  TypeOK
  NoDuplicates
  NothingSkipped
PROPERTIES
  PagedBuildsEnd
