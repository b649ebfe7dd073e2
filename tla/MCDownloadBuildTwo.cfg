SPECIFICATION Spec
CHECK_DEADLOCK FALSE
CONSTANTS
  Builder = {b1, b2}
  Api = {flickr, twitter}
  Paged = {flickr}
  Item = {i1, i2, anon}
  Anonymous = {anon}
  Catalog <- MCCatalog
  Requests <- FlickrRequests
  Numbers = {2}
  MaxBuilds = 1
  MaxFaults = 1
  MaxRound = 3
  b1 = b1
  b2 = b2
  flickr = flickr
  twitter = twitter
  i1 = i1
  i2 = i2
  i3 = i3
  anon = anon
INVARIANTS
  IndexedIsStored
  AroundNumber
