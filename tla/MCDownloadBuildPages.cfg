SPECIFICATION Spec
CHECK_DEADLOCK FALSE
CONSTANTS
  Builder = {b1}
  Api = {flickr, twitter}
  Paged = {flickr}
  Item = {i1, i2, i3}
  Anonymous = {}
  Catalog <- PagesCatalog
  Requests <- FlickrRequests
  Numbers = {4}
  MaxBuilds = 1
  MaxFaults = 0
  MaxRound = 4
  b1 = b1
  flickr = flickr
  twitter = twitter
  i1 = i1
  i2 = i2
  i3 = i3
  anon = anon
INVARIANTS
  StopsWhenExhausted
