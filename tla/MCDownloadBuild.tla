--------------------------- MODULE MCDownloadBuild ---------------------------
(* DownloadBuild with an API that has pages (flickr) and one that has not   *)
(* (twitter); item i1 stands for the same id in both.                       *)
EXTENDS DownloadBuild, TLC

CONSTANTS flickr, twitter, i1, i2, i3, anon

Flickr(p) == [api |-> flickr, page |-> p]
Twitter == [api |-> twitter, page |-> NoPage]

\* Twins on the first of two pages, and items without id.
MCCatalog ==
  (flickr :> << <<i1, i1>>, <<i2, anon>> >>) @@ (twitter :> << <<i1, anon>> >>)
MCRequests == {<<Flickr(NoPage)>>, <<Twitter, Flickr(2)>>}

\* One page with one item.
OneCatalog == (flickr :> << <<i1>> >>) @@ (twitter :> << <<i1>> >>)

\* Three pages.
PagesCatalog ==
  (flickr :> << <<i1>>, <<i2>>, <<i3>> >>) @@ (twitter :> << <<i1>> >>)

FlickrRequests == {<<Flickr(NoPage)>>}
TwitterRequests == {<<Twitter>>}
=============================================================================
