----------------------------- MODULE MCFileSearch -----------------------------
EXTENDS FileSearch
MCApi == {"flickr", "twitter"}
MCTypeOf == [a \in MCApi |-> IF a = "flickr" THEN "image" ELSE "text"]
MCDbParams == [a \in MCApi |-> IF a = "flickr" THEN {"title"} ELSE {"retweet", "text"}]
MCWebParams == [a \in MCApi |-> {"query"}]
MCNumberOf == ("0" :> 0) @@ ("1" :> 1) @@ ("2" :> 2) @@ ("10" :> 10)

Tweet(retweet, text, size) ==
  [source |-> "twitter", size |-> size, tags |-> {<<"retweet", retweet>>, <<"text", text>>}]
Photo(size) == [source |-> "flickr", size |-> size, tags |-> {<<"title", "2">>}]
MCStocks == {<<Tweet("2", "10", 2), Photo(1), Tweet("10", "2", 3), Tweet("10", "10", 2)>>,
             <<Photo(2), Photo(2), Tweet("2", "2", 1)>>}

\* Any few arguments, and searches typed as a user would.
Tokens == {Help, Word("files"), Word("list"), Word("settings"), Word("logger"), Word("2"),
           Option("number"), Option("clear"), Option("source")}
AnyLines == UNION {[1 .. n -> Tokens] : n \in 0 .. 4}
Clear == {<<Word("settings"), Word("logger")>> \o l : l \in UNION {[1 .. n -> Tokens] : n \in 0 .. 3}}

Pair(n, v) == <<Option(n), Word(v)>>
Sources == {Pair("source", "twitter"), Pair("source", "flickr")}
Criteria == {Pair("retweet", "2"), Pair("retweet", "10"), Pair("text", "2"), Pair("title", "2")}
Ops == {Pair("op", "<"), Pair("op", "!=")}
Tails == {<<>>} \cup Sources \cup Criteria \cup
         {c \o o : c \in Criteria, o \in Ops} \cup {c \o s : c \in Criteria, s \in Sources}
Wanted == {<<>>} \cup
          {s \o c \o t : s \in Sources, c \in {<<>>} \cup Criteria \cup Ops, t \in Tails}
Fronts == {Pair("number", "1"), Pair("number", "2"), Pair("number", "1") \o Pair("page", "1"),
           Pair("order", "size_desc"), Pair("type", "text"), Pair("type", "image")}
List == <<Word("files"), Word("list")>>
Create == <<Word("corpus"), Word("create")>> \o Pair("name", "x")
Download == <<Word("web"), Word("download")>>
MCCommandLines ==
  AnyLines \cup Clear \cup {List \o f \o w : f \in {<<>>} \cup Fronts, w \in Wanted}
    \cup {Create \o f \o w : f \in {<<>>} \cup Fronts, w \in Wanted}
    \cup {Download \o f \o <<Option("source"), Word("twitter")>> \o w :
            f \in {<<>>, Pair("type", "text")},
            w \in {Pair("query", "2"), Pair("query", "2") \o Pair("op", "<"), Pair("text", "2")}}
================================================================================
