------------------------------ MODULE FileSearch ------------------------------
(***************************************************************************)
(* From a command line to an answer: the arguments are parsed, the command *)
(* reads its options, ManagerRequest turns the others into requests with   *)
(* parameters, and ApiDatabaseBuilder asks MySQL for a page of the files   *)
(* that match, while another process goes on storing files.  "web          *)
(* download" goes the same way up to the requests.                         *)
(*                                                                         *)
(* The file of row i is stock[i]; "shown" is history.                      *)
(***************************************************************************)
EXTENDS CommandLine, SequencesExt

CONSTANTS
  Stocks,        \* the contents the table File may get, in the order of insertion
  Api,           \* names of APIs
  TypeOf,        \* "image" or "text"
  DbParams,      \* find_relevant_parameter: names an API can be searched for
  WebParams,     \* find_request_parameter: names of its request parameters
  IsInt,         \* names of parameters of type int
  NumberOf,      \* words that are numbers, and which
  DefaultNumber, \* stands for 100
  Width,         \* the values an unsigned int holds
  MaxPage        \* bound: pages asked for

ASSUME SearchAssumption ==
  /\ Stocks \subseteq Seq([source : Api, size : Nat, tags : SUBSET (STRING \X STRING)])
  /\ Api \subseteq STRING
  /\ DbParams \in [Api -> SUBSET STRING]
  /\ WebParams \in [Api -> SUBSET STRING]
  /\ \A w \in DOMAIN NumberOf : NumberOf[w] \in Nat
  /\ DefaultNumber \in Nat \ {0}
  /\ Width \in Nat \ {0}
  /\ MaxPage \in Nat

VARIABLES
  stage,     \* where the command is
  asked,     \* the options the command read, and those of the builder
  cursor,    \* it_param: how many of the unspecified inputs are done
  source,    \* current_source, 0 for -1
  requests,  \* _requests of the builder
  answer,    \* the rows of the page
  stock, rows, tagged,  \* table File; whether the last row has its tags
  shown      \* the answers of this search, page after page

table == <<stock, rows, tagged>>
builder == <<cursor, source, requests>>
searchVars == <<args, stage, parsed, asked, builder, answer, table, shown>>

Nothing == [types |-> {}, order |-> "none", page |-> 0, number |-> 0]

SearchInit ==
  /\ ParserInit /\ stage = "parse"
  /\ asked = Nothing /\ cursor = 0 /\ source = 0 /\ requests = <<>>
  /\ answer = <<>> /\ shown = <<>>
  /\ stock \in Stocks /\ rows = 0 /\ tagged = TRUE

Parse ==
  /\ stage = "parse" /\ ParserNext
  /\ UNCHANGED <<args, stage, asked, builder, answer, table, shown>>

ParseArgs ==
  /\ stage = "parse" /\ ParserDone
  /\ stage' = IF parsed.kind = "parsed" THEN "read" ELSE "stopped"
  /\ UNCHANGED <<args, parsed, asked, builder, answer, table, shown>>

(***************************************************************************)
(* The options.  A value that is no number, or the wrong one, ends the     *)
(* process; an option left out has its default.                            *)
(***************************************************************************)
Has(n) == n \in DOMAIN parsed.strings
Valid(n, S) == Has(n) => parsed.strings[n] \in S
NumberOr(n, default) == IF Has(n) THEN NumberOf[parsed.strings[n]] ELSE default
TypesRead == IF Has("type") THEN {parsed.strings["type"]} ELSE {}
Types == {"image", "text"}
Orders == {"api_asc", "api_desc", "size_asc", "size_desc"}

Read(path, valid, options) ==
  /\ stage = "read" /\ parsed.path = path
  /\ IF valid THEN stage' = "scan" /\ asked' = options
              ELSE stage' = "stopped" /\ UNCHANGED asked
  /\ UNCHANGED <<args, parsed, builder, answer, table, shown>>

\* The order is looked up among the filters, where nobody put it.
FilesList ==
  Read(<<"files", "list">>,
       /\ Valid("page", DOMAIN NumberOf) /\ Valid("number", DOMAIN NumberOf)
       /\ NumberOr("number", DefaultNumber) > 0
       /\ Valid("api", Api) /\ Valid("type", Types),
       [types |-> TypesRead, order |-> "none", page |-> NumberOr("page", 0),
        number |-> NumberOr("number", DefaultNumber)])

\* Every source is looked at before the first one is used.
CorpusCreate ==
  Read(<<"corpus", "create">>,
       /\ Has("name")
       /\ Valid("page", DOMAIN NumberOf) /\ Valid("number", DOMAIN NumberOf)
       /\ Valid("order", Orders) /\ Valid("type", Types)
       /\ \A i \in DOMAIN parsed.others :
            parsed.others[i][1] = "source" => parsed.others[i][2] \in Api,
       [types |-> TypesRead,
        order |-> IF Has("order") THEN parsed.strings["order"] ELSE "none",
        page |-> NumberOr("page", 0), number |-> NumberOr("number", 0)])

\* The valid type is replaced by the word "type", which is none.
WebDownload ==
  Read(<<"web", "download">>,
       Valid("number", DOMAIN NumberOf) /\ Valid("type", Types),
       [Nothing EXCEPT !.number = NumberOr("number", 0)])

Elsewhere ==
  /\ stage = "read"
  /\ parsed.path \notin {<<"files", "list">>, <<"corpus", "create">>, <<"web", "download">>}
  /\ stage' = "stopped"
  /\ UNCHANGED <<args, parsed, asked, builder, answer, table, shown>>

(***************************************************************************)
(* The unspecified inputs: a source opens a request, another name is a     *)
(* parameter of it, with the operator that follows.                        *)
(***************************************************************************)
Web == parsed.path = <<"web", "download">>
Input == parsed.others[cursor + 1]
OperatorAfter(i) ==
  IF i < Len(parsed.others) /\ parsed.others[i + 1][1] = "op"
  THEN parsed.others[i + 1][2] ELSE "="
Operators == IF Web THEN {"="} ELSE {"=", "!=", "<", "<=", ">", ">="}
Params(api) == IF Web THEN WebParams[api] ELSE DbParams[api]

Scanning == stage = "scan" /\ cursor < Len(parsed.others) /\ cursor' = cursor + 1
StopScan == stage' = "stopped" /\ UNCHANGED <<source, requests>>

AddRequest ==
  /\ Scanning /\ Input[1] = "source"
  /\ IF Input[2] \in Api
     THEN /\ requests' = Append(requests, [api |-> Input[2], params |-> <<>>])
          /\ source' = Len(requests') /\ UNCHANGED stage
     ELSE StopScan
  /\ UNCHANGED <<args, parsed, asked, answer, table, shown>>

AddRequestParameter ==
  /\ Scanning /\ Input[1] \notin {"source", "op"} /\ source # 0
  /\ LET op == OperatorAfter(cursor + 1) IN
     IF op \in Operators /\ Input[1] \in Params(requests[source].api)
     THEN /\ requests' = [requests EXCEPT ![source].params =
                            [n \in DOMAIN @ \cup {Input[1]} |->
                               IF n = Input[1] THEN <<Input[2], op>> ELSE @[n]]]
          /\ UNCHANGED <<stage, source>>
     ELSE StopScan
  /\ UNCHANGED <<args, parsed, asked, answer, table, shown>>

PassOver ==
  /\ Scanning /\ \/ Input[1] = "op"
                 \/ Input[1] # "source" /\ source = 0
  /\ UNCHANGED <<args, stage, parsed, asked, source, requests, answer, table, shown>>

ScanDone ==
  /\ stage = "scan" /\ cursor = Len(parsed.others)
  /\ stage' = IF Web THEN "download" ELSE "build"
  /\ UNCHANGED <<args, parsed, asked, builder, answer, table, shown>>

(***************************************************************************)
(* The query.  A row of "File INNER JOIN Tag" is a file with one of its    *)
(* tags; the first parameter of a request narrows the SELECT of its API,   *)
(* each other one is a SELECT of its own that is intersected with it.      *)
(***************************************************************************)
Tags(i) == IF i = rows /\ ~tagged THEN {} ELSE stock[i].tags
Joined(api) ==
  UNION {{<<i, t>> : t \in Tags(i)} : i \in {j \in 1 .. rows : stock[j].source = api}}

\* Integers are cast, so they compare as numbers; other values as text, where
\* the words that are numbers come in the opposite order.
Before(n, v, w) == IF n \in IsInt THEN NumberOf[v] < NumberOf[w] ELSE NumberOf[w] < NumberOf[v]
Holds(n, v, op, w) ==
  \/ op \in {"=", "<=", ">="} /\ v = w
  \/ op = "!=" /\ v # w
  \/ op \in {"<", "<="} /\ Before(n, v, w)
  \/ op \in {">", ">="} /\ Before(n, w, v)

Matches(t, n, p) == t[1] = n /\ Holds(n, t[2], p[2], p[1])

\* Fault: the parameters are put together with AND in one SELECT.
SelectOneRow(r) ==
  {row[1] : row \in {x \in Joined(r.api) :
                      \A n \in DOMAIN r.params : Matches(x[2], n, r.params[n])}}

Select(r) ==
  IF r.params = <<>> THEN {row[1] : row \in Joined(r.api)}
  ELSE {i \in {row[1] : row \in Joined(r.api)} : \A n \in DOMAIN r.params :
          \E row \in Joined(r.api) : row[1] = i /\ Matches(row[2], n, r.params[n])}

Usable ==
  LET all == IF requests # <<>> THEN ToSet(requests)
             ELSE {[api |-> a, params |-> <<>>] : a \in Api}
  IN {r \in all : asked.types = {} \/ TypeOf[r.api] \in asked.types}

RankOf(a) == IF TypeOf[a] = "image" THEN 1 ELSE 2   \* Flickr comes before Twitter
Comes(order, i, j) ==
  CASE order = "none" -> i < j
    [] order = "api_asc" -> RankOf(stock[i].source) < RankOf(stock[j].source)
    [] order = "api_desc" -> RankOf(stock[j].source) < RankOf(stock[i].source)
    [] order = "size_asc" -> stock[i].size < stock[j].size
    [] order = "size_desc" -> stock[j].size < stock[i].size
InOrder(order, s) == \A i, j \in DOMAIN s : i < j => ~Comes(order, s[j], s[i])

\* Fault: the page taken for the number of the row it starts at.
LimitFromPage(s) ==
  IF asked.number = 0 THEN s
  ELSE SubSeq(s, asked.page + 1,
         IF asked.page + asked.number < Len(s) THEN asked.page + asked.number ELSE Len(s))

\* LIMIT _page * number, number: the product is an unsigned int.
Limit(s) ==
  LET start == (asked.page * asked.number) % Width IN
  IF asked.number = 0 THEN s
  ELSE SubSeq(s, start + 1, IF start + asked.number < Len(s) THEN start + asked.number ELSE Len(s))

Build ==
  /\ stage = "build" /\ Usable # {}
  /\ \E s \in SetToSeqs(UNION {Select(r) : r \in Usable}) :
       InOrder(asked.order, s) /\ answer' = Limit(s)
  /\ shown' = shown \o answer' /\ stage' = "shown"
  /\ UNCHANGED <<args, parsed, asked, builder, table>>

\* "SELECT * FROM () as result_table" is no SQL; nobody catches the exception.
BuildNothing ==
  /\ stage = "build" /\ Usable = {}
  /\ stage' = "stopped"
  /\ UNCHANGED <<args, parsed, asked, builder, answer, table, shown>>

\* The user, shown a full page, types the command again with the next page.
NextPage ==
  /\ stage = "shown" /\ asked.number > 0
  /\ Len(answer) = asked.number /\ asked.page < MaxPage
  /\ asked' = [asked EXCEPT !.page = @ + 1] /\ stage' = "build"
  /\ UNCHANGED <<args, parsed, builder, answer, table, shown>>

\* One other process indexes files: the row, then its tags.  Between two
\* answers it is enough that it does so just before the query.
StoreFile ==
  /\ stage = "build" /\ tagged /\ rows < Len(stock)
  /\ rows' = rows + 1 /\ tagged' = FALSE
  /\ UNCHANGED <<args, stage, parsed, asked, builder, answer, stock, shown>>

StoreTags ==
  /\ stage = "build" /\ ~tagged /\ tagged' = TRUE
  /\ UNCHANGED <<args, stage, parsed, asked, builder, answer, stock, rows, shown>>

SearchNext ==
  \/ Parse \/ ParseArgs \/ FilesList \/ CorpusCreate \/ WebDownload \/ Elsewhere
  \/ AddRequest \/ AddRequestParameter \/ PassOver \/ ScanDone
  \/ Build \/ BuildNothing \/ NextPage \/ StoreFile \/ StoreTags

SearchSpec == SearchInit /\ [][SearchNext]_searchVars
--------------------------------------------------------------------------------
\* cli_parser reads an argument list as its header describes: no argument is
\* dropped, taken twice or given to another option (cli_parser.h:68-88), and -h
\* right after the commands gives the help of their level.
ParsesEveryArgument == stage \in {"read", "stopped"} => MeansWhatItSays(args, parsed)

\* What cli_parser.h:90 and doc/cli.md:6 say of -h.  Not kept: after an option
\* it is refused, or read as the value of the option.
HelpAnywhere == stage \in {"read", "stopped"} /\ HelpIn(args) => parsed.kind = "help"

\* The groups of the arguments a search was typed with: a source and the
\* positions up to the next one.
Named(n) == {i \in DOMAIN parsed.others : parsed.others[i][1] = n}
Group(k) == {j \in DOMAIN parsed.others :
               k < j /\ parsed.others[j][1] # "op" /\ Named("source") \cap (k + 1) .. j = {}}
TypedOperator(j) ==
  LET after == Named("op") \cap {j + 1} IN
  IF after = {} THEN "=" ELSE parsed.others[j + 1][2]
Meant(k, i) ==
  /\ stock[i].source = parsed.others[k][2]
  /\ \A j \in Group(k) :
       (\E later \in Group(k) : later > j /\ parsed.others[later][1] = parsed.others[j][1])
       \/ \E t \in Tags(i) : /\ t[1] = parsed.others[j][1]
                             /\ Holds(t[1], t[2], TypedOperator(j), parsed.others[j][2])
MeantBy(i) ==
  /\ Has("type") => TypeOf[stock[i].source] = parsed.strings["type"]
  /\ Named("source") # {} => \E k \in Named("source") : Meant(k, i)
Found == {i \in 1 .. rows : MeantBy(i) /\ Tags(i) # {}}

\* A search answers with files the arguments describe, each once: those of any
\* of the sources that have, for every parameter typed after the source (the
\* last time it was typed), a tag that compares as typed (doc/cli.md, "Files");
\* --type counts as it was typed last.  Where the answer is not cut off at the
\* number of the command, 100 for a "files list" without one, it has all of
\* them that have tags yet.
AnswersTheRequest ==
  stage = "shown" =>
    /\ ToSet(answer) \subseteq {i \in 1 .. rows : MeantBy(i)}
    /\ IsInjective(answer)
    /\ asked.number = 0 \/ (asked.page = 0 /\ Len(answer) < asked.number)
         => Found \subseteq ToSet(answer)

\* What api_database_builder.cpp:59 says of a request without parameters: every
\* entry of its API is found.  Not kept: a file whose tags are not stored, or
\* never will be, is not.
EntriesAreFound ==
  stage = "shown" /\ asked.number = 0
    => ToSet(answer) = {i \in 1 .. rows : MeantBy(i)}

\* What doc/cli.md:49 says: without a number the answer is unlimited.  Not kept
\* by "files list", which takes 100 and refuses the 0 the document names.
UnlimitedByDefault ==
  stage = "shown" /\ ~Has("number") => Found \subseteq ToSet(answer)

\* Page after page in the default order, while files are being stored: no file
\* is shown twice, and when a page is not full every file that matches, and has
\* tags, was shown (api_database_builder.cpp:97-100; until the product overflows).
PagesNeverRepeat ==
  (stage = "shown" /\ asked.order = "none" /\ NumberOr("page", 0) = 0
     /\ asked.page * asked.number < Width) =>
    /\ IsInjective(shown)
    /\ Len(answer) < asked.number => Found = ToSet(shown)

\* Said by the documentation of both commands that search: "--order" gives the
\* order of the answer.  "files list" never looks at it.
OrderIsKept ==
  (stage = "shown" /\ Has("order") /\ parsed.strings["order"] \in Orders) =>
    InOrder(parsed.strings["order"], answer)
================================================================================
