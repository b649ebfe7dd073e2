----------------------------- MODULE CommandLine -----------------------------
(***************************************************************************)
(* What the command line interface makes of its arguments: the tree of     *)
(* commands the constructor of CommandLineInterface declares, and          *)
(* cli_parser, which walks it.  An argument is an option ("--" and a word) *)
(* or a word; of the words only those a command compares are told apart.   *)
(***************************************************************************)
EXTENDS Naturals, Sequences, FiniteSets

CONSTANT CommandLines  \* the argument lists that are tried

Argument == [option : BOOLEAN, word : STRING]

ASSUME CommandLineAssumption == CommandLines \subseteq Seq(Argument)

VARIABLES
  args,   \* argv
  parsed  \* how far parse and parse_terminal are, and what they return

Option(w) == [option |-> TRUE, word |-> w]
Word(w) == [option |-> FALSE, word |-> w]
Help == Word("-h")

Commands(path) ==
  CASE path = <<>> -> {"apis", "corpus", "files", "settings", "web"}
    [] path = <<"apis">> -> {"list"}
    [] path = <<"corpus">> -> {"create", "list"}
    [] path = <<"files">> -> {"list"}
    [] path = <<"settings">> -> {"logger", "storage"}
    [] path = <<"web">> -> {"download"}
    [] OTHER -> {}

\* Options without a value.
Flags(path) ==
  CASE path = <<"apis">> -> {"db", "web"}
    [] path = <<"settings", "logger">> -> {"clear"}
    [] OTHER -> {}

\* Options with a value.
Valued(path) ==
  CASE path = <<"apis">> -> {"name"}
    [] path = <<"corpus">> -> {"id"}
    [] path = <<"corpus", "create">> -> {"name", "append", "number", "page", "order", "type"}
    [] path = <<"corpus", "list">> -> {"name", "order"}
    [] path = <<"files">> -> {"id"}
    [] path = <<"files", "list">> -> {"page", "number", "api", "type", "order"}
    [] path = <<"settings", "logger">> -> {"level", "output", "output_path"}
    [] path = <<"settings", "storage">> -> {"migrate"}
    [] path = <<"web", "download">> -> {"number", "type"}
    [] OTHER -> {}

Outcome(kind, path) ==
  [kind |-> kind, path |-> path, strings |-> <<>>, flags |-> {}, others |-> <<>>, left |-> <<>>]
Refused == Outcome("refused", <<>>)

ParserInit ==
  /\ args \in CommandLines
  /\ parsed = [Outcome("commands", <<>>) EXCEPT !.left = args]

NextArgument == Head(parsed.left)
HelpIsNext == parsed.left # <<>> /\ NextArgument = Help
OptionIsNext == parsed.left # <<>> /\ NextArgument.option
CommandIsNext ==
  parsed.left # <<>> /\ ~NextArgument.option /\ NextArgument.word \in Commands(parsed.path)

(***************************************************************************)
(* parse: one call for every command, each on the arguments after it.      *)
(***************************************************************************)
AtCommand == parsed.kind = "commands"

GiveHelp == AtCommand /\ HelpIsNext /\ parsed' = Outcome("help", parsed.path)

EnterCommand ==
  /\ AtCommand /\ ~HelpIsNext /\ CommandIsNext
  /\ parsed' = [parsed EXCEPT !.path = Append(@, NextArgument.word), !.left = Tail(@)]

EnterOptions ==
  /\ AtCommand /\ ~HelpIsNext
  /\ Commands(parsed.path) = {} \/ OptionIsNext
  /\ parsed' = [parsed EXCEPT !.kind = "options"]

RefuseCommand ==
  /\ AtCommand /\ ~HelpIsNext
  /\ Commands(parsed.path) # {} /\ ~OptionIsNext /\ ~CommandIsNext
  /\ parsed' = Refused

(***************************************************************************)
(* parse_terminal: one turn of its loop reads one option and, unless it is *)
(* a flag, the argument after it, whatever that is.                        *)
(***************************************************************************)
AtOption == parsed.kind = "options"
FlagIsNext == OptionIsNext /\ NextArgument.word \in Flags(parsed.path)
PairIsNext == OptionIsNext /\ ~FlagIsNext /\ Len(parsed.left) > 1

SetFlag(r, n) == [r EXCEPT !.flags = @ \cup {n}, !.left = Tail(@)]

SetString(r, n, value) ==
  [r EXCEPT !.strings = [m \in DOMAIN r.strings \cup {n} |->
                           IF m = n THEN value ELSE r.strings[m]],
            !.left = Tail(Tail(@))]

\* Fault: the value is read again as an option.
AddOtherInPlace(r, n, value) ==
  [r EXCEPT !.others = Append(@, <<n, value>>), !.left = Tail(@)]

AddOther(r, n, value) ==
  [r EXCEPT !.others = Append(@, <<n, value>>), !.left = Tail(Tail(@))]

TakeFlag == AtOption /\ FlagIsNext /\ parsed' = SetFlag(parsed, NextArgument.word)

TakeString ==
  /\ AtOption /\ PairIsNext /\ NextArgument.word \in Valued(parsed.path)
  /\ parsed' = SetString(parsed, NextArgument.word, parsed.left[2].word)

TakeOther ==
  /\ AtOption /\ PairIsNext /\ NextArgument.word \notin Valued(parsed.path)
  /\ parsed' = AddOther(parsed, NextArgument.word, parsed.left[2].word)

RefuseOption ==
  /\ AtOption /\ parsed.left # <<>> /\ ~FlagIsNext /\ ~PairIsNext
  /\ parsed' = Refused

EndOptions ==
  AtOption /\ parsed.left = <<>> /\ parsed' = [parsed EXCEPT !.kind = "parsed"]

ParserNext ==
  \/ GiveHelp \/ EnterCommand \/ EnterOptions \/ RefuseCommand
  \/ TakeFlag \/ TakeString \/ TakeOther \/ RefuseOption \/ EndOptions

ParserDone == parsed.kind \in {"help", "refused", "parsed"}

(***************************************************************************)
(* What the header says of an argument list.  The commands are the longest *)
(* run there is; right after them -h asks for the help of their level.     *)
(* Without -h groups of an option and its value follow, each argument in   *)
(* exactly one of them.  Nothing is said here of a -h further on, which    *)
(* the code takes for a value or refuses (HelpAnywhere).                   *)
(***************************************************************************)
HelpIn(s) == \E i \in DOMAIN s : s[i] = Help
Words(line, n) == [i \in 1 .. n |-> line[i].word]
Leads(line, n) ==
  \A i \in 1 .. n : ~line[i].option /\ line[i].word \in Commands(Words(line, i - 1))
Depth(line) ==
  CHOOSE n \in 0 .. Len(line) :
    Leads(line, n) /\ \A m \in 0 .. Len(line) : Leads(line, m) => m <= n

Starts(path, rest) ==
  CHOOSE S \in SUBSET DOMAIN rest :
    \A i \in DOMAIN rest :
      i \in S <=> \/ i = 1
                  \/ i - 1 \in S /\ rest[i - 1].word \in Flags(path)
                  \/ i - 2 \in S /\ rest[i - 2].word \notin Flags(path)

MeansWhatItSays(line, r) ==
  LET path == Words(line, Depth(line))
      rest == SubSeq(line, Depth(line) + 1, Len(line))
      S == Starts(path, rest)
      word(i) == rest[i].word
      free == {i \in S : word(i) \notin Flags(path) \cup Valued(path)}
      sound == /\ rest = <<>> => Commands(path) = {}
               /\ \A i \in S : rest[i].option
               /\ \A i \in S : word(i) \in Flags(path) \/ i < Len(rest)
  IN /\ rest # <<>> /\ rest[1] = Help => r.kind = "help" /\ r.path = path
     /\ ~HelpIn(rest) /\ ~sound => r.kind = "refused"
     /\ ~HelpIn(rest) /\ sound =>
          /\ r.kind = "parsed" /\ r.path = path
          /\ r.flags = {n \in Flags(path) : \E i \in S : word(i) = n}
          /\ DOMAIN r.strings = {n \in Valued(path) : \E i \in S : word(i) = n}
          /\ \A i \in S : word(i) \in Valued(path)
                          /\ (\A j \in S : word(j) = word(i) => j <= i)
                          => r.strings[word(i)] = word(i + 1)
          /\ Len(r.others) = Cardinality(free)
          /\ \A i \in free : r.others[Cardinality({j \in free : j <= i})] = <<word(i), word(i + 1)>>
================================================================================
