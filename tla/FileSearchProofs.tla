--------------------------- MODULE FileSearchProofs ---------------------------
(***************************************************************************)
(* For any argument lists, tables, APIs, widths and numbers of pages: what *)
(* the parser makes of an argument list (ParsesEveryArgument), which files *)
(* a search answers with (AnswersTheRequest), and that its pages are those *)
(* of one list while files are stored (PagesNeverRepeat).                  *)
(***************************************************************************)
EXTENDS FileSearch, FiniteSetTheorems, TLAPS

(***************************************************************************)
(* Every set of numbers has a least one: what holds of a number whenever   *)
(* it holds of the smaller ones holds of all, or there were a least number *)
(* of which it does not.                                                   *)
(***************************************************************************)
LEMMA Least ==
  ASSUME NEW T \in SUBSET Nat, T # {}
  PROVE  \E x \in T : \A y \in T : x <= y
<1> DEFINE R == StrictSubsetOrdering(Nat)
           Below(n) == {k \in Nat : k < n}
           U == {Below(n) : n \in T}
<1>1. \A n \in Nat : Below(n) \in FiniteSubsetsOf(Nat)
  <2> SUFFICES ASSUME NEW n \in Nat PROVE Below(n) \in FiniteSubsetsOf(Nat)
    OBVIOUS
  <2>1. IsFiniteSet(Below(n))
    BY FS_BoundedSetOfNaturals, \A s \in Below(n) : s <= n,
       Below(n) \in SUBSET Nat
  <2> QED
    BY <2>1 DEF FiniteSubsetsOf
<1>2. U \subseteq FiniteSubsetsOf(Nat) /\ U # {}
  BY <1>1
<1>3. IsWellFoundedOn(R, FiniteSubsetsOf(Nat))
  BY FS_StrictSubsetOrderingWellFounded
<1>4. \E x \in U : \A y \in U : ~ (<<y, x>> \in R)
  BY <1>2, <1>3, WFMin
<1>5. PICK x \in T : \A y \in T : <<Below(y), Below(x)>> \notin R
  BY <1>4
<1>6. ASSUME NEW y \in T, y < x PROVE FALSE
  <2>1. Below(y) \subseteq Below(x) /\ y \in Below(x) /\ y \notin Below(y)
    BY <1>6
  <2>2. <<Below(y), Below(x)>> \in R
    BY <2>1 DEF StrictSubsetOrdering
  <2> QED
    BY <1>5, <2>2
<1> QED
  BY <1>6

(***************************************************************************)
(* The grammar.  The longest run of commands, and the arguments at which a *)
(* group begins.                                                           *)
(***************************************************************************)
LEMMA DepthAt ==
  ASSUME NEW line \in Seq(Argument), NEW n \in 0..Len(line), Leads(line, n),
         n = Len(line) \/ ~Leads(line, n + 1)
  PROVE  Depth(line) = n
<1>1. \A m \in 0..Len(line) : Leads(line, m) => m <= n
  <2> SUFFICES ASSUME NEW m \in 0..Len(line), Leads(line, m), ~(m <= n)
               PROVE  FALSE
    OBVIOUS
  <2>1. n + 1 <= m
    OBVIOUS
  <2>2. Leads(line, n + 1)
    BY <2>1 DEF Leads
  <2> QED
    BY <2>1, <2>2
<1>2. \A d \in 0..Len(line) :
        Leads(line, d) /\ (\A m \in 0..Len(line) : Leads(line, m) => m <= d)
        => d = n
  BY <1>1
<1> HIDE DEF Leads
<1> QED
  BY <1>1, <1>2 DEF Depth

\* S has the starts among the first n arguments.
StartsTo(S, path, rest, n) ==
  \A i \in 1..n :
    i \in S <=> \/ i = 1
                \/ i - 1 \in S /\ rest[i - 1].word \in Flags(path)
                \/ i - 2 \in S /\ rest[i - 2].word \notin Flags(path)

\* There are always such: the arguments before one decide whether it is one.
LEMMA StartsExist ==
  ASSUME NEW path, NEW rest \in Seq(Argument)
  PROVE  /\ Starts(path, rest) \in SUBSET (1..Len(rest))
         /\ StartsTo(Starts(path, rest), path, rest, Len(rest))
<1> DEFINE T == {n \in Nat : ~\E S \in SUBSET (1..n) : StartsTo(S, path, rest, n)}
<1>1. ASSUME T # {} PROVE FALSE
  <2>1. PICK n \in T : \A m \in T : n <= m
    BY <1>1, Least
  <2>2. n # 0
    BY <2>1 DEF StartsTo
  <2>3. n - 1 \in Nat /\ n - 1 \notin T
    BY <2>1, <2>2
  <2>4. PICK S \in SUBSET (1..(n - 1)) : StartsTo(S, path, rest, n - 1)
    BY <2>3
  <2> DEFINE Start == \/ n = 1
                      \/ n - 1 \in S /\ rest[n - 1].word \in Flags(path)
                      \/ n - 2 \in S /\ rest[n - 2].word \notin Flags(path)
             Z == {i \in 1..n : i \in S \/ (i = n /\ Start)}
  <2>5. \A i \in 1..n : i < n => (i \in Z <=> i \in S)
    <3> HIDE DEF Start
    <3> QED
      BY n \in Nat
  <2>6. n \in Z <=> Start
    BY <2>1, <2>2
  <2>7. \A i \in Int : ~(i \in 1..n) => i \notin Z /\ i \notin S
    BY <2>1
  <2>8. \A i \in 1..n : i - 1 \in Z <=> i - 1 \in S
    BY <2>5, <2>7, <2>1
  <2>9. \A i \in 1..n : i - 2 \in Z <=> i - 2 \in S
    BY <2>5, <2>7, <2>1
  <2>10. Z \in SUBSET (1..n)
    OBVIOUS
  <2> HIDE DEF Z
  <2>11. StartsTo(Z, path, rest, n)
    <3> SUFFICES ASSUME NEW i \in 1..n
                 PROVE  i \in Z <=>
                          \/ i = 1
                          \/ i - 1 \in Z /\ rest[i - 1].word \in Flags(path)
                          \/ i - 2 \in Z /\ rest[i - 2].word \notin Flags(path)
      BY DEF StartsTo
    <3>1. CASE i = n
      BY <2>6, <2>8, <2>9, <3>1
    <3>2. CASE i # n
      <4>1. i \in 1..(n - 1)
        BY <2>1, <3>2
      <4> QED
        BY <2>4, <2>5, <2>8, <2>9, <4>1 DEF StartsTo
    <3> QED
      BY <3>1, <3>2
  <2> QED
    BY <2>1, <2>10, <2>11
<1>2. Len(rest) \in Nat /\ DOMAIN rest = 1..Len(rest)
  OBVIOUS
<1>3. \E S \in SUBSET DOMAIN rest : StartsTo(S, path, rest, Len(rest))
  BY <1>1, <1>2
<1> QED
  BY <1>2, <1>3 DEF Starts, StartsTo

(***************************************************************************)
(* What the parser has read.  Its record, and what the options at S, the   *)
(* starts of some groups, leave in it.                                     *)
(***************************************************************************)
Maps == UNION {[D -> STRING] : D \in SUBSET STRING}

Kinds == {"commands", "options", "help", "refused", "parsed"}

Parsed ==
  [kind : Kinds, path : Seq(STRING), strings : Maps, flags : SUBSET STRING,
   others : Seq(STRING \X STRING), left : Seq(Argument)]

Free(path, rest, S) == {i \in S : rest[i].word \notin Flags(path) \cup Valued(path)}
UpTo(F, i) == {j \in F : j <= i}

LastOf(rest, S, i) == \A j \in S : rest[j].word = rest[i].word => j <= i

Got(path, rest, S, r) ==
  /\ r.flags = {n \in Flags(path) : \E i \in S : rest[i].word = n}
  /\ DOMAIN r.strings = {n \in Valued(path) : \E i \in S : rest[i].word = n}
  /\ \A i \in S : rest[i].word \in Valued(path) /\ LastOf(rest, S, i)
                  => r.strings[rest[i].word] = rest[i + 1].word
  /\ Len(r.others) = Cardinality(Free(path, rest, S))
  /\ \A i \in Free(path, rest, S) :
       r.others[Cardinality(UpTo(Free(path, rest, S), i))]
         = <<rest[i].word, rest[i + 1].word>>

\* No option takes a value in one line and none in another.
LEMMA FlagOrValue ==
  ASSUME NEW path PROVE Flags(path) \cap Valued(path) = {}
<1>1. CASE path = <<"apis">>
  BY <1>1 DEF Flags, Valued
<1>2. CASE path = <<"settings", "logger">>
  BY <1>2 DEF Flags, Valued
<1>3. CASE path # <<"apis">> /\ path # <<"settings", "logger">>
  BY <1>3 DEF Flags
<1> QED
  BY <1>1, <1>2, <1>3

LEMMA WordTyped ==
  ASSUME NEW rest \in Seq(Argument), NEW p \in 1..Len(rest)
  PROVE  rest[p].word \in STRING
<1>1. rest[p] \in Argument
  OBVIOUS
<1> QED
  BY <1>1 DEF Argument

LEMMA TailArguments ==
  ASSUME NEW s \in Seq(Argument), s # <<>>
  PROVE  /\ Tail(s) \in Seq(Argument) /\ Len(Tail(s)) = Len(s) - 1
         /\ \A i \in 1..(Len(s) - 1) : Tail(s)[i] = s[i + 1]
         /\ Len(s) \in Nat \ {0}
         /\ Head(s) = s[1] /\ s[1] \in Argument
OBVIOUS

LEMMA TailTwice ==
  ASSUME NEW s \in Seq(Argument), Len(s) > 1
  PROVE  /\ Tail(Tail(s)) \in Seq(Argument)
         /\ Len(Tail(Tail(s))) = Len(s) - 2
         /\ \A i \in 1..(Len(s) - 2) : Tail(Tail(s))[i] = s[i + 2]
         /\ s # <<>> /\ s[2] \in Argument
<1>1. s # <<>> /\ Len(s) \in Nat /\ s[2] \in Argument
  OBVIOUS
<1> DEFINE t == Tail(s)
<1>2. /\ t \in Seq(Argument) /\ Len(t) = Len(s) - 1
      /\ \A i \in 1..(Len(s) - 1) : t[i] = s[i + 1]
  BY <1>1, TailArguments
<1> HIDE DEF t
<1>3. t # <<>>
  BY <1>1, <1>2
<1>4. /\ Tail(t) \in Seq(Argument) /\ Len(Tail(t)) = Len(t) - 1
      /\ \A i \in 1..(Len(t) - 1) : Tail(t)[i] = t[i + 1]
  BY <1>2, <1>3, TailArguments
<1>5. Len(Tail(t)) = Len(s) - 2
  BY <1>1, <1>2, <1>4
<1>6. ASSUME NEW i \in 1..(Len(s) - 2) PROVE Tail(t)[i] = s[i + 2]
  <2>1. i \in 1..(Len(t) - 1) /\ i + 1 \in 1..(Len(s) - 1) /\ i + 1 + 1 = i + 2
    BY <1>1, <1>2
  <2> QED
    BY <1>2, <1>4, <2>1
<1> QED
  BY <1>1, <1>4, <1>5, <1>6 DEF t

LEMMA ParsedFields ==
  ASSUME NEW r \in Parsed
  PROVE  /\ r.path \in Seq(STRING) /\ r.flags \in SUBSET STRING
         /\ r.others \in Seq(STRING \X STRING) /\ r.left \in Seq(Argument)
         /\ r.strings \in Maps /\ DOMAIN r.strings \in SUBSET STRING
         /\ \A m \in DOMAIN r.strings : r.strings[m] \in STRING
<1>1. /\ r.path \in Seq(STRING) /\ r.flags \in SUBSET STRING
      /\ r.others \in Seq(STRING \X STRING) /\ r.left \in Seq(Argument)
      /\ r.strings \in Maps
  BY DEF Parsed
<1>2. PICK D \in SUBSET STRING : r.strings \in [D -> STRING]
  BY <1>1 DEF Maps
<1> QED
  BY <1>1, <1>2

LEMMA SetFlagFields ==
  ASSUME NEW r \in Parsed, NEW n \in STRING, r.left # <<>>
  PROVE  LET s == SetFlag(r, n) IN
         /\ s \in Parsed /\ s.kind = r.kind /\ s.path = r.path
         /\ s.strings = r.strings /\ s.others = r.others
         /\ s.flags = r.flags \cup {n} /\ s.left = Tail(r.left)
<1> DEFINE flags == r.flags \cup {n}
           left == Tail(r.left)
<1>1. flags \in SUBSET STRING /\ left \in Seq(Argument)
  BY ParsedFields, TailArguments
<1>2. SetFlag(r, n) = [r EXCEPT !.flags = flags, !.left = left]
  BY DEF SetFlag, Parsed
<1> HIDE DEF flags, left
<1>3. LET s == SetFlag(r, n) IN
      /\ s \in Parsed /\ s.kind = r.kind /\ s.path = r.path
      /\ s.strings = r.strings /\ s.others = r.others
      /\ s.flags = flags /\ s.left = left
  BY <1>1, <1>2 DEF Parsed
<1> QED
  BY <1>3 DEF flags, left

LEMMA SetStringFields ==
  ASSUME NEW r \in Parsed, NEW n \in STRING, NEW v \in STRING, Len(r.left) > 1
  PROVE  LET s == SetString(r, n, v) IN
         /\ s \in Parsed /\ s.kind = r.kind /\ s.path = r.path
         /\ s.flags = r.flags /\ s.others = r.others
         /\ DOMAIN s.strings = DOMAIN r.strings \cup {n}
         /\ s.strings[n] = v
         /\ \A m \in DOMAIN r.strings : m # n => s.strings[m] = r.strings[m]
         /\ s.left = Tail(Tail(r.left))
<1> DEFINE D == DOMAIN r.strings \cup {n}
           strings == [m \in D |-> IF m = n THEN v ELSE r.strings[m]]
           left == Tail(Tail(r.left))
           s == SetString(r, n, v)
<1>1. D \in SUBSET STRING /\ \A m \in DOMAIN r.strings : r.strings[m] \in STRING
  BY ParsedFields
<1>2. strings \in [D -> STRING]
  BY <1>1
<1>3. strings \in Maps
  <2> HIDE DEF strings, D
  <2> QED
    BY <1>1, <1>2 DEF Maps
<1>4. left \in Seq(Argument)
  BY ParsedFields, TailTwice
<1>5. s = [r EXCEPT !.strings = strings, !.left = left]
  BY DEF SetString, Parsed
<1>6. DOMAIN strings = D
  OBVIOUS
<1>7. \A m \in D : strings[m] = IF m = n THEN v ELSE r.strings[m]
  OBVIOUS
<1> HIDE DEF strings, left, s
<1>8. /\ s \in Parsed /\ s.kind = r.kind /\ s.path = r.path
      /\ s.flags = r.flags /\ s.others = r.others
      /\ s.strings = strings /\ s.left = left
  BY <1>3, <1>4, <1>5 DEF Parsed
<1> QED
  BY <1>6, <1>7, <1>8 DEF s, left

LEMMA AddOtherFields ==
  ASSUME NEW r \in Parsed, NEW n \in STRING, NEW v \in STRING, Len(r.left) > 1
  PROVE  LET s == AddOther(r, n, v) IN
         /\ s \in Parsed /\ s.kind = r.kind /\ s.path = r.path
         /\ s.flags = r.flags /\ s.strings = r.strings
         /\ s.others = Append(r.others, <<n, v>>)
         /\ s.left = Tail(Tail(r.left))
<1> DEFINE others == Append(r.others, <<n, v>>)
           left == Tail(Tail(r.left))
<1>1. r.left \in Seq(Argument) /\ r.others \in Seq(STRING \X STRING)
  BY DEF Parsed
<1>2. <<n, v>> \in STRING \X STRING
  OBVIOUS
<1>3. left \in Seq(Argument) /\ others \in Seq(STRING \X STRING)
  <2>1. left \in Seq(Argument)
    BY <1>1, TailTwice
  <2>2. others \in Seq(STRING \X STRING)
    BY ONLY <1>1, <1>2
  <2> QED
    BY <2>1, <2>2
<1>4. AddOther(r, n, v) = [r EXCEPT !.others = others, !.left = left]
  BY DEF AddOther, Parsed
<1> HIDE DEF others, left
<1>5. LET s == AddOther(r, n, v) IN
      /\ s \in Parsed /\ s.kind = r.kind /\ s.path = r.path
      /\ s.flags = r.flags /\ s.strings = r.strings
      /\ s.others = others /\ s.left = left
  BY <1>3, <1>4 DEF Parsed
<1> QED
  BY <1>5 DEF others, left

LEMMA GotFlag ==
  ASSUME NEW path, NEW rest \in Seq(Argument), NEW S, NEW p \in 1..Len(rest),
         NEW r \in Parsed, r.left # <<>>,
         Got(path, rest, S, r), rest[p].word \in Flags(path)
  PROVE  Got(path, rest, S \cup {p}, SetFlag(r, rest[p].word))
<1> DEFINE n == rest[p].word
           s == SetFlag(r, n)
           Z == S \cup {p}
<1>1. n \in STRING /\ n \notin Valued(path) /\ n \in Flags(path)
  BY WordTyped, FlagOrValue
<1>2. /\ s.strings = r.strings /\ s.others = r.others
      /\ s.flags = r.flags \cup {n}
  BY <1>1, SetFlagFields
<1>3. Free(path, rest, Z) = Free(path, rest, S)
  BY <1>1 DEF Free
<1>4. \A i \in Z : rest[i].word \in Valued(path) => i \in S
  BY <1>1
<1>5. \A i : LastOf(rest, Z, i) => LastOf(rest, S, i)
  BY DEF LastOf
<1>6. s.flags = {m \in Flags(path) : \E i \in Z : rest[i].word = m}
  BY <1>1, <1>2 DEF Got
<1>7. DOMAIN s.strings = {m \in Valued(path) : \E i \in Z : rest[i].word = m}
  BY <1>1, <1>2 DEF Got
<1> HIDE DEF Z, s
<1>8. \A i \in Z : rest[i].word \in Valued(path) /\ LastOf(rest, Z, i)
                   => s.strings[rest[i].word] = rest[i + 1].word
  BY <1>2, <1>4, <1>5 DEF Got
<1> QED
  BY <1>2, <1>3, <1>6, <1>7, <1>8 DEF Got, Z, s

LEMMA GotString ==
  ASSUME NEW path, NEW rest \in Seq(Argument), NEW p \in 1..(Len(rest) - 1),
         NEW S \in SUBSET (1..(p - 1)), NEW r \in Parsed, Len(r.left) > 1,
         Got(path, rest, S, r), rest[p].word \in Valued(path)
  PROVE  Got(path, rest, S \cup {p},
             SetString(r, rest[p].word, rest[p + 1].word))
<1> DEFINE n == rest[p].word
           v == rest[p + 1].word
           s == SetString(r, n, v)
           Z == S \cup {p}
<1>1. n \in STRING /\ n \in Valued(path) /\ n \notin Flags(path)
  <2>1. p \in 1..Len(rest)
    OBVIOUS
  <2> QED
    BY <2>1, WordTyped, FlagOrValue
<1>2. v \in STRING
  <2>1. rest[p + 1] \in Argument
    OBVIOUS
  <2> QED
    BY <2>1 DEF Argument
<1>3. /\ s.flags = r.flags /\ s.others = r.others
      /\ DOMAIN s.strings = DOMAIN r.strings \cup {n}
      /\ s.strings[n] = v
      /\ \A m \in DOMAIN r.strings : m # n => s.strings[m] = r.strings[m]
  <2> HIDE DEF n, v
  <2> QED
    BY <1>1, <1>2, SetStringFields
<1>4. Free(path, rest, Z) = Free(path, rest, S)
  BY <1>1 DEF Free
<1>5. s.flags = {m \in Flags(path) : \E i \in Z : rest[i].word = m}
  BY <1>1, <1>3 DEF Got
<1>6. DOMAIN s.strings = {m \in Valued(path) : \E i \in Z : rest[i].word = m}
  BY <1>1, <1>3 DEF Got
<1>7. ASSUME NEW i \in Z, rest[i].word \in Valued(path), LastOf(rest, Z, i)
      PROVE  s.strings[rest[i].word] = rest[i + 1].word
  <2>1. CASE rest[i].word = n
    <3>1. i = p
      <4>1. p <= i
        BY <1>7, <2>1 DEF LastOf
      <4> QED
        BY <4>1
    <3> QED
      BY <1>3, <3>1
  <2>2. CASE rest[i].word # n
    <3>1. i \in S
      BY <2>2
    <3>2. LastOf(rest, S, i)
      BY <1>7 DEF LastOf
    <3>3. /\ r.strings[rest[i].word] = rest[i + 1].word
          /\ rest[i].word \in DOMAIN r.strings
      BY <1>7, <3>1, <3>2 DEF Got
    <3> QED
      BY <1>3, <2>2, <3>3
  <2> QED
    BY <2>1, <2>2
<1> HIDE DEF Z, s
<1> QED
  BY <1>3, <1>4, <1>5, <1>6, <1>7 DEF Got, Z, s

LEMMA GotOther ==
  ASSUME NEW path, NEW rest \in Seq(Argument), NEW p \in 1..(Len(rest) - 1),
         NEW S \in SUBSET (1..(p - 1)), NEW r \in Parsed, Len(r.left) > 1,
         Got(path, rest, S, r),
         rest[p].word \notin Flags(path) \cup Valued(path)
  PROVE  Got(path, rest, S \cup {p},
             AddOther(r, rest[p].word, rest[p + 1].word))
<1> DEFINE n == rest[p].word
           v == rest[p + 1].word
           s == AddOther(r, n, v)
           Z == S \cup {p}
           F == Free(path, rest, S)
           G == Free(path, rest, Z)
<1>1. n \in STRING /\ v \in STRING
  <2>1. rest[p] \in Argument /\ rest[p + 1] \in Argument
    OBVIOUS
  <2> QED
    BY <2>1 DEF Argument
<1>2. /\ s.flags = r.flags /\ s.strings = r.strings
      /\ s.others = Append(r.others, <<n, v>>)
  <2> HIDE DEF n, v
  <2> QED
    BY <1>1, AddOtherFields
<1>3. G = F \cup {p} /\ p \notin F /\ F \subseteq 1..(p - 1)
  <2>1. p \notin S
    OBVIOUS
  <2>2. F \subseteq S
    BY DEF Free
  <2>3. G = F \cup {p}
    BY DEF Free
  <2> QED
    BY <2>1, <2>2, <2>3
<1>4. IsFiniteSet(F) /\ Cardinality(F) \in Nat
  <2>1. IsFiniteSet(1..(p - 1))
    BY FS_Interval
  <2> QED
    BY <1>3, <2>1, FS_Subset, FS_CardinalityType
<1>5. Cardinality(G) = Cardinality(F) + 1
  BY <1>3, <1>4, FS_AddElement
<1>6. /\ r.others \in Seq(STRING \X STRING) /\ <<n, v>> \in STRING \X STRING
      /\ Len(r.others) = Cardinality(F)
  BY <1>1, ParsedFields DEF Got
<1>7. s.flags = {m \in Flags(path) : \E i \in Z : rest[i].word = m}
  BY <1>2 DEF Got
<1>8. DOMAIN s.strings = {m \in Valued(path) : \E i \in Z : rest[i].word = m}
  BY <1>2 DEF Got
<1>9. ASSUME NEW i \in Z, rest[i].word \in Valued(path), LastOf(rest, Z, i)
      PROVE  s.strings[rest[i].word] = rest[i + 1].word
  <2>1. i \in S /\ LastOf(rest, S, i)
    BY <1>9 DEF LastOf
  <2> HIDE DEF s
  <2> QED
    BY <1>2, <1>9, <2>1 DEF Got
<1>10. ASSUME NEW i \in G
       PROVE  s.others[Cardinality(UpTo(G, i))] = <<rest[i].word, rest[i + 1].word>>
  <2>1. CASE i = p
    <3>1. UpTo(G, i) = G
      <4>1. \A j \in F \cup {p} : j <= p
        BY <1>3
      <4> HIDE DEF F, G
      <4> QED
        BY <1>3, <2>1, <4>1 DEF UpTo
    <3> HIDE DEF s, n, v, F, G
    <3>2. s.others[Cardinality(G)] = <<n, v>>
      BY <1>2, <1>4, <1>5, <1>6
    <3> QED
      BY <2>1, <3>1, <3>2 DEF n, v
  <2>2. CASE i # p
    <3>1. i \in F /\ UpTo(G, i) = UpTo(F, i)
      <4> HIDE DEF F, G
      <4>1. i \in F
        BY <1>3, <2>2
      <4>2. ~(p <= i)
        BY <1>3, <4>1
      <4> QED
        BY <1>3, <4>1, <4>2 DEF UpTo
    <3>2. Cardinality(UpTo(F, i)) \in 1..Cardinality(F)
      <4>1. UpTo(F, i) \subseteq F /\ i \in UpTo(F, i)
        BY <1>3, <3>1 DEF UpTo
      <4>2. /\ IsFiniteSet(UpTo(F, i))
            /\ Cardinality(UpTo(F, i)) <= Cardinality(F)
        BY <1>4, <4>1, FS_Subset
      <4>3. Cardinality(UpTo(F, i)) \in Nat /\ Cardinality(UpTo(F, i)) # 0
        BY <4>1, <4>2, FS_CardinalityType, FS_EmptySet
      <4> QED
        BY <1>4, <4>2, <4>3
    <3>3. r.others[Cardinality(UpTo(F, i))] = <<rest[i].word, rest[i + 1].word>>
      BY <3>1 DEF Got
    <3> DEFINE k == Cardinality(UpTo(F, i))
    <3> HIDE DEF s, n, v, F, G, k
    <3>4. k \in 1..Len(r.others)
      BY <1>6, <3>2 DEF k
    <3>5. s.others[k] = r.others[k]
      BY <1>2, <1>6, <3>4
    <3> QED
      BY <3>1, <3>3, <3>5 DEF k
  <2> QED
    BY <2>1, <2>2
<1>11. Len(s.others) = Cardinality(G)
  <2> HIDE DEF s, n, v, F, G
  <2> QED
    BY <1>2, <1>5, <1>6
<1> HIDE DEF Z, s
<1> QED
  BY <1>7, <1>8, <1>9, <1>10, <1>11 DEF Got, Z, s

(***************************************************************************)
(* The invariant of the parser.  In parse the commands so far are a run    *)
(* that leads somewhere and the others are left; in parse_terminal the     *)
(* next argument is the p-th after the commands, a group begins there, and *)
(* what was read are the groups that begin before it.                      *)
(***************************************************************************)
Path(line) == Words(line, Depth(line))
Rest(line) == SubSeq(line, Depth(line) + 1, Len(line))

Leading(line, r) ==
  /\ Len(r.path) <= Len(line)
  /\ r.path = Words(line, Len(r.path))
  /\ Leads(line, Len(r.path))
  /\ r.left = SubSeq(line, Len(r.path) + 1, Len(line))
  /\ r.strings = <<>> /\ r.flags = {} /\ r.others = <<>>

StartsBefore(path, rest, p) == {i \in Starts(path, rest) : i < p}

ReadTo(path, rest, r, p) ==
  /\ r.path = path
  /\ Len(r.left) = Len(rest) + 1 - p
  /\ \A i \in 1..Len(r.left) : r.left[i] = rest[p + i - 1]
  /\ p <= Len(rest) => p \in Starts(path, rest)
  /\ p - 1 \in Starts(path, rest) => rest[p - 1].word \in Flags(path)
  /\ \A i \in StartsBefore(path, rest, p) :
       rest[i].option /\ (rest[i].word \in Flags(path) \/ i + 1 < p)
  /\ Got(path, rest, StartsBefore(path, rest, p), r)

Reading(path, rest, r) ==
  /\ rest = <<>> => Commands(path) = {}
  /\ rest # <<>> => rest[1] # Help
  /\ \E p \in 1..(Len(rest) + 1) : ReadTo(path, rest, r, p)

LineInv ==
  /\ args \in Seq(Argument)
  /\ parsed \in Parsed
  /\ AtCommand => Leading(args, parsed)
  /\ AtOption => Reading(Path(args), Rest(args), parsed)
  /\ ParserDone => MeansWhatItSays(args, parsed)

LEMMA WordsTyped ==
  ASSUME NEW line \in Seq(Argument), NEW n \in 0..Len(line)
  PROVE  Words(line, n) \in Seq(STRING) /\ Len(Words(line, n)) = n
<1>1. \A i \in 1..n : line[i].word \in STRING
  <2>1. \A i \in 1..n : line[i] \in Argument
    OBVIOUS
  <2> QED
    BY <2>1 DEF Argument
<1>2. n \in Nat
  OBVIOUS
<1> QED
  BY <1>1, <1>2 DEF Words

LEMMA RestTyped ==
  ASSUME NEW line \in Seq(Argument), NEW n \in 0..Len(line)
  PROVE  LET rest == SubSeq(line, n + 1, Len(line)) IN
         /\ rest \in Seq(Argument) /\ Len(rest) = Len(line) - n
         /\ \A i \in 1..(Len(line) - n) : rest[i] = line[n + i]
<1>1. \A i \in (n + 1)..Len(line) : line[i] \in Argument
  OBVIOUS
<1> QED
  BY <1>1

LEMMA DepthTyped ==
  ASSUME NEW line \in Seq(Argument)
  PROVE  Depth(line) \in 0..Len(line)
<1> DEFINE T == {m \in 0..Len(line) :
                   \A n \in 0..Len(line) : Leads(line, n) => n <= m}
<1>1. Leads(line, 0) /\ 0 \in 0..Len(line) /\ Len(line) \in T
  BY DEF Leads
<1>2. PICK d \in T : \A m \in T : d <= m
  <2>1. T \in SUBSET Nat /\ T # {}
    BY <1>1
  <2> HIDE DEF T
  <2> QED
    BY <2>1, Least
<1>3. Leads(line, d)
  <2> SUFFICES ASSUME ~Leads(line, d) PROVE FALSE
    OBVIOUS
  <2>1. d # 0 /\ d \in 0..Len(line)
    BY <1>1, <1>2
  <2>2. \A n \in 0..Len(line) : Leads(line, n) => n <= d /\ n # d
    BY <1>2
  <2>3. \A n \in 0..Len(line) : Leads(line, n) => n <= d - 1
    BY <2>1, <2>2
  <2>4. d - 1 \in T
    BY <2>1, <2>3
  <2> QED
    BY <1>2, <2>1, <2>4
<1> HIDE DEF Leads
<1> QED
  BY <1>2, <1>3 DEF Depth

LEMMA SomeLeft ==
  ASSUME NEW s \in Seq(Argument), NEW m \in Nat, NEW n \in 0..m, n # m,
         Len(s) = m - n
  PROVE  s # <<>> /\ Head(s) = s[1] /\ 1 \in 1..(m - n)
OBVIOUS

\* Where the next argument is no command the run of commands ends.
LEMMA LeadsNoFurther ==
  ASSUME NEW line \in Seq(Argument), NEW r \in Parsed, Leading(line, r),
         r.left = <<>> \/ Head(r.left).option
           \/ Head(r.left).word \notin Commands(r.path)
  PROVE  Depth(line) = Len(r.path) /\ Path(line) = r.path /\ Rest(line) = r.left
<1> DEFINE n == Len(r.path)
<1>1. n \in 0..Len(line) /\ Leads(line, n) /\ n \in Nat
  BY ParsedFields DEF Leading
<1>2. /\ r.left \in Seq(Argument) /\ Len(r.left) = Len(line) - n
      /\ \A i \in 1..(Len(line) - n) : r.left[i] = line[n + i]
  BY <1>1, RestTyped DEF Leading
<1>3. ASSUME n # Len(line) PROVE ~Leads(line, n + 1)
  <2>1. r.left # <<>> /\ Head(r.left) = line[n + 1]
    <3>1. Len(line) \in Nat
      OBVIOUS
    <3>2. /\ 1 \in 1..(Len(line) - n)
          /\ r.left # <<>> /\ Head(r.left) = r.left[1]
      BY <1>1, <1>2, <1>3, <3>1, SomeLeft
    <3> QED
      BY <1>2, <3>2
  <2>2. line[n + 1].option \/ line[n + 1].word \notin Commands(Words(line, n))
    BY <2>1 DEF Leading
  <2>3. n + 1 \in 1..(n + 1) /\ (n + 1) - 1 = n
    BY <1>1
  <2> QED
    BY <2>2, <2>3 DEF Leads
<1>4. Depth(line) = n
  BY <1>1, <1>3, DepthAt
<1> QED
  BY <1>4 DEF Leading, Path, Rest

LEMMA StartsOf ==
  ASSUME NEW path, NEW rest \in Seq(Argument)
  PROVE  LET S == Starts(path, rest) IN
         /\ S \in SUBSET (1..Len(rest)) /\ Len(rest) \in Nat
         /\ rest # <<>> => 1 \in S
         /\ \A i \in 1..Len(rest) :
              /\ i \in S /\ rest[i].word \in Flags(path) /\ i < Len(rest)
                 => i + 1 \in S
              /\ i \in S /\ rest[i].word \notin Flags(path) /\ i + 1 < Len(rest)
                 => i + 2 \in S
              /\ (i - 1 \in S => rest[i - 1].word \in Flags(path))
                 /\ i \in S /\ rest[i].word \notin Flags(path) => i + 1 \notin S
<1> DEFINE S == Starts(path, rest)
<1>1. S \in SUBSET (1..Len(rest)) /\ StartsTo(S, path, rest, Len(rest))
  BY StartsExist
<1>2. Len(rest) \in Nat /\ (rest # <<>> => Len(rest) # 0)
  OBVIOUS
<1> HIDE DEF S
<1>3. rest # <<>> => 1 \in S
  BY <1>1, <1>2 DEF StartsTo
<1>4. ASSUME NEW i \in 1..Len(rest)
      PROVE  /\ i \in S /\ rest[i].word \in Flags(path) /\ i < Len(rest)
                => i + 1 \in S
             /\ i \in S /\ rest[i].word \notin Flags(path) /\ i + 1 < Len(rest)
                => i + 2 \in S
             /\ (i - 1 \in S => rest[i - 1].word \in Flags(path))
                /\ i \in S /\ rest[i].word \notin Flags(path) => i + 1 \notin S
  <2>1. /\ (i + 1) - 1 = i /\ (i + 1) - 2 = i - 1 /\ (i + 2) - 2 = i
        /\ (i + 2) - 1 = i + 1 /\ i + 1 # 1
        /\ i < Len(rest) => i + 1 \in 1..Len(rest)
        /\ i + 1 < Len(rest) => i + 2 \in 1..Len(rest)
        /\ ~(i < Len(rest)) => i + 1 \notin 1..Len(rest)
    BY <1>2
  <2>2. /\ i < Len(rest) =>
             (i + 1 \in S <=> \/ i \in S /\ rest[i].word \in Flags(path)
                              \/ i - 1 \in S /\ rest[i - 1].word \notin Flags(path))
        /\ i + 1 < Len(rest) =>
             (i + 2 \in S <=> \/ i + 2 = 1
                              \/ i + 1 \in S /\ rest[i + 1].word \in Flags(path)
                              \/ i \in S /\ rest[i].word \notin Flags(path))
    <3>1. \A m \in 1..Len(rest) :
            m \in S <=> \/ m = 1
                        \/ m - 1 \in S /\ rest[m - 1].word \in Flags(path)
                        \/ m - 2 \in S /\ rest[m - 2].word \notin Flags(path)
      BY <1>1 DEF StartsTo
    <3>2. CASE i < Len(rest)
      <4>1. i + 1 \in S <=> \/ i + 1 = 1
                            \/ (i + 1) - 1 \in S /\ rest[(i + 1) - 1].word \in Flags(path)
                            \/ (i + 1) - 2 \in S /\ rest[(i + 1) - 2].word \notin Flags(path)
        BY <2>1, <3>1, <3>2
      <4>2. CASE i + 1 < Len(rest)
        <5>1. i + 2 \in S <=> \/ i + 2 = 1
                              \/ (i + 2) - 1 \in S /\ rest[(i + 2) - 1].word \in Flags(path)
                              \/ (i + 2) - 2 \in S /\ rest[(i + 2) - 2].word \notin Flags(path)
          BY <2>1, <3>1, <4>2
        <5> QED
          BY <2>1, <4>1, <5>1
      <4> QED
        BY <2>1, <4>1, <4>2
    <3>3. ~(i < Len(rest)) => ~(i + 1 < Len(rest))
      BY <1>2
    <3> QED
      BY <3>2, <3>3
  <2> QED
    BY <1>1, <2>1, <2>2
<1> QED
  BY <1>1, <1>2, <1>3, <1>4 DEF S

\* One group further.
LEMMA StartsGrow ==
  ASSUME NEW path, NEW rest \in Seq(Argument), NEW p \in 1..Len(rest),
         p \in Starts(path, rest),
         p - 1 \in Starts(path, rest) => rest[p - 1].word \in Flags(path)
  PROVE  LET S == Starts(path, rest)
             flag == rest[p].word \in Flags(path)
             q == IF flag THEN p + 1 ELSE p + 2
         IN  flag \/ p < Len(rest) =>
               /\ q \in 1..(Len(rest) + 1)
               /\ q <= Len(rest) => q \in S
               /\ q - 1 \in S => rest[q - 1].word \in Flags(path)
               /\ StartsBefore(path, rest, q) = StartsBefore(path, rest, p) \cup {p}
<1> DEFINE S == Starts(path, rest)
           flag == rest[p].word \in Flags(path)
<1>1. S \in SUBSET (1..Len(rest)) /\ Len(rest) \in Nat
  BY StartsOf
<1>2. /\ flag /\ p < Len(rest) => p + 1 \in S
      /\ ~flag /\ p + 1 < Len(rest) => p + 2 \in S
      /\ ~flag => p + 1 \notin S
  BY StartsOf
<1> HIDE DEF S
<1>3. CASE flag
  <2>1. /\ p + 1 \in 1..(Len(rest) + 1) /\ (p + 1) - 1 = p
        /\ p + 1 <= Len(rest) => p < Len(rest)
    BY <1>1
  <2>2. {i \in S : i < p + 1} = {i \in S : i < p} \cup {p}
    BY <1>1 DEF S
  <2> QED
    BY <1>2, <1>3, <2>1, <2>2 DEF S, StartsBefore
<1>4. CASE ~flag /\ p < Len(rest)
  <2>1. /\ p + 2 \in 1..(Len(rest) + 1) /\ (p + 2) - 1 = p + 1
        /\ p + 2 <= Len(rest) => p + 1 < Len(rest)
    BY <1>1, <1>4
  <2>2. {i \in S : i < p + 2} = {i \in S : i < p} \cup {p}
    <3>1. \A i \in S : i < p + 2 => i < p \/ i = p
      BY <1>1, <1>2, <1>4
    <3> QED
      BY <1>1, <3>1 DEF S
  <2> QED
    BY <1>2, <1>4, <2>1, <2>2 DEF S, StartsBefore
<1> QED
  BY <1>3, <1>4

LEMMA ReadMore ==
  ASSUME NEW path, NEW rest \in Seq(Argument), NEW p \in 1..Len(rest),
         NEW r \in Parsed, ReadTo(path, rest, r, p), rest[p].option,
         NEW s, s.path = r.path,
         Got(path, rest, StartsBefore(path, rest, p) \cup {p}, s),
         \/ rest[p].word \in Flags(path) /\ s.left = Tail(r.left)
         \/ /\ rest[p].word \notin Flags(path) /\ Len(r.left) > 1
            /\ s.left = Tail(Tail(r.left))
  PROVE  \E q \in 1..(Len(rest) + 1) : ReadTo(path, rest, s, q)
<1> DEFINE flag == rest[p].word \in Flags(path)
           q == IF flag THEN p + 1 ELSE p + 2
<1>1. /\ p \in Starts(path, rest) /\ Len(r.left) = Len(rest) + 1 - p
      /\ p - 1 \in Starts(path, rest) => rest[p - 1].word \in Flags(path)
      /\ \A i \in 1..Len(r.left) : r.left[i] = rest[p + i - 1]
      /\ \A i \in StartsBefore(path, rest, p) :
           rest[i].option /\ (rest[i].word \in Flags(path) \/ i + 1 < p)
      /\ s.path = path
  BY DEF ReadTo
<1>2. Len(rest) \in Nat /\ r.left \in Seq(Argument) /\ r.left # <<>>
  <2>1. r.left \in Seq(Argument)
    BY ParsedFields
  <2>2. Len(rest) \in Nat
    OBVIOUS
  <2>3. Len(r.left) # 0
    BY <1>1, <2>2
  <2> QED
    BY <2>1, <2>2, <2>3
<1>3. flag \/ p < Len(rest)
  BY <1>1, <1>2
<1>4. /\ q \in 1..(Len(rest) + 1)
      /\ q <= Len(rest) => q \in Starts(path, rest)
      /\ q - 1 \in Starts(path, rest) => rest[q - 1].word \in Flags(path)
      /\ StartsBefore(path, rest, q) = StartsBefore(path, rest, p) \cup {p}
  BY <1>1, <1>3, StartsGrow
<1>5. /\ Len(s.left) = Len(rest) + 1 - q
      /\ \A i \in 1..Len(s.left) : s.left[i] = rest[q + i - 1]
  <2>1. CASE flag
    <3>1. /\ Len(s.left) = Len(r.left) - 1
          /\ \A i \in 1..(Len(r.left) - 1) : s.left[i] = r.left[i + 1]
      BY <1>2, <2>1, TailArguments
    <3>2. ASSUME NEW i \in 1..(Len(r.left) - 1)
          PROVE  s.left[i] = rest[(p + 1) + i - 1]
      <4>1. i + 1 \in 1..Len(r.left) /\ p + (i + 1) - 1 = (p + 1) + i - 1
        BY <1>1, <1>2
      <4> QED
        BY <1>1, <3>1, <4>1
    <3> QED
      BY <1>1, <1>2, <2>1, <3>1, <3>2
  <2>2. CASE ~flag
    <3>1. /\ Len(s.left) = Len(r.left) - 2
          /\ \A i \in 1..(Len(r.left) - 2) : s.left[i] = r.left[i + 2]
      BY <1>2, <2>2, TailTwice
    <3>2. ASSUME NEW i \in 1..(Len(r.left) - 2)
          PROVE  s.left[i] = rest[(p + 2) + i - 1]
      <4>1. i + 2 \in 1..Len(r.left) /\ p + (i + 2) - 1 = (p + 2) + i - 1
        BY <1>1, <1>2
      <4> QED
        BY <1>1, <3>1, <4>1
    <3> QED
      BY <1>1, <1>2, <2>2, <3>1, <3>2
  <2> QED
    BY <2>1, <2>2
<1>6. \A i \in StartsBefore(path, rest, p) \cup {p} :
        rest[i].option /\ (rest[i].word \in Flags(path) \/ i + 1 < q)
  <2>1. \A i \in StartsBefore(path, rest, p) : i \in 1..Len(rest)
    BY StartsOf DEF StartsBefore
  <2>2. \A i \in StartsBefore(path, rest, p) : i + 1 < p => i + 1 < q
    BY <1>2, <2>1
  <2>3. flag \/ p + 1 < q
    OBVIOUS
  <2> HIDE DEF q
  <2> QED
    BY <1>1, <2>2, <2>3
<1> HIDE DEF q
<1>7. ReadTo(path, rest, s, q)
  BY <1>1, <1>4, <1>5, <1>6 DEF ReadTo
<1> QED
  BY <1>4, <1>7

\* Where parse_terminal stands.
Standing(path, rest, r, p) ==
  /\ Len(rest) \in Nat /\ r.left \in Seq(Argument)
  /\ r.left = <<>> => p = Len(rest) + 1
  /\ r.left # <<>> => /\ p \in 1..Len(rest) /\ p \in Starts(path, rest)
                      /\ Head(r.left) = rest[p] /\ rest # <<>>
  /\ Len(r.left) > 1 => r.left[2] = rest[p + 1] /\ p \in 1..(Len(rest) - 1)
  /\ r.left # <<>> /\ ~(Len(r.left) > 1) => p = Len(rest)
  /\ StartsBefore(path, rest, p) \in SUBSET (1..(p - 1))

LEMMA AtStart ==
  ASSUME NEW path, NEW rest \in Seq(Argument), NEW r \in Parsed,
         NEW p \in 1..(Len(rest) + 1), ReadTo(path, rest, r, p)
  PROVE  Standing(path, rest, r, p)
<1>1. /\ Len(r.left) = Len(rest) + 1 - p
      /\ \A i \in 1..Len(r.left) : r.left[i] = rest[p + i - 1]
      /\ p <= Len(rest) => p \in Starts(path, rest)
  BY DEF ReadTo
<1>2. Len(rest) \in Nat /\ r.left \in Seq(Argument)
  BY ParsedFields, StartsOf
<1>3. r.left = <<>> => p = Len(rest) + 1
  BY <1>1, <1>2
<1>4. ASSUME r.left # <<>>
      PROVE  /\ p \in 1..Len(rest) /\ p \in Starts(path, rest)
             /\ Head(r.left) = rest[p] /\ rest # <<>>
  <2>1. Len(r.left) # 0 /\ Head(r.left) = r.left[1]
    BY <1>2, <1>4, TailArguments
  <2>2. p \in 1..Len(rest) /\ 1 \in 1..Len(r.left) /\ p + 1 - 1 = p
    BY <1>1, <1>2, <2>1
  <2>3. rest # <<>>
    BY <1>2, <2>2
  <2> QED
    BY <1>1, <2>1, <2>2, <2>3
<1>5. ASSUME Len(r.left) > 1
      PROVE  r.left[2] = rest[p + 1] /\ p \in 1..(Len(rest) - 1)
  <2>1. p \in 1..(Len(rest) - 1) /\ 2 \in 1..Len(r.left) /\ p + 2 - 1 = p + 1
    BY <1>1, <1>2, <1>5
  <2> QED
    BY <1>1, <2>1
<1>6. r.left # <<>> /\ ~(Len(r.left) > 1) => p = Len(rest)
  BY <1>1, <1>2, <1>4
<1>7. StartsBefore(path, rest, p) \in SUBSET (1..(p - 1))
  <2>1. Starts(path, rest) \subseteq 1..Len(rest)
    BY StartsOf
  <2> QED
    BY <1>2, <2>1 DEF StartsBefore
<1> QED
  BY <1>2, <1>3, <1>4, <1>5, <1>6, <1>7 DEF Standing

(***************************************************************************)
(* What the parser ends with.                                              *)
(***************************************************************************)
LEMMA MeansHelp ==
  ASSUME NEW line, NEW r, r.kind = "help", r.path = Path(line),
         Rest(line) \in Seq(Argument), Rest(line) # <<>>, Rest(line)[1] = Help
  PROVE  MeansWhatItSays(line, r)
<1>1. HelpIn(Rest(line))
  BY DEF HelpIn
<1> QED
  BY <1>1 DEF MeansWhatItSays, Rest, Path

LEMMA MeansRefused ==
  ASSUME NEW line, NEW r, r.kind = "refused",
         Rest(line) # <<>> => Rest(line)[1] # Help,
         \/ Rest(line) = <<>> /\ Commands(Path(line)) # {}
         \/ \E i \in Starts(Path(line), Rest(line)) :
              \/ ~Rest(line)[i].option
              \/ /\ Rest(line)[i].word \notin Flags(Path(line))
                 /\ ~(i < Len(Rest(line)))
  PROVE  MeansWhatItSays(line, r)
BY DEF MeansWhatItSays, Rest, Path

LEMMA MeansParsed ==
  ASSUME NEW line, NEW r, r.kind = "parsed", r.path = Path(line),
         Rest(line) # <<>> => Rest(line)[1] # Help,
         Rest(line) = <<>> => Commands(Path(line)) = {},
         \A i \in Starts(Path(line), Rest(line)) :
           /\ Rest(line)[i].option
           /\ \/ Rest(line)[i].word \in Flags(Path(line))
              \/ i < Len(Rest(line)),
         Got(Path(line), Rest(line), Starts(Path(line), Rest(line)), r)
  PROVE  MeansWhatItSays(line, r)
<1> DEFINE path == Path(line)
           rest == Rest(line)
           S == Starts(path, rest)
           free == {i \in S : rest[i].word \notin Flags(path) \cup Valued(path)}
<1>1. /\ r.flags = {n \in Flags(path) : \E i \in S : rest[i].word = n}
      /\ DOMAIN r.strings = {n \in Valued(path) : \E i \in S : rest[i].word = n}
      /\ \A i \in S : rest[i].word \in Valued(path)
                      /\ (\A j \in S : rest[j].word = rest[i].word => j <= i)
                      => r.strings[rest[i].word] = rest[i + 1].word
      /\ Len(r.others) = Cardinality(free)
      /\ \A i \in free : r.others[Cardinality({j \in free : j <= i})]
                           = <<rest[i].word, rest[i + 1].word>>
  BY DEF Got, Free, UpTo, LastOf
<1> QED
  BY <1>1 DEF MeansWhatItSays, Path, Rest

LEMMA RestIs ==
  ASSUME NEW line \in Seq(Argument)
  PROVE  Rest(line) \in Seq(Argument)
BY DepthTyped, RestTyped DEF Rest

LEMMA KindFields ==
  ASSUME NEW r \in Parsed, NEW kind \in Kinds
  PROVE  LET s == [r EXCEPT !.kind = kind] IN
         /\ s.path = r.path /\ s.left = r.left /\ s.strings = r.strings
         /\ s.flags = r.flags /\ s.others = r.others /\ s.kind = kind
         /\ s \in Parsed
BY DEF Parsed

LEMMA OutcomeTyped ==
  ASSUME NEW kind \in Kinds, NEW path \in Seq(STRING)
  PROVE  LET r == Outcome(kind, path) IN
         /\ r \in Parsed /\ r.kind = kind /\ r.path = path
         /\ r.strings = <<>> /\ r.flags = {} /\ r.others = <<>>
<1>1. <<>> \in Maps
  <2>1. <<>> \in [{} -> STRING]
    OBVIOUS
  <2> QED
    BY <2>1 DEF Maps
<1>2. <<>> \in Seq(Argument) /\ <<>> \in Seq(STRING \X STRING)
  OBVIOUS
<1> QED
  BY <1>1, <1>2 DEF Outcome, Parsed

LEMMA SameArguments ==
  ASSUME NEW s \in Seq(Argument), NEW t \in Seq(Argument), Len(s) = Len(t),
         \A i \in 1..Len(t) : s[i] = t[i]
  PROVE  s = t
OBVIOUS

(***************************************************************************)
(* The steps of the parser.                                                *)
(***************************************************************************)
LEMMA HelpKeeps ==
  ASSUME LineInv, GiveHelp, UNCHANGED args
  PROVE  LineInv'
<1>1. /\ parsed \in Parsed /\ Leading(args, parsed) /\ args \in Seq(Argument)
      /\ parsed.left # <<>> /\ Head(parsed.left) = Help
  BY DEF LineInv, GiveHelp, HelpIsNext, NextArgument
<1>2. Help.word \notin Commands(parsed.path)
  BY DEF Help, Word, Commands
<1>3. Rest(args) = parsed.left
  BY <1>1, <1>2, LeadsNoFurther
<1>4. Rest(args)[1] = Help
  BY <1>1, <1>3, ParsedFields, TailArguments
<1>5. parsed' = Outcome("help", parsed.path)
  BY DEF GiveHelp
<1>6. parsed'.kind = "help" /\ parsed'.path = parsed.path /\ parsed' \in Parsed
  <2> DEFINE p == parsed.path
  <2>1. p \in Seq(STRING)
    BY <1>1, ParsedFields
  <2>2. parsed' = Outcome("help", p)
    BY <1>5
  <2>3. "help" \in Kinds
    BY DEF Kinds
  <2> HIDE DEF p
  <2>4. /\ Outcome("help", p) \in Parsed /\ Outcome("help", p).kind = "help"
        /\ Outcome("help", p).path = p
    BY ONLY <2>1, <2>3, OutcomeTyped
  <2> QED
    BY <2>2, <2>4 DEF p
<1>7. MeansWhatItSays(args, parsed')
  <2>1. Path(args) = parsed.path
    BY <1>1, <1>2, LeadsNoFurther
  <2>2. Rest(args) \in Seq(Argument) /\ Rest(args) # <<>>
    BY <1>1, <1>3, ParsedFields
  <2> QED
    BY <1>4, <1>6, <2>1, <2>2, MeansHelp
<1> QED
  BY <1>1, <1>6, <1>7 DEF LineInv, AtCommand, AtOption

LEMMA LeadsOn ==
  ASSUME NEW line \in Seq(Argument), NEW n \in Nat, n < Len(line),
         Leads(line, n), ~line[n + 1].option,
         line[n + 1].word \in Commands(Words(line, n))
  PROVE  /\ Leads(line, n + 1)
         /\ Words(line, n + 1) = Append(Words(line, n), line[n + 1].word)
         /\ SubSeq(line, (n + 1) + 1, Len(line))
              = Tail(SubSeq(line, n + 1, Len(line)))
<1>1. Len(line) \in Nat /\ n \in 0..Len(line) /\ n + 1 \in 0..Len(line)
  OBVIOUS
<1>2. Leads(line, n + 1)
  <2>1. ASSUME NEW i \in 1..(n + 1)
        PROVE  ~line[i].option /\ line[i].word \in Commands(Words(line, i - 1))
    <3>1. CASE i = n + 1
      <4>1. i - 1 = n
        BY <3>1
      <4> QED
        BY <3>1, <4>1
    <3>2. CASE i # n + 1
      <4>1. i \in 1..n
        BY <3>2
      <4> QED
        BY <4>1 DEF Leads
    <3> QED
      BY <3>1, <3>2
  <2> QED
    BY <2>1 DEF Leads
<1>3. Words(line, n + 1) = Append(Words(line, n), line[n + 1].word)
  <2> DEFINE w == line[n + 1].word
             s == Words(line, n)
             t == Words(line, n + 1)
  <2>1. s \in Seq(STRING) /\ Len(s) = n /\ t \in Seq(STRING) /\ Len(t) = n + 1
    BY <1>1, WordsTyped
  <2>2. \A i \in 1..n : s[i] = t[i]
    BY DEF Words
  <2>3. t[n + 1] = w
    BY DEF Words
  <2> HIDE DEF w, s, t
  <2>4. w \in STRING
    BY <2>1, <2>3
  <2>5. t = Append(s, w)
    BY <2>1, <2>2, <2>3, <2>4
  <2> QED
    BY <2>5 DEF w, s, t
<1>4. SubSeq(line, (n + 1) + 1, Len(line)) = Tail(SubSeq(line, n + 1, Len(line)))
  <2> DEFINE m == n + 1
             s == SubSeq(line, n + 1, Len(line))
             t == SubSeq(line, m + 1, Len(line))
  <2>1. /\ s \in Seq(Argument) /\ Len(s) = Len(line) - n
        /\ \A i \in 1..(Len(line) - n) : s[i] = line[n + i]
    BY <1>1, RestTyped
  <2>2. /\ t \in Seq(Argument) /\ Len(t) = Len(line) - m
        /\ \A i \in 1..(Len(line) - m) : t[i] = line[m + i]
    <3> HIDE DEF m
    <3> QED
      BY <1>1, RestTyped DEF m
  <2> HIDE DEF s, t
  <2>3. s # <<>>
    BY <1>1, <2>1
  <2>4. /\ Tail(s) \in Seq(Argument) /\ Len(Tail(s)) = Len(s) - 1
        /\ \A i \in 1..(Len(s) - 1) : Tail(s)[i] = s[i + 1]
    BY <2>1, <2>3, TailArguments
  <2>5. ASSUME NEW i \in 1..Len(t) PROVE Tail(s)[i] = t[i]
    <3>1. /\ i \in 1..(Len(s) - 1) /\ i + 1 \in 1..(Len(line) - n)
          /\ i \in 1..(Len(line) - m) /\ n + (i + 1) = m + i
      BY <1>1, <2>1, <2>2
    <3> QED
      BY <2>1, <2>2, <2>4, <3>1
  <2>6. Len(Tail(s)) = Len(t)
    BY <1>1, <2>1, <2>2, <2>4
  <2>7. Tail(s) = t
    BY <2>2, <2>4, <2>5, <2>6, SameArguments
  <2> QED
    BY <2>7 DEF s, t, m
<1> QED
  BY <1>2, <1>3, <1>4

LEMMA AppendOne ==
  ASSUME NEW T, NEW s \in Seq(T), NEW w \in T
  PROVE  Append(s, w) \in Seq(T) /\ Len(Append(s, w)) = Len(s) + 1
OBVIOUS

LEMMA AppendName ==
  ASSUME NEW s \in Seq(STRING), NEW w \in STRING
  PROVE  Append(s, w) \in Seq(STRING) /\ Len(Append(s, w)) = Len(s) + 1
BY AppendOne

LEMMA LeadingMore ==
  ASSUME NEW line \in Seq(Argument), NEW r \in Parsed, Leading(line, r),
         r.left # <<>>, ~Head(r.left).option,
         Head(r.left).word \in Commands(r.path),
         NEW s, s.path = Append(r.path, Head(r.left).word),
         s.left = Tail(r.left), s.strings = r.strings, s.flags = r.flags,
         s.others = r.others
  PROVE  Leading(line, s) /\ s.path \in Seq(STRING) /\ s.left \in Seq(Argument)
<1> DEFINE n == Len(r.path)
           path == r.path
           left == r.left
<1>1. /\ path \in Seq(STRING) /\ left \in Seq(Argument) /\ n \in 0..Len(line)
      /\ path = Words(line, n) /\ Leads(line, n)
      /\ left = SubSeq(line, n + 1, Len(line))
      /\ r.strings = <<>> /\ r.flags = {} /\ r.others = <<>>
  BY ParsedFields DEF Leading
<1>2. ~Head(left).option /\ Head(left).word \in Commands(path) /\ left # <<>>
  OBVIOUS
<1>3. s.path = Append(path, Head(left).word) /\ s.left = Tail(left)
  OBVIOUS
<1> HIDE DEF n, path, left
<1>4. Len(left) = Len(line) - n /\ Len(line) \in Nat
      /\ \A i \in 1..(Len(line) - n) : left[i] = line[n + i]
  BY <1>1, RestTyped
<1>5. Head(left) = left[1] /\ left[1] \in Argument /\ Len(left) \in Nat \ {0}
  BY <1>1, <1>2, TailArguments
<1>6. n \in Nat /\ n < Len(line) /\ 1 \in 1..(Len(line) - n)
  BY <1>1, <1>4, <1>5
<1>7. Head(left) = line[n + 1]
  BY <1>4, <1>5, <1>6
<1>8. Head(left).word \in STRING
  BY <1>5 DEF Argument
<1>9. s.path \in Seq(STRING) /\ Len(s.path) = n + 1
  <2>1. Len(path) = n
    BY DEF n, path
  <2> QED
    BY <1>1, <1>3, <1>8, <2>1, AppendName
<1>10. /\ Leads(line, n + 1) /\ s.path = Words(line, n + 1)
       /\ s.left = SubSeq(line, (n + 1) + 1, Len(line))
  BY <1>1, <1>2, <1>3, <1>6, <1>7, LeadsOn
<1>11. n + 1 <= Len(line)
  BY <1>4, <1>6
<1>12. Leading(line, s)
  BY <1>1, <1>9, <1>10, <1>11 DEF Leading
<1>13. s.left \in Seq(Argument)
  BY <1>1, <1>2, <1>3, TailArguments
<1> QED
  BY <1>9, <1>12, <1>13

LEMMA CommandKeeps ==
  ASSUME LineInv, EnterCommand, UNCHANGED args
  PROVE  LineInv'
<1> DEFINE r == parsed
           path == Append(r.path, Head(r.left).word)
           left == Tail(r.left)
           s == [r EXCEPT !.path = path, !.left = left]
<1>1. /\ r \in Parsed /\ Leading(args, r) /\ args \in Seq(Argument)
      /\ r.kind = "commands" /\ r.left # <<>> /\ ~Head(r.left).option
      /\ Head(r.left).word \in Commands(r.path)
  BY DEF LineInv, EnterCommand, CommandIsNext, NextArgument, AtCommand
<1>2. parsed' = s
  BY DEF EnterCommand, NextArgument, LineInv, Parsed
<1>3. /\ s.path = path /\ s.left = left /\ s.strings = r.strings
      /\ s.flags = r.flags /\ s.others = r.others /\ s.kind = "commands"
  BY <1>1 DEF Parsed
<1>4. Leading(args, s) /\ path \in Seq(STRING) /\ left \in Seq(Argument)
  <2> HIDE DEF s
  <2> QED
    BY <1>1, <1>3, LeadingMore
<1>5. s \in Parsed
  <2> HIDE DEF path, left
  <2> QED
    BY <1>1, <1>4 DEF Parsed
<1> HIDE DEF s
<1> QED
  BY <1>1, <1>2, <1>3, <1>4, <1>5
     DEF LineInv, AtCommand, AtOption, ParserDone

LEMMA ReadFirst ==
  ASSUME NEW line \in Seq(Argument), NEW r \in Parsed, Leading(line, r),
         r.left = <<>> => Commands(r.path) = {},
         r.left # <<>> => Head(r.left) # Help,
         r.left = <<>> \/ Head(r.left).option
           \/ Head(r.left).word \notin Commands(r.path),
         NEW s, s.path = r.path, s.left = r.left, s.strings = r.strings,
         s.flags = r.flags, s.others = r.others
  PROVE  Reading(Path(line), Rest(line), s)
<1> DEFINE path == Path(line)
           rest == Rest(line)
<1>1. path = r.path /\ rest = r.left
  BY LeadsNoFurther
<1>2. rest \in Seq(Argument) /\ Len(rest) \in Nat
  BY <1>1, ParsedFields
<1>3. rest # <<>> => rest[1] # Help
  BY <1>1, <1>2, TailArguments
<1>4. Starts(path, rest) \in SUBSET (1..Len(rest)) /\ (rest # <<>> => 1 \in Starts(path, rest))
  BY <1>2, StartsOf
<1> HIDE DEF path, rest
<1>5. StartsBefore(path, rest, 1) = {} /\ 0 \notin Starts(path, rest)
  BY <1>2, <1>4 DEF StartsBefore
<1>6. Got(path, rest, {}, s)
  <2>1. s.strings = <<>> /\ s.flags = {} /\ s.others = <<>>
    BY DEF Leading
  <2>2. Free(path, rest, {}) = {}
    BY DEF Free
  <2>3. DOMAIN s.strings = {} /\ Len(s.others) = 0
    BY <2>1
  <2> QED
    BY <2>1, <2>2, <2>3, FS_EmptySet DEF Got
<1>7. ReadTo(path, rest, s, 1)
  <2>1. s.path = path /\ s.left = rest
    BY <1>1
  <2>2. /\ Len(s.left) = Len(rest) + 1 - 1
        /\ \A i \in 1..Len(s.left) : 1 + i - 1 = i
        /\ 1 <= Len(rest) => rest # <<>>
        /\ 1 - 1 = 0
    BY <1>2, <2>1
  <2> QED
    BY <1>4, <1>5, <1>6, <2>1, <2>2 DEF ReadTo
<1>8. 1 \in 1..(Len(rest) + 1)
  BY <1>2
<1>9. rest = <<>> => Commands(path) = {}
  BY <1>1
<1> QED
  BY <1>3, <1>7, <1>8, <1>9 DEF Reading, path, rest

LEMMA OptionsKeep ==
  ASSUME LineInv, EnterOptions, UNCHANGED args
  PROVE  LineInv'
<1> DEFINE r == parsed
           s == [r EXCEPT !.kind = "options"]
<1>1. /\ r \in Parsed /\ Leading(args, r) /\ args \in Seq(Argument)
      /\ r.left = <<>> => Commands(r.path) = {}
      /\ r.left # <<>> => Head(r.left) # Help
      /\ r.left = <<>> \/ Head(r.left).option
           \/ Head(r.left).word \notin Commands(r.path)
  BY DEF LineInv, EnterOptions, HelpIsNext, OptionIsNext, NextArgument, AtCommand
<1>2. parsed' = s
  BY DEF EnterOptions
<1>3. /\ s.path = r.path /\ s.left = r.left /\ s.strings = r.strings
      /\ s.flags = r.flags /\ s.others = r.others /\ s.kind = "options"
      /\ s \in Parsed
  BY <1>1, KindFields DEF Kinds
<1> HIDE DEF s
<1>4. Reading(Path(args), Rest(args), s)
  BY <1>1, <1>3, ReadFirst
<1> QED
  BY <1>1, <1>2, <1>3, <1>4
     DEF LineInv, AtCommand, AtOption, ParserDone

LEMMA RefusedFields == Refused \in Parsed /\ Refused.kind = "refused"
<1>1. <<>> \in Seq(STRING)
  OBVIOUS
<1> QED
  BY <1>1, OutcomeTyped DEF Refused, Kinds

\* A refusal, of a line that does not mean anything.
LEMMA RefusalKeeps ==
  ASSUME LineInv, UNCHANGED args, parsed' = Refused,
         Rest(args) # <<>> => Rest(args)[1] # Help,
         \/ Rest(args) = <<>> /\ Commands(Path(args)) # {}
         \/ \E i \in Starts(Path(args), Rest(args)) :
              \/ ~Rest(args)[i].option
              \/ /\ Rest(args)[i].word \notin Flags(Path(args))
                 /\ ~(i < Len(Rest(args)))
  PROVE  LineInv'
<1> DEFINE s == Refused
<1>1. s \in Parsed /\ s.kind = "refused"
  BY RefusedFields
<1> HIDE DEF s
<1>2. MeansWhatItSays(args, s)
  BY <1>1, MeansRefused
<1>3. args \in Seq(Argument) /\ parsed' = s
  BY DEF LineInv, s
<1> QED
  BY <1>1, <1>2, <1>3 DEF LineInv, AtCommand, AtOption, ParserDone

LEMMA RefuseCommandKeeps ==
  ASSUME LineInv, RefuseCommand, UNCHANGED args
  PROVE  LineInv'
<1> DEFINE path == Path(args)
           rest == Rest(args)
           S == Starts(path, rest)
<1>1. /\ parsed \in Parsed /\ Leading(args, parsed) /\ args \in Seq(Argument)
      /\ Commands(parsed.path) # {} /\ parsed' = Refused
      /\ parsed.left # <<>> =>
           /\ Head(parsed.left) # Help /\ ~Head(parsed.left).option
           /\ Head(parsed.left).word \notin Commands(parsed.path)
  BY DEF LineInv, RefuseCommand, HelpIsNext, OptionIsNext, CommandIsNext,
         NextArgument, AtCommand
<1>2. path = parsed.path /\ rest = parsed.left
  BY <1>1, LeadsNoFurther
<1>3. rest # <<>> => rest[1] # Help /\ ~rest[1].option
  BY <1>1, <1>2, ParsedFields, TailArguments
<1>4. rest # <<>> => 1 \in S
  BY <1>1, RestIs, StartsOf
<1>5. Commands(path) # {}
  BY <1>1, <1>2
<1> HIDE DEF path, rest, S
<1> QED
  BY <1>1, <1>3, <1>4, <1>5, RefusalKeeps DEF path, rest, S

LEMMA FlagRead ==
  ASSUME NEW path, NEW rest \in Seq(Argument), NEW r \in Parsed,
         Reading(path, rest, r), r.left # <<>>, Head(r.left).option,
         Head(r.left).word \in Flags(r.path)
  PROVE  LET s == SetFlag(r, Head(r.left).word) IN
         Reading(path, rest, s) /\ s \in Parsed /\ s.kind = r.kind
<1>1. PICK p \in 1..(Len(rest) + 1) : ReadTo(path, rest, r, p)
  BY DEF Reading
<1> DEFINE n == rest[p].word
           s == SetFlag(r, n)
<1>2. p \in 1..Len(rest) /\ Head(r.left) = rest[p]
  <2>1. Standing(path, rest, r, p)
    BY <1>1, AtStart
  <2> QED
    BY <2>1 DEF Standing
<1>3. r.path = path /\ Got(path, rest, StartsBefore(path, rest, p), r)
  BY <1>1 DEF ReadTo
<1>4. rest[p].option /\ n \in Flags(path)
  BY <1>2, <1>3
<1>5. n \in STRING
  BY <1>2, WordTyped
<1>6. Got(path, rest, StartsBefore(path, rest, p) \cup {p}, s)
  BY <1>2, <1>3, <1>4, GotFlag
<1>7. /\ s \in Parsed /\ s.kind = r.kind /\ s.path = r.path
      /\ s.left = Tail(r.left)
  <2> HIDE DEF n
  <2> QED
    BY <1>5, SetFlagFields
<1> HIDE DEF s
<1>8. \E q \in 1..(Len(rest) + 1) : ReadTo(path, rest, s, q)
  BY <1>1, <1>2, <1>4, <1>6, <1>7, ReadMore
<1>9. Reading(path, rest, s)
  BY <1>8 DEF Reading
<1> QED
  BY <1>2, <1>7, <1>9 DEF s

LEMMA StringRead ==
  ASSUME NEW path, NEW rest \in Seq(Argument), NEW r \in Parsed,
         Reading(path, rest, r), Len(r.left) > 1, Head(r.left).option,
         Head(r.left).word \notin Flags(r.path),
         Head(r.left).word \in Valued(r.path)
  PROVE  LET s == SetString(r, Head(r.left).word, r.left[2].word) IN
         Reading(path, rest, s) /\ s \in Parsed /\ s.kind = r.kind
<1>1. PICK p \in 1..(Len(rest) + 1) : ReadTo(path, rest, r, p)
  BY DEF Reading
<1> DEFINE n == rest[p].word
           v == rest[p + 1].word
           s == SetString(r, n, v)
<1>2. r.left # <<>>
  BY ParsedFields, TailTwice
<1>3. /\ p \in 1..(Len(rest) - 1) /\ p \in 1..Len(rest)
      /\ Head(r.left) = rest[p] /\ r.left[2] = rest[p + 1]
      /\ StartsBefore(path, rest, p) \in SUBSET (1..(p - 1))
  <2>1. Standing(path, rest, r, p)
    BY <1>1, AtStart
  <2> QED
    BY <1>2, <2>1 DEF Standing
<1>4. r.path = path /\ Got(path, rest, StartsBefore(path, rest, p), r)
  BY <1>1 DEF ReadTo
<1>5. rest[p].option /\ n \notin Flags(path) /\ n \in Valued(path)
  BY <1>3, <1>4
<1>6. n \in STRING /\ v \in STRING
  <2>1. r.left[2] \in Argument
    BY ParsedFields, TailTwice
  <2> QED
    BY <1>3, <2>1, WordTyped DEF Argument
<1>7. Got(path, rest, StartsBefore(path, rest, p) \cup {p}, s)
  BY <1>3, <1>4, <1>5, GotString
<1>8. /\ s \in Parsed /\ s.kind = r.kind /\ s.path = r.path
      /\ s.left = Tail(Tail(r.left))
  <2> HIDE DEF n, v
  <2> QED
    BY <1>6, SetStringFields
<1> HIDE DEF s
<1>9. \E q \in 1..(Len(rest) + 1) : ReadTo(path, rest, s, q)
  BY <1>1, <1>3, <1>5, <1>7, <1>8, ReadMore
<1>10. Reading(path, rest, s)
  BY <1>9 DEF Reading
<1> QED
  BY <1>3, <1>8, <1>10 DEF s

LEMMA OtherRead ==
  ASSUME NEW path, NEW rest \in Seq(Argument), NEW r \in Parsed,
         Reading(path, rest, r), Len(r.left) > 1, Head(r.left).option,
         Head(r.left).word \notin Flags(r.path),
         Head(r.left).word \notin Valued(r.path)
  PROVE  LET s == AddOther(r, Head(r.left).word, r.left[2].word) IN
         Reading(path, rest, s) /\ s \in Parsed /\ s.kind = r.kind
<1>1. PICK p \in 1..(Len(rest) + 1) : ReadTo(path, rest, r, p)
  BY DEF Reading
<1> DEFINE n == rest[p].word
           v == rest[p + 1].word
           s == AddOther(r, n, v)
<1>2. r.left # <<>> /\ r.left \in Seq(Argument)
  BY ParsedFields, TailTwice
<1>3. /\ p \in 1..(Len(rest) - 1) /\ p \in 1..Len(rest)
      /\ Head(r.left) = rest[p] /\ r.left[2] = rest[p + 1]
      /\ StartsBefore(path, rest, p) \in SUBSET (1..(p - 1))
  <2>1. Standing(path, rest, r, p)
    BY <1>1, AtStart
  <2> QED
    BY <1>2, <2>1 DEF Standing
<1>4. r.path = path /\ Got(path, rest, StartsBefore(path, rest, p), r)
  BY <1>1 DEF ReadTo
<1>5. rest[p].option /\ n \notin Flags(path) /\ n \notin Valued(path)
  BY <1>3, <1>4
<1>6. n \in STRING /\ v \in STRING
  <2>1. r.left[2] \in Argument
    BY ParsedFields, TailTwice
  <2>2. Head(r.left) \in Argument
    BY <1>2, TailArguments
  <2> QED
    BY <1>3, <2>1, <2>2 DEF Argument
<1>7. Got(path, rest, StartsBefore(path, rest, p) \cup {p}, s)
  BY <1>3, <1>4, <1>5, GotOther
<1>8. /\ s \in Parsed /\ s.kind = r.kind /\ s.path = r.path
      /\ s.left = Tail(Tail(r.left))
  <2> HIDE DEF n, v
  <2> QED
    BY <1>6, AddOtherFields
<1> HIDE DEF s
<1>9. \E q \in 1..(Len(rest) + 1) : ReadTo(path, rest, s, q)
  BY <1>1, <1>3, <1>5, <1>7, <1>8, ReadMore
<1>10. Reading(path, rest, s)
  BY <1>9 DEF Reading
<1> QED
  BY <1>3, <1>8, <1>10 DEF s

LEMMA ReadKeeps ==
  ASSUME LineInv, AtOption, UNCHANGED args, NEW s, parsed' = s, s \in Parsed,
         s.kind = parsed.kind, Reading(Path(args), Rest(args), s)
  PROVE  LineInv'
BY DEF LineInv, AtCommand, AtOption, ParserDone

LEMMA OptionKeeps ==
  ASSUME LineInv, TakeFlag \/ TakeString \/ TakeOther, UNCHANGED args
  PROVE  LineInv'
<1> DEFINE r == parsed
<1>1. /\ args \in Seq(Argument) /\ r \in Parsed /\ AtOption
      /\ Reading(Path(args), Rest(args), r)
  BY DEF LineInv, TakeFlag, TakeString, TakeOther
<1>2. Rest(args) \in Seq(Argument)
  BY <1>1, RestIs
<1>3. CASE TakeFlag
  <2>1. /\ r.left # <<>> /\ Head(r.left).option
        /\ Head(r.left).word \in Flags(r.path)
        /\ parsed' = SetFlag(r, Head(r.left).word)
    BY <1>3 DEF TakeFlag, FlagIsNext, OptionIsNext, NextArgument
  <2> DEFINE s == SetFlag(r, Head(r.left).word)
  <2>2. Reading(Path(args), Rest(args), s) /\ s \in Parsed /\ s.kind = r.kind
    BY <1>1, <1>2, <2>1, FlagRead
  <2> HIDE DEF s
  <2> QED
    BY <1>1, <2>1, <2>2, ReadKeeps DEF s
<1>4. CASE TakeString
  <2>1. /\ Len(r.left) > 1 /\ Head(r.left).option
        /\ Head(r.left).word \notin Flags(r.path)
        /\ Head(r.left).word \in Valued(r.path)
        /\ parsed' = SetString(r, Head(r.left).word, r.left[2].word)
    BY <1>4 DEF TakeString, PairIsNext, FlagIsNext, OptionIsNext, NextArgument
  <2> DEFINE s == SetString(r, Head(r.left).word, r.left[2].word)
  <2>2. Reading(Path(args), Rest(args), s) /\ s \in Parsed /\ s.kind = r.kind
    BY <1>1, <1>2, <2>1, StringRead
  <2> HIDE DEF s
  <2> QED
    BY <1>1, <2>1, <2>2, ReadKeeps DEF s
<1>5. CASE TakeOther
  <2>1. /\ Len(r.left) > 1 /\ Head(r.left).option
        /\ Head(r.left).word \notin Flags(r.path)
        /\ Head(r.left).word \notin Valued(r.path)
        /\ parsed' = AddOther(r, Head(r.left).word, r.left[2].word)
    BY <1>5 DEF TakeOther, PairIsNext, FlagIsNext, OptionIsNext, NextArgument
  <2> DEFINE s == AddOther(r, Head(r.left).word, r.left[2].word)
  <2>2. Reading(Path(args), Rest(args), s) /\ s \in Parsed /\ s.kind = r.kind
    BY <1>1, <1>2, <2>1, OtherRead
  <2> HIDE DEF s
  <2> QED
    BY <1>1, <2>1, <2>2, ReadKeeps DEF s
<1> QED
  BY <1>3, <1>4, <1>5

LEMMA RefuseOptionKeeps ==
  ASSUME LineInv, RefuseOption, UNCHANGED args
  PROVE  LineInv'
<1> DEFINE path == Path(args)
           rest == Rest(args)
           S == Starts(path, rest)
<1>1. /\ args \in Seq(Argument) /\ parsed \in Parsed
      /\ Reading(path, rest, parsed) /\ parsed.left # <<>> /\ parsed' = Refused
      /\ \/ ~Head(parsed.left).option
         \/ Head(parsed.left).word \notin Flags(parsed.path) /\ ~(Len(parsed.left) > 1)
  BY DEF LineInv, RefuseOption, PairIsNext, FlagIsNext, OptionIsNext, NextArgument
<1>2. rest \in Seq(Argument)
  BY <1>1, RestIs
<1>3. PICK p \in 1..(Len(rest) + 1) : ReadTo(path, rest, parsed, p)
  BY <1>1 DEF Reading
<1>4. parsed.path = path
  BY <1>3 DEF ReadTo
<1>5. /\ p \in S /\ Head(parsed.left) = rest[p] /\ rest # <<>>
      /\ ~(Len(parsed.left) > 1) => p = Len(rest)
      /\ Len(rest) \in Nat
  <2> HIDE DEF path, rest
  <2>1. Standing(path, rest, parsed, p)
    BY <1>1, <1>2, <1>3, AtStart
  <2> QED
    BY <1>1, <2>1 DEF Standing
<1>6. rest # <<>> => rest[1] # Help
  BY <1>1 DEF Reading
<1>7. \/ ~rest[p].option
      \/ rest[p].word \notin Flags(path) /\ ~(p < Len(rest))
  <2>1. p = Len(rest) => ~(p < Len(rest))
    BY <1>5
  <2> HIDE DEF path, rest
  <2> QED
    BY <1>1, <1>4, <1>5, <2>1
<1> HIDE DEF path, rest, S
<1> QED
  BY <1>1, <1>5, <1>6, <1>7, RefusalKeeps DEF path, rest, S

LEMMA EndKeeps ==
  ASSUME LineInv, EndOptions, UNCHANGED args
  PROVE  LineInv'
<1> DEFINE path == Path(args)
           rest == Rest(args)
           S == Starts(path, rest)
           r == parsed
           s == [r EXCEPT !.kind = "parsed"]
<1>1. /\ args \in Seq(Argument) /\ r \in Parsed
      /\ Reading(path, rest, r) /\ r.left = <<>> /\ parsed' = s
  BY DEF LineInv, EndOptions
<1>2. rest \in Seq(Argument)
  BY <1>1, RestIs
<1>3. PICK p \in 1..(Len(rest) + 1) : ReadTo(path, rest, r, p)
  BY <1>1 DEF Reading
<1>4. /\ s.path = r.path /\ s.left = r.left /\ s.strings = r.strings
      /\ s.flags = r.flags /\ s.others = r.others /\ s.kind = "parsed"
      /\ s \in Parsed
  BY <1>1, KindFields DEF Kinds
<1>5. p = Len(rest) + 1 /\ Len(rest) \in Nat
  <2> HIDE DEF path, rest, r
  <2>1. Standing(path, rest, r, p)
    BY <1>1, <1>2, <1>3, AtStart
  <2> QED
    BY <1>1, <2>1 DEF Standing
<1>6. StartsBefore(path, rest, p) = S
  <2>1. S \in SUBSET (1..Len(rest))
    BY <1>2, StartsOf
  <2> HIDE DEF S
  <2> QED
    BY <1>5, <2>1 DEF S, StartsBefore
<1>7. /\ r.path = path
      /\ \A i \in S : rest[i].option /\ (rest[i].word \in Flags(path) \/ i < Len(rest))
      /\ Got(path, rest, S, r)
  <2>1. /\ r.path = path
        /\ \A i \in StartsBefore(path, rest, p) :
             rest[i].option /\ (rest[i].word \in Flags(path) \/ i + 1 < p)
        /\ Got(path, rest, StartsBefore(path, rest, p), r)
    BY <1>3 DEF ReadTo
  <2>2. \A i \in S : i + 1 < p => i < Len(rest)
    <3>1. S \in SUBSET (1..Len(rest))
      BY <1>2, StartsOf
    <3> HIDE DEF S
    <3> QED
      BY <1>5, <3>1
  <2> HIDE DEF path, rest, r, S
  <2> QED
    BY <1>6, <2>1, <2>2
<1> HIDE DEF s
<1>8. Got(path, rest, S, s)
  BY <1>4, <1>7 DEF Got
<1>9. /\ rest # <<>> => rest[1] # Help
      /\ rest = <<>> => Commands(path) = {}
  BY <1>1 DEF Reading
<1>10. MeansWhatItSays(args, s)
  BY <1>4, <1>7, <1>8, <1>9, MeansParsed
<1> QED
  BY <1>1, <1>4, <1>10 DEF LineInv, AtCommand, AtOption, ParserDone

(***************************************************************************)
(* The parser keeps its invariant, and nobody else touches it.             *)
(***************************************************************************)
SearchInv == LineInv /\ (stage # "parse" => ParserDone)

LEMMA ParserKeeps ==
  ASSUME LineInv, ParserNext, UNCHANGED args
  PROVE  LineInv'
<1>1. CASE GiveHelp
  BY <1>1, HelpKeeps
<1>2. CASE EnterCommand
  BY <1>2, CommandKeeps
<1>3. CASE EnterOptions
  BY <1>3, OptionsKeep
<1>4. CASE RefuseCommand
  BY <1>4, RefuseCommandKeeps
<1>5. CASE TakeFlag \/ TakeString \/ TakeOther
  BY <1>5, OptionKeeps
<1>6. CASE RefuseOption
  BY <1>6, RefuseOptionKeeps
<1>7. CASE EndOptions
  BY <1>7, EndKeeps
<1> QED
  BY <1>1, <1>2, <1>3, <1>4, <1>5, <1>6, <1>7 DEF ParserNext

LEMMA LineKept ==
  ASSUME LineInv, UNCHANGED <<args, parsed>>
  PROVE  LineInv' /\ (ParserDone => ParserDone')
BY DEF LineInv, AtCommand, AtOption, ParserDone

LEMMA LeftFields ==
  ASSUME NEW o \in Parsed, NEW left \in Seq(Argument)
  PROVE  LET s == [o EXCEPT !.left = left] IN
         /\ s \in Parsed /\ s.kind = o.kind /\ s.path = o.path
         /\ s.strings = o.strings /\ s.flags = o.flags /\ s.others = o.others
         /\ s.left = left
BY DEF Parsed

LEMMA InitLineInv ==
  ASSUME ParserInit
  PROVE  LineInv
<1> DEFINE o == Outcome("commands", <<>>)
           s == [o EXCEPT !.left = args]
<1>1. args \in Seq(Argument) /\ parsed = s
  BY CommandLineAssumption DEF ParserInit
<1>2. "commands" \in Kinds /\ <<>> \in Seq(STRING)
  BY DEF Kinds
<1>3. /\ o \in Parsed /\ o.kind = "commands" /\ o.path = <<>>
      /\ o.strings = <<>> /\ o.flags = {} /\ o.others = <<>>
  <2> HIDE DEF s
  <2> QED
    BY <1>2, OutcomeTyped, ZenonT(40)
<1> HIDE DEF o
<1>4. /\ s \in Parsed /\ s.kind = "commands" /\ s.path = <<>>
      /\ s.strings = <<>> /\ s.flags = {} /\ s.others = <<>> /\ s.left = args
  BY <1>1, <1>3, LeftFields
<1> HIDE DEF s
<1>5. Leads(args, 0) /\ Words(args, 0) = <<>>
  BY DEF Leads, Words
<1>6. SubSeq(args, 0 + 1, Len(args)) = args /\ Len(args) \in Nat
  BY <1>1
<1>7. Leading(args, s)
  <2>1. Len(s.path) = 0
    BY <1>4
  <2> QED
    BY <1>4, <1>5, <1>6, <2>1 DEF Leading
<1> QED
  BY <1>1, <1>4, <1>7 DEF LineInv, AtCommand, AtOption, ParserDone

LEMMA InitSearchInv == SearchInit => SearchInv
BY InitLineInv DEF SearchInit, SearchInv

LEMMA SearchStepKeeps ==
  ASSUME SearchInv, [SearchNext]_searchVars
  PROVE  SearchInv'
<1>1. CASE Parse
  <2>1. LineInv'
    BY <1>1, ParserKeeps DEF Parse, SearchInv
  <2> QED
    BY <1>1, <2>1 DEF Parse, SearchInv
<1>2. CASE ~Parse
  <2>1. UNCHANGED <<args, parsed>> /\ (stage = "parse" => stage' = "parse" \/ ParserDone)
    BY <1>2 DEF SearchNext, searchVars, ParseArgs, FilesList, CorpusCreate,
         WebDownload, Read, Elsewhere, AddRequest, AddRequestParameter, PassOver,
         ScanDone, Build, BuildNothing, NextPage, StoreFile, StoreTags, Scanning
  <2> QED
    BY <2>1, LineKept DEF SearchInv
<1> QED
  BY <1>1, <1>2

\* After any number of calls of parse and turns of parse_terminal's loop, what
\* has been read of the arguments and what is left make up the line: what is
\* read means what it says of the part before what is left.
THEOREM SearchInductive == SearchSpec => []SearchInv
<1> QED
  BY InitSearchInv, SearchStepKeeps, PTL DEF SearchSpec

(***************************************************************************)
(* Any argument list without -h is read as the header says: each argument  *)
(* is a command, an option, or the value of the option before it, the last *)
(* value of an option counts, and what is none of these is refused; with   *)
(* -h right after its commands it gets the help of their level.            *)
(***************************************************************************)
THEOREM LinesMeanWhatTheySay == SearchSpec => []ParsesEveryArgument
<1>1. SearchInv => ParsesEveryArgument
  BY DEF SearchInv, LineInv, ParsesEveryArgument
<1> QED
  BY <1>1, SearchInductive, PTL

(***************************************************************************)
(* The requests.  O are the unspecified inputs, c of them done: there is a *)
(* request for every source so far, in their order, and it has the         *)
(* parameters typed after that source so far.                              *)
(***************************************************************************)
SourcesIn(O) == {i \in DOMAIN O : O[i][1] = "source"}
GroupIn(O, k) ==
  {j \in DOMAIN O : k < j /\ O[j][1] # "op" /\ SourcesIn(O) \cap (k + 1)..j = {}}
OperatorIn(O, j) ==
  IF j < Len(O) /\ O[j + 1][1] = "op" THEN O[j + 1][2] ELSE "="
GroupTo(O, k, c) == {j \in GroupIn(O, k) : j <= c}
LastIn(O, G, j) == \A l \in G : O[l][1] = O[j][1] => l <= j

ParamSets ==
  UNION {[D -> STRING \X (STRING \cup {"="})] : D \in SUBSET STRING}
Request == [api : Api, params : ParamSets]

Describes(O, r, G, k) ==
  /\ r.api = O[k][2]
  /\ DOMAIN r.params = {O[j][1] : j \in G}
  /\ \A j \in G : LastIn(O, G, j) =>
       r.params[O[j][1]] = <<O[j][2], OperatorIn(O, j)>>

Places(O, reqs, at, c) ==
  /\ at \in [1..Len(reqs) -> SourcesIn(O) \cap 1..c]
  /\ \A k \in SourcesIn(O) \cap 1..c : \E q \in 1..Len(reqs) : at[q] = k
  /\ \A p, q \in 1..Len(reqs) : p < q => at[p] < at[q]
  /\ \A q \in 1..Len(reqs) : Describes(O, reqs[q], GroupTo(O, at[q], c), at[q])

Gathered(O, reqs, c) ==
  reqs \in Seq(Request) /\ \E at : Places(O, reqs, at, c)

Inputs == Seq(STRING \X STRING)

LEMMA GroupSame ==
  ASSUME NEW O \in Inputs, NEW c \in Nat, c < Len(O), NEW k \in 1..c,
         \/ O[c + 1][1] \in {"source", "op"}
         \/ \E l \in SourcesIn(O) : k < l /\ l <= c
  PROVE  GroupTo(O, k, c + 1) = GroupTo(O, k, c)
<1>1. Len(O) \in Nat /\ DOMAIN O = 1..Len(O) /\ c + 1 \in 1..Len(O)
  BY DEF Inputs
<1>2. c + 1 \notin GroupIn(O, k)
  <2>1. CASE O[c + 1][1] = "source"
    <3>1. c + 1 \in SourcesIn(O) \cap (k + 1)..(c + 1)
      BY <1>1, <2>1 DEF SourcesIn
    <3> QED
      BY <3>1 DEF GroupIn
  <2>2. CASE O[c + 1][1] = "op"
    BY <2>2 DEF GroupIn
  <2>3. ASSUME NEW l \in SourcesIn(O), k < l, l <= c
        PROVE  c + 1 \notin GroupIn(O, k)
    <3>1. l \in 1..Len(O)
      BY <1>1 DEF SourcesIn
    <3>2. l \in (k + 1)..(c + 1)
      BY <2>3, <3>1
    <3> QED
      BY <3>2 DEF GroupIn
  <2> QED
    BY <2>1, <2>2, <2>3
<1>3. \A j \in GroupIn(O, k) : j \in Nat
  BY <1>1 DEF GroupIn
<1>4. \A j \in GroupIn(O, k) : j <= c + 1 <=> j <= c
  BY <1>2, <1>3
<1> QED
  BY <1>4 DEF GroupTo

LEMMA GroupGrows ==
  ASSUME NEW O \in Inputs, NEW c \in Nat, c < Len(O), NEW k \in 1..c,
         O[c + 1][1] \notin {"source", "op"},
         \A l \in SourcesIn(O) : l <= c => l <= k
  PROVE  GroupTo(O, k, c + 1) = GroupTo(O, k, c) \cup {c + 1}
<1>1. Len(O) \in Nat /\ DOMAIN O = 1..Len(O) /\ c + 1 \in 1..Len(O)
  BY DEF Inputs
<1>2. c + 1 \in GroupIn(O, k)
  <2>1. \A l \in SourcesIn(O) : l \in Nat /\ l # c + 1
    BY <1>1 DEF SourcesIn
  <2>2. SourcesIn(O) \cap (k + 1)..(c + 1) = {}
    BY <2>1
  <2> QED
    BY <1>1, <2>2 DEF GroupIn
<1>3. \A j \in GroupIn(O, k) : j \in Nat
  BY <1>1 DEF GroupIn
<1>4. \A j \in GroupIn(O, k) : j <= c + 1 <=> j <= c \/ j = c + 1
  BY <1>3
<1> QED
  BY <1>2, <1>4 DEF GroupTo

LEMMA GroupBegins ==
  ASSUME NEW O \in Inputs, NEW c \in Nat PROVE GroupTo(O, c, c) = {}
<1>1. \A j \in GroupIn(O, c) : j \in Nat /\ c < j
  BY DEF GroupIn, Inputs
<1> QED
  BY <1>1 DEF GroupTo

LEMMA SourcesMore ==
  ASSUME NEW O \in Inputs, NEW c \in Nat, c < Len(O)
  PROVE  /\ O[c + 1][1] = "source" =>
              SourcesIn(O) \cap 1..(c + 1) = (SourcesIn(O) \cap 1..c) \cup {c + 1}
         /\ O[c + 1][1] # "source" =>
              SourcesIn(O) \cap 1..(c + 1) = SourcesIn(O) \cap 1..c
<1>1. Len(O) \in Nat /\ DOMAIN O = 1..Len(O) /\ c + 1 \in 1..Len(O)
  BY DEF Inputs
<1>2. c + 1 \in SourcesIn(O) <=> O[c + 1][1] = "source"
  BY <1>1 DEF SourcesIn
<1>3. 1..(c + 1) = 1..c \cup {c + 1}
  OBVIOUS
<1> QED
  BY <1>2, <1>3

\* The inputs that add nothing.
LEMMA GatherNothing ==
  ASSUME NEW O \in Inputs, NEW c \in Nat, c < Len(O), NEW reqs,
         Gathered(O, reqs, c), O[c + 1][1] # "source",
         O[c + 1][1] = "op" \/ Len(reqs) = 0
  PROVE  Gathered(O, reqs, c + 1)
<1>1. reqs \in Seq(Request) /\ \E at : Places(O, reqs, at, c)
  BY DEF Gathered
<1>2. PICK at : Places(O, reqs, at, c)
  BY <1>1
<1>3. SourcesIn(O) \cap 1..(c + 1) = SourcesIn(O) \cap 1..c
  BY SourcesMore
<1>4. ASSUME NEW q \in 1..Len(reqs)
      PROVE  GroupTo(O, at[q], c + 1) = GroupTo(O, at[q], c)
  <2>1. at[q] \in 1..c
    BY <1>2 DEF Places
  <2>2. O[c + 1][1] \in {"source", "op"}
    BY <1>1, <1>4
  <2> QED
    BY <2>1, <2>2, GroupSame
<1>5. Places(O, reqs, at, c + 1)
  BY <1>2, <1>3, <1>4 DEF Places
<1> QED
  BY <1>1, <1>5 DEF Gathered

LEMMA RequestFields ==
  ASSUME NEW r \in Request
  PROVE  /\ r.api \in Api /\ r.params \in ParamSets
         /\ DOMAIN r.params \in SUBSET STRING
         /\ \A n \in DOMAIN r.params : r.params[n] \in STRING \X (STRING \cup {"="})
<1>1. r.api \in Api /\ r.params \in ParamSets
  BY DEF Request
<1>2. PICK D \in SUBSET STRING : r.params \in [D -> STRING \X (STRING \cup {"="})]
  BY <1>1 DEF ParamSets
<1> QED
  BY <1>1, <1>2

LEMMA NewRequest ==
  ASSUME NEW api \in Api
  PROVE  LET r == [api |-> api, params |-> <<>>] IN
         r \in Request /\ r.api = api /\ r.params = <<>> /\ DOMAIN r.params = {}
<1>1. <<>> \in [{} -> STRING \X (STRING \cup {"="})]
  OBVIOUS
<1>2. <<>> \in ParamSets
  BY <1>1 DEF ParamSets
<1>3. DOMAIN <<>> = {}
  OBVIOUS
<1> QED
  BY <1>2, <1>3 DEF Request

LEMMA AppendedItems ==
  ASSUME NEW T, NEW s \in Seq(T), NEW x \in T
  PROVE  LET t == Append(s, x) IN
         /\ t \in Seq(T) /\ Len(t) = Len(s) + 1 /\ Len(s) \in Nat
         /\ \A q \in 1..Len(s) : t[q] = s[q]
         /\ t[Len(s) + 1] = x
OBVIOUS

\* A source opens a request.
LEMMA GatherSource ==
  ASSUME NEW O \in Inputs, NEW c \in Nat, c < Len(O), NEW reqs,
         Gathered(O, reqs, c), O[c + 1][1] = "source", O[c + 1][2] \in Api
  PROVE  Gathered(O, Append(reqs, [api |-> O[c + 1][2], params |-> <<>>]), c + 1)
<1> DEFINE k == c + 1
           new == [api |-> O[k][2], params |-> <<>>]
           more == Append(reqs, new)
<1>1. reqs \in Seq(Request) /\ \E at : Places(O, reqs, at, c)
  BY DEF Gathered
<1>2. PICK at : Places(O, reqs, at, c)
  BY <1>1
<1>3. /\ at \in [1..Len(reqs) -> SourcesIn(O) \cap 1..c]
      /\ \A m \in SourcesIn(O) \cap 1..c : \E q \in 1..Len(reqs) : at[q] = m
      /\ \A p, q \in 1..Len(reqs) : p < q => at[p] < at[q]
      /\ \A q \in 1..Len(reqs) : Describes(O, reqs[q], GroupTo(O, at[q], c), at[q])
  BY <1>2 DEF Places
<1>4. SourcesIn(O) \cap 1..k = (SourcesIn(O) \cap 1..c) \cup {k}
  BY SourcesMore
<1>5. /\ new \in Request /\ new.api = O[k][2] /\ DOMAIN new.params = {}
  BY NewRequest
<1>6. k \in Nat /\ k = c + 1
  OBVIOUS
<1> HIDE DEF new, k
<1>7. /\ more \in Seq(Request) /\ Len(more) = Len(reqs) + 1 /\ Len(reqs) \in Nat
      /\ \A q \in 1..Len(reqs) : more[q] = reqs[q]
      /\ more[Len(reqs) + 1] = new
  BY <1>1, <1>5, AppendedItems
<1> DEFINE to == [q \in 1..(Len(reqs) + 1) |-> IF q = Len(reqs) + 1 THEN k ELSE at[q]]
<1>8. /\ \A q \in 1..Len(reqs) : to[q] = at[q] /\ at[q] \in SourcesIn(O) \cap 1..c
      /\ to[Len(reqs) + 1] = k
  <2>1. \A q \in 1..Len(reqs) : q \in 1..(Len(reqs) + 1) /\ q # Len(reqs) + 1
    BY <1>7
  <2>2. Len(reqs) + 1 \in 1..(Len(reqs) + 1)
    BY <1>7
  <2> QED
    BY <1>3, <2>1, <2>2
<1>9. \A q \in 1..(Len(reqs) + 1) : q \in 1..Len(reqs) \/ q = Len(reqs) + 1
  BY <1>7
<1>10. to \in [1..Len(more) -> SourcesIn(O) \cap 1..k]
  BY <1>3, <1>4, <1>7, <1>8, <1>9
<1> HIDE DEF to, more
<1>11. \A m \in SourcesIn(O) \cap 1..k : \E q \in 1..Len(more) : to[q] = m
  <2> SUFFICES ASSUME NEW m \in SourcesIn(O) \cap 1..k
               PROVE  \E q \in 1..Len(more) : to[q] = m
    OBVIOUS
  <2>1. CASE m = k
    BY <1>7, <1>8, <2>1
  <2>2. CASE m # k
    <3>1. PICK q \in 1..Len(reqs) : at[q] = m
      BY <1>3, <1>4, <2>2
    <3>2. q \in 1..Len(more)
      BY <1>7
    <3> QED
      BY <1>8, <3>1, <3>2
  <2> QED
    BY <2>1, <2>2
<1>12. \A p, q \in 1..Len(more) : p < q => to[p] < to[q]
  <2> SUFFICES ASSUME NEW p \in 1..Len(more), NEW q \in 1..Len(more), p < q
               PROVE  to[p] < to[q]
    OBVIOUS
  <2>1. p \in 1..Len(reqs)
    BY <1>7
  <2>2. CASE q \in 1..Len(reqs)
    BY <1>3, <1>8, <2>1, <2>2
  <2>3. CASE q = Len(reqs) + 1
    <3>1. to[p] \in 1..c /\ to[q] = k
      BY <1>8, <2>1, <2>3
    <3> QED
      BY <1>6, <3>1
  <2> QED
    BY <1>7, <1>9, <2>2, <2>3
<1>13. ASSUME NEW q \in 1..Len(more)
       PROVE  Describes(O, more[q], GroupTo(O, to[q], k), to[q])
  <2>1. CASE q \in 1..Len(reqs)
    <3>1. GroupTo(O, at[q], k) = GroupTo(O, at[q], c)
      BY <1>6, <1>8, <2>1, GroupSame DEF k
    <3> QED
      BY <1>3, <1>7, <1>8, <2>1, <3>1
  <2>2. CASE q = Len(reqs) + 1
    <3>1. GroupTo(O, k, k) = {}
      BY <1>6, GroupBegins
    <3>2. more[q] = new /\ to[q] = k
      BY <1>7, <1>8, <2>2
    <3>3. Describes(O, new, {}, k)
      BY <1>5 DEF Describes
    <3> QED
      BY <3>1, <3>2, <3>3
  <2> QED
    BY <1>7, <1>9, <2>1, <2>2
<1>14. Places(O, more, to, k)
  BY <1>10, <1>11, <1>12, <1>13 DEF Places
<1> QED
  BY <1>7, <1>14 DEF Gathered, more, new, k

\* A parameter, of the last request.
WithParam(r, n, value) ==
  [r EXCEPT !.params =
     [m \in DOMAIN r.params \cup {n} |-> IF m = n THEN value ELSE r.params[m]]]

LEMMA WithParamFields ==
  ASSUME NEW r \in Request, NEW n \in STRING,
         NEW value \in STRING \X (STRING \cup {"="})
  PROVE  LET s == WithParam(r, n, value) IN
         /\ s \in Request /\ s.api = r.api
         /\ DOMAIN s.params = DOMAIN r.params \cup {n}
         /\ s.params[n] = value
         /\ \A m \in DOMAIN r.params : m # n => s.params[m] = r.params[m]
<1> DEFINE D == DOMAIN r.params \cup {n}
           params == [m \in D |-> IF m = n THEN value ELSE r.params[m]]
           s == WithParam(r, n, value)
<1>1. /\ r.api \in Api /\ D \in SUBSET STRING
      /\ \A m \in DOMAIN r.params : r.params[m] \in STRING \X (STRING \cup {"="})
  BY RequestFields
<1>2. params \in [D -> STRING \X (STRING \cup {"="})]
  BY <1>1
<1>3. params \in ParamSets
  <2> HIDE DEF params, D
  <2> QED
    BY <1>1, <1>2 DEF ParamSets
<1>4. s = [r EXCEPT !.params = params]
  BY DEF WithParam
<1>5. /\ DOMAIN params = D
      /\ \A m \in D : params[m] = IF m = n THEN value ELSE r.params[m]
  OBVIOUS
<1> HIDE DEF params, s
<1>6. s \in Request /\ s.api = r.api /\ s.params = params
  BY <1>3, <1>4 DEF Request
<1> QED
  BY <1>5, <1>6 DEF s

LEMMA OperatorTyped ==
  ASSUME NEW O \in Inputs, NEW j \in DOMAIN O
  PROVE  /\ O[j][1] \in STRING
         /\ <<O[j][2], OperatorIn(O, j)>> \in STRING \X (STRING \cup {"="})
<1>1. \A i \in DOMAIN O : O[i] \in STRING \X STRING
  BY DEF Inputs
<1>2. \A i \in DOMAIN O : O[i][1] \in STRING /\ O[i][2] \in STRING
  BY <1>1
<1>3. j < Len(O) => j + 1 \in DOMAIN O
  BY DEF Inputs
<1>4. OperatorIn(O, j) \in STRING \cup {"="}
  BY <1>2, <1>3 DEF OperatorIn
<1> QED
  BY <1>2, <1>4

LEMMA DescribesMore ==
  ASSUME NEW O \in Inputs, NEW c \in Nat, NEW G \in SUBSET (1..c), NEW k,
         NEW r \in Request, Describes(O, r, G, k), c + 1 \in DOMAIN O
  PROVE  Describes(O, WithParam(r, O[c + 1][1], <<O[c + 1][2], OperatorIn(O, c + 1)>>),
                   G \cup {c + 1}, k)
<1> DEFINE j == c + 1
           n == O[j][1]
           value == <<O[j][2], OperatorIn(O, j)>>
           s == WithParam(r, n, value)
           H == G \cup {j}
<1>1. n \in STRING /\ value \in STRING \X (STRING \cup {"="})
  BY OperatorTyped
<1>2. /\ s.api = r.api /\ DOMAIN s.params = DOMAIN r.params \cup {n}
      /\ s.params[n] = value
      /\ \A m \in DOMAIN r.params : m # n => s.params[m] = r.params[m]
  <2> HIDE DEF n, value
  <2> QED
    BY <1>1, WithParamFields
<1> HIDE DEF s
<1>3. DOMAIN s.params = {O[i][1] : i \in H}
  BY <1>2 DEF Describes
<1>4. ASSUME NEW i \in H, LastIn(O, H, i)
      PROVE  s.params[O[i][1]] = <<O[i][2], OperatorIn(O, i)>>
  <2>1. CASE i = j
    BY <1>2, <2>1
  <2>2. CASE i # j
    <3>1. i \in G /\ i <= c /\ i \in Nat
      BY <2>2
    <3>2. LastIn(O, G, i)
      BY <1>4 DEF LastIn
    <3>3. O[i][1] # n
      <4>1. ~(j <= i)
        BY <3>1
      <4> QED
        BY <1>4, <4>1 DEF LastIn
    <3>4. r.params[O[i][1]] = <<O[i][2], OperatorIn(O, i)>> /\ O[i][1] \in DOMAIN r.params
      BY <3>1, <3>2 DEF Describes
    <3> QED
      BY <1>2, <3>3, <3>4
  <2> QED
    BY <2>1, <2>2
<1>5. s.api = O[k][2]
  BY <1>2 DEF Describes
<1> HIDE DEF n, value, H
<1> QED
  BY <1>3, <1>4, <1>5 DEF Describes, H, s, n, value

Parametrised(O, reqs, src, c) ==
  [reqs EXCEPT ![src] =
     WithParam(reqs[src], O[c + 1][1], <<O[c + 1][2], OperatorIn(O, c + 1)>>)]

LEMMA GatherParameter ==
  ASSUME NEW O \in Inputs, NEW c \in Nat, c < Len(O), NEW reqs,
         Gathered(O, reqs, c), O[c + 1][1] \notin {"source", "op"},
         NEW src \in Nat, src = Len(reqs), src # 0
  PROVE  LET more == Parametrised(O, reqs, src, c) IN
         Gathered(O, more, c + 1) /\ Len(more) = Len(reqs)
<1> DEFINE more == Parametrised(O, reqs, src, c)
           s == WithParam(reqs[src], O[c + 1][1], <<O[c + 1][2], OperatorIn(O, c + 1)>>)
<1>1. reqs \in Seq(Request) /\ \E at : Places(O, reqs, at, c)
  BY DEF Gathered
<1>2. PICK at : Places(O, reqs, at, c)
  BY <1>1
<1>3. /\ at \in [1..Len(reqs) -> SourcesIn(O) \cap 1..c]
      /\ \A m \in SourcesIn(O) \cap 1..c : \E q \in 1..Len(reqs) : at[q] = m
      /\ \A p, q \in 1..Len(reqs) : p < q => at[p] < at[q]
      /\ \A q \in 1..Len(reqs) : Describes(O, reqs[q], GroupTo(O, at[q], c), at[q])
  BY <1>2 DEF Places
<1>4. SourcesIn(O) \cap 1..(c + 1) = SourcesIn(O) \cap 1..c
  BY SourcesMore
<1>5. src \in 1..Len(reqs) /\ reqs[src] \in Request /\ c + 1 \in DOMAIN O
  BY <1>1 DEF Inputs
<1>6. s \in Request
  <2>1. /\ O[c + 1][1] \in STRING
        /\ <<O[c + 1][2], OperatorIn(O, c + 1)>> \in STRING \X (STRING \cup {"="})
    BY <1>5, OperatorTyped
  <2> QED
    BY <1>5, <2>1, WithParamFields
<1>7. \A q \in 1..Len(reqs) : GroupTo(O, at[q], c) \in SUBSET (1..c) /\ at[q] \in 1..c
  <2>1. \A k : \A j \in GroupTo(O, k, c) : j \in 1..c
    BY DEF GroupTo, GroupIn, Inputs
  <2> QED
    BY <1>3, <2>1
<1>8. Describes(O, s, GroupTo(O, at[src], c + 1), at[src])
  <2>1. \A l \in SourcesIn(O) : l <= c => l <= at[src]
    <3> SUFFICES ASSUME NEW l \in SourcesIn(O), l <= c PROVE l <= at[src]
      OBVIOUS
    <3>1. l \in SourcesIn(O) \cap 1..c
      BY DEF SourcesIn, Inputs
    <3>2. PICK q \in 1..Len(reqs) : at[q] = l
      BY <1>3, <3>1
    <3>3. q = src \/ q < src
      OBVIOUS
    <3>4. CASE q < src
      <4>1. at[q] < at[src] /\ at[q] \in 1..c /\ at[src] \in 1..c
        BY <1>3, <1>5, <3>4
      <4> QED
        BY <3>2, <4>1
    <3>5. CASE q = src
      <4>1. at[src] \in 1..c
        BY <1>3, <1>5
      <4> QED
        BY <3>2, <3>5, <4>1
    <3> QED
      BY <3>3, <3>4, <3>5
  <2>2. GroupTo(O, at[src], c + 1) = GroupTo(O, at[src], c) \cup {c + 1}
    BY <1>5, <1>7, <2>1, GroupGrows
  <2>3. Describes(O, reqs[src], GroupTo(O, at[src], c), at[src])
    BY <1>3, <1>5
  <2>4. Describes(O, s, GroupTo(O, at[src], c) \cup {c + 1}, at[src])
    BY <1>5, <1>7, <2>3, DescribesMore
  <2> QED
    BY <2>2, <2>4
<1>9. ASSUME NEW q \in 1..Len(reqs), q # src
      PROVE  GroupTo(O, at[q], c + 1) = GroupTo(O, at[q], c)
  <2>1. q < src
    BY <1>9
  <2>2. at[q] < at[src] /\ at[src] <= c /\ at[src] \in SourcesIn(O)
    BY <1>3, <1>5, <1>7, <2>1
  <2> QED
    BY <1>7, <2>2, GroupSame
<1> HIDE DEF s
<1>10. more = [reqs EXCEPT ![src] = s]
  BY DEF s, Parametrised
<1> HIDE DEF more
<1>11. /\ more \in Seq(Request) /\ Len(more) = Len(reqs) /\ more[src] = s
       /\ \A q \in 1..Len(reqs) : q # src => more[q] = reqs[q]
  BY <1>1, <1>5, <1>6, <1>10
<1>12. ASSUME NEW q \in 1..Len(reqs)
       PROVE  Describes(O, more[q], GroupTo(O, at[q], c + 1), at[q])
  BY <1>3, <1>8, <1>9, <1>11
<1>13. Places(O, more, at, c + 1)
  BY <1>3, <1>4, <1>11, <1>12 DEF Places
<1> QED
  BY <1>11, <1>13 DEF Gathered, more

(***************************************************************************)
(* The invariant of the search.                                            *)
(***************************************************************************)
ScanInv ==
  /\ stock \in Stocks /\ rows \in 0..Len(stock)
  /\ stage \in {"parse", "read"} =>
       cursor = 0 /\ source = 0 /\ requests = <<>>
  /\ stage \in {"scan", "build", "shown"} =>
       /\ cursor \in 0..Len(parsed.others)
       /\ Gathered(parsed.others, requests, cursor) /\ source = Len(requests)
       /\ ~Web => asked.types = TypesRead
  /\ stage \in {"build", "shown"} => cursor = Len(parsed.others) /\ ~Web

LEMMA OthersTyped ==
  ASSUME LineInv
  PROVE  parsed.others \in Inputs /\ Len(parsed.others) \in Nat
BY ParsedFields DEF LineInv, Inputs

LEMMA InitScanInv ==
  ASSUME SearchInit
  PROVE  ScanInv
<1>1. stock \in Stocks /\ rows = 0 /\ stage = "parse"
      /\ cursor = 0 /\ source = 0 /\ requests = <<>>
  BY DEF SearchInit
<1>2. Len(stock) \in Nat
  BY <1>1, SearchAssumption
<1> QED
  BY <1>1, <1>2 DEF ScanInv

LEMMA NothingGathered ==
  ASSUME NEW O \in Inputs
  PROVE  Gathered(O, <<>>, 0)
<1>1. <<>> \in Seq(Request) /\ Len(<<>>) = 0
  OBVIOUS
<1>2. 1..0 = {}
  OBVIOUS
<1>3. <<>> \in [{} -> SourcesIn(O) \cap 1..0]
  OBVIOUS
<1>4. Places(O, <<>>, <<>>, 0)
  BY <1>1, <1>2, <1>3 DEF Places
<1> QED
  BY <1>1, <1>4 DEF Gathered

LEMMA ReadScans ==
  ASSUME LineInv, ScanInv, FilesList \/ CorpusCreate \/ WebDownload
  PROVE  ScanInv'
<1>1. /\ stage = "read" /\ UNCHANGED <<args, parsed, builder, table>>
      /\ stage' = "stopped" \/ stage' = "scan"
      /\ stage' = "scan" /\ ~Web => asked'.types = TypesRead
  <2>1. CASE FilesList
    BY <2>1 DEF FilesList, Read
  <2>2. CASE CorpusCreate
    BY <2>2 DEF CorpusCreate, Read
  <2>3. CASE WebDownload
    BY <2>3 DEF WebDownload, Read, Web
  <2> QED
    BY <2>1, <2>2, <2>3
<1>2. CASE stage' = "stopped"
  BY <1>1, <1>2 DEF ScanInv, table
<1>3. CASE stage' = "scan"
  <2>1. parsed.others \in Inputs /\ Len(parsed.others) \in Nat
    BY OthersTyped
  <2>2. /\ cursor' = 0 /\ source' = 0 /\ requests' = <<>> /\ parsed' = parsed
        /\ stock' = stock /\ rows' = rows
    BY <1>1 DEF ScanInv, builder, table
  <2>3. cursor' \in 0..Len(parsed.others) /\ Len(requests') = 0
    BY <2>1, <2>2
  <2>4. Gathered(parsed.others, requests', cursor')
    BY <2>1, <2>2, NothingGathered
  <2>5. Web' = Web /\ TypesRead' = TypesRead
    BY <2>2 DEF Web, TypesRead, Has
  <2> QED
    BY <1>1, <1>3, <2>2, <2>3, <2>4, <2>5 DEF ScanInv
<1> QED
  BY <1>1, <1>2, <1>3

LEMMA SourceScans ==
  ASSUME LineInv, ScanInv, AddRequest
  PROVE  ScanInv'
<1> DEFINE O == parsed.others
           new == [api |-> O[cursor + 1][2], params |-> <<>>]
           more == Append(requests, new)
<1>1. /\ stage = "scan" /\ cursor < Len(O) /\ cursor' = cursor + 1
      /\ O[cursor + 1][1] = "source"
      /\ UNCHANGED <<parsed, asked, table>>
      /\ \/ stage' = "stopped"
         \/ /\ O[cursor + 1][2] \in Api /\ requests' = more
            /\ source' = Len(more) /\ stage' = "scan"
  BY DEF AddRequest, Scanning, Input, StopScan
<1>2. O \in Inputs /\ Len(O) \in Nat
  BY OthersTyped
<1>3. /\ cursor \in Nat /\ Gathered(O, requests, cursor)
      /\ ~Web => asked.types = TypesRead
  BY <1>1, <1>2 DEF ScanInv
<1>4. O' = O /\ stock' = stock /\ rows' = rows /\ Web' = Web /\ TypesRead' = TypesRead
  BY <1>1 DEF table, Web, TypesRead, Has
<1>5. CASE stage' = "stopped"
  BY <1>4, <1>5 DEF ScanInv
<1>6. CASE stage' # "stopped"
  <2>1. Gathered(O, more, cursor + 1)
    <3> HIDE DEF O
    <3> QED
      BY <1>1, <1>2, <1>3, <1>6, GatherSource
  <2>2. cursor + 1 \in 0..Len(O)
    BY <1>1, <1>2, <1>3
  <2> HIDE DEF O, more
  <2>3. /\ stage' = "scan" /\ requests' = more /\ source' = Len(more)
        /\ cursor' = cursor + 1 /\ asked' = asked
        /\ stock \in Stocks /\ rows \in 0..Len(stock)
    BY <1>1, <1>6 DEF ScanInv
  <2> QED
    BY <1>3, <1>4, <2>1, <2>2, <2>3 DEF ScanInv, O
<1> QED
  BY <1>5, <1>6

LEMMA ParameterScans ==
  ASSUME LineInv, ScanInv, AddRequestParameter
  PROVE  ScanInv'
<1> DEFINE O == parsed.others
           more == Parametrised(O, requests, source, cursor)
<1>1. /\ stage = "scan" /\ cursor < Len(O) /\ cursor' = cursor + 1
      /\ O[cursor + 1][1] \notin {"source", "op"} /\ source # 0
      /\ UNCHANGED <<parsed, asked, table>>
  BY DEF AddRequestParameter, Scanning, Input
<1>2. \/ stage' = "stopped"
      \/ requests' = more /\ source' = source /\ stage' = "scan"
  <2>1. \/ stage' = "stopped"
        \/ /\ requests' = [requests EXCEPT ![source].params =
                             [m \in DOMAIN @ \cup {Input[1]} |->
                                IF m = Input[1]
                                THEN <<Input[2], OperatorAfter(cursor + 1)>> ELSE @[m]]]
           /\ source' = source /\ stage' = "scan"
    BY <1>1 DEF AddRequestParameter, StopScan
  <2>2. Input = O[cursor + 1] /\ OperatorAfter(cursor + 1) = OperatorIn(O, cursor + 1)
    BY DEF Input, OperatorAfter, OperatorIn
  <2> QED
    BY <2>1, <2>2 DEF WithParam, Parametrised
<1>3. O \in Inputs /\ Len(O) \in Nat
  BY OthersTyped
<1>4. /\ cursor \in Nat /\ Gathered(O, requests, cursor)
      /\ source = Len(requests)
      /\ ~Web => asked.types = TypesRead
  BY <1>1, <1>3 DEF ScanInv
<1>5. O' = O /\ stock' = stock /\ rows' = rows /\ Web' = Web /\ TypesRead' = TypesRead
  BY <1>1 DEF table, Web, TypesRead, Has
<1>6. CASE stage' = "stopped"
  BY <1>5, <1>6 DEF ScanInv
<1>7. CASE stage' # "stopped"
  <2>1. source \in Nat
    BY <1>4 DEF Gathered
  <2>2. Gathered(O, more, cursor + 1) /\ Len(more) = Len(requests)
    <3> HIDE DEF O
    <3> QED
      BY <1>1, <1>3, <1>4, <2>1, GatherParameter
  <2>3. cursor + 1 \in 0..Len(O)
    BY <1>1, <1>3, <1>4
  <2> HIDE DEF O, more
  <2>4. /\ stage' = "scan" /\ requests' = more /\ source' = Len(more)
        /\ cursor' = cursor + 1 /\ asked' = asked
        /\ stock \in Stocks /\ rows \in 0..Len(stock)
    BY <1>1, <1>2, <1>4, <1>7, <2>2 DEF ScanInv
  <2> QED
    BY <1>4, <1>5, <2>2, <2>3, <2>4 DEF ScanInv, O
<1> QED
  BY <1>6, <1>7

LEMMA PassScans ==
  ASSUME LineInv, ScanInv, PassOver
  PROVE  ScanInv'
<1> DEFINE O == parsed.others
<1>1. /\ stage = "scan" /\ cursor < Len(O) /\ cursor' = cursor + 1
      /\ O[cursor + 1][1] # "source" /\ (O[cursor + 1][1] = "op" \/ source = 0)
      /\ UNCHANGED <<parsed, stage, source, requests, asked, table>>
  BY DEF PassOver, Scanning, Input
<1>2. O \in Inputs /\ Len(O) \in Nat
  BY OthersTyped
<1>3. /\ cursor \in Nat /\ Gathered(O, requests, cursor)
      /\ source = Len(requests)
      /\ ~Web => asked.types = TypesRead
  BY <1>1, <1>2 DEF ScanInv
<1>4. O' = O /\ stock' = stock /\ rows' = rows /\ Web' = Web /\ TypesRead' = TypesRead
  BY <1>1 DEF table, Web, TypesRead, Has
<1>5. Gathered(O, requests, cursor + 1)
  <2> HIDE DEF O
  <2> QED
    BY <1>1, <1>2, <1>3, GatherNothing
<1>6. cursor + 1 \in 0..Len(O)
  BY <1>1, <1>2, <1>3
<1>7. stock \in Stocks /\ rows \in 0..Len(stock)
  BY DEF ScanInv
<1> HIDE DEF O
<1> QED
  BY <1>1, <1>3, <1>4, <1>5, <1>6, <1>7 DEF ScanInv, O

LEMMA RowsGrow ==
  ASSUME ScanInv, StoreFile
  PROVE  rows + 1 \in 0..Len(stock)
<1>1. stock \in Stocks /\ rows \in 0..Len(stock) /\ rows < Len(stock)
  BY DEF ScanInv, StoreFile
<1>2. Len(stock) \in Nat
  BY <1>1, SearchAssumption
<1> QED
  BY <1>1, <1>2

LEMMA OtherScans ==
  ASSUME LineInv, ScanInv,
         \/ Parse \/ ParseArgs \/ Elsewhere \/ ScanDone \/ Build \/ BuildNothing
         \/ NextPage \/ StoreFile \/ StoreTags \/ UNCHANGED searchVars
  PROVE  ScanInv'
<1>1. CASE Parse \/ ParseArgs \/ Elsewhere
  BY <1>1 DEF Parse, ParseArgs, Elsewhere, ScanInv, builder, table
<1>2. CASE ~(Parse \/ ParseArgs \/ Elsewhere)
  <2>1. UNCHANGED <<parsed, builder, stock>> /\ asked'.types = asked.types
    <3>1. CASE NextPage
      BY <3>1 DEF NextPage, table
    <3>2. CASE ~NextPage
      BY <1>2, <3>2 DEF ScanDone, Build, BuildNothing, StoreFile, StoreTags,
         searchVars, table
    <3> QED
      BY <3>1, <3>2
  <2>2. Web' = Web /\ TypesRead' = TypesRead
    BY <2>1 DEF Web, TypesRead, Has
  <2>3. rows' \in 0..Len(stock)
    <3>1. rows \in 0..Len(stock)
      BY DEF ScanInv
    <3>2. CASE StoreFile
      BY <3>2, RowsGrow DEF StoreFile
    <3>3. CASE ~StoreFile
      BY <1>2, <3>1, <3>3 DEF ScanDone, Build, BuildNothing, NextPage, StoreTags,
         searchVars, table
    <3> QED
      BY <3>2, <3>3
  <2>4. /\ stage' \in {"parse", "read"} => stage = stage'
        /\ stage' \in {"scan", "build", "shown"} => stage \in {"scan", "build", "shown"}
        /\ stage' \in {"build", "shown"} =>
             (stage \in {"build", "shown"} \/ (cursor = Len(parsed.others) /\ ~Web))
    BY <1>2 DEF ScanDone, Build, BuildNothing, NextPage, StoreFile, StoreTags,
       searchVars
  <2> QED
    BY <2>1, <2>2, <2>3, <2>4 DEF ScanInv, builder
<1> QED
  BY <1>1, <1>2

LEMMA ScanStepKeeps ==
  ASSUME LineInv, ScanInv, [SearchNext]_searchVars
  PROVE  ScanInv'
BY ReadScans, SourceScans, ParameterScans, PassScans, OtherScans DEF SearchNext

(***************************************************************************)
(* The rows.  A request selects the files its source and its parameters    *)
(* describe, and those are what the arguments mean.                        *)
(***************************************************************************)
MeantIn(O, k, f, T) ==
  /\ f.source = O[k][2]
  /\ \A j \in GroupIn(O, k) : LastIn(O, GroupIn(O, k), j) =>
       \E t \in T : t[1] = O[j][1] /\ Holds(t[1], t[2], OperatorIn(O, j), O[j][2])

Fits(r, T) ==
  \A n \in DOMAIN r.params :
    \E t \in T : t[1] = n /\ Holds(n, t[2], r.params[n][2], r.params[n][1])

LEMMA SomeLast ==
  ASSUME NEW O, NEW m \in Nat, NEW G \in SUBSET (1..m), NEW j \in G
  PROVE  \E l \in G : O[l][1] = O[j][1] /\ LastIn(O, G, l)
<1> DEFINE T == {d \in Nat : \E l \in G : O[l][1] = O[j][1] /\ d = m - l}
<1>1. T \in SUBSET Nat /\ T # {}
  <2>1. m - j \in Nat
    <3>1. j \in 1..m
      OBVIOUS
    <3> QED
      BY <3>1
  <2>2. \E l \in G : O[l][1] = O[j][1] /\ m - j = m - l
    BY <2>1
  <2>3. m - j \in T
    BY <2>1, <2>2
  <2> QED
    BY <2>3
<1>2. PICK d \in T : \A e \in T : d <= e
  <2> HIDE DEF T
  <2> QED
    BY <1>1, Least
<1>3. PICK l \in G : O[l][1] = O[j][1] /\ d = m - l
  BY <1>2
<1>4. ASSUME NEW x \in G, O[x][1] = O[l][1] PROVE x <= l
  <2>1. m - x \in T
    BY <1>3, <1>4
  <2>2. m - l <= m - x /\ x \in 1..m /\ l \in 1..m
    BY <1>2, <1>3, <2>1
  <2> QED
    BY <2>2
<1> QED
  BY <1>3, <1>4 DEF LastIn

LEMMA DescribedIsMeant ==
  ASSUME NEW O \in Inputs, NEW k, NEW r, Describes(O, r, GroupIn(O, k), k),
         NEW f, NEW T
  PROVE  f.source = r.api /\ Fits(r, T) <=> MeantIn(O, k, f, T)
<1> DEFINE G == GroupIn(O, k)
<1>1. /\ r.api = O[k][2] /\ DOMAIN r.params = {O[j][1] : j \in G}
      /\ \A j \in G : LastIn(O, G, j) =>
           r.params[O[j][1]] = <<O[j][2], OperatorIn(O, j)>>
  BY DEF Describes
<1>2. G \in SUBSET (1..Len(O)) /\ Len(O) \in Nat
  BY DEF GroupIn, Inputs
<1> HIDE DEF G
<1>3. ASSUME Fits(r, T), NEW j \in G, LastIn(O, G, j)
      PROVE  \E t \in T : t[1] = O[j][1] /\ Holds(t[1], t[2], OperatorIn(O, j), O[j][2])
  <2> DEFINE n == O[j][1]
  <2>1. n \in DOMAIN r.params /\ r.params[n] = <<O[j][2], OperatorIn(O, j)>>
    BY <1>1, <1>3
  <2> HIDE DEF n
  <2>2. PICK t \in T : t[1] = n /\ Holds(n, t[2], r.params[n][2], r.params[n][1])
    BY <1>3, <2>1 DEF Fits
  <2>3. r.params[n][2] = OperatorIn(O, j) /\ r.params[n][1] = O[j][2]
    BY <2>1
  <2> QED
    BY <2>2, <2>3 DEF n
<1>4. ASSUME \A j \in G : LastIn(O, G, j) =>
               \E t \in T : t[1] = O[j][1] /\ Holds(t[1], t[2], OperatorIn(O, j), O[j][2]),
             NEW n \in DOMAIN r.params
      PROVE  \E t \in T : t[1] = n /\ Holds(n, t[2], r.params[n][2], r.params[n][1])
  <2>1. PICK i \in G : O[i][1] = n
    BY <1>1
  <2>2. PICK j \in G : O[j][1] = O[i][1] /\ LastIn(O, G, j)
    BY <1>2, SomeLast
  <2>3. PICK t \in T : t[1] = O[j][1] /\ Holds(t[1], t[2], OperatorIn(O, j), O[j][2])
    BY <1>4, <2>2
  <2>4. r.params[n] = <<O[j][2], OperatorIn(O, j)>> /\ t[1] = n
    BY <1>1, <2>1, <2>2, <2>3
  <2>5. r.params[n][2] = OperatorIn(O, j) /\ r.params[n][1] = O[j][2]
    BY <2>4
  <2> QED
    BY <2>3, <2>4, <2>5
<1> QED
  BY <1>1, <1>3, <1>4 DEF MeantIn, G, Fits

LEMMA SelectIs ==
  ASSUME NEW r
  PROVE  Select(r) = {i \in 1..rows : /\ Tags(i) # {} /\ stock[i].source = r.api
                                      /\ Fits(r, Tags(i))}
<1> DEFINE J == Joined(r.api)
           X == {row[1] : row \in J}
<1>1. \A row : row \in J <=> \E i \in 1..rows : /\ stock[i].source = r.api
                                               /\ \E t \in Tags(i) : row = <<i, t>>
  BY DEF Joined
<1>2. X = {i \in 1..rows : Tags(i) # {} /\ stock[i].source = r.api}
  <2> HIDE DEF J
  <2>1. ASSUME NEW i \in X
        PROVE  i \in 1..rows /\ Tags(i) # {} /\ stock[i].source = r.api
    <3>1. PICK row \in J : i = row[1]
      OBVIOUS
    <3>2. PICK x \in 1..rows : stock[x].source = r.api
                               /\ \E t \in Tags(x) : row = <<x, t>>
      BY <1>1, <3>1
    <3>3. row[1] = x
      BY <3>2
    <3> QED
      BY <3>1, <3>2, <3>3
  <2>2. ASSUME NEW i \in 1..rows, Tags(i) # {}, stock[i].source = r.api
        PROVE  i \in X
    <3>1. PICK t : t \in Tags(i)
      BY <2>2
    <3>2. <<i, t>> \in J /\ <<i, t>>[1] = i
      BY <1>1, <2>2, <3>1
    <3> QED
      BY <3>2
  <2> QED
    BY <2>1, <2>2
<1>3. ASSUME NEW i \in X, NEW n
      PROVE  (\E row \in J : row[1] = i /\ Matches(row[2], n, r.params[n])) <=>
             \E t \in Tags(i) : t[1] = n /\ Holds(n, t[2], r.params[n][2], r.params[n][1])
  <2> HIDE DEF J, X
  <2>1. ASSUME NEW row \in J, row[1] = i, Matches(row[2], n, r.params[n])
        PROVE  \E t \in Tags(i) : t[1] = n /\ Holds(n, t[2], r.params[n][2], r.params[n][1])
    <3>1. PICK x \in 1..rows : \E t \in Tags(x) : row = <<x, t>>
      BY <1>1
    <3>2. PICK t \in Tags(x) : row = <<x, t>>
      BY <3>1
    <3>3. row[1] = x /\ row[2] = t
      BY <3>2
    <3> QED
      BY <2>1, <3>2, <3>3 DEF Matches
  <2>2. ASSUME NEW t \in Tags(i), t[1] = n, Holds(n, t[2], r.params[n][2], r.params[n][1])
        PROVE  \E row \in J : row[1] = i /\ Matches(row[2], n, r.params[n])
    <3>1. i \in 1..rows /\ stock[i].source = r.api
      BY <1>2
    <3>2. <<i, t>> \in J /\ <<i, t>>[1] = i /\ <<i, t>>[2] = t
      BY <1>1, <3>1
    <3>3. Matches(t, n, r.params[n])
      BY <2>2 DEF Matches
    <3> QED
      BY <3>2, <3>3
  <2> QED
    BY <2>1, <2>2
<1>4. Select(r) = {i \in X : Fits(r, Tags(i))}
  <2>1. CASE r.params = <<>>
    <3>1. DOMAIN r.params = {}
      BY <2>1
    <3>2. \A i : Fits(r, Tags(i))
      BY <3>1 DEF Fits
    <3> QED
      BY <2>1, <3>2 DEF Select
  <2>2. CASE r.params # <<>>
    <3>1. Select(r) = {i \in X : \A n \in DOMAIN r.params :
                         \E row \in J : row[1] = i /\ Matches(row[2], n, r.params[n])}
      BY <2>2 DEF Select
    <3> HIDE DEF J, X
    <3> QED
      BY <1>3, <3>1 DEF Fits
  <2> QED
    BY <2>1, <2>2
<1> HIDE DEF X
<1> QED
  BY <1>2, <1>4

LEMMA MeantIs ==
  ASSUME LineInv, NEW k, NEW i
  PROVE  Meant(k, i) <=> MeantIn(parsed.others, k, stock[i], Tags(i))
<1> DEFINE O == parsed.others
           G == GroupIn(O, k)
           T == Tags(i)
<1>1. O \in Inputs /\ Len(O) \in Nat /\ DOMAIN O = 1..Len(O)
  BY OthersTyped DEF Inputs
<1>2. Group(k) = G /\ G \in SUBSET (1..Len(O))
  BY <1>1 DEF Group, GroupIn, Named, SourcesIn
<1>3. \A j \in G : TypedOperator(j) = OperatorIn(O, j)
  <2> SUFFICES ASSUME NEW j \in G PROVE TypedOperator(j) = OperatorIn(O, j)
    OBVIOUS
  <2>1. j \in 1..Len(O) /\ (j + 1 \in DOMAIN O <=> j < Len(O))
    BY <1>1, <1>2
  <2>2. Named("op") \cap {j + 1} = {} <=> ~(j < Len(O) /\ O[j + 1][1] = "op")
    BY <2>1 DEF Named
  <2> QED
    BY <2>2 DEF TypedOperator, OperatorIn
<1> HIDE DEF O, G, T
<1>4. \A j \in G : (\E later \in G : later > j /\ O[later][1] = O[j][1])
                   <=> ~LastIn(O, G, j)
  <2>1. \A j, l \in G : l > j <=> ~(l <= j)
    BY <1>1, <1>2
  <2> QED
    BY <2>1 DEF LastIn
<1>5. Meant(k, i) <=>
        /\ stock[i].source = O[k][2]
        /\ \A j \in G :
             \/ \E later \in G : later > j /\ O[later][1] = O[j][1]
             \/ \E t \in T : /\ t[1] = O[j][1]
                             /\ Holds(t[1], t[2], OperatorIn(O, j), O[j][2])
  BY <1>2, <1>3 DEF Meant, O, T
<1> QED
  BY <1>4, <1>5 DEF MeantIn, O, G, T

LEMMA ItemTyped ==
  ASSUME NEW T, NEW seqs, seqs \subseteq Seq(T), NEW s \in seqs,
         NEW i \in 1..Len(s)
  PROVE  s[i] \in T
<1>1. s \in Seq(T)
  OBVIOUS
<1> QED
  BY <1>1

\* Every row the builder asks for is meant, and the other way round.
LEMMA UsableIsMeant ==
  ASSUME LineInv, ScanInv, stage = "build"
  PROVE  UNION {Select(r) : r \in Usable} = Found
<1> DEFINE O == parsed.others
           typed(r) == asked.types = {} \/ TypeOf[r.api] \in asked.types
           all == IF requests # <<>> THEN ToSet(requests)
                  ELSE {[api |-> a, params |-> <<>>] : a \in Api}
<1>1. /\ O \in Inputs /\ Len(O) \in Nat /\ Gathered(O, requests, Len(O))
      /\ asked.types = TypesRead
  BY OthersTyped DEF ScanInv
<1>2. requests \in Seq(Request) /\ \E at : Places(O, requests, at, Len(O))
  BY <1>1 DEF Gathered
<1>3. PICK at : Places(O, requests, at, Len(O))
  BY <1>2
<1>4. Named("source") = SourcesIn(O) /\ SourcesIn(O) \cap 1..Len(O) = SourcesIn(O)
  BY <1>1 DEF Named, SourcesIn, Inputs
<1>5. \A k : GroupTo(O, k, Len(O)) = GroupIn(O, k)
  <2>1. \A k : \A j \in GroupIn(O, k) : j <= Len(O)
    BY <1>1 DEF GroupIn, Inputs
  <2> QED
    BY <2>1 DEF GroupTo
<1>6. /\ at \in [1..Len(requests) -> SourcesIn(O)]
      /\ \A k \in SourcesIn(O) : \E q \in 1..Len(requests) : at[q] = k
      /\ \A q \in 1..Len(requests) : Describes(O, requests[q], GroupIn(O, at[q]), at[q])
  BY <1>3, <1>4, <1>5 DEF Places
<1>8. \A f : typed(f) <=> (Has("type") => TypeOf[f.api] = parsed.strings["type"])
  BY <1>1 DEF TypesRead
<1>9. \A i \in 1..rows :
        (\E r \in all : stock[i].source = r.api /\ Fits(r, Tags(i))) <=>
        (SourcesIn(O) # {} => \E k \in SourcesIn(O) : Meant(k, i))
  <2> SUFFICES ASSUME NEW i \in 1..rows
               PROVE  (\E r \in all : stock[i].source = r.api /\ Fits(r, Tags(i))) <=>
                      (SourcesIn(O) # {} => \E k \in SourcesIn(O) : Meant(k, i))
    OBVIOUS
  <2> DEFINE f == stock[i]
             T == Tags(i)
  <2>1. CASE requests # <<>>
    <3>1. Len(requests) \in Nat \ {0} /\ DOMAIN requests = 1..Len(requests)
      BY <1>2, <2>1
    <3>2. all = {requests[q] : q \in 1..Len(requests)}
      BY <2>1, <3>1 DEF ToSet
    <3>3. SourcesIn(O) # {}
      BY <1>6, <3>1
    <3>4. \A q \in 1..Len(requests) :
            f.source = requests[q].api /\ Fits(requests[q], T) <=> Meant(at[q], i)
      <4> SUFFICES ASSUME NEW q \in 1..Len(requests)
                   PROVE  f.source = requests[q].api /\ Fits(requests[q], T)
                          <=> Meant(at[q], i)
        OBVIOUS
      <4> DEFINE r == requests[q]
                 k == at[q]
      <4>1. Describes(O, r, GroupIn(O, k), k)
        BY <1>6
      <4>2. Meant(k, i) <=> MeantIn(O, k, f, T)
        BY MeantIs
      <4> HIDE DEF r, k, O, f, T
      <4>3. f.source = r.api /\ Fits(r, T) <=> MeantIn(O, k, f, T)
        BY <1>1, <4>1, DescribedIsMeant
      <4> QED
        BY <4>2, <4>3 DEF r, k
    <3> HIDE DEF all, O
    <3> QED
      BY <1>6, <3>2, <3>3, <3>4
  <2>2. CASE requests = <<>>
    <3>1. SourcesIn(O) = {}
      <4>1. 1..Len(requests) = {}
        BY <2>2
      <4> QED
        BY <1>6, <4>1
    <3>2. stock[i].source \in Api
      <4>1. stock \in Stocks /\ i \in 1..Len(stock)
        BY SearchAssumption DEF ScanInv
      <4>2. stock[i] \in [source : Api, size : Nat, tags : SUBSET (STRING \X STRING)]
        BY ONLY <4>1, SearchAssumption, ItemTyped
      <4> QED
        BY <4>2
    <3> DEFINE r == [api |-> stock[i].source, params |-> <<>>]
    <3>3. r \in all /\ r.api = stock[i].source /\ DOMAIN r.params = {}
      BY <2>2, <3>2
    <3>4. Fits(r, Tags(i))
      BY <3>3 DEF Fits
    <3> HIDE DEF r, all
    <3> QED
      BY <3>1, <3>3, <3>4
  <2> QED
    BY <2>1, <2>2
<1>10. \A i \in 1..rows :
         (\E r \in all : typed(r) /\ i \in Select(r)) <=> i \in Found
  <2> SUFFICES ASSUME NEW i \in 1..rows
               PROVE  (\E r \in all : typed(r) /\ i \in Select(r)) <=> i \in Found
    OBVIOUS
  <2>1. \A r : i \in Select(r) <=> /\ Tags(i) # {} /\ stock[i].source = r.api
                                  /\ Fits(r, Tags(i))
    BY SelectIs
  <2>2. i \in Found <=>
          /\ Tags(i) # {}
          /\ Has("type") => TypeOf[stock[i].source] = parsed.strings["type"]
          /\ SourcesIn(O) # {} => \E k \in SourcesIn(O) : Meant(k, i)
    BY <1>4 DEF Found, MeantBy
  <2> HIDE DEF all, typed, O
  <2> QED
    BY <1>8, <1>9, <2>1, <2>2
<1>11. Usable = {r \in all : typed(r)}
  BY DEF Usable
<1>12. \A r : Select(r) \subseteq 1..rows
  BY SelectIs
<1>13. Found \subseteq 1..rows
  BY DEF Found
<1> HIDE DEF all, typed
<1> QED
  BY <1>10, <1>11, <1>12, <1>13

(***************************************************************************)
(* The options a search is asked with.                                     *)
(***************************************************************************)
Asked ==
  [types : SUBSET STRING, order : STRING \cup {"none"}, page : Nat, number : Nat]

AskedInv ==
  /\ asked \in Asked
  /\ stage \in {"parse", "read", "scan"} => shown = <<>>
  /\ stage = "scan" /\ ~Web => asked.page = NumberOr("page", 0)

LEMMA NumberRead ==
  ASSUME NEW n, NEW default \in Nat, Valid(n, DOMAIN NumberOf)
  PROVE  NumberOr(n, default) \in Nat
BY SearchAssumption DEF Valid, NumberOr

LEMMA ValueTyped ==
  ASSUME LineInv, NEW n, Has(n)
  PROVE  parsed.strings[n] \in STRING
<1>1. parsed \in Parsed
  BY DEF LineInv
<1>2. \A m \in DOMAIN parsed.strings : parsed.strings[m] \in STRING
  BY <1>1, ParsedFields
<1> QED
  BY <1>2 DEF Has

LEMMA NothingAsked == Nothing \in Asked
BY DEF Nothing, Asked

LEMMA OptionsTyped ==
  ASSUME NEW types \in SUBSET STRING, NEW order \in STRING \cup {"none"},
         NEW page \in Nat, NEW number \in Nat
  PROVE  LET o == [types |-> types, order |-> order, page |-> page, number |-> number] IN
         o \in Asked /\ o.types = types /\ o.order = order /\ o.page = page
                     /\ o.number = number
BY DEF Asked

LEMMA AskedFields ==
  ASSUME NEW o \in Asked
  PROVE  /\ o.page \in Nat /\ o.number \in Nat
         /\ LET q == [o EXCEPT !.page = o.page + 1] IN
            /\ q \in Asked /\ q.page = o.page + 1 /\ q.number = o.number
            /\ q.order = o.order
         /\ \A number \in Nat : LET q == [o EXCEPT !.number = number] IN
            q \in Asked /\ q.page = o.page
BY DEF Asked

LEMMA OptionsRead ==
  ASSUME LineInv, AskedInv, FilesList \/ CorpusCreate \/ WebDownload
  PROVE  /\ asked' \in Asked
         /\ stage' = "scan" /\ ~Web => asked'.page = NumberOr("page", 0)
<1>1. TypesRead \in SUBSET STRING
  BY ValueTyped DEF TypesRead
<1>2. DefaultNumber \in Nat /\ 0 \in Nat /\ asked \in Asked
  BY SearchAssumption DEF AskedInv
<1>3. CASE FilesList
  <2>1. CASE stage' = "scan"
    <3>1. /\ NumberOr("page", 0) \in Nat
          /\ NumberOr("number", DefaultNumber) \in Nat
      BY <1>2, <1>3, <2>1, NumberRead DEF FilesList, Read
    <3>2. asked' = [types |-> TypesRead, order |-> "none",
                    page |-> NumberOr("page", 0),
                    number |-> NumberOr("number", DefaultNumber)]
      BY <1>3, <2>1 DEF FilesList, Read
    <3> QED
      BY <1>1, <3>1, <3>2, OptionsTyped
  <2>2. CASE stage' # "scan"
    <3>1. asked' = asked
      BY <1>3, <2>2 DEF FilesList, Read
    <3> QED
      BY <1>2, <2>2, <3>1
  <2> QED
    BY <2>1, <2>2
<1>4. CASE CorpusCreate
  <2>1. CASE stage' = "scan"
    <3> DEFINE order == IF Has("order") THEN parsed.strings["order"] ELSE "none"
    <3>1. /\ NumberOr("page", 0) \in Nat
          /\ NumberOr("number", 0) \in Nat
      BY <1>2, <1>4, <2>1, NumberRead DEF CorpusCreate, Read
    <3>2. asked' = [types |-> TypesRead, order |-> order,
                    page |-> NumberOr("page", 0), number |-> NumberOr("number", 0)]
      BY <1>4, <2>1 DEF CorpusCreate, Read
    <3>3. order \in STRING \cup {"none"}
      BY ValueTyped
    <3> HIDE DEF order
    <3> QED
      BY <1>1, <3>1, <3>2, <3>3, OptionsTyped
  <2>2. CASE stage' # "scan"
    <3>1. asked' = asked
      BY <1>4, <2>2 DEF CorpusCreate, Read
    <3> QED
      BY <1>2, <2>2, <3>1
  <2> QED
    BY <2>1, <2>2
<1>5. CASE WebDownload
  <2>1. CASE stage' = "scan"
    <3>1. NumberOr("number", 0) \in Nat
      BY <1>2, <1>5, <2>1, NumberRead DEF WebDownload, Read
    <3>2. asked' = [Nothing EXCEPT !.number = NumberOr("number", 0)] /\ Web
      BY <1>5, <2>1 DEF WebDownload, Read, Web
    <3> QED
      BY <3>1, <3>2, NothingAsked, AskedFields
  <2>2. CASE stage' # "scan"
    <3>1. asked' = asked
      BY <1>5, <2>2 DEF WebDownload, Read
    <3> QED
      BY <1>2, <2>2, <3>1
  <2> QED
    BY <2>1, <2>2
<1> QED
  BY <1>3, <1>4, <1>5

LEMMA InitAskedInv == SearchInit => AskedInv
BY NothingAsked DEF SearchInit, AskedInv, Web, NumberOr

LEMMA AskedStepKeeps ==
  ASSUME LineInv, AskedInv, [SearchNext]_searchVars
  PROVE  AskedInv'
<1>1. CASE FilesList \/ CorpusCreate \/ WebDownload
  <2>1. stage' \in {"scan", "stopped"} /\ shown' = shown /\ shown = <<>> /\ parsed' = parsed
    BY <1>1 DEF FilesList, CorpusCreate, WebDownload, Read, AskedInv
  <2>2. Web' = Web /\ NumberOr("page", 0)' = NumberOr("page", 0)
    BY <2>1 DEF Web, NumberOr, Has
  <2> QED
    BY <1>1, <2>1, <2>2, OptionsRead DEF AskedInv
<1>2. CASE NextPage
  BY <1>2, AskedFields DEF NextPage, AskedInv
<1>3. CASE Parse \/ ParseArgs \/ Elsewhere
  BY <1>3 DEF Parse, ParseArgs, Elsewhere, AskedInv
<1>4. CASE AddRequest \/ AddRequestParameter \/ PassOver \/ UNCHANGED searchVars
  <2>1. /\ parsed' = parsed /\ asked' = asked /\ shown' = shown
        /\ stage' = stage \/ stage' = "stopped"
    BY <1>4 DEF AddRequest, AddRequestParameter, PassOver, StopScan, searchVars
  <2>2. Web' = Web /\ NumberOr("page", 0)' = NumberOr("page", 0)
    BY <2>1 DEF Web, NumberOr, Has
  <2> QED
    BY <2>1, <2>2 DEF AskedInv
<1>5. CASE ScanDone \/ Build \/ BuildNothing \/ StoreFile \/ StoreTags
  BY <1>5 DEF ScanDone, Build, BuildNothing, StoreFile, StoreTags, AskedInv
<1> QED
  BY <1>1, <1>2, <1>3, <1>4, <1>5 DEF SearchNext

(***************************************************************************)
(* The answer: a page of a listing of the rows that match.                 *)
(***************************************************************************)
LEMMA Listing ==
  ASSUME NEW M, IsFiniteSet(M), NEW s \in SetToSeqs(M)
  PROVE  /\ s \in Seq(M) /\ Len(s) = Cardinality(M) /\ Len(s) \in Nat
         /\ \A i, j \in 1..Len(s) : i # j => s[i] # s[j]
         /\ \A m \in M : \E i \in 1..Len(s) : s[i] = m
<1> DEFINE n == Cardinality(M)
<1>1. n \in Nat
  BY FS_CardinalityType
<1>2. s \in [1..n -> M] /\ \A i, j \in 1..n : i # j => s[i] # s[j]
  BY DEF SetToSeqs
<1>3. IsFiniteSet(1..n) /\ Cardinality(1..n) = n
  BY <1>1, FS_Interval
<1>4. s \in Injection(1..n, M)
  BY <1>2 DEF Injection, IsInjective
<1>5. s \in Surjection(1..n, M)
  BY <1>3, <1>4, FS_Injection
<1> HIDE DEF n
<1>6. s \in Seq(M) /\ Len(s) = n
  BY <1>1, <1>2
<1>7. \A m \in M : \E i \in 1..n : s[i] = m
  BY <1>5 DEF Surjection
<1>8. Len(s) = Cardinality(M) /\ Len(s) \in Nat
  BY <1>1, <1>6 DEF n
<1>9. \A i, j \in 1..Len(s) : i # j => s[i] # s[j]
  BY <1>2, <1>6
<1>10. \A m \in M : \E i \in 1..Len(s) : s[i] = m
  BY <1>6, <1>7
<1> QED
  BY <1>6, <1>8, <1>9, <1>10

LEMMA Part ==
  ASSUME NEW T, NEW s \in Seq(T), NEW a \in Nat, NEW b \in Nat, b <= Len(s)
  PROVE  LET t == SubSeq(s, a + 1, b) IN
         /\ t \in Seq(T) /\ Len(t) \in Nat
         /\ Len(t) = IF a <= b THEN b - a ELSE 0
         /\ \A i \in 1..Len(t) : t[i] = s[a + i] /\ a + i \in 1..Len(s)
<1> DEFINE t == SubSeq(s, a + 1, b)
<1>1. \A i \in (a + 1)..b : s[i] \in T
  OBVIOUS
<1>2. t \in Seq(T) /\ Len(t) = IF a <= b THEN b - a ELSE 0
  BY <1>1
<1>3. \A i \in 1..Len(t) : t[i] = s[a + i]
  BY <1>1
<1>4. Len(t) \in Nat /\ \A i \in 1..Len(t) : a + i \in 1..Len(s)
  BY <1>2
<1> QED
  BY <1>2, <1>3, <1>4

LEMMA StartTyped ==
  ASSUME NEW page \in Nat, NEW number \in Nat
  PROVE  /\ page * number \in Nat /\ (page * number) % Width \in Nat
         /\ page * number < Width => (page * number) % Width = page * number
<1> DEFINE x == page * number
<1>1. x \in Nat
  OBVIOUS
<1>2. Width \in Nat \ {0}
  BY SearchAssumption
<1> HIDE DEF x
<1>3. x % Width \in Nat /\ (x < Width => x % Width = x)
  BY <1>1, <1>2
<1> QED
  BY <1>1, <1>3 DEF x

\* The end of the page.
EndOf(s, start) ==
  IF start + asked.number < Len(s) THEN start + asked.number ELSE Len(s)

LEMMA LimitIs ==
  ASSUME asked \in Asked, NEW T, NEW s \in Seq(T)
  PROVE  LET start == (asked.page * asked.number) % Width
             t == Limit(s)
         IN /\ asked.number = 0 => t = s
            /\ asked.number # 0 =>
                 /\ t \in Seq(T) /\ Len(t) \in Nat
                 /\ Len(t) = IF start <= EndOf(s, start) THEN EndOf(s, start) - start ELSE 0
                 /\ \A i \in 1..Len(t) : t[i] = s[start + i] /\ start + i \in 1..Len(s)
<1> DEFINE start == (asked.page * asked.number) % Width
           e == EndOf(s, start)
<1>1. start \in Nat /\ asked.number \in Nat
  BY AskedFields, StartTyped
<1>2. e \in Nat /\ e <= Len(s)
  <2> HIDE DEF start
  <2> QED
    BY <1>1 DEF EndOf
<1>3. Limit(s) = IF asked.number = 0 THEN s ELSE SubSeq(s, start + 1, e)
  BY DEF Limit, EndOf
<1> HIDE DEF start, e
<1>4. LET t == SubSeq(s, start + 1, e) IN
      /\ t \in Seq(T) /\ Len(t) \in Nat
      /\ Len(t) = IF start <= e THEN e - start ELSE 0
      /\ \A i \in 1..Len(t) : t[i] = s[start + i] /\ start + i \in 1..Len(s)
  BY <1>1, <1>2, Part
<1> QED
  BY <1>3, <1>4 DEF start, e

LEMMA FoundFinite ==
  ASSUME ScanInv
  PROVE  Found \in SUBSET (1..rows) /\ rows \in Nat /\ IsFiniteSet(Found)
<1>1. rows \in Nat
  <2>1. stock \in Stocks /\ rows \in 0..Len(stock)
    BY DEF ScanInv
  <2> QED
    BY <2>1, SearchAssumption
<1>2. IsFiniteSet(1..rows)
  BY <1>1, FS_Interval
<1>3. Found \in SUBSET (1..rows)
  BY DEF Found
<1> QED
  BY <1>1, <1>2, <1>3, FS_Subset

LEMMA FoundKept ==
  ASSUME UNCHANGED <<parsed, table>>
  PROVE  Found' = Found
BY DEF Found, table, MeantBy, Tags, Has, Named, Meant, Group, TypedOperator

\* What Build answers with.
LEMMA BuildAnswers ==
  ASSUME LineInv, ScanInv, AskedInv, Build
  PROVE  \E s \in SetToSeqs(Found) : InOrder(asked.order, s) /\ answer' = Limit(s)
<1>1. UNION {Select(r) : r \in Usable} = Found
  BY UsableIsMeant DEF Build
<1> QED
  BY <1>1 DEF Build

LEMMA BuildAnswersTheRequest ==
  ASSUME LineInv, ScanInv, AskedInv, Build
  PROVE  AnswersTheRequest'
<1> DEFINE M == Found
<1>1. PICK s \in SetToSeqs(M) : answer' = Limit(s)
  BY BuildAnswers
<1>2. /\ s \in Seq(M) /\ Len(s) \in Nat
      /\ \A i, j \in 1..Len(s) : i # j => s[i] # s[j]
      /\ \A m \in M : \E i \in 1..Len(s) : s[i] = m
  <2> HIDE DEF M
  <2> QED
    BY <1>1, FoundFinite, Listing DEF M
<1>3. Found' = M /\ asked' = asked /\ asked \in Asked
  BY FoundKept DEF Build, AskedInv
<1> HIDE DEF M
<1> DEFINE t == answer'
<1>4. ToSet(s) = M /\ IsInjective(s)
  <2>1. DOMAIN s = 1..Len(s) /\ \A i \in 1..Len(s) : s[i] \in M
    BY <1>2
  <2>2. ToSet(s) = M
    BY <1>2, <2>1 DEF ToSet
  <2> QED
    BY <1>2, <2>1, <2>2 DEF IsInjective
<1>7. Found' \subseteq {i \in 1..rows : MeantBy(i)}'
  BY DEF Found
<1>5. CASE asked.number = 0
  <2>1. t = s
    BY <1>1, <1>2, <1>3, <1>5, LimitIs
  <2>2. ToSet(t) = M /\ IsInjective(t)
    BY <1>4, <2>1
  <2> QED
    BY <1>3, <1>7, <2>2 DEF AnswersTheRequest
<1>6. CASE asked.number # 0
  <2> DEFINE start == (asked.page * asked.number) % Width
  <2>1. /\ t \in Seq(M) /\ start \in Nat /\ asked.number \in Nat
        /\ Len(t) = IF start <= EndOf(s, start) THEN EndOf(s, start) - start ELSE 0
        /\ \A i \in 1..Len(t) : t[i] = s[start + i] /\ start + i \in 1..Len(s)
    BY <1>1, <1>2, <1>3, <1>6, LimitIs, AskedFields, StartTyped
  <2>4. asked.page = 0 => start = 0
    <3>1. asked.page = 0 => asked.page * asked.number = 0
      BY <2>1
    <3>2. Width \in Nat \ {0}
      BY SearchAssumption
    <3>3. 0 % Width = 0
      BY <3>2
    <3> QED
      BY <3>1, <3>3
  <2> HIDE DEF start, t
  <2>2. ToSet(t) \subseteq M
    BY <2>1 DEF ToSet
  <2>3. IsInjective(t)
    <3> SUFFICES ASSUME NEW i \in 1..Len(t), NEW j \in 1..Len(t), t[i] = t[j]
                 PROVE  i = j
      BY <2>1 DEF IsInjective
    <3>1. start + i = start + j
      BY <1>2, <2>1
    <3> QED
      BY <2>1, <3>1
  <2>5. ASSUME asked.page = 0, Len(t) < asked.number
        PROVE  M \subseteq ToSet(t)
    <3>1. Len(t) = Len(s) /\ start = 0
      BY <1>2, <2>1, <2>4, <2>5 DEF EndOf
    <3>2. DOMAIN t = 1..Len(t) /\ \A i \in 1..Len(t) : t[i] = s[i]
      BY <1>2, <2>1, <3>1
    <3> QED
      BY <1>2, <3>1, <3>2 DEF ToSet
  <2> QED
    BY <1>3, <1>6, <1>7, <2>2, <2>3, <2>5 DEF AnswersTheRequest, t
<1> QED
  BY <1>5, <1>6

LEMMA AnswerKept ==
  ASSUME UNCHANGED searchVars, AnswersTheRequest
  PROVE  AnswersTheRequest'
<1>1. /\ Found' = Found /\ asked' = asked /\ answer' = answer
      /\ stage' = stage
  BY FoundKept DEF searchVars
<1>2. {i \in 1..rows : MeantBy(i)}' = {i \in 1..rows : MeantBy(i)}
  BY DEF searchVars, table, MeantBy, Tags, Has, Named, Meant, Group, TypedOperator
<1> QED
  BY <1>1, <1>2 DEF AnswersTheRequest

LEMMA OnlyBuildShows ==
  ASSUME [SearchNext]_searchVars, stage' = "shown"
  PROVE  Build \/ UNCHANGED searchVars
BY DEF SearchNext, Parse, ParseArgs, FilesList, CorpusCreate, WebDownload, Read,
   Elsewhere, AddRequest, AddRequestParameter, PassOver, Scanning, StopScan,
   ScanDone, BuildNothing, NextPage, StoreFile, StoreTags

LEMMA AnswerStepKeeps ==
  ASSUME LineInv, ScanInv, AskedInv, AnswersTheRequest, [SearchNext]_searchVars
  PROVE  AnswersTheRequest'
<1>1. CASE stage' = "shown"
  BY <1>1, OnlyBuildShows, BuildAnswersTheRequest, AnswerKept
<1>2. CASE stage' # "shown"
  BY <1>2 DEF AnswersTheRequest
<1> QED
  BY <1>1, <1>2

\* While the unspecified inputs become requests, each request has the source
\* and the last values of the parameters typed so far in its group; the types
\* and the page the command has are those that were typed.
THEOREM ScansInductive == SearchSpec => [](ScanInv /\ AskedInv)
<1>1. SearchInit => ScanInv /\ AskedInv
  BY InitScanInv, InitAskedInv
<1>2. LineInv /\ ScanInv /\ AskedInv /\ [SearchNext]_searchVars
        => ScanInv' /\ AskedInv'
  BY ScanStepKeeps, AskedStepKeeps
<1>3. SearchInv => LineInv
  BY DEF SearchInv
<1> QED
  BY <1>1, <1>2, <1>3, SearchInductive, PTL DEF SearchSpec

(***************************************************************************)
(* Whatever the tables hold and whatever is typed, a search answers with   *)
(* files the arguments describe, each once, and where it is not cut off at *)
(* the number of the command with all of them that have tags, though other *)
(* files are being stored meanwhile.                                       *)
(***************************************************************************)
THEOREM SearchesAnswerTheRequest == SearchSpec => []AnswersTheRequest
<1>1. SearchInit => AnswersTheRequest
  BY DEF SearchInit, AnswersTheRequest
<1>2. LineInv /\ ScanInv /\ AskedInv /\ AnswersTheRequest /\ [SearchNext]_searchVars
        => AnswersTheRequest'
  BY AnswerStepKeeps
<1>3. SearchInv => LineInv
  BY DEF SearchInv
<1> QED
  BY <1>1, <1>2, <1>3, SearchInductive, ScansInductive, PTL DEF SearchSpec

(***************************************************************************)
(* The pages.  In the default order the k-th file shown is the k-th of     *)
(* those that match: what is stored meanwhile comes after all of them.     *)
(***************************************************************************)
Rank(M, m) == Cardinality(UpTo(M, m))

InPages ==
  asked.order = "none" /\ NumberOr("page", 0) = 0
    /\ asked.page * asked.number < Width

Ranked(s, M) == \A k \in 1..Len(s) : s[k] \in M /\ Rank(M, s[k]) = k

PageInv ==
  /\ shown \in Seq(Nat) /\ answer \in Seq(Nat)
  /\ stage \in {"build", "shown"} /\ InPages =>
       /\ Ranked(shown, Found)
       /\ stage = "build" => Len(shown) = asked.page * asked.number
       /\ stage = "shown" =>
            /\ Len(shown) = asked.page * asked.number + Len(answer)
            /\ Len(answer) < asked.number => Len(shown) = Cardinality(Found)

LEMMA UpToFinite ==
  ASSUME NEW M \in SUBSET Nat, IsFiniteSet(M), NEW m \in Nat
  PROVE  /\ UpTo(M, m) \in SUBSET M /\ IsFiniteSet(UpTo(M, m))
         /\ Rank(M, m) \in Nat /\ Rank(M, m) <= Cardinality(M)
         /\ Cardinality(M) \in Nat
<1>1. UpTo(M, m) \in SUBSET M
  BY DEF UpTo
<1> QED
  BY <1>1, FS_Subset, FS_CardinalityType DEF Rank

LEMMA RankUnique ==
  ASSUME NEW M \in SUBSET Nat, IsFiniteSet(M), NEW x \in M, NEW y \in M,
         Rank(M, x) = Rank(M, y)
  PROVE  x = y
<1>1. ASSUME NEW a \in M, NEW b \in M, a < b, Rank(M, a) = Rank(M, b)
      PROVE  FALSE
  <2>1. UpTo(M, a) \in SUBSET UpTo(M, b) /\ b \in UpTo(M, b) /\ b \notin UpTo(M, a)
    <3>1. a \in Nat /\ b \in Nat /\ b <= b /\ ~(b <= a)
      BY <1>1
    <3>2. \A j \in M : j <= a => j <= b
      BY <1>1
    <3> QED
      BY <3>1, <3>2 DEF UpTo
  <2>2. IsFiniteSet(UpTo(M, b))
    BY UpToFinite
  <2>3. UpTo(M, a) = UpTo(M, b)
    BY <1>1, <2>1, <2>2, FS_Subset DEF Rank
  <2> QED
    BY <2>1, <2>3
<1>2. x < y \/ y < x \/ x = y
  OBVIOUS
<1> QED
  BY <1>1, <1>2

LEMMA RankRange ==
  ASSUME NEW M \in SUBSET Nat, IsFiniteSet(M), NEW x \in M
  PROVE  Rank(M, x) \in 1..Cardinality(M)
<1>1. /\ Rank(M, x) \in Nat /\ Rank(M, x) <= Cardinality(M)
      /\ Cardinality(M) \in Nat /\ IsFiniteSet(UpTo(M, x))
  BY UpToFinite
<1>2. x \in UpTo(M, x)
  BY DEF UpTo
<1>3. Rank(M, x) # 0
  BY <1>1, <1>2, FS_EmptySet DEF Rank
<1> QED
  BY <1>1, <1>3

LEMMA ElementTyped ==
  ASSUME NEW T, NEW s \in Seq(T)
  PROVE  DOMAIN s = 1..Len(s) /\ \A i \in 1..Len(s) : s[i] \in T
OBVIOUS

LEMMA ElementsOf ==
  ASSUME NEW T, NEW M \in SUBSET T, NEW s \in Seq(M)
  PROVE  s \in Seq(T)
OBVIOUS

\* The k-th of a listing in the default order is the k-th of the rows.
LEMMA ListingRanked ==
  ASSUME NEW M \in SUBSET Nat, IsFiniteSet(M), NEW s \in SetToSeqs(M),
         InOrder("none", s)
  PROVE  Ranked(s, M)
<1>1. /\ s \in Seq(M) /\ Len(s) \in Nat
      /\ \A i, j \in 1..Len(s) : i # j => s[i] # s[j]
      /\ \A m \in M : \E i \in 1..Len(s) : s[i] = m
  BY Listing
<1>2. DOMAIN s = 1..Len(s) /\ \A i \in 1..Len(s) : s[i] \in M /\ s[i] \in Nat
  <2>1. DOMAIN s = 1..Len(s) /\ \A i \in 1..Len(s) : s[i] \in M
    BY <1>1, ElementTyped
  <2> QED
    BY <2>1
<1>3. \A i, j \in 1..Len(s) : i < j => ~(s[j] < s[i])
  BY <1>2 DEF InOrder, Comes
<1>4. \A i, j \in 1..Len(s) : i <= j <=> s[i] <= s[j]
  <2> SUFFICES ASSUME NEW i \in 1..Len(s), NEW j \in 1..Len(s)
               PROVE  i <= j <=> s[i] <= s[j]
    OBVIOUS
  <2>1. i < j => s[i] < s[j]
    BY <1>1, <1>2, <1>3
  <2>2. j < i => s[j] < s[i]
    BY <1>1, <1>2, <1>3
  <2> QED
    BY <1>2, <2>1, <2>2
<1> SUFFICES ASSUME NEW k \in 1..Len(s)
             PROVE  s[k] \in M /\ Rank(M, s[k]) = k
  BY DEF Ranked
<1> DEFINE U == UpTo(M, s[k])
           f == [i \in 1..k |-> s[i]]
<1>5. \A i \in 1..k : i \in 1..Len(s) /\ s[i] \in U
  BY <1>2, <1>4 DEF UpTo
<1>6. \A m \in U : \E i \in 1..k : s[i] = m
  <2> SUFFICES ASSUME NEW m \in U PROVE \E i \in 1..k : s[i] = m
    OBVIOUS
  <2>1. m \in M /\ m <= s[k]
    BY DEF UpTo
  <2>2. PICK i \in 1..Len(s) : s[i] = m
    BY <1>1, <2>1
  <2>3. i \in 1..k
    BY <1>4, <2>1, <2>2
  <2> QED
    BY <2>2, <2>3
<1> HIDE DEF U
<1>7. f \in Bijection(1..k, U)
  BY <1>1, <1>5, <1>6 DEF Bijection, Injection, Surjection, IsInjective
<1>8. IsFiniteSet(1..k) /\ Cardinality(1..k) = k
  BY FS_Interval
<1>9. Cardinality(U) = k
  BY <1>7, <1>8, FS_Bijection DEF ExistsBijection
<1> QED
  BY <1>2, <1>9 DEF U, Rank

LEMMA RankedInjective ==
  ASSUME NEW s \in Seq(Nat), NEW M, Ranked(s, M)
  PROVE  IsInjective(s)
<1>1. DOMAIN s = 1..Len(s)
  OBVIOUS
<1> QED
  BY <1>1 DEF IsInjective, Ranked

\* As many as there are: all of them.
LEMMA RankedAll ==
  ASSUME NEW M \in SUBSET Nat, IsFiniteSet(M), NEW s \in Seq(Nat), Ranked(s, M),
         Len(s) = Cardinality(M)
  PROVE  M = ToSet(s)
<1>1. DOMAIN s = 1..Len(s) /\ ToSet(s) \subseteq M
  BY DEF ToSet, Ranked
<1>2. ASSUME NEW m \in M PROVE m \in ToSet(s)
  <2>1. Rank(M, m) \in 1..Len(s)
    BY RankRange
  <2> DEFINE k == Rank(M, m)
  <2>2. s[k] \in M /\ Rank(M, s[k]) = k
    BY <2>1 DEF Ranked
  <2>3. Rank(M, m) = k
    OBVIOUS
  <2> HIDE DEF k
  <2>4. s[k] = m
    BY <2>2, <2>3, RankUnique
  <2> QED
    BY <1>1, <2>1, <2>3, <2>4 DEF ToSet
<1> QED
  BY <1>1, <1>2

LEMMA RankedStays ==
  ASSUME NEW M \in SUBSET Nat, NEW N \in SUBSET Nat, M \subseteq N,
         \A n \in N \ M : \A m \in M : m < n,
         NEW s, Ranked(s, M)
  PROVE  Ranked(s, N)
<1>1. \A m \in M : UpTo(N, m) = UpTo(M, m)
  <2> SUFFICES ASSUME NEW m \in M, NEW n \in N PROVE n <= m => n \in M
    BY DEF UpTo
  <2>1. CASE n \notin M
    <3>1. m < n
      BY <2>1
    <3> QED
      BY <3>1
  <2> QED
    BY <2>1
<1> QED
  BY <1>1 DEF Ranked, Rank

\* After the pages a, t is the next page of the listing s.
PageEnd(a, s, number) ==
  IF Len(a) + number < Len(s) THEN Len(a) + number ELSE Len(s)

Continues(a, s, number, t) ==
  \/ number = 0 /\ Len(a) = 0 /\ t = s
  \/ /\ number # 0
     /\ Len(t) = IF Len(a) <= PageEnd(a, s, number)
                 THEN PageEnd(a, s, number) - Len(a) ELSE 0
     /\ \A i \in 1..Len(t) : t[i] = s[Len(a) + i] /\ Len(a) + i \in 1..Len(s)

Extended(a, t, M, number) ==
  /\ a \o t \in Seq(Nat) /\ Len(a \o t) = Len(a) + Len(t)
  /\ Ranked(a \o t, M)
  /\ Len(t) < number => Len(a \o t) = Cardinality(M)

LEMMA NextAnswer ==
  ASSUME NEW M \in SUBSET Nat, IsFiniteSet(M), NEW s \in Seq(M), Ranked(s, M),
         Len(s) = Cardinality(M), NEW a \in Seq(Nat), Ranked(a, M),
         NEW number \in Nat, NEW t \in Seq(Nat), Continues(a, s, number, t)
  PROVE  Extended(a, t, M, number)
<1> DEFINE n == Len(a)
           c == a \o t
<1>1. /\ n \in Nat /\ Len(t) \in Nat /\ Len(s) \in Nat
      /\ c \in Seq(Nat) /\ Len(c) = n + Len(t)
      /\ \A i \in 1..n : c[i] = a[i]
      /\ \A i \in 1..Len(t) : c[n + i] = t[i]
  OBVIOUS
<1> HIDE DEF n, c
<1>2. \A i \in 1..Len(t) : t[i] = s[n + i] /\ n + i \in 1..Len(s)
  <2>1. CASE number = 0 /\ n = 0 /\ t = s
    <3>1. \A i \in 1..Len(t) : n + i = i
      BY <2>1
    <3> QED
      BY <2>1, <3>1
  <2> QED
    BY <2>1 DEF n, Continues
<1>3. Ranked(c, M)
  <2> SUFFICES ASSUME NEW k \in 1..Len(c) PROVE c[k] \in M /\ Rank(M, c[k]) = k
    BY DEF Ranked
  <2>1. CASE k \in 1..n
    BY <1>1, <2>1 DEF Ranked, n
  <2>2. CASE k \notin 1..n
    <3> DEFINE i == k - n
    <3>1. i \in 1..Len(t) /\ k = n + i
      BY <1>1, <2>2
    <3> HIDE DEF i
    <3>2. c[k] = s[k] /\ k \in 1..Len(s)
      BY <1>1, <1>2, <3>1
    <3> QED
      BY <3>2 DEF Ranked
  <2> QED
    BY <2>1, <2>2
<1>4. n <= Cardinality(M)
  <2>1. CASE n = 0
    BY <1>1, <2>1
  <2>2. CASE n # 0
    <3>1. n \in 1..n
      BY <1>1, <2>2
    <3>2. a[n] \in M /\ Rank(M, a[n]) = n
      BY <3>1 DEF Ranked, n
    <3>3. n \in 1..Cardinality(M) /\ Cardinality(M) \in Nat
      BY <3>2, RankRange, FS_CardinalityType
    <3> QED
      BY <1>1, <3>3
  <2> QED
    BY <2>1, <2>2
<1>5. Len(t) < number => Len(c) = Cardinality(M)
  <2> SUFFICES ASSUME Len(t) < number PROVE n + Len(t) = Len(s)
    BY <1>1
  <2>1. number # 0
    BY <1>1
  <2> DEFINE e == IF n + number < Len(s) THEN n + number ELSE Len(s)
  <2>2. /\ Len(t) = IF n <= e THEN e - n ELSE 0
        /\ n <= Len(s)
    BY <1>4, <2>1 DEF n, Continues, PageEnd
  <2> QED
    BY <1>1, <2>1, <2>2
<1> QED
  BY <1>1, <1>3, <1>5 DEF n, c, Extended

LEMMA NextProduct ==
  ASSUME NEW p \in Nat, NEW n \in Nat, n # 0
  PROVE  /\ (p + 1) * n = p * n + n /\ p * n \in Nat
         /\ p * n < (p + 1) * n
OBVIOUS

LEMMA BuildPages ==
  ASSUME LineInv, ScanInv, AskedInv, PageInv, Build
  PROVE  PageInv'
<1> DEFINE M == Found
           start == (asked.page * asked.number) % Width
           t == answer'
<1>1. PICK s \in SetToSeqs(M) : InOrder(asked.order, s) /\ t = Limit(s)
  BY BuildAnswers
<1>2. M \in SUBSET Nat /\ IsFiniteSet(M)
  BY FoundFinite
<1>3. /\ s \in Seq(M) /\ Len(s) \in Nat /\ Len(s) = Cardinality(M)
  <2> HIDE DEF M
  <2> QED
    BY <1>1, <1>2, Listing
<1>4. /\ Found' = M /\ asked' = asked /\ asked \in Asked
      /\ shown' = shown \o t /\ stage = "build" /\ stage' = "shown"
      /\ parsed' = parsed
  BY FoundKept DEF Build, AskedInv
<1>5. shown \in Seq(Nat)
  BY DEF PageInv
<1>6. NumberOr("page", 0)' = NumberOr("page", 0)
  BY <1>4 DEF NumberOr, Has
<1>7. asked.page \in Nat /\ asked.number \in Nat /\ start \in Nat
  BY <1>4, AskedFields, StartTyped
<1>8. /\ asked.number = 0 => t = s
      /\ asked.number # 0 =>
           /\ t \in Seq(M)
           /\ Len(t) = IF start <= EndOf(s, start) THEN EndOf(s, start) - start ELSE 0
           /\ \A i \in 1..Len(t) : t[i] = s[start + i] /\ start + i \in 1..Len(s)
  <2> HIDE DEF M
  <2> QED
    BY <1>1, <1>3, <1>4, LimitIs
<1> HIDE DEF M, start, t
<1>9. s \in Seq(Nat) /\ t \in Seq(Nat)
  <2>1. t \in Seq(M)
    BY <1>3, <1>8
  <2> QED
    BY <1>2, <1>3, <2>1, ElementsOf
<1>10. shown' \in Seq(Nat) /\ t \in Seq(Nat)
  BY <1>4, <1>5, <1>9
<1>11. ASSUME InPages'
       PROVE  /\ Ranked(shown', M)
              /\ Len(shown') = asked.page * asked.number + Len(t)
              /\ Len(t) < asked.number => Len(shown') = Cardinality(M)
  <2>1. InPages
    BY <1>4, <1>6, <1>11 DEF InPages
  <2>2. /\ Ranked(shown, M) /\ Len(shown) = asked.page * asked.number
        /\ start = asked.page * asked.number
    BY <1>4, <1>7, <2>1, StartTyped DEF PageInv, InPages, M, start
  <2>3. Ranked(s, M)
    BY <1>1, <1>2, <2>1, ListingRanked DEF InPages
  <2> DEFINE number == asked.number
  <2>4. EndOf(s, start) = PageEnd(shown, s, number) /\ Len(shown) = start
    BY <2>2 DEF EndOf, PageEnd
  <2>5. Continues(shown, s, number, t)
    <3>1. CASE number = 0
      <4>1. Len(shown) = 0
        BY <1>7, <2>2, <3>1
      <4> QED
        BY <1>8, <3>1, <4>1 DEF Continues
    <3>2. CASE number # 0
      BY <1>8, <2>4, <3>2 DEF Continues
    <3> QED
      BY <3>1, <3>2
  <2>6. number \in Nat
    BY <1>7
  <2> HIDE DEF number
  <2>7. Extended(shown, t, M, number)
    BY <1>2, <1>3, <1>5, <1>9, <2>2, <2>3, <2>5, <2>6, NextAnswer
  <2> QED
    BY <1>4, <2>2, <2>7 DEF number, Extended
<1> QED
  BY <1>4, <1>10, <1>11 DEF PageInv, t

LEMMA PageTurned ==
  ASSUME LineInv, ScanInv, AskedInv, PageInv, NextPage
  PROVE  PageInv'
<1>1. /\ stage = "shown" /\ stage' = "build" /\ asked.number > 0
      /\ Len(answer) = asked.number
      /\ asked' = [asked EXCEPT !.page = asked.page + 1]
      /\ UNCHANGED <<parsed, table, answer, shown>>
      /\ asked \in Asked
  BY DEF NextPage, AskedInv
<1>2. /\ asked.page \in Nat /\ asked.number \in Nat /\ asked.number # 0
      /\ asked'.page = asked.page + 1 /\ asked'.number = asked.number
      /\ asked'.order = asked.order
  BY <1>1, AskedFields
<1>3. Found' = Found /\ NumberOr("page", 0)' = NumberOr("page", 0)
  BY <1>1, FoundKept DEF NumberOr, Has
<1> DEFINE x == asked.page * asked.number
           y == asked'.page * asked'.number
<1>4. y = x + asked.number /\ x \in Nat /\ x < y
  BY <1>2, NextProduct
<1>5. Width \in Nat
  BY SearchAssumption
<1> HIDE DEF y, x
<1>6. InPages' => InPages
  <2>1. y < Width => x < Width
    BY <1>2, <1>4, <1>5
  <2> QED
    BY <1>2, <1>3, <2>1 DEF InPages, x, y
<1>7. InPages => Ranked(shown, Found) /\ Len(shown) = x + Len(answer)
  BY <1>1 DEF PageInv, x
<1>8. shown \in Seq(Nat) /\ answer \in Seq(Nat)
  BY DEF PageInv
<1> QED
  BY <1>1, <1>3, <1>4, <1>6, <1>7, <1>8 DEF PageInv, y

\* What is stored matches later, if it does, and comes after what did.
LEMMA MeantKept ==
  ASSUME NEW i, Tags(i)' = Tags(i), UNCHANGED <<parsed, stock>>
  PROVE  MeantBy(i)' /\ Tags(i)' # {} <=> MeantBy(i) /\ Tags(i) # {}
BY DEF MeantBy, Has, Named, Meant, Group, TypedOperator

LEMMA StoringAddsAfter ==
  ASSUME ScanInv, StoreFile \/ StoreTags
  PROVE  /\ Found' \in SUBSET Nat /\ Found \subseteq Found'
         /\ \A n \in Found' \ Found : \A m \in Found : m < n
<1>1. Found \in SUBSET (1..rows) /\ rows \in Nat
  BY FoundFinite
<1>2. UNCHANGED <<parsed, stock>>
  BY DEF StoreFile, StoreTags
<1>3. CASE StoreFile
  <2>1. tagged /\ rows' = rows + 1 /\ tagged' = FALSE
    BY <1>3 DEF StoreFile
  <2>2. ASSUME NEW i \in 1..rows PROVE Tags(i)' = Tags(i)
    <3>1. i # rows + 1
      BY <1>1
    <3> QED
      BY <1>2, <2>1, <3>1 DEF Tags
  <2>3. PICK n \in Nat : n = rows + 1
    BY <1>1
  <2>4. Tags(n)' = {}
    BY <2>1, <2>3 DEF Tags
  <2>5. ~(MeantBy(n)' /\ Tags(n)' # {})
    BY <2>4
  <2>6. \A i : i \in 1..n <=> i \in 1..rows \/ i = n
    BY <1>1, <2>3
  <2>7. Found' = Found
    <3>1. \A i \in 1..rows : MeantBy(i)' /\ Tags(i)' # {} <=> MeantBy(i) /\ Tags(i) # {}
      BY <1>2, <2>2, MeantKept
    <3>2. Found' = {i \in 1..n : MeantBy(i)' /\ Tags(i)' # {}}
      BY <2>1, <2>3 DEF Found
    <3> QED
      BY <2>5, <2>6, <3>1, <3>2 DEF Found
  <2> QED
    BY <1>1, <2>7
<1>4. CASE StoreTags
  <2>1. ~tagged /\ rows' = rows
    BY <1>4 DEF StoreTags
  <2>2. \A i \in 1..rows : i # rows =>
          (MeantBy(i)' /\ Tags(i)' # {} <=> MeantBy(i) /\ Tags(i) # {})
    <3> SUFFICES ASSUME NEW i \in 1..rows, i # rows
                 PROVE  MeantBy(i)' /\ Tags(i)' # {} <=> MeantBy(i) /\ Tags(i) # {}
      OBVIOUS
    <3>1. Tags(i)' = Tags(i)
      BY <1>2, <2>1 DEF Tags
    <3> QED
      BY <1>2, <3>1, MeantKept
  <2>3. Tags(rows) = {}
    BY <2>1 DEF Tags
  <2>4. Found' \in SUBSET (1..rows)
    BY <2>1 DEF Found
  <2>5. rows \notin Found
    BY <2>3 DEF Found
  <2>6. Found \subseteq Found' /\ \A n \in Found' \ Found : n = rows
    BY <2>1, <2>2, <2>3 DEF Found
  <2>7. \A m \in Found : m < rows
    BY <1>1, <2>5
  <2> QED
    BY <1>1, <2>4, <2>6, <2>7
<1> QED
  BY <1>3, <1>4

LEMMA StoredPages ==
  ASSUME ScanInv, PageInv, StoreFile \/ StoreTags
  PROVE  PageInv'
<1>1. /\ stage = "build" /\ stage' = "build"
      /\ UNCHANGED <<parsed, asked, answer, shown>>
  BY DEF StoreFile, StoreTags
<1>2. InPages' <=> InPages
  BY <1>1 DEF InPages, NumberOr, Has
<1>3. InPages => Ranked(shown, Found) /\ Len(shown) = asked.page * asked.number
  BY <1>1 DEF PageInv
<1>4. /\ Found \in SUBSET Nat
      /\ Found' \in SUBSET Nat /\ Found \subseteq Found'
      /\ \A n \in Found' \ Found : \A m \in Found : m < n
  BY FoundFinite, StoringAddsAfter
<1> DEFINE N == Found'
           M == Found
<1>5. InPages => Ranked(shown, N)
  <2> SUFFICES ASSUME Ranked(shown, M) PROVE Ranked(shown, N)
    BY <1>3
  <2> HIDE DEF N, M
  <2> QED
    BY <1>4, RankedStays DEF N, M
<1>6. shown \in Seq(Nat) /\ answer \in Seq(Nat)
  BY DEF PageInv
<1>7. PageInv' <=>
        /\ shown' \in Seq(Nat) /\ answer' \in Seq(Nat)
        /\ stage' \in {"build", "shown"} /\ InPages' =>
             /\ Ranked(shown', N)
             /\ stage' = "build" => Len(shown') = asked'.page * asked'.number
             /\ stage' = "shown" =>
                  /\ Len(shown') = asked'.page * asked'.number + Len(answer')
                  /\ Len(answer') < asked'.number => Len(shown') = Cardinality(N)
  BY DEF PageInv, Ranked
<1> QED
  BY <1>1, <1>2, <1>3, <1>5, <1>6, <1>7

LEMMA FirstPage ==
  ASSUME LineInv, AskedInv, PageInv, ScanDone
  PROVE  PageInv'
<1>1. /\ stage = "scan" /\ stage' \in {"build", "download"}
      /\ stage' = "build" => ~Web
      /\ UNCHANGED <<parsed, asked, answer, shown>>
      /\ asked \in Asked /\ shown = <<>>
      /\ ~Web => asked.page = NumberOr("page", 0)
  BY DEF ScanDone, AskedInv
<1>2. InPages' <=> InPages
  BY <1>1 DEF InPages, NumberOr, Has
<1>3. stage' = "build" /\ InPages => Len(shown) = asked.page * asked.number
  <2>1. asked.number \in Nat
    BY <1>1, AskedFields
  <2>2. 0 * asked.number = 0 /\ Len(<<>>) = 0
    BY <2>1
  <2> QED
    BY <1>1, <2>2 DEF InPages
<1>4. Ranked(shown', Found')
  <2>1. Len(shown') = 0
    BY <1>1
  <2> QED
    BY <2>1 DEF Ranked
<1>5. shown \in Seq(Nat) /\ answer \in Seq(Nat)
  BY DEF PageInv
<1> QED
  BY <1>1, <1>2, <1>3, <1>4, <1>5 DEF PageInv

LEMMA OtherPages ==
  ASSUME PageInv,
         \/ Parse \/ ParseArgs \/ FilesList \/ CorpusCreate \/ WebDownload
         \/ Elsewhere \/ AddRequest \/ AddRequestParameter \/ PassOver
         \/ BuildNothing \/ UNCHANGED searchVars
  PROVE  PageInv'
<1>1. CASE UNCHANGED searchVars
  <2>1. /\ Found' = Found /\ UNCHANGED <<stage, parsed, asked, answer, shown>>
    BY <1>1, FoundKept DEF searchVars
  <2>2. InPages' <=> InPages
    BY <2>1 DEF InPages, NumberOr, Has
  <2> QED
    BY <2>1, <2>2 DEF PageInv, Ranked
<1>2. CASE ~UNCHANGED searchVars
  <2>1. stage' \notin {"build", "shown"} /\ UNCHANGED <<answer, shown>>
    BY <1>2 DEF Parse, ParseArgs, FilesList, CorpusCreate, WebDownload, Read,
       Elsewhere, AddRequest, AddRequestParameter, PassOver, Scanning, StopScan,
       BuildNothing
  <2> QED
    BY <2>1 DEF PageInv
<1> QED
  BY <1>1, <1>2

LEMMA PageStepKeeps ==
  ASSUME LineInv, ScanInv, AskedInv, PageInv, [SearchNext]_searchVars
  PROVE  PageInv'
BY BuildPages, PageTurned, StoredPages, FirstPage, OtherPages DEF SearchNext

LEMMA PagesAreOfOneList ==
  ASSUME ScanInv, PageInv
  PROVE  PagesNeverRepeat
<1> SUFFICES ASSUME stage = "shown", InPages
             PROVE  /\ IsInjective(shown)
                    /\ Len(answer) < asked.number => Found = ToSet(shown)
  BY DEF PagesNeverRepeat, InPages, Found
<1>1. /\ shown \in Seq(Nat) /\ Ranked(shown, Found)
      /\ Len(answer) < asked.number => Len(shown) = Cardinality(Found)
  BY DEF PageInv
<1>2. Found \in SUBSET Nat /\ IsFiniteSet(Found)
  BY FoundFinite
<1> QED
  BY <1>1, <1>2, RankedInjective, RankedAll

(***************************************************************************)
(* Page after page, any number of files stored between any two of them:    *)
(* no file is shown twice, and at the page that is not full every file     *)
(* that matches was shown, as long as the product does not overflow.       *)
(***************************************************************************)
THEOREM PagesAreNeverRepeated == SearchSpec => []PagesNeverRepeat
<1>1. SearchInit => PageInv
  BY DEF SearchInit, PageInv
<1>2. LineInv /\ ScanInv /\ AskedInv /\ PageInv /\ [SearchNext]_searchVars
        => PageInv'
  BY PageStepKeeps
<1>3. SearchInv => LineInv
  BY DEF SearchInv
<1>4. ScanInv /\ PageInv => PagesNeverRepeat
  BY PagesAreOfOneList
<1> QED
  BY <1>1, <1>2, <1>3, <1>4, SearchInductive, ScansInductive, PTL DEF SearchSpec
===============================================================================
