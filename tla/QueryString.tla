---------------------------- MODULE QueryString ----------------------------
(***************************************************************************)
(* crow::query_string (src/include/crow/query_string.h): the text behind   *)
(* the question mark of a URL is cut into items, whose values are decoded  *)
(* in place; an item is its raw name, and for most a "=" and the value.    *)
(* Texts are sequences of pieces, as in HttpParser.  qs_scanvalue, which   *)
(* nothing calls, is left out.                                             *)
(***************************************************************************)
EXTENDS Octets

CONSTANT MaxPairs   \* MAX_KEY_VALUE_PAIRS_COUNT

\* The octets that a client writes as "%" and two digits, or as "+".
Percent == (<<"2", "3">> :> "#") @@ (<<"2", "5">> :> "%") @@ (<<"2", "6">> :> "&")
        @@ (<<"2", "b">> :> "+") @@ (<<"3", "d">> :> "=") @@ (<<"2", "0">> :> " ")
        @@ (<<"6", "1">> :> "a")

EndsName == {"=", "#", "&"}

\* strcspn, plus one.
FirstOf(s, stops) == CHOOSE i \in 1..(Len(s) + 1) :
                       /\ i = Len(s) + 1 \/ s[i] \in stops
                       /\ \A j \in 1..(i - 1) : s[j] \notin stops
From(s, i) == SubSeq(s, i, Len(s))

IsPercent(s) == Len(s) >= 3 /\ s[1] = "%" /\ <<s[2], s[3]>> \in DOMAIN Percent

\* Faulty: it takes the digits of a code for text.
DecodeSingly(s) == [i \in DOMAIN s |-> IF s[i] = "+" THEN " " ELSE s[i]]

\* qs_decode: up to the end of the value, or to a code that is none.
RECURSIVE Decode(_)
Decode(s) ==
  IF s = <<>> \/ s[1] \in EndsName THEN <<>>
  ELSE IF IsPercent(s) THEN <<Percent[<<s[2], s[3]>>]>> \o Decode(From(s, 4))
  ELSE IF s[1] = "%" THEN <<>>
  ELSE <<IF s[1] = "+" THEN " " ELSE s[1]>> \o Decode(Tail(s))

Item(s) ==
  LET end == FirstOf(s, EndsName) IN
  IF end > Len(s) THEN s ELSE SubSeq(s, 1, end) \o Decode(From(s, end + 1))

\* The items of a text, at most n of them.
RECURSIVE Items(_, _)
Items(s, n) ==
  LET end == FirstOf(s, {"&"}) IN
  IF n = 0 THEN <<>>
  ELSE IF end > Len(s) THEN <<Item(s)>>
  ELSE <<Item(SubSeq(s, 1, end - 1))>> \o Items(From(s, end + 1), n - 1)

\* qs_parse, on a whole URL.
Query(url) ==
  LET mark == FirstOf(url, {"?", "#"}) IN
  IF mark > Len(url) THEN <<>> ELSE Items(From(url, mark + 1), MaxPairs)
-----------------------------------------------------------------------------
\* The next octet of a name, in which "+" and codes are read as in a value.
NameHead(s) ==
  IF s = <<>> \/ s[1] \in EndsName THEN "NUL"
  ELSE IF IsPercent(s) THEN Percent[<<s[2], s[3]>>]
  ELSE IF s[1] = "%" THEN "NUL"
  ELSE IF s[1] = "+" THEN " " ELSE s[1]
NameTail(s) == IF s[1] = "%" THEN From(s, 4) ELSE Tail(s)

\* qs_strncmp: whether an item has the name, of which n octets are compared.
RECURSIVE Named(_, _, _)
Named(name, item, n) ==
  IF n = 0 THEN item = <<>> \/ item[1] \in EndsName
  ELSE /\ NameHead(name) = NameHead(item)
       /\ NameHead(name) = "NUL" \/ Named(NameTail(name), NameTail(item), n - 1)

ValueOf(item) == From(item, FirstOf(item, {"="}) + 1)

\* qs_k2v, for every nth.
Values(items, name) ==
  LET found == SelectSeq(items, LAMBDA item : Named(name, item, Len(name))) IN
  [i \in DOMAIN found |-> ValueOf(found[i])]

\* get: <<>> if there is none, or a sequence with the value.
GetValue(items, name) == LET all == Values(items, name) IN SubSeq(all, 1, IF all = <<>> THEN 0 ELSE 1)

Brackets == <<"[", "]">>
GetList(items, name) == Values(items, name \o Brackets)

\* qs_dict_name2kv takes any item that begins with the name, and get_dict ends
\* at the first of them in which the brackets are the wrong way round.
GetDict(items, name) ==
  LET begins == SelectSeq(items, LAMBDA item : IsPrefix(name, item))
      open(item) == FirstOf(item, {"["})
      start(item) == IF open(item) > Len(item) THEN open(item) ELSE open(item) + 1
      close(item) == FirstOf(item, {"]"})
      wrong == SelectInSeq(begins, LAMBDA item : start(item) > close(item))
      used == IF wrong = 0 THEN begins ELSE SubSeq(begins, 1, wrong - 1)
  IN  [i \in DOMAIN used |->
         <<SubSeq(used[i], start(used[i]), close(used[i]) - 1), ValueOf(used[i])>>]

\* keys
Keys(items) ==
  [i \in DOMAIN items |-> SubSeq(items[i], 1, FirstOf(items[i], {"="}) - 1)]

\* What pop, pop_list and pop_dict leave; only raw names are compared.
Pop(items, name) ==
  LET i == SelectInSeq(items, LAMBDA item : IsPrefix(name \o <<"=">>, item)) IN
  IF GetValue(items, name) = <<>> \/ i = 0 THEN items ELSE RemoveAt(items, i)
PopList(items, name) ==
  IF GetList(items, name) = <<>> THEN items
  ELSE SelectSeq(items, LAMBDA item : ~IsPrefix(name \o Brackets \o <<"=">>, item))
PopDict(items, name) ==
  IF GetDict(items, name) = <<>> THEN items
  ELSE SelectSeq(items, LAMBDA item : ~IsPrefix(name \o <<"[">>, item))
=============================================================================
