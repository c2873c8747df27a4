-------------------------------- MODULE Json --------------------------------
(***************************************************************************)
(* crow::json (src/include/crow/json.h): load, the access to what it has   *)
(* read, and the text of what the server writes.  A text is a sequence of  *)
(* pieces, as in HttpParser.  A value that was read is a record with its   *)
(* type; the text of a string keeps its escapes until it is asked for.     *)
(* Numbers are kept as text; floating point numbers are not written.       *)
(***************************************************************************)
EXTENDS JsonText

CONSTANT MaxDepth   \* max_depth: how deep containers may be nested

White == {" ", "TAB", "CR", "LF"}

\* ws_skip
Skip(s, i) == CHOOSE j \in i..(Len(s) + 1) :
                /\ At(s, j) \notin White
                /\ \A k \in i..(j - 1) : s[k] \in White
-----------------------------------------------------------------------------
(* load: each decoder returns a value and the position after it. *)

\* The automaton of decode_number: Minus, AfterMinus, ZeroFirst, Digits,
\* DigitsAfterPoints, E, DigitsAfterE and Invalid are the states 0 to 7.
NumberNext(state, c) ==
  CASE c = "0"                 -> <<2, 2, 7, 3, 4, 6, 6>>[state + 1]
    [] c \in Numerals \ {"0"}  -> <<3, 3, 7, 3, 4, 6, 6>>[state + 1]
    [] c = "."                 -> <<7, 7, 4, 4, 7, 7, 7>>[state + 1]
    [] c = "-"                 -> <<1, 7, 7, 7, 7, 6, 7>>[state + 1]
    [] c = "+"                 -> <<7, 7, 7, 7, 7, 6, 7>>[state + 1]
    [] c = "e"                 -> <<7, 7, 7, 5, 5, 7, 7>>[state + 1]

RECURSIVE NumberEnd(_, _, _)
NumberEnd(s, i, state) ==
  IF state = 7 THEN 0
  ELSE IF At(s, i) \in Numerals \cup {".", "-", "+", "e"}
  THEN NumberEnd(s, i + 1, NumberNext(state, At(s, i)))
  ELSE IF state \in {2, 3, 4, 6} THEN i ELSE 0

DecodeNumber(s, i) ==
  LET end == NumberEnd(s, i, 0) IN
  IF end = 0 THEN [v |-> Error, pos |-> i]
             ELSE [v |-> [t |-> "Number", text |-> SubSeq(s, i, end - 1)], pos |-> end]

RECURSIVE DecodeValue(_, _, _), DecodeItems(_, _, _, _), DecodeMembers(_, _, _, _)

\* The rest of a list, from its next item on.
DecodeItems(s, i, depth, items) ==
  LET item == DecodeValue(s, i, depth + 1)
      all == Append(items, item.v)
      j == Skip(s, item.pos)
  IN  IF item.v = Error THEN item
      ELSE IF At(s, j) = "]" THEN [v |-> [t |-> "List", items |-> all], pos |-> j + 1]
      ELSE IF At(s, j) = "," THEN DecodeItems(s, Skip(s, j + 1), depth, all)
      ELSE [v |-> Error, pos |-> j]

\* The rest of an object, from its next member on.
DecodeMembers(s, i, depth, members) ==
  LET key == DecodeString(s, i)
      colon == Skip(s, key.pos)
      item == DecodeValue(s, Skip(s, colon + 1), depth + 1)
      all == Append(members, [key |-> Unescape(key.v.text), value |-> item.v])
      j == Skip(s, item.pos)
  IN  IF key.v = Error THEN key
      ELSE IF At(s, colon) # ":" THEN [v |-> Error, pos |-> colon]
      ELSE IF item.v = Error THEN item
      ELSE IF At(s, j) = "}" THEN [v |-> [t |-> "Object", members |-> all], pos |-> j + 1]
      ELSE IF At(s, j) = "," THEN DecodeMembers(s, Skip(s, j + 1), depth, all)
      ELSE [v |-> Error, pos |-> j]

\* decode_value, with the beginnings of decode_list and decode_object.
DecodeValue(s, i, depth) ==
  LET c == At(s, i)
      inside == Skip(s, i + 1)
  IN  CASE c \in {"[", "{"} /\ depth + 1 > MaxDepth -> [v |-> Error, pos |-> i]
        [] c = "[" /\ depth + 1 <= MaxDepth ->
             IF At(s, inside) = "]" THEN [v |-> [t |-> "List", items |-> <<>>], pos |-> inside + 1]
                                    ELSE DecodeItems(s, inside, depth + 1, <<>>)
        [] c = "{" /\ depth + 1 <= MaxDepth ->
             IF At(s, inside) = "}" THEN [v |-> [t |-> "Object", members |-> <<>>], pos |-> inside + 1]
                                    ELSE DecodeMembers(s, inside, depth + 1, <<>>)
        [] c = "\"" -> DecodeString(s, i)
        [] c = "true" -> [v |-> [t |-> "True"], pos |-> i + 1]
        [] c = "false" -> [v |-> [t |-> "False"], pos |-> i + 1]
        [] c = "null" -> [v |-> [t |-> "Null"], pos |-> i + 1]
        [] OTHER -> DecodeNumber(s, i)

\* A text ends at its first NUL, whatever is behind it.
Load(s) ==
  LET read == DecodeValue(s, Skip(s, 1), 0) IN
  IF read.v # Error /\ At(s, Skip(s, read.pos)) = "NUL" THEN read.v ELSE Error
-----------------------------------------------------------------------------
(* Access: what throws is Error. *)

\* operator[] and has, on an object: std::sort leaves at most 16 members with
\* equal keys in their order, and lower_bound finds the first.
Has(v, key) == \E i \in DOMAIN v.members : v.members[i].key = key
Member(v, key) ==
  IF v.t = "Object" /\ Has(v, key)
  THEN v.members[CHOOSE i \in DOMAIN v.members :
                   /\ v.members[i].key = key
                   /\ \A j \in 1..(i - 1) : v.members[j].key # key].value
  ELSE Error
-----------------------------------------------------------------------------
(* wvalue, and its text. *)

\* wvalue(list) and operator=(std::vector): a copy of every item.
ListOf(items) == [t |-> "List", items |-> items]

Nothing == [t |-> "Null"]

\* operator[](str) = w: what is not an object is reset to an empty one.
Put(v, key, w) ==
  LET members == IF v.t = "Object" THEN v.members ELSE <<>>
      i == SelectInSeq(members, LAMBDA m : m.key = key)
      member == [key |-> key, value |-> w]
  IN  [t |-> "Object",
       members |-> IF i = 0 THEN Append(members, member) ELSE [members EXCEPT ![i] = member]]

Commas(parts) == Join(parts, ",")

\* dump, without indentation.
RECURSIVE Dump(_)
Dump(v) ==
  CASE v.t = "Null" -> <<"null">>
    [] v.t = "True" -> <<"true">>
    [] v.t = "False" -> <<"false">>
    [] v.t = "Number" -> v.text
    [] v.t = "String" -> Quoted(v.text)
    [] v.t = "List" -> <<"[">> \o Commas([i \in DOMAIN v.items |-> Dump(v.items[i])]) \o <<"]">>
    [] v.t = "Object" ->
         <<"{">> \o Commas([i \in DOMAIN v.members |->
                              Quoted(v.members[i].key) \o <<":">> \o Dump(v.members[i].value)])
         \o <<"}">>

\* wvalue(const rvalue&): the escapes of a string are resolved, and of two
\* members with one key the first stays.
RECURSIVE Written(_)
Written(v) ==
  CASE v.t = "String" -> Text(Unescape(v.text))
    [] v.t = "List" -> [t |-> "List", items |-> [i \in DOMAIN v.items |-> Written(v.items[i])]]
    [] v.t = "Object" ->
         LET firsts == SelectSeq([i \in DOMAIN v.members |-> i],
                                 LAMBDA i : \A j \in 1..(i - 1) : v.members[j].key # v.members[i].key)
         IN  [t |-> "Object",
              members |-> [i \in DOMAIN firsts |->
                             [key |-> v.members[firsts[i]].key,
                              value |-> Written(v.members[firsts[i]].value)]]]
    [] OTHER -> v
-----------------------------------------------------------------------------
(* The language that load reads, by how a text is cut into its parts.  It is  *)
(* JSON but for numbers: digits may be missing behind the point and behind    *)
(* the sign of an exponent, and 0 takes no exponent.                          *)

Trim(s) == LET ink == {i \in DOMAIN s : s[i] \notin White} IN
           IF ink = {} THEN <<>>
           ELSE SubSeq(s, CHOOSE i \in ink : \A j \in ink : i <= j,
                          CHOOSE i \in ink : \A j \in ink : j <= i)
Inner(s) == SubSeq(s, 2, Len(s) - 1)
Before(s, i) == SubSeq(s, 1, i - 1)
After(s, i) == SubSeq(s, i + 1, Len(s))

RECURSIVE IsChars(_)
IsChars(s) ==
  \/ s = <<>>
  \/ s[1] \notin {"\"", "\\", "NUL"} /\ IsChars(Tail(s))
  \/ Len(s) >= 2 /\ s[1] = "\\" /\ s[2] \in Escapes /\ IsChars(SubSeq(s, 3, Len(s)))
  \/ /\ Len(s) >= 6 /\ s[1] = "\\" /\ s[2] = "u"
     /\ \A k \in 3..6 : s[k] \in Hex
     /\ IsChars(SubSeq(s, 7, Len(s)))
IsString(s) == Len(s) >= 2 /\ s[1] = "\"" /\ s[Len(s)] = "\"" /\ IsChars(Inner(s))

AreDigits(s) == \A i \in DOMAIN s : s[i] \in Numerals
IsInteger(s) == s # <<>> /\ AreDigits(s) /\ (s[1] = "0" => Len(s) = 1)
IsFraction(s) == \E i \in DOMAIN s : s[i] = "." /\ IsInteger(Before(s, i)) /\ AreDigits(After(s, i))
IsExponent(s) == s # <<>> /\ AreDigits(IF s[1] \in {"+", "-"} THEN Tail(s) ELSE s)
IsUnsigned(s) ==
  \/ IsInteger(s) \/ IsFraction(s)
  \/ \E i \in DOMAIN s : /\ s[i] = "e" /\ IsExponent(After(s, i))
                         /\ \/ IsFraction(Before(s, i))
                            \/ IsInteger(Before(s, i)) /\ s[1] # "0"
IsNumber(s) == IsUnsigned(IF s # <<>> /\ s[1] = "-" THEN Tail(s) ELSE s)

\* A value in which containers are nested at most n deep.
RECURSIVE IsValue(_, _), IsItems(_, _), IsMembers(_, _)
IsMember(s, n) == \E i \in DOMAIN s : /\ s[i] = ":" /\ IsString(Trim(Before(s, i)))
                                      /\ IsValue(Trim(After(s, i)), n)
IsItems(s, n) ==
  \/ IsValue(Trim(s), n)
  \/ \E i \in DOMAIN s : s[i] = "," /\ IsValue(Trim(Before(s, i)), n) /\ IsItems(After(s, i), n)
IsMembers(s, n) ==
  \/ IsMember(s, n)
  \/ \E i \in DOMAIN s : s[i] = "," /\ IsMember(Before(s, i), n) /\ IsMembers(After(s, i), n)
IsContainer(s, open, close) == Len(s) >= 2 /\ s[1] = open /\ s[Len(s)] = close
IsValue(s, n) ==
  \/ s \in {<<"true">>, <<"false">>, <<"null">>} \/ IsString(s) \/ IsNumber(s)
  \/ n > 0 /\ IsContainer(s, "[", "]") /\ (Trim(Inner(s)) = <<>> \/ IsItems(Inner(s), n - 1))
  \/ n > 0 /\ IsContainer(s, "{", "}") /\ (Trim(Inner(s)) = <<>> \/ IsMembers(Inner(s), n - 1))

\* What stands before the first NUL is the text; a container is two deeper
\* than the one around it.
IsJson(s) ==
  LET nul == SelectInSeq(s, LAMBDA c : c = "NUL") IN
  IsValue(Trim(IF nul = 0 THEN s ELSE Before(s, nul)), (MaxDepth + 1) \div 2)
=============================================================================
