------------------------------ MODULE JsonText ------------------------------
(***************************************************************************)
(* The strings of crow::json (src/include/crow/json.h): how they are       *)
(* escaped when the server writes them, where decode_string finds their    *)
(* end, and how their escapes are resolved when they are asked for.  Each  *)
(* loop of the code is a function of the number of its rounds.             *)
(***************************************************************************)
EXTENDS Octets

Hex == DOMAIN HexDigit
Escapes == {"\"", "\\", "/", "b", "f", "n", "r", "t"}
Error == [t |-> "error"]
Text(s) == [t |-> "String", text |-> s]

\* The terminator that load puts behind the text.
At(s, i) == IF i > Len(s) THEN "NUL" ELSE s[i]
-----------------------------------------------------------------------------
(* decode_string *)

\* How long the escape at i is; 0 if it is none.
EscapeLen(s, i) ==
  CASE At(s, i + 1) \in Escapes -> 2
    [] At(s, i + 1) = "u" /\ (\A k \in 2..5 : At(s, i + k) \in Hex) -> 6
    [] OTHER -> 0

\* A round at i: the loop stays at the closing quote, and at 0 if it has failed.
StringNext(s, i) ==
  IF i = 0 \/ At(s, i) = "NUL" THEN 0
  ELSE IF At(s, i) = "\"" THEN i
  ELSE IF At(s, i) # "\\" THEN i + 1
  ELSE IF EscapeLen(s, i) = 0 THEN 0 ELSE i + EscapeLen(s, i)

\* Where the string that goes on at i has its closing quote; 0 if it is bad.
\* Each round passes a piece, so there are no more of them than pieces and a NUL.
StringEnd(s, i) ==
  LET data[n \in 0..(Len(s) + 1)] == IF n = 0 THEN i ELSE StringNext(s, data[n - 1])
  IN  data[Len(s) + 1]

DecodeString(s, i) ==
  LET end == IF At(s, i) = "\"" THEN StringEnd(s, i + 1) ELSE 0 IN
  IF end = 0 THEN [v |-> Error, pos |-> i]
             ELSE [v |-> Text(SubSeq(s, i + 1, end - 1)), pos |-> end + 1]
-----------------------------------------------------------------------------
(* unescape *)

\* What the escape stands for whose letter is at i.  The octets of a character
\* beyond the controls are one piece.
Unescaped(s, i) ==
  CASE s[i] = "n" -> "LF"
    [] s[i] = "r" -> "CR"
    [] s[i] = "t" -> "TAB"
    [] s[i] = "b" -> "BS"
    [] s[i] = "f" -> "FF"
    [] s[i] = "u" -> IF \A k \in 1..4 : s[i + k] = "0" THEN "NUL" ELSE "U"
    [] OTHER -> s[i]

UnescapeNext(s, w) ==
  IF w.head > Len(s) THEN w
  ELSE IF s[w.head] # "\\"
  THEN [head |-> w.head + 1, tail |-> Append(w.tail, s[w.head])]
  ELSE [head |-> w.head + (IF s[w.head + 1] = "u" THEN 6 ELSE 2),
        tail |-> Append(w.tail, Unescaped(s, w.head + 1))]

Unescape(s) ==
  LET walk[n \in 0..Len(s)] ==
        IF n = 0 THEN [head |-> 1, tail |-> <<>>] ELSE UnescapeNext(s, walk[n - 1])
  IN  walk[Len(s)].tail
-----------------------------------------------------------------------------
(* escape *)

\* Faulty: it forgets the escape character itself.
EscapeQuote(c) == IF c = "\"" THEN <<"\\", c>> ELSE <<c>>

EscapeOf(c) ==
  CASE c \in {"\"", "\\"} -> <<"\\", c>>
    [] c = "LF"  -> <<"\\", "n">>
    [] c = "CR"  -> <<"\\", "r">>
    [] c = "TAB" -> <<"\\", "t">>
    [] c = "BS"  -> <<"\\", "b">>
    [] c = "FF"  -> <<"\\", "f">>
    [] c = "NUL" -> <<"\\", "u", "0", "0", "0", "0">>
    [] OTHER -> <<c>>

Escape(s) ==
  LET ret[n \in 0..Len(s)] == IF n = 0 THEN <<>> ELSE ret[n - 1] \o EscapeOf(s[n])
  IN  ret[Len(s)]

Quoted(s) == <<"\"">> \o Escape(s) \o <<"\"">>
=============================================================================
