--------------------------- MODULE MCHttpRequests ---------------------------
(* Instances of HttpRequests: the server's own rules with what its clients *)
(* send, and other rules with many URLs.                                   *)
EXTENDS HttpRequests

Rule(method, pattern, handler) == [method |-> method, pattern |-> pattern, handler |-> handler]

\* setup_routes; the rule of the static files is added when the server runs.
EngineTable ==
  <<Rule("POST", <<"/", "create", "_session">>, "create_session"),
    Rule("POST", <<"/", "start", "_session", "/", "<string>">>, "start_session"),
    Rule("POST", <<"/", "s", "top", "_session", "/", "<string>">>, "stop_session"),
    Rule("GET", <<"/", "s", "ession", "s">>, "sessions"),
    Rule("GET", <<"/", "s", "ession", "_log", "/", "<string>">>, "session_log"),
    Rule("GET", <<"/", "s", "tatic", "/", "<path>">>, "static")>>

Host == <<<<"host">>, <<"h">>>>
Connection(v) == <<<<"con", "nection">>, v>>
Close == Connection(<<"clo", "se">>)
Alive == Connection(<<"keep", "-alive">>)
Expecting == <<<<"expect">>, <<"100-continue">>>>
Long == <<<<"x">>, [i \in 1..30 |-> "y"]>>

Request(method, url, fields, framing, body) ==
  [method |-> method, url |-> url, query |-> <<>>, version |-> "1.1", fields |-> fields,
   framing |-> framing, body |-> body]
Get(url) == Request("GET", url, <<Host>>, "none", <<>>)
Post(url, framing, body) == Request("POST", url, <<Host>>, framing, body)

Sessions == <<"/", "s", "ession", "s">>
LogOf == <<"/", "s", "ession", "_log", "/", "1">>
Create == <<"/", "create", "_session">>
Start == <<"/", "start", "_session", "/", "1", "a">>
StaticOf == <<"/", "s", "tatic", "/", "x", "/", "y">>

\* Bodies of POST /create_session.
Q(word) == <<"\"", word, "\"">>
S(key, value) == Q(key) \o <<":", "\"">> \o value \o <<"\"">>
N(key, value) == Q(key) \o <<":">> \o value
Required(client, amount) ==
  S("client_id", client) \o <<",">> \o S("symbol", <<"s">>) \o <<",">> \o S("exchange", <<"e">>)
  \o <<",">> \o N("max_amount", amount) \o <<",">> \o N("target_profit", <<"1">>)
  \o <<",">> \o S("mode", <<"m">>)
Bodies200 ==
  {<<"{">> \o Required(client, amount) \o <<"}">> :
     client \in {<<"c">>, <<"\\", "\"">>, <<"\\", "u", "0", "0", "1", "a">>},
     amount \in {<<"1", ".", "0">>, <<"-", "1", "e", "+", "1">>}}
BodiesElse ==
  {<<"{">> \o Required(<<"c">>, <<"1">>) \o <<",">> \o N("take_profit_ratio", Q("x")) \o <<"}">>,
   <<"{">> \o Required(<<"c">>, Q("1")) \o <<"}">>,
   <<"{">> \o Required(<<"\\">>, <<"1">>) \o <<"}">>,
   <<"{">> \o Required(<<"c">>, <<"0", "1">>) \o <<"}">>,
   <<"{">> \o S("client_id", <<"c">>) \o <<"}">>,
   <<"[", "[", "]", "]">>, <<"[", "[", "[", "]", "]", "]">>,
   <<" ", "null", "LF">>, <<>>, <<"{", "}">>, <<"\"", "\\", "\"">>}

\* Queries and paths of files.
P(name, value) == [name |-> name, value |-> value]
Values1 == {<<"x">>, <<"&", "a", "=", " ", "%", "2", "6">>, <<"[", "+">>}
Queries ==
  {<<P(<<"a">>, v), P(m, <<"y">>), P(l, <<"z">>)>> :
     v \in Values1, m \in {<<"a">>, <<"a", "&">>, <<"a", "c">>, <<"a", "[", "]">>},
     l \in {<<"a">>, <<"a", "[", "]">>, <<"a", "[", "k", "]">>}}
  \cup {<<P(<<"a", "[", "k", "]">>, v), P(<<"c">>, w), P(<<"a", "[", "l", "]">>, <<"y">>),
          P(<<"a", "[", "]">>, v), P(<<"c">>, <<"x">>)>> : v \in Values1, w \in Values1 \cup {<<>>}}
Paths == {<<"x", ".", "y">>, <<"x", ".", ".", "y">>, <<"x", "/", ".", ".", "/", "y">>,
          <<"x", "/", ".", "y">>, <<"con", ".", "x">>, <<"com", "1">>, <<"com", "1", "x">>,
          <<"x", "/", "com", "0", "/", "\\">>, <<"x", "/", "nul", "/", "prn", "/", "x">>,
          <<"x", ":", "y">>, <<"x", "/", "y", "/", "x", "/", "y">>}

\* What one request may be; the next request shows what is left of it.
Firsts ==
  {Get(Sessions), Get(LogOf), Get(StaticOf), Get(<<"/", "s">>), Get(Create),
   [Get(LogOf) EXCEPT !.query = <<P(<<"x", "?", "y">>, <<>>)>>],
   [Get(Sessions) EXCEPT !.fields = <<>>],
   [Get(Sessions) EXCEPT !.fields = <<<<<<"x">>, <<"y">>>>, <<<<"host">>, <<>>>>>>],
   [Get(Sessions) EXCEPT !.fields = <<Long, Host>>],
   [Get(Sessions) EXCEPT !.fields = <<Long, Long, Host>>],
   [Get(Sessions) EXCEPT !.fields = <<Host, Expecting>>],
   [Get(Sessions) EXCEPT !.fields = <<Host, <<<<"up", "grade">>, <<"h", "2", "c">>>>>>],
   [Get(Sessions) EXCEPT !.fields = <<<<<<"up", "grade">>, <<"x">>>>, Host>>],
   [Get(Sessions) EXCEPT !.fields = <<Connection(<<"clo", "se", "CR", "LF", " ", "x">>), Host>>],
   [Get(Sessions) EXCEPT !.fields = <<<<<<"x", " ", "y">>, <<"z">>>>, Host>>],
   [Get(Sessions) EXCEPT !.version = "3.0"], [Get(Sessions) EXCEPT !.version = "2.0"],
   Get(<<"/", "s", "#", "/">>), [Post(Start, "none", <<>>) EXCEPT !.version = "0.9"],
   [Get(LogOf) EXCEPT !.version = "0.9", !.fields = <<>>],
   Request("HEAD", Sessions, <<Host>>, "none", <<>>),
   Request("HEAD", Sessions, <<>>, "none", <<>>),
   Request("HEAD", StaticOf, <<Host>>, "none", <<>>),
   Request("HEAD", LogOf, <<Host>>, "none", <<>>),
   Request("HEAD", Create, <<Host>>, "none", <<>>),
   Request("OPTIONS", Sessions, <<Host>>, "none", <<>>),
   Request("OPTIONS", <<"/", "*">>, <<Host>>, "none", <<>>),
   Request("PUT", Start, <<Host>>, "length", <<"x">>)}
  \cup {Post(Start, framing, <<"0", "LF", "CR", "LF">>) :
          framing \in {"length", "chunked", "trailed", "coded", "both", "twice", "open", "huge", "over"}}
  \cup {[Post(Start, framing, <<"x">>) EXCEPT !.fields = <<Expecting, Host>>] :
          framing \in {"length", "chunked", "trailed"}}
  \cup {[Get(Sessions) EXCEPT !.fields = <<c, Host>>, !.version = v] :
          c \in {Close, Alive}, v \in {"1.0", "1.1"}}

Given ==
  {[Get(LogOf) EXCEPT !.query = q, !.version = "0.9", !.fields = <<>>] : q \in Queries}
  \cup {[Get(<<"/", "s", "tatic", "/">> \o f) EXCEPT !.version = "0.9", !.fields = <<>>] : f \in Paths}

Seconds == {Get(LogOf), Post(Start, "chunked", <<"G", "ET">>)}

\* A header of n pieces, and one that is about as long as it may be after what
\* each framing leaves.
Sized(r, n) ==
  [r EXCEPT !.fields =
     Append(@, <<<<"x">>, [i \in 1..(n - Len(HeaderText(r)) - 5) |-> "y"]>>)]
AtLimit ==
  {<<Post(Start, framing, <<"x">>), Sized(Get(LogOf), MaxHeader + 1 - n)>> :
     framing \in {"length", "chunked", "coded", "trailed"}, n \in {0, 1, 2, 3, 7, 8}}

Scripts ==
  {<<first, second>> : first \in Firsts, second \in Seconds}
  \cup AtLimit
  \cup {<<r>> : r \in Given}
  \cup {<<Post(Create, "length", body)>> : body \in Bodies200}
  \cup {<<Post(Create, framing, body), Get(Sessions)>> :
          framing \in {"length", "chunked"}, body \in BodiesElse}

\* Rules whose trees branch within a segment, and every way to order them.
Patterns == {<<"/", "a">>, <<"/", "a", "/">>, <<"/", "a", "b">>, <<"/", "<int>">>,
             <<"/", "<string>", "/", "a">>, <<"/", "<path>">>, <<"/", "<double>", "/", "<uint>">>}
OtherTables ==
  {<<Rule("GET", x, "text"), Rule("GET", y, "text"), Rule(m, z, "text")>> :
     x \in Patterns, y \in Patterns, z \in Patterns, m \in {"GET", "POST"}}
Distinct(t) ==
  \A i, j \in DOMAIN t :
    i < j /\ t[i].method = t[j].method =>
      t[i].pattern # t[j].pattern
      /\ {t[i].pattern, t[j].pattern} # {<<"/", "a">>, <<"/", "a", "/">>}
Urls == {<<"/">> \o u : u \in {<<>>, <<"a">>, <<"1">>, <<"a", "b">>, <<"a", "/">>, <<"1", "/", "a">>,
                              <<"-", "1">>, <<"1", ".", "0", "/", "1">>, <<"b", "/", "a">>}}
Url09(url) == [Get(url) EXCEPT !.version = "0.9", !.fields = <<>>]

MCCases ==
  {[table |-> EngineTable, script |-> s] : s \in Scripts}
  \cup {[table |-> t, script |-> <<Url09(u)>>] : t \in {o \in OtherTables : Distinct(o)}, u \in Urls}

MCAnswers == {[ok |-> TRUE, texts |-> <<<<"session_", "1">>, <<"x", "\"", "\\", "n">>>>],
              [ok |-> FALSE, texts |-> <<>>]}

MCSplitCases == {[table |-> EngineTable, script |-> <<Get(Sessions)>>]}
MCLimitCases == {[table |-> EngineTable, script |-> s] : s \in AtLimit}
=============================================================================
