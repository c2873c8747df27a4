------------------------------- MODULE Router -------------------------------
(***************************************************************************)
(* crow::Trie and crow::Router (src/include/crow/routing.h): a table of    *)
(* rules becomes one search tree per method, the trees are compressed, and *)
(* a request finds its rule in them.  A pattern and the path of a URL are  *)
(* sequences of pieces; a piece of a pattern is a piece of text or a       *)
(* parameter.  Blueprints and catchall rules, which this server has none   *)
(* of, are left out.                                                       *)
(***************************************************************************)
EXTENDS Octets

Params == {"<int>", "<uint>", "<double>", "<string>", "<path>"}
Redirect == 1        \* RULE_SPECIAL_REDIRECT_SLASH
Clash == -1          \* "handler already exists"

\* Trie::Node; the key of a parameter is empty.
NewNode(param, key) == [rule |-> 0, param |-> param, key |-> key, children |-> <<>>]
Root == NewNode("none", <<>>)

\* Trie::add, into a tree whose nodes hold one piece each.
RECURSIVE Add(_, _, _)
Add(node, pattern, rule) ==
  IF pattern = <<>>
  THEN [node EXCEPT !.rule = IF @ = 0 THEN rule ELSE Clash]
  ELSE LET c == Head(pattern)
           isFor(child) == IF c \in Params THEN child.param = c
                           ELSE child.key # <<>> /\ child.key[1] = c
           fresh == IF c \in Params THEN NewNode(c, <<>>) ELSE NewNode("none", <<c>>)
           at == SelectInSeq(node.children, isFor)
       IN  IF at = 0
           THEN [node EXCEPT !.children = Append(@, Add(fresh, Tail(pattern), rule))]
           ELSE [node EXCEPT !.children[at] = Add(@, Tail(pattern), rule)]

\* Faulty: it lets a node with a rule be merged into its child.
IsSingleNode(node) ==
  /\ node.param = "none" /\ Len(node.children) < 2
  /\ \A i \in DOMAIN node.children : node.children[i].param = "none"

IsSimpleNode(node) ==
  /\ node.rule = 0 /\ node.param = "none" /\ Len(node.children) < 2
  /\ \A i \in DOMAIN node.children : node.children[i].param = "none"

\* optimizeNode: a node that only leads to the next piece takes it in.
RECURSIVE OptimizeNode(_)
OptimizeNode(node) ==
  IF node.children = <<>> THEN node
  ELSE IF IsSimpleNode(node)
  THEN LET child == node.children[1] IN
       OptimizeNode([child EXCEPT !.param = node.param, !.key = node.key \o @])
  ELSE [node EXCEPT !.children = [i \in DOMAIN @ |-> OptimizeNode(@[i])]]

\* Trie::validate.
Optimize(head) == [head EXCEPT !.children = [i \in DOMAIN @ |-> OptimizeNode(@[i])]]

\* strtoll, strtoull and strtod: the positions after a number that begins at pos.
NumberEnds(url, pos, signs, point) ==
  {e \in (pos + 1)..(Len(url) + 1) :
     LET first == IF url[pos] \in signs THEN pos + 1 ELSE pos IN
     /\ first < e
     /\ \A i \in first..(e - 1) : url[i] \in Numerals \/ (point /\ url[i] = ".")
     /\ Cardinality({i \in first..(e - 1) : url[i] = "."}) <= 1
     /\ \E i \in first..(e - 1) : url[i] \in Numerals}
Longest(ends) == {e \in ends : \A f \in ends : f <= e}

\* Where the text that a child stands for ends, if it is there.
Ends(child, url, pos) ==
  CASE child.param = "<int>"    -> Longest(NumberEnds(url, pos, {"+", "-"}, FALSE))
    [] child.param = "<uint>"   -> Longest(NumberEnds(url, pos, {"+"}, FALSE))
    [] child.param = "<double>" -> Longest(NumberEnds(url, pos, {"+", "-"}, TRUE))
    [] child.param = "<string>" ->
         {e \in (pos + 1)..(Len(url) + 1) :
            /\ \A i \in pos..(e - 1) : url[i] # "/"
            /\ e = Len(url) + 1 \/ url[e] = "/"}
    [] child.param = "<path>"   -> {Len(url) + 1}
    [] OTHER -> {e \in {pos + Len(child.key)} :
                   e <= Len(url) + 1 /\ SubSeq(url, pos, e - 1) = child.key}

\* Trie::find: the least rule of those that any path through the tree reaches.
RECURSIVE FindFrom(_, _, _, _)
FindFrom(url, node, pos, params) ==
  IF pos > Len(url) THEN [rule |-> node.rule, params |-> params]
  ELSE LET bind(child, e) == IF child.param = "none" THEN params
                             ELSE Append(params, SubSeq(url, pos, e - 1))
           updateFound(found, ret) ==
             IF ret.rule # 0 /\ (found.rule = 0 \/ found.rule > ret.rule) THEN ret ELSE found
           through(found, child) ==
             LET ends == Ends(child, url, pos) IN
             IF ends = {} THEN found
             ELSE LET e == CHOOSE x \in ends : TRUE IN
                  updateFound(found, FindFrom(url, child, e, bind(child, e)))
       IN  FoldLeft(through, [rule |-> 0, params |-> <<>>], node.children)
Find(trie, url) == FindFrom(url, trie, 1, <<>>)
-----------------------------------------------------------------------------
Methods == {"GET", "HEAD", "OPTIONS", "CONNECT", "POST", "PUT"}

\* PerMethod: the rules 0 and 1 have a meaning of their own, so the first rule
\* of a method is its rule 2.
RulesOf(table, method) == SelectSeq(table, LAMBDA r : r.method = method)

\* internal_add_rule_object: a rule with a slash at its end redirects to it
\* from the URL without.
AddRule(trie, pattern, rule) ==
  LET added == Add(trie, pattern, rule) IN
  IF Len(pattern) > 1 /\ pattern[Len(pattern)] = "/"
  THEN Add(added, SubSeq(pattern, 1, Len(pattern) - 1), Redirect)
  ELSE added

\* Router::validate.
Tries(table) ==
  [m \in Methods |->
     LET rules == RulesOf(table, m)
         numbered == [i \in DOMAIN rules |-> [pattern |-> rules[i].pattern, rule |-> i + 1]]
     IN  Optimize(FoldLeft(LAMBDA trie, r : AddRule(trie, r.pattern, r.rule), Root, numbered))]

\* What validate throws at: a rule that is already there, and a tree whose
\* head has not exactly one way on.
RECURSIVE HasClash(_)
HasClash(node) == node.rule = Clash \/ \E i \in DOMAIN node.children : HasClash(node.children[i])
Valid(tries) == \A m \in Methods : ~HasClash(tries[m]) /\ IsSimpleNode(tries[m])

\* get_error: with neither a blueprint nor a catch-all rule in the server, all
\* that is set is the status.
NoRule(method, code) == [rule |-> 0, params |-> <<>>, method |-> method, code |-> code]

\* handle_initial: the rule of a request, the method whose rule it is, and the
\* status of the answer when there is none.
HandleInitial(tries, method, url) ==
  LET own == Find(tries[method], url)
      byGet == Find(tries["GET"], url)
      others == {m \in Methods : Find(tries[m], url).rule # 0}
      rule(found, m) == [rule |-> found.rule, params |-> found.params, method |-> m, code |-> 0]
  IN  CASE method = "OPTIONS" -> NoRule(method, IF url = <<"/", "*">> \/ others # {} THEN 204 ELSE 404)
        [] method # "OPTIONS" /\ own.rule # 0 -> rule(own, method)
        [] method = "HEAD" /\ own.rule = 0 /\ byGet.rule # 0 -> rule(byGet, "GET")
        [] OTHER -> NoRule(method, IF method # "HEAD" /\ others # {} THEN 405 ELSE 404)
-----------------------------------------------------------------------------
(* What a table of rules declares, without the trees. *)

Admits(param, text) ==
  CASE param = "<path>"   -> text # <<>>
    [] param = "<string>" -> text # <<>> /\ \A i \in DOMAIN text : text[i] # "/"
    [] OTHER -> text # <<>>
                /\ Len(text) + 1 \in NumberEnds(text, 1,
                     IF param = "<uint>" THEN {"+"} ELSE {"+", "-"}, param = "<double>")

\* The ways to cut a URL so that each parameter of a pattern admits its part.
RECURSIVE Bindings(_, _)
Bindings(pattern, url) ==
  IF pattern = <<>> THEN IF url = <<>> THEN {<<>>} ELSE {}
  ELSE IF Head(pattern) \in Params
  THEN UNION {{<<SubSeq(url, 1, n)>> \o b : b \in Bindings(Tail(pattern), SubSeq(url, n + 1, Len(url)))} :
              n \in {i \in 1..Len(url) : Admits(Head(pattern), SubSeq(url, 1, i))}}
  ELSE IF url # <<>> /\ Head(url) = Head(pattern)
  THEN Bindings(Tail(pattern), Tail(url)) ELSE {}

\* The rules of a method that a URL matches; with a slash more it may match one
\* that ends in a slash.
Declared(table, method, url) ==
  LET rules == RulesOf(table, method) IN
  {i + 1 : i \in {j \in DOMAIN rules : Bindings(rules[j].pattern, url) # {}}}
  \cup {Redirect : i \in {j \in DOMAIN rules :
          /\ Len(rules[j].pattern) > 1
          /\ rules[j].pattern[Len(rules[j].pattern)] = "/"
          /\ Bindings(SubSeq(rules[j].pattern, 1, Len(rules[j].pattern) - 1), url) # {}}}
=============================================================================
