---------------------------- MODULE HttpRouting -----------------------------
(***************************************************************************)
(* The routing table of the server: on_request(), unbound_request() and    *)
(* the choice of a rule in call_on_request()                               *)
(* (http/server/detail/server.h), with path_match()                        *)
(* (http/server/detail/request_parser.h) and wildcard_match()              *)
(* (core/algorithm/misc.cpp).                                              *)
(*                                                                         *)
(* A text is a sequence of character codes: the order of std::map and the  *)
(* special characters depend on them.  The methods of a rule and what its  *)
(* controller does are in HttpService.                                     *)
(***************************************************************************)
EXTENDS Integers, Sequences, FiniteSets, SequencesExt

CONSTANTS
  RuleSets,       \* the rules of one call of on_request(): sequences of texts
  Names,          \* the arguments of unbound_request()
  Paths,          \* the paths of requests, as the parser leaves them (blank: not parsed)
  MaxCalls,       \* calls of on_request()
  MaxRequests,    \* requests on the connection
  None            \* no rule, no controller

Star   == 42
Slash  == 47
Quest  == 63
LBrace == 123
RBrace == 125
Root   == <<Slash>>

ASSUME RoutingAssumption ==
  /\ \A p \in Paths : p \in Seq(Nat) /\ (p = <<>> \/ p[1] = Slash)
  /\ \A rules \in RuleSets : rules \in Seq(Seq(Nat))
  /\ MaxCalls \in Nat /\ MaxRequests \in Nat
  /\ None \notin Seq(Nat)

VARIABLES
  table,          \* m_request_handler_map: rule |-> tk_handler
  calls,          \* calls of on_request() so far
  freed,          \* controllers that have been deleted
  args,           \* m_path_args of the parser of the connection
  serving,        \* the tk_handler_ptr of call_on_request() while a handler runs
  last,           \* the last request: its path, the rules there were, what it came to
  requests

vars == <<table, calls, freed, args, serving, last, requests>>

\* made: the call and the turn in its loop that made the handler;  ctrl: its aop pointer.
\* alone: (for the properties) no other handler was given the same controller.
Handlers == [made : Nat \X Nat, ctrl : (Nat \X Nat) \cup {None}, alone : BOOLEAN]

Outcomes == {"idle", "served", "none", "thrown"}

Init ==
  /\ table = [r \in {} |-> None] /\ calls = 0 /\ freed = {}
  /\ args = <<>> /\ serving = None /\ requests = 0
  /\ last = [path |-> <<>>, rules |-> {}, outcome |-> "idle", rule |-> None]

\* ---- Texts ----

\* The n-th of a set of places.
Nth(places, n) == CHOOSE i \in places : Cardinality({j \in places : j < i}) = n - 1

\* rule_path_check(): no two slashes in a row, and one at the start.
RulePathCheck(p) ==
  LET kept == {i \in 1..Len(p) : ~(i > 1 /\ p[i] = Slash /\ p[i - 1] = Slash)}
      q == [n \in 1..Cardinality(kept) |-> p[Nth(kept, n)]]
  IN  IF q # <<>> /\ q[1] = Slash THEN q ELSE Root \o q

\* What str_trimmed() takes away at both ends of a text.
Space(c) == c \in 1..32

\* string_list::from_string(p, "/"): pieces that are blank, or blank after trimming, are
\* left out; the others are kept untrimmed.
Segments(p) ==
  LET starts == {i \in 1..Len(p) : p[i] # Slash /\ (i = 1 \/ p[i - 1] = Slash)}
      ends   == {i \in 1..Len(p) : p[i] # Slash /\ (i = Len(p) \/ p[i + 1] = Slash)}
      End(i) == CHOOSE j \in ends : i <= j /\ \A e \in ends : i <= e => j <= e
      kept   == {i \in starts : \E j \in i..End(i) : ~Space(p[j])}
  IN  [n \in 1..Cardinality(kept) |->
         LET i == Nth(kept, n) IN SubSeq(p, i, End(i))]

\* string_list::join() of a list that is not empty (of an empty one it throws).
Join(segs) == Tail(FlattenSeq([i \in 1..Len(segs) |-> Root \o segs[i]]))

\* The order of std::map: the first n characters are the same, then a ends or is less.
Before(a, b) ==
  \E n \in 0..Len(b) - 1 :
    /\ n <= Len(a) /\ \A i \in 1..n : a[i] = b[i]
    /\ n < Len(a) => a[n + 1] < b[n + 1]

InOrder(S) ==
  [n \in 1..Cardinality(S) |-> CHOOSE r \in S : Cardinality({q \in S : Before(q, r)}) = n - 1]

\* ---- wildcard_match() ----

\* Mutation: a '*' stands for one character or more.
Matches_Plus(rule, str) ==
  LET dp[c \in (0..Len(str)) \X (0..Len(rule))] ==
        LET i == c[1]  j == c[2] IN
        CASE i = 0 \/ j = 0 -> i = j
          [] i # 0 /\ j # 0 /\ rule[j] \in {Quest, str[i]} -> dp[<<i - 1, j - 1>>]
          [] i # 0 /\ j # 0 /\ rule[j] = Star -> dp[<<i - 1, j>>] \/ dp[<<i - 1, j - 1>>]
          [] OTHER -> FALSE
  IN  dp[<<Len(str), Len(rule)>>]

\* dp[i][j], from the cells before it: the first i characters of str match the first j of rule.
Cell(rule, str, dp, i, j) ==
  CASE j = 0 -> i = 0
    [] i = 0 /\ j # 0 -> rule[j] = Star /\ dp[<<0, j - 1>>]
    [] i # 0 /\ j # 0 /\ rule[j] \in {Quest, str[i]} -> dp[<<i - 1, j - 1>>]
    [] i # 0 /\ j # 0 /\ rule[j] = Star /\ str[i] # Star ->
         dp[<<i - 1, j>>] \/ dp[<<i, j - 1>>]
    [] OTHER -> FALSE

Matches(rule, str) ==
  LET dp[c \in (0..Len(str)) \X (0..Len(rule))] == Cell(rule, str, dp, c[1], c[2])
  IN  dp[<<Len(str), Len(rule)>>]

\* What a cell of the table adds to the weight: every one counts, on the way or not.
CellWeight(r, s) == CASE r = Quest -> 1
                      [] r = Star /\ s # Star -> 2
                      [] OTHER -> 0

RowWeight(rule, s) ==
  LET sum[j \in 0..Len(rule)] == IF j = 0 THEN 0 ELSE sum[j - 1] + CellWeight(rule[j], s)
  IN  sum[Len(rule)]

Weight(rule, str) ==
  LET sum[i \in 0..Len(str)] == IF i = 0 THEN 0 ELSE sum[i - 1] + RowWeight(rule, str[i])
  IN  sum[Len(str)]

\* ---- path_match() ----

Braced(s) == s[1] = LBrace /\ s[Len(s)] = RBrace

\* A braced text with braces in it is passed over by the loop, without ending it.
IsArg(s) == Braced(s) /\ \A i \in 2..Len(s) - 1 : s[i] \notin {LBrace, RBrace}

RuleList(rule) == IF rule = Root THEN <<Root>> ELSE Segments(rule)
PathList(path) == IF Segments(path) = <<>> THEN <<Root>> ELSE Segments(path)

\* The keys of the arguments at the end of a rule.
Keys(segs) ==
  LET found == {i \in 1..Len(segs) : IsArg(segs[i]) /\ \A j \in i..Len(segs) : Braced(segs[j])}
  IN  [n \in 1..Cardinality(found) |->
         LET s == segs[Nth(found, n)] IN SubSeq(s, 2, Len(s) - 1)]

RuleBefore(rule) == SubSeq(RuleList(rule), 1, Len(RuleList(rule)) - Len(Keys(RuleList(rule))))
PathBefore(rule, path) == SubSeq(PathList(path), 1, Len(PathList(path)) - Len(Keys(RuleList(rule))))

\* The arguments by which a rule that matches replaces m_path_args.
ArgsOf(rule, path) ==
  LET keys == Keys(RuleList(rule))
      from == Len(PathList(path)) - Len(keys)
  IN  [i \in 1..Len(keys) |-> <<keys[i], PathList(path)[from + i]>>]

TooShort(rule, path) == Len(PathList(path)) < Len(RuleList(rule))

\* A rule of arguments only, or of spaces: join() of nothing throws, whatever the path.
PathMatchThrows(rule, path) == ~TooShort(rule, path) /\ RuleBefore(rule) = <<>>

PathMatches(rule, path) ==
  /\ ~TooShort(rule, path) /\ RuleBefore(rule) # <<>>
  /\ Matches(Join(RuleBefore(rule)), Join(PathBefore(rule, path)))

PathWeight(rule, path) == Weight(Join(RuleBefore(rule)), Join(PathBefore(rule, path)))

\* ---- on_request() and unbound_request() ----

\* The process has not ended (see Request).
Running == last.outcome # "thrown"

Kinds == {"function", "shared_ptr", "pointer"}

\* Mutation: a rule that is already there is replaced.
Taken_Never(t, p) == p = <<>>

Taken(t, p) == p = <<>> \/ RulePathCheck(p) \in DOMAIN t

\* The controller that turn n of the loop of call c gives to its handler: a new one for a
\* function; a shared_ptr is moved out by the first turn; a pointer is taken every time.
Controller(kind, c, n) ==
  CASE kind = "function" -> <<c, n>>
    [] kind = "shared_ptr" -> IF n = 1 THEN <<c, 1>> ELSE None
    [] kind = "pointer" -> <<c, 1>>

\* The first n turns of the loop do not throw: no rule is blank, taken or the rule of an
\* earlier turn.
Accepts(rules, n) ==
  \A i \in 1..n :
    /\ ~Taken(table, rules[i])
    /\ \A j \in 1..i - 1 : RulePathCheck(rules[j]) # RulePathCheck(rules[i])

NewHandler(kind, rules, n) ==
  [made |-> <<calls', n>>, ctrl |-> Controller(kind, calls', n),
   alone |-> kind = "function" \/ Len(rules) = 1]

\* The turn that throws ends the loop; the rules before it stay.
OnRequest(kind, rules) ==
  /\ Running /\ calls < MaxCalls /\ calls' = calls + 1
  /\ \E n \in 0..Len(rules) :
       /\ Accepts(rules, n)
       /\ n < Len(rules) => ~Accepts(rules, n + 1)
       /\ LET bound == {RulePathCheck(rules[i]) : i \in 1..n}
              turn(r) == CHOOSE i \in 1..n : RulePathCheck(rules[i]) = r
          IN  table' = [r \in DOMAIN table \cup bound |->
                          IF r \in bound THEN NewHandler(kind, rules, turn(r)) ELSE table[r]]
  /\ UNCHANGED <<freed, args, serving, last, requests>>

\* Mutation: the running request does not keep its handler.
Dropped_Always(h) == IF h.ctrl # None THEN {h.ctrl} ELSE {}

\* The controllers that go with a handler that leaves the table: none while the running
\* request has a tk_handler_ptr to it.
Dropped(h) == IF h.ctrl # None /\ serving # h THEN {h.ctrl} ELSE {}

\* The name is not put through rule_path_check().
UnboundRequest(name) ==
  /\ Running /\ name \in DOMAIN table
  /\ freed' = freed \cup Dropped(table[name])
  /\ table' = [r \in DOMAIN table \ {name} |-> table[r]]
  /\ UNCHANGED <<calls, args, serving, last, requests>>

\* ---- call_on_request() ----

\* path_length is never set: of two equal weights the later one wins, unless the path is
\* blank.
Better(w, acc, path) ==
  acc.rule = None \/ w < acc.weight \/ (w = acc.weight /\ Len(path) > 0)

Ends(w) == w = 0

\* Mutation: a rule without arguments leaves those of before.
Replaced_Kept(old, r, path) == IF ArgsOf(r, path) = <<>> THEN old ELSE ArgsOf(r, path)

\* m_path_args after rule r has matched.
Replaced(old, r, path) == ArgsOf(r, path)

\* One turn of the loop over the table, for rule r.
Turn(acc, r, path) ==
  CASE acc.end # "no" -> acc
    [] acc.end = "no" /\ PathMatchThrows(r, path) -> [acc EXCEPT !.end = "thrown"]
    [] acc.end = "no" /\ PathMatches(r, path) ->
         LET w == PathWeight(r, path)
             seen == [acc EXCEPT !.args = Replaced(@, r, path)]
         IN  IF Ends(w) THEN [seen EXCEPT !.rule = r, !.weight = w, !.end = "found"]
             ELSE IF Better(w, acc, path) THEN [seen EXCEPT !.rule = r, !.weight = w]
             ELSE seen
    [] OTHER -> acc

NoTurn == [rule |-> None, weight |-> 0, args |-> args, end |-> "no"]

Chosen(path) ==
  LET rules == InOrder(DOMAIN table)
      acc[n \in 0..Len(rules)] == IF n = 0 THEN NoTurn ELSE Turn(acc[n - 1], rules[n], path)
  IN  acc[Len(rules)]

\* An exception of path_match() meets no try of call_on_request(): it leaves
\* do_tcp_service(), and the handler at server.h:185-197 ends the process.
Request(path) ==
  /\ Running /\ serving = None /\ requests < MaxRequests
  /\ requests' = requests + 1
  /\ LET c == Chosen(path)
         Came(to, r) == [path |-> path, rules |-> DOMAIN table, outcome |-> to, rule |-> r]
     IN  /\ args' = c.args
         /\ \/ /\ c.end = "thrown"
               /\ last' = Came("thrown", None) /\ UNCHANGED serving
            \/ /\ c.end # "thrown" /\ c.rule = None
               /\ last' = Came("none", None) /\ UNCHANGED serving
            \/ /\ c.end # "thrown" /\ c.rule \in DOMAIN table
               /\ last' = Came("served", c.rule) /\ serving' = table[c.rule]
  /\ UNCHANGED <<table, calls, freed>>

\* The handler returns; if its rule has gone meanwhile the controller goes now.
Answered ==
  /\ serving # None
  /\ serving' = None
  /\ freed' = freed \cup
       IF serving.ctrl # None /\ \A r \in DOMAIN table : table[r] # serving
       THEN {serving.ctrl} ELSE {}
  /\ UNCHANGED <<table, calls, args, last, requests>>

Next ==
  \/ \E kind \in Kinds, rules \in RuleSets : OnRequest(kind, rules)
  \/ \E name \in Names : UnboundRequest(name)
  \/ \E path \in Paths : Request(path)
  \/ Answered

Spec == Init /\ [][Next]_vars

\* ---- Properties ----

TypeOK ==
  /\ \A r \in DOMAIN table : r \in Seq(Nat) /\ r[1] = Slash /\ table[r] \in Handlers
  /\ calls \in 0..MaxCalls /\ freed \subseteq Nat \X Nat
  /\ args \in Seq(Seq(Nat) \X Seq(Nat)) /\ serving \in Handlers \cup {None}
  /\ last.path \in Paths \cup {<<>>} /\ last.outcome \in Outcomes
  /\ requests \in 0..MaxRequests

\* The ends of the prefixes of str that a rule stands for, when it stands for those that
\* end at the places in S and goes on with character c.
EndsWith(c, str, S) ==
  IF c = Star THEN {q \in 0..Len(str) : \E p \in S : p <= q}
  ELSE {q \in 1..Len(str) : q - 1 \in S /\ c \in {Quest, str[q]}}

\* What '*' (any characters) and '?' (one character) mean.
Reaches(rule, str) ==
  LET to[j \in 0..Len(rule)] == IF j = 0 THEN {0} ELSE EndsWith(rule[j], str, to[j - 1])
  IN  Len(str) \in to[Len(rule)]

Count(text, c) == Cardinality({i \in 1..Len(text) : text[i] = c})

\* A rule stands for a path when what comes before its arguments does.
StandsFor(rule, path) ==
  /\ ~TooShort(rule, path) /\ RuleBefore(rule) # <<>>
  /\ Reaches(Join(RuleBefore(rule)), Join(PathBefore(rule, path)))

\* How far a rule is from naming a path: its wildcards, '*' twice, for every character;
\* those in the keys of its arguments are not counted.
Distance(rule, path) ==
  LET text == Join(RuleBefore(rule))
  IN  Len(Join(PathBefore(rule, path))) * (Count(text, Quest) + 2 * Count(text, Star))

Standing == {r \in last.rules : StandsFor(r, last.path)}

\* Of equally near rules it is always the same one that serves, whatever the order of
\* the calls of on_request(): the first in the order of the map if they have no
\* wildcards, otherwise the last (the comparison of path lengths at server.h:284 does
\* not decide it).
WinsTie(rule, r, path) ==
  IF Distance(r, path) = 0 \/ path = <<>> THEN Before(rule, r) ELSE Before(r, rule)

\* A path without a '*'.  A client can send one (as %2A), and then wildcard_match() misses
\* rules that stand for the path: it compares the characters before it looks for a '*' in
\* the rule (misc.cpp:181-187), so that over a '*' of the path a '*' stands for one
\* character: "/*" is not found for "/a%2A".
Starless(path) == \A i \in 1..Len(path) : path[i] # Star

\* The outcome of a request is a matter of the rules (the tables of misc.cpp:160-194 and
\* the loop of server.h:273-289 against what '*' and '?' mean).  A request for a path
\* without a '*' is served by the nearest rule that stands for its path; it is refused only
\* when there is none; and routing throws only because of a rule that is nothing but
\* arguments or spaces (join() of an empty list, request_parser.h:288), which no rule
\* without wildcards precedes.
NearestRuleServes ==
  Starless(last.path) =>
    /\ last.outcome = "served" =>
         /\ last.rule \in Standing
         /\ \A r \in Standing \ {last.rule} :
              LET d == Distance(last.rule, last.path) IN
              \/ d < Distance(r, last.path)
              \/ d = Distance(r, last.path) /\ WinsTie(last.rule, r, last.path)
    /\ last.outcome = "none" => Standing = {}
    /\ last.outcome = "thrown" =>
         \E r \in last.rules :
           /\ RuleBefore(r) = <<>>
           /\ \A s \in Standing : Distance(s, last.path) = 0 => Before(r, s)

\* For a path without a '*', the handler of a rule without wildcards, or of the only rule
\* that stands for the path, finds the arguments of this path under the keys of its rule,
\* not those of another rule that was tried or of an earlier request of the connection.
ArgsAreTheRules ==
  /\ Starless(last.path) /\ last.outcome = "served"
  /\ Distance(last.rule, last.path) = 0 \/ Standing = {last.rule}
  => args = ArgsOf(last.rule, last.path)

\* The controller a request runs in has not been deleted, also when its rule is unbound
\* while the handler is suspended; unless it was given to several rules at once as a
\* pointer or a shared_ptr (server.h:650, 673).
ServingIsAlive ==
  serving # None /\ serving.alone => serving.ctrl # None /\ serving.ctrl \notin freed

\* on_request() never changes the handler of a rule that is in the table.
BoundRulesStay ==
  [][\A r \in DOMAIN table \cap DOMAIN table' : table'[r] = table[r]]_vars

\* ---- The inductive invariant of ServingIsAlive ----

\* The handlers that somebody holds: the table and the running request.
Held == {table[r] : r \in DOMAIN table} \cup ({serving} \ {None})

\* A handler and its controller come from the same call; one that is alone has its own.
FromItsCall(h) ==
  /\ h.made[1] \in 1..calls
  /\ h.ctrl # None => h.ctrl[1] = h.made[1]
  /\ h.alone => h.ctrl = h.made

OwnersInv ==
  /\ calls \in Nat /\ freed \subseteq (1..calls) \X Nat
  /\ \A h \in Held : h \in Handlers /\ FromItsCall(h)
  /\ \A q, r \in DOMAIN table : table[q] = table[r] => q = r
  /\ \A g, h \in Held : h.alone /\ g.ctrl = h.ctrl => g = h
  /\ \A h \in Held : h.alone => h.ctrl \notin freed

\* ---- The inductive invariant of NearestRuleServes and ArgsAreTheRules ----

\* The rules of the table are texts, and finitely many.
RulesInv == IsFiniteSet(DOMAIN table) /\ DOMAIN table \subseteq Seq(Nat)

RoutedInv == RulesInv /\ NearestRuleServes /\ ArgsAreTheRules
=============================================================================
