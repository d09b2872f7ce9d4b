-------------------------- MODULE HttpRoutingProofs --------------------------
(***************************************************************************)
(* Proofs about HttpRouting for every set of rules, names and paths: the   *)
(* life of the controllers and the stability of the table; then what       *)
(* wildcard_match(), path_match() and the loop of call_on_request()        *)
(* compute, and that the nearest rule serves with its own arguments.       *)
(***************************************************************************)
EXTENDS HttpRouting, FiniteSetTheorems, WellFoundedInduction, TLAPS

\* What stands for no controller is not one: a pair of numbers is a sequence of numbers.
LEMMA NoneIsNoController ==
  None \notin Nat \X Nat
<1>1. \A p \in Nat \X Nat : p \in Seq(Nat)
  <2> TAKE p \in Nat \X Nat
  <2>1. PICK i \in Nat, j \in Nat : p = <<i, j>>
    OBVIOUS
  <2>2. <<i, j>> \in Seq(Nat)
    OBVIOUS
  <2>3. QED
    BY <2>1, <2>2
<1>2. QED
  BY <1>1, RoutingAssumption

\* Where a rule of the table comes from after on_request().
LEMMA OnRequestTable ==
  ASSUME NEW kind \in Kinds, NEW rules \in RuleSets, calls \in Nat, OnRequest(kind, rules)
  PROVE  \E n \in 0..Len(rules), turn \in [DOMAIN table' -> Nat] :
           /\ DOMAIN table \subseteq DOMAIN table'
           /\ \A r \in DOMAIN table : table'[r] = table[r]
           /\ \A r \in DOMAIN table' \ DOMAIN table :
                /\ turn[r] \in 1..n /\ r = RulePathCheck(rules[turn[r]])
                /\ table'[r] = NewHandler(kind, rules, turn[r])
<1>1. Len(rules) \in Nat /\ \A i \in 1..Len(rules) : rules[i] \in Seq(Nat)
  BY RoutingAssumption
<1>2. PICK n \in 0..Len(rules) :
        /\ Accepts(rules, n)
        /\ LET bound == {RulePathCheck(rules[i]) : i \in 1..n}
               turn(r) == CHOOSE i \in 1..n : RulePathCheck(rules[i]) = r
           IN  table' = [r \in DOMAIN table \cup bound |->
                           IF r \in bound THEN NewHandler(kind, rules, turn(r)) ELSE table[r]]
  BY DEF OnRequest
<1> DEFINE bound == {RulePathCheck(rules[i]) : i \in 1..n}
           at(r) == CHOOSE i \in 1..n : RulePathCheck(rules[i]) = r
           turn == [r \in DOMAIN table' |-> IF r \in bound THEN at(r) ELSE 0]
<1>3. \A r \in bound : at(r) \in 1..n /\ r = RulePathCheck(rules[at(r)])
  OBVIOUS
<1>4. \A r \in bound : r \notin DOMAIN table
  BY <1>2 DEF Accepts, Taken
<1>5. /\ DOMAIN table' = DOMAIN table \cup bound
      /\ \A r \in DOMAIN table \cup bound :
           table'[r] = IF r \in bound THEN NewHandler(kind, rules, at(r)) ELSE table[r]
  BY <1>2
<1>6. turn \in [DOMAIN table' -> Nat]
  BY <1>3
<1>7. \A r \in DOMAIN table' \ DOMAIN table : r \in bound /\ turn[r] = at(r)
  BY <1>5
<1> HIDE DEF bound, at, turn
<1>8. /\ DOMAIN table \subseteq DOMAIN table'
      /\ \A r \in DOMAIN table : table'[r] = table[r]
      /\ \A r \in DOMAIN table' \ DOMAIN table :
           /\ turn[r] \in 1..n /\ r = RulePathCheck(rules[turn[r]])
           /\ table'[r] = NewHandler(kind, rules, turn[r])
  BY <1>3, <1>4, <1>5, <1>7
<1>9. n \in 0..Len(rules)
  BY <1>2
<1>10. QED
  BY <1>6, <1>8, <1>9, Zenon

-----------------------------------------------------------------------------
\* on_request(): a rule that is in the table keeps its handler, whatever is registered
\* or fails to be registered next to it, and unbound_request() only takes rules away.
THEOREM BoundRulesAreKept == Spec => BoundRulesStay
<1> DEFINE Stay == \A r \in DOMAIN table \cap DOMAIN table' : table'[r] = table[r]
           Counts == calls \in Nat
<1>1. Init => Counts
  BY DEF Init
<1>2. Counts /\ [Next]_vars => Counts'
  <2> SUFFICES ASSUME Counts, [Next]_vars PROVE calls' \in {calls, calls + 1}
    OBVIOUS
  <2>1. ASSUME NEW kind \in Kinds, NEW rules \in RuleSets, OnRequest(kind, rules)
        PROVE  calls' = calls + 1
    BY <2>1 DEF OnRequest
  <2>2. ASSUME NEW path \in Paths, Request(path) PROVE calls' = calls
    BY <2>2 DEF Request
  <2>3. ASSUME NEW name \in Names, UnboundRequest(name) PROVE calls' = calls
    BY <2>3 DEF UnboundRequest
  <2>4. CASE Answered \/ UNCHANGED vars
    BY <2>4 DEF Answered, vars
  <2>5. QED
    BY <2>1, <2>2, <2>3, <2>4 DEF Next
<1>3. Counts /\ [Next]_vars => [Stay]_vars
  <2> SUFFICES ASSUME Counts, Next PROVE Stay
    BY DEF vars
  <2>1. ASSUME NEW kind \in Kinds, NEW rules \in RuleSets, OnRequest(kind, rules) PROVE Stay
    BY <2>1, OnRequestTable
  <2>2. ASSUME NEW name \in Names, UnboundRequest(name) PROVE Stay
    BY <2>2 DEF UnboundRequest
  <2>3. CASE Answered \/ \E path \in Paths : Request(path)
    BY <2>3 DEF Answered, Request
  <2>4. QED
    BY <2>1, <2>2, <2>3 DEF Next
<1>4. QED
  BY <1>1, <1>2, <1>3, PTL DEF Spec, BoundRulesStay

-----------------------------------------------------------------------------
\* A handler that on_request() makes has its call as its origin and, alone, a controller of
\* its own.
LEMMA NewHandlerFits ==
  ASSUME NEW kind \in Kinds, NEW rules, Len(rules) \in Nat,
         calls \in Nat, calls' = calls + 1, NEW n \in 1..Len(rules)
  PROVE  LET h == NewHandler(kind, rules, n)
         IN  /\ h \in Handlers
             /\ h.made = <<calls', n>>
             /\ h.ctrl # None => h.ctrl[1] = calls'
             /\ h.alone => h.ctrl = h.made
             /\ h.alone = (kind = "function" \/ Len(rules) = 1)
<1>1. calls' \in Nat /\ <<calls', n>> \in Nat \X Nat /\ <<calls', 1>> \in Nat \X Nat
  OBVIOUS
<1>2. Controller(kind, calls', n) \in (Nat \X Nat) \cup {None}
  BY <1>1 DEF Controller, Kinds
<1>3. (kind = "function" \/ Len(rules) = 1) \in BOOLEAN
  OBVIOUS
<1>4. Controller(kind, calls', n) # None => Controller(kind, calls', n)[1] = calls'
  BY <1>1 DEF Controller, Kinds
<1>5. kind = "function" \/ Len(rules) = 1 => Controller(kind, calls', n) = <<calls', n>>
  <2>1. Len(rules) = 1 => n = 1
    OBVIOUS
  <2>2. CASE kind = "function"
    BY <2>2 DEF Controller
  <2>3. CASE Len(rules) = 1
    BY <2>1, <2>3 DEF Controller, Kinds
  <2>4. QED
    BY <2>2, <2>3
<1> DEFINE h == NewHandler(kind, rules, n)
<1>6. /\ h.made = <<calls', n>> /\ h.ctrl = Controller(kind, calls', n)
      /\ h.alone = (kind = "function" \/ Len(rules) = 1)
  BY Zenon DEF NewHandler
<1>7. h \in Handlers
  BY <1>1, <1>2, <1>3, Zenon DEF NewHandler, Handlers
<1> HIDE DEF h
<1>8. QED
  BY <1>4, <1>5, <1>6, <1>7, Zenon DEF h

\* on_request() keeps the invariant: its handlers are new, and so are their controllers.
LEMMA OwnersOnRequest ==
  ASSUME OwnersInv, NEW kind \in Kinds, NEW rules \in RuleSets, OnRequest(kind, rules)
  PROVE  OwnersInv'
<1> USE DEF OwnersInv
<1>1. Len(rules) \in Nat
  BY RoutingAssumption
<1>2. PICK n \in 0..Len(rules), turn \in [DOMAIN table' -> Nat] :
           /\ DOMAIN table \subseteq DOMAIN table'
           /\ \A r \in DOMAIN table : table'[r] = table[r]
           /\ \A r \in DOMAIN table' \ DOMAIN table :
                /\ turn[r] \in 1..n /\ r = RulePathCheck(rules[turn[r]])
                /\ table'[r] = NewHandler(kind, rules, turn[r])
  BY OnRequestTable
<1>3. calls' = calls + 1 /\ freed' = freed /\ serving' = serving
  BY DEF OnRequest
<1> DEFINE New == DOMAIN table' \ DOMAIN table
           alone == kind = "function" \/ Len(rules) = 1
<1>4. ASSUME NEW r \in New
      PROVE  /\ turn[r] \in 1..Len(rules) /\ r = RulePathCheck(rules[turn[r]])
             /\ table'[r] \in Handlers
             /\ table'[r].made = <<calls', turn[r]>>
             /\ table'[r].ctrl # None => table'[r].ctrl[1] = calls'
             /\ table'[r].alone => table'[r].ctrl = table'[r].made
             /\ table'[r].alone = alone
  <2>1. turn[r] \in 1..Len(rules)
    BY <1>1, <1>2
  <2>2. table'[r] = NewHandler(kind, rules, turn[r]) /\ r = RulePathCheck(rules[turn[r]])
    BY <1>2
  <2>3. calls \in Nat
    OBVIOUS
  <2> HIDE DEF OwnersInv, New
  <2>4. LET h == NewHandler(kind, rules, turn[r])
        IN  /\ h \in Handlers
            /\ h.made = <<calls', turn[r]>>
            /\ h.ctrl # None => h.ctrl[1] = calls'
            /\ h.alone => h.ctrl = h.made
            /\ h.alone = (kind = "function" \/ Len(rules) = 1)
    <3>1. calls' = calls + 1
      BY <1>3
    <3> DEFINE i == turn[r]
    <3>2. i \in 1..Len(rules)
      BY <2>1
    <3> HIDE DEF i
    <3>3. LET h == NewHandler(kind, rules, i)
          IN  /\ h \in Handlers
              /\ h.made = <<calls', i>>
              /\ h.ctrl # None => h.ctrl[1] = calls'
              /\ h.alone => h.ctrl = h.made
              /\ h.alone = (kind = "function" \/ Len(rules) = 1)
      BY <1>1, <2>3, <3>1, <3>2, NewHandlerFits
    <3>4. QED
      BY <3>3 DEF i
  <2> DEFINE h == NewHandler(kind, rules, turn[r])
  <2>5. table'[r] = h /\ r = RulePathCheck(rules[turn[r]])
    BY <2>2
  <2>6. /\ h \in Handlers /\ h.made = <<calls', turn[r]>>
        /\ h.ctrl # None => h.ctrl[1] = calls'
        /\ h.alone => h.ctrl = h.made
        /\ h.alone = alone
    BY <2>4, Zenon
  <2> HIDE DEF h
  <2>7. QED
    BY <2>1, <2>5, <2>6
<1>5. \A g \in Held' : g \in Held \/ \E r \in New : g = table'[r]
  BY <1>2, <1>3 DEF Held
<1>6. (\A q, r \in New : turn[q] = turn[r] => q = r) /\ \A q, r \in New : Len(rules) = 1 => q = r
  <2>1. \A r \in New : Len(rules) = 1 => turn[r] = 1
    BY <1>4
  <2>2. QED
    BY <1>4, <2>1
<1> HIDE DEF New
<1>7. calls' \in Nat /\ freed' \subseteq (1..calls') \X Nat
  BY <1>3
<1>8. \A h \in Held' : h \in Handlers /\ FromItsCall(h)'
  <2>1. \A h \in Held : h \in Handlers /\ FromItsCall(h)'
    BY <1>3 DEF FromItsCall
  <2>2. \A r \in New : 1 .. calls' = 1 .. (calls + 1) /\ <<calls', turn[r]>>[1] \in 1 .. calls'
    BY <1>3
  <2>3. ASSUME NEW r \in New PROVE table'[r] \in Handlers /\ FromItsCall(table[r])'
    BY <1>4, <2>2 DEF FromItsCall
  <2>4. QED
    BY <1>5, <2>1, <2>3 DEF FromItsCall
<1>9. ASSUME NEW h \in Held, NEW r \in New
      PROVE  h.made # table'[r].made /\ (h.ctrl # None => h.ctrl # table'[r].ctrl)
  <2>1. h.made[1] \in 1..calls /\ (h.ctrl # None => h.ctrl[1] \in 1..calls)
    BY DEF FromItsCall
  <2>2. table'[r].made[1] = calls' /\ (table'[r].ctrl # None => table'[r].ctrl[1] = calls')
    BY <1>4
  <2>3. calls' \notin 1..calls
    BY <1>3
  <2>4. QED
    BY <2>1, <2>2, <2>3
<1>10. \A r \in DOMAIN table : table[r] \in Held
  BY DEF Held
<1>11. \A q, r \in DOMAIN table' : table'[q] = table'[r] => q = r
  <2> SUFFICES ASSUME NEW q \in DOMAIN table', NEW r \in DOMAIN table', table'[q] = table'[r]
               PROVE  q = r
    OBVIOUS
  <2>1. CASE q \in New /\ r \in New
    BY <1>4, <1>6, <2>1
  <2>2. CASE q \notin New /\ r \notin New
    BY <1>2, <2>2 DEF New
  <2>3. CASE q \in New /\ r \notin New
    BY <1>2, <1>9, <1>10, <2>3 DEF New
  <2>4. CASE q \notin New /\ r \in New
    BY <1>2, <1>9, <1>10, <2>4 DEF New
  <2>5. QED
    BY <2>1, <2>2, <2>3, <2>4
<1>12. \A h \in Held' : h.alone => h.ctrl = h.made /\ h.made \in Nat \X Nat /\ h.ctrl # None
  BY <1>8, NoneIsNoController DEF FromItsCall, Handlers
<1>13. \A g, h \in Held' : h.alone /\ g.ctrl = h.ctrl => g = h
  <2> SUFFICES ASSUME NEW g \in Held', NEW h \in Held', h.alone, g.ctrl = h.ctrl
               PROVE  g = h
    OBVIOUS
  <2>1. h.ctrl # None /\ h.ctrl = h.made
    BY <1>12
  <2>2. CASE g \in Held /\ h \in Held
    BY <2>2
  <2>3. ASSUME NEW q \in New, g = table'[q], h \in Held PROVE FALSE
    BY <1>9, <2>1, <2>3
  <2>4. ASSUME NEW r \in New, h = table'[r], g \in Held PROVE FALSE
    BY <1>9, <2>1, <2>4
  <2>5. ASSUME NEW q \in New, g = table'[q], NEW r \in New, h = table'[r] PROVE g = h
    <3>1. alone /\ g.alone
      BY <1>4, <2>5
    <3>2. g.ctrl = g.made
      BY <1>12, <3>1
    <3>3. turn[q] = turn[r]
      BY <1>4, <2>1, <2>5, <3>2
    <3>4. QED
      BY <1>6, <2>5, <3>3
  <2>6. QED
    BY <1>5, <2>2, <2>3, <2>4, <2>5
<1>14. \A h \in Held' : h.alone => h.ctrl \notin freed'
  <2>1. ASSUME NEW r \in New, table'[r].alone PROVE table'[r].ctrl \notin freed
    <3>1. table'[r].ctrl[1] = calls'
      BY <1>4, <2>1
    <3>2. \A x \in freed : x[1] # calls'
      BY <1>3
    <3>3. QED
      BY <3>1, <3>2
  <2>2. QED
    BY <1>3, <1>5, <2>1
<1>15. QED
  BY <1>7, <1>8, <1>11, <1>13, <1>14 DEF FromItsCall

\* The controllers are owned as the invariant says in every state.
LEMMA OwnersInductive == Spec => []OwnersInv
<1> USE DEF OwnersInv
<1>1. Init => OwnersInv
  BY DEF Init, Held, FromItsCall
<1>2. OwnersInv /\ [Next]_vars => OwnersInv'
  <2> SUFFICES ASSUME OwnersInv, [Next]_vars PROVE OwnersInv'
    OBVIOUS
  <2>1. ASSUME NEW name \in Names, UnboundRequest(name) PROVE OwnersInv'
    <3> DEFINE gone == table[name]
    <3>1. /\ name \in DOMAIN table /\ gone \in Held
          /\ calls' = calls /\ serving' = serving /\ freed' = freed \cup Dropped(gone)
          /\ DOMAIN table' = DOMAIN table \ {name}
          /\ \A r \in DOMAIN table' : table'[r] = table[r]
      BY <2>1 DEF UnboundRequest, Held
    <3>2. Held' \subseteq Held
      BY <3>1 DEF Held
    <3>3. freed' \subseteq (1..calls') \X Nat
      <4>1. gone.ctrl # None => gone.ctrl \in (1..calls) \X Nat
        BY <3>1 DEF Handlers, FromItsCall
      <4>2. QED
        BY <3>1, <4>1 DEF Dropped
    <3>4. ASSUME NEW h \in Held', h.alone PROVE h.ctrl \notin Dropped(gone)
      <4>1. SUFFICES ASSUME h.ctrl = gone.ctrl, serving # gone PROVE FALSE
        BY DEF Dropped
      <4>2. h = gone
        BY <3>1, <3>2, <3>4, <4>1
      <4>3. h # serving'
        BY <3>1, <4>1, <4>2
      <4>4. PICK r \in DOMAIN table' : h = table'[r]
        BY <4>3 DEF Held
      <4>5. QED
        BY <3>1, <4>2, <4>4
    <3> HIDE DEF gone
    <3>5. \A h \in Held' : h \in Handlers /\ FromItsCall(h)'
      BY <3>1, <3>2 DEF FromItsCall
    <3>6. \A q, r \in DOMAIN table' : table'[q] = table'[r] => q = r
      BY <3>1
    <3>7. \A h \in Held' : h.alone => h.ctrl \notin freed'
      BY <3>1, <3>2, <3>4
    <3>8. QED
      BY <3>1, <3>2, <3>3, <3>5, <3>6, <3>7 DEF FromItsCall
  <2>2. ASSUME NEW path \in Paths, Request(path) PROVE OwnersInv'
    <3>1. table' = table /\ calls' = calls /\ freed' = freed
      BY <2>2 DEF Request
    <3>2. serving' = serving \/ \E r \in DOMAIN table : serving' = table[r]
      BY <2>2 DEF Request
    <3>3. Held' \subseteq Held
      BY <3>1, <3>2 DEF Held
    <3>4. QED
      BY <3>1, <3>3 DEF FromItsCall
  <2>3. CASE Answered
    <3>1. table' = table /\ calls' = calls /\ serving' = None /\ serving \in Held
      BY <2>3 DEF Answered, Held
    <3>2. Held' = {table[r] : r \in DOMAIN table} /\ Held' \subseteq Held
      BY <3>1 DEF Held
    <3>3. freed' = freed \/ (/\ freed' = freed \cup {serving.ctrl} /\ serving.ctrl # None
                             /\ \A r \in DOMAIN table : table[r] # serving)
      BY <2>3 DEF Answered
    <3>4. serving.ctrl # None => serving.ctrl \in (1..calls) \X Nat
      BY <3>1 DEF Handlers, FromItsCall
    <3>5. freed' \subseteq (1..calls') \X Nat
      BY <3>1, <3>3, <3>4
    <3>6. ASSUME NEW h \in Held', h.alone PROVE h.ctrl \notin freed'
      BY <3>1, <3>2, <3>3, <3>6
    <3>7. QED
      BY <3>1, <3>2, <3>5, <3>6 DEF FromItsCall
  <2>4. CASE UNCHANGED vars
    BY <2>4 DEF vars, Held, FromItsCall
  <2>5. QED
    BY <2>1, <2>2, <2>3, <2>4, OwnersOnRequest DEF Next
<1>3. QED
  BY <1>1, <1>2, PTL DEF Spec

\* call_on_request(), unbound_request(): however rules are bound and unbound while a
\* handler is suspended, the controller it runs in has not been deleted.
THEOREM ControllerLives == Spec => []ServingIsAlive
<1>1. OwnersInv => ServingIsAlive
  <2> SUFFICES ASSUME OwnersInv, serving # None, serving.alone
               PROVE  serving.ctrl # None /\ serving.ctrl \notin freed
    BY DEF ServingIsAlive
  <2>1. serving \in Held
    BY DEF Held
  <2>2. serving \in Handlers /\ serving.ctrl = serving.made /\ serving.ctrl \notin freed
    BY <2>1 DEF OwnersInv, FromItsCall
  <2>3. QED
    BY <2>2, NoneIsNoController DEF Handlers
<1>2. QED
  BY <1>1, OwnersInductive, PTL

-----------------------------------------------------------------------------
\* Induction.

\* A set of numbers that is not empty has a least one.
LEMMA Least ==
  ASSUME NEW T, T \subseteq Nat, T # {}
  PROVE  \E x \in T : \A y \in T : x <= y
<1> DEFINE R == OpToRel(<, Nat)
<1>1. IsWellFoundedOn(R, Nat)
  BY NatLessThanWellFounded, Zenon
<1>2. \A x, y \in Nat : <<y, x>> \in R <=> y < x
  BY Zenon DEF OpToRel
<1> HIDE DEF R
<1>3. PICK x \in T : \A y \in T : ~ (<<y, x>> \in R)
  BY <1>1, WFMin
<1>4. \A y \in T : ~(y < x) /\ x \in Nat /\ y \in Nat
  BY <1>2, <1>3
<1>5. QED
  BY <1>4

\* Induction, for a set: what holds of 0 and passes on to n + 1 holds of every number.
LEMMA SetInduction ==
  ASSUME NEW S, 0 \in S, \A n \in Nat : n \in S => n + 1 \in S
  PROVE  Nat \subseteq S
<1> SUFFICES ASSUME Nat \ S # {} PROVE FALSE
  OBVIOUS
<1>1. PICK x \in Nat \ S : \A y \in Nat \ S : x <= y
  BY Least
<1>2. x # 0
  OBVIOUS
<1>3. x - 1 \in Nat /\ ~(x <= x - 1) /\ (x - 1) + 1 = x
  BY <1>2
<1>4. x - 1 \in S
  BY <1>1, <1>3
<1>5. QED
  BY <1>3, <1>4

-----------------------------------------------------------------------------
\* Sorted sets.

\* In a finite set that is totally ordered every place is taken: the element at place n
\* has n - 1 others below it.
LEMMA Ranks ==
  ASSUME NEW S, IsFiniteSet(S), NEW R,
         \A x \in S : <<x, x>> \notin R,
         \A x, y, z \in S : <<x, y>> \in R /\ <<y, z>> \in R => <<x, z>> \in R,
         \A x, y \in S : x = y \/ <<x, y>> \in R \/ <<y, x>> \in R
  PROVE  LET below(x) == {y \in S : <<y, x>> \in R}
         IN  /\ Cardinality(S) \in Nat
             /\ \A x \in S : Cardinality(below(x)) \in 0 .. Cardinality(S) - 1
             /\ \A x, y \in S : <<x, y>> \in R => Cardinality(below(x)) < Cardinality(below(y))
             /\ \A n \in 1 .. Cardinality(S) : \E x \in S : Cardinality(below(x)) = n - 1
<1> DEFINE below(x) == {y \in S : <<y, x>> \in R}
           C == Cardinality(S)
<1>1. C \in Nat
  BY FS_CardinalityType
<1>2. ASSUME NEW x \in S
      PROVE  IsFiniteSet(below(x)) /\ Cardinality(below(x)) \in 0 .. C - 1
  <2>1. IsFiniteSet(below(x)) /\ Cardinality(below(x)) <= C
        /\ (C = Cardinality(below(x)) => S = below(x))
    BY FS_Subset
  <2>2. Cardinality(below(x)) \in Nat
    BY <2>1, FS_CardinalityType
  <2>3. x \notin below(x)
    OBVIOUS
  <2>4. QED
    BY <1>1, <2>1, <2>2, <2>3
<1>3. ASSUME NEW x \in S, NEW y \in S, <<x, y>> \in R
      PROVE  Cardinality(below(x)) < Cardinality(below(y))
  <2>1. below(x) \in SUBSET below(y) /\ x \in below(y) /\ x \notin below(x)
    BY <1>3
  <2>2. /\ Cardinality(below(x)) <= Cardinality(below(y))
        /\ Cardinality(below(y)) = Cardinality(below(x)) => below(y) = below(x)
    BY <1>2, <2>1, FS_Subset
  <2>3. Cardinality(below(x)) \in Nat /\ Cardinality(below(y)) \in Nat
    BY <1>2, FS_CardinalityType
  <2>4. QED
    BY <2>1, <2>2, <2>3
<1> DEFINE place == [x \in S |-> Cardinality(below(x)) + 1]
<1> HIDE DEF below, C
<1>4. \A x \in S : place[x] \in 1 .. C
  BY <1>1, <1>2
<1>5. ASSUME NEW x \in S, NEW y \in S, place[x] = place[y] PROVE x = y
  <2>1. Cardinality(below(x)) = Cardinality(below(y)) /\ Cardinality(below(x)) \in Int
        /\ Cardinality(below(y)) \in Int
    BY <1>1, <1>2, <1>5
  <2>2. ~(<<x, y>> \in R) /\ ~(<<y, x>> \in R)
    BY <1>3, <2>1
  <2>3. QED
    BY <2>2
<1>6. place \in Injection(S, 1 .. C)
  BY <1>4, <1>5 DEF Injection, IsInjective
<1>7. IsFiniteSet(1 .. C) /\ Cardinality(1 .. C) = C
  BY <1>1, FS_Interval
<1>8. place \in Surjection(S, 1 .. C)
  BY <1>6, <1>7, FS_Injection DEF C
<1>9. ASSUME NEW n \in 1 .. C PROVE \E x \in S : Cardinality(below(x)) = n - 1
  <2>1. PICK x \in S : place[x] = n
    BY <1>8 DEF Surjection
  <2>2. Cardinality(below(x)) \in Int
    BY <1>1, <1>2
  <2>3. QED
    BY <2>1, <2>2
<1>10. QED
  BY <1>1, <1>2, <1>3, <1>9 DEF below, C

\* The n-th of a set of places is one of them.
LEMMA NthIn ==
  ASSUME NEW P, P \subseteq Nat, IsFiniteSet(P), NEW n \in 1 .. Cardinality(P)
  PROVE  Nth(P, n) \in P
<1> DEFINE R == {c \in Nat \X Nat : c[1] < c[2]}
<1>1. \A x, y \in P : <<x, y>> \in R <=> x < y
  OBVIOUS
<1>2. \A i \in P : {j \in P : <<j, i>> \in R} = {j \in P : j < i}
  BY <1>1
<1> HIDE DEF R
<1>3. /\ \A x \in P : <<x, x>> \notin R
      /\ \A x, y, z \in P : <<x, y>> \in R /\ <<y, z>> \in R => <<x, z>> \in R
      /\ \A x, y \in P : x = y \/ <<x, y>> \in R \/ <<y, x>> \in R
  BY <1>1
<1>4. \A m \in 1 .. Cardinality(P) : \E i \in P : Cardinality({j \in P : <<j, i>> \in R}) = m - 1
  BY <1>3, Ranks
<1>5. \E i \in P : Cardinality({j \in P : j < i}) = n - 1
  BY <1>2, <1>4
<1>6. QED
  BY <1>5 DEF Nth

\* The order of std::map is one: no text comes before itself, and of two texts one does.
LEMMA BeforeOrder ==
  ASSUME NEW a \in Seq(Nat), NEW b \in Seq(Nat)
  PROVE  /\ ~Before(a, a)
         /\ a = b \/ Before(a, b) \/ Before(b, a)
<1>1. ~Before(a, a)
  BY DEF Before
<1>2. ASSUME a # b PROVE Before(a, b) \/ Before(b, a)
  <2> DEFINE Differ(i) == i <= Len(a) /\ i <= Len(b) => a[i] # b[i]
             D == {n \in Nat : Differ(n + 1)}
  <2>1. D # {}
    <3>1. Len(a) \in D
      OBVIOUS
    <3>2. QED
      BY <3>1
  <2>2. PICK n \in D : \A m \in D : n <= m
    BY <2>1, Least
  <2>3. n \in Nat /\ Differ(n + 1) /\ (Len(a) \in D => n <= Len(a)) /\ (Len(b) \in D => n <= Len(b))
    BY <2>2
  <2>4. ASSUME NEW i \in 1 .. n, i <= Len(a), i <= Len(b) PROVE a[i] = b[i]
    <3>1. i - 1 \in Nat /\ ~(n <= i - 1) /\ (i - 1) + 1 = i
      OBVIOUS
    <3> HIDE DEF Differ
    <3>2. i - 1 \notin D
      BY <2>2, <3>1
    <3>3. ~Differ(i)
      BY <3>1, <3>2
    <3>4. QED
      BY <2>4, <3>3 DEF Differ
  <2>5. n <= Len(a) /\ n <= Len(b)
    <3>1. Len(a) \in D /\ Len(b) \in D
      OBVIOUS
    <3>2. QED
      BY <2>3, <3>1
  <2> HIDE DEF D
  <2>6. \A i \in 1 .. n : a[i] = b[i]
    <3>1. \A i \in 1 .. n : i <= Len(a) /\ i <= Len(b)
      BY <2>3, <2>5
    <3>2. QED
      BY <2>4, <3>1
  <2>7. CASE n = Len(a) /\ n = Len(b)
    <3>1. Len(a) = Len(b) /\ \A i \in 1 .. Len(a) : a[i] = b[i]
      BY <2>6, <2>7
    <3>2. QED
      BY <1>2, <3>1
  <2>8. CASE n = Len(a) /\ n < Len(b)
    BY <2>3, <2>6, <2>8 DEF Before
  <2>9. CASE n = Len(b) /\ n < Len(a)
    <3> HIDE DEF Differ
    <3>1. n \in 0 .. Len(a) - 1 /\ n <= Len(b) /\ ~(n < Len(b))
      BY <2>3, <2>9
    <3>2. \A i \in 1 .. n : b[i] = a[i]
      BY <2>6
    <3>3. QED
      BY <3>1, <3>2 DEF Before
  <2>10. CASE n < Len(a) /\ n < Len(b)
    <3>1. a[n + 1] # b[n + 1] /\ a[n + 1] \in Nat /\ b[n + 1] \in Nat
      BY <2>3, <2>10
    <3> HIDE DEF Differ
    <3>2. n \in 0 .. Len(a) - 1 /\ n \in 0 .. Len(b) - 1 /\ n <= Len(a) /\ n <= Len(b)
      BY <2>3, <2>10
    <3>3. CASE a[n + 1] < b[n + 1]
      BY <3>2, <2>6, <3>3 DEF Before
    <3>4. CASE b[n + 1] < a[n + 1]
      BY <3>2, <2>6, <3>4 DEF Before
    <3>5. QED
      BY <3>1, <3>3, <3>4
  <2>11. QED
    BY <2>3, <2>5, <2>7, <2>8, <2>9, <2>10
<1>3. QED
  BY <1>1, <1>2

\* The order of std::map is transitive.
LEMMA BeforeTransitive ==
  ASSUME NEW a \in Seq(Nat), NEW b \in Seq(Nat), NEW c \in Seq(Nat),
         Before(a, b), Before(b, c)
  PROVE  Before(a, c)
<1>1. PICK n \in 0 .. Len(b) - 1 : /\ n <= Len(a) /\ \A i \in 1 .. n : a[i] = b[i]
                                   /\ n < Len(a) => a[n + 1] < b[n + 1]
  BY DEF Before
<1>2. PICK m \in 0 .. Len(c) - 1 : /\ m <= Len(b) /\ \A i \in 1 .. m : b[i] = c[i]
                                   /\ m < Len(b) => b[m + 1] < c[m + 1]
  BY DEF Before
<1>3. CASE n < m
  <2>1. n \in 0 .. Len(c) - 1 /\ (\A i \in 1 .. n : a[i] = c[i]) /\ b[n + 1] = c[n + 1]
    BY <1>1, <1>2, <1>3
  <2>2. QED
    BY <1>1, <2>1 DEF Before
<1>4. CASE m < n
  <2>1. m <= Len(a) /\ (\A i \in 1 .. m : a[i] = c[i]) /\ m < Len(b) /\ a[m + 1] = b[m + 1]
    BY <1>1, <1>2, <1>4
  <2>2. QED
    BY <1>2, <2>1 DEF Before
<1>5. CASE m = n
  <2>1. m <= Len(a) /\ (\A i \in 1 .. m : a[i] = c[i]) /\ m < Len(b)
    BY <1>1, <1>2, <1>5
  <2>2. ASSUME m < Len(a) PROVE a[m + 1] < c[m + 1]
    <3>1. a[m + 1] < b[m + 1] /\ b[m + 1] < c[m + 1]
      BY <1>1, <1>2, <1>5, <2>1, <2>2
    <3>2. m + 1 \in 1 .. Len(a) /\ m + 1 \in 1 .. Len(b) /\ m + 1 \in 1 .. Len(c)
      BY <2>1, <2>2
    <3>3. (\A i \in 1 .. Len(a) : a[i] \in Nat) /\ (\A i \in 1 .. Len(b) : b[i] \in Nat)
           /\ (\A i \in 1 .. Len(c) : c[i] \in Nat)
      OBVIOUS
    <3>4. a[m + 1] \in Nat /\ b[m + 1] \in Nat /\ c[m + 1] \in Nat
      BY <3>2, <3>3
    <3>5. QED
      BY <3>1, <3>4
  <2>3. QED
    BY <1>2, <2>1, <2>2 DEF Before
<1>6. QED
  BY <1>3, <1>4, <1>5

\* The loop over the table meets every rule, in the order of the map.
LEMMA InOrderFacts ==
  ASSUME NEW S, IsFiniteSet(S), S \subseteq Seq(Nat)
  PROVE  /\ Len(InOrder(S)) = Cardinality(S) /\ Cardinality(S) \in Nat
         /\ \A n \in 1 .. Cardinality(S) : InOrder(S)[n] \in S
         /\ \A r \in S : \E n \in 1 .. Cardinality(S) : InOrder(S)[n] = r
         /\ \A i, j \in 1 .. Cardinality(S) : i < j => Before(InOrder(S)[i], InOrder(S)[j])
<1> DEFINE R == {c \in S \X S : Before(c[1], c[2])}
           below(r) == {q \in S : Before(q, r)}
           C == Cardinality(S)
           s == InOrder(S)
<1>1. \A x, y \in S : <<x, y>> \in R <=> Before(x, y)
  OBVIOUS
<1>2. \A r \in S : {q \in S : <<q, r>> \in R} = below(r)
  BY <1>1
<1> HIDE DEF R
<1>3. /\ \A x \in S : <<x, x>> \notin R
      /\ \A x, y, z \in S : <<x, y>> \in R /\ <<y, z>> \in R => <<x, z>> \in R
      /\ \A x, y \in S : x = y \/ <<x, y>> \in R \/ <<y, x>> \in R
  BY <1>1, BeforeOrder, BeforeTransitive
<1>4. /\ C \in Nat
      /\ \A r \in S : Cardinality({q \in S : <<q, r>> \in R}) \in 0 .. C - 1
      /\ \A q, r \in S : <<q, r>> \in R =>
           Cardinality({p \in S : <<p, q>> \in R}) < Cardinality({p \in S : <<p, r>> \in R})
      /\ \A n \in 1 .. C : \E r \in S : Cardinality({q \in S : <<q, r>> \in R}) = n - 1
  BY <1>3, Ranks
<1>5. /\ \A r \in S : Cardinality(below(r)) \in 0 .. C - 1
      /\ \A q, r \in S : Before(q, r) => Cardinality(below(q)) < Cardinality(below(r))
      /\ \A n \in 1 .. C : \E r \in S : Cardinality(below(r)) = n - 1
  BY <1>1, <1>2, <1>4
<1>6. Len(s) = C /\ \A n \in 1 .. C : s[n] = CHOOSE r \in S : Cardinality(below(r)) = n - 1
  <2> DEFINE nth(n) == CHOOSE r \in S : Cardinality(below(r)) = n - 1
  <2>1. s = [n \in 1 .. C |-> nth(n)]
    BY DEF InOrder
  <2> HIDE DEF nth, C, s
  <2>2. Len(s) = C /\ \A n \in 1 .. C : s[n] = nth(n)
    BY <1>4, <2>1
  <2>3. QED
    BY <2>2 DEF nth
<1> HIDE DEF s, below, C
<1>7. \A n \in 1 .. C : s[n] \in S /\ Cardinality(below(s[n])) = n - 1
  BY <1>5, <1>6
<1>8. ASSUME NEW q \in S, NEW r \in S, Cardinality(below(q)) < Cardinality(below(r))
      PROVE  Before(q, r)
  <2>1. Cardinality(below(q)) \in Int /\ Cardinality(below(r)) \in Int
    BY <1>4, <1>5
  <2>2. q # r /\ ~Before(r, q)
    BY <1>5, <1>8, <2>1
  <2>3. QED
    BY <2>2, BeforeOrder
<1>9. ASSUME NEW i \in 1 .. C, NEW j \in 1 .. C, i < j PROVE Before(s[i], s[j])
  <2>1. Cardinality(below(s[i])) < Cardinality(below(s[j]))
    BY <1>4, <1>7, <1>9
  <2>2. QED
    BY <1>7, <1>8, <2>1
<1>10. ASSUME NEW r \in S PROVE \E n \in 1 .. C : s[n] = r
  <2> DEFINE n == Cardinality(below(r)) + 1
  <2>1. n \in 1 .. C /\ n - 1 = Cardinality(below(r))
    BY <1>4, <1>5
  <2>2. Cardinality(below(s[n])) = Cardinality(below(r)) /\ s[n] \in S
    BY <1>7, <2>1
  <2>3. Cardinality(below(r)) \in Int
    BY <1>4, <1>5
  <2>4. ~Before(s[n], r) /\ ~Before(r, s[n])
    BY <1>5, <2>2, <2>3
  <2>5. s[n] = r
    BY <2>2, <2>4, BeforeOrder
  <2>6. QED
    BY <2>1, <2>5
<1>11. QED
  BY <1>4, <1>6, <1>7, <1>9, <1>10 DEF s, C

-----------------------------------------------------------------------------
\* Texts.

\* A piece of a text ends, and consists of characters of the text.
LEMMA SegmentsIn ==
  ASSUME NEW C, C \subseteq Nat, NEW p \in Seq(C)
  PROVE  Segments(p) \in Seq(Seq(C))
<1> DEFINE starts == {i \in 1 .. Len(p) : p[i] # Slash /\ (i = 1 \/ p[i - 1] = Slash)}
           ends   == {i \in 1 .. Len(p) : p[i] # Slash /\ (i = Len(p) \/ p[i + 1] = Slash)}
           End(i) == CHOOSE j \in ends : i <= j /\ \A e \in ends : i <= e => j <= e
           kept   == {i \in starts : \E j \in i .. End(i) : ~Space(p[j])}
           piece(n) == SubSeq(p, Nth(kept, n), End(Nth(kept, n)))
<1>1. Len(p) \in Nat
  OBVIOUS
<1>2. IsFiniteSet(kept) /\ kept \subseteq Nat /\ Cardinality(kept) \in Nat
  <2>1. IsFiniteSet(1 .. Len(p)) /\ starts \in SUBSET (1 .. Len(p))
        /\ kept \in SUBSET (1 .. Len(p))
    BY <1>1, FS_Interval
  <2>2. QED
    BY <2>1, FS_Subset, FS_CardinalityType
<1>3. ASSUME NEW i \in starts PROVE End(i) \in ends /\ i <= End(i)
  <2> DEFINE Stops(j) == j = Len(p) \/ p[j + 1] = Slash
             D == {j \in i .. Len(p) : Stops(j)}
             E == {e \in ends : i <= e}
  <2>1. D \subseteq Nat /\ Len(p) \in D
    BY <1>1
  <2>2. PICK j \in D : \A m \in D : j <= m
    BY <2>1, Least
  <2>3. p[j] # Slash
    <3>1. CASE j = i
      BY <3>1
    <3>2. CASE j # i
      <4>1. j - 1 \in i .. Len(p) /\ j - 1 # Len(p) /\ ~(j <= j - 1) /\ (j - 1) + 1 = j
        BY <1>1, <3>2
      <4>2. j - 1 \notin D
        BY <2>2, <4>1
      <4>3. ~Stops(j - 1)
        BY <4>1, <4>2
      <4>4. QED
        BY <4>1, <4>3
    <3>3. QED
      BY <3>1, <3>2
  <2>4. j \in E
    BY <2>2, <2>3
  <2>5. PICK e \in E : \A m \in E : e <= m
    <3>1. E \subseteq Nat /\ E # {}
      BY <2>4
    <3>2. QED
      BY <3>1, Least
  <2>6. e \in ends /\ i <= e /\ \A m \in ends : i <= m => e <= m
    BY <2>5
  <2> HIDE DEF ends, starts, D, E
  <2>7. QED
    BY <2>6
<1>4. Segments(p) = [n \in 1 .. Cardinality(kept) |-> piece(n)]
  BY DEF Segments
<1>5. \A n \in 1 .. Cardinality(kept) : piece(n) \in Seq(C)
  <2> TAKE n \in 1 .. Cardinality(kept)
  <2>1. Nth(kept, n) \in starts
    BY <1>2, NthIn
  <2>2. Nth(kept, n) \in 1 .. Len(p) /\ End(Nth(kept, n)) \in 1 .. Len(p)
    BY <1>3, <2>1
  <2> HIDE DEF starts, ends, End, kept
  <2>3. \A i, j \in 1 .. Len(p) : SubSeq(p, i, j) \in Seq(C)
    OBVIOUS
  <2>4. QED
    BY <2>2, <2>3
<1> HIDE DEF kept, piece
<1>6. QED
  BY <1>2, <1>4, <1>5

\* f adds up the texts of q one after the other.
Joins(f, q, n) == f = [i \in 1 .. n |-> IF i = 1 THEN q[i] ELSE f[i - 1] \o q[i]]

\* What string_list::join() adds up piece by piece exists.
LEMMA JoinsExists ==
  ASSUME NEW q, NEW n \in Nat
  PROVE  \E f : Joins(f, q, n)
<1> DEFINE S == {k \in Nat : \E f : Joins(f, q, k)}
<1>1. 0 \in S
  <2>1. Joins([i \in 1 .. 0 |-> 0], q, 0)
    BY DEF Joins
  <2>2. QED
    BY <2>1
<1>2. ASSUME NEW k \in Nat, k \in S PROVE k + 1 \in S
  <2>1. PICK f : Joins(f, q, k)
    BY <1>2
  <2> DEFINE g == [i \in 1 .. k + 1 |-> IF i = 1 THEN q[i] ELSE f[i - 1] \o q[i]]
  <2>2. ASSUME NEW i \in 1 .. k PROVE g[i] = f[i]
    <3>1. f[i] = IF i = 1 THEN q[i] ELSE f[i - 1] \o q[i]
      BY <2>1, Zenon DEF Joins
    <3>2. i \in 1 .. k + 1
      OBVIOUS
    <3>3. QED
      BY <3>1, <3>2
  <2>3. \A i \in 1 .. k + 1 : i = 1 \/ (i - 1 \in 1 .. k)
    OBVIOUS
  <2>4. Joins(g, q, k + 1)
    BY <2>2, <2>3 DEF Joins
  <2>5. QED
    BY <2>4
<1> HIDE DEF S
<1>3. Nat \subseteq S
  BY <1>1, <1>2, SetInduction
<1>4. QED
  BY <1>3 DEF S

\* A text with another behind it, and a text without its first character, are texts.
LEMMA Longer ==
  ASSUME NEW C, NEW s \in Seq(C), NEW t \in Seq(C), Len(s) > 0
  PROVE  s \o t \in Seq(C) /\ Len(s \o t) > 0 /\ Tail(s) \in Seq(C)
<1>1. Len(s \o t) = Len(s) + Len(t) /\ Len(s) \in Nat /\ Len(t) \in Nat
  OBVIOUS
<1>2. QED
  BY <1>1

\* string_list::join() of pieces that are texts is a text.
LEMMA JoinIn ==
  ASSUME NEW C, Slash \in C, NEW segs \in Seq(Seq(C)), segs # <<>>
  PROVE  Join(segs) \in Seq(C)
<1> DEFINE N == Len(segs)
           q == [i \in 1 .. N |-> Root \o segs[i]]
           f == CHOOSE f : Joins(f, q, N)
<1>1. N \in Nat \ {0} /\ Len(q) = N /\ \A i \in 1 .. N : segs[i] \in Seq(C)
  OBVIOUS
<1>2. ASSUME NEW i \in 1 .. N PROVE q[i] \in Seq(C) /\ Len(q[i]) > 0
  <2>1. q[i] = Root \o segs[i] /\ Root \in Seq(C) /\ Len(Root) = 1 /\ segs[i] \in Seq(C)
    BY <1>1 DEF Root
  <2> HIDE DEF q, N, f
  <2>2. Root \o segs[i] \in Seq(C) /\ Len(Root \o segs[i]) > 0
    <3>1. Len(Root) > 0
      BY <2>1
    <3>2. QED
      BY <2>1, <3>1, Longer
  <2>3. QED
    BY <2>1, <2>2
<1>3. Join(segs) = Tail(f[N])
  <2>1. FlattenSeq(q) = f[N]
    BY <1>1 DEF FlattenSeq, Joins
  <2>2. QED
    BY <2>1 DEF Join
<1>4. Joins(f, q, N)
  BY <1>1, JoinsExists
<1> HIDE DEF f, q, N
<1>5. \A i \in 1 .. N : f[i] = IF i = 1 THEN q[i] ELSE f[i - 1] \o q[i]
  BY <1>4, Zenon DEF Joins
<1> DEFINE Good(n) == n + 1 <= N => f[n + 1] \in Seq(C) /\ Len(f[n + 1]) > 0
           S == {n \in Nat : Good(n)}
<1>6. 0 \in S
  BY <1>1, <1>2, <1>5
<1>7. ASSUME NEW n \in Nat, n \in S PROVE n + 1 \in S
  <2> DEFINE k == (n + 1) + 1
  <2> SUFFICES ASSUME k <= N PROVE f[k] \in Seq(C) /\ Len(f[k]) > 0
    OBVIOUS
  <2>1. k \in 1 .. N /\ k # 1 /\ k - 1 = n + 1 /\ n + 1 <= N
    BY <1>1
  <2>2. f[n + 1] \in Seq(C) /\ Len(f[n + 1]) > 0
    BY <1>7, <2>1
  <2>3. f[k] = f[n + 1] \o q[k] /\ q[k] \in Seq(C)
    BY <1>2, <1>5, <2>1
  <2> HIDE DEF k
  <2>4. QED
    BY <2>2, <2>3, Longer
<1> HIDE DEF S
<1>8. Nat \subseteq S
  BY <1>6, <1>7, SetInduction
<1>9. N - 1 \in Nat /\ (N - 1) + 1 = N /\ N <= N
  BY <1>1
<1>10. N - 1 \in S
  BY <1>8, <1>9
<1>11. f[N] \in Seq(C) /\ Len(f[N]) > 0
  BY <1>9, <1>10 DEF S
<1>12. Tail(f[N]) \in Seq(C)
  BY <1>11, Longer
<1>13. QED
  BY <1>3, <1>12

\* A rule has a number of arguments at its end.
LEMMA KeysCounted ==
  ASSUME NEW segs, Len(segs) \in Nat
  PROVE  Len(Keys(segs)) \in Nat
<1> DEFINE found == {i \in 1 .. Len(segs) : IsArg(segs[i]) /\ \A j \in i .. Len(segs) : Braced(segs[j])}
           key(n) == LET s == segs[Nth(found, n)] IN SubSeq(s, 2, Len(s) - 1)
<1>1. Keys(segs) = [n \in 1 .. Cardinality(found) |-> key(n)]
  BY DEF Keys
<1>2. Cardinality(found) \in Nat
  <2>1. IsFiniteSet(1 .. Len(segs)) /\ found \in SUBSET (1 .. Len(segs))
    BY FS_Interval
  <2>2. QED
    BY <2>1, FS_Subset, FS_CardinalityType
<1> HIDE DEF found, key
<1>3. QED
  BY <1>1, <1>2

\* What wildcard_match() is given: a rule of a table and a path of a request without a '*'.
LEMMA TextsMatched ==
  ASSUME NEW rule \in Seq(Nat), NEW path \in Paths, Starless(path),
         ~TooShort(rule, path), RuleBefore(rule) # <<>>
  PROVE  /\ Join(RuleBefore(rule)) \in Seq(Nat)
         /\ Join(PathBefore(rule, path)) \in Seq(Nat \ {Star})
<1> DEFINE rs == RuleList(rule)
           ps == PathList(path)
           k == Len(Keys(rs))
<1>1. rs \in Seq(Seq(Nat))
  <2>1. Segments(rule) \in Seq(Seq(Nat)) /\ <<Root>> \in Seq(Seq(Nat))
    BY SegmentsIn DEF Root, Slash
  <2>2. QED
    BY <2>1 DEF RuleList
<1>2. ps \in Seq(Seq(Nat \ {Star}))
  <2>1. path \in Seq(Nat \ {Star})
    <3>1. path \in Seq(Nat) /\ \A i \in 1 .. Len(path) : path[i] \in Nat \ {Star}
      BY RoutingAssumption DEF Starless
    <3>2. QED
      BY <3>1
  <2>2. Segments(path) \in Seq(Seq(Nat \ {Star}))
    BY <2>1, SegmentsIn
  <2>3. <<Root>> \in Seq(Seq(Nat \ {Star}))
    BY DEF Root, Slash, Star
  <2>4. QED
    BY <2>2, <2>3 DEF PathList
<1>3. k \in Nat /\ Len(rs) \in Nat /\ Len(ps) \in Nat /\ Len(ps) >= Len(rs)
  <2>1. Len(rs) \in Nat /\ Len(ps) \in Nat
    BY <1>1, <1>2
  <2>2. k \in Nat
    BY <2>1, KeysCounted
  <2>3. ~(Len(ps) < Len(rs))
    BY DEF TooShort
  <2>4. QED
    BY <2>1, <2>2, <2>3
<1>4. RuleBefore(rule) = SubSeq(rs, 1, Len(rs) - k)
      /\ PathBefore(rule, path) = SubSeq(ps, 1, Len(ps) - k)
  BY DEF RuleBefore, PathBefore
<1> HIDE DEF rs, ps, k
<1>5. RuleBefore(rule) \in Seq(Seq(Nat)) /\ Len(rs) - k >= 1
  BY <1>1, <1>3, <1>4
<1>6. PathBefore(rule, path) \in Seq(Seq(Nat \ {Star})) /\ PathBefore(rule, path) # <<>>
  <2> DEFINE m == Len(ps) - k
  <2>1. m \in 1 .. Len(ps)
    BY <1>3, <1>5
  <2> HIDE DEF m
  <2>2. SubSeq(ps, 1, m) \in Seq(Seq(Nat \ {Star})) /\ Len(SubSeq(ps, 1, m)) = m
    BY <1>2, <2>1
  <2>3. QED
    BY <1>4, <2>1, <2>2 DEF m
<1>7. Slash \in Nat /\ Slash \in Nat \ {Star}
  BY DEF Slash, Star
<1>8. QED
  BY <1>5, <1>6, <1>7, JoinIn

-----------------------------------------------------------------------------
\* f is computed step by step, its n-th value from the one before by G.
StepByStep(f, G, base, n) == f[0] = base /\ \A i \in 1 .. n : f[i] = G[<<i, f[i - 1]>>]

\* What is computed step by step has a value when every step does.
LEMMA Recursion ==
  ASSUME NEW V, NEW base, base \in V, NEW n, n \in Nat, NEW G, G \in [(1 .. n) \X V -> V]
  PROVE  \E f \in [0 .. n -> V] : StepByStep(f, G, base, n)
<1> DEFINE Runs(f, k) == f[0] = base /\ \A i \in 1 .. k : f[i] = G[<<i, f[i - 1]>>]
           S == {k \in Nat : k <= n => \E f \in [0 .. k -> V] : Runs(f, k)}
<1>1. 0 \in S
  <2>1. [i \in 0 .. 0 |-> base] \in [0 .. 0 -> V] /\ Runs([i \in 0 .. 0 |-> base], 0)
    OBVIOUS
  <2>2. QED
    BY <2>1
<1>2. ASSUME NEW k \in Nat, k \in S PROVE k + 1 \in S
  <2> SUFFICES ASSUME k + 1 <= n PROVE \E f \in [0 .. k + 1 -> V] : Runs(f, k + 1)
    OBVIOUS
  <2>1. PICK f \in [0 .. k -> V] : Runs(f, k)
    BY <1>2
  <2> DEFINE v == G[<<k + 1, f[k]>>]
             g == [i \in 0 .. k + 1 |-> IF i = k + 1 THEN v ELSE f[i]]
  <2>2. v \in V
    <3>1. k + 1 \in 1 .. n /\ f[k] \in V
      OBVIOUS
    <3>2. QED
      BY <3>1
  <2>3. g \in [0 .. k + 1 -> V] /\ g[k + 1] = v /\ \A i \in 0 .. k : g[i] = f[i]
    BY <2>2
  <2> HIDE DEF g
  <2>4. g[0] = base
    BY <2>1, <2>3
  <2>5. ASSUME NEW i \in 1 .. k + 1 PROVE g[i] = G[<<i, g[i - 1]>>]
    <3>1. CASE i = k + 1
      <4>1. g[i - 1] = f[k]
        BY <2>3, <3>1
      <4>2. QED
        BY <2>3, <3>1, <4>1
    <3>2. CASE i # k + 1
      <4>1. i \in 1 .. k /\ i \in 0 .. k /\ i - 1 \in 0 .. k
        BY <3>2
      <4>2. QED
        BY <2>1, <2>3, <4>1
    <3>3. QED
      BY <3>1, <3>2
  <2>6. QED
    BY <2>3, <2>4, <2>5
<1> HIDE DEF S
<1>3. Nat \subseteq S
  BY <1>1, <1>2, SetInduction
<1>4. n \in S
  BY <1>3
<1>5. QED
  BY <1>4 DEF S, StepByStep

-----------------------------------------------------------------------------
\* wildcard_match() against what '*' and '?' mean.

\* The ends that the first characters of a rule reach.
EndsOf(rule, str, to) ==
  to = [j \in 0 .. Len(rule) |-> IF j = 0 THEN {0} ELSE EndsWith(rule[j], str, to[j - 1])]

\* The ends that the characters of a rule reach one after the other exist, and decide
\* whether the rule stands for the text.
LEMMA EndsExist ==
  ASSUME NEW rule \in Seq(Nat), NEW str \in Seq(Nat)
  PROVE  \E to : EndsOf(rule, str, to) /\ (Reaches(rule, str) <=> Len(str) \in to[Len(rule)])
<1> DEFINE n == Len(rule)
           V == SUBSET Nat
           G == [c \in (1 .. n) \X V |-> EndsWith(rule[c[1]], str, c[2])]
<1>1. n \in Nat /\ Len(str) \in Nat
  OBVIOUS
<1>2. \A j, S : EndsWith(j, str, S) \in V
  BY <1>1 DEF EndsWith
<1> HIDE DEF n
<1>3. G \in [(1 .. n) \X V -> V] /\ {0} \in V
  BY <1>2
<1> HIDE DEF G
<1>4. PICK f \in [0 .. n -> V] : f[0] = {0} /\ \A i \in 1 .. n : f[i] = G[<<i, f[i - 1]>>]
  <2> HIDE DEF V
  <2>1. n \in Nat /\ {0} \in V /\ G \in [(1 .. n) \X V -> V]
    BY <1>1, <1>3 DEF n
  <2>2. \E f \in [0 .. n -> V] : StepByStep(f, G, {0}, n)
    BY <2>1, Recursion
  <2>3. QED
    BY <2>2 DEF StepByStep
<1>5. ASSUME NEW i \in 1 .. n PROVE f[i] = EndsWith(rule[i], str, f[i - 1])
  <2>1. i - 1 \in 0 .. n
    BY <1>1
  <2>2. <<i, f[i - 1]>> \in (1 .. n) \X V
    BY <2>1
  <2>3. QED
    BY <1>4, <2>2 DEF G
<1>6. \A i \in 0 .. n : f[i] = IF i = 0 THEN {0} ELSE EndsWith(rule[i], str, f[i - 1])
  BY <1>1, <1>4, <1>5
<1>7. EndsOf(rule, str, f)
  BY <1>6, Zenon DEF EndsOf, n
<1> DEFINE to == CHOOSE to : EndsOf(rule, str, to)
<1>8. EndsOf(rule, str, to)
  BY <1>7
<1>9. Reaches(rule, str) <=> Len(str) \in to[Len(rule)]
  BY DEF Reaches, EndsOf
<1>10. QED
  BY <1>8, <1>9

\* The cases of a cell of the table of wildcard_match().
LEMMA CellOfNoRule ==
  ASSUME NEW rule, NEW str, NEW dp, NEW i, NEW j, j = 0
  PROVE  Cell(rule, str, dp, i, j) = (i = 0)
BY Zenon DEF Cell

\* No text is left: only a * matches it.
LEMMA CellOfNoText ==
  ASSUME NEW rule, NEW str, NEW dp, NEW i, NEW j, i = 0, j # 0
  PROVE  Cell(rule, str, dp, i, j) = (rule[j] = Star /\ dp[<<0, j - 1>>])
BY Zenon DEF Cell

\* A ? or the character itself matches one character.
LEMMA CellOfOne ==
  ASSUME NEW rule, NEW str, NEW dp, NEW i, NEW j, i # 0, j # 0,
         rule[j] = Quest \/ rule[j] = str[i]
  PROVE  /\ Cell(rule, str, dp, i, j) <=> dp[<<i - 1, j - 1>>]
         /\ dp[<<i - 1, j - 1>>] \in BOOLEAN => Cell(rule, str, dp, i, j) \in BOOLEAN
<1>1. Star # Quest /\ rule[j] \in {Quest, str[i]}
  BY DEF Star, Quest
<1>2. Cell(rule, str, dp, i, j) = dp[<<i - 1, j - 1>>]
  BY <1>1, Zenon DEF Cell
<1>3. QED
  BY <1>2, Zenon

\* A * matches one character more, or no more.
LEMMA CellOfStar ==
  ASSUME NEW rule, NEW str, NEW dp, NEW i, NEW j, i # 0, j # 0, rule[j] = Star, str[i] # Star
  PROVE  Cell(rule, str, dp, i, j) = (dp[<<i - 1, j>>] \/ dp[<<i, j - 1>>])
<1>1. rule[j] \notin {Quest, str[i]}
  BY DEF Star, Quest
<1>2. QED
  BY <1>1, Zenon DEF Cell

\* Another character does not match.
LEMMA CellOfOther ==
  ASSUME NEW rule, NEW str, NEW dp, NEW i, NEW j,
         i # 0, j # 0, rule[j] # Star, rule[j] \notin {Quest, str[i]}
  PROVE  Cell(rule, str, dp, i, j) = FALSE
BY Zenon DEF Cell

\* The ends that a rule reaches with one character more, as the table has them.
LEMMA EndsByCells ==
  ASSUME NEW rule \in Seq(Nat), NEW str \in Seq(Nat \ {Star}), NEW to, EndsOf(rule, str, to),
         NEW i \in 0 .. Len(str), NEW j \in 0 .. Len(rule)
  PROVE  /\ j = 0 => (i \in to[j] <=> i = 0)
         /\ i = 0 /\ j # 0 => (i \in to[j] <=> rule[j] = Star /\ 0 \in to[j - 1])
         /\ i # 0 /\ j # 0 /\ rule[j] \in {Quest, str[i]} =>
              (i \in to[j] <=> i - 1 \in to[j - 1])
         /\ i # 0 /\ j # 0 /\ rule[j] = Star =>
              (i \in to[j] <=> i - 1 \in to[j] \/ i \in to[j - 1])
         /\ i # 0 /\ j # 0 /\ rule[j] # Star /\ rule[j] \notin {Quest, str[i]} => i \notin to[j]
<1>1. \A m \in 0 .. Len(rule) : to[m] = IF m = 0 THEN {0} ELSE EndsWith(rule[m], str, to[m - 1])
  BY Zenon DEF EndsOf
<1>2. to[j] = IF j = 0 THEN {0} ELSE EndsWith(rule[j], str, to[j - 1])
  BY <1>1
<1>3. Len(str) \in Nat /\ Len(rule) \in Nat
  OBVIOUS
<1>4. ASSUME NEW m \in 0 .. Len(rule) PROVE to[m] \subseteq 0 .. Len(str)
  <2>1. \A c, S : EndsWith(c, str, S) \subseteq 0 .. Len(str)
    BY <1>3 DEF EndsWith
  <2>2. {0} \subseteq 0 .. Len(str)
    BY <1>3
  <2>3. QED
    BY <1>1, <2>1, <2>2
<1>5. CASE j = 0
  BY <1>2, <1>5
<1>6. CASE j # 0 /\ rule[j] = Star
  <2> DEFINE B == to[j - 1]
  <2>1. B \subseteq 0 .. Len(str)
    <3>1. j - 1 \in 0 .. Len(rule)
      BY <1>6
    <3>2. QED
      BY <1>4, <3>1
  <2>2. to[j] = {q \in 0 .. Len(str) : \E p \in B : p <= q}
    BY <1>2, <1>6 DEF EndsWith
  <2> HIDE DEF B
  <2>3. i \in to[j] <=> \E p \in B : p <= i
    BY <2>2
  <2>4. i = 0 => (i \in to[j] <=> 0 \in B)
    BY <2>1, <2>3
  <2>5. i # 0 => (i - 1 \in to[j] <=> \E p \in B : p <= i - 1)
    <3>1. i # 0 => i - 1 \in 0 .. Len(str)
      BY <1>3
    <3>2. QED
      BY <2>2, <3>1
  <2>6. i # 0 => (i \in to[j] <=> i - 1 \in to[j] \/ i \in B)
    <3>1. \A p \in B : p <= i <=> (p <= i - 1 \/ p = i)
      BY <2>1
    <3>2. QED
      BY <2>3, <2>5, <3>1
  <2>7. i # 0 => rule[j] \notin {Quest, str[i]}
    <3>1. i # 0 => str[i] # Star
      BY <1>3
    <3>2. QED
      BY <1>6, <3>1 DEF Star, Quest
  <2>8. QED
    BY <1>6, <2>4, <2>6, <2>7 DEF B
<1>7. CASE j # 0 /\ rule[j] # Star
  <2>1. to[j] = {q \in 1 .. Len(str) : q - 1 \in to[j - 1] /\ rule[j] \in {Quest, str[q]}}
    BY <1>2, <1>7 DEF EndsWith
  <2>2. QED
    BY <1>7, <2>1
<1>8. QED
  BY <1>5, <1>6, <1>7

\* For every rule and every text without a '*', the table of wildcard_match() says whether
\* the rule stands for the text.
THEOREM WildcardsMatch ==
  ASSUME NEW rule \in Seq(Nat), NEW str \in Seq(Nat \ {Star})
  PROVE  Matches(rule, str) <=> Reaches(rule, str)
<1> DEFINE I == 0 .. Len(str)
           J == 0 .. Len(rule)
           Fits(dp) == dp = [c \in I \X J |-> Cell(rule, str, dp, c[1], c[2])]
           dp == CHOOSE f : Fits(f)
<1>1. str \in Seq(Nat) /\ Len(str) \in Nat /\ Len(rule) \in Nat
  OBVIOUS
<1>2. PICK to : EndsOf(rule, str, to) /\ (Reaches(rule, str) <=> Len(str) \in to[Len(rule)])
  BY <1>1, EndsExist
<1>3. \A i \in I, j \in J :
         /\ j = 0 => (i \in to[j] <=> i = 0)
         /\ i = 0 /\ j # 0 => (i \in to[j] <=> rule[j] = Star /\ 0 \in to[j - 1])
         /\ i # 0 /\ j # 0 /\ rule[j] \in {Quest, str[i]} =>
              (i \in to[j] <=> i - 1 \in to[j - 1])
         /\ i # 0 /\ j # 0 /\ rule[j] = Star =>
              (i \in to[j] <=> i - 1 \in to[j] \/ i \in to[j - 1])
         /\ i # 0 /\ j # 0 /\ rule[j] # Star /\ rule[j] \notin {Quest, str[i]} => i \notin to[j]
  BY <1>2, EndsByCells
<1>4. Matches(rule, str) = dp[<<Len(str), Len(rule)>>]
  BY DEF Matches
<1>5. \A i \in I : i # 0 => str[i] # Star
  BY <1>1
<1> DEFINE D == [c \in I \X J |-> IF c[1] \in to[c[2]] THEN TRUE ELSE FALSE]
<1>6. /\ 0 \in I
      /\ \A i \in I : i # 0 => i - 1 \in I
      /\ \A j \in J : j # 0 => j - 1 \in J
  BY <1>1
<1>7. ASSUME NEW i \in I, NEW j \in J
      PROVE  D[<<i, j>>] \in BOOLEAN /\ (D[<<i, j>>] <=> i \in to[j])
  <2>1. D[<<i, j>>] = IF i \in to[j] THEN TRUE ELSE FALSE
    OBVIOUS
  <2> HIDE DEF D
  <2>2. QED
    BY <2>1, Zenon
<1> HIDE DEF I, J, D, dp
<1>8. ASSUME NEW i \in I, NEW j \in J PROVE D[<<i, j>>] = Cell(rule, str, D, i, j)
  <2> DEFINE c == Cell(rule, str, D, i, j)
  <2>1. D[<<i, j>>] \in BOOLEAN /\ (D[<<i, j>>] <=> i \in to[j])
    BY <1>7
  <2>2. CASE j = 0
    <3>1. c = (i = 0)
      BY <2>2, CellOfNoRule
    <3>2. i \in to[j] <=> i = 0
      BY <1>3, <2>2, Zenon
    <3> HIDE DEF c
    <3>3. c \in BOOLEAN /\ (c <=> i \in to[j])
      BY <3>1, <3>2
    <3>4. QED
      BY <2>1, <3>3 DEF c
  <2>3. CASE i = 0 /\ j # 0
    <3>1. c = (rule[j] = Star /\ D[<<0, j - 1>>])
      BY <2>3, CellOfNoText
    <3>2. i \in to[j] <=> rule[j] = Star /\ 0 \in to[j - 1]
      BY <1>3, <2>3, Zenon
    <3>3. 0 \in I /\ j - 1 \in J
      BY <1>6, <2>3
    <3>4. D[<<0, j - 1>>] <=> 0 \in to[j - 1]
      BY <1>7, <3>3
    <3> HIDE DEF c
    <3>5. c \in BOOLEAN /\ (c <=> i \in to[j])
      BY <3>1, <3>2, <3>4
    <3>6. QED
      BY <2>1, <3>5 DEF c
  <2>4. CASE i # 0 /\ j # 0 /\ rule[j] \in {Quest, str[i]}
    <3>1. i # 0 /\ j # 0 /\ (rule[j] = Quest \/ rule[j] = str[i])
      BY <2>4
    <3>2. /\ c <=> D[<<i - 1, j - 1>>]
          /\ D[<<i - 1, j - 1>>] \in BOOLEAN => c \in BOOLEAN
      BY <3>1, CellOfOne
    <3>3. i \in to[j] <=> i - 1 \in to[j - 1]
      BY <1>3, <2>4, Zenon
    <3>4. i - 1 \in I /\ j - 1 \in J
      BY <1>6, <2>4
    <3>5. D[<<i - 1, j - 1>>] \in BOOLEAN /\ (D[<<i - 1, j - 1>>] <=> i - 1 \in to[j - 1])
      BY <1>7, <3>4
    <3> HIDE DEF c
    <3>6. c \in BOOLEAN /\ (c <=> i \in to[j])
      BY <3>2, <3>3, <3>5
    <3>7. QED
      BY <2>1, <3>6 DEF c
  <2>5. CASE i # 0 /\ j # 0 /\ rule[j] = Star
    <3>1. c = (D[<<i - 1, j>>] \/ D[<<i, j - 1>>])
      BY <1>5, <2>5, CellOfStar
    <3>2. i \in to[j] <=> i - 1 \in to[j] \/ i \in to[j - 1]
      BY <1>3, <2>5, Zenon
    <3>3. i - 1 \in I /\ j - 1 \in J
      BY <1>6, <2>5
    <3>4. (D[<<i - 1, j>>] <=> i - 1 \in to[j]) /\ (D[<<i, j - 1>>] <=> i \in to[j - 1])
      BY <1>7, <3>3
    <3> HIDE DEF c
    <3>5. c \in BOOLEAN /\ (c <=> i \in to[j])
      BY <3>1, <3>2, <3>4
    <3>6. QED
      BY <2>1, <3>5 DEF c
  <2>6. CASE i # 0 /\ j # 0 /\ rule[j] # Star /\ rule[j] \notin {Quest, str[i]}
    <3>1. c = FALSE
      BY <2>6, CellOfOther
    <3>2. i \notin to[j]
      BY <1>3, <2>6, Zenon
    <3> HIDE DEF c
    <3>3. c \in BOOLEAN /\ (c <=> i \in to[j])
      BY <3>1, <3>2
    <3>4. QED
      BY <2>1, <3>3 DEF c
  <2>7. QED
    BY <2>2, <2>3, <2>4, <2>5, <2>6, Zenon
<1>9. Fits(D)
  <2>1. D = [c \in I \X J |-> D[c]]
    BY DEF D
  <2>2. \A c \in I \X J : c = <<c[1], c[2]>> /\ c[1] \in I /\ c[2] \in J
    OBVIOUS
  <2>3. \A c \in I \X J : D[c] = Cell(rule, str, D, c[1], c[2])
    BY <1>8, <2>2
  <2>4. QED
    BY <2>1, <2>3
<1>10. Fits(dp)
  BY <1>9 DEF dp
<1>11. ASSUME NEW i \in I, NEW j \in J PROVE dp[<<i, j>>] = Cell(rule, str, dp, i, j)
  <2>1. <<i, j>> \in I \X J /\ <<i, j>>[1] = i /\ <<i, j>>[2] = j
    OBVIOUS
  <2>2. QED
    BY <1>10, <2>1, Zenon
<1> HIDE DEF Fits
<1> DEFINE Same(i, j) == dp[<<i, j>>] <=> i \in to[j]
           S == {n \in Nat : \A i \in I, j \in J : i + j <= n => Same(i, j)}
<1>12. ASSUME NEW i \in I, NEW j \in J,
              i # 0 => Same(i - 1, j),
              j # 0 => Same(i, j - 1),
              i # 0 /\ j # 0 => Same(i - 1, j - 1)
       PROVE  Same(i, j)
  <2>1. dp[<<i, j>>] = Cell(rule, str, dp, i, j)
    BY <1>11
  <2>2. CASE j = 0
    <3>1. Cell(rule, str, dp, i, j) = (i = 0)
      BY <2>2, CellOfNoRule
    <3>2. i \in to[j] <=> i = 0
      BY <1>3, <2>2, Zenon
    <3>3. QED
      BY <2>1, <3>1, <3>2, Zenon
  <2>3. CASE i = 0 /\ j # 0
    <3>1. Cell(rule, str, dp, i, j) = (rule[j] = Star /\ dp[<<0, j - 1>>])
      BY <2>3, CellOfNoText
    <3>2. i \in to[j] <=> rule[j] = Star /\ 0 \in to[j - 1]
      BY <1>3, <2>3, Zenon
    <3>3. dp[<<0, j - 1>>] <=> 0 \in to[j - 1]
      BY <1>12, <2>3, Zenon
    <3>4. QED
      BY <2>1, <3>1, <3>2, <3>3, Zenon
  <2>4. CASE i # 0 /\ j # 0 /\ rule[j] \in {Quest, str[i]}
    <3>1. i # 0 /\ j # 0 /\ (rule[j] = Quest \/ rule[j] = str[i])
      BY <2>4
    <3>2. Cell(rule, str, dp, i, j) <=> dp[<<i - 1, j - 1>>]
      BY <3>1, CellOfOne
    <3>3. i \in to[j] <=> i - 1 \in to[j - 1]
      BY <1>3, <2>4, Zenon
    <3>4. QED
      BY <1>12, <2>1, <2>4, <3>2, <3>3, Zenon
  <2>5. CASE i # 0 /\ j # 0 /\ rule[j] = Star
    <3>1. Cell(rule, str, dp, i, j) = (dp[<<i - 1, j>>] \/ dp[<<i, j - 1>>])
      BY <1>5, <2>5, CellOfStar
    <3>2. i \in to[j] <=> i - 1 \in to[j] \/ i \in to[j - 1]
      BY <1>3, <2>5, Zenon
    <3>3. QED
      BY <1>12, <2>1, <2>5, <3>1, <3>2, Zenon
  <2>6. CASE i # 0 /\ j # 0 /\ rule[j] # Star /\ rule[j] \notin {Quest, str[i]}
    <3>1. Cell(rule, str, dp, i, j) = FALSE
      BY <2>6, CellOfOther
    <3>2. i \notin to[j]
      BY <1>3, <2>6, Zenon
    <3>3. QED
      BY <2>1, <3>1, <3>2, Zenon
  <2>7. QED
    BY <2>2, <2>3, <2>4, <2>5, <2>6, Zenon
<1> HIDE DEF Same
<1>13. ASSUME NEW n \in Nat, NEW i \in I, NEW j \in J, i + j <= n,
               \A k \in I, m \in J : k + m <= n - 1 => Same(k, m)
        PROVE  Same(i, j)
  <2>1. i \in Nat /\ j \in Nat
    BY <1>1 DEF I, J
  <2>2. ASSUME i # 0 PROVE i - 1 \in I /\ (i - 1) + j <= n - 1
    <3>1. (i - 1) + j <= n - 1
      BY <1>13, <2>1
    <3>2. QED
      BY <1>6, <2>2, <3>1
  <2>3. ASSUME j # 0 PROVE j - 1 \in J /\ i + (j - 1) <= n - 1
    <3>1. i + (j - 1) <= n - 1
      BY <1>13, <2>1
    <3>2. QED
      BY <1>6, <2>3, <3>1
  <2>4. (i - 1) + (j - 1) <= n - 1
    BY <1>13, <2>1
  <2>5. /\ i # 0 => Same(i - 1, j)
        /\ j # 0 => Same(i, j - 1)
        /\ i # 0 /\ j # 0 => Same(i - 1, j - 1)
    BY <1>13, <2>2, <2>3, <2>4
  <2>6. QED
    BY <1>12, <2>5, Zenon
<1>14. 0 \in S
  <2>1. \A k \in I, m \in J : ~(k + m <= 0 - 1)
    BY <1>1 DEF I, J
  <2>2. ASSUME NEW i \in I, NEW j \in J, i + j <= 0 PROVE Same(i, j)
    BY <1>13, <2>1, <2>2
  <2>3. QED
    BY <2>2
<1>15. ASSUME NEW n \in Nat, n \in S PROVE n + 1 \in S
  <2>1. n + 1 \in Nat /\ (n + 1) - 1 = n
    OBVIOUS
  <2>2. \A k \in I, m \in J : k + m <= (n + 1) - 1 => Same(k, m)
    BY <1>15, <2>1
  <2>3. ASSUME NEW i \in I, NEW j \in J, i + j <= n + 1 PROVE Same(i, j)
    BY <1>13, <2>1, <2>2, <2>3, Zenon
  <2>4. QED
    BY <2>1, <2>3
<1>16. Nat \subseteq S
  <2> HIDE DEF S
  <2>1. QED
    BY <1>14, <1>15, SetInduction
<1>17. Same(Len(str), Len(rule))
  <2>1. Len(str) + Len(rule) \in Nat /\ Len(str) \in I /\ Len(rule) \in J
        /\ Len(str) + Len(rule) <= Len(str) + Len(rule)
    BY <1>1 DEF I, J
  <2>2. QED
    BY <1>16, <2>1
<1>18. QED
  BY <1>2, <1>4, <1>17, Zenon DEF Same

-----------------------------------------------------------------------------
\* The weight of a rule against the number of its wildcards.

\* What agrees at first, and at each step if it did before, agrees at the end.
LEMMA StepsAgree ==
  ASSUME NEW n, n \in Nat, NEW f, NEW t, f[0] = t[0],
         \A j \in 1 .. n : f[j - 1] = t[j - 1] => f[j] = t[j]
  PROVE  f[n] = t[n]
<1> DEFINE S == {k \in Nat : k <= n => f[k] = t[k]}
<1>1. 0 \in S
  OBVIOUS
<1>2. ASSUME NEW k \in Nat, k \in S PROVE k + 1 \in S
  <2>1. ASSUME k + 1 <= n PROVE f[k + 1] = t[k + 1]
    <3>1. k + 1 \in 1 .. n /\ (k + 1) - 1 = k /\ f[k] = t[k]
      BY <1>2, <2>1
    <3>2. QED
      BY <3>1
  <2>2. QED
    BY <2>1
<1> HIDE DEF S
<1>3. Nat \subseteq S
  BY <1>1, <1>2, SetInduction
<1>4. QED
  BY <1>3 DEF S

\* How often c is among the first j characters of a text.
CountTo(text, c, j) == Cardinality({i \in 1 .. j : text[i] = c})

\* Counting the places of a character one by one.
LEMMA CountStep ==
  ASSUME NEW text, NEW c, NEW j, j \in Nat
  PROVE  /\ CountTo(text, c, 0) = 0
         /\ CountTo(text, c, j) \in Nat
         /\ CountTo(text, c, j + 1) = CountTo(text, c, j) + (IF text[j + 1] = c THEN 1 ELSE 0)
<1> DEFINE A == {i \in 1 .. j : text[i] = c}
           B == {i \in 1 .. j + 1 : text[i] = c}
<1>1. {i \in 1 .. 0 : text[i] = c} = {}
  OBVIOUS
<1>2. CountTo(text, c, 0) = 0
  BY <1>1, FS_EmptySet DEF CountTo
<1>3. IsFiniteSet(A) /\ Cardinality(A) \in Nat
  <2>1. IsFiniteSet(1 .. j) /\ A \in SUBSET (1 .. j)
    BY FS_Interval
  <2>2. QED
    BY <2>1, FS_Subset, FS_CardinalityType
<1>4. CASE text[j + 1] = c
  <2>1. B = A \cup {j + 1} /\ j + 1 \notin A
    BY <1>4
  <2>2. Cardinality(B) = Cardinality(A) + 1
    BY <1>3, <2>1, FS_AddElement
  <2>3. QED
    BY <1>2, <1>3, <1>4, <2>2 DEF CountTo
<1>5. CASE text[j + 1] # c
  <2>1. B = A
    BY <1>5
  <2> HIDE DEF A, B
  <2>2. CountTo(text, c, j) = Cardinality(A) /\ CountTo(text, c, j + 1) = Cardinality(A)
    BY <2>1 DEF CountTo, A, B
  <2>3. QED
    BY <1>2, <1>3, <1>5, <2>2
<1>6. QED
  BY <1>4, <1>5

\* How many cells of a row have weight, and how much.
Wildcards(rule) == Count(rule, Quest) + 2 * Count(rule, Star)

\* For a text without a * every row of the table weighs the wildcards of the rule.
LEMMA RowWeighed ==
  ASSUME NEW rule \in Seq(Nat), NEW s, s # Star
  PROVE  RowWeight(rule, s) = Wildcards(rule) /\ Wildcards(rule) \in Nat
<1> DEFINE n == Len(rule)
           t == [j \in 0 .. n |-> CountTo(rule, Quest, j) + 2 * CountTo(rule, Star, j)]
           Is(f) == f = [j \in 0 .. n |-> IF j = 0 THEN 0 ELSE f[j - 1] + CellWeight(rule[j], s)]
           f == CHOOSE f : Is(f)
<1>1. n \in Nat
  OBVIOUS
<1> HIDE DEF n
<1>2. ASSUME NEW j \in 1 .. n PROVE t[j] = t[j - 1] + CellWeight(rule[j], s)
  <2>1. j - 1 \in Nat /\ (j - 1) + 1 = j /\ j - 1 \in 0 .. n /\ j \in 0 .. n
    BY <1>1
  <2>2. t[j] = CountTo(rule, Quest, j) + 2 * CountTo(rule, Star, j)
        /\ t[j - 1] = CountTo(rule, Quest, j - 1) + 2 * CountTo(rule, Star, j - 1)
    BY <2>1
  <2>3. /\ CountTo(rule, Quest, j - 1) \in Nat /\ CountTo(rule, Star, j - 1) \in Nat
        /\ CountTo(rule, Quest, j) = CountTo(rule, Quest, j - 1) + (IF rule[j] = Quest THEN 1 ELSE 0)
        /\ CountTo(rule, Star, j) = CountTo(rule, Star, j - 1) + (IF rule[j] = Star THEN 1 ELSE 0)
    BY <2>1, CountStep
  <2>4. CellWeight(rule[j], s) = (IF rule[j] = Quest THEN 1 ELSE 0) + 2 * (IF rule[j] = Star THEN 1 ELSE 0)
    BY DEF CellWeight, Quest, Star
  <2> HIDE DEF t
  <2>5. QED
    BY <2>2, <2>3, <2>4
<1>3. t[0] = 0
  <2>1. 0 \in 0 .. n /\ 0 \in Nat
    BY <1>1
  <2>2. CountTo(rule, Quest, 0) = 0 /\ CountTo(rule, Star, 0) = 0
    BY <2>1, CountStep
  <2>3. QED
    BY <2>1, <2>2
<1>4. Is(t)
  <2>1. t = [j \in 0 .. n |-> t[j]]
    OBVIOUS
  <2> HIDE DEF t
  <2>2. \A j \in 0 .. n : t[j] = IF j = 0 THEN 0 ELSE t[j - 1] + CellWeight(rule[j], s)
    BY <1>1, <1>2, <1>3
  <2>3. QED
    BY <2>1, <2>2
<1>5. Is(f)
  BY <1>4, Zenon
<1>6. RowWeight(rule, s) = f[n]
  BY DEF RowWeight, n
<1>7. f[n] = t[n]
  <2> HIDE DEF f, t
  <2>1. \A j \in 0 .. n : f[j] = IF j = 0 THEN 0 ELSE f[j - 1] + CellWeight(rule[j], s)
    BY <1>5, Zenon
  <2>2. f[0] = t[0]
    BY <1>1, <1>3, <2>1
  <2>3. \A j \in 1 .. n : f[j - 1] = t[j - 1] => f[j] = t[j]
    BY <1>1, <1>2, <2>1
  <2>4. QED
    BY <1>1, <2>2, <2>3, StepsAgree
<1>8. t[n] = Wildcards(rule) /\ Wildcards(rule) \in Nat
  <2>1. n \in 0 .. n
    BY <1>1
  <2>2. Wildcards(rule) = CountTo(rule, Quest, n) + 2 * CountTo(rule, Star, n)
    BY DEF Wildcards, Count, CountTo, n
  <2>3. CountTo(rule, Quest, n) \in Nat /\ CountTo(rule, Star, n) \in Nat
    BY <1>1, CountStep
  <2>4. QED
    BY <2>1, <2>2, <2>3
<1>9. QED
  BY <1>6, <1>7, <1>8

\* The weight of wildcard_match() is the wildcards of the rule for every character of the
\* text, whether or not their cells lie on a match.
THEOREM RuleWeighed ==
  ASSUME NEW rule \in Seq(Nat), NEW str \in Seq(Nat \ {Star})
  PROVE  Weight(rule, str) = Len(str) * Wildcards(rule) /\ Weight(rule, str) \in Nat
<1> DEFINE n == Len(str)
           w == Wildcards(rule)
           t == [i \in 0 .. n |-> i * w]
           Is(f) == f = [i \in 0 .. n |-> IF i = 0 THEN 0 ELSE f[i - 1] + RowWeight(rule, str[i])]
           f == CHOOSE f : Is(f)
<1>1. n \in Nat /\ w \in Nat /\ \A i \in 1 .. n : RowWeight(rule, str[i]) = w
  <2>1. n \in Nat /\ \A i \in 1 .. n : str[i] # Star
    OBVIOUS
  <2>2. 0 # Star
    BY DEF Star
  <2>3. QED
    BY <2>1, <2>2, RowWeighed
<1>2. Weight(rule, str) = f[n]
  BY DEF Weight
<1> HIDE DEF n, w
<1>3. t[0] = 0 /\ \A i \in 1 .. n : t[i] = t[i - 1] + w
  <2>1. 0 * w = 0 /\ 0 \in 0 .. n
    BY <1>1
  <2>2. ASSUME NEW i \in 1 .. n PROVE t[i] = t[i - 1] + w
    <3>1. i - 1 \in 0 .. n /\ i \in 0 .. n
      BY <1>1
    <3>2. t[i] = i * w /\ t[i - 1] = (i - 1) * w
      BY <3>1
    <3> HIDE DEF t
    <3>3. i * w = (i - 1) * w + w
      BY <1>1
    <3>4. QED
      BY <3>2, <3>3
  <2>3. QED
    BY <2>1, <2>2
<1>4. Is(t)
  <2>1. t = [i \in 0 .. n |-> t[i]]
    OBVIOUS
  <2> HIDE DEF t
  <2>2. \A i \in 0 .. n : t[i] = IF i = 0 THEN 0 ELSE t[i - 1] + RowWeight(rule, str[i])
    BY <1>1, <1>3
  <2>3. QED
    BY <2>1, <2>2
<1>5. Is(f)
  BY <1>4, Zenon
<1>6. f[n] = t[n]
  <2> HIDE DEF f, t
  <2>1. \A i \in 0 .. n : f[i] = IF i = 0 THEN 0 ELSE f[i - 1] + RowWeight(rule, str[i])
    BY <1>5, Zenon
  <2>2. f[0] = t[0]
    BY <1>1, <1>3, <2>1
  <2>3. \A i \in 1 .. n : f[i - 1] = t[i - 1] => f[i] = t[i]
    BY <1>1, <1>3, <2>1
  <2>4. QED
    BY <1>1, <2>2, <2>3, StepsAgree
<1>7. t[n] = n * w /\ n * w \in Nat
  <2>1. n \in 0 .. n
    BY <1>1
  <2>2. n * w \in Nat
    BY <1>1
  <2>3. QED
    BY <2>1, <2>2
<1>8. QED
  BY <1>2, <1>6, <1>7 DEF n, w

-----------------------------------------------------------------------------
\* The rules that path_match() lets through stand for the path, with their distance.
LEMMA MatchesAreStanding ==
  ASSUME NEW rule \in Seq(Nat), NEW path \in Paths, Starless(path)
  PROVE  /\ PathMatches(rule, path) <=> StandsFor(rule, path)
         /\ StandsFor(rule, path) =>
              PathWeight(rule, path) = Distance(rule, path) /\ Distance(rule, path) \in Nat
<1>1. CASE TooShort(rule, path) \/ RuleBefore(rule) = <<>>
  BY <1>1 DEF PathMatches, StandsFor
<1>2. CASE ~TooShort(rule, path) /\ RuleBefore(rule) # <<>>
  <2> DEFINE a == Join(RuleBefore(rule))
             b == Join(PathBefore(rule, path))
  <2>1. a \in Seq(Nat) /\ b \in Seq(Nat \ {Star})
    BY <1>2, TextsMatched
  <2>2. Matches(a, b) <=> Reaches(a, b)
    BY <2>1, WildcardsMatch
  <2>3. Weight(a, b) = Len(b) * Wildcards(a) /\ Weight(a, b) \in Nat
    BY <2>1, RuleWeighed
  <2> HIDE DEF a, b
  <2>4. PathMatches(rule, path) <=> StandsFor(rule, path)
    BY <1>2, <2>2 DEF PathMatches, StandsFor, a, b
  <2>5. PathWeight(rule, path) = Weight(a, b)
    BY DEF PathWeight, a, b
  <2>6. Distance(rule, path) = Len(b) * Wildcards(a)
    BY DEF Distance, Wildcards, a, b
  <2>7. PathWeight(rule, path) = Distance(rule, path) /\ Distance(rule, path) \in Nat
    BY <2>3, <2>5, <2>6
  <2>8. QED
    BY <2>4, <2>7
<1>3. QED
  BY <1>1, <1>2

-----------------------------------------------------------------------------
\* The loop over the table.

\* No rule among the first k stands for the path without a wildcard.
NoneExact(s, path, k) ==
  \A i \in 1 .. k : StandsFor(s[i], path) => Distance(s[i], path) # 0

\* Of the first k rules, rule m is the nearest; of equally near ones the last, of those
\* that stand for a blank path the first.
Nearest(s, path, k, m) ==
  /\ StandsFor(s[m], path)
  /\ \A i \in 1 .. k : StandsFor(s[i], path) /\ i # m =>
       \/ Distance(s[m], path) < Distance(s[i], path)
       \/ /\ Distance(s[m], path) = Distance(s[i], path)
          /\ \/ path = <<>> /\ m < i
             \/ path # <<>> /\ i < m

\* After k turns that did not end the loop.
GoesOn(s, path, k, acc) ==
  /\ NoneExact(s, path, k)
  /\ \/ acc.rule = None /\ \A i \in 1 .. k : ~StandsFor(s[i], path)
     \/ \E m \in 1 .. k :
          /\ acc.rule = s[m] /\ acc.weight = Distance(s[m], path) /\ Nearest(s, path, k, m)
          /\ (\A i \in 1 .. k : StandsFor(s[i], path) => i = m) => acc.args = ArgsOf(s[m], path)

Found(s, path, k, acc) ==
  \E m \in 1 .. k :
    /\ acc.rule = s[m] /\ StandsFor(s[m], path) /\ Distance(s[m], path) = 0
    /\ acc.args = ArgsOf(s[m], path) /\ NoneExact(s, path, m - 1)

Threw(s, path, k) ==
  \E m \in 1 .. k : RuleBefore(s[m]) = <<>> /\ NoneExact(s, path, m - 1)

LoopInv(s, path, k, acc) ==
  /\ acc.end = "no" => GoesOn(s, path, k, acc)
  /\ acc.end = "found" => Found(s, path, k, acc)
  /\ acc.end = "thrown" => Threw(s, path, k)

\* What the loop keeps between two turns.
Accs(S, path, old) ==
  [rule : S \cup {None}, weight : Nat, args : {old} \cup {ArgsOf(r, path) : r \in S},
   end : {"no", "found", "thrown"}]

\* One turn of the loop of call_on_request(): it does nothing after the end; it throws, finds
\* a rule without wildcards, takes a better rule, passes a worse one, or passes a rule that
\* does not stand for the path.
LEMMA TurnCases ==
  ASSUME NEW path \in Paths, Starless(path), NEW r \in Seq(Nat), NEW S, r \in S, NEW old,
         NEW acc \in Accs(S, path, old)
  PROVE  LET to == Turn(acc, r, path) IN
         /\ to \in Accs(S, path, old)
         /\ \/ acc.end # "no" /\ to = acc
            \/ /\ acc.end = "no" /\ to.end = "thrown" /\ RuleBefore(r) = <<>>
            \/ /\ acc.end = "no" /\ to.end = "found"
               /\ StandsFor(r, path) /\ Distance(r, path) = 0
               /\ to.rule = r /\ to.args = ArgsOf(r, path)
            \/ /\ acc.end = "no" /\ to.end = "no"
               /\ StandsFor(r, path) /\ Distance(r, path) # 0
               /\ Better(Distance(r, path), acc, path)
               /\ to.rule = r /\ to.weight = Distance(r, path) /\ to.args = ArgsOf(r, path)
            \/ /\ acc.end = "no" /\ to.end = "no"
               /\ StandsFor(r, path) /\ Distance(r, path) # 0
               /\ ~Better(Distance(r, path), acc, path)
               /\ to.rule = acc.rule /\ to.weight = acc.weight
            \/ acc.end = "no" /\ ~StandsFor(r, path) /\ to = acc
<1> DEFINE w == PathWeight(r, path)
           seen == [acc EXCEPT !.args = ArgsOf(r, path)]
           to == Turn(acc, r, path)
<1>1. /\ PathMatches(r, path) <=> StandsFor(r, path)
      /\ StandsFor(r, path) => w = Distance(r, path) /\ w \in Nat
  BY MatchesAreStanding
<1>2. PathMatchThrows(r, path) => RuleBefore(r) = <<>> /\ ~PathMatches(r, path)
  BY DEF PathMatchThrows, PathMatches
<1> HIDE DEF w
<1>3. /\ acc.end # "no" => to = acc
      /\ acc.end = "no" /\ PathMatchThrows(r, path) => to = [acc EXCEPT !.end = "thrown"]
      /\ acc.end = "no" /\ ~PathMatchThrows(r, path) /\ PathMatches(r, path) =>
           to = IF w = 0 THEN [seen EXCEPT !.rule = r, !.weight = w, !.end = "found"]
                ELSE IF Better(w, acc, path) THEN [seen EXCEPT !.rule = r, !.weight = w]
                ELSE seen
      /\ acc.end = "no" /\ ~PathMatchThrows(r, path) /\ ~PathMatches(r, path) => to = acc
  <2>1. ASSUME acc.end # "no" PROVE to = acc
    BY <2>1, Zenon DEF Turn
  <2>2. ASSUME acc.end = "no", PathMatchThrows(r, path)
        PROVE  to = [acc EXCEPT !.end = "thrown"]
    BY <1>2, <2>2, Zenon DEF Turn
  <2>3. ASSUME acc.end = "no", ~PathMatchThrows(r, path), PathMatches(r, path)
        PROVE  to = IF w = 0 THEN [seen EXCEPT !.rule = r, !.weight = w, !.end = "found"]
                    ELSE IF Better(w, acc, path) THEN [seen EXCEPT !.rule = r, !.weight = w]
                    ELSE seen
    <3>1. seen = [acc EXCEPT !.args = Replaced(@, r, path)]
      BY DEF Replaced
    <3> HIDE DEF seen
    <3>2. QED
      BY <2>3, <3>1, Zenon DEF Turn, Ends, w
  <2>4. ASSUME acc.end = "no", ~PathMatchThrows(r, path), ~PathMatches(r, path)
        PROVE  to = acc
    BY <2>4, Zenon DEF Turn
  <2>5. QED
    BY <2>1, <2>2, <2>3, <2>4, Zenon
<1> HIDE DEF to
<1>4. CASE acc.end # "no"
  BY <1>3, <1>4 DEF to
<1>5. CASE acc.end = "no" /\ PathMatchThrows(r, path)
  <2>1. to \in Accs(S, path, old) /\ to.end = "thrown"
    BY <1>3, <1>5 DEF Accs
  <2>2. QED
    BY <1>2, <1>5, <2>1 DEF to
<1>6. CASE acc.end = "no" /\ ~PathMatchThrows(r, path) /\ PathMatches(r, path)
  <2>1. StandsFor(r, path) /\ w = Distance(r, path) /\ w \in Nat
    BY <1>1, <1>6
  <2>2. CASE w = 0
    <3>1. to = [seen EXCEPT !.rule = r, !.weight = w, !.end = "found"]
      BY <1>3, <1>6, <2>2
    <3>2. to \in Accs(S, path, old) /\ to.end = "found" /\ to.rule = r /\ to.args = ArgsOf(r, path)
      BY <2>1, <3>1 DEF Accs
    <3>3. QED
      BY <1>6, <2>1, <2>2, <3>2 DEF to
  <2>3. CASE w # 0 /\ Better(w, acc, path)
    <3>1. to = [seen EXCEPT !.rule = r, !.weight = w]
      BY <1>3, <1>6, <2>3
    <3>2. /\ to \in Accs(S, path, old) /\ to.end = "no" /\ to.rule = r /\ to.weight = w
          /\ to.args = ArgsOf(r, path)
      BY <1>6, <2>1, <3>1 DEF Accs
    <3>3. QED
      BY <1>6, <2>1, <2>3, <3>2 DEF to
  <2>4. CASE w # 0 /\ ~Better(w, acc, path)
    <3>1. to = seen
      BY <1>3, <1>6, <2>4
    <3>2. /\ to \in Accs(S, path, old) /\ to.end = "no" /\ to.rule = acc.rule
          /\ to.weight = acc.weight
      BY <1>6, <3>1 DEF Accs
    <3>3. QED
      BY <1>6, <2>1, <2>4, <3>2 DEF to
  <2>5. QED
    BY <2>2, <2>3, <2>4
<1>7. CASE acc.end = "no" /\ ~PathMatchThrows(r, path) /\ ~PathMatches(r, path)
  BY <1>1, <1>3, <1>7 DEF to
<1>8. QED
  BY <1>4, <1>5, <1>6, <1>7

\* A turn for rule s[k + 1].
LEMMA LoopStep ==
  ASSUME NEW path \in Paths, Starless(path), NEW S, NEW old, NEW s, NEW k \in Nat,
         \A i \in 1 .. k + 1 : s[i] \in S /\ s[i] \in Seq(Nat),
         NEW acc \in Accs(S, path, old), LoopInv(s, path, k, acc)
  PROVE  /\ Turn(acc, s[k + 1], path) \in Accs(S, path, old)
         /\ LoopInv(s, path, k + 1, Turn(acc, s[k + 1], path))
<1> DEFINE r == s[k + 1]
           to == Turn(acc, r, path)
           d(i) == Distance(s[i], path)
<1>1. k + 1 \in 1 .. k + 1 /\ (k + 1) - 1 = k /\ 1 .. k \subseteq 1 .. k + 1
      /\ \A i \in 1 .. k + 1 : i # k + 1 => i \in 1 .. k
  OBVIOUS
<1>2. r \in S /\ r \in Seq(Nat)
  BY <1>1
<1>3. \A i \in 1 .. k + 1 : StandsFor(s[i], path) => d(i) \in Nat
  BY MatchesAreStanding
<1> HIDE DEF to
<1>4. /\ to \in Accs(S, path, old)
      /\ \/ acc.end # "no" /\ to = acc
         \/ /\ acc.end = "no" /\ to.end = "thrown" /\ RuleBefore(r) = <<>>
         \/ /\ acc.end = "no" /\ to.end = "found"
            /\ StandsFor(r, path) /\ Distance(r, path) = 0
            /\ to.rule = r /\ to.args = ArgsOf(r, path)
         \/ /\ acc.end = "no" /\ to.end = "no"
            /\ StandsFor(r, path) /\ Distance(r, path) # 0
            /\ Better(Distance(r, path), acc, path)
            /\ to.rule = r /\ to.weight = Distance(r, path) /\ to.args = ArgsOf(r, path)
         \/ /\ acc.end = "no" /\ to.end = "no"
            /\ StandsFor(r, path) /\ Distance(r, path) # 0
            /\ ~Better(Distance(r, path), acc, path)
            /\ to.rule = acc.rule /\ to.weight = acc.weight
         \/ acc.end = "no" /\ ~StandsFor(r, path) /\ to = acc
  BY <1>2, TurnCases DEF to
<1>5. acc.end = "no" => GoesOn(s, path, k, acc)
  BY DEF LoopInv
<1>6. CASE acc.end # "no" /\ to = acc
  <2>1. acc.end = "found" => Found(s, path, k + 1, to)
    BY <1>1, <1>6 DEF LoopInv, Found
  <2>2. acc.end = "thrown" => Threw(s, path, k + 1)
    BY <1>1, <1>6 DEF LoopInv, Threw
  <2>3. QED
    BY <1>4, <1>6, <2>1, <2>2 DEF LoopInv, to
<1>7. CASE acc.end = "no" /\ to.end = "thrown" /\ RuleBefore(r) = <<>>
  <2>1. Threw(s, path, k + 1)
    BY <1>1, <1>5, <1>7 DEF Threw, GoesOn
  <2>2. QED
    BY <1>4, <1>7, <2>1 DEF LoopInv, to
<1>8. CASE /\ acc.end = "no" /\ to.end = "found"
           /\ StandsFor(r, path) /\ Distance(r, path) = 0
           /\ to.rule = r /\ to.args = ArgsOf(r, path)
  <2>1. Found(s, path, k + 1, to)
    BY <1>1, <1>5, <1>8 DEF Found, GoesOn
  <2>2. QED
    BY <1>4, <1>8, <2>1 DEF LoopInv, to
<1>9. CASE /\ acc.end = "no" /\ to.end = "no"
           /\ StandsFor(r, path) /\ Distance(r, path) # 0
           /\ Better(Distance(r, path), acc, path)
           /\ to.rule = r /\ to.weight = Distance(r, path) /\ to.args = ArgsOf(r, path)
  <2>1. NoneExact(s, path, k + 1)
    BY <1>1, <1>5, <1>9 DEF NoneExact, GoesOn
  <2>2. ASSUME NEW i \in 1 .. k, StandsFor(s[i], path)
        PROVE  \/ d(k + 1) < d(i)
               \/ d(k + 1) = d(i) /\ path # <<>> /\ i < k + 1
    <3>1. PICK m \in 1 .. k : /\ acc.rule = s[m] /\ acc.weight = d(m)
                              /\ Nearest(s, path, k, m)
      BY <1>5, <1>9, <2>2 DEF GoesOn
    <3>2. acc.rule # None
      BY <1>1, <3>1, RoutingAssumption
    <3>3. d(i) \in Nat /\ d(m) \in Nat /\ d(k + 1) \in Nat /\ i < k + 1
      BY <1>1, <1>3, <1>9, <2>2, <3>1 DEF Nearest
    <3>4. d(m) <= d(i)
      <4>1. i # m => d(m) < d(i) \/ d(m) = d(i)
        BY <2>2, <3>1 DEF Nearest
      <4>2. i = m => d(m) = d(i)
        OBVIOUS
      <4> HIDE DEF d
      <4>3. QED
        BY <3>3, <4>1, <4>2
    <3>5. d(k + 1) < d(m) \/ (d(k + 1) = d(m) /\ path # <<>>)
      <4>1. Len(path) > 0 => path # <<>>
        OBVIOUS
      <4>2. QED
        BY <1>9, <3>1, <3>2, <4>1 DEF Better
    <3> HIDE DEF d
    <3>6. QED
      BY <3>3, <3>4, <3>5
  <2>3. Nearest(s, path, k + 1, k + 1)
    BY <1>1, <1>9, <2>2 DEF Nearest
  <2>4. GoesOn(s, path, k + 1, to)
    BY <1>1, <1>9, <2>1, <2>3 DEF GoesOn
  <2>5. QED
    BY <1>4, <1>9, <2>4 DEF LoopInv, to
<1>10. CASE /\ acc.end = "no" /\ to.end = "no"
            /\ StandsFor(r, path) /\ Distance(r, path) # 0
            /\ ~Better(Distance(r, path), acc, path)
            /\ to.rule = acc.rule /\ to.weight = acc.weight
  <2>1. NoneExact(s, path, k + 1)
    BY <1>1, <1>5, <1>10 DEF NoneExact, GoesOn
  <2>2. acc.rule # None
    BY <1>10 DEF Better
  <2>3. PICK m \in 1 .. k : /\ acc.rule = s[m] /\ acc.weight = d(m) /\ Nearest(s, path, k, m)
    BY <1>5, <1>10, <2>2 DEF GoesOn
  <2>4. d(m) < d(k + 1) \/ (d(m) = d(k + 1) /\ path = <<>> /\ m < k + 1)
    <3>1. d(m) \in Nat /\ d(k + 1) \in Nat /\ m < k + 1
      BY <1>1, <1>3, <1>10, <2>3 DEF Nearest
    <3>2. Len(path) > 0 \/ path = <<>>
      BY RoutingAssumption
    <3>3. ~(d(k + 1) < d(m)) /\ ~(d(k + 1) = d(m) /\ Len(path) > 0)
      BY <1>10, <2>3 DEF Better
    <3> HIDE DEF d
    <3>4. QED
      BY <3>1, <3>2, <3>3
  <2>5. Nearest(s, path, k + 1, m)
    BY <1>1, <2>3, <2>4 DEF Nearest
  <2>6. ~ \A i \in 1 .. k + 1 : StandsFor(s[i], path) => i = m
    BY <1>1, <1>10, <2>3
  <2>7. GoesOn(s, path, k + 1, to)
    BY <1>1, <1>10, <2>1, <2>3, <2>5, <2>6 DEF GoesOn
  <2>8. QED
    BY <1>4, <1>10, <2>7 DEF LoopInv, to
<1>11. CASE acc.end = "no" /\ ~StandsFor(r, path) /\ to = acc
  <2>1. NoneExact(s, path, k + 1)
    BY <1>1, <1>5, <1>11 DEF NoneExact, GoesOn
  <2>2. CASE acc.rule = None /\ \A i \in 1 .. k : ~StandsFor(s[i], path)
    <3>1. \A i \in 1 .. k + 1 : ~StandsFor(s[i], path)
      BY <1>1, <1>11, <2>2
    <3>2. QED
      BY <1>4, <1>11, <2>1, <2>2, <3>1 DEF GoesOn, LoopInv, to
  <2>3. CASE \E m \in 1 .. k :
          /\ acc.rule = s[m] /\ acc.weight = d(m) /\ Nearest(s, path, k, m)
          /\ (\A i \in 1 .. k : StandsFor(s[i], path) => i = m) => acc.args = ArgsOf(s[m], path)
    <3>1. PICK m \in 1 .. k :
            /\ acc.rule = s[m] /\ acc.weight = d(m) /\ Nearest(s, path, k, m)
            /\ (\A i \in 1 .. k : StandsFor(s[i], path) => i = m) => acc.args = ArgsOf(s[m], path)
      BY <2>3
    <3>2. Nearest(s, path, k + 1, m)
      BY <1>1, <1>11, <3>1 DEF Nearest
    <3>3. (\A i \in 1 .. k + 1 : StandsFor(s[i], path) => i = m) =>
             acc.args = ArgsOf(s[m], path)
      BY <1>1, <3>1
    <3>4. GoesOn(s, path, k + 1, acc)
      BY <1>1, <2>1, <3>1, <3>2, <3>3 DEF GoesOn
    <3>5. QED
      BY <1>4, <1>11, <3>4 DEF LoopInv, to
  <2>4. QED
    BY <1>5, <1>11, <2>2, <2>3 DEF GoesOn
<1>12. QED
  BY <1>4, <1>6, <1>7, <1>8, <1>9, <1>10, <1>11

-----------------------------------------------------------------------------

\* acc is what Chosen computes: the results of the turns for the rules of s.
IsLoop(acc, s, path, first) ==
  acc = [n \in 0 .. Len(s) |-> IF n = 0 THEN first ELSE Turn(acc[n - 1], s[n], path)]

FirstTurn(old) == [rule |-> None, weight |-> 0, args |-> old, end |-> "no"]

\* The turns of the loop of call_on_request() have results.
LEMMA LoopExists ==
  ASSUME NEW path \in Paths, Starless(path), NEW S, NEW old, NEW s, Len(s) \in Nat,
         \A i \in 1 .. Len(s) : s[i] \in S /\ s[i] \in Seq(Nat)
  PROVE  \E acc : IsLoop(acc, s, path, FirstTurn(old))
<1> DEFINE n == Len(s)
           V == Accs(S, path, old)
           first == FirstTurn(old)
           G == [c \in (1 .. n) \X V |-> Turn(c[2], s[c[1]], path)]
<1>1. first \in V
  BY DEF Accs, FirstTurn
<1>2. \A i \in 1 .. n, acc \in V : Turn(acc, s[i], path) \in V
  BY TurnCases
<1> HIDE DEF n, V, first
<1>3. G \in [(1 .. n) \X V -> V]
  BY <1>2
<1> HIDE DEF G
<1>4. PICK f \in [0 .. n -> V] : StepByStep(f, G, first, n)
  BY <1>1, <1>3, Recursion DEF n
<1>5. ASSUME NEW i \in 1 .. n PROVE f[i] = Turn(f[i - 1], s[i], path)
  <2>1. i - 1 \in 0 .. n
    BY DEF n
  <2>2. <<i, f[i - 1]>> \in (1 .. n) \X V
    BY <2>1
  <2>3. f[i] = G[<<i, f[i - 1]>>]
    BY <1>4 DEF StepByStep
  <2>4. QED
    BY <2>2, <2>3 DEF G
<1>6. \A i \in 0 .. n : f[i] = IF i = 0 THEN first ELSE Turn(f[i - 1], s[i], path)
  <2>1. f[0] = first
    BY <1>4 DEF StepByStep
  <2>2. \A i \in 0 .. n : i = 0 \/ i \in 1 .. n
    BY DEF n
  <2>3. QED
    BY <1>5, <2>1, <2>2
<1>7. IsLoop(f, s, path, first)
  BY <1>6, Zenon DEF IsLoop, n
<1>8. QED
  BY <1>7, Zenon DEF first

\* The invariant of the loop of call_on_request() holds after its last turn.
LEMMA LoopEnds ==
  ASSUME NEW path \in Paths, Starless(path), NEW S, NEW old, NEW s, Len(s) \in Nat,
         \A i \in 1 .. Len(s) : s[i] \in S /\ s[i] \in Seq(Nat),
         NEW acc, IsLoop(acc, s, path, FirstTurn(old))
  PROVE  LoopInv(s, path, Len(s), acc[Len(s)]) /\ acc[Len(s)].end \in {"no", "found", "thrown"}
<1> DEFINE n == Len(s)
           V == Accs(S, path, old)
           Holds(k) == k <= n => acc[k] \in V /\ LoopInv(s, path, k, acc[k])
           T == {k \in Nat : Holds(k)}
<1>1. \A i \in 0 .. n : acc[i] = IF i = 0 THEN FirstTurn(old) ELSE Turn(acc[i - 1], s[i], path)
  BY Zenon DEF IsLoop
<1> HIDE DEF n
<1>2. n \in Nat
  BY DEF n
<1>3. 0 \in T
  <2>1. acc[0] = FirstTurn(old)
    BY <1>1, <1>2
  <2>2. FirstTurn(old) \in V
    BY DEF Accs, FirstTurn
  <2>3. LoopInv(s, path, 0, FirstTurn(old))
    BY DEF LoopInv, FirstTurn, GoesOn, NoneExact
  <2>4. QED
    BY <2>1, <2>2, <2>3
<1>4. ASSUME NEW k \in Nat, k \in T PROVE k + 1 \in T
  <2>1. ASSUME k + 1 <= n PROVE acc[k + 1] \in V /\ LoopInv(s, path, k + 1, acc[k + 1])
    <3>1. k <= n /\ k + 1 \in 0 .. n /\ (k + 1) - 1 = k /\ k + 1 # 0
      BY <1>2, <2>1
    <3>2. acc[k] \in V /\ LoopInv(s, path, k, acc[k])
      BY <1>4, <3>1
    <3>3. acc[k + 1] = Turn(acc[k], s[k + 1], path)
      BY <1>1, <3>1
    <3>4. \A i \in 1 .. k + 1 : s[i] \in S /\ s[i] \in Seq(Nat)
      BY <1>2, <2>1 DEF n
    <3> HIDE DEF V
    <3>5. /\ Turn(acc[k], s[k + 1], path) \in V
          /\ LoopInv(s, path, k + 1, Turn(acc[k], s[k + 1], path))
      BY <3>2, <3>4, LoopStep DEF V
    <3>6. QED
      BY <3>3, <3>5
  <2> HIDE DEF V
  <2>2. QED
    BY <2>1
<1> HIDE DEF T
<1>5. Nat \subseteq T
  BY <1>3, <1>4, SetInduction
<1>6. Holds(n)
  BY <1>2, <1>5 DEF T
<1>7. n <= n /\ \A a \in V : a.end \in {"no", "found", "thrown"}
  BY <1>2 DEF Accs
<1>8. QED
  BY <1>6, <1>7 DEF n

\* What the loop comes to, for the rules that are in the table.
LEMMA ChosenIsLoop ==
  ASSUME NEW path \in Paths, Starless(path), IsFiniteSet(DOMAIN table), DOMAIN table \subseteq Seq(Nat)
  PROVE  /\ LoopInv(InOrder(DOMAIN table), path, Cardinality(DOMAIN table), Chosen(path))
         /\ Chosen(path).end \in {"no", "found", "thrown"}
<1> DEFINE s == InOrder(DOMAIN table)
           acc == CHOOSE f : IsLoop(f, s, path, NoTurn)
<1>1. /\ Len(s) = Cardinality(DOMAIN table) /\ Len(s) \in Nat
      /\ \A i \in 1 .. Len(s) : s[i] \in DOMAIN table /\ s[i] \in Seq(Nat)
  BY InOrderFacts
<1>2. Chosen(path) = acc[Len(s)]
  BY DEF Chosen, IsLoop
<1> HIDE DEF s
<1>3. NoTurn = FirstTurn(args)
  BY DEF NoTurn, FirstTurn
<1>4. \E f : IsLoop(f, s, path, NoTurn)
  BY <1>1, <1>3, LoopExists
<1>5. IsLoop(acc, s, path, NoTurn)
  BY <1>4
<1> HIDE DEF acc
<1>6. LoopInv(s, path, Len(s), acc[Len(s)]) /\ acc[Len(s)].end \in {"no", "found", "thrown"}
  BY <1>1, <1>3, <1>5, LoopEnds
<1>7. QED
  BY <1>1, <1>2, <1>6 DEF s

-----------------------------------------------------------------------------
\* The rules of a table are texts, and finitely many.

\* rule_path_check() of a text is a text.
LEMMA CheckedPaths ==
  ASSUME NEW p \in Seq(Nat)
  PROVE  RulePathCheck(p) \in Seq(Nat)
<1> DEFINE kept == {i \in 1 .. Len(p) : ~(i > 1 /\ p[i] = Slash /\ p[i - 1] = Slash)}
           q == [n \in 1 .. Cardinality(kept) |-> p[Nth(kept, n)]]
<1>1. kept \subseteq 1 .. Len(p) /\ kept \subseteq Nat
  OBVIOUS
<1>2. IsFiniteSet(kept) /\ Cardinality(kept) \in Nat
  <2>1. IsFiniteSet(1 .. Len(p)) /\ kept \in SUBSET (1 .. Len(p))
    BY FS_Interval
  <2>2. QED
    BY <2>1, FS_Subset, FS_CardinalityType
<1>3. RulePathCheck(p) = IF q # <<>> /\ q[1] = Slash THEN q ELSE Root \o q
  BY DEF RulePathCheck
<1> HIDE DEF kept
<1>4. \A n \in 1 .. Cardinality(kept) : p[Nth(kept, n)] \in Nat
  <2> TAKE n \in 1 .. Cardinality(kept)
  <2>1. Nth(kept, n) \in 1 .. Len(p)
    BY <1>1, <1>2, NthIn
  <2>2. QED
    BY <2>1
<1>5. q \in Seq(Nat)
  BY <1>2, <1>4
<1> HIDE DEF q
<1>6. Root \in Seq(Nat)
  BY DEF Root, Slash
<1>7. QED
  BY <1>3, <1>5, <1>6

\* on_request() keeps the table finite and its rules texts.
LEMMA OnRequestRules ==
  ASSUME RulesInv, NEW kind \in Kinds, NEW rules \in RuleSets, OnRequest(kind, rules)
  PROVE  RulesInv'
<1>1. PICK n \in 0 .. Len(rules) :
        DOMAIN table' = DOMAIN table \cup {RulePathCheck(rules[i]) : i \in 1 .. n}
  BY DEF OnRequest
<1> DEFINE bound == {RulePathCheck(rules[i]) : i \in 1 .. n}
<1>2. rules \in Seq(Seq(Nat)) /\ n \in Nat /\ 1 .. n \subseteq 1 .. Len(rules)
  BY RoutingAssumption
<1>3. bound \subseteq Seq(Nat)
  <2>1. \A i \in 1 .. n : rules[i] \in Seq(Nat)
    BY <1>2
  <2>2. QED
    BY <2>1, CheckedPaths
<1>4. IsFiniteSet(bound)
  <2> DEFINE f == [i \in 1 .. n |-> RulePathCheck(rules[i])]
  <2>1. f \in Surjection(1 .. n, bound)
    BY DEF Surjection
  <2>2. IsFiniteSet(1 .. n)
    BY <1>2, FS_Interval
  <2>3. QED
    BY <2>1, <2>2, FS_Surjection
<1> HIDE DEF bound
<1>5. IsFiniteSet(DOMAIN table \cup bound)
  BY <1>4, FS_Union DEF RulesInv
<1>6. QED
  BY <1>1, <1>3, <1>5 DEF RulesInv, bound

\* unbound_request() keeps the table finite and its rules texts.
LEMMA UnboundRules ==
  ASSUME RulesInv, NEW name \in Names, UnboundRequest(name)
  PROVE  RulesInv'
<1>1. DOMAIN table' = DOMAIN table \ {name}
  BY DEF UnboundRequest
<1>2. DOMAIN table' \in SUBSET DOMAIN table
  BY <1>1
<1>3. QED
  BY <1>2, FS_Subset DEF RulesInv

-----------------------------------------------------------------------------
\* A request that the loop has routed is served as the properties say.

\* A request for a path without a '*' is served as the properties say, whatever the table
\* and the arguments that an earlier request left: the loop over the rules in the order of
\* the map decides.
LEMMA RequestServes ==
  ASSUME RulesInv, NEW path \in Paths, Starless(path), Request(path)
  PROVE  NearestRuleServes' /\ ArgsAreTheRules'
<1> DEFINE S == DOMAIN table
           s == InOrder(S)
           k == Cardinality(S)
           c == Chosen(path)
           d(r) == Distance(r, path)
<1>1. /\ k \in Nat
      /\ \A i \in 1 .. k : s[i] \in S /\ s[i] \in Seq(Nat)
      /\ \A r \in S : \E i \in 1 .. k : s[i] = r
      /\ \A i, j \in 1 .. k : i < j => Before(s[i], s[j])
  BY InOrderFacts DEF RulesInv
<1>2. \A i, j \in 1 .. k : s[i] = s[j] => i = j
  <2>1. \A i \in 1 .. k : ~Before(s[i], s[i])
    BY <1>1, BeforeOrder
  <2> HIDE DEF s, k
  <2>2. \A i, j \in 1 .. k : i = j \/ i < j \/ j < i
    BY <1>1
  <2>3. QED
    BY <1>1, <2>1, <2>2
<1>3. LoopInv(s, path, k, c)
  BY ChosenIsLoop DEF RulesInv
<1>4. /\ args' = c.args /\ last'.path = path /\ last'.rules = S
      /\ \/ last'.outcome = "thrown" /\ c.end = "thrown"
         \/ last'.outcome = "none" /\ c.end # "thrown" /\ c.rule = None
         \/ /\ last'.outcome = "served" /\ c.end # "thrown"
            /\ c.rule \in S /\ last'.rule = c.rule
  BY DEF Request
<1>5. c.end \in {"no", "found", "thrown"}
  BY ChosenIsLoop DEF RulesInv
<1>6. Standing' = {r \in S : StandsFor(r, path)}
  BY <1>4 DEF Standing
<1>7. \A r \in S : StandsFor(r, path) => d(r) \in Nat
  BY MatchesAreStanding DEF RulesInv
<1>8. None \notin S
  BY RoutingAssumption DEF RulesInv
<1> HIDE DEF S, s, k, c
<1>9. CASE last'.outcome = "thrown" /\ c.end = "thrown"
  <2>1. PICK m \in 1 .. k : RuleBefore(s[m]) = <<>> /\ NoneExact(s, path, m - 1)
    BY <1>3, <1>9 DEF LoopInv, Threw
  <2>2. ASSUME NEW r \in Standing', d(r) = 0 PROVE Before(s[m], r)
    <3>1. PICK j \in 1 .. k : s[j] = r
      BY <1>1, <1>6
    <3>2. StandsFor(s[j], path) /\ d(s[j]) = 0
      BY <1>6, <2>2, <3>1
    <3>3. j \notin 1 .. m - 1
      BY <2>1, <3>2 DEF NoneExact
    <3>4. j # m
      BY <2>1, <3>2 DEF StandsFor
    <3>5. m < j
      BY <1>1, <3>3, <3>4
    <3>6. QED
      BY <1>1, <3>1, <3>5
  <2>3. s[m] \in last'.rules /\ RuleBefore(s[m]) = <<>>
        /\ \A r \in Standing' : Distance(r, last'.path) = 0 => Before(s[m], r)
    BY <1>1, <1>4, <2>1, <2>2
  <2>4. \E q \in last'.rules :
          RuleBefore(q) = <<>> /\ \A r \in Standing' : Distance(r, last'.path) = 0 => Before(q, r)
    BY <2>3
  <2>5. NearestRuleServes'
    BY <1>9, <2>4 DEF NearestRuleServes
  <2>6. QED
    BY <1>9, <2>5 DEF ArgsAreTheRules
<1>10. CASE last'.outcome = "none" /\ c.end # "thrown" /\ c.rule = None
  <2>1. c.end # "found"
    <3>1. \A i \in 1 .. k : s[i] # None
      BY <1>1, <1>8
    <3>2. QED
      BY <1>3, <1>10, <3>1 DEF LoopInv, Found
  <2>2. \A i \in 1 .. k : ~StandsFor(s[i], path)
    <3>1. GoesOn(s, path, k, c)
      BY <1>3, <1>5, <1>10, <2>1 DEF LoopInv
    <3>2. QED
      BY <1>1, <1>8, <1>10, <3>1 DEF GoesOn
  <2>3. Standing' = {}
    BY <1>1, <1>6, <2>2
  <2>4. NearestRuleServes'
    BY <1>10, <2>3 DEF NearestRuleServes
  <2>5. QED
    BY <1>10, <2>4 DEF ArgsAreTheRules
<1>11. CASE /\ last'.outcome = "served" /\ c.end # "thrown"
            /\ c.rule \in S /\ last'.rule = c.rule
  <2>1. PICK m \in 1 .. k :
          /\ c.rule = s[m] /\ StandsFor(s[m], path)
          /\ \A i \in 1 .. k : StandsFor(s[i], path) /\ i # m =>
               \/ d(s[m]) < d(s[i])
               \/ /\ d(s[m]) = d(s[i])
                  /\ \/ (path = <<>> \/ d(s[i]) = 0) /\ m < i
                     \/ path # <<>> /\ d(s[i]) # 0 /\ i < m
          /\ d(s[m]) = 0 \/ (\A i \in 1 .. k : StandsFor(s[i], path) => i = m) =>
               c.args = ArgsOf(s[m], path)
    <3>1. CASE c.end = "found"
      <4>1. PICK m \in 1 .. k :
              /\ c.rule = s[m] /\ StandsFor(s[m], path) /\ d(s[m]) = 0
              /\ c.args = ArgsOf(s[m], path) /\ NoneExact(s, path, m - 1)
        BY <1>3, <3>1 DEF LoopInv, Found
      <4>2. ASSUME NEW i \in 1 .. k, StandsFor(s[i], path), i # m
            PROVE  d(s[m]) < d(s[i]) \/ (d(s[m]) = d(s[i]) /\ d(s[i]) = 0 /\ m < i)
        <5>1. d(s[i]) \in Nat
          BY <1>1, <1>7, <4>2
        <5>2. i \in 1 .. m - 1 => d(s[i]) # 0
          BY <4>1, <4>2 DEF NoneExact
        <5>3. i \in 1 .. m - 1 \/ m < i
          BY <1>1, <4>2
        <5> HIDE DEF d
        <5>4. QED
          BY <4>1, <5>1, <5>2, <5>3
      <4>3. QED
        BY <4>1, <4>2
    <3>2. CASE c.end = "no"
      <4>1. GoesOn(s, path, k, c)
        BY <1>3, <3>2 DEF LoopInv
      <4>2. c.rule # None
        BY <1>8, <1>11
      <4>3. PICK m \in 1 .. k :
              /\ c.rule = s[m] /\ Nearest(s, path, k, m)
              /\ (\A i \in 1 .. k : StandsFor(s[i], path) => i = m) => c.args = ArgsOf(s[m], path)
        BY <4>1, <4>2 DEF GoesOn
      <4>4. \A i \in 1 .. k : StandsFor(s[i], path) => d(s[i]) # 0
        BY <4>1 DEF GoesOn, NoneExact
      <4>5. StandsFor(s[m], path) /\ d(s[m]) # 0
        BY <4>3, <4>4 DEF Nearest
      <4>6. \A i \in 1 .. k : StandsFor(s[i], path) /\ i # m =>
               \/ d(s[m]) < d(s[i])
               \/ /\ d(s[m]) = d(s[i])
                  /\ \/ path = <<>> /\ m < i
                     \/ path # <<>> /\ i < m
        BY <4>3, Zenon DEF Nearest
      <4> HIDE DEF d
      <4>7. QED
        BY <4>3, <4>4, <4>5, <4>6, Zenon
    <3>3. QED
      BY <1>5, <1>11, <3>1, <3>2
  <2>2. ASSUME NEW r \in Standing' \ {s[m]}
        PROVE  d(s[m]) < d(r) \/ (d(s[m]) = d(r) /\ WinsTie(s[m], r, path))
    <3>1. PICK i \in 1 .. k : s[i] = r
      BY <1>1, <1>6
    <3>2. StandsFor(s[i], path) /\ i # m
      BY <1>6, <2>2, <3>1
    <3>3. /\ m < i => Before(s[m], s[i])
          /\ i < m => Before(s[i], s[m])
      BY <1>1
    <3>4. \/ d(s[m]) < d(s[i])
          \/ /\ d(s[m]) = d(s[i])
             /\ \/ (path = <<>> \/ d(s[i]) = 0) /\ m < i
                \/ path # <<>> /\ d(s[i]) # 0 /\ i < m
      BY <2>1, <3>2, Zenon
    <3>5. QED
      BY <3>1, <3>3, <3>4, Zenon DEF WinsTie
  <2>3. last'.rule = s[m] /\ s[m] \in Standing'
    BY <1>1, <1>6, <1>11, <2>1
  <2>4. NearestRuleServes'
    <3>1. \A r \in Standing' \ {last'.rule} :
            \/ Distance(last'.rule, last'.path) < Distance(r, last'.path)
            \/ /\ Distance(last'.rule, last'.path) = Distance(r, last'.path)
               /\ WinsTie(last'.rule, r, last'.path)
      BY <1>4, <2>2, <2>3
    <3>2. last'.rule \in Standing'
      BY <2>3
    <3>3. last'.outcome = "served" /\ last'.outcome # "none" /\ last'.outcome # "thrown"
      BY <1>11
    <3>4. QED
      BY <3>1, <3>2, <3>3, Zenon DEF NearestRuleServes
  <2>5. ArgsAreTheRules'
    <3>1. ASSUME Distance(s[m], path) = 0 \/ Standing' = {s[m]}
          PROVE  args' = ArgsOf(s[m], path)
      <4>1. CASE d(s[m]) = 0
        BY <1>4, <2>1, <4>1
      <4>2. CASE Standing' = {s[m]}
        <5>1. \A i \in 1 .. k : StandsFor(s[i], path) => i = m
          BY <1>1, <1>2, <1>6, <4>2
        <5>2. QED
          BY <1>4, <2>1, <5>1
      <4>3. QED
        BY <3>1, <4>1, <4>2
    <3>2. last'.path = path /\ last'.rule = s[m]
      BY <1>4, <2>3
    <3>3. QED
      BY <3>1, <3>2 DEF ArgsAreTheRules
  <2>6. QED
    BY <2>4, <2>5
<1>12. QED
  BY <1>4, <1>9, <1>10, <1>11

-----------------------------------------------------------------------------

\* Before the first request there is nothing to say of the last one.
LEMMA RoutedInit ==
  Init => RoutedInv
<1> SUFFICES ASSUME Init PROVE RoutedInv
  OBVIOUS
<1>1. DOMAIN table = {} /\ last.outcome = "idle"
  BY DEF Init
<1>2. RulesInv
  BY <1>1, FS_EmptySet DEF RulesInv
<1>3. NearestRuleServes /\ ArgsAreTheRules
  BY <1>1 DEF NearestRuleServes, ArgsAreTheRules
<1>4. QED
  BY <1>2, <1>3 DEF RoutedInv

\* What was said of the last request stays true as long as no other is routed.
LEMMA LastUnchanged ==
  ASSUME RoutedInv, UNCHANGED <<args, last>>
  PROVE  NearestRuleServes' /\ ArgsAreTheRules'
BY DEF RoutedInv, NearestRuleServes, ArgsAreTheRules, Standing

\* on_request(), unbound_request(), a request and the return of its handler keep it.
LEMMA RoutedStep ==
  RoutedInv /\ [Next]_vars => RoutedInv'
<1> SUFFICES ASSUME RoutedInv, [Next]_vars PROVE RoutedInv'
  OBVIOUS
<1>1. RulesInv
  BY DEF RoutedInv
<1>2. ASSUME NEW kind \in Kinds, NEW rules \in RuleSets, OnRequest(kind, rules)
      PROVE  RoutedInv'
  <2>1. UNCHANGED <<args, last>>
    BY <1>2 DEF OnRequest
  <2>2. QED
    BY <1>1, <1>2, <2>1, OnRequestRules, LastUnchanged DEF RoutedInv
<1>3. ASSUME NEW name \in Names, UnboundRequest(name) PROVE RoutedInv'
  <2>1. UNCHANGED <<args, last>>
    BY <1>3 DEF UnboundRequest
  <2>2. QED
    BY <1>1, <1>3, <2>1, UnboundRules, LastUnchanged DEF RoutedInv
<1>4. ASSUME NEW path \in Paths, Request(path) PROVE RoutedInv'
  <2>1. UNCHANGED table
    BY <1>4 DEF Request
  <2>2. RulesInv'
    BY <1>1, <2>1 DEF RulesInv
  <2>3. CASE Starless(path)
    BY <1>1, <1>4, <2>2, <2>3, RequestServes DEF RoutedInv
  <2>4. CASE ~Starless(path)
    <3>1. last'.path = path
      BY <1>4 DEF Request
    <3>2. NearestRuleServes' /\ ArgsAreTheRules'
      BY <2>4, <3>1 DEF NearestRuleServes, ArgsAreTheRules
    <3>3. QED
      BY <2>2, <3>2 DEF RoutedInv
  <2>5. QED
    BY <2>3, <2>4
<1>5. CASE Answered \/ UNCHANGED vars
  <2>1. UNCHANGED <<table, args, last>>
    BY <1>5 DEF Answered, vars
  <2>2. RulesInv'
    BY <1>1, <2>1 DEF RulesInv
  <2>3. QED
    BY <2>1, <2>2, LastUnchanged DEF RoutedInv
<1>6. QED
  BY <1>2, <1>3, <1>4, <1>5 DEF Next

\* The requests are routed right in every state.
LEMMA RoutedCorrect ==
  Spec => []RoutedInv
<1>1. QED
  BY RoutedInit, RoutedStep, PTL DEF Spec

\* call_on_request() serves a path that has no '*' with the nearest rule that stands for it,
\* answers not found only when there is none, and throws only because of a rule of arguments
\* or spaces only that comes before every rule without wildcards that stands for the path:
\* for every set of rules and every sequence of calls, not only for those that TLC tries.
THEOREM NearestServes ==
  Spec => []NearestRuleServes
<1>1. RoutedInv => NearestRuleServes
  BY DEF RoutedInv
<1>2. QED
  BY <1>1, RoutedCorrect, PTL

\* The handler of a rule without wildcards, or of the only rule that stands for a path that
\* has no '*', finds the path arguments of its own rule and of this request, for every table
\* and whatever m_path_args held before.
THEOREM ArgsAreOwn ==
  Spec => []ArgsAreTheRules
<1>1. RoutedInv => ArgsAreTheRules
  BY DEF RoutedInv
<1>2. QED
  BY <1>1, RoutedCorrect, PTL
=============================================================================
