---------------------------- MODULE LockFreeQueue ----------------------------
(***************************************************************************)
(* libgs::lock_free_queue (core/detail/lock_free_queue.h): a linked queue  *)
(* with a dummy head node.  emplace() links a node behind the tail and     *)
(* swings the tail; dequeue() moves the value out of the second node, then *)
(* swings the head and deletes the old dummy.  Every atomic access is a    *)
(* step of its own.                                                        *)
(***************************************************************************)
EXTENDS Naturals, Sequences, FiniteSets

CONSTANTS
  Producers,    \* threads that call emplace()
  Consumers,    \* threads that call dequeue()
  Nodes,        \* heap blocks for nodes; a deleted node's block is reused
  Null,         \* the null pointer
  Empty,        \* the value a T is left with after it was moved from
  Copies,       \* TRUE: moving from a T leaves it as it was, as for an int; FALSE: it is
                \* left empty, as for the shared pointers of the wait queues
  None,         \* an optional without a value
  MaxItems,     \* bound: values each producer enqueues
  Phased,       \* TRUE: consumers start when at most one producer has values left
  SpuriousCAS   \* TRUE: compare_exchange_weak may fail although it could succeed

Items == Producers \X (1 .. MaxItems)

ASSUME QueueAssumption ==
  /\ Producers \cap Consumers = {}
  /\ Null \notin Nodes /\ Nodes # {}
  /\ Empty \notin Items /\ None \notin Items /\ None # Empty
  /\ MaxItems \in Nat
  /\ Phased \in BOOLEAN /\ SpuriousCAS \in BOOLEAN

ASSUME MoveAssumption == Copies \in BOOLEAN

Threads == Producers \cup Consumers
NodePtr == Nodes \cup {Null}

VARIABLES
  alive,    \* nodes that are allocated
  next,     \* node::next
  data,     \* node::data
  head,     \* m_head
  tail,     \* m_tail
  pc,       \* where each thread is
  node,     \* the producer's new node n
  rhead,    \* local variable head of dequeue()
  rtail,    \* local variable tail
  rnext,    \* local variable next
  out,      \* local variable data of dequeue()
  made,     \* values the producer has enqueued or is enqueuing
  opened,   \* consumers may call dequeue()
  got,      \* what dequeue() returned, in the order in which it was decided
  freed     \* a thread accessed a deleted node or dereferenced null (the run ends)

vars == <<alive, next, data, head, tail, pc, node, rhead, rtail, rnext, out,
          made, opened, got, freed>>

Control == {"idle", "next", "link", "swing", "help",
            "tail", "headNext", "check", "helpTail", "move", "pop", "delete"}

TypeOK ==
  /\ alive \in SUBSET Nodes
  /\ next \in [Nodes -> NodePtr]
  /\ data \in [Nodes -> Items \cup {Empty}]
  /\ head \in Nodes /\ tail \in Nodes
  /\ pc \in [Threads -> Control]
  /\ node \in [Producers -> NodePtr]
  /\ rhead \in [Consumers -> NodePtr]
  /\ rtail \in [Threads -> NodePtr]
  /\ rnext \in [Threads -> NodePtr]
  /\ out \in [Consumers -> Items \cup {Empty, None}]
  /\ made \in [Producers -> 0 .. MaxItems]
  /\ opened \in BOOLEAN
  /\ got \in Seq(Items \cup {Empty})
  /\ freed \in BOOLEAN

Init ==
  /\ \E n \in Nodes : alive = {n} /\ head = n /\ tail = n
  /\ next = [n \in Nodes |-> Null]
  /\ data = [n \in Nodes |-> Empty]
  /\ pc = [t \in Threads |-> "idle"]
  /\ node = [p \in Producers |-> Null]
  /\ rhead = [c \in Consumers |-> Null]
  /\ rtail = [t \in Threads |-> Null]
  /\ rnext = [t \in Threads |-> Null]
  /\ out = [c \in Consumers |-> None]
  /\ made = [p \in Producers |-> 0]
  /\ opened = ~Phased
  /\ got = << >>
  /\ freed = FALSE

Goto(t, l) == pc' = [pc EXCEPT ![t] = l]

At(t, l) == pc[t] = l /\ ~freed

\* Dereferencing a pointer to a deleted node.
Touch(n) == freed' = (n \notin alive)

-----------------------------------------------------------------------------
\* emplace(): new node(args...) and m_tail.load().
Emplace(p) ==
  /\ At(p, "idle")
  /\ made[p] < MaxItems
  /\ \E n \in Nodes \ alive :
       /\ alive' = alive \cup {n}
       /\ next' = [next EXCEPT ![n] = Null]
       /\ data' = [data EXCEPT ![n] = <<p, made[p] + 1>>]
       /\ node' = [node EXCEPT ![p] = n]
  /\ made' = [made EXCEPT ![p] = @ + 1]
  /\ rtail' = [rtail EXCEPT ![p] = tail]
  /\ Goto(p, "next")
  /\ UNCHANGED <<head, tail, rhead, rnext, out, got, freed, opened>>

\* auto next = tail->next.load().
ReadNext(p) ==
  /\ At(p, "next")
  /\ Touch(rtail[p])
  /\ rnext' = [rnext EXCEPT ![p] = next[rtail[p]]]
  /\ Goto(p, IF next[rtail[p]] = Null THEN "link" ELSE "help")
  /\ UNCHANGED <<alive, next, data, head, tail, node, rhead, rtail, out, made, got,
                 opened>>

\* tail->next.compare_exchange_weak(next, n): the node is in the queue.
Link(p) ==
  /\ At(p, "link")
  /\ Touch(rtail[p])
  /\ next[rtail[p]] = Null
  /\ next' = [next EXCEPT ![rtail[p]] = node[p]]
  /\ Goto(p, "swing")
  /\ UNCHANGED <<alive, data, head, tail, node, rhead, rtail, rnext, out, made,
                 got, opened>>

LinkFails(p) ==
  /\ At(p, "link")
  /\ Touch(rtail[p])
  /\ next[rtail[p]] # Null \/ SpuriousCAS
  /\ Goto(p, "next")
  /\ UNCHANGED <<alive, next, data, head, tail, node, rhead, rtail, rnext, out,
                 made, got, opened>>

\* m_tail.compare_exchange_strong(tail, n), whose failure is ignored.
Swing(p) ==
  /\ At(p, "swing")
  /\ tail' = IF tail = rtail[p] THEN node[p] ELSE tail
  /\ Goto(p, "idle")
  /\ node' = [node EXCEPT ![p] = Null]
  /\ rtail' = [rtail EXCEPT ![p] = Null]
  /\ rnext' = [rnext EXCEPT ![p] = Null]
  /\ UNCHANGED <<alive, next, data, head, rhead, out, made, got, freed, opened>>

\* Mutation: a failed exchange does not reload the tail.
Help_NoReload(p) ==
  /\ At(p, "help")
  /\ tail' = IF tail = rtail[p] THEN rnext[p] ELSE tail
  /\ Goto(p, "next")
  /\ UNCHANGED <<alive, next, data, head, node, rhead, rtail, rnext, out, made,
                 got, freed, opened>>

\* Another thread linked a node: m_tail.compare_exchange_strong(tail, next).
\* Only a failed exchange reloads the local tail.
Help(p) ==
  /\ At(p, "help")
  /\ IF tail = rtail[p]
     THEN tail' = rnext[p] /\ UNCHANGED rtail
     ELSE rtail' = [rtail EXCEPT ![p] = tail] /\ UNCHANGED tail
  /\ Goto(p, "next")
  /\ UNCHANGED <<alive, next, data, head, node, rhead, rnext, out, made, got,
                 freed, opened>>

-----------------------------------------------------------------------------
\* The application starts its consumers: as examples/core/lock_free_queue.cpp
\* does, when the threads that filled the queue were joined; one may go on.
Open ==
  /\ ~opened
  /\ \A p \in Producers : pc[p] = "idle"
  /\ \A p, q \in Producers : made[p] < MaxItems /\ made[q] < MaxItems => p = q
  /\ opened' = TRUE
  /\ UNCHANGED <<alive, next, data, head, tail, pc, node, rhead, rtail, rnext, out,
                 made, got, freed>>

\* dequeue(): head = m_head.load(), at the start and on every retry.
LoadHead(c) ==
  /\ At(c, "idle") /\ opened
  /\ rhead' = [rhead EXCEPT ![c] = head]
  /\ Goto(c, "tail")
  /\ UNCHANGED <<alive, next, data, head, tail, node, rtail, rnext, out, made, got,
                 freed, opened>>

\* auto tail = m_tail.load().
LoadTail(c) ==
  /\ At(c, "tail")
  /\ rtail' = [rtail EXCEPT ![c] = tail]
  /\ Goto(c, "headNext")
  /\ UNCHANGED <<alive, next, data, head, tail, node, rhead, rnext, out, made, got,
                 freed, opened>>

\* auto next = head->next.load().
LoadNext(c) ==
  /\ At(c, "headNext")
  /\ Touch(rhead[c])
  /\ rnext' = [rnext EXCEPT ![c] = next[rhead[c]]]
  /\ Goto(c, "check")
  /\ UNCHANGED <<alive, next, data, head, tail, node, rhead, rtail, out, made, got,
                 opened>>

\* The local variables of a call that returns.
Return(c) ==
  /\ Goto(c, "idle")
  /\ rhead' = [rhead EXCEPT ![c] = Null]
  /\ rtail' = [rtail EXCEPT ![c] = Null]
  /\ rnext' = [rnext EXCEPT ![c] = Null]
  /\ out' = [out EXCEPT ![c] = None]

\* The head changed since it was loaded.
HeadMoved(c) ==
  /\ At(c, "check")
  /\ rhead[c] # head
  /\ rhead' = [rhead EXCEPT ![c] = head]
  /\ Goto(c, "tail")
  /\ UNCHANGED <<alive, next, data, head, tail, node, rtail, rnext, out, made, got,
                 freed, opened>>

\* head == tail and no next: return data, which a failed round may have filled.
ReturnEmpty(c) ==
  /\ At(c, "check")
  /\ rhead[c] = head /\ rhead[c] = rtail[c] /\ rnext[c] = Null
  /\ got' = IF out[c] = None THEN got ELSE Append(got, out[c])
  /\ Return(c)
  /\ UNCHANGED <<alive, next, data, head, tail, node, made, freed, opened>>

\* Mutation: a tail that lags behind the head's successor is not helped.
Decide_NoHelp(c) ==
  /\ At(c, "check")
  /\ rhead[c] = head /\ (rhead[c] # rtail[c] \/ rnext[c] # Null)
  /\ Goto(c, "move")
  /\ UNCHANGED <<alive, next, data, head, tail, node, rhead, rtail, rnext, out,
                 made, got, freed, opened>>

\* The queue is not empty: help a lagging tail or pop the front.
Decide(c) ==
  /\ At(c, "check")
  /\ rhead[c] = head /\ (rhead[c] # rtail[c] \/ rnext[c] # Null)
  /\ Goto(c, IF rhead[c] = rtail[c] THEN "helpTail" ELSE "move")
  /\ UNCHANGED <<alive, next, data, head, tail, node, rhead, rtail, rnext, out,
                 made, got, freed, opened>>

\* m_tail.compare_exchange_weak(tail, next), whatever its outcome; next round.
HelpTail(c) ==
  /\ At(c, "helpTail")
  /\ \/ tail' = IF tail = rtail[c] THEN rnext[c] ELSE tail
     \/ SpuriousCAS /\ UNCHANGED tail
  /\ rhead' = [rhead EXCEPT ![c] = head]
  /\ Goto(c, "tail")
  /\ UNCHANGED <<alive, next, data, head, node, rtail, rnext, out, made, got,
                 freed, opened>>

\* Mutation: the value is copied, not moved.
Move_Copy(c) ==
  /\ At(c, "move") /\ rnext[c] # Null
  /\ Touch(rnext[c])
  /\ out' = [out EXCEPT ![c] = data[rnext[c]]]
  /\ Goto(c, "pop")
  /\ UNCHANGED <<alive, next, data, head, tail, node, rhead, rtail, rnext, made,
                 got, opened>>

\* data = std::move(next->data), before the head is swung: a T that a move copies
\* stays in the node.
Move(c) ==
  /\ At(c, "move") /\ rnext[c] # Null
  /\ Touch(rnext[c])
  /\ out' = [out EXCEPT ![c] = data[rnext[c]]]
  /\ data' = [data EXCEPT ![rnext[c]] = IF Copies THEN @ ELSE Empty]
  /\ Goto(c, "pop")
  /\ UNCHANGED <<alive, next, head, tail, node, rhead, rtail, rnext, made, got, opened>>

\* The same with a null next: head's block was deleted, allocated again as the
\* last node and became the head between two loads, so head == m_head.load().
MoveNull(c) ==
  /\ At(c, "move") /\ rnext[c] = Null
  /\ freed' = TRUE
  /\ UNCHANGED <<alive, next, data, head, tail, pc, node, rhead, rtail, rnext, out,
                 made, got, opened>>

\* Mutation: the head is not swung.
Pop_Stay(c) ==
  /\ At(c, "pop")
  /\ head = rhead[c]
  /\ got' = Append(got, out[c])
  /\ Goto(c, "delete")
  /\ UNCHANGED <<alive, next, data, head, tail, node, rhead, rtail, rnext, out,
                 made, freed, opened>>

\* m_head.compare_exchange_weak(head, next): the value is this call's.
Pop(c) ==
  /\ At(c, "pop")
  /\ head = rhead[c]
  /\ head' = rnext[c]
  /\ got' = Append(got, out[c])
  /\ Goto(c, "delete")
  /\ UNCHANGED <<alive, next, data, tail, node, rhead, rtail, rnext, out, made,
                 freed, opened>>

\* It fails: another consumer was faster, or spuriously.  data stays moved.
PopFails(c) ==
  /\ At(c, "pop")
  /\ head # rhead[c] \/ SpuriousCAS
  /\ rhead' = [rhead EXCEPT ![c] = head]
  /\ Goto(c, "tail")
  /\ UNCHANGED <<alive, next, data, head, tail, node, rtail, rnext, out, made, got,
                 freed, opened>>

\* delete head.
Delete(c) ==
  /\ At(c, "delete")
  /\ freed' = (rhead[c] \notin alive)
  /\ alive' = alive \ {rhead[c]}
  /\ Return(c)
  /\ UNCHANGED <<next, data, head, tail, node, made, got, opened>>

-----------------------------------------------------------------------------
Produce(p) ==
  Emplace(p) \/ ReadNext(p) \/ Link(p) \/ LinkFails(p) \/ Swing(p) \/ Help(p)

Consume(c) ==
  \/ LoadHead(c) \/ LoadTail(c) \/ LoadNext(c) \/ HeadMoved(c) \/ ReturnEmpty(c)
  \/ Decide(c) \/ HelpTail(c) \/ Move(c) \/ MoveNull(c) \/ Pop(c) \/ PopFails(c) \/ Delete(c)

Next == Open \/ (\E p \in Producers : Produce(p)) \/ (\E c \in Consumers : Consume(c))

Spec == Init /\ [][Next]_vars

\* Threads are scheduled.
FairSpec ==
  /\ Spec
  /\ \A p \in Producers : WF_vars(Produce(p))
  /\ \A c \in Consumers : WF_vars(Consume(c))
  /\ WF_vars(Open)

-----------------------------------------------------------------------------
\* No thread touches a node that a consumer deleted, or a null one.
NoUseAfterFree == ~freed

\* With a T that a move empties, no value is returned by two calls of dequeue(): a
\* consumer that loses the race for the head, and whose next round finds the queue empty,
\* returns what it moved out (lock_free_queue.h:148, :155), and then nobody else has it.
NeverTwice ==
  \A i, j \in DOMAIN got : got[i] = got[j] /\ got[i] # Empty => i = j

\* The nodes behind h, in order.
NodesBehind(h, nx) ==
  LET at[i \in 0 .. Cardinality(Nodes)] ==
        IF i = 0 THEN h ELSE IF at[i - 1] = Null THEN Null ELSE nx[at[i - 1]]
      length == Cardinality({i \in 1 .. Cardinality(Nodes) : at[i] # Null})
  IN  [i \in 1 .. length |-> at[i]]

\* The nodes behind the dummy.
Path == NodesBehind(head, next)

\* The value of a node, or the one a consumer moved out of it and will keep when
\* its exchange of the head succeeds.
ValueOf(n) ==
  IF \E c \in Consumers : pc[c] = "pop" /\ rnext[c] = n
  THEN out[CHOOSE c \in Consumers : pc[c] = "pop" /\ rnext[c] = n]
  ELSE data[n]

Contents == [i \in DOMAIN Path |-> ValueOf(Path[i])]

Abstract == INSTANCE QueueSpec WITH items <- Contents, got <- got

\* While one producer meets one consumer (Phased) and the exchanges are strong, the queue
\* implements an atomic FIFO: every value comes out at most once, in order, and nothing
\* but a value comes out ("public: // safe", lock_free_queue.h:49).
ImplementsQueue == Abstract!Spec

\* Every emplace() returns, although it has to help others before it can link its node,
\* and every value that is in the queue reaches a consumer.
AllDelivered ==
  /\ \A p \in Producers : pc[p] # "idle" ~> pc[p] = "idle"
  /\ \A x \in Items : (\E i \in DOMAIN Contents : Contents[i] = x)
                        ~> (\E i \in DOMAIN got : got[i] = x)

-----------------------------------------------------------------------------
\* The local pointers a step dereferences or stores in head and tail are not null.
PointersHold ==
  /\ \A p \in Producers :
       /\ pc[p] # "idle" => node[p] \in Nodes /\ rtail[p] \in Nodes
       /\ pc[p] = "help" => rnext[p] \in Nodes
  /\ \A c \in Consumers :
       /\ pc[c] # "idle" => rhead[c] \in Nodes
       /\ pc[c] \in {"helpTail", "pop"} => rnext[c] \in Nodes
       /\ pc[c] = "pop" => out[c] # None

\* The values are those the producers have made.
IsMade(x) == x \in Items => x[2] <= made[x[1]]

AllMade ==
  /\ \A n \in Nodes : IsMade(data[n])
  /\ \A c \in Consumers : IsMade(out[c])
  /\ \A i \in DOMAIN got : IsMade(got[i])

\* A consumer that has popped still has its copy of what it returns; before, the copy is
\* the value.
Carries(c, x) == pc[c] # "delete" /\ out[c] = x

\* A value is in one place: a node (deleted or not), a consumer or what was returned.
OnePlace ==
  /\ \A m, n \in Nodes : data[m] = data[n] /\ data[m] # Empty => m = n
  /\ \A c, d \in Consumers : out[c] \in Items /\ Carries(c, out[c]) /\ Carries(d, out[c]) => c = d
  /\ \A n \in Nodes, c \in Consumers : data[n] # Empty => ~Carries(c, data[n])
  /\ \A i \in DOMAIN got : got[i] # Empty =>
       /\ \A n \in Nodes : data[n] # got[i]
       /\ \A c \in Consumers : ~Carries(c, got[i])
  /\ NeverTwice

\* The inductive invariant of NeverTwice.
PlacesInv == TypeOK /\ PointersHold /\ AllMade /\ OnePlace
-----------------------------------------------------------------------------
\* The heap, when a producer without rivals meets one consumer.  A new node that is not
\* linked yet, and a node that was popped and is about to be deleted, are not in the list.
Fresh(p) == pc[p] \in {"next", "link", "help"}

InList(n) ==
  /\ n \in alive
  /\ \A p \in Producers : Fresh(p) => n # node[p]
  /\ \A c \in Consumers : pc[c] = "delete" => n # rhead[c]

\* The nodes that are alive form chains, one of which begins at the head.
ListHolds ==
  /\ \A m \in alive : next[m] \in alive \cup {Null}
  /\ \A m, n \in alive : next[m] = next[n] /\ next[m] # Null => m = n
  /\ \A m \in alive : next[m] = head => \E c \in Consumers : pc[c] = "delete" /\ rhead[c] = m
  /\ \A m, n \in alive : InList(m) /\ InList(n) /\ next[m] = Null /\ next[n] = Null => m = n
  /\ InList(head) /\ InList(tail)

NewHolds ==
  /\ \A p, q \in Producers : pc[p] # "idle" /\ pc[q] # "idle" /\ node[p] = node[q] => p = q
  /\ \A p \in Producers :
       /\ pc[p] \in {"idle", "swing"} \/ Fresh(p)
       /\ Fresh(p) => /\ node[p] \in alive /\ next[node[p]] = Null
                      /\ \A m \in alive : next[m] # node[p]
       /\ pc[p] = "swing" => node[p] # Null /\ next[rtail[p]] = node[p]

\* The tail lags behind the last node by at most one, whose producer is to swing it.
TailHolds ==
  next[tail] # Null =>
    \E p \in Producers : /\ pc[p] = "swing" /\ rtail[p] = tail
                         /\ next[tail] = node[p] /\ next[node[p]] = Null

\* A producer's copy of the tail is in the list until it has linked its node; with a
\* consumer about, it is the last node.
ProducerHolds ==
  \A p \in Producers :
    /\ pc[p] # "idle" /\ ~opened => InList(rtail[p])
    /\ Fresh(p) => /\ InList(rtail[p])
                   /\ next[rtail[p]] = Null => rtail[p] = tail
                   /\ opened => next[rtail[p]] = Null /\ pc[p] # "help"
    /\ pc[p] = "help" => rnext[p] = next[rtail[p]] /\ rnext[p] # Null

Busy(p) == pc[p] # "idle" \/ made[p] < MaxItems

ConsumerHolds ==
  /\ opened => \A p, q \in Producers : Busy(p) /\ Busy(q) => p = q
  /\ \A c \in Consumers :
       /\ pc[c] # "idle" => opened
       /\ pc[c] \notin {"idle", "delete"} => rhead[c] = head
       /\ pc[c] \in {"headNext", "check"} /\ rtail[c] # head => tail # head
       /\ pc[c] = "check" => /\ rnext[c] # Null => rnext[c] = next[head]
                             /\ rtail[c] # head => rnext[c] # Null
       /\ pc[c] \in {"helpTail", "move", "pop"} => rnext[c] = next[head] /\ rnext[c] # Null
       /\ pc[c] = "helpTail" => rtail[c] = head
       /\ pc[c] \in {"move", "pop"} => tail # head
       /\ pc[c] = "delete" => /\ rhead[c] \in alive /\ rhead[c] # head
                              /\ \A m \in alive : next[m] # rhead[c]
                              /\ \A p \in Producers : Fresh(p) => node[p] # rhead[c]

\* The inductive invariant of NoUseAfterFree, together with the types.
HandOverInv ==
  ~freed /\ ListHolds /\ NewHolds /\ TailHolds /\ ProducerHolds /\ ConsumerHolds

-----------------------------------------------------------------------------
\* q is the list from the head to the last node, without a cycle.
IsChain(q) ==
  /\ q # << >> /\ q[1] = head
  /\ \A i \in DOMAIN q : /\ InList(q[i])
                        /\ next[q[i]] = IF i = Len(q) THEN Null ELSE q[i + 1]
  /\ \A i, j \in DOMAIN q : q[i] = q[j] => i = j

\* With one consumer and an exchange that does not fail spuriously, a local copy of a value
\* is there only while the head is about to be swung.
ValuesHold ==
  /\ \A p \in Producers : Fresh(p) => data[node[p]] \in Items
  /\ \A c \in Consumers : pc[c] \notin {"pop", "delete"} => out[c] = None

\* The inductive invariant of ImplementsQueue, together with the types.
DeliveryInv ==
  /\ HandOverInv
  /\ Path \in Seq(Nodes) /\ IsChain(<<head>> \o Path)
  /\ ValuesHold
=============================================================================
