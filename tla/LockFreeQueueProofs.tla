------------------------- MODULE LockFreeQueueProofs -------------------------
(***************************************************************************)
(* Proofs about LockFreeQueue for any threads, any heap and any number of  *)
(* values, with spurious failures and blocks that are allocated again: up  *)
(* to the first access of a deleted node for any use, and that there is    *)
(* none, and the queue is an atomic FIFO, when one producer hands over to  *)
(* one consumer.                                                           *)
(***************************************************************************)
EXTENDS LockFreeQueue, SequenceTheorems, FiniteSetTheorems, TLAPS

\* The steps that move no value and no pointer into the queue.
Looks(c) ==
  LoadHead(c) \/ LoadTail(c) \/ LoadNext(c) \/ HeadMoved(c) \/ Decide(c) \/ PopFails(c)

Links(p) == ReadNext(p) \/ Link(p) \/ LinkFails(p) \/ Swing(p) \/ Help(p)

LEMMA ItemNames == \A x \in Items : x = <<x[1], x[2]>> /\ x[1] \in Producers /\ x[2] \in 1 .. MaxItems
  BY DEF Items

LEMMA AppendedOne ==
  ASSUME NEW S, NEW s \in Seq(S), NEW x
  PROVE  /\ DOMAIN s = 1 .. Len(s) /\ DOMAIN Append(s, x) = 1 .. Len(s) + 1
         /\ \A i \in DOMAIN s : Append(s, x)[i] = s[i]
         /\ Append(s, x)[Len(s) + 1] = x
         /\ \A i \in DOMAIN Append(s, x) : i \in DOMAIN s \/ i = Len(s) + 1
         /\ Len(s) + 1 \notin DOMAIN s
<1>1. s \in Seq(S \cup {x}) /\ x \in S \cup {x}
  OBVIOUS
<1>2. QED
  BY <1>1

-----------------------------------------------------------------------------
LEMMA TypeInit == Init => TypeOK
<1> SUFFICES ASSUME Init PROVE TypeOK
  OBVIOUS
<1>1. 0 \in 0 .. MaxItems /\ (~Phased) \in BOOLEAN
  BY QueueAssumption
<1>2. alive \in SUBSET Nodes /\ head \in Nodes /\ tail \in Nodes
  BY DEF Init
<1>3. pc \in [Threads -> Control]
  BY DEF Init, Control
<1>4. got \in Seq(Items \cup {Empty})
  BY DEF Init
<1>5. opened \in BOOLEAN /\ freed \in BOOLEAN
  BY <1>1, Zenon DEF Init
<1>6. QED
  BY <1>1, <1>2, <1>3, <1>4, <1>5 DEF Init, TypeOK, NodePtr, Threads

LEMMA ProducerType ==
  ASSUME TypeOK, PointersHold, NEW p \in Producers, Produce(p)
  PROVE  TypeOK'
<1> USE QueueAssumption DEF TypeOK, PointersHold, NodePtr, Threads, Control, At, Goto, Touch
<1>1. CASE Emplace(p)
  <2>1. made[p] + 1 \in 1 .. MaxItems /\ <<p, made[p] + 1>> \in Items
    BY <1>1 DEF Emplace, Items
  <2>2. made' \in [Producers -> 0 .. MaxItems]
    BY <1>1, <2>1 DEF Emplace
  <2>3. QED
    BY <1>1, <2>1, <2>2 DEF Emplace
<1>2. CASE ReadNext(p)
  BY <1>2 DEF ReadNext
<1>3. CASE Link(p)
  BY <1>3 DEF Link
<1>4. CASE LinkFails(p)
  BY <1>4 DEF LinkFails
<1>5. CASE Swing(p)
  BY <1>5 DEF Swing
<1>6. CASE Help(p)
  BY <1>6 DEF Help
<1>7. QED
  BY <1>1, <1>2, <1>3, <1>4, <1>5, <1>6 DEF Produce

LEMMA ConsumerType ==
  ASSUME TypeOK, PointersHold, NEW c \in Consumers, Consume(c)
  PROVE  TypeOK'
<1> USE QueueAssumption DEF TypeOK, PointersHold, NodePtr, Threads, Control, At, Goto, Touch
<1>1. CASE LoadHead(c)
  BY <1>1 DEF LoadHead
<1>12. CASE HeadMoved(c)
  BY <1>12 DEF HeadMoved
<1>13. CASE PopFails(c)
  BY <1>13 DEF PopFails
<1>10. CASE LoadTail(c)
  BY <1>10 DEF LoadTail
<1>11. CASE Decide(c)
  BY <1>11 DEF Decide
<1>2. CASE LoadNext(c)
  BY <1>2 DEF LoadNext
<1>3. CASE ReturnEmpty(c)
  <2>1. got' \in Seq(Items \cup {Empty})
    <3>1. CASE out[c] = None
      BY <1>3, <3>1 DEF ReturnEmpty
    <3>2. CASE out[c] # None
      <4>1. out[c] \in Items \cup {Empty}
        BY <3>2
      <4>2. got' = Append(got, out[c])
        BY <1>3, <3>2 DEF ReturnEmpty
      <4>3. QED
        BY <4>1, <4>2
    <3>3. QED
      BY <3>1, <3>2
  <2>2. QED
    BY <1>3, <2>1 DEF ReturnEmpty, Return
<1>4. CASE HelpTail(c)
  BY <1>4 DEF HelpTail
<1>5. CASE Move(c)
  BY <1>5 DEF Move
<1>6. CASE MoveNull(c)
  BY <1>6 DEF MoveNull
<1>7. CASE Pop(c)
  <2>1. out[c] \in Items \cup {Empty}
    BY <1>7 DEF Pop
  <2>2. got' \in Seq(Items \cup {Empty})
    BY <1>7, <2>1 DEF Pop
  <2>3. QED
    BY <1>7, <2>2 DEF Pop
<1>8. CASE Delete(c)
  BY <1>8 DEF Delete, Return
<1>9. QED
  BY <1>1, <1>2, <1>3, <1>4, <1>5, <1>6, <1>7, <1>8, <1>10, <1>11, <1>12, <1>13
     DEF Consume

-----------------------------------------------------------------------------
LEMMA PointersStep ==
  ASSUME TypeOK, PointersHold, Next
  PROVE  PointersHold'
<1> USE QueueAssumption DEF TypeOK, PointersHold, NodePtr, Threads, At, Goto
<1>1. CASE Open
  BY <1>1 DEF Open
<1>2. ASSUME NEW p \in Producers, Produce(p) PROVE PointersHold'
  <2>1. CASE Emplace(p)
    BY <2>1 DEF Emplace
  <2>2. CASE ReadNext(p)
    BY <2>2 DEF ReadNext
  <2>3. CASE Link(p) \/ LinkFails(p)
    BY <2>3 DEF Link, LinkFails
  <2>4. CASE Swing(p)
    BY <2>4 DEF Swing
  <2>5. CASE Help(p)
    BY <2>5 DEF Help
  <2>6. QED
    BY <1>2, <2>1, <2>2, <2>3, <2>4, <2>5 DEF Produce
<1>3. ASSUME NEW c \in Consumers, Consume(c) PROVE PointersHold'
  <2>1. CASE LoadHead(c) \/ LoadTail(c) \/ HeadMoved(c) \/ PopFails(c)
    BY <2>1 DEF LoadHead, LoadTail, HeadMoved, PopFails
  <2>2. CASE LoadNext(c)
    BY <2>2 DEF LoadNext
  <2>3. CASE Decide(c)
    BY <2>3 DEF Decide
  <2>4. CASE ReturnEmpty(c) \/ Delete(c)
    BY <2>4 DEF ReturnEmpty, Delete, Return
  <2>5. CASE HelpTail(c) \/ MoveNull(c)
    BY <2>5 DEF HelpTail, MoveNull
  <2>6. CASE Move(c)
    <3>1. rnext[c] \in Nodes /\ data[rnext[c]] # None
      BY <2>6 DEF Move
    <3>2. QED
      BY <2>6, <3>1 DEF Move
  <2>7. CASE Pop(c)
    BY <2>7 DEF Pop
  <2>8. QED
    BY <1>3, <2>1, <2>2, <2>3, <2>4, <2>5, <2>6, <2>7 DEF Consume
<1>4. QED
  BY <1>1, <1>2, <1>3 DEF Next

-----------------------------------------------------------------------------
\* A step that makes no value and moves none keeps all of them made and in one place.
LEMMA StillMade ==
  ASSUME TypeOK, AllMade, made' = made,
         \A n \in Nodes : data'[n] \in {data[n], Empty},
         \A c \in Consumers : out'[c] \in {out[c], None},
         got' = got
  PROVE  AllMade'
  BY QueueAssumption DEF TypeOK, AllMade, IsMade

LEMMA MadeStep ==
  ASSUME TypeOK, PointersHold, AllMade, Next
  PROVE  AllMade'
<1> USE QueueAssumption DEF TypeOK, PointersHold
<1>1. CASE Open
  BY <1>1, StillMade DEF Open
<1>2. ASSUME NEW p \in Producers, Produce(p) PROVE AllMade'
  <2>1. CASE Emplace(p)
    <3> DEFINE x == <<p, made[p] + 1>>
    <3>1. made[p] + 1 \in 1 .. MaxItems /\ made' = [made EXCEPT ![p] = @ + 1]
      BY <2>1 DEF Emplace
    <3>2. x \in Items /\ x[1] = p /\ x[2] = made[p] + 1
      BY <3>1 DEF Items
    <3>3. x[2] <= made'[x[1]]
      BY <3>1, <3>2
    <3>4. \A q \in Producers : made[q] <= made'[q] /\ made[q] \in Nat /\ made'[q] \in Nat
      BY <3>1
    <3>5. ASSUME NEW y \in Items, IsMade(y) PROVE y[2] <= made'[y[1]]
      <4>1. y[1] \in Producers /\ y[2] \in Nat
        BY ItemNames
      <4>2. y[2] <= made[y[1]]
        BY <3>5 DEF IsMade
      <4>3. QED
        BY <3>4, <4>1, <4>2
    <3>6. \A n \in Nodes : data'[n] \in {data[n], x}
      BY <2>1 DEF Emplace
    <3>7. out' = out /\ got' = got
      BY <2>1 DEF Emplace
    <3> HIDE DEF x
    <3>8. \A n \in Nodes : IsMade(data[n])'
      BY <3>3, <3>5, <3>6 DEF AllMade, IsMade
    <3>9. (\A c \in Consumers : IsMade(out[c])') /\ (\A i \in DOMAIN got' : IsMade(got[i])')
      BY <3>5, <3>7 DEF AllMade, IsMade
    <3>10. QED
      BY <3>8, <3>9 DEF AllMade, IsMade
  <2>2. CASE Links(p)
    <3>1. made' = made /\ data' = data /\ out' = out /\ got' = got
      BY <2>2 DEF Links, ReadNext, Link, LinkFails, Swing, Help
    <3>2. QED
      BY <3>1, StillMade
  <2>3. QED
    BY <1>2, <2>1, <2>2 DEF Produce, Links
<1>3. ASSUME NEW c \in Consumers, Consume(c) PROVE AllMade'
  <2>1. CASE Looks(c) \/ HelpTail(c) \/ MoveNull(c)
    <3>1. made' = made /\ data' = data /\ out' = out /\ got' = got
      BY <2>1 DEF Looks, LoadHead, LoadTail, LoadNext, HeadMoved, Decide, PopFails, HelpTail, MoveNull
    <3>2. QED
      BY <3>1, StillMade
  <2>2. CASE Delete(c)
    <3>1. made' = made /\ data' = data /\ got' = got /\ \A d \in Consumers : out'[d] \in {out[d], None}
      BY <2>2 DEF Delete, Return
    <3>2. QED
      BY <3>1, StillMade
  <2>3. CASE Move(c)
    <3>1. rnext[c] \in Nodes
      BY <2>3 DEF Move, NodePtr, Threads
    <3>2. QED
      BY <2>3, <3>1 DEF Move, AllMade, IsMade
  <2>4. CASE ReturnEmpty(c) \/ Pop(c)
    <3>1. made' = made /\ data' = data /\ \A d \in Consumers : out'[d] \in {out[d], None}
      BY <2>4 DEF ReturnEmpty, Pop, Return
    <3>2. got' \in {got, Append(got, out[c])}
      BY <2>4 DEF ReturnEmpty, Pop
    <3>3. \A i \in DOMAIN got' : IsMade(got[i])'
      <4>1. IsMade(out[c]) /\ \A i \in DOMAIN got : IsMade(got[i])
        BY DEF AllMade
      <4>2. \A i \in DOMAIN got' : got'[i] = out[c] \/ (i \in DOMAIN got /\ got'[i] = got[i])
        <5>1. CASE got' = got
          BY <5>1
        <5>2. CASE got' = Append(got, out[c])
          <6>1. got \in Seq(Items \cup {Empty})
            OBVIOUS
          <6>2. QED
            BY <5>2, <6>1, AppendedOne
        <5>3. QED
          BY <3>2, <5>1, <5>2
      <4>3. QED
        BY <3>1, <4>1, <4>2 DEF IsMade
    <3>4. QED
      BY <3>1, <3>3 DEF AllMade, IsMade
  <2>5. QED
    BY <1>3, <2>1, <2>2, <2>3, <2>4 DEF Consume, Looks
<1>4. QED
  BY <1>1, <1>2, <1>3 DEF Next

-----------------------------------------------------------------------------
\* A step that gives nobody a value leaves each in its place.
LEMMA StillOnePlace ==
  ASSUME TypeOK, OnePlace, got' = got,
         \A n \in Nodes : data'[n] \in {data[n], Empty},
         \A c \in Consumers, x \in Items : Carries(c, x)' => Carries(c, x),
         \A c \in Consumers : out'[c] \in Items \cup {Empty, None}
  PROVE  OnePlace'
<1> USE QueueAssumption DEF TypeOK
<1>1. \A m, n \in Nodes : data'[m] = data'[n] /\ data'[m] # Empty => m = n
  BY DEF OnePlace
<1>2. \A c, d \in Consumers :
        out'[c] \in Items /\ Carries(c, out[c])' /\ Carries(d, out[c])' => c = d
  BY DEF OnePlace, Carries
<1>3. \A n \in Nodes, c \in Consumers : data'[n] # Empty => ~Carries(c, data[n])'
  BY DEF OnePlace, Carries
<1>4. \A i \in DOMAIN got' : got'[i] # Empty =>
        /\ \A n \in Nodes : data'[n] # got'[i]
        /\ \A c \in Consumers : ~Carries(c, got[i])'
  BY DEF OnePlace, Carries
<1>5. NeverTwice'
  BY DEF OnePlace, NeverTwice
<1>6. QED
  BY <1>1, <1>2, <1>3, <1>4, <1>5 DEF OnePlace, NeverTwice, Carries

\* The value that a consumer carries is returned, and it carries it no longer.
LEMMA ReturnedOnce ==
  ASSUME TypeOK, OnePlace, data' = data,
         NEW c \in Consumers, pc[c] # "delete",
         out[c] \in Items \cup {Empty}, got' = Append(got, out[c]),
         \A x \in Items : ~Carries(c, x)',
         \A d \in Consumers \ {c}, x \in Items : Carries(d, x)' => Carries(d, x),
         \A d \in Consumers : out'[d] \in Items \cup {Empty, None}
  PROVE  OnePlace'
<1> USE QueueAssumption DEF TypeOK
<1>1. \A m, n \in Nodes : data'[m] = data'[n] /\ data'[m] # Empty => m = n
  BY DEF OnePlace
<1>2. \A d, e \in Consumers :
        out'[d] \in Items /\ Carries(d, out[d])' /\ Carries(e, out[d])' => d = e
  BY DEF OnePlace, Carries
<1>3. \A n \in Nodes, d \in Consumers : data'[n] # Empty => ~Carries(d, data[n])'
  BY DEF OnePlace, Carries
<1>4. got \in Seq(Items \cup {Empty})
  OBVIOUS
<1>5. /\ \A i \in DOMAIN got' : i \in DOMAIN got \/ i = Len(got) + 1
      /\ \A i \in DOMAIN got : got'[i] = got[i] /\ i # Len(got) + 1
      /\ got'[Len(got) + 1] = out[c]
  BY <1>4, AppendedOne
<1>6. Carries(c, out[c])
  BY DEF Carries
<1>7. ASSUME NEW i \in DOMAIN got', got'[i] # Empty
      PROVE  /\ \A n \in Nodes : data'[n] # got'[i]
             /\ \A d \in Consumers : ~Carries(d, got[i])'
  <2>1. CASE i \in DOMAIN got
    <3>1. got'[i] = got[i] /\ got[i] \in Items
      BY <1>4, <1>5, <1>7, <2>1
    <3>2. QED
      BY <1>7, <2>1, <3>1 DEF OnePlace, Carries
  <2>2. CASE i = Len(got) + 1
    <3>1. got'[i] = out[c] /\ out[c] \in Items
      BY <1>5, <1>7, <2>2
    <3>2. \A d \in Consumers \ {c} : ~Carries(d, out[c])
      BY <1>6, <3>1 DEF OnePlace
    <3>3. \A n \in Nodes : data[n] # out[c]
      BY <1>6, <3>1 DEF OnePlace
    <3>4. QED
      BY <3>1, <3>2, <3>3 DEF Carries
  <2>3. QED
    BY <1>5, <2>1, <2>2
<1>8. NeverTwice'
  <2>1. ASSUME NEW i \in DOMAIN got, got[i] # Empty PROVE got[i] # out[c]
    BY <1>6, <2>1 DEF OnePlace
  <2>2. QED
    BY <1>5, <2>1 DEF OnePlace, NeverTwice
<1>9. QED
  BY <1>1, <1>2, <1>3, <1>7, <1>8 DEF OnePlace, NeverTwice, Carries

LEMMA EmplacePlaces ==
  ASSUME TypeOK, AllMade, OnePlace, NEW p \in Producers, Emplace(p)
  PROVE  OnePlace'
<1> USE QueueAssumption DEF TypeOK
<1> DEFINE x == <<p, made[p] + 1>>
<1>1. made[p] + 1 \in 1 .. MaxItems /\ made[p] \in Nat
  BY DEF Emplace
<1>2. x \in Items /\ ~IsMade(x) /\ x # Empty
  BY <1>1 DEF Items, IsMade
<1>3. PICK n \in Nodes : data' = [data EXCEPT ![n] = x]
  BY DEF Emplace
<1>4. out' = out /\ got' = got /\ \A c \in Consumers : (pc'[c] # "delete") = (pc[c] # "delete")
  BY DEF Emplace, Goto, Threads
<1> HIDE DEF x
<1>5. (\A m \in Nodes : data[m] # x) /\ (\A c \in Consumers : out[c] # x)
      /\ \A i \in DOMAIN got : got[i] # x
  BY <1>2 DEF AllMade
<1>6. \A m, k \in Nodes : data'[m] = data'[k] /\ data'[m] # Empty => m = k
  BY <1>3, <1>5 DEF OnePlace
<1>7. \A m \in Nodes, c \in Consumers : data'[m] # Empty => ~Carries(c, data[m])'
  BY <1>3, <1>4, <1>5 DEF OnePlace, Carries
<1>8. \A c, d \in Consumers :
        out'[c] \in Items /\ Carries(c, out[c])' /\ Carries(d, out[c])' => c = d
  BY <1>4 DEF OnePlace, Carries
<1>9. \A i \in DOMAIN got' : got'[i] # Empty =>
        /\ \A m \in Nodes : data'[m] # got'[i]
        /\ \A c \in Consumers : ~Carries(c, got[i])'
  BY <1>3, <1>4, <1>5 DEF OnePlace, Carries
<1>10. NeverTwice'
  BY <1>4 DEF OnePlace, NeverTwice
<1>11. QED
  BY <1>6, <1>7, <1>8, <1>9, <1>10 DEF OnePlace, NeverTwice, Carries

\* The value leaves the node as it comes to the consumer.
LEMMA MovePlaces ==
  ASSUME TypeOK, OnePlace, ~Copies, NEW c \in Consumers, Move(c)
  PROVE  OnePlace'
<1> USE QueueAssumption DEF TypeOK
<1>1. PICK n \in Nodes : data' = [data EXCEPT ![n] = Empty] /\ out' = [out EXCEPT ![c] = data[n]]
  BY DEF Move, NodePtr, Threads
<1>2. got' = got /\ pc' = [pc EXCEPT ![c] = "pop"] /\ c \in Threads
  BY DEF Move, Goto, Threads
<1>3. \A m, k \in Nodes : data'[m] = data'[k] /\ data'[m] # Empty => m = k
  BY <1>1 DEF OnePlace
<1>4. /\ \A d \in Consumers \ {c} : \A y : Carries(d, y)' <=> Carries(d, y)
      /\ \A y : Carries(c, y)' <=> y = data[n]
  BY <1>1, <1>2 DEF Carries, Threads
<1>5. \A m \in Nodes, d \in Consumers : data'[m] # Empty => ~Carries(d, data[m])'
  BY <1>1, <1>2 DEF OnePlace, Carries, Threads
<1>6. \A d, e \in Consumers :
        out'[d] \in Items /\ Carries(d, out[d])' /\ Carries(e, out[d])' => d = e
  BY <1>1, <1>2 DEF OnePlace, Carries, Threads
<1>7. \A i \in DOMAIN got' : got'[i] # Empty =>
        /\ \A m \in Nodes : data'[m] # got'[i]
        /\ \A d \in Consumers : ~Carries(d, got[i])'
  BY <1>1, <1>2 DEF OnePlace, Carries, Threads
<1>8. NeverTwice'
  BY <1>2 DEF OnePlace, NeverTwice
<1>9. QED
  BY <1>3, <1>5, <1>6, <1>7, <1>8 DEF OnePlace, NeverTwice, Carries

LEMMA PlacesStep ==
  ASSUME PlacesInv, ~Copies, Next
  PROVE  OnePlace'
<1>0. TypeOK /\ PointersHold /\ AllMade /\ OnePlace
  BY DEF PlacesInv
<1>1. TypeOK'
  <2>1. CASE Open
    BY <1>0, <2>1, Zenon DEF Open, TypeOK
  <2>2. QED
    BY <1>0, <2>1, ProducerType, ConsumerType DEF Next
<1>2. \A c \in Consumers : out'[c] \in Items \cup {Empty, None}
  BY <1>1 DEF TypeOK
<1> USE <1>0, <1>2, QueueAssumption
<1>3. CASE Open
  BY <1>3, StillOnePlace DEF Open, Carries
<1>4. ASSUME NEW p \in Producers, Produce(p) PROVE OnePlace'
  <2>1. CASE Links(p)
    <3>1. /\ data' = data /\ out' = out /\ got' = got
          /\ \A c \in Consumers : pc'[c] = pc[c]
      BY <2>1 DEF Links, ReadNext, Link, LinkFails, Swing, Help, Goto, TypeOK, Threads
    <3>2. QED
      BY <3>1, StillOnePlace DEF Carries
  <2>2. QED
    BY <1>4, <2>1, EmplacePlaces DEF Produce, Links
<1>5. ASSUME NEW c \in Consumers, Consume(c) PROVE OnePlace'
  <2>1. CASE Looks(c) \/ HelpTail(c) \/ MoveNull(c)
    <3>1. /\ data' = data /\ out' = out /\ got' = got
          /\ \A d \in Consumers : pc[d] = "delete" => pc'[d] = "delete"
      BY <2>1 DEF Looks, LoadHead, LoadTail, LoadNext, HeadMoved, Decide, PopFails, HelpTail,
                  MoveNull, Goto, At, TypeOK, Threads
    <3>2. QED
      BY <3>1, StillOnePlace DEF Carries
  <2>2. CASE Delete(c)
    <3>1. /\ data' = data /\ got' = got /\ out' = [out EXCEPT ![c] = None]
          /\ \A d \in Consumers \ {c} : pc'[d] = pc[d]
      BY <2>2 DEF Delete, Return, Goto, TypeOK, Threads
    <3>2. \A d \in Consumers, x \in Items : Carries(d, x)' => Carries(d, x)
      BY <3>1 DEF Carries, TypeOK
    <3>3. QED
      BY <3>1, <3>2, StillOnePlace
  <2>3. CASE Pop(c)
    <3>1. /\ data' = data /\ out' = out /\ got' = Append(got, out[c])
          /\ pc[c] # "delete" /\ pc' = [pc EXCEPT ![c] = "delete"]
      BY <2>3 DEF Pop, Goto, At
    <3>2. out[c] \in Items \cup {Empty}
      BY <2>3 DEF Pop, At, PointersHold, TypeOK
    <3>3. \A d \in Consumers \ {c}, x \in Items : Carries(d, x)' => Carries(d, x)
      BY <3>1 DEF Carries, TypeOK, Threads
    <3>4. \A x \in Items : ~Carries(c, x)'
      BY <3>1 DEF Carries, TypeOK, Threads
    <3>5. QED
      BY <3>1, <3>2, <3>3, <3>4, ReturnedOnce
  <2>4. CASE ReturnEmpty(c)
    <3>1. /\ data' = data /\ pc[c] = "check" /\ out' = [out EXCEPT ![c] = None]
          /\ \A d \in Consumers \ {c} : pc'[d] = pc[d]
          /\ got' = IF out[c] = None THEN got ELSE Append(got, out[c])
      BY <2>4 DEF ReturnEmpty, Return, Goto, At, TypeOK, Threads
    <3>2. /\ \A d \in Consumers \ {c}, x \in Items : Carries(d, x)' => Carries(d, x)
          /\ \A x \in Items : ~Carries(c, x)'
      BY <3>1 DEF Carries, TypeOK
    <3>3. CASE out[c] = None
      BY <3>1, <3>2, <3>3, StillOnePlace
    <3>4. CASE out[c] # None
      <4>1. out[c] \in Items \cup {Empty}
        BY <3>4 DEF TypeOK
      <4>2. QED
        BY <3>1, <3>2, <3>4, <4>1, ReturnedOnce
    <3>5. QED
      BY <3>3, <3>4
  <2>5. QED
    BY <1>5, <2>1, <2>2, <2>3, <2>4, MovePlaces DEF Consume, Looks
<1>6. QED
  BY <1>3, <1>4, <1>5 DEF Next

\* The part of PlacesInv that holds whatever a move leaves in the node.
TypeInv == TypeOK /\ PointersHold /\ AllMade

LEMMA TypesInductive == Spec => []TypeInv
<1>1. Init => TypeInv
  <2> SUFFICES ASSUME Init PROVE TypeInv
    OBVIOUS
  <2>1. TypeOK
    BY TypeInit
  <2>2. PointersHold
    BY DEF Init, PointersHold, Threads
  <2>3. AllMade
    BY QueueAssumption DEF Init, AllMade, IsMade
  <2>4. QED
    BY <2>1, <2>2, <2>3 DEF TypeInv
<1>2. TypeInv /\ [Next]_vars => TypeInv'
  <2> SUFFICES ASSUME TypeInv, [Next]_vars PROVE TypeInv'
    OBVIOUS
  <2>1. CASE Next
    <3>1. TypeOK'
      <4>1. CASE Open
        BY <4>1, Zenon DEF Open, TypeOK, TypeInv
      <4>2. QED
        BY <2>1, <4>1, ProducerType, ConsumerType DEF Next, TypeInv
    <3>2. QED
      BY <2>1, <3>1, PointersStep, MadeStep DEF TypeInv
  <2>2. CASE UNCHANGED vars
    BY <2>2 DEF vars, TypeInv, TypeOK, PointersHold, AllMade, IsMade
  <2>3. QED
    BY <2>1, <2>2
<1>3. QED
  BY <1>1, <1>2, PTL DEF Spec

LEMMA PlacesInductive ==
  ASSUME ~Copies
  PROVE  Spec => []PlacesInv
<1>1. Init => OnePlace
  BY QueueAssumption DEF Init, OnePlace, NeverTwice, Carries
<1>2. TypeInv /\ OnePlace /\ [Next]_vars => OnePlace'
  <2>1. ASSUME TypeInv, OnePlace, Next PROVE OnePlace'
    BY <2>1, PlacesStep DEF PlacesInv, TypeInv
  <2>2. ASSUME OnePlace, UNCHANGED vars PROVE OnePlace'
    BY <2>2 DEF vars, OnePlace, Carries, NeverTwice
  <2>3. QED
    BY <2>1, <2>2
<1>3. TypeInv /\ OnePlace => PlacesInv
  BY DEF TypeInv, PlacesInv
<1>4. QED
  BY <1>1, <1>2, <1>3, TypesInductive, PTL DEF Spec

\* emplace(), dequeue(): head and tail are never null, whatever stale pointers the
\* exchanges install, and the locals are what their types say.
THEOREM QueueTypeCorrect == Spec => []TypeOK
<1>1. TypeInv => TypeOK
  BY DEF TypeInv
<1>2. QED
  BY <1>1, TypesInductive, PTL

\* dequeue(): however many producers and consumers race, and although a block may be
\* deleted and allocated again under a stale pointer, no value is returned twice if moving
\* a T empties it, as it does for the shared pointers of the wait queues.  A T that a move
\* copies, an int, does come out twice: the loser of the exchange keeps its copy.
THEOREM NothingTwice ==
  ASSUME ~Copies
  PROVE  Spec => []NeverTwice
<1>1. PlacesInv => NeverTwice
  BY DEF PlacesInv, OnePlace
<1>2. QED
  BY <1>1, PlacesInductive, PTL

-----------------------------------------------------------------------------
\* The hand-over of a producer to a consumer, as examples/core/lock_free_queue.cpp has it,
\* is about one consumer: two would race to delete a head that the other still reads.
OneConsumer == \A c, d \in Consumers : c = d

\* The steps of the consumer that change no shared pointer.
LEMMA LookFrame ==
  ASSUME TypeOK, HandOverInv, NEW c \in Consumers, NEW l \in Control \ {"delete", "idle"},
         pc' = [pc EXCEPT ![c] = l], pc[c] # "delete", opened,
         UNCHANGED <<alive, next, head, tail, node, made, opened>>,
         \A p \in Producers : rtail'[p] = rtail[p] /\ rnext'[p] = rnext[p],
         \A d \in Consumers \ {c} : rhead'[d] = rhead[d]
  PROVE  /\ ListHolds' /\ NewHolds' /\ TailHolds' /\ ProducerHolds'
         /\ \A p, q \in Producers : Busy(p)' /\ Busy(q)' => p = q
<1> USE QueueAssumption DEF HandOverInv, Threads, TypeOK
<1>1. /\ \A p \in Producers : pc'[p] = pc[p]
      /\ \A d \in Consumers : pc'[d] = "delete" <=> pc[d] = "delete"
      /\ \A d \in Consumers : pc[d] = "delete" => rhead'[d] = rhead[d]
  OBVIOUS
<1>2. \A n : InList(n)' <=> InList(n)
  BY <1>1 DEF InList, Fresh
<1>3. ListHolds'
  BY <1>1, <1>2 DEF ListHolds
<1>4. NewHolds'
  BY <1>1 DEF NewHolds, Fresh
<1>5. TailHolds'
  BY <1>1 DEF TailHolds
<1>6. ProducerHolds'
  BY <1>1, <1>2 DEF ProducerHolds, Fresh
<1>7. QED
  BY <1>1, <1>3, <1>4, <1>5, <1>6 DEF ConsumerHolds, Busy

LEMMA MoreBehindHead ==
  ASSUME TypeOK, HandOverInv, tail # head
  PROVE  next[head] # Null
<1> USE QueueAssumption DEF HandOverInv, TypeOK
<1>1. InList(head) /\ InList(tail) /\ head \in alive /\ tail \in alive
  BY DEF ListHolds, InList
<1>2. CASE next[tail] = Null
  BY <1>1, <1>2 DEF ListHolds
<1>3. CASE next[tail] # Null /\ next[head] = Null
  <2>1. PICK p \in Producers : /\ pc[p] = "swing" /\ next[tail] = node[p] /\ next[node[p]] = Null
    BY <1>3 DEF TailHolds
  <2>2. node[p] \in alive
    BY <1>1, <1>3, <2>1 DEF ListHolds
  <2>3. InList(node[p])
    BY <1>1, <2>1, <2>2 DEF InList, NewHolds, ConsumerHolds
  <2>4. node[p] = head
    BY <1>1, <1>3, <2>1, <2>2, <2>3 DEF ListHolds
  <2>5. \E c \in Consumers : pc[c] = "delete" /\ rhead[c] = tail
    BY <1>1, <2>1, <2>4 DEF ListHolds
  <2>6. QED
    BY <1>1, <2>5 DEF InList
<1>4. QED
  BY <1>2, <1>3

LEMMA LookStep ==
  ASSUME TypeOK, HandOverInv, OneConsumer, NEW c \in Consumers,
         \/ LoadHead(c) \/ LoadTail(c) \/ LoadNext(c) \/ HeadMoved(c)
         \/ Decide(c) \/ Move(c) \/ PopFails(c)
  PROVE  HandOverInv'
<1> USE QueueAssumption DEF Threads, TypeOK
<1>1. opened /\ head \in alive /\ ~freed
  <2>1. pc[c] # "idle" => opened
    BY DEF HandOverInv, ConsumerHolds
  <2>2. opened
    BY <2>1 DEF LoadHead, LoadTail, LoadNext, HeadMoved, Decide, Move, PopFails, At
  <2>3. QED
    BY <2>2 DEF HandOverInv, ListHolds, InList
<1>2. PICK l \in Control \ {"delete", "idle"} : pc' = [pc EXCEPT ![c] = l]
  BY DEF LoadHead, LoadTail, LoadNext, HeadMoved, Decide, Move, PopFails, Goto, Control
<1>3. /\ pc[c] # "delete"
      /\ UNCHANGED <<alive, next, head, tail, node, made, opened>>
      /\ \A d \in Threads \ {c} : rtail'[d] = rtail[d] /\ rnext'[d] = rnext[d]
      /\ \A d \in Consumers \ {c} : rhead'[d] = rhead[d]
  BY DEF LoadHead, LoadTail, LoadNext, HeadMoved, Decide, Move, PopFails, At
<1>4. \A p \in Producers : rtail'[p] = rtail[p] /\ rnext'[p] = rnext[p]
  BY <1>3
<1>5. /\ ListHolds' /\ NewHolds' /\ TailHolds' /\ ProducerHolds'
      /\ \A p, q \in Producers : Busy(p)' /\ Busy(q)' => p = q
  BY <1>1, <1>2, <1>3, <1>4, LookFrame
<1>6. \A d \in Consumers : d = c
  BY DEF OneConsumer
<1>7. opened' /\ head' = head /\ tail' = tail /\ next' = next
  BY <1>1, <1>3
<1>8. /\ ~freed'
      /\ pc'[c] # "idle" => opened'
      /\ pc'[c] \notin {"idle", "delete"} => rhead'[c] = head'
      /\ pc'[c] \in {"headNext", "check"} /\ rtail'[c] # head' => tail' # head'
      /\ pc'[c] = "check" => /\ rnext'[c] # Null => rnext'[c] = next'[head']
                             /\ rtail'[c] # head' => rnext'[c] # Null
      /\ pc'[c] \in {"helpTail", "move", "pop"} => rnext'[c] = next'[head'] /\ rnext'[c] # Null
      /\ pc'[c] = "helpTail" => rtail'[c] = head'
      /\ pc'[c] \in {"move", "pop"} => tail' # head'
      /\ pc'[c] # "delete"
  <2> USE <1>1, <1>7 DEF At, Goto, Touch, HandOverInv, ConsumerHolds
  <2>1. CASE LoadHead(c)
    BY <2>1 DEF LoadHead
  <2>2. CASE LoadTail(c)
    BY <2>2 DEF LoadTail
  <2>3. CASE LoadNext(c)
    BY <2>3, MoreBehindHead DEF LoadNext
  <2>4. CASE HeadMoved(c)
    BY <2>4 DEF HeadMoved
  <2>5. CASE Decide(c)
    BY <2>5 DEF Decide
  <2>6. CASE Move(c)
    <3>1. next[head] \in alive
      BY <2>6 DEF Move, ListHolds
    <3>2. QED
      BY <2>6, <3>1 DEF Move
  <2>7. CASE PopFails(c)
    BY <2>7 DEF PopFails
  <2>8. QED
    BY <2>1, <2>2, <2>3, <2>4, <2>5, <2>6, <2>7
<1>9. ConsumerHolds'
  BY <1>5, <1>6, <1>8 DEF ConsumerHolds
<1>10. QED
  BY <1>5, <1>8, <1>9 DEF HandOverInv

LEMMA ReturnEmptyStep ==
  ASSUME TypeOK, HandOverInv, OneConsumer, NEW c \in Consumers, ReturnEmpty(c)
  PROVE  HandOverInv'
<1> USE QueueAssumption DEF Threads, TypeOK
<1>1. /\ pc' = [pc EXCEPT ![c] = "idle"] /\ pc[c] = "check"
      /\ UNCHANGED <<alive, next, head, tail, node, made, opened, freed>>
      /\ \A d \in Threads \ {c} : rtail'[d] = rtail[d] /\ rnext'[d] = rnext[d]
  BY DEF ReturnEmpty, Return, At, Goto
<1>2. /\ \A p \in Producers : pc'[p] = pc[p] /\ rtail'[p] = rtail[p] /\ rnext'[p] = rnext[p]
      /\ \A d \in Consumers : pc'[d] = "idle" /\ pc[d] # "delete"
  BY <1>1 DEF OneConsumer
<1>3. \A n : InList(n)' <=> InList(n)
  BY <1>1, <1>2 DEF InList, Fresh
<1> USE DEF HandOverInv
<1>4. ListHolds'
  BY <1>1, <1>2, <1>3 DEF ListHolds
<1>5. NewHolds'
  BY <1>1, <1>2 DEF NewHolds, Fresh
<1>6. TailHolds'
  BY <1>1, <1>2 DEF TailHolds
<1>7. ProducerHolds'
  BY <1>1, <1>2, <1>3 DEF ProducerHolds, Fresh
<1>8. ConsumerHolds'
  BY <1>1, <1>2 DEF ConsumerHolds, Busy
<1>9. QED
  BY <1>1, <1>4, <1>5, <1>6, <1>7, <1>8

\* A tail that lags is moved to the node its producer linked, whoever moves it.
LEMMA TailMoves ==
  ASSUME TypeOK, HandOverInv, next[tail] # Null
  PROVE  /\ next[tail] \in alive /\ InList(next[tail]) /\ next[next[tail]] = Null
         /\ next[tail] # head /\ next[tail] # tail
         /\ \E p \in Producers : pc[p] = "swing" /\ rtail[p] = tail /\ next[tail] = node[p]
<1> USE QueueAssumption DEF HandOverInv, TypeOK
<1>1. tail \in alive /\ InList(tail)
  BY DEF ListHolds, InList
<1>2. PICK p \in Producers : /\ pc[p] = "swing" /\ rtail[p] = tail
                             /\ next[tail] = node[p] /\ next[node[p]] = Null
  BY DEF TailHolds
<1>3. node[p] \in alive
  BY <1>1, <1>2 DEF ListHolds
<1>4. InList(node[p])
  BY <1>1, <1>2, <1>3 DEF InList, NewHolds, ConsumerHolds
<1>5. node[p] # head
  <2>1. \A c \in Consumers : pc[c] = "delete" => rhead[c] # tail
    BY <1>1 DEF InList
  <2>2. QED
    BY <1>1, <1>2, <2>1 DEF ListHolds
<1>6. QED
  BY <1>2, <1>3, <1>4, <1>5

LEMMA HelpTailStep ==
  ASSUME TypeOK, HandOverInv, OneConsumer, NEW c \in Consumers, HelpTail(c)
  PROVE  HandOverInv'
<1> USE QueueAssumption DEF Threads, TypeOK
<1>1. /\ pc' = [pc EXCEPT ![c] = "tail"] /\ pc[c] = "helpTail"
      /\ rhead' = [rhead EXCEPT ![c] = head]
      /\ UNCHANGED <<alive, next, head, node, rtail, rnext, made, opened, freed>>
      /\ tail' = tail \/ (tail = rtail[c] /\ tail' = rnext[c])
  BY DEF HelpTail, At, Goto
<1>2. /\ \A p \in Producers : pc'[p] = pc[p]
      /\ \A d \in Consumers : pc'[d] = "tail" /\ pc[d] # "delete" /\ rhead'[d] = head
  BY <1>1 DEF OneConsumer
<1>3. \A n : InList(n)' <=> InList(n)
  BY <1>1, <1>2 DEF InList, Fresh
<1> USE DEF HandOverInv
<1>4. tail' = tail \/ (tail' = next[tail] /\ next[tail] # Null)
  BY <1>1 DEF ConsumerHolds
<1>5. InList(tail') /\ (tail' # tail => next[tail'] = Null)
  BY <1>4, TailMoves DEF ListHolds
<1>6. ListHolds'
  BY <1>1, <1>2, <1>3, <1>5 DEF ListHolds
<1>7. NewHolds'
  BY <1>1, <1>2 DEF NewHolds, Fresh
<1>8. TailHolds'
  BY <1>1, <1>2, <1>5 DEF TailHolds
<1>9. ProducerHolds'
  BY <1>1, <1>2, <1>3, <1>4 DEF ProducerHolds, Fresh
<1>10. ConsumerHolds'
  BY <1>1, <1>2 DEF ConsumerHolds, Busy
<1>11. QED
  BY <1>1, <1>6, <1>7, <1>8, <1>9, <1>10

LEMMA PopStep ==
  ASSUME TypeOK, HandOverInv, OneConsumer, NEW c \in Consumers, Pop(c)
  PROVE  HandOverInv'
<1> USE QueueAssumption DEF Threads, TypeOK
<1>1. /\ pc' = [pc EXCEPT ![c] = "delete"] /\ pc[c] = "pop"
      /\ head = rhead[c] /\ head' = rnext[c]
      /\ UNCHANGED <<alive, next, tail, node, rhead, rtail, rnext, made, opened, freed>>
  BY DEF Pop, At, Goto
<1> USE DEF HandOverInv
<1>2. /\ \A p \in Producers : pc'[p] = pc[p]
      /\ \A d \in Consumers : d = c /\ pc'[d] = "delete"
  BY <1>1 DEF OneConsumer
<1>3. head' = next[head] /\ next[head] # Null /\ tail # head /\ head \in alive /\ opened
  BY <1>1 DEF ConsumerHolds, ListHolds, InList
<1>4. \A n : InList(n)' <=> InList(n) /\ n # head
  BY <1>1, <1>2 DEF InList, Fresh
<1>5. \A m \in alive : next[m] # head
  BY <1>1, <1>2 DEF ListHolds
<1>6. InList(head)
  BY DEF ListHolds
<1>7. InList(head')
  <2>1. head' \in alive
    BY <1>3 DEF ListHolds
  <2>2. QED
    BY <1>1, <1>2, <1>3, <2>1 DEF InList, NewHolds
<1>8. head' # head
  BY <1>3, <1>5
<1>9. ListHolds'
  BY <1>1, <1>2, <1>3, <1>4, <1>5, <1>7, <1>8 DEF ListHolds
<1>10. NewHolds'
  BY <1>1, <1>2 DEF NewHolds, Fresh
<1>11. TailHolds'
  BY <1>1, <1>2 DEF TailHolds
<1>12. ProducerHolds'
  BY <1>1, <1>2, <1>3, <1>4 DEF ProducerHolds, Fresh
<1>13. ConsumerHolds'
  <2>1. \A p \in Producers : Fresh(p)' => node'[p] # head
    BY <1>1, <1>2, <1>6 DEF InList, Fresh
  <2>2. QED
    BY <1>1, <1>2, <1>3, <1>5, <1>8, <2>1 DEF ConsumerHolds, Busy
<1>14. QED
  BY <1>1, <1>9, <1>10, <1>11, <1>12, <1>13

LEMMA DeleteStep ==
  ASSUME TypeOK, HandOverInv, OneConsumer, NEW c \in Consumers, Delete(c)
  PROVE  HandOverInv'
<1> USE QueueAssumption DEF Threads, TypeOK
<1>1. /\ pc' = [pc EXCEPT ![c] = "idle"] /\ pc[c] = "delete"
      /\ alive' = alive \ {rhead[c]} /\ freed' = (rhead[c] \notin alive)
      /\ UNCHANGED <<next, head, tail, node, made, opened>>
      /\ \A d \in Threads \ {c} : rtail'[d] = rtail[d] /\ rnext'[d] = rnext[d]
  BY DEF Delete, Return, At, Goto
<1> USE DEF HandOverInv
<1>2. /\ \A p \in Producers : pc'[p] = pc[p] /\ rtail'[p] = rtail[p] /\ rnext'[p] = rnext[p]
      /\ \A d \in Consumers : d = c /\ pc'[d] = "idle"
  BY <1>1 DEF OneConsumer
<1>3. /\ rhead[c] \in alive /\ rhead[c] # head /\ opened
      /\ \A m \in alive : next[m] # rhead[c]
  BY <1>1 DEF ConsumerHolds
<1>4. \A n : InList(n)' <=> InList(n)
  BY <1>1, <1>2 DEF InList, Fresh
<1>5. ListHolds'
  BY <1>1, <1>2, <1>3, <1>4 DEF ListHolds, InList
<1>6. NewHolds'
  <2>1. \A p \in Producers : Fresh(p) => node[p] # rhead[c]
    BY <1>1 DEF ConsumerHolds
  <2>2. QED
    BY <1>1, <1>2, <2>1 DEF NewHolds, Fresh
<1>7. TailHolds'
  BY <1>1, <1>2 DEF TailHolds
<1>8. ProducerHolds'
  BY <1>1, <1>2, <1>3, <1>4 DEF ProducerHolds, Fresh
<1>9. ConsumerHolds'
  BY <1>1, <1>2 DEF ConsumerHolds, Busy
<1>10. QED
  BY <1>1, <1>3, <1>5, <1>6, <1>7, <1>8, <1>9

-----------------------------------------------------------------------------
\* The first step of emplace(): the new node is in nobody's list.
LEMMA EmplaceStep ==
  ASSUME TypeOK, HandOverInv, NEW p \in Producers, Emplace(p)
  PROVE  HandOverInv'
<1> USE QueueAssumption DEF Threads, TypeOK, NodePtr
<1>1. PICK n \in Nodes \ alive :
        /\ alive' = alive \cup {n} /\ next' = [next EXCEPT ![n] = Null]
        /\ node' = [node EXCEPT ![p] = n]
  BY DEF Emplace
<1>2. /\ pc' = [pc EXCEPT ![p] = "next"] /\ pc[p] = "idle"
      /\ made' = [made EXCEPT ![p] = @ + 1] /\ made[p] < MaxItems
      /\ rtail' = [rtail EXCEPT ![p] = tail]
      /\ UNCHANGED <<head, tail, rhead, rnext, freed, opened>>
  BY DEF Emplace, At, Goto
<1>3. \A c \in Consumers : pc'[c] = pc[c] /\ rtail'[c] = rtail[c] /\ rnext'[c] = rnext[c]
  BY <1>2
<1> USE DEF HandOverInv
<1>4. /\ \A m \in alive : next'[m] = next[m] /\ next[m] \in alive \cup {Null} /\ m # n
      /\ next'[n] = Null /\ n # Null
      /\ \A m \in alive' : next'[m] # n
  BY <1>1 DEF ListHolds
<1>5. /\ ~InList(n)' /\ \A m : m # n => (InList(m)' <=> InList(m))
      /\ \A m : InList(m) => m # n
  BY <1>1, <1>2, <1>3 DEF InList, Fresh
<1>6. \A q \in Producers \ {p} :
        /\ pc'[q] = pc[q] /\ node'[q] = node[q] /\ rtail'[q] = rtail[q]
        /\ pc[q] # "idle" => ~opened /\ node[q] # n /\ InList(rtail[q])
  <2>1. ASSUME NEW q \in Producers \ {p}, pc[q] # "idle"
        PROVE  ~opened /\ node[q] # n /\ InList(rtail[q])
    <3>1. ~opened
      BY <1>2, <2>1 DEF ConsumerHolds, Busy
    <3>2. InList(rtail[q])
      BY <2>1, <3>1 DEF ProducerHolds
    <3>3. CASE Fresh(q)
      BY <3>1, <3>2, <3>3 DEF NewHolds
    <3>4. CASE ~Fresh(q)
      <4>1. node[q] # Null /\ node[q] = next[rtail[q]]
        BY <2>1, <3>4 DEF NewHolds
      <4>2. rtail[q] \in alive
        BY <3>2 DEF InList
      <4>3. QED
        BY <1>4, <3>1, <3>2, <4>1, <4>2
    <3>5. QED
      BY <3>3, <3>4
  <2>2. QED
    BY <1>1, <1>2, <2>1
<1>14. /\ pc'[p] = "next" /\ node'[p] = n /\ rtail'[p] = tail /\ Null \notin alive'
       /\ alive' = alive \cup {n} /\ head \in alive /\ tail \in alive
  BY <1>1, <1>2 DEF ListHolds, InList
<1> HIDE DEF TypeOK, NodePtr, Threads
<1>7. ListHolds'
  <2>1. \A m, k \in alive' : next'[m] = next'[k] /\ next'[m] # Null => m = k
    BY <1>4, <1>14 DEF ListHolds
  <2>2. \A m \in alive' : next'[m] = head' =>
          \E c \in Consumers : pc'[c] = "delete" /\ rhead'[c] = m
    BY <1>2, <1>3, <1>4, <1>14 DEF ListHolds
  <2>3. \A m, k \in alive' :
          InList(m)' /\ InList(k)' /\ next'[m] = Null /\ next'[k] = Null => m = k
    BY <1>4, <1>5, <1>14 DEF ListHolds
  <2>4. InList(head)' /\ InList(tail)'
    BY <1>2, <1>4, <1>5, <1>14 DEF ListHolds
  <2>5. QED
    BY <1>4, <1>14, <2>1, <2>2, <2>3, <2>4 DEF ListHolds
<1>8. NewHolds'
  <2>1. /\ pc'[p] = "next" /\ Fresh(p)' /\ node'[p] = n
        /\ \A q \in Producers \ {p} : Fresh(q)' <=> Fresh(q)
    BY <1>6, <1>14 DEF Fresh
  <2>2. \A q, r \in Producers :
          pc'[q] # "idle" /\ pc'[r] # "idle" /\ node'[q] = node'[r] => q = r
    <3>1. ASSUME NEW q \in Producers \ {p}, pc'[q] # "idle" PROVE node'[q] # n /\ pc[q] # "idle"
      BY <1>6, <3>1
    <3>2. QED
      BY <1>6, <1>14, <3>1 DEF NewHolds
  <2>3. ASSUME NEW q \in Producers \ {p}, Fresh(q)
        PROVE  /\ node'[q] \in alive' /\ next'[node'[q]] = Null
               /\ \A m \in alive' : next'[m] # node'[q]
    <3>1. /\ node[q] \in alive /\ next[node[q]] = Null /\ node'[q] = node[q]
          /\ \A m \in alive : next[m] # node[q]
      BY <1>6, <2>3 DEF NewHolds
    <3>2. QED
      BY <1>4, <1>14, <3>1
  <2>4. ASSUME NEW q \in Producers \ {p}, pc[q] = "swing"
        PROVE  node'[q] # Null /\ next'[rtail'[q]] = node'[q]
    <3>1. node[q] # Null /\ next[rtail[q]] = node[q]
      BY <2>4 DEF NewHolds
    <3>2. rtail[q] \in alive
      BY <1>6, <2>4 DEF InList
    <3>3. QED
      BY <1>4, <1>6, <3>1, <3>2
  <2>5. \A q \in Producers : pc'[q] \in {"idle", "swing"} \/ Fresh(q)'
    BY <1>6, <2>1 DEF NewHolds
  <2>6. QED
    BY <1>4, <1>6, <1>14, <2>1, <2>2, <2>3, <2>4, <2>5 DEF NewHolds
<1>9. TailHolds'
  <2>1. CASE next[tail] # Null
    <3>1. PICK q \in Producers : /\ pc[q] = "swing" /\ rtail[q] = tail
                                 /\ next[tail] = node[q] /\ next[node[q]] = Null
      BY <2>1 DEF TailHolds
    <3>2. q # p /\ node[q] \in alive
      BY <1>2, <1>14, <2>1, <3>1 DEF ListHolds
    <3>3. QED
      BY <1>2, <1>4, <1>6, <1>14, <3>1, <3>2 DEF TailHolds
  <2>2. CASE next[tail] = Null
    BY <1>2, <1>4, <1>14, <2>2 DEF TailHolds
  <2>3. QED
    BY <2>1, <2>2
<1>10. opened => next[tail] = Null
  BY <1>2 DEF TailHolds, ConsumerHolds, Busy
<1>11. ProducerHolds'
  <2>1. tail \in alive /\ InList(tail) /\ pc'[p] = "next" /\ rtail'[p] = tail
    BY <1>14 DEF ListHolds
  <2>2. /\ InList(rtail[p])' /\ (next'[rtail'[p]] = Null => rtail'[p] = tail')
        /\ (opened' => next'[rtail'[p]] = Null)
    BY <1>2, <1>4, <1>5, <1>10, <2>1
  <2>3. ASSUME NEW q \in Producers \ {p}, pc[q] # "idle"
        PROVE  /\ InList(rtail[q])' /\ ~opened' /\ next'[rtail'[q]] = next[rtail[q]]
               /\ (Fresh(q)' /\ next'[rtail'[q]] = Null => rtail'[q] = tail')
               /\ (pc'[q] = "help" => rnext'[q] = next'[rtail'[q]] /\ rnext'[q] # Null)
    <3>1. rtail'[q] = rtail[q] /\ pc'[q] = pc[q] /\ ~opened /\ InList(rtail[q])
      BY <1>6, <2>3
    <3>2. rtail[q] \in alive
      BY <3>1 DEF InList
    <3>3. InList(rtail[q])' /\ next'[rtail'[q]] = next[rtail[q]]
      BY <1>4, <1>5, <3>1, <3>2
    <3>4. Fresh(q)' <=> Fresh(q)
      BY <3>1 DEF Fresh
    <3>5. QED
      BY <1>2, <3>1, <3>3, <3>4 DEF ProducerHolds
  <2>4. \A q \in Producers \ {p} : pc'[q] = pc[q]
    BY <1>6
  <2>5. ASSUME NEW q \in Producers, pc[q] = "idle", q # p PROVE pc'[q] = "idle" /\ ~Fresh(q)'
    BY <2>4, <2>5 DEF Fresh
  <2>6. ASSUME NEW q \in Producers
        PROVE  /\ pc'[q] # "idle" /\ ~opened' => InList(rtail[q])'
               /\ Fresh(q)' => /\ InList(rtail[q])'
                               /\ next'[rtail'[q]] = Null => rtail'[q] = tail'
                               /\ opened' => next'[rtail'[q]] = Null /\ pc'[q] # "help"
               /\ pc'[q] = "help" => rnext'[q] = next'[rtail'[q]] /\ rnext'[q] # Null
    <3>1. CASE q = p
      BY <2>1, <2>2, <3>1
    <3>2. CASE q # p /\ pc[q] = "idle"
      BY <2>5, <3>2
    <3>3. CASE q # p /\ pc[q] # "idle"
      BY <2>3, <3>3
    <3>4. QED
      BY <3>1, <3>2, <3>3
  <2>7. QED
    BY <2>6 DEF ProducerHolds
<1>12. ConsumerHolds'
  <2>1. \A q \in Producers : Busy(q)' => Busy(q)
    BY <1>2, <1>6 DEF Busy, TypeOK
  <2>2. \A c \in Consumers : pc'[c] = "delete" =>
          /\ rhead[c] \in alive /\ \A m \in alive' : next'[m] # rhead[c]
          /\ \A q \in Producers : Fresh(q)' => node'[q] # rhead[c]
    BY <1>3, <1>4, <1>6, <1>14 DEF ConsumerHolds, Fresh
  <2>3. QED
    BY <1>2, <1>3, <1>4, <1>14, <2>1, <2>2 DEF ConsumerHolds
<1>13. QED
  BY <1>2, <1>7, <1>8, <1>9, <1>11, <1>12

\* A producer that reads its tail's next, or whose exchange of it fails, tries again.
LEMMA RetryStep ==
  ASSUME TypeOK, HandOverInv, NEW p \in Producers, ReadNext(p) \/ LinkFails(p)
  PROVE  HandOverInv'
<1> USE QueueAssumption DEF Threads, TypeOK
<1>1. /\ pc[p] \in {"next", "link"} /\ pc' \in [Threads -> Control]
      /\ \A t \in Threads \ {p} : pc'[t] = pc[t] /\ rnext'[t] = rnext[t]
      /\ UNCHANGED <<alive, next, head, tail, node, rhead, rtail, made, opened>>
  BY DEF ReadNext, LinkFails, At, Goto, Control
<1>2. \/ pc'[p] \in {"next", "link"}
      \/ pc'[p] = "help" /\ rnext'[p] = next[rtail[p]] /\ next[rtail[p]] # Null
  BY DEF ReadNext, LinkFails, At, Goto
<1>3. freed' = (rtail[p] \notin alive)
  BY DEF ReadNext, LinkFails, Touch
<1> USE DEF HandOverInv
<1>4. \A q \in Producers : Fresh(q)' <=> Fresh(q)
  BY <1>1, <1>2 DEF Fresh
<1>5. \A c \in Consumers : pc'[c] = pc[c] /\ rnext'[c] = rnext[c]
  BY <1>1
<1> HIDE DEF TypeOK, Threads
<1>14. /\ \A q \in Producers \ {p} : pc'[q] = pc[q] /\ rnext'[q] = rnext[q]
       /\ pc'[p] \in {"next", "link", "help"}
  BY <1>1, <1>2 DEF Threads
<1>6. \A n : InList(n)' <=> InList(n)
  BY <1>1, <1>4, <1>5 DEF InList
<1>7. ListHolds'
  BY <1>1, <1>5, <1>6 DEF ListHolds
<1>8. NewHolds'
  BY <1>1, <1>14 DEF NewHolds, Fresh
<1>9. TailHolds'
  BY <1>1, <1>14 DEF TailHolds
<1>10. InList(rtail[p]) /\ (opened => next[rtail[p]] = Null)
  BY <1>1 DEF ProducerHolds, Fresh
<1>11. ProducerHolds'
  <2>1. Fresh(p) /\ Fresh(p)'
    BY <1>1, <1>2 DEF Fresh
  <2>2. ASSUME NEW q \in Producers
        PROVE  /\ pc'[q] # "idle" /\ ~opened' => InList(rtail[q])'
               /\ Fresh(q)' => /\ InList(rtail[q])'
                               /\ next'[rtail'[q]] = Null => rtail'[q] = tail'
                               /\ opened' => next'[rtail'[q]] = Null /\ pc'[q] # "help"
               /\ pc'[q] = "help" => rnext'[q] = next'[rtail'[q]] /\ rnext'[q] # Null
    <3>1. CASE q = p
      BY <1>1, <1>2, <1>6, <1>10, <2>1, <3>1 DEF ProducerHolds
    <3>2. CASE q # p
      BY <1>1, <1>4, <1>6, <1>14, <3>2 DEF ProducerHolds
    <3>3. QED
      BY <3>1, <3>2
  <2>3. QED
    BY <2>2 DEF ProducerHolds
<1>12. ConsumerHolds'
  BY <1>1, <1>5, <1>14 DEF ConsumerHolds, Busy, Fresh
<1>13. QED
  BY <1>3, <1>7, <1>8, <1>9, <1>10, <1>11, <1>12 DEF InList

\* The exchange that puts the new node behind the last one: the local tail, whose next is
\* null, is the tail of the queue.
LEMMA LinkStep ==
  ASSUME TypeOK, HandOverInv, NEW p \in Producers, Link(p)
  PROVE  HandOverInv'
<1> USE QueueAssumption DEF Threads, TypeOK
<1>1. /\ pc[p] = "link" /\ pc' = [pc EXCEPT ![p] = "swing"]
      /\ next[rtail[p]] = Null /\ next' = [next EXCEPT ![rtail[p]] = node[p]]
      /\ freed' = (rtail[p] \notin alive)
      /\ UNCHANGED <<alive, head, tail, node, rhead, rtail, rnext, made, opened>>
  BY DEF Link, At, Goto, Touch
<1> USE DEF HandOverInv
<1>2. /\ rtail[p] = tail /\ tail \in alive /\ InList(tail) /\ InList(head)
      /\ node[p] \in alive /\ next[node[p]] = Null
      /\ \A m \in alive : next[m] # node[p]
  BY <1>1 DEF ProducerHolds, Fresh, NewHolds, ListHolds, InList
<1>3. /\ node[p] # tail /\ node[p] # head /\ node[p] # Null
      /\ \A q \in Producers \ {p} : pc[q] # "idle" => node[q] # node[p]
      /\ \A c \in Consumers : pc[c] = "delete" => rhead[c] # node[p]
  BY <1>1, <1>2 DEF NewHolds, Fresh, InList, ConsumerHolds
<1>4. /\ next'[tail] = node[p] /\ \A m : m # tail => next'[m] = next[m]
      /\ next[tail] = Null
  BY <1>1, <1>2
<1>5. /\ \A c \in Consumers : pc'[c] = pc[c]
      /\ \A q \in Producers \ {p} : pc'[q] = pc[q]
      /\ pc'[p] = "swing"
  BY <1>1
<1>6. \A m : InList(m)' <=> InList(m) \/ m = node[p]
  BY <1>1, <1>2, <1>3, <1>5 DEF InList, Fresh
<1>7. ListHolds'
  BY <1>1, <1>2, <1>3, <1>4, <1>5, <1>6 DEF ListHolds
<1>8. NewHolds'
  BY <1>1, <1>2, <1>3, <1>4, <1>5 DEF NewHolds, Fresh, InList
<1>9. TailHolds'
  BY <1>1, <1>2, <1>3, <1>4, <1>5 DEF TailHolds
<1>10. ProducerHolds'
  <2>1. ASSUME NEW q \in Producers \ {p}, pc[q] # "idle"
        PROVE  /\ ~opened' => InList(rtail[q])'
               /\ Fresh(q)' => /\ InList(rtail[q])'
                               /\ next'[rtail'[q]] = Null => rtail'[q] = tail'
                               /\ opened' => next'[rtail'[q]] = Null /\ pc'[q] # "help"
               /\ pc'[q] = "help" => rnext'[q] = next'[rtail'[q]] /\ rnext'[q] # Null
    <3>1. ~opened
      BY <1>1, <2>1 DEF ConsumerHolds, Busy
    <3>2. pc'[q] = pc[q] /\ rtail'[q] = rtail[q] /\ InList(rtail[q]) /\ ~opened'
      BY <1>1, <1>5, <2>1, <3>1 DEF ProducerHolds
    <3>3. InList(rtail[q])' /\ rtail[q] \in alive
      BY <1>6, <3>2 DEF InList
    <3>7. Fresh(q)' <=> Fresh(q)
      BY <3>2 DEF Fresh
    <3>4. Fresh(q) => (next[rtail[q]] = Null => rtail[q] = tail)
      BY DEF ProducerHolds
    <3>5. pc[q] = "help" => rnext[q] = next[rtail[q]] /\ rnext[q] # Null
      BY DEF ProducerHolds
    <3>6. QED
      BY <1>1, <1>3, <1>4, <3>2, <3>3, <3>4, <3>5, <3>7
  <2>2. InList(rtail[p])' /\ ~Fresh(p)' /\ pc'[p] = "swing"
    BY <1>1, <1>2, <1>6 DEF Fresh
  <2>3. QED
    BY <1>5, <2>1, <2>2 DEF ProducerHolds, Fresh
<1>11. ConsumerHolds'
  BY <1>1, <1>2, <1>3, <1>4, <1>5 DEF ConsumerHolds, Busy, Fresh
<1>12. QED
  BY <1>1, <1>2, <1>7, <1>8, <1>9, <1>10, <1>11

LEMMA SwingStep ==
  ASSUME TypeOK, HandOverInv, NEW p \in Producers, Swing(p)
  PROVE  HandOverInv'
<1> USE QueueAssumption DEF Threads, TypeOK
<1>1. /\ pc[p] = "swing" /\ pc' = [pc EXCEPT ![p] = "idle"]
      /\ tail' = IF tail = rtail[p] THEN node[p] ELSE tail
      /\ \A q \in Threads \ {p} : rtail'[q] = rtail[q] /\ rnext'[q] = rnext[q]
      /\ \A q \in Producers \ {p} : node'[q] = node[q]
      /\ UNCHANGED <<alive, next, head, rhead, made, freed, opened>>
  BY DEF Swing, At, Goto
<1> USE DEF HandOverInv
<1>2. /\ \A c \in Consumers : pc'[c] = pc[c] /\ rtail'[c] = rtail[c] /\ rnext'[c] = rnext[c]
      /\ \A q \in Producers \ {p} : pc'[q] = pc[q] /\ rtail'[q] = rtail[q] /\ rnext'[q] = rnext[q]
      /\ pc'[p] = "idle"
  BY <1>1
<1>3. \A n : InList(n)' <=> InList(n)
  BY <1>1, <1>2 DEF InList, Fresh
<1>4. tail' = tail \/ (tail' = next[tail] /\ next[tail] # Null)
  BY <1>1 DEF NewHolds
<1>5. InList(tail') /\ (tail' # tail => next[tail'] = Null /\ tail' # head)
  BY <1>4, TailMoves DEF ListHolds
<1>6. ListHolds'
  BY <1>1, <1>2, <1>3, <1>5 DEF ListHolds
<1>7. NewHolds'
  BY <1>1, <1>2 DEF NewHolds, Fresh
<1>8. TailHolds'
  <2>1. CASE tail = rtail[p]
    BY <1>1, <2>1, TailMoves DEF TailHolds, NewHolds
  <2>2. CASE tail # rtail[p]
    BY <1>1, <1>2, <2>2 DEF TailHolds
  <2>3. QED
    BY <2>1, <2>2
<1>9. ProducerHolds'
  BY <1>1, <1>2, <1>3, <1>4 DEF ProducerHolds, Fresh
<1>10. ConsumerHolds'
  BY <1>1, <1>2, <1>4, <1>5 DEF ConsumerHolds, Busy, Fresh
<1>11. QED
  BY <1>1, <1>6, <1>7, <1>8, <1>9, <1>10

\* Helping happens among producers, before the consumers start.
LEMMA HelpStep ==
  ASSUME TypeOK, HandOverInv, NEW p \in Producers, Help(p)
  PROVE  HandOverInv'
<1> USE QueueAssumption DEF Threads, TypeOK
<1>1. /\ pc[p] = "help" /\ pc' = [pc EXCEPT ![p] = "next"]
      /\ \/ tail = rtail[p] /\ tail' = rnext[p] /\ rtail' = rtail
         \/ tail' = tail /\ rtail' = [rtail EXCEPT ![p] = tail]
      /\ UNCHANGED <<alive, next, head, node, rhead, rnext, made, freed, opened>>
  BY DEF Help, At, Goto
<1> USE DEF HandOverInv
<1>2. ~opened /\ rnext[p] = next[rtail[p]] /\ rnext[p] # Null /\ InList(rtail[p])
  BY <1>1 DEF ProducerHolds, Fresh
<1>3. /\ \A c \in Consumers : pc'[c] = pc[c] /\ pc[c] = "idle"
      /\ \A q \in Producers \ {p} : pc'[q] = pc[q] /\ rtail'[q] = rtail[q]
      /\ pc'[p] = "next"
  BY <1>1, <1>2 DEF ConsumerHolds
<1>4. \A n : InList(n)' <=> InList(n)
  BY <1>1, <1>3 DEF InList, Fresh
<1>5. tail' = tail \/ (tail' = next[tail] /\ next[tail] # Null)
  BY <1>1, <1>2
<1>6. InList(tail') /\ (tail' # tail => next[tail'] = Null)
  BY <1>5, TailMoves DEF ListHolds
<1>7. ListHolds'
  BY <1>1, <1>3, <1>4, <1>6 DEF ListHolds
<1>8. NewHolds'
  BY <1>1, <1>3 DEF NewHolds, Fresh
<1>9. TailHolds'
  BY <1>1, <1>3, <1>6 DEF TailHolds
<1>10. ProducerHolds'
  <2>1. InList(rtail'[p]) /\ (next[rtail'[p]] = Null => rtail'[p] = tail')
    BY <1>1, <1>2, <1>6
  <2>2. QED
    BY <1>1, <1>2, <1>3, <1>4, <1>5, <2>1 DEF ProducerHolds, Fresh
<1>11. ConsumerHolds'
  BY <1>1, <1>2, <1>3 DEF ConsumerHolds, Busy
<1>12. QED
  BY <1>1, <1>7, <1>8, <1>9, <1>10, <1>11

LEMMA OpenStep ==
  ASSUME TypeOK, HandOverInv, Open
  PROVE  HandOverInv'
<1> USE QueueAssumption DEF Threads, TypeOK
<1>1. /\ ~opened /\ \A p \in Producers : pc[p] = "idle"
      /\ \A p, q \in Producers : made[p] < MaxItems /\ made[q] < MaxItems => p = q
      /\ UNCHANGED <<alive, next, head, tail, pc, node, rhead, rtail, rnext, made, freed>>
  BY DEF Open
<1> USE DEF HandOverInv
<1>2. \A c \in Consumers : pc[c] = "idle"
  BY <1>1 DEF ConsumerHolds
<1>3. \A n : InList(n)' <=> InList(n)
  BY <1>1 DEF InList, Fresh
<1>4. ListHolds' /\ NewHolds' /\ TailHolds'
  BY <1>1, <1>3 DEF ListHolds, NewHolds, TailHolds, Fresh
<1>5. ProducerHolds'
  BY <1>1 DEF ProducerHolds, Fresh
<1>6. ConsumerHolds'
  BY <1>1, <1>2 DEF ConsumerHolds, Busy
<1>7. QED
  BY <1>1, <1>4, <1>5, <1>6

LEMMA HandOverInit ==
  ASSUME Phased, Init PROVE HandOverInv
<1> USE QueueAssumption DEF Init, Threads
<1>1. \A t \in Threads : pc[t] = "idle"
  OBVIOUS
<1>2. (\A p \in Producers : ~Fresh(p)) /\ (\A c \in Consumers : pc[c] = "idle")
  BY <1>1 DEF Fresh
<1>3. \A n : InList(n) <=> n = head
  BY <1>2 DEF InList
<1>4. ListHolds
  BY <1>2, <1>3 DEF ListHolds
<1>5. NewHolds /\ TailHolds /\ ProducerHolds /\ ConsumerHolds
  BY <1>1, <1>2 DEF NewHolds, TailHolds, ProducerHolds, ConsumerHolds
<1>6. QED
  BY <1>4, <1>5 DEF HandOverInv

LEMMA HandOverStep ==
  ASSUME OneConsumer, TypeOK, HandOverInv, [Next]_vars
  PROVE  HandOverInv'
<1>1. CASE UNCHANGED vars
  BY <1>1 DEF vars, HandOverInv, ListHolds, NewHolds, TailHolds, ProducerHolds, ConsumerHolds,
              InList, Fresh, Busy
<1>2. ASSUME NEW p \in Producers, Produce(p) PROVE HandOverInv'
  BY <1>2, EmplaceStep, RetryStep, LinkStep, SwingStep, HelpStep DEF Produce
<1>3. ASSUME NEW c \in Consumers, Consume(c) PROVE HandOverInv'
  <2>1. ~MoveNull(c)
    BY DEF MoveNull, At, HandOverInv, ConsumerHolds
  <2>2. QED
    BY <1>3, <2>1, LookStep, ReturnEmptyStep, HelpTailStep, PopStep, DeleteStep DEF Consume
<1>4. QED
  BY <1>1, <1>2, <1>3, OpenStep DEF Next

\* dequeue() deletes the node it popped and emplace() links behind a tail it read before:
\* with one consumer, started when at most one producer has values left, neither reaches a
\* deleted node or a null one, however exchanges fail and blocks are allocated again.
THEOREM NoDeletedNode ==
  ASSUME Phased, OneConsumer PROVE Spec => []NoUseAfterFree
<1>1. Init => HandOverInv
  BY HandOverInit
<1>2. HandOverInv /\ TypeOK /\ [Next]_vars => HandOverInv'
  BY HandOverStep
<1>3. TypeInv => TypeOK
  BY DEF TypeInv
<1>4. HandOverInv => NoUseAfterFree
  BY DEF HandOverInv, NoUseAfterFree
<1>5. QED
  BY <1>1, <1>2, <1>3, <1>4, TypesInductive, PTL DEF Spec

-----------------------------------------------------------------------------
\* A set of naturals has a least member, and induction follows.
LEMMA Least ==
  ASSUME NEW T, T \subseteq Nat, T # {}
  PROVE  \E x \in T : \A y \in T : x <= y
<1> DEFINE R == OpToRel(<, Nat)
<1>1. IsWellFoundedOn(R, Nat)
  BY NatLessThanWellFounded, Zenon
<1>2. \A x, y \in Nat : <<y, x>> \in R <=> y < x
  BY Zenon DEF OpToRel
<1> HIDE DEF R
<1>3. PICK x \in T : \A y \in T : ~ (<<y, x>> \in R)
  BY <1>1, WFMin
<1>4. \A y \in T : ~(y < x)
  BY <1>2, <1>3
<1>5. \A y \in T : x \in Nat /\ y \in Nat
  OBVIOUS
<1>6. QED
  BY <1>4, <1>5

LEMMA SetInduction ==
  ASSUME NEW S, 0 \in S, \A n \in Nat : n \in S => n + 1 \in S
  PROVE  Nat \subseteq S
<1> SUFFICES ASSUME Nat \ S # {} PROVE FALSE
  OBVIOUS
<1>1. PICK x \in Nat \ S : \A y \in Nat \ S : x <= y
  BY Least
<1>2. x # 0
  OBVIOUS
<1>3. x - 1 \in Nat /\ ~(x <= x - 1) /\ (x - 1) + 1 = x
  BY <1>2
<1>4. x - 1 \in S
  BY <1>1, <1>3
<1>5. x \in S
  BY <1>3, <1>4
<1>6. QED
  BY <1>5

\* The recursive definition of the nodes behind h gives the rest of any chain that begins
\* with h: by induction, each of its values is that of the chain.
LEMMA BehindIsChain ==
  ASSUME IsFiniteSet(Nodes), NEW h, NEW nx, NEW q \in Seq(Nodes), q # << >>, q[1] = h,
         \A i \in 1 .. Len(q) : nx[q[i]] = IF i = Len(q) THEN Null ELSE q[i + 1],
         \A i, j \in 1 .. Len(q) : q[i] = q[j] => i = j
  PROVE  NodesBehind(h, nx) = [i \in 1 .. Len(q) - 1 |-> q[i + 1]]
<1> DEFINE N == Cardinality(Nodes)
<1>1. N \in Nat
  BY FS_CardinalityType
<1>2. Len(q) \in Nat /\ Len(q) >= 1 /\ \A i \in 1 .. Len(q) : q[i] \in Nodes
  OBVIOUS
<1>3. Len(q) <= N
  <2>1. IsFiniteSet(1 .. Len(q)) /\ Cardinality(1 .. Len(q)) = Len(q)
    BY <1>2, FS_Interval
  <2>2. q \in Injection(1 .. Len(q), Nodes)
    BY <1>2 DEF Injection, IsInjective
  <2>3. QED
    BY <2>1, <2>2, FS_Injection
<1> HIDE DEF N
<1> DEFINE step(f) == [i \in 0 .. N |->
                         IF i = 0 THEN h ELSE IF f[i - 1] = Null THEN Null ELSE nx[f[i - 1]]]
           g == [i \in 0 .. N |-> IF i < Len(q) THEN q[i + 1] ELSE Null]
           at[i \in 0 .. N] == IF i = 0 THEN h ELSE IF at[i - 1] = Null THEN Null ELSE nx[at[i - 1]]
<1>4. g = step(g)
  <2>1. ASSUME NEW i \in 0 .. N PROVE g[i] = step(g)[i]
    <3>1. CASE i = 0
      BY <1>2, <3>1
    <3>2. CASE i # 0 /\ i - 1 < Len(q)
      <4>1. i \in 1 .. Len(q) /\ i - 1 \in 0 .. N /\ (i - 1) + 1 = i
        BY <1>1, <1>2, <3>2
      <4>2. g[i - 1] = q[i] /\ q[i] \in Nodes
        BY <1>2, <3>2, <4>1
      <4>3. g[i - 1] # Null
        BY <4>2, QueueAssumption
      <4>4. step(g)[i] = nx[q[i]]
        BY <3>2, <4>2, <4>3
      <4>5. i = Len(q) \/ i < Len(q)
        BY <4>1
      <4>6. QED
        BY <1>2, <4>1, <4>4, <4>5
    <3>3. CASE i # 0 /\ ~(i - 1 < Len(q))
      <4>1. i - 1 \in 0 .. N /\ ~(i < Len(q))
        BY <1>1, <1>2, <3>3
      <4>2. QED
        BY <3>3, <4>1
    <3>4. QED
      BY <3>1, <3>2, <3>3
  <2>2. QED
    BY <2>1
<1>5. at = step(at)
  <2>1. at = CHOOSE f : f = step(f)
    BY DEF at
  <2> HIDE DEF at, g, step
  <2>2. QED
    BY <1>4, <2>1
<1> DEFINE length == Cardinality({i \in 1 .. N : at[i] # Null})
<1>7. NodesBehind(h, nx) = [i \in 1 .. length |-> at[i]]
  BY DEF NodesBehind, N
<1> HIDE DEF at
<1>6. at = g
  <2> DEFINE S == {n \in Nat : n <= N => at[n] = g[n]}
  <2>1. at[0] = h /\ g[0] = h
    BY <1>1, <1>2, <1>5
  <2>2. ASSUME NEW n \in Nat, n \in S PROVE n + 1 \in S
    <3>1. CASE n + 1 <= N
      <4>1. n <= N /\ n + 1 \in 0 .. N /\ n + 1 # 0 /\ (n + 1) - 1 = n
        BY <1>1, <3>1
      <4>2. at[n] = g[n]
        BY <2>2, <4>1
      <4>3. at[n + 1] = step(at)[n + 1] /\ g[n + 1] = step(g)[n + 1]
        BY <1>4, <1>5
      <4>4. step(at)[n + 1] = step(g)[n + 1]
        BY <4>1, <4>2
      <4>5. QED
        BY <4>3, <4>4
    <3>2. QED
      BY <3>1
  <2>3. 0 \in S
    BY <2>1
  <2> HIDE DEF S, g
  <2>4. Nat \subseteq S
    BY <2>2, <2>3, SetInduction
  <2>5. \A n \in 0 .. N : at[n] = g[n]
    BY <1>1, <2>4 DEF S
  <2>6. QED
    BY <1>4, <1>5, <2>5
<1>8. length = Len(q) - 1
  <2>1. {i \in 1 .. N : at[i] # Null} = 1 .. Len(q) - 1
    <3>1. ASSUME NEW i \in 1 .. N PROVE g[i] # Null <=> i \in 1 .. Len(q) - 1
      <4>1. CASE i < Len(q)
        <5>1. q[i + 1] \in Nodes
          BY <1>2, <4>1
        <5>2. g[i] = q[i + 1]
          BY <1>1, <4>1
        <5>3. QED
          BY <1>2, <4>1, <5>1, <5>2, QueueAssumption
      <4>2. CASE ~(i < Len(q))
        BY <1>1, <1>2, <4>2
      <4>3. QED
        BY <4>1, <4>2
    <3>2. 1 .. Len(q) - 1 \subseteq 1 .. N
      BY <1>1, <1>2, <1>3
    <3> HIDE DEF at, g
    <3>3. QED
      BY <1>6, <3>1, <3>2
  <2>2. Cardinality(1 .. Len(q) - 1) = Len(q) - 1
    BY <1>2, FS_Interval, 1 \in Int, Len(q) - 1 \in Int
  <2>3. QED
    BY <2>1, <2>2
<1>9. \A i \in 1 .. Len(q) - 1 : at[i] = q[i + 1]
  BY <1>1, <1>2, <1>3, <1>6
<1> HIDE DEF length, g
<1>10. QED
  BY <1>7, <1>8, <1>9

-----------------------------------------------------------------------------
\* The contents are the values behind the first node of the chain, in this state and the next.
LEMMA Behind ==
  ASSUME IsFiniteSet(Nodes), NEW h, NEW nx, NEW q \in Seq(Nodes), q # << >>, q[1] = h,
         \A i \in DOMAIN q : nx[q[i]] = IF i = Len(q) THEN Null ELSE q[i + 1],
         \A i, j \in DOMAIN q : q[i] = q[j] => i = j,
         NEW path, path = NodesBehind(h, nx)
  PROVE  /\ path \in Seq(Nodes) /\ Len(path) = Len(q) - 1 /\ DOMAIN path = 1 .. Len(q) - 1
         /\ \A i \in 1 .. Len(q) - 1 : path[i] = q[i + 1]
         /\ <<h>> \o path = q
<1>1. DOMAIN q = 1 .. Len(q) /\ Len(q) \in Nat /\ Len(q) >= 1
  OBVIOUS
<1>2. path = [i \in 1 .. Len(q) - 1 |-> q[i + 1]]
  <2>1. \A i \in 1 .. Len(q) : nx[q[i]] = IF i = Len(q) THEN Null ELSE q[i + 1]
    BY <1>1
  <2>2. \A i, j \in 1 .. Len(q) : q[i] = q[j] => i = j
    BY <1>1
  <2>3. QED
    BY <2>1, <2>2, BehindIsChain
<1>3. path \in Seq(Nodes) /\ Len(path) = Len(q) - 1
  BY <1>1, <1>2
<1>4. h \in Nodes
  BY <1>1
<1>5. <<h>> \o path = q
  BY <1>1, <1>2, <1>3, <1>4
<1>6. QED
  BY <1>2, <1>3, <1>5

LEMMA ContentsOf ==
  ASSUME IsFiniteSet(Nodes), NEW q \in Seq(Nodes), IsChain(q)
  PROVE  /\ Path \in Seq(Nodes) /\ IsChain(<<head>> \o Path)
         /\ Contents = [i \in 1 .. Len(q) - 1 |-> ValueOf(q[i + 1])]
<1>1. /\ Path \in Seq(Nodes) /\ DOMAIN Path = 1 .. Len(q) - 1
      /\ \A i \in 1 .. Len(q) - 1 : Path[i] = q[i + 1]
      /\ <<head>> \o Path = q
  BY Behind DEF IsChain, Path
<1>2. QED
  BY <1>1 DEF Contents

LEMMA ContentsNext ==
  ASSUME IsFiniteSet(Nodes), NEW q \in Seq(Nodes), IsChain(q)'
  PROVE  /\ Path' \in Seq(Nodes) /\ IsChain(<<head>> \o Path)'
         /\ Contents' = [i \in 1 .. Len(q) - 1 |-> ValueOf(q[i + 1])']
<1>1. /\ Path' \in Seq(Nodes) /\ DOMAIN Path' = 1 .. Len(q) - 1
      /\ \A i \in 1 .. Len(q) - 1 : Path'[i] = q[i + 1]
      /\ <<head'>> \o Path' = q
  BY Behind DEF IsChain, Path
<1>2. QED
  BY <1>1 DEF Contents

LEMMA ValueAtRest ==
  /\ \A n : (\A c \in Consumers : ~(pc[c] = "pop" /\ rnext[c] = n)) => ValueOf(n) = data[n]
  /\ \A n : (\A c \in Consumers : ~(pc'[c] = "pop" /\ rnext'[c] = n)) => ValueOf(n)' = data'[n]
  BY DEF ValueOf

LEMMA ValueCarried ==
  ASSUME OneConsumer, NEW c \in Consumers
  PROVE  /\ pc[c] = "pop" => ValueOf(rnext[c]) = out[c]
         /\ pc'[c] = "pop" => ValueOf(rnext[c])' = out'[c]
<1>1. \A d \in Consumers : d = c
  BY DEF OneConsumer
<1>2. ASSUME pc[c] = "pop" PROVE ValueOf(rnext[c]) = out[c]
  <2>1. (CHOOSE d \in Consumers : pc[d] = "pop" /\ rnext[d] = rnext[c]) = c
    BY <1>1, <1>2
  <2>2. QED
    BY <1>2, <2>1 DEF ValueOf
<1>3. ASSUME pc'[c] = "pop" PROVE ValueOf(rnext[c])' = out'[c]
  <2>1. (CHOOSE d \in Consumers : pc'[d] = "pop" /\ rnext'[d] = rnext'[c]) = c
    BY <1>1, <1>3
  <2>2. \E d \in Consumers : pc'[d] = "pop" /\ rnext'[d] = rnext'[c]
    BY <1>3
  <2>3. QED
    BY <2>1, <2>2 DEF ValueOf
<1>4. QED
  BY <1>2, <1>3


\* The chain of a state, with the dummy.
LEMMA TheChain ==
  ASSUME IsFiniteSet(Nodes), TypeOK, DeliveryInv
  PROVE  \E q \in Seq(Nodes) :
           /\ IsChain(q) /\ Len(q) \in Nat /\ Len(q) >= 1
           /\ Contents = [i \in 1 .. Len(q) - 1 |-> ValueOf(q[i + 1])]
<1> DEFINE q == <<head>> \o Path
<1>1. head \in Nodes /\ Path \in Seq(Nodes) /\ IsChain(q)
  BY DEF TypeOK, DeliveryInv
<1>2. q \in Seq(Nodes) /\ Len(q) \in Nat /\ Len(q) >= 1
  BY <1>1
<1> HIDE DEF q
<1>3. QED
  BY <1>1, <1>2, ContentsOf

\* A step that takes no node out of the list, puts none in and moves no value.
LEMMA SameContents ==
  ASSUME IsFiniteSet(Nodes), TypeOK, DeliveryInv, head' = head,
         \A n : InList(n) => InList(n)' /\ next'[n] = next[n] /\ ValueOf(n)' = ValueOf(n)
  PROVE  /\ Contents' = Contents
         /\ Path' \in Seq(Nodes) /\ IsChain(<<head>> \o Path)'
<1>1. PICK q \in Seq(Nodes) :
        /\ IsChain(q) /\ Len(q) \in Nat /\ Len(q) >= 1
        /\ Contents = [i \in 1 .. Len(q) - 1 |-> ValueOf(q[i + 1])]
  BY TheChain
<1>2. IsChain(q)'
  BY <1>1 DEF IsChain
<1>3. \A i \in 1 .. Len(q) - 1 : ValueOf(q[i + 1])' = ValueOf(q[i + 1])
  BY <1>1 DEF IsChain
<1>4. QED
  BY <1>1, <1>2, <1>3, ContentsNext

\* The consumer's exchange of the head does not fail: nobody else swings it.
LEMMA PopSucceeds ==
  ASSUME HandOverInv, ~SpuriousCAS, NEW c \in Consumers
  PROVE  ~PopFails(c)
  BY DEF PopFails, At, HandOverInv, ConsumerHolds

\* The steps that neither link a node nor pop one.
LEMMA ListKept ==
  ASSUME TypeOK, HandOverInv,
         \/ Open
         \/ \E p \in Producers : ReadNext(p) \/ LinkFails(p) \/ Swing(p) \/ Help(p)
         \/ \E c \in Consumers : Looks(c) \/ ReturnEmpty(c) \/ HelpTail(c) \/ Move(c) \/ Delete(c)
  PROVE  head' = head /\ next' = next /\ \A n : InList(n) => InList(n)'
<1> USE QueueAssumption DEF TypeOK, Threads, At, Goto
<1>1. CASE Open
  BY <1>1 DEF Open, InList, Fresh
<1>2. ASSUME NEW p \in Producers, ReadNext(p) \/ LinkFails(p) \/ Swing(p) \/ Help(p)
      PROVE  head' = head /\ next' = next /\ \A n : InList(n) => InList(n)'
  <2>1. head' = head /\ next' = next /\ alive' = alive /\ rhead' = rhead
    BY <1>2 DEF ReadNext, LinkFails, Swing, Help
  <2>2. \A q \in Producers : Fresh(q)' => Fresh(q) /\ node'[q] = node[q]
    <3>1. CASE ReadNext(p)
      BY <3>1 DEF ReadNext, Fresh
    <3>2. CASE LinkFails(p)
      BY <3>2 DEF LinkFails, Fresh
    <3>3. CASE Swing(p)
      BY <3>3 DEF Swing, Fresh
    <3>4. CASE Help(p)
      BY <3>4 DEF Help, Fresh
    <3>5. QED
      BY <1>2, <3>1, <3>2, <3>3, <3>4
  <2>3. \A c \in Consumers : pc'[c] = pc[c]
    BY <1>2 DEF ReadNext, LinkFails, Swing, Help
  <2>4. QED
    BY <2>1, <2>2, <2>3 DEF InList
<1>3. ASSUME NEW c \in Consumers,
             Looks(c) \/ ReturnEmpty(c) \/ HelpTail(c) \/ Move(c) \/ Delete(c)
      PROVE  head' = head /\ next' = next /\ \A n : InList(n) => InList(n)'
  <2>1. /\ head' = head /\ next' = next /\ node' = node
        /\ \A d \in Consumers \ {c} : pc'[d] = pc[d] /\ rhead'[d] = rhead[d]
        /\ \A p \in Producers : pc'[p] = pc[p]
    BY <1>3 DEF Looks, LoadHead, LoadTail, LoadNext, HeadMoved, Decide, PopFails, ReturnEmpty,
                HelpTail, Move, Delete, Return
  <2>2. pc'[c] # "delete"
    BY <1>3 DEF Looks, LoadHead, LoadTail, LoadNext, HeadMoved, Decide, PopFails, ReturnEmpty,
                HelpTail, Move, Delete, Return
  <2>3. alive' = alive \/ (pc[c] = "delete" /\ alive' = alive \ {rhead[c]})
    BY <1>3 DEF Looks, LoadHead, LoadTail, LoadNext, HeadMoved, Decide, PopFails, ReturnEmpty,
                HelpTail, Move, Delete
  <2>4. \A p \in Producers : Fresh(p)' <=> Fresh(p)
    BY <2>1 DEF Fresh
  <2>5. QED
    BY <2>1, <2>2, <2>3, <2>4 DEF InList
<1>4. QED
  BY <1>1, <1>2, <1>3

\* A step moves no value when it leaves the nodes' data alone and nobody begins or ends to carry
\* one.
LEMMA ValueKept ==
  ASSUME OneConsumer,
         \A c \in Consumers : /\ pc'[c] = "pop" <=> pc[c] = "pop"
                              /\ pc[c] = "pop" => rnext'[c] = rnext[c] /\ out'[c] = out[c],
         NEW n, data'[n] = data[n]
  PROVE  ValueOf(n)' = ValueOf(n)
<1>1. CASE \E c \in Consumers : pc[c] = "pop" /\ rnext[c] = n
  <2>1. PICK c \in Consumers : pc[c] = "pop" /\ rnext[c] = n
    BY <1>1
  <2>2. ValueOf(n) = out[c]
    BY <2>1, ValueCarried
  <2>3. ValueOf(n)' = out'[c]
    <3>1. \A d \in Consumers : d = c
      BY DEF OneConsumer
    <3>2. (CHOOSE d \in Consumers : pc'[d] = "pop" /\ rnext'[d] = n) = c
      BY <2>1, <3>1
    <3>3. QED
      BY <2>1, <3>2 DEF ValueOf
  <2>4. QED
    BY <2>1, <2>2, <2>3
<1>2. CASE ~(\E c \in Consumers : pc[c] = "pop" /\ rnext[c] = n)
  BY <1>2, ValueAtRest
<1>3. QED
  BY <1>1, <1>2

\* What the consumer moves out of a node is still the node's value.
LEMMA MoveKeepsValue ==
  ASSUME TypeOK, OneConsumer, HandOverInv, NEW c \in Consumers, Move(c), NEW n
  PROVE  ValueOf(n)' = ValueOf(n)
<1> USE QueueAssumption DEF TypeOK, Threads, At, Goto
<1>1. /\ pc[c] = "move" /\ pc'[c] = "pop" /\ rnext' = rnext /\ rnext[c] \in Nodes
      /\ out'[c] = data[rnext[c]]
      /\ data' \in {data, [data EXCEPT ![rnext[c]] = Empty]}
  BY DEF Move, NodePtr
<1>2. \A d \in Consumers : d = c
  BY DEF OneConsumer
<1>3. ValueOf(n) = data[n]
  BY <1>1, <1>2, ValueAtRest
<1>4. CASE n = rnext[c]
  <2>1. (CHOOSE d \in Consumers : pc'[d] = "pop" /\ rnext'[d] = n) = c
    BY <1>1, <1>2, <1>4
  <2>2. ValueOf(n)' = out'[c]
    BY <1>1, <1>4, <2>1 DEF ValueOf
  <2>3. QED
    BY <1>1, <1>3, <1>4, <2>2
<1>5. CASE n # rnext[c]
  <2>1. data'[n] = data[n]
    <3>1. CASE data' = data
      BY <3>1
    <3>2. CASE data' = [data EXCEPT ![rnext[c]] = Empty]
      BY <1>5, <3>2
    <3>3. QED
      BY <1>1, <3>1, <3>2
  <2>2. ValueOf(n)' = data'[n]
    BY <1>1, <1>2, <1>5, ValueAtRest
  <2>3. QED
    BY <1>3, <2>1, <2>2
<1>6. QED
  BY <1>4, <1>5

-----------------------------------------------------------------------------
\* What a step must show: it is one of the abstract queue, or changes neither the contents nor
\* what was delivered; and the list is a chain again.
Follows ==
  /\ [Abstract!Next]_(Abstract!vars)
  /\ Path' \in Seq(Nodes) /\ IsChain(<<head>> \o Path)'

LEMMA QuietStep ==
  ASSUME TypeOK, DeliveryInv, OneConsumer, ~SpuriousCAS, IsFiniteSet(Nodes),
         \/ Open
         \/ \E p \in Producers : ReadNext(p) \/ LinkFails(p) \/ Swing(p) \/ Help(p)
         \/ \E c \in Consumers : Looks(c) \/ ReturnEmpty(c) \/ HelpTail(c) \/ Move(c) \/ Delete(c)
  PROVE  Follows
<1> USE QueueAssumption DEF TypeOK, Threads, At, Goto
<1>1. HandOverInv /\ ValuesHold
  BY DEF DeliveryInv
<1>2. head' = head /\ next' = next /\ \A n : InList(n) => InList(n)'
  BY <1>1, ListKept
<1>3. got' = got
  <2>1. ASSUME NEW c \in Consumers, ReturnEmpty(c) PROVE got' = got
    BY <1>1, <2>1 DEF ReturnEmpty, ValuesHold
  <2>2. QED
    BY <2>1 DEF Open, ReadNext, LinkFails, Swing, Help, Looks, LoadHead, LoadTail, LoadNext,
                HeadMoved, Decide, PopFails, HelpTail, Move, Delete
<1>4. ASSUME NEW n PROVE ValueOf(n)' = ValueOf(n)
  <2>1. CASE Open \/ \E p \in Producers : ReadNext(p) \/ LinkFails(p) \/ Swing(p) \/ Help(p)
    <3>1. data' = data /\ out' = out
      BY <2>1 DEF Open, ReadNext, LinkFails, Swing, Help
    <3>2. \A c \in Consumers : pc'[c] = pc[c] /\ rnext'[c] = rnext[c]
      BY <2>1 DEF Open, ReadNext, LinkFails, Swing, Help
    <3>3. QED
      BY <3>1, <3>2, ValueKept
  <2>2. ASSUME NEW c \in Consumers, Looks(c) \/ ReturnEmpty(c) \/ HelpTail(c) \/ Delete(c)
        PROVE  ValueOf(n)' = ValueOf(n)
    <3>1. ~PopFails(c)
      BY <1>1, PopSucceeds
    <3>2. data' = data /\ pc[c] # "pop" /\ pc'[c] # "pop"
      BY <2>2, <3>1 DEF Looks, LoadHead, LoadTail, LoadNext, HeadMoved, Decide, ReturnEmpty,
                        HelpTail, Delete, Return
    <3>3. \A d \in Consumers : d = c
      BY DEF OneConsumer
    <3>4. QED
      BY <3>2, <3>3, ValueKept
  <2>3. ASSUME NEW c \in Consumers, Move(c) PROVE ValueOf(n)' = ValueOf(n)
    BY <1>1, <2>3, MoveKeepsValue
  <2>4. QED
    BY <2>1, <2>2, <2>3
<1> HIDE DEF TypeOK
<1>5. Contents' = Contents /\ Path' \in Seq(Nodes) /\ IsChain(<<head>> \o Path)'
  BY <1>2, <1>4, SameContents
<1>6. QED
  BY <1>3, <1>5 DEF Follows, Abstract!vars

LEMMA EmplaceQuiet ==
  ASSUME TypeOK, DeliveryInv, OneConsumer, IsFiniteSet(Nodes), NEW p \in Producers, Emplace(p)
  PROVE  Follows
<1> USE QueueAssumption DEF TypeOK, Threads, At, Goto
<1>1. PICK n \in Nodes \ alive :
        /\ alive' = alive \cup {n} /\ next' = [next EXCEPT ![n] = Null]
        /\ data' = [data EXCEPT ![n] = <<p, made[p] + 1>>] /\ node' = [node EXCEPT ![p] = n]
  BY DEF Emplace
<1>2. /\ head' = head /\ got' = got /\ rhead' = rhead /\ rnext' = rnext /\ out' = out
      /\ pc' = [pc EXCEPT ![p] = "next"] /\ pc[p] = "idle"
  BY DEF Emplace
<1>3. \A c \in Consumers : pc'[c] = pc[c]
  BY <1>2
<1>4. ASSUME NEW m, InList(m) PROVE InList(m)' /\ next'[m] = next[m] /\ ValueOf(m)' = ValueOf(m)
  <2>1. m \in alive /\ m # n
    BY <1>4 DEF InList
  <2>2. next'[m] = next[m] /\ data'[m] = data[m]
    BY <1>1, <2>1
  <2>3. InList(m)'
    BY <1>1, <1>2, <1>3, <1>4, <2>1 DEF InList, Fresh
  <2>4. QED
    BY <1>2, <1>3, <2>2, <2>3, ValueKept
<1> HIDE DEF TypeOK
<1>5. Contents' = Contents /\ Path' \in Seq(Nodes) /\ IsChain(<<head>> \o Path)'
  BY <1>2, <1>4, SameContents
<1>6. QED
  BY <1>2, <1>5 DEF Follows, Abstract!vars

LEMMA LastAppended ==
  ASSUME NEW n \in Nat, n >= 1, NEW S, NEW t \in [1 .. n -> S]
  PROVE  t = Append([i \in 1 .. n - 1 |-> t[i]], t[n])
<1> DEFINE s == [i \in 1 .. n - 1 |-> t[i]]
<1>1. n - 1 \in Nat /\ \A i \in 1 .. n - 1 : i \in 1 .. n
  OBVIOUS
<1>2. s \in [1 .. n - 1 -> S]
  BY <1>1
<1>3. s \in Seq(S) /\ Len(s) = n - 1
  BY <1>1, <1>2
<1>4. t \in Seq(S) /\ Len(t) = n /\ t[n] \in S
  OBVIOUS
<1>5. \A i \in 1 .. n - 1 : s[i] = t[i]
  OBVIOUS
<1> HIDE DEF s
<1>6. Append(s, t[n]) \in Seq(S) /\ Len(Append(s, t[n])) = n
  BY <1>3, <1>4
<1>7. \A i \in 1 .. n : Append(s, t[n])[i] = t[i]
  BY <1>3, <1>4, <1>5
<1>8. t = Append(s, t[n])
  BY <1>4, <1>6, <1>7
<1>9. QED
  BY <1>8 DEF s

LEMMA LinkPuts ==
  ASSUME TypeOK, DeliveryInv, OneConsumer, IsFiniteSet(Nodes), NEW p \in Producers, Link(p)
  PROVE  Follows
<1> USE QueueAssumption DEF TypeOK, Threads, At, Goto
<1>1. /\ pc[p] = "link" /\ pc' = [pc EXCEPT ![p] = "swing"]
      /\ next[rtail[p]] = Null /\ next' = [next EXCEPT ![rtail[p]] = node[p]]
      /\ UNCHANGED <<alive, data, head, node, rhead, rnext, out, got>>
  BY DEF Link
<1>2. HandOverInv /\ ValuesHold
  BY DEF DeliveryInv
<1>3. /\ rtail[p] = tail /\ tail \in alive /\ InList(tail)
      /\ node[p] \in alive /\ next[node[p]] = Null /\ ~InList(node[p])
      /\ \A m \in alive : next[m] # node[p]
  BY <1>1, <1>2 DEF HandOverInv, ProducerHolds, Fresh, NewHolds, ListHolds, InList
<1>4. /\ \A q \in Producers \ {p} : pc[q] # "idle" => node[q] # node[p]
      /\ \A c \in Consumers : pc[c] = "delete" => rhead[c] # node[p]
  BY <1>1, <1>2 DEF HandOverInv, NewHolds, Fresh, ConsumerHolds
<1>5. /\ next'[tail] = node[p] /\ next'[node[p]] = Null
      /\ \A m : m # tail => next'[m] = next[m]
  BY <1>1, <1>3
<1>6. /\ \A c \in Consumers : pc'[c] = pc[c]
      /\ \A q \in Producers \ {p} : pc'[q] = pc[q]
      /\ pc'[p] = "swing"
  BY <1>1
<1>7. \A m : InList(m)' <=> InList(m) \/ m = node[p]
  BY <1>1, <1>3, <1>4, <1>6 DEF InList, Fresh
<1>8. \A m : ValueOf(m)' = ValueOf(m)
  BY <1>1, <1>6, ValueKept
<1>9. ValueOf(node[p]) \in Items
  <2>1. \A c \in Consumers : pc[c] = "pop" => rnext[c] # node[p]
    BY <1>2, <1>3 DEF HandOverInv, ConsumerHolds, ListHolds, InList
  <2>2. ValueOf(node[p]) = data[node[p]]
    BY <2>1, ValueAtRest
  <2>3. QED
    BY <1>1, <1>2, <2>2 DEF ValuesHold, Fresh
<1>10. PICK q \in Seq(Nodes) :
        /\ IsChain(q) /\ Len(q) \in Nat /\ Len(q) >= 1
        /\ Contents = [i \in 1 .. Len(q) - 1 |-> ValueOf(q[i + 1])]
  BY TheChain
<1>11. PICK r \in Seq(Nodes) :
         /\ Len(r) = Len(q) + 1 /\ r[Len(q) + 1] = node[p]
         /\ \A i \in 1 .. Len(q) : r[i] = q[i]
  <2>1. Append(q, node[p]) \in Seq(Nodes)
    BY <1>3, <1>10
  <2>2. /\ Len(Append(q, node[p])) = Len(q) + 1
        /\ Append(q, node[p])[Len(q) + 1] = node[p]
        /\ \A i \in 1 .. Len(q) : Append(q, node[p])[i] = q[i]
    BY <1>3, <1>10
  <2>3. QED
    BY <2>1, <2>2
<1>12. /\ \A i \in 1 .. Len(q) : InList(q[i]) /\ q[i] # node[p]
       /\ \A i \in 1 .. Len(q) - 1 : next[q[i]] = q[i + 1]
       /\ next[q[Len(q)]] = Null
       /\ \A i, j \in 1 .. Len(q) : q[i] = q[j] => i = j
       /\ q[1] = head
  BY <1>3, <1>10 DEF IsChain
<1>13. q[Len(q)] = tail /\ \A i \in 1 .. Len(q) - 1 : q[i] # tail
  <2>1. q[Len(q)] = tail
    <3>1. Len(q) \in 1 .. Len(q)
      BY <1>10
    <3>2. InList(q[Len(q)]) /\ next[q[Len(q)]] = Null /\ next[tail] = Null
      BY <1>1, <1>3, <1>12, <3>1
    <3>3. \A m, n \in alive : InList(m) /\ InList(n) /\ next[m] = Null /\ next[n] = Null => m = n
      BY <1>2 DEF HandOverInv, ListHolds
    <3>4. q[Len(q)] \in alive
      BY <3>2 DEF InList
    <3>5. QED
      BY <1>3, <3>2, <3>3, <3>4
  <2>2. QED
    BY <1>10, <1>12, <2>1
<1> HIDE DEF TypeOK
<1>14. IsChain(r)'
  <2>1. r # << >> /\ r[1] = head' /\ DOMAIN r = 1 .. Len(q) + 1
    <3>1. DOMAIN r = 1 .. Len(q) + 1 /\ 1 \in 1 .. Len(q) /\ Len(r) # 0
      BY <1>10, <1>11
    <3>2. r[1] = head'
      BY <1>1, <1>11, <1>12, <3>1
    <3>3. QED
      BY <3>1, <3>2
  <2>2. ASSUME NEW i \in 1 .. Len(q) + 1
        PROVE  InList(r[i])' /\ next'[r[i]] = IF i = Len(r) THEN Null ELSE r[i + 1]
    <3>1. CASE i = Len(q) + 1
      BY <1>5, <1>7, <1>11, <3>1
    <3>2. CASE i = Len(q)
      <4>1. i \in 1 .. Len(q) /\ i # Len(r) /\ i + 1 = Len(q) + 1
        BY <1>10, <1>11, <3>2
      <4>2. QED
        BY <1>5, <1>7, <1>11, <1>12, <1>13, <3>2, <4>1
    <3>3. CASE i < Len(q)
      <4>1. i \in 1 .. Len(q) - 1 /\ i \in 1 .. Len(q) /\ i # Len(r) /\ i + 1 \in 1 .. Len(q)
        BY <1>10, <1>11, <3>3
      <4>2. r[i] = q[i] /\ r[i + 1] = q[i + 1] /\ InList(q[i])'
        BY <1>7, <1>11, <1>12, <4>1
      <4>3. next'[q[i]] = next[q[i]] /\ next[q[i]] = q[i + 1]
        BY <1>5, <1>12, <1>13, <4>1
      <4>4. QED
        BY <4>1, <4>2, <4>3
    <3>4. QED
      BY <1>10, <3>1, <3>2, <3>3
  <2>3. ASSUME NEW i \in 1 .. Len(q) + 1, NEW j \in 1 .. Len(q) + 1, r[i] = r[j]
        PROVE  i = j
    <3>1. \A k \in 1 .. Len(q) + 1 : k = Len(q) + 1 \/ k \in 1 .. Len(q)
      BY <1>10
    <3>2. QED
      BY <1>11, <1>12, <2>3, <3>1
  <2>4. QED
    BY <2>1, <2>2, <2>3 DEF IsChain
<1>15. Contents' = [i \in 1 .. Len(q) |-> ValueOf(r[i + 1])'] /\ Path' \in Seq(Nodes)
       /\ IsChain(<<head>> \o Path)'
  <2>1. Len(r) - 1 = Len(q)
    BY <1>10, <1>11
  <2>2. QED
    BY <1>11, <1>14, <2>1, ContentsNext
<1>16. Contents' = Append(Contents, ValueOf(node[p]))
  <2>1. /\ \A i \in 1 .. Len(q) - 1 : r[i + 1] = q[i + 1]
        /\ r[Len(q) + 1] = node[p]
    BY <1>10, <1>11
  <2> DEFINE v(i) == ValueOf(r[i + 1])
             x == ValueOf(node[p])
  <2>2. Contents' = [i \in 1 .. Len(q) |-> v(i)]
    BY <1>8, <1>15
  <2>3. Contents = [i \in 1 .. Len(q) - 1 |-> v(i)] /\ v(Len(q)) = x
    BY <1>10, <2>1
  <2> HIDE DEF v, x
  <2>4. Contents' = Append(Contents, x)
    <3> DEFINE S == {v(i) : i \in 1 .. Len(q)}
    <3>1. Contents' \in [1 .. Len(q) -> S] /\ Contents'[Len(q)] = x
      BY <1>10, <2>2, <2>3
    <3>2. Contents = [i \in 1 .. Len(q) - 1 |-> Contents'[i]]
      BY <1>10, <2>2, <2>3
    <3>3. QED
      BY <1>10, <3>1, <3>2, LastAppended
  <2>5. QED
    BY <1>8, <2>4 DEF x
<1>17. Abstract!Put(ValueOf(node[p]))
  BY <1>1, <1>16 DEF Abstract!Put
<1>18. QED
  BY <1>9, <1>15, <1>17 DEF Follows, Abstract!Next

LEMMA FirstTaken ==
  ASSUME NEW n \in Nat, n >= 1, NEW S, NEW t \in Seq(S), Len(t) = n
  PROVE  t # << >> /\ Head(t) = t[1] /\ Tail(t) = [i \in 1 .. n - 1 |-> t[i + 1]]
<1>1. t # << >>
  OBVIOUS
<1>2. /\ Tail(t) \in Seq(S) /\ Len(Tail(t)) = n - 1 /\ Head(t) = t[1]
      /\ \A i \in 1 .. n - 1 : Tail(t)[i] = t[i + 1]
  BY <1>1, HeadTailProperties
<1>3. Tail(t) \in [1 .. n - 1 -> S]
  BY <1>2, LenProperties, Zenon
<1>4. QED
  BY <1>1, <1>2, <1>3

LEMMA MoreThanOne == \A n \in Nat : n >= 1 /\ n # 1 => n >= 2 /\ 1 \in 1 .. n - 1
  OBVIOUS

LEMMA PopTakes ==
  ASSUME TypeOK, DeliveryInv, OneConsumer, IsFiniteSet(Nodes), NEW c \in Consumers, Pop(c)
  PROVE  Follows
<1> USE QueueAssumption DEF TypeOK, Threads, At, Goto
<1>1. /\ pc[c] = "pop" /\ pc' = [pc EXCEPT ![c] = "delete"]
      /\ head = rhead[c] /\ head' = rnext[c] /\ got' = Append(got, out[c])
      /\ UNCHANGED <<alive, next, data, node, rhead, rnext, out>>
  BY DEF Pop
<1>2. HandOverInv /\ ValuesHold
  BY DEF DeliveryInv
<1>3. rnext[c] = next[head] /\ next[head] # Null
  BY <1>1, <1>2 DEF HandOverInv, ConsumerHolds
<1>4. /\ \A d \in Consumers : d = c /\ pc'[d] = "delete"
      /\ \A p \in Producers : pc'[p] = pc[p]
  BY <1>1 DEF OneConsumer
<1>5. \A m : InList(m)' <=> InList(m) /\ m # head
  BY <1>1, <1>4 DEF InList, Fresh
<1>6. \A m : ValueOf(m)' = data[m]
  BY <1>1, <1>4, ValueAtRest
<1>7. \A m : m # rnext[c] => ValueOf(m) = data[m]
  BY <1>4, ValueAtRest
<1>8. ValueOf(rnext[c]) = out[c]
  BY <1>1, ValueCarried
<1>9. PICK q \in Seq(Nodes) :
        /\ IsChain(q) /\ Len(q) \in Nat /\ Len(q) >= 1
        /\ Contents = [i \in 1 .. Len(q) - 1 |-> ValueOf(q[i + 1])]
  BY TheChain
<1> HIDE DEF TypeOK
<1>10. /\ \A i \in 1 .. Len(q) : InList(q[i])
       /\ \A i \in 1 .. Len(q) - 1 : next[q[i]] = q[i + 1]
       /\ next[q[Len(q)]] = Null
       /\ \A i, j \in 1 .. Len(q) : q[i] = q[j] => i = j
       /\ q[1] = head
  BY <1>9 DEF IsChain
<1>11. Len(q) >= 2 /\ q[2] = rnext[c]
  <2>1. Len(q) # 1
    BY <1>3, <1>10
  <2>2. Len(q) \in Nat /\ Len(q) >= 1
    BY <1>9
  <2>3. Len(q) >= 2 /\ 1 \in 1 .. Len(q) - 1
    BY <2>1, <2>2, MoreThanOne
  <2>4. QED
    BY <1>3, <1>10, <2>3, 1 + 1 = 2
<1>12. PICK r \in Seq(Nodes) :
         /\ Len(r) = Len(q) - 1
         /\ \A i \in 1 .. Len(q) - 1 : r[i] = q[i + 1]
  <2>1. Tail(q) \in Seq(Nodes) /\ Len(Tail(q)) = Len(q) - 1
        /\ \A i \in 1 .. Len(q) - 1 : Tail(q)[i] = q[i + 1]
    BY <1>11
  <2>2. QED
    BY <2>1
<1>13. IsChain(r)'
  <2>1. r # << >> /\ r[1] = head' /\ DOMAIN r = 1 .. Len(q) - 1
    <3>1. DOMAIN r = 1 .. Len(q) - 1 /\ 1 \in 1 .. Len(q) - 1 /\ Len(r) # 0
      BY <1>9, <1>11, <1>12
    <3>2. r[1] = head'
      BY <1>1, <1>11, <1>12, <3>1
    <3>3. QED
      BY <3>1, <3>2
  <2>2. ASSUME NEW i \in 1 .. Len(q) - 1
        PROVE  InList(r[i])' /\ next'[r[i]] = IF i = Len(r) THEN Null ELSE r[i + 1]
    <3>1. i + 1 \in 1 .. Len(q) /\ 1 \in 1 .. Len(q) /\ i + 1 # 1 /\ r[i] = q[i + 1]
      BY <1>9, <1>11, <1>12
    <3>2. InList(r[i])'
      BY <1>5, <1>10, <3>1
    <3>3. CASE i = Len(r)
      BY <1>1, <1>9, <1>10, <1>12, <3>1, <3>2, <3>3
    <3>4. CASE i # Len(r)
      <4>1. i + 1 \in 1 .. Len(q) - 1
        BY <1>9, <1>12, <3>4
      <4>2. QED
        BY <1>1, <1>10, <1>12, <3>1, <3>2, <3>4, <4>1
    <3>5. QED
      BY <3>3, <3>4
  <2>3. ASSUME NEW i \in 1 .. Len(q) - 1, NEW j \in 1 .. Len(q) - 1, r[i] = r[j]
        PROVE  i = j
    <3>1. i + 1 \in 1 .. Len(q) /\ j + 1 \in 1 .. Len(q) /\ q[i + 1] = q[j + 1]
      BY <1>9, <1>12, <2>3
    <3>2. i + 1 = j + 1
      BY <1>10, <3>1
    <3>3. QED
      BY <3>2
  <2>4. QED
    BY <2>1, <2>2, <2>3 DEF IsChain
<1>14. /\ Contents' = [i \in 1 .. Len(q) - 2 |-> ValueOf(r[i + 1])']
       /\ Path' \in Seq(Nodes) /\ IsChain(<<head>> \o Path)'
  <2>1. Len(r) - 1 = Len(q) - 2
    BY <1>9, <1>12
  <2>2. QED
    BY <1>12, <1>13, <2>1, ContentsNext
<1>15. Contents # << >> /\ Head(Contents) = out[c] /\ Contents' = Tail(Contents)
  <2> DEFINE n == Len(q) - 1
             S == {ValueOf(q[i + 1]) : i \in 1 .. n}
  <2>1. n \in Nat /\ n >= 1 /\ n - 1 = Len(q) - 2
    BY <1>9, <1>11
  <2>2. Contents \in [1 .. n -> S] /\ \A i \in 1 .. n : Contents[i] = ValueOf(q[i + 1])
    BY <1>9
  <2>3. /\ Contents # << >> /\ Head(Contents) = Contents[1]
        /\ Tail(Contents) = [i \in 1 .. n - 1 |-> Contents[i + 1]]
    <3> HIDE DEF n, S
    <3>1. Contents \in Seq(S) /\ Len(Contents) = n
      BY <2>1, <2>2
    <3>2. QED
      BY <2>1, <3>1, FirstTaken
  <2>4. Contents[1] = out[c]
    <3>1. 1 \in 1 .. n /\ 1 + 1 = 2
      BY <2>1
    <3>2. QED
      BY <1>8, <1>11, <2>2, <3>1
  <2>5. ASSUME NEW i \in 1 .. n - 1 PROVE ValueOf(r[i + 1])' = Contents[i + 1]
    <3>1. /\ i + 1 \in 1 .. n /\ i + 1 \in 1 .. Len(q) - 1 /\ (i + 1) + 1 \in 1 .. Len(q)
          /\ 2 \in 1 .. Len(q) /\ (i + 1) + 1 # 2
      BY <1>9, <1>11, <2>1
    <3>2. r[i + 1] = q[(i + 1) + 1] /\ q[(i + 1) + 1] # rnext[c]
      BY <1>10, <1>11, <1>12, <3>1
    <3>3. Contents[i + 1] = ValueOf(q[(i + 1) + 1])
      BY <2>2, <3>1
    <3>4. QED
      BY <1>6, <1>7, <3>2, <3>3
  <2>6. QED
    BY <1>14, <2>1, <2>3, <2>4, <2>5
<1>16. Abstract!Take
  BY <1>1, <1>15 DEF Abstract!Take
<1>17. QED
  BY <1>14, <1>16 DEF Follows, Abstract!Next

-----------------------------------------------------------------------------
LEMMA ValuesStep ==
  ASSUME TypeOK, HandOverInv, ValuesHold, OneConsumer, ~SpuriousCAS, Next
  PROVE  ValuesHold'
<1> USE QueueAssumption DEF TypeOK, Threads, At, Goto
<1>1. CASE Open
  BY <1>1 DEF Open, ValuesHold, Fresh
<1>2. ASSUME NEW p \in Producers, Produce(p) PROVE ValuesHold'
  <2>1. /\ out' = out /\ \A c \in Consumers : pc'[c] = pc[c]
    BY <1>2 DEF Produce, Emplace, ReadNext, Link, LinkFails, Swing, Help
  <2>2. ASSUME NEW q \in Producers, Fresh(q)' PROVE data'[node'[q]] \in Items
    <3>1. CASE Emplace(p)
      <4>1. PICK n \in Nodes \ alive : /\ data' = [data EXCEPT ![n] = <<p, made[p] + 1>>]
                                       /\ node' = [node EXCEPT ![p] = n]
        BY <3>1 DEF Emplace
      <4>2. CASE q = p
        <5>1. <<p, made[p] + 1>> \in Items
          BY <3>1 DEF Emplace, Items
        <5>2. QED
          BY <4>1, <4>2, <5>1
      <4>3. CASE q # p
        <5>1. Fresh(q) /\ node'[q] = node[q]
          BY <2>2, <3>1, <4>1, <4>3 DEF Fresh, Emplace
        <5>2. node[q] \in alive /\ data[node[q]] \in Items
          BY <5>1 DEF HandOverInv, NewHolds, ValuesHold
        <5>3. QED
          BY <4>1, <5>1, <5>2
      <4>4. QED
        BY <4>2, <4>3
    <3>2. CASE Links(p)
      <4>1. data' = data
        BY <3>2 DEF Links, ReadNext, Link, LinkFails, Swing, Help
      <4>2. Fresh(q) /\ node'[q] = node[q]
        <5>1. CASE ReadNext(p)
          BY <2>2, <5>1 DEF ReadNext, Fresh
        <5>2. CASE Link(p) \/ LinkFails(p)
          BY <2>2, <5>2 DEF Link, LinkFails, Fresh
        <5>3. CASE Swing(p)
          BY <2>2, <5>3 DEF Swing, Fresh
        <5>4. CASE Help(p)
          BY <2>2, <5>4 DEF Help, Fresh
        <5>5. QED
          BY <3>2, <5>1, <5>2, <5>3, <5>4 DEF Links
      <4>3. QED
        BY <4>1, <4>2 DEF ValuesHold
    <3>3. QED
      BY <1>2, <3>1, <3>2 DEF Produce, Links
  <2>3. QED
    BY <2>1, <2>2 DEF ValuesHold
<1>3. ASSUME NEW c \in Consumers, Consume(c) PROVE ValuesHold'
  <2>1. \A d \in Consumers : d = c
    BY DEF OneConsumer
  <2>2. ~PopFails(c)
    BY PopSucceeds
  <2>3. /\ node' = node /\ \A p \in Producers : pc'[p] = pc[p]
        /\ \/ data' = data
           \/ Move(c) /\ data' = [data EXCEPT ![rnext[c]] = IF Copies THEN @ ELSE Empty]
    BY <1>3 DEF Consume, LoadHead, LoadTail, LoadNext, HeadMoved, ReturnEmpty, Decide, HelpTail,
                Move, MoveNull, Pop, PopFails, Delete, Return
  <2>4. pc'[c] \notin {"pop", "delete"} => out'[c] = None
    BY <1>3, <2>2 DEF Consume, LoadHead, LoadTail, LoadNext, HeadMoved, ReturnEmpty, Decide,
                HelpTail, Move, MoveNull, Pop, Delete, Return, ValuesHold
  <2>5. ASSUME NEW p \in Producers, Fresh(p)' PROVE data'[node'[p]] \in Items
    <3>1. Fresh(p) /\ data[node[p]] \in Items /\ node'[p] = node[p]
      BY <2>3, <2>5 DEF Fresh, ValuesHold
    <3>2. Move(c) => rnext[c] # node[p]
      <4>1. ASSUME Move(c) PROVE rnext[c] = next[head] /\ head \in alive
        BY <4>1 DEF Move, HandOverInv, ConsumerHolds, ListHolds, InList
      <4>2. \A m \in alive : next[m] # node[p]
        BY <3>1 DEF HandOverInv, NewHolds
      <4>3. QED
        BY <4>1, <4>2
    <3>3. node[p] \in Nodes
      BY <3>1 DEF HandOverInv, NewHolds
    <3>4. QED
      BY <2>3, <3>1, <3>2, <3>3
  <2>6. QED
    BY <2>1, <2>4, <2>5 DEF ValuesHold
<1>4. QED
  BY <1>1, <1>2, <1>3 DEF Next

LEMMA DeliveryInit ==
  ASSUME Phased, IsFiniteSet(Nodes), Init
  PROVE  DeliveryInv /\ Abstract!Init
<1> USE QueueAssumption
<1>1. HandOverInv
  BY HandOverInit
<1>2. head \in Nodes /\ \A n \in Nodes : next[n] = Null
  BY DEF Init
<1>3. <<head>> \in Seq(Nodes) /\ Len(<<head>>) = 1 /\ IsChain(<<head>>)
  BY <1>1, <1>2 DEF IsChain, HandOverInv, ListHolds
<1>4. /\ Path \in Seq(Nodes) /\ IsChain(<<head>> \o Path)
      /\ Contents = [i \in 1 .. Len(<<head>>) - 1 |-> ValueOf(<<head>>[i + 1])]
  BY <1>3, ContentsOf
<1>5. Contents = << >>
  BY <1>3, <1>4
<1>6. ValuesHold
  BY DEF Init, ValuesHold, Fresh, Threads
<1>7. QED
  BY <1>1, <1>4, <1>5, <1>6 DEF DeliveryInv, Abstract!Init, Init

LEMMA DeliveryStep ==
  ASSUME OneConsumer, ~SpuriousCAS, IsFiniteSet(Nodes), TypeOK, DeliveryInv, [Next]_vars
  PROVE  DeliveryInv' /\ [Abstract!Next]_(Abstract!vars)
<1>1. HandOverInv'
  BY HandOverStep DEF DeliveryInv
<1>2. CASE UNCHANGED vars
  <2>1. /\ Path' = Path /\ got' = got /\ Contents' = Contents
        /\ (IsChain(<<head>> \o Path)' <=> IsChain(<<head>> \o Path))
        /\ (ValuesHold' <=> ValuesHold)
    BY <1>2 DEF vars, Path, NodesBehind, Contents, ValueOf, IsChain, InList, Fresh, ValuesHold
  <2>2. QED
    BY <1>1, <2>1 DEF DeliveryInv, Abstract!vars
<1>3. CASE Next
  <2>1. ValuesHold'
    BY <1>3, ValuesStep DEF DeliveryInv
  <2>2. Follows
    <3>1. ASSUME NEW p \in Producers, Produce(p) PROVE Follows
      BY <3>1, QuietStep, EmplaceQuiet, LinkPuts DEF Produce
    <3>2. ASSUME NEW c \in Consumers, Consume(c) PROVE Follows
      <4>1. ~MoveNull(c)
        BY DEF MoveNull, At, DeliveryInv, HandOverInv, ConsumerHolds
      <4>2. QED
        BY <3>2, <4>1, QuietStep, PopTakes DEF Consume, Looks
    <3>3. QED
      BY <1>3, <3>1, <3>2, QuietStep DEF Next
  <2>3. QED
    BY <1>1, <2>1, <2>2 DEF DeliveryInv, Follows
<1>4. QED
  BY <1>2, <1>3

\* emplace() and dequeue() as the wait queues use them, one consumer and an exchange that does
\* not fail spuriously: the linked nodes are an atomic FIFO, the exchange of the last node's
\* next its put and the exchange of the head its take; every other step, the helping of the
\* tail and the move of the value out of its node among them, changes nothing.
THEOREM QueueRefines ==
  ASSUME Phased, OneConsumer, ~SpuriousCAS, IsFiniteSet(Nodes)
  PROVE  Spec => ImplementsQueue
<1>1. Init => DeliveryInv /\ Abstract!Init
  BY DeliveryInit
<1>2. DeliveryInv /\ TypeOK /\ [Next]_vars => DeliveryInv' /\ [Abstract!Next]_(Abstract!vars)
  BY DeliveryStep
<1>3. TypeInv => TypeOK
  BY DEF TypeInv
<1>4. QED
  BY <1>1, <1>2, <1>3, TypesInductive, PTL DEF Spec, ImplementsQueue, Abstract!Spec
=============================================================================
