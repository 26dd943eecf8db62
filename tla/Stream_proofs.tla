---------------------------- MODULE Stream_proofs ----------------------------
(* Theorems about the hub, for any clients, topics and number of events,   *)
(* and about a tab on the event stream, for any number of events,          *)
(* connections, failures and restarts.                                     *)
EXTENDS Stream, TLAPS

-----------------------------------------------------------------------------
(***************************************************************************)
(* The hub.                                                                *)
(***************************************************************************)

(* What taking from the front of a channel leaves in it. *)
LEMMA TailFacts ==
  ASSUME NEW s \in Seq(Nat), s # <<>>
  PROVE  /\ Tail(s) \in Seq(Nat)
         /\ Len(s) \in Nat \ {0}
         /\ Len(Tail(s)) = Len(s) - 1
         /\ Head(s) = s[1]
         /\ s[1] \in Nat
         /\ \A i \in 1..Len(Tail(s)) : i + 1 \in 1..Len(s) /\ Tail(s)[i] = s[i + 1]
  OBVIOUS

LEMMA TailShift ==
  ASSUME NEW s \in Seq(Nat), s # <<>>, NEW i \in 1..Len(s), i # 1
  PROVE  i - 1 \in 1..Len(Tail(s)) /\ Tail(s)[i - 1] = s[i]
<1>1. Len(Tail(s)) = Len(s) - 1 /\ Len(s) \in Nat
  BY TailFacts
<1>2. i - 1 \in 1..Len(Tail(s))
  BY <1>1
<1> QED
  BY <1>2, TailFacts

(* What sending into a channel puts in it. *)
LEMMA AppendFacts ==
  ASSUME NEW s \in Seq(Nat), NEW e \in Nat
  PROVE  /\ Append(s, e) \in Seq(Nat)
         /\ Len(s) \in Nat
         /\ Len(Append(s, e)) = Len(s) + 1
         /\ Append(s, e)[Len(s) + 1] = e
         /\ \A i \in 1..Len(s) : Append(s, e)[i] = s[i]
         /\ s # <<>> => Head(Append(s, e)) = Head(s)
  OBVIOUS

(* The steps of a Publish and of a reader touch one client at a time; this *)
(* names them all once.                                                    *)
LEMMA NextCases ==
  ASSUME [Next]_busVars
  PROVE  \/ \E c \in Clients, ts \in SUBSET Topics : Subscribe(c, ts)
         \/ \E c \in Clients : Unsubscribe(c)
         \/ Close
         \/ \E t \in Topics : PublishStart(t)
         \/ \E c \in Clients : Send(c)
         \/ \E c \in Clients : Overflow(c)
         \/ \E c \in Clients : Drain(c)
         \/ \E c \in Clients : Drained(c)
         \/ \E c \in Clients : Receive(c)
         \/ UNCHANGED busVars
  BY DEF Next, Publishing

-----------------------------------------------------------------------------
(* Type correctness. *)
LEMMA TypeInit == Init => TypeOK
<1> SUFFICES ASSUME Init PROVE TypeOK
  OBVIOUS
<1>1. <<>> \in Seq(Nat) /\ Len(<<>>) = 0
  OBVIOUS
<1>2. ch \in [Clients -> Seq(Nat)] /\ \A c \in Clients : Len(ch[c]) <= BufSize
  BY <1>1, BusAssumption DEF Init
<1>3. closed \in [Clients -> BOOLEAN] /\ lastWasResync \in [Clients -> BOOLEAN]
  BY DEF Init
<1> QED
  BY <1>2, <1>3 DEF Init, TypeOK

LEMMA TypeStep == TypeOK /\ [Next]_busVars => TypeOK'
<1> SUFFICES ASSUME TypeOK, [Next]_busVars PROVE TypeOK'
  OBVIOUS
<1> USE BusAssumption
<1>1. ASSUME NEW c \in Clients, NEW ts \in SUBSET Topics, Subscribe(c, ts)
      PROVE  TypeOK'
  BY <1>1 DEF TypeOK, Subscribe, MutexFree
<1>2. ASSUME NEW c \in Clients, Unsubscribe(c) PROVE TypeOK'
  BY <1>2 DEF TypeOK, Unsubscribe, MutexFree
<1>3. CASE Close
  BY <1>3 DEF TypeOK, Close, MutexFree
<1>4. ASSUME NEW t \in Topics, PublishStart(t) PROVE TypeOK'
  BY <1>4 DEF TypeOK, PublishStart, MutexFree, hubVars
<1>5. ASSUME NEW c \in Clients, Send(c) PROVE TypeOK'
  <2>1. ch[c] \in Seq(Nat) /\ lastId \in Nat
    BY DEF TypeOK
  <2>2. Append(ch[c], lastId) \in Seq(Nat) /\ Len(Append(ch[c], lastId)) <= BufSize
    BY <1>5, <2>1, AppendFacts DEF Send
  <2>3. draining' \in todo' \cup {NoClient}
    BY <1>5 DEF Send
  <2> QED
    BY <1>5, <2>2, <2>3 DEF TypeOK, Send, hubVars
<1>6. ASSUME NEW c \in Clients, Overflow(c) PROVE TypeOK'
  BY <1>6 DEF TypeOK, Overflow, hubVars
<1>7. ASSUME NEW c \in Clients, Drain(c) PROVE TypeOK'
  <2>1. Tail(ch[c]) \in Seq(Nat) /\ Len(Tail(ch[c])) <= BufSize
    BY <1>7, TailFacts DEF TypeOK, Drain
  <2> QED
    BY <1>7, <2>1 DEF TypeOK, Drain, hubVars
<1>8. ASSUME NEW c \in Clients, Drained(c) PROVE TypeOK'
  <2>1. <<Resync>> \in Seq(Nat) /\ Len(<<Resync>>) <= BufSize
    BY DEF Resync
  <2>2. ch' \in [Clients -> Seq(Nat)] /\ \A k \in Clients : Len(ch'[k]) <= BufSize
    <3>1. CASE lastWasResync[c]
      BY <1>8, <3>1 DEF TypeOK, Drained
    <3>2. CASE ~lastWasResync[c]
      <4>1. ch' = [ch EXCEPT ![c] = <<Resync>>]
        BY <1>8, <3>2 DEF Drained
      <4> QED
        BY <2>1, <4>1 DEF TypeOK
    <3> QED
      BY <3>1, <3>2
  <2>3. lastWasResync' \in [Clients -> BOOLEAN] /\ todo' \subseteq Clients /\ draining' = NoClient
    BY <1>8 DEF TypeOK, Drained
  <2> QED
    BY <1>8, <2>2, <2>3 DEF TypeOK, Drained, hubVars
<1>9. ASSUME NEW c \in Clients, Receive(c) PROVE TypeOK'
  <2>1. /\ Tail(ch[c]) \in Seq(Nat) /\ Len(Tail(ch[c])) <= BufSize
        /\ Head(ch[c]) \in Nat
    BY <1>9, TailFacts DEF TypeOK, Receive
  <2>2. owed' \in [Clients -> SUBSET Nat] /\ lastSeen' \in [Clients -> Nat]
    <3>1. CASE Head(ch[c]) = Resync
      <4>1. owed' = [owed EXCEPT ![c] = {}] /\ lastSeen' = lastSeen
        BY <1>9, <3>1 DEF Receive
      <4> QED
        BY <4>1 DEF TypeOK
    <3>2. CASE Head(ch[c]) # Resync
      <4>1. /\ owed' = [owed EXCEPT ![c] = owed[c] \ {Head(ch[c])}]
            /\ lastSeen' = [lastSeen EXCEPT ![c] = Head(ch[c])]
        BY <1>9, <3>2 DEF Receive
      <4> QED
        BY <2>1, <4>1 DEF TypeOK
    <3> QED
      BY <3>1, <3>2
  <2> QED
    BY <1>9, <2>1, <2>2 DEF TypeOK, Receive, hubVars
<1>10. CASE UNCHANGED busVars
  BY <1>10 DEF TypeOK, busVars
<1> QED
  BY <1>1, <1>2, <1>3, <1>4, <1>5, <1>6, <1>7, <1>8, <1>9, <1>10, NextCases

(* Every variable keeps its type: in particular no channel outgrows its    *)
(* capacity.                                                               *)
THEOREM TypeCorrect == Spec => []TypeOK
  BY TypeInit, TypeStep, PTL DEF Spec

-----------------------------------------------------------------------------
(* Publish works only on clients the map holds and whose channel is open:  *)
(* whatever could close a channel needs the mutex Publish holds.           *)
THEOREM SendsAreSafe == Spec => []NeverSendsOnClosed
<1>1. Init => NeverSendsOnClosed
  BY DEF Init, NeverSendsOnClosed
<1>2. TypeOK /\ NeverSendsOnClosed /\ [Next]_busVars => NeverSendsOnClosed'
  <2> SUFFICES ASSUME TypeOK, NeverSendsOnClosed, [Next]_busVars
               PROVE  NeverSendsOnClosed'
    OBVIOUS
  <2> USE DEF NeverSendsOnClosed
  <2>1. ASSUME NEW c \in Clients, NEW ts \in SUBSET Topics, Subscribe(c, ts)
        PROVE  NeverSendsOnClosed'
    BY <2>1 DEF Subscribe, MutexFree
  <2>2. ASSUME NEW c \in Clients, Unsubscribe(c) PROVE NeverSendsOnClosed'
    BY <2>2 DEF Unsubscribe, MutexFree
  <2>3. CASE Close
    BY <2>3 DEF Close, MutexFree
  <2>4. ASSUME NEW t \in Topics, PublishStart(t) PROVE NeverSendsOnClosed'
    BY <2>4 DEF PublishStart, hubVars
  <2>5. ASSUME NEW c \in Clients, Send(c) PROVE NeverSendsOnClosed'
    BY <2>5 DEF Send, hubVars
  <2>6. ASSUME NEW c \in Clients, Overflow(c) PROVE NeverSendsOnClosed'
    BY <2>6 DEF Overflow, hubVars
  <2>7. ASSUME NEW c \in Clients, Drain(c) PROVE NeverSendsOnClosed'
    BY <2>7 DEF Drain, hubVars
  <2>8. ASSUME NEW c \in Clients, Drained(c) PROVE NeverSendsOnClosed'
    BY <2>8 DEF Drained, hubVars
  <2>9. ASSUME NEW c \in Clients, Receive(c) PROVE NeverSendsOnClosed'
    BY <2>9 DEF Receive, hubVars
  <2>10. CASE UNCHANGED busVars
    BY <2>10 DEF busVars
  <2> QED
    BY <2>1, <2>2, <2>3, <2>4, <2>5, <2>6, <2>7, <2>8, <2>9, <2>10, NextCases
<1> QED
  BY <1>1, <1>2, TypeCorrect, PTL DEF Spec

-----------------------------------------------------------------------------
(* Delivery order.  DeliveredInOrder alone is not inductive: Send keeps it *)
(* only because the event in hand is newer than all a client still being   *)
(* served has seen or has queued, which IdsBounded adds.                   *)
OrderInv == IdsBounded /\ DeliveredInOrder

LEMMA OrderStep ==
  ASSUME TypeOK, OrderInv, [Next]_busVars
  PROVE  OrderInv'
<1> USE DEF OrderInv, IdsBounded, DeliveredInOrder
<1>1. ASSUME NEW c \in Clients, NEW ts \in SUBSET Topics, Subscribe(c, ts)
      PROVE  OrderInv'
  BY <1>1 DEF Subscribe
<1>2. ASSUME NEW c \in Clients, Unsubscribe(c) PROVE OrderInv'
  BY <1>2 DEF Unsubscribe
<1>3. CASE Close
  BY <1>3 DEF Close
<1>4. ASSUME NEW t \in Topics, PublishStart(t) PROVE OrderInv'
  <2>1. /\ lastId' = lastId + 1 /\ ch' = ch /\ lastSeen' = lastSeen
        /\ todo' \subseteq Clients
    BY <1>4 DEF PublishStart, TypeOK
  <2>2. \A c \in Clients :
          /\ lastSeen[c] \in Nat /\ Len(ch[c]) \in Nat
          /\ \A i \in 1..Len(ch[c]) : ch[c][i] \in Nat
    BY DEF TypeOK
  <2>3. lastId \in Nat
    BY DEF TypeOK
  <2> QED
    BY <2>1, <2>2, <2>3
<1>5. ASSUME NEW c \in Clients, Send(c) PROVE OrderInv'
  <2>1. /\ c \in todo /\ todo' = todo \ {c}
        /\ ch' = [ch EXCEPT ![c] = Append(ch[c], lastId)]
        /\ lastId' = lastId /\ lastSeen' = lastSeen
    BY <1>5 DEF Send
  <2>2. ch[c] \in Seq(Nat) /\ lastId \in Nat /\ lastSeen[c] \in Nat
    BY DEF TypeOK
  <2>3. /\ ch'[c] = Append(ch[c], lastId)
        /\ \A d \in Clients \ {c} : ch'[d] = ch[d]
    BY <2>1 DEF TypeOK
  <2>4. \A i \in 1..Len(ch'[c]) : i = Len(ch[c]) + 1 \/ i \in 1..Len(ch[c])
    BY <2>2, <2>3, AppendFacts
  <2>5. /\ \A i \in 1..Len(ch'[c]) : ch'[c][i] <= lastId
        /\ \A i, j \in 1..Len(ch'[c]) : i < j => ch'[c][i] < ch'[c][j]
        /\ \A i \in 1..Len(ch'[c]) : ch'[c][i] = Resync \/ lastSeen[c] < ch'[c][i]
    BY <2>1, <2>2, <2>3, <2>4, AppendFacts
  <2> QED
    BY <2>1, <2>3, <2>5
<1>6. ASSUME NEW c \in Clients, Overflow(c) PROVE OrderInv'
  BY <1>6 DEF Overflow
<1>7. ASSUME NEW c \in Clients, Drain(c) PROVE OrderInv'
  <2>1. /\ ch' = [ch EXCEPT ![c] = Tail(ch[c])] /\ ch[c] # <<>>
        /\ lastId' = lastId /\ lastSeen' = lastSeen /\ todo' = todo
    BY <1>7 DEF Drain
  <2>2. ch[c] \in Seq(Nat)
    BY DEF TypeOK
  <2>3. /\ ch'[c] = Tail(ch[c])
        /\ \A d \in Clients \ {c} : ch'[d] = ch[d]
    BY <2>1 DEF TypeOK
  <2>4. \A i \in 1..Len(ch'[c]) : i + 1 \in 1..Len(ch[c]) /\ ch'[c][i] = ch[c][i + 1]
    BY <2>1, <2>2, <2>3, TailFacts
  <2>5. \A i, j \in 1..Len(ch'[c]) : i < j => ch'[c][i] < ch'[c][j]
    BY <2>4
  <2> QED
    BY <2>1, <2>3, <2>4, <2>5
<1>8. ASSUME NEW c \in Clients, Drained(c) PROVE OrderInv'
  <2>1. /\ lastId' = lastId /\ lastSeen' = lastSeen /\ todo' = todo \ {c}
        /\ ch' = ch \/ ch' = [ch EXCEPT ![c] = <<Resync>>]
    BY <1>8 DEF Drained
  <2>2. CASE ch' = ch
    BY <2>1, <2>2
  <2>3. CASE ch' = [ch EXCEPT ![c] = <<Resync>>]
    <3>1. /\ ch'[c] = <<Resync>>
          /\ \A d \in Clients \ {c} : ch'[d] = ch[d]
      BY <2>3 DEF TypeOK
    <3>2. lastId \in Nat
      BY DEF TypeOK
    <3>3. /\ \A i \in 1..Len(ch'[c]) : ch'[c][i] = Resync /\ ch'[c][i] <= lastId
          /\ \A i, j \in 1..Len(ch'[c]) : ~(i < j)
      BY <3>1, <3>2 DEF Resync
    <3> QED
      BY <2>1, <3>1, <3>3
  <2> QED
    BY <2>1, <2>2, <2>3
<1>9. ASSUME NEW c \in Clients, Receive(c) PROVE OrderInv'
  <2>1. /\ ch' = [ch EXCEPT ![c] = Tail(ch[c])] /\ ch[c] # <<>>
        /\ lastId' = lastId /\ todo' = todo
        /\ \/ lastSeen' = lastSeen
           \/ lastSeen' = [lastSeen EXCEPT ![c] = Head(ch[c])]
    BY <1>9 DEF Receive
  <2>2. ch[c] \in Seq(Nat) /\ lastSeen[c] \in Nat /\ lastId \in Nat
    BY DEF TypeOK
  <2>3. /\ ch'[c] = Tail(ch[c])
        /\ \A d \in Clients \ {c} : ch'[d] = ch[d] /\ lastSeen'[d] = lastSeen[d]
        /\ lastSeen'[c] = lastSeen[c] \/ lastSeen'[c] = ch[c][1]
    BY <2>1, <2>2, TailFacts DEF TypeOK
  <2>4. \A i \in 1..Len(ch'[c]) : i + 1 \in 1..Len(ch[c]) /\ ch'[c][i] = ch[c][i + 1]
    <3>1. ch'[c] = Tail(ch[c]) /\ ch[c] # <<>> /\ ch[c] \in Seq(Nat)
      BY <2>1, <2>2, <2>3
    <3> QED
      BY <3>1, TailFacts
  <2>5. 1 \in 1..Len(ch[c]) /\ \A i \in 1..Len(ch[c]) : ch[c][i] \in Nat
    BY <2>1, <2>2, TailFacts
  <2>6. \A i \in 1..Len(ch'[c]) : ch[c][1] < ch'[c][i]
    BY <2>4, <2>5
  <2>7. \A i, j \in 1..Len(ch'[c]) : i < j => ch'[c][i] < ch'[c][j]
    BY <2>4
  <2>8. \A i \in 1..Len(ch'[c]) : ch'[c][i] = Resync \/ lastSeen'[c] < ch'[c][i]
    BY <2>3, <2>4, <2>6
  <2>9. lastSeen'[c] <= lastId /\ (c \in todo => lastSeen'[c] < lastId)
    BY <2>3, <2>5
  <2>10. IdsBounded'
    BY <2>1, <2>3, <2>4, <2>9
  <2>11. DeliveredInOrder'
    BY <2>1, <2>3, <2>7, <2>8
  <2> QED
    BY <2>10, <2>11
<1>10. CASE UNCHANGED busVars
  BY <1>10 DEF busVars
<1> QED
  BY <1>1, <1>2, <1>3, <1>4, <1>5, <1>6, <1>7, <1>8, <1>9, <1>10, NextCases

LEMMA OrderHolds == Spec => []OrderInv
<1>1. Init => OrderInv
  <2> SUFFICES ASSUME Init PROVE OrderInv
    OBVIOUS
  <2>1. Len(<<>>) = 0
    OBVIOUS
  <2>2. \A c \in Clients : Len(ch[c]) = 0 /\ lastSeen[c] = 0
    BY <2>1 DEF Init
  <2>3. lastId = 0 /\ todo = {}
    BY DEF Init
  <2> QED
    BY <2>2, <2>3 DEF OrderInv, IdsBounded, DeliveredInOrder
<1>2. TypeOK /\ OrderInv /\ [Next]_busVars => OrderInv'
  BY OrderStep
<1> QED
  BY <1>1, <1>2, TypeCorrect, PTL DEF Spec

(* Every client sees events in publication order, none twice, and no loss  *)
(* is announced after what follows it.                                     *)
THEOREM InOrder == Spec => []DeliveredInOrder
<1>1. OrderInv => DeliveredInOrder
  BY DEF OrderInv
<1> QED
  BY <1>1, OrderHolds, PTL

-----------------------------------------------------------------------------
(* Losses are announced.  overflowLocked queues a resync unless the last   *)
(* thing it queued was one; that is sound because such a client has room   *)
(* for another event, so it does not overflow -- which takes a channel of  *)
(* two slots or more.                                                      *)
LossInv == FlagBoundsQueue /\ NothingLostSilently

LEMMA LossStep ==
  ASSUME 1 < BufSize, TypeOK, LossInv, [Next]_busVars
  PROVE  LossInv'
<1> USE BusAssumption DEF LossInv, FlagBoundsQueue, NothingLostSilently
<1>1. ASSUME NEW c \in Clients, NEW ts \in SUBSET Topics, Subscribe(c, ts)
      PROVE  LossInv'
  BY <1>1 DEF Subscribe
<1>2. ASSUME NEW c \in Clients, Unsubscribe(c) PROVE LossInv'
  BY <1>2 DEF Unsubscribe
<1>3. CASE Close
  BY <1>3 DEF Close
<1>4. ASSUME NEW t \in Topics, PublishStart(t) PROVE LossInv'
  <2>1. todo = {} /\ draining = NoClient
    BY <1>4 DEF PublishStart, MutexFree, TypeOK
  <2>2. /\ ch' = ch /\ lastWasResync' = lastWasResync /\ draining' = draining
        /\ lastId' = lastId + 1
        /\ \A c \in Clients : \A e \in owed'[c] :
             e \in owed[c] \/ (c \in todo' /\ e = lastId + 1)
    BY <1>4 DEF PublishStart, hubVars
  <2> QED
    BY <2>1, <2>2
<1>5. ASSUME NEW c \in Clients, Send(c) PROVE LossInv'
  <2>1. /\ todo' = todo \ {c} /\ draining = NoClient /\ draining' = draining
        /\ ch' = [ch EXCEPT ![c] = Append(ch[c], lastId)]
        /\ lastWasResync' = [lastWasResync EXCEPT ![c] = FALSE]
        /\ lastId' = lastId /\ owed' = owed
    BY <1>5 DEF Send
  <2>2. ch[c] \in Seq(Nat) /\ lastId \in Nat
    BY DEF TypeOK
  <2>3. /\ ch'[c] = Append(ch[c], lastId) /\ ~lastWasResync'[c]
        /\ \A d \in Clients \ {c} :
             ch'[d] = ch[d] /\ lastWasResync'[d] = lastWasResync[d]
    BY <2>1 DEF TypeOK
  <2>4. \E i \in 1..Len(ch'[c]) : ch'[c][i] = lastId
    BY <2>2, <2>3, AppendFacts
  <2>5. \A e : (\E i \in 1..Len(ch[c]) : ch[c][i] = e)
                 => \E i \in 1..Len(ch'[c]) : ch'[c][i] = e
    BY <2>2, <2>3, AppendFacts
  <2>6. ch[c] # <<>> => ch'[c] # <<>> /\ Head(ch'[c]) = Head(ch[c])
    BY <2>2, <2>3, AppendFacts
  <2>7. \A e \in owed[c] :
          \/ \E i \in 1..Len(ch'[c]) : ch'[c][i] = e
          \/ ch'[c] # <<>> /\ Head(ch'[c]) = Resync
    BY <2>1, <2>4, <2>5, <2>6
  <2> QED
    BY <2>1, <2>3, <2>7
<1>6. ASSUME NEW c \in Clients, Overflow(c) PROVE LossInv'
  <2>1. /\ ch' = ch /\ lastWasResync' = lastWasResync /\ todo' = todo
        /\ lastId' = lastId /\ owed' = owed
        /\ draining = NoClient /\ draining' = c /\ Len(ch[c]) = BufSize
    BY <1>6 DEF Overflow, hubVars
  <2>2. ~lastWasResync[c]
    BY <2>1
  <2> QED
    BY <2>1, <2>2
<1>7. ASSUME NEW c \in Clients, Drain(c) PROVE LossInv'
  <2>1. /\ ch' = [ch EXCEPT ![c] = Tail(ch[c])]
        /\ lastWasResync' = lastWasResync /\ todo' = todo
        /\ lastId' = lastId /\ owed' = owed
        /\ draining = c /\ draining' = c
    BY <1>7 DEF Drain, hubVars
  <2>2. \A d \in Clients \ {c} : ch'[d] = ch[d]
    BY <2>1 DEF TypeOK
  <2> QED
    BY <2>1, <2>2
<1>8. ASSUME NEW c \in Clients, Drained(c) PROVE LossInv'
  <2>1. draining = c /\ ~lastWasResync[c]
    BY <1>8 DEF Drained
  <2>2. /\ ch' = [ch EXCEPT ![c] = <<Resync>>]
        /\ lastWasResync' = [lastWasResync EXCEPT ![c] = TRUE]
        /\ todo' = todo \ {c} /\ draining' = NoClient
        /\ lastId' = lastId /\ owed' = owed
    BY <1>8, <2>1 DEF Drained, hubVars
  <2>3. /\ ch'[c] = <<Resync>>
        /\ \A d \in Clients \ {c} :
             ch'[d] = ch[d] /\ lastWasResync'[d] = lastWasResync[d]
    BY <2>2 DEF TypeOK
  <2>4. ch'[c] # <<>> /\ Head(ch'[c]) = Resync
    BY <2>3
  <2>5. FlagBoundsQueue'
    <3> SUFFICES ASSUME NEW d \in Clients, lastWasResync'[d]
                 PROVE  Len(ch'[d]) <= 1 /\ draining' # d
      OBVIOUS
    <3>1. draining' # d
      BY <2>2
    <3>2. CASE d = c
      <4>1. Len(ch'[c]) <= 1
        BY <2>3
      <4> QED
        BY <4>1, <3>1, <3>2
    <3>3. CASE d # c
      BY <2>3, <3>1, <3>3
    <3> QED
      BY <3>2, <3>3
  <2>6. \A d \in Clients \ {c} : draining # d /\ (d \in todo' <=> d \in todo)
    BY <2>1, <2>2
  <2>7. NothingLostSilently'
    BY <2>2, <2>3, <2>4, <2>6
  <2> QED
    BY <2>5, <2>7
<1>9. ASSUME NEW c \in Clients, Receive(c) PROVE LossInv'
  <2>1. /\ ch' = [ch EXCEPT ![c] = Tail(ch[c])] /\ ch[c] # <<>>
        /\ lastWasResync' = lastWasResync /\ todo' = todo
        /\ draining' = draining /\ lastId' = lastId
    BY <1>9 DEF Receive
  <2>2. ch[c] \in Seq(Nat)
    BY DEF TypeOK
  <2>3. ch'[c] = Tail(ch[c]) /\ \A d \in Clients \ {c} : ch'[d] = ch[d]
    BY <2>1 DEF TypeOK
  <2>4. FlagBoundsQueue'
    BY <2>1, <2>2, <2>3, TailFacts
  <2>5. \A d \in Clients \ {c} : owed'[d] = owed[d]
    BY <1>9 DEF Receive, TypeOK
  <2>6. CASE Head(ch[c]) = Resync
    <3>1. owed'[c] = {}
      BY <1>9, <2>6 DEF Receive, TypeOK
    <3> QED
      BY <2>1, <2>3, <2>4, <2>5, <3>1
  <2>7. CASE Head(ch[c]) # Resync
    <3>1. owed'[c] = owed[c] \ {ch[c][1]}
      BY <1>9, <2>1, <2>2, <2>7, TailFacts DEF Receive, TypeOK
    <3>2. \A i \in 1..Len(ch[c]) :
            i = 1 \/ (i - 1 \in 1..Len(ch'[c]) /\ ch'[c][i - 1] = ch[c][i])
      <4>1. ch'[c] = Tail(ch[c]) /\ ch[c] # <<>>
        BY <2>1, <2>3
      <4> QED
        BY <4>1, <2>2, TailShift
    <3>3. \A e \in owed'[c] : (\E i \in 1..Len(ch[c]) : ch[c][i] = e)
                             => \E i \in 1..Len(ch'[c]) : ch'[c][i] = e
      BY <3>1, <3>2
    <3>4. \A e \in owed'[c] :
             \/ \E i \in 1..Len(ch'[c]) : ch'[c][i] = e
             \/ c \in todo /\ e = lastId
             \/ draining = c
      BY <2>7, <3>1, <3>3
    <3>5. NothingLostSilently'
      BY <2>1, <2>3, <2>5, <3>4
    <3> QED
      BY <2>4, <3>5
  <2> QED
    BY <2>6, <2>7
<1>10. CASE UNCHANGED busVars
  BY <1>10 DEF busVars
<1> QED
  BY <1>1, <1>2, <1>3, <1>4, <1>5, <1>6, <1>7, <1>8, <1>9, <1>10, NextCases

LEMMA LossHolds ==
  ASSUME 1 < BufSize
  PROVE  Spec => []LossInv
<1>1. Init => LossInv
  BY DEF Init, LossInv, FlagBoundsQueue, NothingLostSilently
<1>2. TypeOK /\ LossInv /\ [Next]_busVars => LossInv'
  BY LossStep
<1> QED
  BY <1>1, <1>2, TypeCorrect, PTL DEF Spec

(* With two or more slots per client, no event published for a client is   *)
(* ever lost without a resync that says so.                                *)
THEOREM LossIsAnnounced ==
  ASSUME 1 < BufSize
  PROVE  Spec => []NothingLostSilently
<1>1. LossInv => NothingLostSilently
  BY DEF LossInv
<1> QED
  BY <1>1, LossHolds, PTL

-----------------------------------------------------------------------------
(***************************************************************************)
(* The hub implements Subscription.                                        *)
(***************************************************************************)

(* What the refinement hides: the steps of a Publish after its first, but  *)
(* for the one that gives up a queue.                                      *)
Hidden == UNCHANGED <<lastId, owed, lastSeen, [c \in Clients |-> ResyncComing(c)]>>

LEMMA HiddenByComing ==
  ASSUME UNCHANGED <<lastId, owed, lastSeen>>,
         \A c \in Clients : ResyncComing(c)' <=> ResyncComing(c)
  PROVE  Hidden
<1>1. \A c \in Clients : ResyncComing(c)' = ResyncComing(c)
  BY DEF ResyncComing
<1> QED
  BY <1>1 DEF Hidden

LEMMA OneChanges ==
  ASSUME NEW c \in Clients, NEW more \in BOOLEAN, ResyncComing(c)' <=> more,
         \A d \in Clients \ {c} : (ResyncComing(d)' <=> ResyncComing(d))
  PROVE  [d \in Clients |-> ResyncComing(d)]'
           = [[d \in Clients |-> ResyncComing(d)] EXCEPT ![c] = more]
<1>1. ResyncComing(c)' = more /\ \A d \in Clients \ {c} : ResyncComing(d)' = ResyncComing(d)
  BY DEF ResyncComing
<1> QED
  BY <1>1

(* A send puts an event behind what is queued, and no event is a resync.   *)
LEMMA SendIsHidden ==
  ASSUME TypeOK, OrderInv, NEW c \in Clients, Send(c)
  PROVE  Hidden
<1>1. lastId \in Nat /\ lastId # Resync
  BY DEF TypeOK, OrderInv, IdsBounded, Send, Resync
<1>2. /\ ch' = [ch EXCEPT ![c] = Append(ch[c], lastId)] /\ draining' = draining
      /\ UNCHANGED <<lastId, owed, lastSeen>>
  BY DEF Send
<1>3. ch[c] \in Seq(Nat) /\ ch'[c] = Append(ch[c], lastId)
  BY <1>2 DEF TypeOK
<1>4. /\ ch'[c] # <<>>
      /\ Head(ch'[c]) = IF ch[c] = <<>> THEN lastId ELSE Head(ch[c])
  <2>1. CASE ch[c] = <<>>
    BY <1>1, <1>3, <2>1
  <2>2. CASE ch[c] # <<>>
    BY <1>1, <1>3, <2>2, AppendFacts
  <2> QED
    BY <2>1, <2>2
<1>5. \A d \in Clients \ {c} : ch'[d] = ch[d]
  BY <1>2 DEF TypeOK
<1>6. \A d \in Clients : (ResyncComing(d)' <=> ResyncComing(d))
  BY <1>1, <1>2, <1>4, <1>5 DEF ResyncComing
<1> QED
  BY <1>2, <1>6, HiddenByComing

(* While the queue is drained and until its resync is read, one is coming. *)
LEMMA DrainIsHidden ==
  ASSUME TypeOK, LossInv, NEW c \in Clients, Drain(c) \/ Drained(c)
  PROVE  Hidden
<1>1. draining = c /\ UNCHANGED <<lastId, owed, lastSeen>>
  BY DEF Drain, Drained
<1>2. draining # NoClient /\ ~lastWasResync[c]
  BY <1>1, BusAssumption DEF LossInv, FlagBoundsQueue
<1>3. \A d \in Clients \ {c} : ch'[d] = ch[d] /\ draining # d /\ draining' # d
  BY <1>1, <1>2, BusAssumption DEF Drain, Drained, TypeOK
<1>4. draining' = c \/ ch'[c] = <<Resync>>
  BY <1>1, <1>2 DEF Drain, Drained, TypeOK
<1>5. ResyncComing(c) /\ ResyncComing(c)'
  BY <1>1, <1>4 DEF ResyncComing
<1>6. \A d \in Clients : (ResyncComing(d)' <=> ResyncComing(d))
  BY <1>3, <1>5 DEF ResyncComing
<1> QED
  BY <1>1, <1>6, HiddenByComing

LEMMA OverflowFallsBehind ==
  ASSUME TypeOK, NEW c \in Clients, Overflow(c)
  PROVE  Hidden \/ Subscriptions!FallBehind(c)
<1>1. /\ draining = NoClient /\ draining' = c /\ ch' = ch
      /\ UNCHANGED <<lastId, owed, lastSeen>>
  BY DEF Overflow
<1>2. /\ \A d \in Clients \ {c} : (ResyncComing(d)' <=> ResyncComing(d))
      /\ ResyncComing(c)'
  BY <1>1, BusAssumption DEF ResyncComing
<1>3. CASE ResyncComing(c)
  BY <1>1, <1>2, <1>3, HiddenByComing
<1>4. CASE ~ResyncComing(c)
  BY <1>1, <1>2, <1>4, OneChanges DEF Subscriptions!FallBehind
<1> QED
  BY <1>3, <1>4

(* A client that gets an event gets the oldest it is owed, or a resync is  *)
(* on its way; whether one is, this does not change.                       *)
LEMMA EventIsDelivered ==
  ASSUME TypeOK, OrderInv, LossInv, NEW c \in Clients, Receive(c), Head(ch[c]) # Resync
  PROVE  \E e \in 1..lastId : Subscriptions!Deliver(c, e)
<1> DEFINE e == Head(ch[c])
<1>1. /\ ch[c] \in Seq(Nat) /\ ch[c] # <<>> /\ 1 \in 1..Len(ch[c]) /\ e = ch[c][1]
      /\ e \in Nat /\ lastId \in Nat
  BY TailFacts DEF TypeOK, Receive
<1>2. /\ ch' = [ch EXCEPT ![c] = Tail(ch[c])] /\ UNCHANGED <<lastId, draining>>
      /\ owed' = [owed EXCEPT ![c] = @ \ {e}]
      /\ lastSeen' = [lastSeen EXCEPT ![c] = e]
  BY DEF Receive
<1>3. e \in 1..lastId /\ lastSeen[c] < e
  BY <1>1 DEF OrderInv, IdsBounded, DeliveredInOrder, Resync
<1>4. ~ResyncComing(c) => \A d \in owed[c] : e <= d
  <2> SUFFICES ASSUME ~ResyncComing(c), NEW d \in owed[c] PROVE e <= d
    OBVIOUS
  <2>1. \/ \E i \in 1..Len(ch[c]) : ch[c][i] = d
        \/ c \in todo /\ d = lastId
    BY DEF LossInv, NothingLostSilently, ResyncComing
  <2>2. \A i \in 1..Len(ch[c]) : i = 1 \/ e < ch[c][i]
    BY <1>1 DEF OrderInv, DeliveredInOrder
  <2>3. c \in todo => e < lastId
    BY <1>1 DEF OrderInv, IdsBounded
  <2>4. \A i \in 1..Len(ch[c]) : ch[c][i] \in Nat
    BY <1>1
  <2> QED
    BY <1>1, <2>1, <2>2, <2>3, <2>4
<1>5. ResyncComing(c)' <=> ResyncComing(c)
  <2>1. ch'[c] = Tail(ch[c])
    BY <1>2 DEF TypeOK
  <2>2. ch'[c] # <<>> => Head(ch'[c]) # Resync
    <3> SUFFICES ASSUME ch'[c] # <<>> PROVE Head(ch'[c]) # Resync
      OBVIOUS
    <3>1. ch'[c] \in Seq(Nat) /\ Head(ch'[c]) = ch'[c][1] /\ 1 \in 1..Len(ch'[c])
      BY <1>1, <2>1, TailFacts
    <3>2. 2 \in 1..Len(ch[c]) /\ ch'[c][1] = ch[c][2]
      <4>1. /\ \A i \in 1..Len(Tail(ch[c])) :
                 i + 1 \in 1..Len(ch[c]) /\ Tail(ch[c])[i] = ch[c][i + 1]
            /\ 1 \in 1..Len(Tail(ch[c]))
        BY <1>1, <2>1, <3>1, TailFacts
      <4> QED
        BY <2>1, <4>1
    <3>3. e < ch[c][2] /\ ch[c][2] \in Nat
      BY <1>1, <3>2 DEF OrderInv, DeliveredInOrder
    <3> QED
      BY <1>1, <3>1, <3>2, <3>3 DEF Resync
  <2> QED
    BY <1>2, <2>2 DEF ResyncComing
<1>6. [d \in Clients |-> ResyncComing(d)]' = [d \in Clients |-> ResyncComing(d)]
  <2>1. \A d \in Clients \ {c} : ch'[d] = ch[d]
    BY <1>2 DEF TypeOK
  <2> QED
    BY <1>2, <1>5, <2>1 DEF ResyncComing
<1>7. Subscriptions!Deliver(c, e)
  BY <1>2, <1>3, <1>4, <1>6 DEF Subscriptions!Deliver
<1> QED
  BY <1>3, <1>7

LEMMA ResyncIsRefetch ==
  ASSUME TypeOK, NEW c \in Clients, Receive(c), Head(ch[c]) = Resync
  PROVE  \E more \in BOOLEAN : Subscriptions!Refetch(c, more)
<1>1. /\ ch[c] # <<>> /\ ch' = [ch EXCEPT ![c] = Tail(ch[c])]
      /\ UNCHANGED <<lastId, lastSeen, draining>>
      /\ owed' = [owed EXCEPT ![c] = {}]
  BY DEF Receive
<1>2. ResyncComing(c)
  BY <1>1 DEF ResyncComing
<1>3. \A d \in Clients \ {c} : (ResyncComing(d)' <=> ResyncComing(d))
  BY <1>1 DEF TypeOK, ResyncComing
<1>4. PICK more \in BOOLEAN : more = ResyncComing(c)'
  BY DEF ResyncComing
<1>5. Subscriptions!Refetch(c, more)
  BY <1>1, <1>2, <1>3, <1>4, OneChanges DEF Subscriptions!Refetch
<1> QED
  BY <1>5

LEMMA RefinedStep ==
  ASSUME TypeOK, OrderInv, LossInv, [Next]_busVars
  PROVE  Subscriptions!Next \/ Hidden
<1>1. CASE \/ \E c \in Clients, ts \in SUBSET Topics : Subscribe(c, ts)
           \/ \E c \in Clients : Unsubscribe(c)
           \/ Close
           \/ UNCHANGED busVars
  BY <1>1, HiddenByComing DEF Subscribe, Unsubscribe, Close, busVars, ResyncComing
<1>2. ASSUME NEW t \in Topics, PublishStart(t) PROVE Subscriptions!Next
  <2>1. PICK S \in SUBSET Clients :
          owed' = [c \in Clients |-> IF c \in S THEN owed[c] \cup {lastId + 1} ELSE owed[c]]
    BY <1>2 DEF PublishStart, TypeOK
  <2>2. UNCHANGED <<ch, draining, lastSeen>> /\ lastId' = lastId + 1
    BY <1>2 DEF PublishStart
  <2>3. Subscriptions!Publish(S)
    BY <2>1, <2>2 DEF Subscriptions!Publish, ResyncComing
  <2> QED
    BY <2>3 DEF Subscriptions!Next
<1>3. ASSUME NEW c \in Clients, Receive(c) PROVE Subscriptions!Next
  BY <1>3, EventIsDelivered, ResyncIsRefetch DEF Subscriptions!Next
<1>4. ASSUME NEW c \in Clients, Overflow(c) PROVE Subscriptions!Next \/ Hidden
  BY <1>4, OverflowFallsBehind DEF Subscriptions!Next
<1> QED
  BY <1>1, <1>2, <1>3, <1>4, NextCases, SendIsHidden, DrainIsHidden

(* With two or more slots per client the hub keeps what Subscription       *)
(* promises: events in order and none missing, or a resync in the place of *)
(* what is.                                                                *)
THEOREM BusImplementsSubscription ==
  ASSUME 1 < BufSize
  PROVE  Spec => ImplementsSubscription
<1>1. Init => Subscriptions!Init
  <2> SUFFICES ASSUME Init PROVE Subscriptions!Init
    OBVIOUS
  <2>1. \A c \in Clients : ResyncComing(c) = FALSE
    BY BusAssumption DEF Init, ResyncComing
  <2> QED
    BY <2>1 DEF Init, Subscriptions!Init
<1>2. TypeOK /\ OrderInv /\ LossInv /\ [Next]_busVars
        => [Subscriptions!Next]_Subscriptions!vars
  BY RefinedStep DEF Hidden, Subscriptions!vars
<1> QED
  BY <1>1, <1>2, TypeCorrect, OrderHolds, LossHolds, PTL
  DEF Spec, ImplementsSubscription, Subscriptions!Spec

-----------------------------------------------------------------------------
(***************************************************************************)
(* The stream.                                                             *)
(***************************************************************************)
LEMMA StreamCases ==
  ASSUME [StreamNext]_streamVars
  PROVE  \/ Commit \/ PublishCommitted \/ HubStep \/ Restart
         \/ \E c \in Clients : Connect(c)
         \/ Replay \/ ReplayFails
         \/ \E last \in 1..MaxEvents : ReplayBreaks(last)
         \/ Deliver \/ DeliverLost \/ Break
         \/ \E refetched \in BOOLEAN : Disconnect(refetched)
         \/ UNCHANGED streamVars
  BY DEF StreamNext

-----------------------------------------------------------------------------
(***************************************************************************)
(* The connection.                                                         *)
(***************************************************************************)

(* The hub's one client is that of the open connection, and it wants every *)
(* topic; a client that was never subscribed has nothing.                  *)
ConnInv ==
  /\ ~hubClosed
  /\ phase \in {"away", "subscribed", "live", "broken"}
  /\ phase = "away" => conn = NoClient /\ clients = {}
  /\ phase # "away" => /\ conn \in Clients /\ clients = {conn}
                       /\ ~closed[conn] /\ topics[conn] = {}
  /\ todo \subseteq clients
  /\ \A c \in Clients \ created : ch[c] = <<>> /\ ~closed[c]

(* Whatever the hub is at work on is the open connection's client. *)
LEMMA WorksOnConn ==
  ASSUME TypeOK, ConnInv, NEW c \in Clients, Send(c) \/ Overflow(c) \/ Drain(c) \/ Drained(c)
  PROVE  phase # "away" /\ c = conn /\ c \in todo
<1>1. c \in todo
  BY BusAssumption DEF Send, Overflow, Drain, Drained, TypeOK
<1> QED
  BY <1>1 DEF ConnInv

(* The hub takes its own steps, but for a restart. *)
LEMMA StreamIsBus ==
  ASSUME ConnInv, [StreamNext]_streamVars
  PROVE  [Next]_busVars \/ Restart
<1>1. CASE PublishCommitted \/ HubStep
  BY <1>1 DEF PublishCommitted, HubStep, Next
<1>2. ASSUME NEW c \in Clients, Connect(c) PROVE [Next]_busVars
  BY <1>2 DEF Connect, Next
<1>3. CASE Deliver \/ DeliverLost
  <2>1. conn \in Clients /\ Receive(conn)
    BY <1>3 DEF Deliver, DeliverLost, ConnInv
  <2> QED
    BY <2>1 DEF Next
<1>4. ASSUME NEW refetched \in BOOLEAN, Disconnect(refetched) PROVE [Next]_busVars
  <2>1. conn \in Clients /\ Unsubscribe(conn)
    BY <1>4 DEF Disconnect, ConnInv
  <2> QED
    BY <2>1 DEF Next
<1>5. CASE Commit \/ Replay \/ ReplayFails \/ Break \/ \E last \in 1..MaxEvents : ReplayBreaks(last)
  BY <1>5 DEF Commit, Replay, ReplayFails, Break, ReplayBreaks
<1>6. CASE UNCHANGED streamVars
  BY <1>6 DEF streamVars
<1> QED
  BY <1>1, <1>2, <1>3, <1>4, <1>5, <1>6, StreamCases

(* A new process has a new hub: what was proved of the hub holds of it.    *)
LEMMA RestartedHub ==
  ASSUME TypeOK, OrderInv, lastId <= committed, committed \in Nat, Restart
  PROVE  TypeOK' /\ OrderInv' /\ LossInv'
<1>1. /\ \A c \in Clients : ch'[c] = <<>> /\ owed'[c] = {} /\ Len(<<>>) = 0
      /\ ch' \in [Clients -> Seq(Nat)] /\ owed' \in [Clients -> SUBSET Nat]
      /\ clients' = {} /\ todo' = {} /\ draining' = NoClient /\ lastId' = committed
      /\ UNCHANGED <<created, closed, topics, lastWasResync, hubClosed, lastSeen>>
  <2>1. <<>> \in Seq(Nat) /\ Len(<<>>) = 0
    OBVIOUS
  <2> QED
    BY <2>1 DEF Restart
<1>2. TypeOK'
  BY <1>1, BusAssumption DEF TypeOK
<1>3. \A c \in Clients : lastSeen'[c] <= lastId'
  <2>1. \A c \in Clients : lastSeen[c] \in Nat /\ lastSeen[c] <= lastId
    BY DEF TypeOK, OrderInv, IdsBounded
  <2>2. lastId \in Nat
    BY DEF TypeOK
  <2> QED
    BY <1>1, <2>1, <2>2
<1>4. OrderInv'
  BY <1>1, <1>3 DEF OrderInv, IdsBounded, DeliveredInOrder
<1>5. LossInv'
  BY <1>1, BusAssumption DEF LossInv, FlagBoundsQueue, NothingLostSilently
<1> QED
  BY <1>2, <1>4, <1>5

LEMMA ConnStep ==
  ASSUME TypeOK, ConnInv, [StreamNext]_streamVars
  PROVE  ConnInv'
<1>1. CASE Commit \/ Replay \/ ReplayFails \/ Break \/ \E last \in 1..MaxEvents : ReplayBreaks(last)
  BY <1>1 DEF Commit, Replay, ReplayFails, Break, ReplayBreaks, busVars, tabVars, ConnInv
<1>2. CASE PublishCommitted
  BY <1>2 DEF PublishCommitted, PublishStart, hubVars, tabVars, ConnInv
<1>3. CASE HubStep
  <2>1. PICK c \in Clients : Send(c) \/ Overflow(c) \/ Drain(c) \/ Drained(c)
    BY <1>3 DEF HubStep, Publishing
  <2>2. phase # "away" /\ c = conn
    BY <2>1, WorksOnConn
  <2>3. c \in created /\ todo' \subseteq todo /\ UNCHANGED <<hubVars, phase, conn>>
    BY <1>3, <2>1, <2>2 DEF HubStep, tabVars, Send, Overflow, Drain, Drained, TypeOK, ConnInv
  <2>4. \A d \in Clients : d # c => ch'[d] = ch[d]
    BY <2>1 DEF Send, Overflow, Drain, Drained, TypeOK
  <2> QED
    BY <2>2, <2>3, <2>4 DEF ConnInv, hubVars
<1>4. CASE Restart
  BY <1>4 DEF Restart, ConnInv
<1>5. ASSUME NEW c \in Clients, Connect(c) PROVE ConnInv'
  BY <1>5 DEF Connect, Subscribe, ConnInv, TypeOK
<1>6. CASE Deliver \/ DeliverLost
  <2>1. Receive(conn) /\ phase = "live" /\ conn' = conn /\ phase' \in {"live", "broken"}
    BY <1>6 DEF Deliver, DeliverLost
  <2>2. conn \in created
    BY <2>1 DEF ConnInv, TypeOK
  <2>3. \A d \in Clients : d # conn => ch'[d] = ch[d]
    BY <2>1 DEF Receive, TypeOK
  <2> QED
    BY <2>1, <2>2, <2>3 DEF Receive, hubVars, ConnInv
<1>7. ASSUME NEW refetched \in BOOLEAN, Disconnect(refetched) PROVE ConnInv'
  BY <1>7 DEF Disconnect, Unsubscribe, MutexFree, ConnInv, TypeOK
<1>8. CASE UNCHANGED streamVars
  BY <1>8 DEF streamVars, busVars, tabVars, ConnInv
<1> QED
  BY <1>1, <1>2, <1>3, <1>4, <1>5, <1>6, <1>7, <1>8, StreamCases

(* Every id in a channel is of a row that was published. *)
LEMMA QueuedIsPublished ==
  ASSUME TypeOK, OrderInv, StreamTypeOK, NEW c \in Clients, ch[c] # <<>>
  PROVE  Head(ch[c]) \in 0..lastId /\ Head(ch[c]) \in 0..committed
<1>1. ch[c] \in Seq(Nat) /\ lastId \in Nat /\ lastId <= committed /\ committed \in Nat
  BY DEF TypeOK, StreamTypeOK
<1>2. Head(ch[c]) = ch[c][1] /\ 1 \in 1..Len(ch[c]) /\ ch[c][1] \in Nat
  BY <1>1, TailFacts
<1>3. ch[c][1] <= lastId
  BY <1>2 DEF OrderInv, IdsBounded
<1> QED
  BY <1>1, <1>2, <1>3

LEMMA ReplayEndFacts ==
  ASSUME StreamTypeOK
  PROVE  /\ ReplayEnd \in Nat /\ lastEventID <= ReplayEnd /\ ReplayEnd <= committed
         /\ lastEventID = 0 => ReplayEnd = 0
  BY StreamAssumption DEF StreamTypeOK, ReplayEnd

LEMMA StreamTypeStep ==
  ASSUME TypeOK, OrderInv, ConnInv, StreamTypeOK, [StreamNext]_streamVars
  PROVE  StreamTypeOK'
<1> USE DEF StreamTypeOK
<1>0. committed \in Nat /\ lastId \in Nat /\ lastEventID \in Nat /\ cache \in Nat
  BY DEF TypeOK
<1>1. CASE Commit
  BY <1>0, <1>1 DEF Commit, busVars, tabVars
<1>2. CASE PublishCommitted
  BY <1>0, <1>2 DEF PublishCommitted, PublishStart, tabVars
<1>3. CASE HubStep
  <2>1. lastId' = lastId /\ UNCHANGED <<committed, tabVars>>
    BY <1>3 DEF HubStep, Publishing, Send, Overflow, Drain, Drained
  <2> QED
    BY <2>1 DEF tabVars
<1>4. CASE Restart
  BY <1>0, <1>4 DEF Restart
<1>5. ASSUME NEW c \in Clients, Connect(c) PROVE StreamTypeOK'
  BY <1>5, BusAssumption DEF Connect, Subscribe
<1>6. CASE Replay
  <2>1. /\ ReplayEnd \in 0..committed /\ lastEventID \in Nat
        /\ (lastEventID + 1)..ReplayEnd \subseteq 1..committed
    BY <1>0, ReplayEndFacts
  <2> QED
    BY <1>6, <2>1 DEF Replay, busVars
<1>7. CASE ReplayFails
  BY <1>7 DEF ReplayFails, busVars
<1>8. ASSUME NEW last \in 1..MaxEvents, ReplayBreaks(last) PROVE StreamTypeOK'
  <2>1. last \in 0..committed /\ (lastEventID + 1)..last \subseteq 1..committed
    BY <1>0, <1>8, ReplayEndFacts DEF ReplayBreaks
  <2> QED
    BY <1>8, <2>1 DEF ReplayBreaks, busVars
<1>9. CASE Deliver
  <2>1. conn \in Clients /\ ch[conn] # <<>>
    BY <1>9 DEF Deliver, ConnInv
  <2>2. PICK id \in 0..committed : id = Head(ch[conn])
    BY <2>1, QueuedIsPublished
  <2>3. Frame(id) /\ UNCHANGED <<committed, phase, conn, lastId>>
    BY <1>9, <2>2 DEF Deliver, Receive
  <2>4. CASE id = Resync
    BY <1>0, <2>3, <2>4 DEF Frame
  <2>5. CASE id # Resync
    <3>1. id \in 1..committed
      BY <1>0, <2>5 DEF Resync
    <3>2. cache' \in 0..committed
      BY <1>0, <2>3 DEF Frame
    <3> QED
      BY <2>3, <2>5, <3>1, <3>2 DEF Frame
  <2> QED
    BY <2>4, <2>5
<1>10. CASE DeliverLost
  BY <1>10 DEF DeliverLost, Receive
<1>11. CASE Break
  BY <1>11 DEF Break, busVars
<1>12. ASSUME NEW refetched \in BOOLEAN, Disconnect(refetched) PROVE StreamTypeOK'
  BY <1>0, <1>12 DEF Disconnect, Unsubscribe
<1>13. CASE UNCHANGED streamVars
  BY <1>13 DEF streamVars, busVars, tabVars
<1> QED
  BY <1>1, <1>2, <1>3, <1>4, <1>5, <1>6, <1>7, <1>8, <1>9, <1>10, <1>11, <1>12, <1>13,
     StreamCases

BaseInv == TypeOK /\ OrderInv /\ ConnInv /\ StreamTypeOK

LEMMA BaseInit == StreamInit => BaseInv
<1> SUFFICES ASSUME StreamInit PROVE BaseInv
  OBVIOUS
<1>1. Init /\ TypeOK
  BY TypeInit DEF StreamInit
<1>2. OrderInv
  <2>1. \A c \in Clients : Len(ch[c]) = 0 /\ lastSeen[c] = 0
    BY <1>1 DEF Init
  <2> QED
    BY <1>1, <2>1 DEF Init, OrderInv, IdsBounded, DeliveredInOrder
<1>3. ConnInv
  BY <1>1 DEF StreamInit, Init, ConnInv
<1>4. StreamTypeOK
  BY <1>1 DEF StreamInit, Init, StreamTypeOK
<1> QED
  BY <1>1, <1>2, <1>3, <1>4 DEF BaseInv

LEMMA BaseStep ==
  ASSUME BaseInv, [StreamNext]_streamVars
  PROVE  BaseInv'
<1> USE DEF BaseInv
<1>1. TypeOK' /\ OrderInv'
  <2>1. CASE [Next]_busVars
    BY <2>1, TypeStep, OrderStep
  <2>2. CASE Restart
    BY <2>2, RestartedHub DEF StreamTypeOK
  <2> QED
    BY <2>1, <2>2, StreamIsBus
<1> QED
  BY <1>1, ConnStep, StreamTypeStep

(* The tab's variables keep their types: the browser's Last-Event-ID and   *)
(* all the tab was told of are rows of the audit trail, and the hub never  *)
(* numbers an event beyond it.                                             *)
THEOREM StreamTypeCorrect == StreamSpec => []StreamTypeOK
<1>1. BaseInv => StreamTypeOK
  BY DEF BaseInv
<1>2. BaseInv /\ [StreamNext]_streamVars => BaseInv'
  BY BaseStep
<1> QED
  BY <1>1, <1>2, BaseInit, PTL DEF StreamSpec

-----------------------------------------------------------------------------
(***************************************************************************)
(* What the open connection's channel holds.                               *)
(***************************************************************************)
Queued(e) == \E i \in 1..Len(ch[conn]) : ch[conn][i] = e

(* What follows a queued event is queued, up to the event in hand. *)
Contiguous ==
  phase # "away" =>
    \A d \in Nat : Queued(d) /\ d # Resync =>
      \A e \in d..lastId : Queued(e) \/ (conn \in todo /\ e = lastId)

LEMMA SendQueues ==
  ASSUME TypeOK, conn \in Clients, Send(conn), conn' = conn
  PROVE  \A e : Queued(e)' <=> Queued(e) \/ e = lastId
<1>1. ch[conn] \in Seq(Nat) /\ lastId \in Nat /\ ch'[conn] = Append(ch[conn], lastId)
  BY DEF TypeOK, Send
<1>2. 1..Len(ch'[conn]) = 1..Len(ch[conn]) \cup {Len(ch[conn]) + 1}
  BY <1>1, AppendFacts
<1> QED
  BY <1>1, <1>2, AppendFacts DEF Queued

(* Taking the front of the channel takes the oldest event. *)
LEMMA TailQueues ==
  ASSUME TypeOK, OrderInv, conn \in Clients, ch[conn] # <<>>, conn' = conn,
         ch' = [ch EXCEPT ![conn] = Tail(@)]
  PROVE  /\ Queued(Head(ch[conn]))
         /\ \A e : Queued(e) => e = Head(ch[conn]) \/ (Queued(e)' /\ Head(ch[conn]) < e)
         /\ \A e : Queued(e)' => Queued(e) /\ Head(ch[conn]) < e
<1>1. ch[conn] \in Seq(Nat) /\ ch'[conn] = Tail(ch[conn])
  BY DEF TypeOK
<1>2. /\ Head(ch[conn]) = ch[conn][1] /\ Len(ch[conn]) \in Nat \ {0}
      /\ \A i \in 1..Len(ch'[conn]) : i + 1 \in 1..Len(ch[conn]) /\ ch'[conn][i] = ch[conn][i + 1]
  BY <1>1, TailFacts
<1>3. \A i \in 1..Len(ch[conn]) :
        i # 1 => i - 1 \in 1..Len(ch'[conn]) /\ ch'[conn][i - 1] = ch[conn][i]
  BY <1>1, TailShift
<1>4. ASSUME NEW i \in 1..Len(ch[conn]), i # 1 PROVE ch[conn][1] < ch[conn][i]
  <2>1. 1 \in 1..Len(ch[conn]) /\ 1 < i
    BY <1>2, <1>4
  <2> QED
    BY <2>1 DEF OrderInv, DeliveredInOrder
<1>5. Queued(Head(ch[conn]))
  <2>1. 1 \in 1..Len(ch[conn])
    BY <1>2
  <2> QED
    BY <1>2, <2>1 DEF Queued
<1>6. ASSUME NEW e, Queued(e) PROVE e = Head(ch[conn]) \/ (Queued(e)' /\ Head(ch[conn]) < e)
  <2>1. PICK i \in 1..Len(ch[conn]) : ch[conn][i] = e
    BY <1>6 DEF Queued
  <2>2. CASE i # 1
    BY <1>2, <1>3, <1>4, <2>1, <2>2 DEF Queued
  <2> QED
    BY <1>2, <2>1, <2>2
<1>7. ASSUME NEW e, Queued(e)' PROVE Queued(e) /\ Head(ch[conn]) < e
  <2>1. PICK i \in 1..Len(ch'[conn]) : ch'[conn][i] = e
    BY <1>7 DEF Queued
  <2>2. i + 1 \in 1..Len(ch[conn]) /\ ch[conn][i + 1] = e /\ i + 1 # 1
    BY <1>2, <2>1
  <2> QED
    BY <1>2, <1>4, <2>2 DEF Queued
<1> QED
  BY <1>5, <1>6, <1>7

(* Publish serves the open connection's client. *)
LEMMA PublishServes ==
  ASSUME TypeOK, ConnInv, phase # "away", PublishCommitted
  PROVE  /\ conn \in todo' /\ lastId' = lastId + 1 /\ todo = {} /\ draining = NoClient
         /\ UNCHANGED <<ch, draining, conn, phase>>
<1>1. PICK t \in Topics : PublishStart(t)
  BY DEF PublishCommitted
<1>2. conn \in {c \in clients : ~closed[c] /\ Wants(c, t)}
  BY DEF ConnInv, Wants
<1>3. todo = {} /\ draining = NoClient
  BY <1>1 DEF PublishStart, MutexFree, TypeOK
<1> QED
  BY <1>1, <1>2, <1>3 DEF PublishCommitted, PublishStart, tabVars

LEMMA ContiguousStep ==
  ASSUME BaseInv, Contiguous, [StreamNext]_streamVars
  PROVE  Contiguous'
<1> USE DEF BaseInv
<1>0. lastId \in Nat
  BY DEF TypeOK
<1>1. CASE UNCHANGED <<ch, lastId, todo, conn>> /\ (phase' # "away" => phase # "away")
  BY <1>1 DEF Contiguous, Queued
<1>2. CASE phase' = "away"
  BY <1>2 DEF Contiguous
<1>3. CASE phase # "away" /\ PublishCommitted
  <2>1. /\ conn \in todo' /\ lastId' = lastId + 1 /\ todo = {} /\ UNCHANGED <<ch, conn>>
    BY <1>3, PublishServes
  <2>2. \A d \in Nat : Queued(d) /\ d # Resync => \A e \in d..lastId : Queued(e)
    BY <1>3, <2>1 DEF Contiguous
  <2>3. \A e : Queued(e)' <=> Queued(e)
    BY <2>1 DEF Queued
  <2>4. \A d \in Nat : \A e \in d..lastId' : e \in d..lastId \/ e = lastId'
    BY <1>0, <2>1
  <2> QED
    BY <2>1, <2>2, <2>3, <2>4 DEF Contiguous
<1>4. ASSUME phase # "away", Send(conn), UNCHANGED <<phase, conn>> PROVE Contiguous'
  <2>1. /\ \A e : Queued(e)' <=> Queued(e) \/ e = lastId
        /\ lastId' = lastId
    BY <1>4, SendQueues DEF ConnInv, Send
  <2>2. \A e \in lastId..lastId : e = lastId
    BY <1>0
  <2> QED
    BY <1>4, <2>1, <2>2 DEF Contiguous
<1>5. ASSUME phase # "away", ch[conn] # <<>>, ch' = [ch EXCEPT ![conn] = Tail(@)],
             UNCHANGED <<lastId, todo, conn>>
      PROVE  Contiguous'
  <2>1. /\ \A e : Queued(e) => e = Head(ch[conn]) \/ Queued(e)'
        /\ \A e : Queued(e)' => Queued(e) /\ Head(ch[conn]) < e
    BY <1>5, TailQueues DEF ConnInv
  <2>2. Head(ch[conn]) \in Nat
    BY <1>5, QueuedIsPublished DEF ConnInv
  <2>3. ASSUME NEW d \in Nat, Queued(d)', d # Resync, NEW e \in d..lastId
        PROVE  Queued(e)' \/ (conn \in todo /\ e = lastId)
    <3>1. Queued(d) /\ Head(ch[conn]) < d
      BY <2>1, <2>3
    <3>2. e # Head(ch[conn])
      BY <1>0, <2>2, <3>1
    <3>3. Queued(e) \/ (conn \in todo /\ e = lastId)
      BY <1>5, <2>3, <3>1 DEF Contiguous
    <3> QED
      BY <2>1, <3>2, <3>3
  <2> QED
    BY <1>5, <2>3 DEF Contiguous
<1>6. ASSUME phase # "away", Drained(conn), UNCHANGED conn PROVE Contiguous'
  <2>1. ch'[conn] = <<>> \/ ch'[conn] = <<Resync>>
    BY <1>6 DEF Drained, TypeOK, ConnInv
  <2>2. \A d : Queued(d)' => d = Resync
    BY <1>6, <2>1 DEF Queued
  <2> QED
    BY <2>2 DEF Contiguous
<1>7. CASE HubStep
  <2>1. PICK c \in Clients : Send(c) \/ Overflow(c) \/ Drain(c) \/ Drained(c)
    BY <1>7 DEF HubStep, Publishing
  <2>2. phase # "away" /\ c = conn
    BY <2>1, WorksOnConn
  <2>3. UNCHANGED <<phase, conn>>
    BY <1>7 DEF HubStep, tabVars
  <2>4. CASE Overflow(conn)
    BY <1>1, <2>2, <2>3, <2>4 DEF Overflow
  <2>5. CASE Drain(conn)
    BY <1>5, <2>2, <2>3, <2>5 DEF Drain
  <2> QED
    BY <1>4, <1>6, <2>1, <2>2, <2>3, <2>4, <2>5
<1>8. ASSUME NEW c \in Clients, Connect(c) PROVE Contiguous'
  <2>1. ch'[conn'] = <<>>
    BY <1>8 DEF Connect, Subscribe, ConnInv
  <2>2. \A d : ~Queued(d)'
    BY <2>1 DEF Queued
  <2> QED
    BY <2>2 DEF Contiguous
<1>9. CASE Deliver \/ DeliverLost
  BY <1>5, <1>9 DEF Deliver, DeliverLost, Receive
<1>10. CASE Commit \/ Replay \/ ReplayFails \/ Break \/ \E last \in 1..MaxEvents : ReplayBreaks(last)
  BY <1>1, <1>10 DEF Commit, Replay, ReplayFails, Break, ReplayBreaks, busVars, tabVars
<1>11. CASE Restart \/ \E refetched \in BOOLEAN : Disconnect(refetched)
  BY <1>2, <1>11 DEF Restart, Disconnect
<1>12. CASE PublishCommitted
  BY <1>2, <1>3, <1>12 DEF PublishCommitted, tabVars
<1>13. CASE UNCHANGED streamVars
  BY <1>1, <1>13 DEF streamVars, busVars, tabVars
<1> QED
  BY <1>7, <1>8, <1>9, <1>10, <1>11, <1>12, <1>13, StreamCases

-----------------------------------------------------------------------------
(***************************************************************************)
(* The stream misses nothing but gaps.                                     *)
(***************************************************************************)
InHand(e) ==
  \/ Queued(e)
  \/ ch[conn] # <<>> /\ Head(ch[conn]) = Resync
  \/ conn \in todo /\ e = lastId
  \/ draining = conn

(* The tab knows the rows up to the last id it saw, and while it is live   *)
(* the hub has in hand what else was published.                            *)
TabInv ==
  /\ gap \in BOOLEAN
  /\ firstID = 0 <=> lastEventID = 0
  /\ ~gap /\ firstID > 0 => firstID..lastEventID \subseteq told
  /\ ~gap /\ firstID > 0 /\ phase = "live" => \A e \in firstID..lastId : e \in told \/ InHand(e)

(* A publisher lets nothing out of hand: what it drops becomes a resync.   *)
LEMMA HubKeepsInHand ==
  ASSUME BaseInv, LossInv, phase # "away", HubStep, NEW e, InHand(e)
  PROVE  InHand(e)'
<1> USE DEF BaseInv
<1>1. conn \in Clients /\ ch[conn] \in Seq(Nat) /\ lastId \in Nat
  BY DEF ConnInv, TypeOK
<1>2. UNCHANGED <<phase, conn>>
  BY DEF HubStep, tabVars
<1>3. Send(conn) \/ Overflow(conn) \/ Drain(conn) \/ Drained(conn)
  BY WorksOnConn DEF HubStep, Publishing
<1>4. CASE Send(conn)
  <2>1. Queued(e) \/ e = lastId => Queued(e)'
    BY <1>1, <1>2, <1>4, SendQueues
  <2>2. ch'[conn] = Append(ch[conn], lastId) /\ draining = NoClient
    BY <1>1, <1>4 DEF Send, TypeOK
  <2>3. ch[conn] # <<>> => ch'[conn] # <<>> /\ Head(ch'[conn]) = Head(ch[conn])
    BY <1>1, <2>2, AppendFacts
  <2> QED
    BY <1>1, <1>2, <2>1, <2>2, <2>3, BusAssumption DEF InHand
<1>5. CASE Overflow(conn) \/ Drain(conn)
  BY <1>2, <1>5 DEF Overflow, Drain, InHand
<1>6. CASE Drained(conn)
  <2>1. ~lastWasResync[conn]
    BY <1>1, <1>6 DEF Drained, LossInv, FlagBoundsQueue
  <2>2. ch'[conn] = <<Resync>>
    BY <1>1, <1>6, <2>1 DEF Drained, TypeOK
  <2> QED
    BY <1>2, <2>2 DEF InHand
<1> QED
  BY <1>3, <1>4, <1>5, <1>6

(* An event that reaches the tab in order leaves no row before it untold.  *)
LEMMA DeliverTells ==
  ASSUME BaseInv, Contiguous, TabInv, Deliver
  PROVE  TabInv'
<1> USE DEF BaseInv
<1>1. phase = "live" /\ conn \in Clients /\ ch[conn] # <<>>
  BY DEF Deliver, ConnInv
<1>2. PICK id \in Nat : id = Head(ch[conn]) /\ id <= lastId /\ lastId \in Nat
  <2>1. Head(ch[conn]) \in 0..lastId
    BY <1>1, QueuedIsPublished
  <2>2. lastId \in Nat
    BY DEF TypeOK
  <2> QED
    BY <2>1, <2>2
<1>3. /\ Frame(id)
      /\ gap' = (id # Resync /\ (gap \/ draining = conn))
      /\ ch' = [ch EXCEPT ![conn] = Tail(@)]
      /\ UNCHANGED <<committed, phase, conn, lastId, todo, draining>>
  BY <1>2 DEF Deliver, Receive
<1>4. /\ committed \in Nat /\ lastId <= committed /\ lastEventID \in Nat /\ firstID \in Nat
      /\ lastEventID <= committed /\ firstID <= committed
  BY DEF StreamTypeOK
<1>5. CASE id = Resync
  <2>1. told' = 1..committed /\ lastEventID' = lastEventID /\ firstID' = firstID
    BY <1>3, <1>5 DEF Frame
  <2>2. firstID > 0 => /\ firstID..lastEventID \subseteq 1..committed
                       /\ \A e \in firstID..lastId : e \in 1..committed
    BY <1>2, <1>4
  <2> QED
    BY <1>3, <2>1, <2>2 DEF TabInv
<1>6. CASE id # Resync
  <2>1. /\ told' = told \cup {id} /\ lastEventID' = id
        /\ firstID' = IF firstID = 0 THEN id ELSE firstID
        /\ id > 0
    BY <1>2, <1>3, <1>6 DEF Frame, Resync
  <2>0. /\ firstID' # 0 /\ lastEventID' # 0 /\ gap' \in BOOLEAN
        /\ ~gap' => ~gap /\ draining # conn
    <3>1. gap' \in BOOLEAN /\ (gap' <=> id # Resync /\ (gap \/ draining = conn))
      BY <1>3, Zenon
    <3>2. firstID' # 0 /\ lastEventID' # 0
      BY <1>4, <2>1
    <3> QED
      BY <1>6, <3>1, <3>2
  <2>2. SUFFICES ASSUME ~gap, draining # conn
                 PROVE  /\ firstID'..id \subseteq told'
                        /\ \A e \in firstID'..lastId : e \in told' \/ InHand(e)'
    BY <1>3, <2>0, <2>1 DEF TabInv
  <2>3. /\ Queued(id)
        /\ \A e : Queued(e) => e = id \/ (Queued(e)' /\ id < e)
    BY <1>1, <1>2, <1>3, TailQueues
  <2>4. ~(ch[conn] # <<>> /\ Head(ch[conn]) = Resync)
    BY <1>2, <1>6
  <2>5. \A e : InHand(e) => e = id \/ (InHand(e)' /\ (id < e \/ (conn \in todo /\ e = lastId)))
    BY <1>3, <2>2, <2>3, <2>4 DEF InHand
  <2>6. conn \in todo => id < lastId
    <3>1. \A i \in 1..Len(ch[conn]) : conn \in todo => ch[conn][i] < lastId
      BY <1>1 DEF OrderInv, IdsBounded
    <3> QED
      BY <2>3, <3>1 DEF Queued
  <2>7. \A e : InHand(e) => e = id \/ (InHand(e)' /\ id < e)
    BY <2>5, <2>6
  <2>8. \A e \in id..lastId : InHand(e)
    BY <1>1, <1>2, <1>6, <2>3 DEF Contiguous, InHand
  <2>9. CASE firstID = 0
    <3>1. \A e \in id..id : e = id
      BY <1>2
    <3> QED
      BY <2>1, <2>7, <2>8, <2>9, <3>1
  <2>10. CASE firstID # 0
    <3>1. firstID > 0 /\ firstID' = firstID
      BY <1>4, <2>1, <2>10
    <3>2. \A e \in firstID..lastId : e \in told \/ InHand(e)
      BY <1>1, <2>2, <3>1 DEF TabInv
    <3>3. ASSUME NEW e \in firstID..id PROVE e \in told'
      <4>1. e \in firstID..lastId /\ ~(id < e)
        BY <1>2, <1>4
      <4> QED
        BY <2>1, <2>7, <3>2, <4>1
    <3>4. \A e \in firstID..lastId : e \in told' \/ InHand(e)'
      BY <2>1, <2>7, <3>2
    <3> QED
      BY <3>1, <3>3, <3>4
  <2> QED
    BY <2>9, <2>10
<1> QED
  BY <1>5, <1>6

LEMMA TabStep ==
  ASSUME BaseInv, LossInv, Contiguous, TabInv, [StreamNext]_streamVars
  PROVE  TabInv'
<1> USE DEF BaseInv
<1>0. /\ committed \in Nat /\ lastId \in Nat /\ lastId <= committed
      /\ lastEventID \in Nat /\ firstID \in Nat
  BY DEF StreamTypeOK, TypeOK
<1>1. CASE phase' # "live" /\ UNCHANGED <<lastEventID, told, firstID, gap>>
  BY <1>1 DEF TabInv
<1>2. CASE /\ UNCHANGED <<lastEventID, told, firstID, gap, phase, conn, lastId>>
           /\ UNCHANGED <<ch, todo, draining>>
  BY <1>2 DEF TabInv, InHand, Queued
<1>3. CASE phase = "live" /\ PublishCommitted
  <2>1. /\ conn \in todo' /\ lastId' = lastId + 1 /\ todo = {}
        /\ UNCHANGED <<ch, draining, conn, phase>>
    BY <1>3, PublishServes
  <2>2. \A e : InHand(e) => InHand(e)'
    BY <2>1 DEF InHand, Queued
  <2>3. \A e : e = lastId' => InHand(e)'
    BY <2>1 DEF InHand
  <2>4. \A e \in firstID..lastId' : e \in firstID..lastId \/ e = lastId'
    BY <1>0, <2>1
  <2>5. UNCHANGED <<lastEventID, told, firstID, gap>>
    BY <1>3 DEF PublishCommitted, tabVars
  <2> QED
    BY <1>3, <2>1, <2>2, <2>3, <2>4, <2>5 DEF TabInv, InHand
<1>4. CASE phase = "live" /\ HubStep
  <2>1. \A e : InHand(e) => InHand(e)'
    BY <1>4, HubKeepsInHand
  <2>2. lastId' = lastId /\ UNCHANGED tabVars
    BY <1>4 DEF HubStep, Publishing, Send, Overflow, Drain, Drained
  <2> QED
    BY <1>4, <2>1, <2>2 DEF TabInv, tabVars
<1>5. CASE Replay
  <2>1. /\ told' = told \cup (lastEventID + 1)..ReplayEnd /\ lastEventID' = ReplayEnd
        /\ gap' = (gap \/ (lastEventID > 0 /\ ReplayEnd < committed))
        /\ firstID' = firstID /\ lastId' = lastId
    BY <1>5 DEF Replay, busVars
  <2>2. /\ ReplayEnd \in Nat /\ lastEventID <= ReplayEnd /\ ReplayEnd <= committed
        /\ lastEventID = 0 => ReplayEnd = 0
    BY ReplayEndFacts
  <2>3. firstID' = 0 <=> lastEventID' = 0
    BY <1>0, <2>1, <2>2 DEF TabInv
  <2>4. ASSUME ~gap', firstID > 0
        PROVE  firstID..ReplayEnd \subseteq told' /\ ReplayEnd = committed
    <3>1. lastEventID > 0 /\ firstID..lastEventID \subseteq told
      BY <1>0, <2>1, <2>4 DEF TabInv
    <3>2. \A e \in firstID..ReplayEnd : e \in firstID..lastEventID \/ e \in (lastEventID + 1)..ReplayEnd
      BY <1>0, <2>2
    <3>3. ReplayEnd = committed
      <4>1. ~(lastEventID > 0 /\ ReplayEnd < committed)
        BY <2>1, <2>4, Zenon
      <4> QED
        BY <1>0, <2>2, <3>1, <4>1
    <3> QED
      BY <2>1, <3>1, <3>2, <3>3
  <2>5. ReplayEnd = committed => \A e \in firstID..lastId : e \in firstID..ReplayEnd
    BY <1>0
  <2> QED
    BY <2>1, <2>3, <2>4, <2>5 DEF TabInv
<1>6. CASE ReplayFails
  BY <1>6 DEF ReplayFails, TabInv
<1>7. ASSUME NEW last \in 1..MaxEvents, ReplayBreaks(last) PROVE TabInv'
  <2>1. /\ told' = told \cup (lastEventID + 1)..last /\ lastEventID' = last
        /\ lastEventID > 0 /\ last \in lastEventID..ReplayEnd
        /\ gap' = gap /\ firstID' = firstID /\ phase' = "broken"
    BY <1>7 DEF ReplayBreaks
  <2>2. last \in Nat /\ last # 0 /\ firstID # 0
    BY <1>0, <2>1 DEF TabInv
  <2>3. \A e \in firstID..last : e \in firstID..lastEventID \/ e \in (lastEventID + 1)..last
    BY <1>0, <2>2
  <2> QED
    BY <2>1, <2>2, <2>3 DEF TabInv
<1>8. CASE Deliver
  BY <1>8, DeliverTells
<1>9. CASE DeliverLost \/ Break \/ Restart \/ (\E refetched \in BOOLEAN : Disconnect(refetched))
           \/ \E c \in Clients : Connect(c)
  BY <1>1, <1>9 DEF DeliverLost, Break, Restart, Disconnect, Connect
<1>10. CASE Commit \/ UNCHANGED streamVars
  BY <1>2, <1>10 DEF Commit, streamVars, busVars, tabVars
<1>11. CASE phase # "live" /\ (PublishCommitted \/ HubStep)
  BY <1>1, <1>11 DEF PublishCommitted, HubStep, tabVars
<1> QED
  BY <1>3, <1>4, <1>5, <1>6, <1>7, <1>8, <1>9, <1>10, <1>11, StreamCases

(* However often the connection breaks, the process restarts or the hub    *)
(* gives up a queue: from its first event on, a tab has been told of every *)
(* published row or is going to be, but for the gaps the handler is known  *)
(* to leave.                                                               *)
THEOREM StreamMissesNothing ==
  ASSUME 1 < BufSize
  PROVE  StreamSpec => []StreamMissesNothingButGaps
<1> DEFINE SInv == BaseInv /\ LossInv /\ Contiguous /\ TabInv
<1>1. StreamInit => SInv
  <2> SUFFICES ASSUME StreamInit PROVE SInv
    OBVIOUS
  <2>1. LossInv
    BY DEF StreamInit, Init, LossInv, FlagBoundsQueue, NothingLostSilently
  <2>2. Contiguous /\ TabInv
    <3>1. /\ phase = "away" /\ gap = FALSE /\ ~(firstID > 0)
          /\ firstID = 0 /\ lastEventID = 0
      BY DEF StreamInit
    <3> QED
      BY <3>1 DEF Contiguous, TabInv
  <2> QED
    BY <2>1, <2>2, BaseInit
<1>2. SInv /\ [StreamNext]_streamVars => SInv'
  <2> SUFFICES ASSUME SInv, [StreamNext]_streamVars PROVE SInv'
    OBVIOUS
  <2>1. LossInv'
    <3>1. CASE [Next]_busVars
      BY <3>1, LossStep DEF BaseInv
    <3>2. CASE Restart
      BY <3>2, RestartedHub DEF BaseInv, StreamTypeOK
    <3> QED
      BY <3>1, <3>2, StreamIsBus DEF BaseInv
  <2> QED
    BY <2>1, BaseStep, ContiguousStep, TabStep
<1>3. SInv => StreamMissesNothingButGaps
  <2> SUFFICES ASSUME SInv, ~gap, firstID > 0, NEW e \in firstID..lastId
               PROVE  e \in told \/ WillLearn(e)
    BY DEF StreamMissesNothingButGaps
  <2>1. CASE phase = "live"
    BY <2>1 DEF TabInv, InHand, Queued, WillLearn
  <2>2. CASE phase # "live"
    <3>1. firstID..lastEventID \subseteq told
      BY DEF TabInv
    <3>2. e > lastEventID \/ e \in firstID..lastEventID
      BY DEF BaseInv, StreamTypeOK, TypeOK
    <3> QED
      BY <2>2, <3>1, <3>2 DEF WillLearn
  <2> QED
    BY <2>1, <2>2
<1> QED
  BY <1>1, <1>2, <1>3, PTL DEF StreamSpec
=============================================================================
