-------------------------------- MODULE Bus --------------------------------
(***************************************************************************)
(* The SSE fan-out hub (internal/bus/bus.go): a map of clients, each with  *)
(* a bounded Go channel, under one mutex.  Publish never blocks: a client  *)
(* whose channel is full has it drained and gets one resync event in its   *)
(* place.  A client's reader takes from its channel without the mutex, so  *)
(* it runs between any two channel operations of a Publish: Publish is     *)
(* therefore one step per channel operation, the other methods one step.   *)
(*                                                                         *)
(* A channel element is the event's ID.  Publishers number events upwards  *)
(* from 1 (the ID is incident_events.id); the hub's own resync event is    *)
(* the only one whose ID is left 0.                                        *)
(***************************************************************************)
EXTENDS Naturals, Sequences

CONSTANTS
  Clients,    \* the *Client values Subscribe may return
  Topics,     \* topic names
  BufSize,    \* capacity of a client's channel
  MaxEvents,  \* bound: number of events published
  NoClient    \* not a client

ASSUME BusAssumption ==
  /\ BufSize \in Nat \ {0}
  /\ MaxEvents \in Nat
  /\ NoClient \notin Clients

VARIABLES
  clients,        \* h.clients, the registered clients
  created,        \* the clients Subscribe has returned
  closed,         \* c.closed: the client's channel is closed
  topics,         \* c.topics, the empty set meaning every topic
  ch,             \* c.ch, the channel's contents
  lastWasResync,  \* c.lastWasResync
  hubClosed,      \* h.closed
  lastId,         \* ID of the event last given to Publish
  todo,           \* clients Publish has still to serve; the mutex is held iff any
  draining,       \* the client overflowLocked is working on
  owed,           \* history: events published for c that it has neither received
                  \* nor been told, by a resync, to refetch
  lastSeen        \* history: ID of the last event c received

hubVars  == <<clients, created, closed, topics, hubClosed>>
busVars  == <<clients, created, closed, topics, ch, lastWasResync, hubClosed,
              lastId, todo, draining, owed, lastSeen>>

Resync == 0

Init ==
  /\ clients = {} /\ created = {}
  /\ closed = [c \in Clients |-> FALSE]
  /\ topics = [c \in Clients |-> {}]
  /\ ch = [c \in Clients |-> <<>>]
  /\ lastWasResync = [c \in Clients |-> FALSE]
  /\ hubClosed = FALSE
  /\ lastId = 0
  /\ todo = {} /\ draining = NoClient
  /\ owed = [c \in Clients |-> {}]
  /\ lastSeen = [c \in Clients |-> 0]

MutexFree == todo = {}

(* Whether c receives events on topic t: no topics means all of them. *)
Wants(c, t) == topics[c] = {} \/ t \in topics[c]

(* Mutant of Subscribe: it does not look at h.closed. *)
SubscribeAnyway(c, ts) ==
  /\ MutexFree
  /\ c \notin created
  /\ created' = created \cup {c}
  /\ topics' = [topics EXCEPT ![c] = ts]
  /\ clients' = clients \cup {c}
  /\ UNCHANGED <<closed, ch, lastWasResync, hubClosed, lastId, todo, draining, owed, lastSeen>>

(* Subscribe registers a new client, or returns a closed one after Close. *)
Subscribe(c, ts) ==
  /\ MutexFree
  /\ c \notin created
  /\ created' = created \cup {c}
  /\ topics' = [topics EXCEPT ![c] = ts]
  /\ IF hubClosed
     THEN /\ closed' = [closed EXCEPT ![c] = TRUE]
          /\ UNCHANGED clients
     ELSE /\ clients' = clients \cup {c}
          /\ UNCHANGED closed
  /\ UNCHANGED <<ch, lastWasResync, hubClosed, lastId, todo, draining, owed, lastSeen>>

(* Mutant of Unsubscribe: it does not take the mutex. *)
UnsubscribeUnlocked(c) ==
  /\ c \in clients
  /\ clients' = clients \ {c}
  /\ closed' = [closed EXCEPT ![c] = TRUE]
  /\ UNCHANGED <<created, topics, ch, lastWasResync, hubClosed, lastId, todo,
                 draining, owed, lastSeen>>

(* Unsubscribe; on a client the map no longer holds it changes nothing. *)
Unsubscribe(c) ==
  /\ MutexFree
  /\ c \in clients
  /\ clients' = clients \ {c}
  /\ closed' = [closed EXCEPT ![c] = TRUE]
  /\ UNCHANGED <<created, topics, ch, lastWasResync, hubClosed, lastId, todo,
                 draining, owed, lastSeen>>

(* Close, the first time: every channel is closed, the map emptied. *)
Close ==
  /\ MutexFree
  /\ ~hubClosed
  /\ hubClosed' = TRUE
  /\ closed' = [c \in Clients |-> closed[c] \/ c \in clients]
  /\ clients' = {}
  /\ UNCHANGED <<created, topics, ch, lastWasResync, lastId, todo, draining, owed, lastSeen>>

(***************************************************************************)
(* Publish(ev) on topic t, one step per channel operation.                 *)
(***************************************************************************)

(* Publish takes the mutex and ranges over the open clients that want t. *)
PublishStart(t) ==
  /\ MutexFree
  /\ ~hubClosed
  /\ lastId < MaxEvents
  /\ LET interested == {c \in clients : ~closed[c] /\ Wants(c, t)} IN
     /\ todo' = interested
     /\ owed' = [c \in Clients |->
                   IF c \in interested THEN owed[c] \cup {lastId + 1} ELSE owed[c]]
  /\ lastId' = lastId + 1
  /\ UNCHANGED <<hubVars, ch, lastWasResync, draining, lastSeen>>

(* Mutant of Send: the channel grows instead of overflowing. *)
SendUnbounded(c) ==
  /\ c \in todo
  /\ draining = NoClient
  /\ ch' = [ch EXCEPT ![c] = Append(@, lastId)]
  /\ lastWasResync' = [lastWasResync EXCEPT ![c] = FALSE]
  /\ todo' = todo \ {c}
  /\ UNCHANGED <<hubVars, lastId, draining, owed, lastSeen>>

(* Mutant of Send: lastWasResync is not reset, so the next overflow is     *)
(* taken for a repeated one.                                               *)
SendKeepingFlag(c) ==
  /\ c \in todo
  /\ draining = NoClient
  /\ Len(ch[c]) < BufSize
  /\ ch' = [ch EXCEPT ![c] = Append(@, lastId)]
  /\ todo' = todo \ {c}
  /\ UNCHANGED <<hubVars, lastWasResync, lastId, draining, owed, lastSeen>>

(* The select sends when the channel has room ... *)
Send(c) ==
  /\ c \in todo
  /\ draining = NoClient
  /\ Len(ch[c]) < BufSize
  /\ ch' = [ch EXCEPT ![c] = Append(@, lastId)]
  /\ lastWasResync' = [lastWasResync EXCEPT ![c] = FALSE]
  /\ todo' = todo \ {c}
  /\ UNCHANGED <<hubVars, lastId, draining, owed, lastSeen>>

(* Mutant of Overflow: a plain channel send, with no default branch, waits *)
(* for room.                                                               *)
OverflowBlocks(c) == c \in todo /\ FALSE

(* ... and falls to overflowLocked when it has none. *)
Overflow(c) ==
  /\ c \in todo
  /\ draining = NoClient
  /\ Len(ch[c]) = BufSize
  /\ draining' = c
  /\ UNCHANGED <<hubVars, ch, lastWasResync, lastId, todo, owed, lastSeen>>

(* One turn of overflowLocked's drain loop. *)
Drain(c) ==
  /\ draining = c
  /\ ch[c] # <<>>
  /\ ch' = [ch EXCEPT ![c] = Tail(@)]
  /\ UNCHANGED <<hubVars, lastWasResync, lastId, todo, draining, owed, lastSeen>>

(* Mutant of Drained: the queue is dropped and nothing put in its place. *)
DrainedQuietly(c) ==
  /\ draining = c
  /\ ch[c] = <<>>
  /\ draining' = NoClient
  /\ todo' = todo \ {c}
  /\ UNCHANGED <<hubVars, ch, lastWasResync, lastId, owed, lastSeen>>

(* Mutant of Drained: the resync goes in as soon as there is room, behind  *)
(* what is still queued.                                                   *)
DrainedEarly(c) ==
  /\ draining = c
  /\ Len(ch[c]) < BufSize
  /\ ch' = [ch EXCEPT ![c] = Append(@, Resync)]
  /\ lastWasResync' = [lastWasResync EXCEPT ![c] = TRUE]
  /\ draining' = NoClient
  /\ todo' = todo \ {c}
  /\ UNCHANGED <<hubVars, lastId, owed, lastSeen>>

(* The channel is empty: queue one resync, unless the last one put there   *)
(* was a resync already.                                                   *)
Drained(c) ==
  /\ draining = c
  /\ ch[c] = <<>>
  /\ IF lastWasResync[c]
     THEN UNCHANGED <<ch, lastWasResync>>
     ELSE /\ ch' = [ch EXCEPT ![c] = <<Resync>>]
          /\ lastWasResync' = [lastWasResync EXCEPT ![c] = TRUE]
  /\ draining' = NoClient
  /\ todo' = todo \ {c}
  /\ UNCHANGED <<hubVars, lastId, owed, lastSeen>>

(* The client's reader takes an event, from an open or a closed channel.   *)
(* A resync makes it refetch everything committed so far.                  *)
Receive(c) ==
  /\ ch[c] # <<>>
  /\ ch' = [ch EXCEPT ![c] = Tail(@)]
  /\ IF Head(ch[c]) = Resync
     THEN /\ owed' = [owed EXCEPT ![c] = {}]
          /\ UNCHANGED lastSeen
     ELSE /\ owed' = [owed EXCEPT ![c] = @ \ {Head(ch[c])}]
          /\ lastSeen' = [lastSeen EXCEPT ![c] = Head(ch[c])]
  /\ UNCHANGED <<hubVars, lastWasResync, lastId, todo, draining>>

Publishing == \E c \in Clients : Send(c) \/ Overflow(c) \/ Drain(c) \/ Drained(c)

Next ==
  \/ \E c \in Clients, ts \in SUBSET Topics : Subscribe(c, ts)
  \/ \E c \in Clients : Unsubscribe(c)
  \/ Close
  \/ \E t \in Topics : PublishStart(t)
  \/ Publishing
  \/ \E c \in Clients : Receive(c)

Spec == Init /\ [][Next]_busVars

(* A goroutine inside Publish is scheduled until it returns, whatever the  *)
(* readers do.                                                             *)
PublisherFairness == WF_busVars(Publishing)

FairSpec == Spec /\ PublisherFairness

-----------------------------------------------------------------------------
(* The type of every variable. *)
TypeOK ==
  /\ clients \subseteq created /\ created \subseteq Clients
  /\ closed \in [Clients -> BOOLEAN]
  /\ topics \in [Clients -> SUBSET Topics]
  /\ ch \in [Clients -> Seq(Nat)]
  /\ \A c \in Clients : Len(ch[c]) <= BufSize
  /\ lastWasResync \in [Clients -> BOOLEAN]
  /\ hubClosed \in BOOLEAN
  /\ lastId \in Nat
  /\ todo \subseteq Clients
  /\ draining \in todo \cup {NoClient}
  /\ owed \in [Clients -> SUBSET Nat]
  /\ lastSeen \in [Clients -> Nat]

(* An event published for a client is never lost behind its back: until    *)
(* the client has it, it is in the channel, or the first thing in the      *)
(* channel is a resync, or Publish is still at work on that client.  This  *)
(* is what overflowLocked promises in exchange for dropping the queue.     *)
NothingLostSilently ==
  \A c \in Clients : \A e \in owed[c] :
    \/ \E i \in 1..Len(ch[c]) : ch[c][i] = e
    \/ ch[c] # <<>> /\ Head(ch[c]) = Resync
    \/ c \in todo /\ e = lastId
    \/ draining = c

(* A client sees events in publication order and none twice, and a resync  *)
(* precedes everything queued after the loss it announces: the channel is  *)
(* strictly increasing (resync being 0) and beyond what was received.      *)
DeliveredInOrder ==
  \A c \in Clients :
    /\ \A i, j \in 1..Len(ch[c]) : i < j => ch[c][i] < ch[c][j]
    /\ \A i \in 1..Len(ch[c]) : ch[c][i] = Resync \/ lastSeen[c] < ch[c][i]

(* The event in hand is the newest: what a client has seen or has queued   *)
(* is no newer, and strictly older while Publish has still to serve it.    *)
IdsBounded ==
  \A c \in Clients :
    /\ lastSeen[c] <= lastId
    /\ \A i \in 1..Len(ch[c]) : ch[c][i] <= lastId
    /\ c \in todo => lastSeen[c] < lastId
    /\ c \in todo => \A i \in 1..Len(ch[c]) : ch[c][i] < lastId

(* A client whose last queued event was a resync has at most that one in   *)
(* its channel, and is not being drained: the early return of              *)
(* overflowLocked on lastWasResync never skips a resync that is needed.    *)
FlagBoundsQueue ==
  \A c \in Clients : lastWasResync[c] => Len(ch[c]) <= 1 /\ draining # c

(* Publish never reaches a closed channel (in Go, sending on one panics):  *)
(* no Unsubscribe or Close comes between the check of c.closed and the     *)
(* channel operation.                                                      *)
NeverSendsOnClosed == \A c \in todo : c \in clients /\ ~closed[c]

(* Publish returns even if no client ever reads. *)
PublishReturns == (todo # {}) ~> (todo = {})

(* A client that keeps reading ends up knowing of every event published    *)
(* for it, by the event itself or by a resync, even if no other reads.     *)
ClientCatchesUp ==
  \A c \in Clients : WF_busVars(Receive(c)) =>
    \A e \in 1..MaxEvents : (e \in owed[c]) ~> (e \notin owed[c])

(* Whether a resync is on its way to c: it is being made, or is next.      *)
ResyncComing(c) == draining = c \/ (ch[c] # <<>> /\ Head(ch[c]) = Resync)

Subscriptions == INSTANCE Subscription WITH
  published <- lastId,
  seen <- lastSeen,
  lossy <- [c \in Clients |-> ResyncComing(c)]

(* The hub keeps what Subscription promises, although readers take from a  *)
(* channel while overflowLocked drains it.                                 *)
ImplementsSubscription == Subscriptions!Spec

(* Closing the hub releases every handler: one that goes on reading comes  *)
(* to the end of a closed channel, also if it subscribed after the hub was *)
(* closed, or while Close was waiting for the mutex.                       *)
ClosingReleasesReaders ==
  \A c \in Clients : WF_busVars(Receive(c)) =>
    (hubClosed /\ c \in created ~> closed[c] /\ ch[c] = <<>>)
=============================================================================
