------------------------------- MODULE Stream -------------------------------
(***************************************************************************)
(* A dashboard tab on /api/stream: the SSE handler                         *)
(* (internal/httpapi/stream.go) over the hub (Bus), its replay from the    *)
(* audit trail (internal/httpapi/replay.go), and the browser's end         *)
(* (web/src/lib/sse.ts), which reconnects with the Last-Event-ID of the    *)
(* last frame that carried one.                                            *)
(*                                                                         *)
(* The audit trail is a number: rows 1..committed are in incident_events.  *)
(* A row is published after it is committed, in order.  Rows of redelivery *)
(* ('duplicate'), which are never published, are left out.  Each           *)
(* connection has a hub client of its own, so Clients bounds them.         *)
(***************************************************************************)
EXTENDS Bus

CONSTANTS
  ReplayLimit,  \* replayLimit, rows per replay
  MaxFaults     \* bound: failed replays and restarts

ASSUME StreamAssumption == ReplayLimit \in Nat \ {0} /\ MaxFaults \in Nat

VARIABLES
  committed,    \* rows of incident_events
  phase,        \* the connection: "away", "subscribed", "live", "broken"
  conn,         \* its hub client
  lastEventID,  \* the browser's; 0 before any frame with an id
  cache,        \* the tab's query cache shows rows 1..cache
  faults,       \* faults so far
  told,         \* history: rows the tab was sent, or told by a resync to refetch
  firstID,      \* history: the first id the tab got; 0 before
  gap           \* history: the tab was left with a gap nobody will fill

tabVars    == <<phase, conn, lastEventID, cache, told, firstID, gap>>
streamVars == <<busVars, committed, tabVars, faults>>

StreamInit ==
  /\ Init
  /\ committed = 0
  /\ phase = "away" /\ conn = NoClient
  /\ lastEventID = 0 /\ cache = 0
  /\ faults = 0
  /\ told = {} /\ firstID = 0 /\ gap = FALSE

Fault == faults < MaxFaults /\ faults' = faults + 1

(***************************************************************************)
(* The publishing side: a row is committed, then published.                *)
(***************************************************************************)
Commit ==
  /\ committed < MaxEvents
  /\ committed' = committed + 1
  /\ UNCHANGED <<busVars, tabVars, faults>>

(* Mutant of PublishCommitted: an event is published before its commit. *)
PublishUncommitted ==
  /\ lastId <= committed
  /\ \E t \in Topics : PublishStart(t)
  /\ UNCHANGED <<committed, tabVars, faults>>

PublishCommitted ==
  /\ lastId < committed
  /\ \E t \in Topics : PublishStart(t)
  /\ UNCHANGED <<committed, tabVars, faults>>

HubStep == Publishing /\ UNCHANGED <<committed, tabVars, faults>>

(* The process ends and a new one starts, with a new hub.  What was        *)
(* committed and not published never is.                                   *)
Restart ==
  /\ Fault
  /\ clients' = {} /\ todo' = {} /\ draining' = NoClient
  /\ ch' = [c \in Clients |-> <<>>]
  /\ owed' = [c \in Clients |-> {}]
  /\ lastId' = committed
  /\ phase' = "away" /\ conn' = NoClient
  /\ UNCHANGED <<created, closed, topics, lastWasResync, hubClosed, lastSeen,
                 committed, lastEventID, cache, told, firstID, gap>>

(***************************************************************************)
(* The tab.                                                                *)
(***************************************************************************)

(* The type field of a frame, and whether the browser hands it to          *)
(* onmessage: only frames of type "message" go there.                      *)
TypeOf(id) == IF id = Resync THEN "resync" ELSE "incident.state_change"
OnMessage(id) == TypeOf(id) = "message"

(* A frame reaches the tab.  A resync has no id and stands for all rows.   *)
Frame(id) ==
  /\ told' = IF id = Resync THEN 1..committed ELSE told \cup {id}
  /\ lastEventID' = IF id = Resync THEN lastEventID ELSE id
  /\ firstID' = IF firstID = 0 /\ id # Resync THEN id ELSE firstID
  /\ cache' = IF OnMessage(id) THEN committed ELSE cache

(* The handler subscribes before it replays. *)
Connect(c) ==
  /\ phase = "away"
  /\ Subscribe(c, {})
  /\ conn' = c /\ phase' = "subscribed"
  /\ UNCHANGED <<committed, lastEventID, cache, told, firstID, gap, faults>>

(* The rows after Last-Event-ID, as many as one replay may return; none    *)
(* for a tab that sends no Last-Event-ID.                                  *)
ReplayEnd ==
  IF lastEventID = 0 THEN 0
  ELSE IF committed > lastEventID + ReplayLimit THEN lastEventID + ReplayLimit
  ELSE IF committed < lastEventID THEN lastEventID ELSE committed

(* Mutant of Replay: the rows from the second after Last-Event-ID on. *)
ReplaySkippingOne ==
  /\ phase = "subscribed"
  /\ told' = told \cup (lastEventID + 2)..ReplayEnd
  /\ lastEventID' = ReplayEnd
  /\ gap' = (gap \/ (lastEventID > 0 /\ ReplayEnd < committed))
  /\ phase' = "live"
  /\ UNCHANGED <<busVars, committed, conn, cache, firstID, faults>>

Replay ==
  /\ phase = "subscribed"
  /\ told' = told \cup (lastEventID + 1)..ReplayEnd
  /\ lastEventID' = ReplayEnd
  /\ gap' = (gap \/ (lastEventID > 0 /\ ReplayEnd < committed))
  /\ phase' = "live"
  /\ UNCHANGED <<busVars, committed, conn, cache, firstID, faults>>

(* The connection breaks in mid-replay, after the row with ID last. *)
ReplayBreaks(last) ==
  /\ phase = "subscribed"
  /\ lastEventID > 0 /\ last \in lastEventID..ReplayEnd
  /\ told' = told \cup (lastEventID + 1)..last
  /\ lastEventID' = last
  /\ phase' = "broken"
  /\ UNCHANGED <<busVars, committed, conn, cache, firstID, gap, faults>>

(* A replay that fails is logged; the stream goes live without it. *)
ReplayFails ==
  /\ phase = "subscribed" /\ lastEventID > 0
  /\ Fault
  /\ gap' = TRUE
  /\ phase' = "live"
  /\ UNCHANGED <<busVars, committed, conn, lastEventID, cache, told, firstID>>

(* The handler writes an event to the tab.  Taken from under a drain, the  *)
(* event is beyond others that are being dropped; the resync makes up.     *)
Deliver ==
  /\ phase = "live" /\ ch[conn] # <<>>
  /\ Frame(Head(ch[conn]))
  /\ gap' = (Head(ch[conn]) # Resync /\ (gap \/ draining = conn))
  /\ Receive(conn)
  /\ UNCHANGED <<committed, phase, conn, faults>>

(* It takes the event, but the connection is gone. *)
DeliverLost ==
  /\ phase = "live"
  /\ Receive(conn)
  /\ phase' = "broken"
  /\ UNCHANGED <<committed, conn, lastEventID, cache, told, firstID, gap, faults>>

(* The connection breaks between frames. *)
Break ==
  /\ phase = "live"
  /\ phase' = "broken"
  /\ UNCHANGED <<busVars, committed, conn, lastEventID, cache, told, firstID, gap, faults>>

(* The handler returns and unsubscribes; onerror refetches, if it can.     *)
Disconnect(refetched) ==
  /\ phase = "broken"
  /\ Unsubscribe(conn)
  /\ phase' = "away" /\ conn' = NoClient
  /\ cache' = IF refetched THEN committed ELSE cache
  /\ UNCHANGED <<committed, lastEventID, told, firstID, gap, faults>>

StreamNext ==
  \/ Commit \/ PublishCommitted \/ HubStep \/ Restart
  \/ \E c \in Clients : Connect(c)
  \/ Replay \/ ReplayFails
  \/ \E last \in 1..MaxEvents : ReplayBreaks(last)
  \/ Deliver \/ DeliverLost \/ Break
  \/ \E refetched \in BOOLEAN : Disconnect(refetched)

StreamSpec == StreamInit /\ [][StreamNext]_streamVars

-----------------------------------------------------------------------------
(* The type of the tab's variables. *)
StreamTypeOK ==
  /\ committed \in Nat
  /\ phase \in {"away", "subscribed", "live", "broken"}
  /\ conn \in Clients \cup {NoClient}
  /\ phase = "away" <=> conn = NoClient
  /\ lastEventID \in 0..committed /\ cache \in 0..committed
  /\ lastId <= committed
  /\ told \subseteq 1..committed
  /\ firstID \in told \cup {0}

(* Where the tab stands with a row it has not been told of: it will ask    *)
(* for it, or the hub has it or a resync in hand for this connection.      *)
WillLearn(e) ==
  IF phase = "live"
  THEN \/ \E i \in 1..Len(ch[conn]) : ch[conn][i] = e
       \/ ch[conn] # <<>> /\ Head(ch[conn]) = Resync
       \/ conn \in todo /\ e = lastId
       \/ draining = conn
  ELSE e > lastEventID

(* The stream alone misses nothing, restarts included, but for a gap the   *)
(* handler leaves: a replay that failed or met its limit, or an event      *)
(* taken from under a drain.                                               *)
StreamMissesNothingButGaps ==
  ~gap /\ firstID > 0 => \A e \in firstID..lastId : e \in told \/ WillLearn(e)

(* While the stream is live the cache is as fresh as what the tab was      *)
(* told: an event invalidates it, a resync makes it refetch.               *)
LiveTabIsFresh == phase = "live" => \A e \in told : e <= cache
=============================================================================
