----------------------------- MODULE Subscription -----------------------------
(***************************************************************************)
(* What the hub promises a client, with no channels and no mutex: events   *)
(* in the order of publication and none left out, or else a resync, on     *)
(* which the client refetches.  Bus implements this.                       *)
(***************************************************************************)
EXTENDS Naturals

CONSTANT Clients

VARIABLES
  published,  \* events published so far, numbered from 1
  owed,       \* per client: events it is to get, and has not been told to refetch
  seen,       \* per client: the last event it got
  lossy       \* per client: some of what it is owed may be skipped, and a
              \* resync is on its way to make up for it

vars == <<published, owed, seen, lossy>>

Init ==
  /\ published = 0
  /\ owed = [c \in Clients |-> {}]
  /\ seen = [c \in Clients |-> 0]
  /\ lossy = [c \in Clients |-> FALSE]

(* An event is published for the clients S. *)
Publish(S) ==
  /\ published' = published + 1
  /\ owed' = [c \in Clients |-> IF c \in S THEN owed[c] \cup {published + 1} ELSE owed[c]]
  /\ UNCHANGED <<seen, lossy>>

(* A client gets an event.  Nothing it is owed comes later than it should, *)
(* unless a resync is on its way.  An event it has refetched already may   *)
(* still come.                                                             *)
Deliver(c, e) ==
  /\ seen[c] < e
  /\ ~lossy[c] => \A d \in owed[c] : e <= d
  /\ seen' = [seen EXCEPT ![c] = e]
  /\ owed' = [owed EXCEPT ![c] = @ \ {e}]
  /\ UNCHANGED <<published, lossy>>

(* The hub gives up on what is queued for a client. *)
FallBehind(c) ==
  /\ ~lossy[c]
  /\ lossy' = [lossy EXCEPT ![c] = TRUE]
  /\ UNCHANGED <<published, owed, seen>>

(* The client gets a resync; another may be on its way already. *)
Refetch(c, more) ==
  /\ lossy[c]
  /\ owed' = [owed EXCEPT ![c] = {}]
  /\ lossy' = [lossy EXCEPT ![c] = more]
  /\ UNCHANGED <<published, seen>>

Next ==
  \/ \E S \in SUBSET Clients : Publish(S)
  \/ \E c \in Clients :
       \/ \E e \in 1..published : Deliver(c, e)
       \/ FallBehind(c)
       \/ \E more \in BOOLEAN : Refetch(c, more)

Spec == Init /\ [][Next]_vars

-----------------------------------------------------------------------------
(* While no resync is on its way, a client has missed nothing: all it is   *)
(* owed is still to come.                                                  *)
IntactMissesNothing ==
  \A c \in Clients : ~lossy[c] => \A e \in owed[c] : seen[c] < e
=============================================================================
