------------------------------- MODULE PubSub -------------------------------
(***************************************************************************)
(* WsManager (src/src/server/websocket.rs): one broadcast channel for each *)
(* subscription to a domain, one for all updates, and the WebSocket        *)
(* connections that subscribe.                                             *)
(*                                                                         *)
(* A message is its number in the order of the calls of publish_update.  A *)
(* receiver is a task that uses the library, or a connection: the latter   *)
(* drops every receiver that it is given.                                  *)
(***************************************************************************)
EXTENDS Integers, FiniteSets, Sequences, SequencesExt

CONSTANTS
    Publisher,   \* tasks that publish updates
    Listener,    \* tasks that subscribe and receive
    Connection,  \* WebSocket connections
    Topic,       \* domains
    Global,      \* the channel of all updates
    MaxUpdates,  \* bound on the updates
    Capacity     \* of a channel: 64, 256 for the global one

ASSUME PubSubAssumption ==
    /\ Global \notin Topic /\ "none" \notin Topic \cup {Global}
    /\ MaxUpdates \in Nat /\ Capacity \in Nat \ {0}
    /\ IsFiniteSet(Listener) /\ Listener \cap Connection = {}

Quiet == [at |-> "idle", update |-> 0, domain |-> Global, todo |-> <<>>]

VARIABLES
    subscribers,  \* by domain: the owners of the senders, in their order
    updates,      \* updates that were published or are under way
    publisher,    \* where publish_update is, and the senders it has still to serve
    listener,     \* receivers: channel, queue, what came, what was lost, what is owed
    connection    \* connections: the domains they remember

pubSubVars == <<subscribers, updates, publisher, listener, connection>>

PubSubTypeOK ==
    /\ subscribers \in [Topic -> Seq(Listener \cup Connection)]
    /\ updates \in 0..MaxUpdates
    /\ \A p \in Publisher :
          publisher[p].at \in {"idle", "domain", "global"} /\ publisher[p].update \in 0..updates
    /\ \A l \in Listener :
          /\ listener[l].channel \in Topic \cup {Global, "none"}
          /\ Len(listener[l].queue) <= Capacity
    /\ \A c \in Connection :
          connection[c].open \in BOOLEAN /\ connection[c].subscriptions \subseteq Topic

-----------------------------------------------------------------------------
(* A channel keeps the last messages for each receiver.                    *)

\* tx.send: the oldest message gives way, and is counted as lagged.
Sent(r, m) ==
    IF Len(r.queue) < Capacity THEN [r EXCEPT !.queue = Append(@, m)]
    ELSE [r EXCEPT !.queue = Append(Tail(@), m), !.lagged = @ \cup {Head(r.queue)}]

\* The lock of the entry: read by publishers, written by subscribers.
Reads(d) == \E p \in Publisher : publisher[p].at = "domain" /\ publisher[p].domain = d

\* Mutant: the senders of the domain are replaced.
PushedAlone(s, x) == <<x>>

\* entry().or_default().push(tx)
Pushed(s, x) == Append(s, x)

-----------------------------------------------------------------------------
(* publish_update.                                                         *)

\* subscribers.get(domain) locks the entry.
Publish(p) ==
    /\ publisher[p].at = "idle" /\ updates < MaxUpdates
    /\ updates' = updates + 1
    /\ \E d \in Topic :
          /\ publisher' = [publisher EXCEPT ![p] =
                [at |-> "domain", update |-> updates + 1, domain |-> d, todo |-> subscribers[d]]]
          /\ listener' = [l \in Listener |->
                IF listener[l].channel \in {d, Global}
                THEN [listener[l] EXCEPT !.owed = @ \cup {updates + 1}] ELSE listener[l]]
    /\ UNCHANGED <<subscribers, connection>>

\* One sender of the loop; a channel without a receiver refuses, and that is ignored.
SendToDomain(p) ==
    /\ publisher[p].at = "domain" /\ publisher[p].todo # <<>>
    /\ LET l == Head(publisher[p].todo) IN
       listener' = IF l \in Connection THEN listener
                   ELSE [listener EXCEPT ![l] = Sent(@, publisher[p].update)]
    /\ publisher' = [publisher EXCEPT ![p].todo = Tail(@)]
    /\ UNCHANGED <<subscribers, updates, connection>>

DomainDone(p) ==
    /\ publisher[p].at = "domain" /\ publisher[p].todo = <<>>
    /\ publisher' = [publisher EXCEPT ![p].at = "global"]
    /\ UNCHANGED <<subscribers, updates, listener, connection>>

SendToGlobal(p) ==
    /\ publisher[p].at = "global"
    /\ publisher' = [publisher EXCEPT ![p] = Quiet]
    /\ listener' = [l \in Listener |->
            IF listener[l].channel = Global THEN Sent(listener[l], publisher[p].update) ELSE listener[l]]
    /\ UNCHANGED <<subscribers, updates, connection>>

-----------------------------------------------------------------------------
(* Receivers.                                                              *)

Receiver(channel) == [channel |-> channel, queue |-> <<>>, got |-> <<>>, lagged |-> {}, owed |-> {}]

SubscribeDomain(l, d) ==
    /\ listener[l].channel = "none" /\ ~Reads(d)
    /\ subscribers' = [subscribers EXCEPT ![d] = Pushed(@, l)]
    /\ listener' = [listener EXCEPT ![l] = Receiver(d)]
    /\ UNCHANGED <<updates, publisher, connection>>

SubscribeGlobal(l) ==
    /\ listener[l].channel = "none"
    /\ listener' = [listener EXCEPT ![l] = Receiver(Global)]
    /\ UNCHANGED <<subscribers, updates, publisher, connection>>

\* External: the listener takes the next message of its receiver.
Receive(l) ==
    /\ listener[l].queue # <<>>
    /\ listener' = [listener EXCEPT ![l].queue = Tail(@), ![l].got = Append(@, Head(listener[l].queue))]
    /\ UNCHANGED <<subscribers, updates, publisher, connection>>

-----------------------------------------------------------------------------
(* handle_ws_connection.                                                   *)

\* Subscribe: the receiver is dropped at once, the sender stays.
WsSubscribe(c, d) ==
    /\ connection[c].open /\ ~Reads(d)
    /\ subscribers' = [subscribers EXCEPT ![d] = Pushed(@, c)]
    /\ connection' = [connection EXCEPT ![c].subscriptions = @ \cup {d}]
    /\ UNCHANGED <<updates, publisher, listener>>

\* Unsubscribe only forgets the domain here.
WsUnsubscribe(c, d) ==
    /\ connection[c].open
    /\ connection' = [connection EXCEPT ![c].subscriptions = @ \ {d}]
    /\ UNCHANGED <<subscribers, updates, publisher, listener>>

\* Close, or an error: the "subscriptions released" are only logged.
WsClose(c) ==
    /\ connection[c].open
    /\ connection' = [connection EXCEPT ![c].open = FALSE]
    /\ UNCHANGED <<subscribers, updates, publisher, listener>>

SubscriberCount(d) == Len(subscribers[d])

-----------------------------------------------------------------------------
PubSubInit ==
    /\ subscribers = [d \in Topic |-> <<>>] /\ updates = 0
    /\ publisher = [p \in Publisher |-> Quiet]
    /\ listener = [l \in Listener |-> Receiver("none")]
    /\ connection = [c \in Connection |-> [open |-> TRUE, subscriptions |-> {}]]

PubSubNext ==
    \/ \E p \in Publisher : Publish(p) \/ SendToDomain(p) \/ DomainDone(p) \/ SendToGlobal(p)
    \/ \E l \in Listener : SubscribeGlobal(l) \/ Receive(l) \/ \E d \in Topic : SubscribeDomain(l, d)
    \/ \E c \in Connection : WsClose(c) \/ \E d \in Topic : WsSubscribe(c, d) \/ WsUnsubscribe(c, d)

PubSubSpec == PubSubInit /\ [][PubSubNext]_pubSubVars

-----------------------------------------------------------------------------
(* Properties.                                                             *)

Known(l) ==
    {listener[l].got[i] : i \in DOMAIN listener[l].got}
    \cup {listener[l].queue[i] : i \in DOMAIN listener[l].queue} \cup listener[l].lagged

UnderWay == {publisher[p].update : p \in Publisher}

\* A receiver is sent every update of its domain, or of all, that begins while
\* it is there, each once: what it has not received waits in its channel, was
\* counted as lagged, or is under way, whoever publishes, subscribes or
\* connects meanwhile; and a subscriber is counted as often as it subscribed
\* (publish_update under the lock of the entry, subscribe_domain).
NothingMissed ==
    /\ \A l \in Listener :
        /\ listener[l].owed \subseteq Known(l) \cup UnderWay
        /\ Cardinality(Known(l)) = Len(listener[l].got) + Len(listener[l].queue)
                                     + Cardinality(listener[l].lagged)
    /\ \A d \in Topic : Cardinality({k \in Listener : listener[k].channel = d}) <= SubscriberCount(d)
=============================================================================
