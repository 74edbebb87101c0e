---------------------------- MODULE DccBroadcast ----------------------------
(***************************************************************************)
(* The dynamic configuration of several instances.                         *)
(*                                                                         *)
(* An update changes the memory of the instance that serves the request    *)
(* and is then published on a Redis channel.  Redis hands each published   *)
(* message to every connection subscribed at that moment, in one order for *)
(* all, and keeps none; the publisher gets its own message back.  Nothing  *)
(* is stored: a restarted instance begins with its configuration file.     *)
(***************************************************************************)
EXTENDS Integers, Sequences, FiniteSets

CONSTANTS
  Instances,
  Requests,    \* concurrent update requests
  Keys,        \* the keys applyLocal knows
  OtherKey,    \* any other key
  Values,
  Default,     \* the value in the configuration file
  MaxUpdates,  \* bound: update requests
  Faults,      \* the failures that may happen
  MaxFaults    \* bound: how many of them

FaultKind == {"publishFails", "subscribeFails", "connectionLost", "restart"}

ASSUME BoundsAssumption == MaxUpdates \in Nat /\ MaxFaults \in Nat
ASSUME FaultsAssumption == Faults \subseteq FaultKind
ASSUME KeysAssumption   == OtherKey \notin Keys /\ Default \in Values

VARIABLES
  cfg,         \* the configuration in the memory of each instance
  request,     \* update requests between applyLocal and Publish
  inbox,       \* messages each subscriber has not handled yet
  client,      \* the subscription of each instance
  last,        \* ghost: the last value published for each key
  stale,       \* ghost: <<i, k>> where i missed a change of k, until the next one
  updates,     \* update requests so far
  faults       \* failures so far

vars == <<cfg, request, inbox, client, last, stale, updates, faults>>

\* Not yet subscribed, subscribed, cut off and about to subscribe again, and
\* never to subscribe.
ClientState == {"new", "live", "lost", "deaf"}
Subscribed == {i \in Instances : client[i] = "live"}

Message == [at: Instances, key: Keys \cup {OtherKey}, value: Values]
NoRequest == <<>>

Init ==
  /\ cfg = [i \in Instances |-> [k \in Keys |-> Default]]
  /\ request = [r \in Requests |-> NoRequest]
  /\ inbox = [i \in Instances |-> <<>>]
  /\ client = [i \in Instances |-> "new"]
  /\ last = [k \in Keys |-> Default]
  /\ stale = {}
  /\ updates = 0
  /\ faults = 0

Fault(f) == f \in Faults /\ faults < MaxFaults /\ faults' = faults + 1

-----------------------------------------------------------------------------
\* Mutant: key and value are swapped.
ApplySwapped(c, k, v) == IF k \in Keys THEN [c EXCEPT ![k] = k] ELSE c

\* applyLocal: an unknown key is logged and dropped.
ApplyLocal(c, k, v) == IF k \in Keys THEN [c EXCEPT ![k] = v] ELSE c

\* Update, first half: the memory of the instance that serves the request.
Update(r, i, k, v) ==
  /\ request[r] = NoRequest
  /\ updates < MaxUpdates
  /\ cfg' = [cfg EXCEPT ![i] = ApplyLocal(@, k, v)]
  /\ request' = [request EXCEPT ![r] = <<[at |-> i, key |-> k, value |-> v]>>]
  /\ updates' = updates + 1
  /\ UNCHANGED <<inbox, client, last, stale, faults>>

\* Mutant: the instance skips its own messages.
OtherReceivers(origin) == Subscribed \ {origin}

\* Who gets a message: every subscriber, the publisher too.
Receivers(origin) == Subscribed

\* Update, second half: Publish.  Redis is the point where updates are ordered.
Broadcast(r) ==
  /\ request[r] # NoRequest
  /\ LET m == Head(request[r])
     IN  /\ inbox' = [i \in Instances |->
                        IF i \in Receivers(m.at) THEN Append(inbox[i], m)
                                                 ELSE inbox[i]]
         /\ last' = ApplyLocal(last, m.key, m.value)
         /\ stale' = {s \in stale : ~ (s[2] = m.key /\ s[1] \in Subscribed)}
                       \cup {s \in (Instances \ Subscribed) \X Keys : s[2] = m.key}
  /\ request' = [request EXCEPT ![r] = NoRequest]
  /\ UNCHANGED <<cfg, client, updates, faults>>

\* The subscriber's handler, one message at a time.
Receive(i) ==
  /\ inbox[i] # <<>>
  /\ LET m == Head(inbox[i])
     IN  cfg' = [cfg EXCEPT ![i] = ApplyLocal(@, m.key, m.value)]
  /\ inbox' = [inbox EXCEPT ![i] = Tail(@)]
  /\ UNCHANGED <<request, client, last, stale, updates, faults>>

-----------------------------------------------------------------------------
(* Failures                                                                *)

\* Publish returns an error: it is logged, the local change stays.
BroadcastFails(r) ==
  /\ Fault("publishFails")
  /\ request[r] # NoRequest
  /\ stale' = stale \cup {s \in {Head(request[r]).at} \X Keys :
                            s[2] = Head(request[r]).key}
  /\ request' = [request EXCEPT ![r] = NoRequest]
  /\ UNCHANGED <<cfg, inbox, client, last, updates>>

\* The connection of a subscriber breaks, and with it go the messages that are
\* not yet in the client's channel; the client subscribes again later.
ConnectionLost(i) ==
  /\ Fault("connectionLost")
  /\ i \in Subscribed
  /\ client' = [client EXCEPT ![i] = "lost"]
  /\ \E n \in 0..Len(inbox[i]) :
       /\ inbox' = [inbox EXCEPT ![i] = SubSeq(@, 1, n)]
       /\ stale' = stale \cup {s \in {i} \X Keys :
                                \E l \in n + 1..Len(inbox[i]) : inbox[i][l].key = s[2]}
  /\ UNCHANGED <<cfg, request, last, updates>>

\* The first SUBSCRIBE of the process, or one the client repeats.
Subscribe(i) ==
  /\ client[i] \in {"new", "lost"}
  /\ client' = [client EXCEPT ![i] = "live"]
  /\ UNCHANGED <<cfg, request, inbox, last, stale, updates, faults>>

\* The first SUBSCRIBE fails: it is logged, and nobody tries again.
SubscribeFails(i) ==
  /\ Fault("subscribeFails")
  /\ client[i] = "new"
  /\ client' = [client EXCEPT ![i] = "deaf"]
  /\ UNCHANGED <<cfg, request, inbox, last, stale, updates>>

\* The instance starts again from its file; its requests and messages are gone.
Restart(i) ==
  /\ Fault("restart")
  /\ cfg' = [cfg EXCEPT ![i] = [k \in Keys |-> Default]]
  /\ request' = [r \in Requests |->
                   IF request[r] # NoRequest /\ Head(request[r]).at = i
                     THEN NoRequest ELSE request[r]]
  /\ inbox' = [inbox EXCEPT ![i] = <<>>]
  /\ client' = [client EXCEPT ![i] = "new"]
  /\ stale' = stale \cup ({i} \X Keys)
  /\ UNCHANGED <<last, updates>>

Next ==
  \/ \E r \in Requests :
       \/ \E i \in Instances, k \in Keys \cup {OtherKey}, v \in Values :
            Update(r, i, k, v)
       \/ Broadcast(r)
       \/ BroadcastFails(r)
  \/ \E i \in Instances :
       \/ Receive(i)
       \/ ConnectionLost(i)
       \/ Subscribe(i)
       \/ SubscribeFails(i)
       \/ Restart(i)

Spec == Init /\ [][Next]_vars

\* A request that has changed the memory goes on to publish, a subscriber's
\* goroutine handles what it gets, and a process subscribes or, after a lost
\* connection, subscribes again.
FairSpec ==
  /\ Spec
  /\ \A r \in Requests : WF_vars(Broadcast(r))
  /\ \A i \in Instances : WF_vars(Receive(i)) /\ WF_vars(Subscribe(i))

-----------------------------------------------------------------------------
(* Properties                                                              *)

\* Every variable has the shape the code gives it.
TypeOK ==
  /\ cfg \in [Instances -> [Keys -> Values]]
  /\ request \in [Requests -> {NoRequest} \cup {<<m>> : m \in Message}]
  /\ inbox \in [Instances -> Seq(Message)]
  /\ client \in [Instances -> ClientState]
  /\ last \in [Keys -> Values]
  /\ stale \subseteq Instances \X Keys
  /\ updates \in 0..MaxUpdates
  /\ faults \in 0..MaxFaults

\* No request and no message about key k is under way.
Quiet(k) ==
  /\ \A r \in Requests : request[r] # NoRequest => Head(request[r]).key # k
  /\ \A i \in Instances : \A n \in DOMAIN inbox[i] : inbox[i][n].key # k

\* When everything about a key has been delivered, every instance that missed
\* none of it has the value Redis got last, whatever updates of several
\* instances overlapped; an instance that missed one is healed by the next.
AgreeWhenQuiet ==
  \A i \in Instances, k \in Keys :
    Quiet(k) /\ <<i, k>> \notin stale => cfg[i][k] = last[k]

\* Updates and failures come to an end, and then every instance that has not
\* missed a change of a key has the value of all others, and keeps it.
EventuallyAgree ==
  <>[](\A i, j \in Instances, k \in Keys :
         <<i, k>> \notin stale /\ <<j, k>> \notin stale => cfg[i][k] = cfg[j][k])

-----------------------------------------------------------------------------
(* What keeps AgreeWhenQuiet true from step to step                        *)

\* An update of k served by i has changed its memory and is not published yet.
Pending(i, k) ==
  \E r \in Requests : /\ request[r] # NoRequest
                      /\ Head(request[r]).at = i
                      /\ Head(request[r]).key = k

\* The last message about k that i has still to handle carries the value
\* published last; without such a message i has that value.
Follows(i, k) ==
  /\ (\A n \in DOMAIN inbox[i] : inbox[i][n].key # k) => cfg[i][k] = last[k]
  /\ \A n \in DOMAIN inbox[i] :
       /\ inbox[i][n].key = k
       /\ \A m \in DOMAIN inbox[i] : m > n => inbox[i][m].key # k
       => inbox[i][n].value = last[k]

\* An instance that missed no change of a key follows Redis, unless it is about
\* to publish a change of its own.
FollowsOrPending ==
  \A i \in Instances, k \in Keys :
    <<i, k>> \notin stale => Pending(i, k) \/ Follows(i, k)

DccInv == TypeOK /\ FollowsOrPending
=============================================================================
