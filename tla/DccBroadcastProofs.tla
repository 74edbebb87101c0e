------------------------- MODULE DccBroadcastProofs -------------------------
(***************************************************************************)
(* Proofs about DccBroadcast, for any number of instances, requests, keys  *)
(* and failures: an instance that missed no change of a key follows Redis. *)
(***************************************************************************)
EXTENDS DccBroadcast, TLAPS

\* applyLocal keeps the configuration a function of the keys, changes the key
\* it is given and no other.
LEMMA ApplyLocalFacts ==
  ASSUME NEW c \in [Keys -> Values], NEW k \in Keys \cup {OtherKey}, NEW v \in Values
  PROVE  /\ ApplyLocal(c, k, v) \in [Keys -> Values]
         /\ k \in Keys => ApplyLocal(c, k, v)[k] = v
         /\ \A j \in Keys : j # k => ApplyLocal(c, k, v)[j] = c[j]
BY DEF ApplyLocal

\* A request that is under way holds one message.
LEMMA RequestHolds ==
  ASSUME TypeOK, NEW r \in Requests, request[r] # NoRequest
  PROVE  /\ Head(request[r]) \in Message
         /\ Head(request[r]).at \in Instances
         /\ Head(request[r]).key \in Keys \cup {OtherKey}
         /\ Head(request[r]).value \in Values
<1>1. PICK m \in Message : request[r] = <<m>>
  BY DEF TypeOK
<1>2. Head(request[r]) = m
  BY <1>1
<1>. QED  BY <1>2 DEF Message

\* Every instance starts with the value of the file, and nothing is published.
LEMMA DccInit == Init => DccInv
<1>. SUFFICES ASSUME Init PROVE DccInv
  OBVIOUS
<1>. USE DEF Init
<1>1. TypeOK
  <2>1. <<>> \in Seq(Message)
    OBVIOUS
  <2>2. inbox \in [Instances -> Seq(Message)]
    BY <2>1
  <2>3. request \in [Requests -> {NoRequest} \cup {<<m>> : m \in Message}]
    OBVIOUS
  <2>4. cfg \in [Instances -> [Keys -> Values]] /\ last \in [Keys -> Values]
    BY KeysAssumption
  <2>5. updates \in 0..MaxUpdates /\ faults \in 0..MaxFaults
    BY BoundsAssumption
  <2>. QED  BY <2>2, <2>3, <2>4, <2>5 DEF TypeOK, ClientState
<1>2. ASSUME NEW i \in Instances, NEW k \in Keys PROVE Follows(i, k)
  BY DEF Follows
<1>. QED  BY <1>1, <1>2 DEF DccInv, FollowsOrPending

\* What an instance knows of a key depends on its inbox, its memory and the
\* value published last, and on nothing else.
LEMMA FollowsKept ==
  ASSUME NEW i \in Instances, NEW k \in Keys, Follows(i, k),
         inbox'[i] = inbox[i], cfg'[i][k] = cfg[i][k], last'[k] = last[k]
  PROVE  Follows(i, k)'
BY DEF Follows

\* A pending update stays pending while its request is left alone.
LEMMA PendingKept ==
  ASSUME NEW i, NEW k, Pending(i, k),
         \A r \in Requests :
           request[r] # NoRequest /\ Head(request[r]).at = i /\ Head(request[r]).key = k
             => request'[r] = request[r]
  PROVE  Pending(i, k)'
BY DEF Pending

\* The first half of an update: the instance runs ahead of Redis, and the
\* update is pending.
LEMMA UpdatePreserves ==
  ASSUME DccInv, NEW r \in Requests, NEW i \in Instances,
         NEW k \in Keys \cup {OtherKey}, NEW v \in Values, Update(r, i, k, v)
  PROVE  DccInv'
<1>. DEFINE m == [at |-> i, key |-> k, value |-> v]
<1>1. /\ TypeOK /\ FollowsOrPending
      /\ request[r] = NoRequest /\ updates < MaxUpdates /\ updates' = updates + 1
      /\ cfg' = [cfg EXCEPT ![i] = ApplyLocal(cfg[i], k, v)]
      /\ request' = [request EXCEPT ![r] = <<m>>]
      /\ UNCHANGED <<inbox, client, last, stale, faults>>
  BY DEF Update, DccInv
<1>2. m \in Message /\ m.at = i /\ m.key = k
  BY DEF Message
<1>. HIDE DEF m
<1>3. cfg[i] \in [Keys -> Values] /\ cfg \in [Instances -> [Keys -> Values]]
  BY <1>1 DEF TypeOK
<1>4. TypeOK'
  <2>1. cfg' \in [Instances -> [Keys -> Values]]
    BY <1>1, <1>3, ApplyLocalFacts
  <2>2. request' \in [Requests -> {NoRequest} \cup {<<n>> : n \in Message}]
    BY <1>1, <1>2 DEF TypeOK
  <2>3. updates' \in 0..MaxUpdates
    BY <1>1, BoundsAssumption DEF TypeOK
  <2>. QED  BY <1>1, <2>1, <2>2, <2>3 DEF TypeOK
<1>5. request'[r] = <<m>> /\ \A q \in Requests \ {r} : request'[q] = request[q]
  BY <1>1 DEF TypeOK
<1>6. ASSUME NEW j \in Instances, NEW l \in Keys, <<j, l>> \notin stale'
      PROVE  Pending(j, l)' \/ Follows(j, l)'
  <2>1. CASE j = i /\ l = k
    <3>1. Head(<<m>>) = m /\ <<m>> # NoRequest
      BY DEF NoRequest
    <3>. QED  BY <1>2, <1>5, <2>1, <3>1 DEF Pending
  <2>2. CASE ~ (j = i /\ l = k)
    <3>1. cfg'[j][l] = cfg[j][l]
      <4>1. CASE j # i
        BY <1>1, <1>3, <4>1
      <4>2. CASE j = i /\ l # k
        <5>1. ApplyLocal(cfg[i], k, v)[l] = cfg[i][l]
          BY <1>3, <4>2 DEF ApplyLocal
        <5>. QED  BY <1>1, <1>3, <4>2, <5>1
      <4>. QED  BY <2>2, <4>1, <4>2
    <3>2. Pending(j, l) \/ Follows(j, l)
      BY <1>1, <1>6 DEF FollowsOrPending
    <3>3. Pending(j, l) => Pending(j, l)'
      BY <1>1, <1>5, PendingKept
    <3>. QED  BY <1>1, <3>1, <3>2, <3>3, FollowsKept
  <2>. QED  BY <2>1, <2>2
<1>. QED  BY <1>4, <1>6 DEF DccInv, FollowsOrPending

\* Publishing orders the updates: every subscriber gets the message last, and
\* every other instance has missed it.
LEMMA BroadcastPreserves ==
  ASSUME DccInv, NEW r \in Requests, Broadcast(r)
  PROVE  DccInv'
<1>. DEFINE m == Head(request[r])
<1>1. /\ TypeOK /\ FollowsOrPending
      /\ request[r] # NoRequest
      /\ inbox' = [i \in Instances |->
                     IF i \in Subscribed THEN Append(inbox[i], m) ELSE inbox[i]]
      /\ last' = ApplyLocal(last, m.key, m.value)
      /\ stale' = {s \in stale : ~ (s[2] = m.key /\ s[1] \in Subscribed)}
                    \cup {s \in (Instances \ Subscribed) \X Keys : s[2] = m.key}
      /\ request' = [request EXCEPT ![r] = NoRequest]
      /\ UNCHANGED <<cfg, client, updates, faults>>
  BY DEF Broadcast, DccInv, Receivers
<1>2. /\ m \in Message /\ m.at \in Instances /\ m.key \in Keys \cup {OtherKey}
      /\ m.value \in Values
  BY <1>1, RequestHolds
<1>. HIDE DEF m
<1>3. \A i \in Instances : inbox[i] \in Seq(Message)
  BY <1>1 DEF TypeOK
<1>4. last \in [Keys -> Values] /\ request \in [Requests -> {NoRequest} \cup {<<n>> : n \in Message}]
  BY <1>1 DEF TypeOK
<1>5. TypeOK'
  <2>1. last' \in [Keys -> Values]
    BY <1>1, <1>2, <1>4, ApplyLocalFacts
  <2>2. inbox' \in [Instances -> Seq(Message)]
    BY <1>1, <1>2, <1>3
  <2>3. request' \in [Requests -> {NoRequest} \cup {<<n>> : n \in Message}]
    BY <1>1, <1>4
  <2>4. stale' \subseteq Instances \X Keys
    BY <1>1 DEF TypeOK
  <2>. QED  BY <1>1, <2>1, <2>2, <2>3, <2>4 DEF TypeOK
<1>6. ASSUME NEW i \in Instances, NEW k \in Keys, <<i, k>> \notin stale'
      PROVE  Pending(i, k)' \/ Follows(i, k)'
  <2>1. CASE k = m.key
    <3>1. i \in Subscribed
      <4>1. i \notin Subscribed => <<i, k>> \in (Instances \ Subscribed) \X Keys
        OBVIOUS
      <4>. QED  BY <1>1, <1>6, <2>1, <4>1
    <3>2. inbox'[i] = Append(inbox[i], m) /\ last'[k] = m.value
      BY <1>1, <1>2, <1>4, <2>1, <3>1, ApplyLocalFacts
    <3>3. /\ Len(inbox[i]) \in Nat
          /\ DOMAIN inbox'[i] = 1..(Len(inbox[i]) + 1)
          /\ inbox'[i][Len(inbox[i]) + 1] = m
      BY <1>2, <1>3, <3>2
    <3>. QED  BY <2>1, <3>2, <3>3 DEF Follows
  <2>2. CASE k # m.key
    <3>1. <<i, k>> \notin stale
      BY <1>1, <1>6, <2>2
    <3>2. Pending(i, k) \/ Follows(i, k)
      BY <1>1, <3>1 DEF FollowsOrPending
    <3>3. CASE Pending(i, k)
      <4>1. PICK q \in Requests : /\ request[q] # NoRequest
                                  /\ Head(request[q]).at = i
                                  /\ Head(request[q]).key = k
        BY <3>3 DEF Pending
      <4>2. q # r
        BY <2>2, <4>1 DEF m
      <4>3. request'[q] = request[q]
        BY <1>1, <1>4, <4>2
      <4>. QED  BY <4>1, <4>3 DEF Pending
    <3>4. CASE Follows(i, k)
      <4>1. last'[k] = last[k]
        <5>1. ApplyLocal(last, m.key, m.value)[k] = last[k]
          BY <1>2, <1>4, <2>2, ApplyLocalFacts
        <5>. QED  BY <1>1, <5>1
      <4>2. CASE i \notin Subscribed
        BY <1>1, <3>4, <4>1, <4>2, FollowsKept
      <4>3. CASE i \in Subscribed
        <5>1. inbox'[i] = Append(inbox[i], m)
          BY <1>1, <4>3
        <5>2. /\ Len(inbox[i]) \in Nat /\ DOMAIN inbox[i] = 1..Len(inbox[i])
              /\ DOMAIN inbox'[i] = 1..(Len(inbox[i]) + 1)
              /\ inbox'[i][Len(inbox[i]) + 1] = m
              /\ \A n \in 1..Len(inbox[i]) : inbox'[i][n] = inbox[i][n]
          BY <1>2, <1>3, <5>1
        <5>3. \A n \in DOMAIN inbox'[i] : inbox'[i][n].key = k => n \in DOMAIN inbox[i]
          BY <2>2, <5>2
        <5>. QED  BY <1>1, <3>4, <4>1, <5>2, <5>3 DEF Follows
      <4>. QED  BY <4>2, <4>3
    <3>. QED  BY <3>2, <3>3, <3>4
  <2>. QED  BY <2>1, <2>2
<1>. QED  BY <1>5, <1>6 DEF DccInv, FollowsOrPending

\* The subscriber handles one message: when it was the last about its key, the
\* memory takes the value published last.
LEMMA ReceivePreserves ==
  ASSUME DccInv, NEW i \in Instances, Receive(i)
  PROVE  DccInv'
<1>. DEFINE m == Head(inbox[i])
<1>1. /\ TypeOK /\ FollowsOrPending
      /\ inbox[i] # <<>>
      /\ cfg' = [cfg EXCEPT ![i] = ApplyLocal(cfg[i], m.key, m.value)]
      /\ inbox' = [inbox EXCEPT ![i] = Tail(inbox[i])]
      /\ UNCHANGED <<request, client, last, stale, updates, faults>>
  BY DEF Receive, DccInv
<1>2. inbox[i] \in Seq(Message) /\ inbox \in [Instances -> Seq(Message)]
  BY <1>1 DEF TypeOK
<1>3. m \in Message /\ m = inbox[i][1] /\ Tail(inbox[i]) \in Seq(Message)
  BY <1>1, <1>2
<1>4. m.key \in Keys \cup {OtherKey} /\ m.value \in Values
  BY <1>3 DEF Message
<1>. HIDE DEF m
<1>5. cfg \in [Instances -> [Keys -> Values]] /\ cfg[i] \in [Keys -> Values]
  BY <1>1 DEF TypeOK
<1>6. TypeOK'
  <2>1. cfg' \in [Instances -> [Keys -> Values]]
    BY <1>1, <1>4, <1>5, ApplyLocalFacts
  <2>2. inbox' \in [Instances -> Seq(Message)]
    BY <1>1, <1>2, <1>3
  <2>. QED  BY <1>1, <2>1, <2>2 DEF TypeOK
<1>7. /\ Len(inbox[i]) \in Nat \ {0} /\ DOMAIN inbox[i] = 1..Len(inbox[i])
      /\ DOMAIN inbox'[i] = 1..(Len(inbox[i]) - 1)
      /\ \A n \in 1..(Len(inbox[i]) - 1) : inbox'[i][n] = inbox[i][n + 1]
  BY <1>1, <1>2
<1>8. ASSUME NEW j \in Instances, NEW k \in Keys, <<j, k>> \notin stale'
      PROVE  Pending(j, k)' \/ Follows(j, k)'
  <2>1. Pending(j, k) \/ Follows(j, k)
    BY <1>1, <1>8 DEF FollowsOrPending
  <2>2. CASE Pending(j, k)
    BY <1>1, <2>2, PendingKept
  <2>3. CASE Follows(j, k) /\ j # i
    <3>1. inbox'[j] = inbox[j] /\ cfg'[j] = cfg[j]
      BY <1>1, <1>2, <1>5, <2>3
    <3>. QED  BY <1>1, <2>3, <3>1, FollowsKept
  <2>4. CASE Follows(j, k) /\ j = i
    <3>1. PICK L : L = Len(inbox[i])
      OBVIOUS
    <3>2. L \in Nat \ {0} /\ DOMAIN inbox[i] = 1..L /\ DOMAIN inbox'[i] = 1..(L - 1)
          /\ \A n \in 1..(L - 1) : inbox'[i][n] = inbox[i][n + 1]
      BY <1>7, <3>1
    <3>3. ASSUME \A n \in DOMAIN inbox'[i] : inbox'[i][n].key # k
          PROVE  cfg'[i][k] = last[k]
      <4>1. \A n \in 2..L : inbox[i][n].key # k
        <5>. SUFFICES ASSUME NEW n \in 2..L PROVE inbox[i][n].key # k
          OBVIOUS
        <5>1. n - 1 \in 1..(L - 1) /\ (n - 1) + 1 = n
          BY <3>2
        <5>. QED  BY <3>2, <3>3, <5>1
      <4>2. CASE m.key = k
        <5>1. inbox[i][1].value = last[k]
          <6>1. 1 \in DOMAIN inbox[i] /\ inbox[i][1].key = k
            BY <1>3, <3>2, <4>2
          <6>2. \A p \in DOMAIN inbox[i] : p > 1 => inbox[i][p].key # k
            BY <3>2, <4>1
          <6>. QED  BY <2>4, <6>1, <6>2 DEF Follows
        <5>2. cfg'[i][k] = m.value
          BY <1>1, <1>4, <1>5, <4>2, ApplyLocalFacts
        <5>. QED  BY <1>3, <5>1, <5>2
      <4>3. CASE m.key # k
        <5>1. \A n \in DOMAIN inbox[i] : inbox[i][n].key # k
          BY <1>3, <3>2, <4>1, <4>3
        <5>2. cfg'[i][k] = cfg[i][k]
          <6>1. ApplyLocal(cfg[i], m.key, m.value)[k] = cfg[i][k]
            BY <1>5, <4>3 DEF ApplyLocal
          <6>. QED  BY <1>1, <1>5, <6>1
        <5>. QED  BY <2>4, <5>1, <5>2 DEF Follows
      <4>. QED  BY <4>2, <4>3
    <3>4. ASSUME NEW n \in DOMAIN inbox'[i], inbox'[i][n].key = k,
                 \A p \in DOMAIN inbox'[i] : p > n => inbox'[i][p].key # k
          PROVE  inbox'[i][n].value = last[k]
      <4>1. n + 1 \in DOMAIN inbox[i] /\ inbox[i][n + 1] = inbox'[i][n]
        BY <3>2
      <4>2. ASSUME NEW p \in DOMAIN inbox[i], p > n + 1 PROVE inbox[i][p].key # k
        <5>1. p - 1 \in 1..(L - 1) /\ (p - 1) + 1 = p /\ p - 1 > n
          BY <3>2, <4>2
        <5>. QED  BY <3>2, <3>4, <5>1
      <4>. QED  BY <2>4, <3>4, <4>1, <4>2 DEF Follows
    <3>. QED  BY <1>1, <2>4, <3>3, <3>4 DEF Follows
  <2>. QED  BY <2>1, <2>2, <2>3, <2>4
<1>. QED  BY <1>6, <1>8 DEF DccInv, FollowsOrPending

\* A failed publication leaves the instance that served it behind Redis: it is
\* stale until the next change of the key reaches it.
LEMMA BroadcastFailsPreserves ==
  ASSUME DccInv, NEW r \in Requests, BroadcastFails(r)
  PROVE  DccInv'
<1>. DEFINE m == Head(request[r])
<1>1. /\ TypeOK /\ FollowsOrPending
      /\ request[r] # NoRequest
      /\ stale' = stale \cup {s \in {m.at} \X Keys : s[2] = m.key}
      /\ request' = [request EXCEPT ![r] = NoRequest]
      /\ faults < MaxFaults /\ faults' = faults + 1
      /\ UNCHANGED <<cfg, inbox, client, last, updates>>
  BY DEF BroadcastFails, Fault, DccInv
<1>2. m.at \in Instances
  BY <1>1, RequestHolds
<1>3. request \in [Requests -> {NoRequest} \cup {<<n>> : n \in Message}]
  BY <1>1 DEF TypeOK
<1>4. TypeOK'
  <2>. HIDE DEF m
  <2>1. request' \in [Requests -> {NoRequest} \cup {<<n>> : n \in Message}]
    BY <1>1, <1>3
  <2>2. stale' \subseteq Instances \X Keys
    BY <1>1, <1>2 DEF TypeOK
  <2>3. faults' \in 0..MaxFaults
    BY <1>1, BoundsAssumption DEF TypeOK
  <2>. QED  BY <1>1, <2>1, <2>2, <2>3 DEF TypeOK
<1>5. ASSUME NEW i \in Instances, NEW k \in Keys, <<i, k>> \notin stale'
      PROVE  Pending(i, k)' \/ Follows(i, k)'
  <2>1. Pending(i, k) \/ Follows(i, k)
    BY <1>1, <1>5 DEF FollowsOrPending
  <2>2. CASE Pending(i, k)
    <3>1. ~ (m.at = i /\ m.key = k)
      <4>1. m.at = i => <<i, k>> \in {m.at} \X Keys
        OBVIOUS
      <4>. QED  BY <1>1, <1>5, <4>1
    <3>. QED  BY <1>1, <1>3, <2>2, <3>1, PendingKept
  <2>3. CASE Follows(i, k)
    BY <1>1, <2>3, FollowsKept
  <2>. QED  BY <2>1, <2>2, <2>3
<1>. QED  BY <1>4, <1>5 DEF DccInv, FollowsOrPending

\* A subscription, first or again, and one that fails change no memory; what is
\* missed without one is marked by the publication that is missed.
LEMMA SubscriptionPreserves ==
  ASSUME DccInv, NEW i \in Instances, Subscribe(i) \/ SubscribeFails(i)
  PROVE  DccInv'
<1>1. /\ TypeOK /\ FollowsOrPending
      /\ client' = [client EXCEPT ![i] = "live"] \/ client' = [client EXCEPT ![i] = "deaf"]
      /\ faults' = faults \/ (faults < MaxFaults /\ faults' = faults + 1)
      /\ UNCHANGED <<cfg, request, inbox, last, stale, updates>>
  BY DEF Subscribe, SubscribeFails, Fault, DccInv
<1>2. faults' \in 0..MaxFaults
  BY <1>1, BoundsAssumption DEF TypeOK
<1>3. TypeOK'
  BY <1>1, <1>2 DEF TypeOK, ClientState
<1>4. FollowsOrPending'
  BY <1>1 DEF FollowsOrPending, Follows, Pending
<1>. QED  BY <1>3, <1>4 DEF DccInv

\* A lost connection: the last message about a key is kept, or the key is marked.
LEMMA ConnectionLostPreserves ==
  ASSUME DccInv, NEW i \in Instances, ConnectionLost(i)
  PROVE  DccInv'
<1>1. PICK n \in 0..Len(inbox[i]) :
        /\ inbox' = [inbox EXCEPT ![i] = SubSeq(inbox[i], 1, n)]
        /\ stale' = stale \cup {s \in {i} \X Keys :
                                 \E l \in n + 1..Len(inbox[i]) : inbox[i][l].key = s[2]}
  BY DEF ConnectionLost
<1>2. /\ TypeOK /\ FollowsOrPending
      /\ client' = [client EXCEPT ![i] = "lost"]
      /\ faults < MaxFaults /\ faults' = faults + 1
      /\ UNCHANGED <<cfg, request, last, updates>>
  BY DEF ConnectionLost, Fault, DccInv
<1>3. inbox \in [Instances -> Seq(Message)] /\ inbox[i] \in Seq(Message)
  BY <1>2 DEF TypeOK
<1>4. PICK L \in Nat : L = Len(inbox[i]) /\ DOMAIN inbox[i] = 1..L
  BY <1>3
<1>5. /\ n \in Nat /\ n <= L
      /\ SubSeq(inbox[i], 1, n) \in Seq(Message)
      /\ DOMAIN SubSeq(inbox[i], 1, n) = 1..n
      /\ \A p \in 1..n : SubSeq(inbox[i], 1, n)[p] = inbox[i][p]
  BY <1>3, <1>4
<1>6. /\ inbox' \in [Instances -> Seq(Message)]
      /\ DOMAIN inbox'[i] = 1..n /\ \A p \in 1..n : inbox'[i][p] = inbox[i][p]
      /\ \A j \in Instances \ {i} : inbox'[j] = inbox[j]
  BY <1>1, <1>3, <1>5
<1>7. TypeOK'
  <2>1. faults' \in 0..MaxFaults
    BY <1>2, BoundsAssumption DEF TypeOK
  <2>2. stale' \subseteq Instances \X Keys
    BY <1>1, <1>2 DEF TypeOK
  <2>. QED  BY <1>2, <1>6, <2>1, <2>2 DEF TypeOK, ClientState
<1>8. ASSUME NEW j \in Instances, NEW k \in Keys, <<j, k>> \notin stale'
      PROVE  Pending(j, k)' \/ Follows(j, k)'
  <2>1. Pending(j, k) \/ Follows(j, k)
    BY <1>1, <1>2, <1>8 DEF FollowsOrPending
  <2>2. CASE Pending(j, k)
    BY <1>2, <2>2, PendingKept
  <2>3. CASE Follows(j, k) /\ j # i
    BY <1>2, <1>6, <2>3, FollowsKept
  <2>4. CASE Follows(j, k) /\ j = i
    <3>1. \A l \in n + 1..L : inbox[i][l].key # k
      <4>1. <<i, k>> \in {i} \X Keys /\ <<i, k>>[2] = k
        OBVIOUS
      <4>. QED  BY <1>1, <1>4, <1>8, <2>4, <4>1
    <3>2. ASSUME NEW l \in DOMAIN inbox[i], inbox[i][l].key = k
          PROVE  l \in DOMAIN inbox'[i] /\ inbox'[i][l] = inbox[i][l]
      <4>1. l \in 1..n \/ l \in n + 1..L
        BY <1>4, <1>5
      <4>. QED  BY <1>6, <3>1, <3>2, <4>1
    <3>3. \A l \in DOMAIN inbox'[i] : l \in DOMAIN inbox[i] /\ inbox'[i][l] = inbox[i][l]
      BY <1>4, <1>5, <1>6
    <3>4. ASSUME \A l \in DOMAIN inbox'[i] : inbox'[i][l].key # k
          PROVE  cfg'[i][k] = last'[k]
      <4>1. \A l \in DOMAIN inbox[i] : inbox[i][l].key # k
        BY <3>2, <3>4
      <4>. QED  BY <1>2, <2>4, <4>1 DEF Follows
    <3>5. ASSUME NEW l \in DOMAIN inbox'[i], inbox'[i][l].key = k,
                 \A p \in DOMAIN inbox'[i] : p > l => inbox'[i][p].key # k
          PROVE  inbox'[i][l].value = last'[k]
      <4>1. \A p \in DOMAIN inbox[i] : p > l => inbox[i][p].key # k
        BY <3>2, <3>5
      <4>. QED  BY <1>2, <2>4, <3>3, <3>5, <4>1 DEF Follows
    <3>. QED  BY <2>4, <3>4, <3>5 DEF Follows
  <2>. QED  BY <2>1, <2>2, <2>3, <2>4
<1>. QED  BY <1>7, <1>8 DEF DccInv, FollowsOrPending

\* A restart loses memory, requests and messages of the instance, and marks all
\* its keys.
LEMMA RestartPreserves ==
  ASSUME DccInv, NEW i \in Instances, Restart(i)
  PROVE  DccInv'
<1>1. /\ TypeOK /\ FollowsOrPending
      /\ faults < MaxFaults /\ faults' = faults + 1
      /\ cfg' = [cfg EXCEPT ![i] = [k \in Keys |-> Default]]
      /\ request' = [r \in Requests |->
                       IF request[r] # NoRequest /\ Head(request[r]).at = i
                         THEN NoRequest ELSE request[r]]
      /\ inbox' = [inbox EXCEPT ![i] = <<>>]
      /\ client' = [client EXCEPT ![i] = "new"]
      /\ stale' = stale \cup ({i} \X Keys)
      /\ UNCHANGED <<last, updates>>
  BY DEF Restart, Fault, DccInv
<1>2. /\ cfg \in [Instances -> [Keys -> Values]] /\ inbox \in [Instances -> Seq(Message)]
      /\ request \in [Requests -> {NoRequest} \cup {<<n>> : n \in Message}]
  BY <1>1 DEF TypeOK
<1>3. TypeOK'
  <2>1. cfg' \in [Instances -> [Keys -> Values]]
    BY <1>1, <1>2, KeysAssumption
  <2>2. request' \in [Requests -> {NoRequest} \cup {<<n>> : n \in Message}]
    BY <1>1, <1>2
  <2>3. inbox' \in [Instances -> Seq(Message)]
    <3>1. <<>> \in Seq(Message)
      OBVIOUS
    <3>. QED  BY <1>1, <1>2, <3>1
  <2>4. stale' \subseteq Instances \X Keys
    BY <1>1 DEF TypeOK
  <2>5. faults' \in 0..MaxFaults
    BY <1>1, BoundsAssumption DEF TypeOK
  <2>. QED  BY <1>1, <2>1, <2>2, <2>3, <2>4, <2>5 DEF TypeOK, ClientState
<1>4. ASSUME NEW j \in Instances, NEW k \in Keys, <<j, k>> \notin stale'
      PROVE  Pending(j, k)' \/ Follows(j, k)'
  <2>1. j # i /\ <<j, k>> \notin stale
    <3>1. <<i, k>> \in {i} \X Keys
      OBVIOUS
    <3>. QED  BY <1>1, <1>4, <3>1
  <2>2. cfg'[j] = cfg[j] /\ inbox'[j] = inbox[j]
    BY <1>1, <1>2, <2>1
  <2>3. Pending(j, k) => Pending(j, k)'
    BY <1>1, <2>1, PendingKept
  <2>. QED  BY <1>1, <2>1, <2>2, <2>3, FollowsKept DEF FollowsOrPending
<1>. QED  BY <1>3, <1>4 DEF DccInv, FollowsOrPending

\* The invariant holds in every state, whatever fails and however updates of
\* several instances overlap.
THEOREM DccInvariance == Spec => []DccInv
<1>1. ASSUME DccInv, [Next]_vars PROVE DccInv'
  <2>1. CASE UNCHANGED vars
    BY <1>1, <2>1 DEF vars, DccInv, TypeOK, FollowsOrPending, Follows, Pending
  <2>2. CASE Next
    BY <1>1, <2>2, UpdatePreserves, BroadcastPreserves, BroadcastFailsPreserves,
       ReceivePreserves, SubscriptionPreserves, ConnectionLostPreserves,
       RestartPreserves DEF Next
  <2>. QED  BY <1>1, <2>1, <2>2
<1>. QED  BY <1>1, DccInit, PTL DEF Spec

\* Every variable keeps the shape the code gives it.
THEOREM DccTypeCorrect == Spec => []TypeOK
<1>1. DccInv => TypeOK
  BY DEF DccInv
<1>. QED  BY <1>1, DccInvariance, PTL

\* When nothing about a key is under way, every instance that missed no change
\* of it has the value Redis got last.
THEOREM AgreeWhenQuietCorrect == Spec => []AgreeWhenQuiet
<1>1. ASSUME DccInv PROVE AgreeWhenQuiet
  <2>. SUFFICES ASSUME NEW i \in Instances, NEW k \in Keys, Quiet(k), <<i, k>> \notin stale
                PROVE  cfg[i][k] = last[k]
    BY DEF AgreeWhenQuiet
  <2>1. ~ Pending(i, k)
    BY DEF Quiet, Pending
  <2>2. Follows(i, k)
    BY <1>1, <2>1 DEF DccInv, FollowsOrPending
  <2>. QED  BY <2>2 DEF Follows, Quiet
<1>. QED  BY <1>1, DccInvariance, PTL
=============================================================================
