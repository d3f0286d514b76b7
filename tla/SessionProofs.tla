---------------------------- MODULE SessionProofs ----------------------------
(***************************************************************************)
(* The session's registries, saved status and event streams keep IInv:     *)
(* requests reach the active execution as long as messages do not overlap, *)
(* final statuses are shown of executions that saved one, and what a       *)
(* client gets is in order and, from its subscription on, complete.        *)
(***************************************************************************)
EXTENDS Session, SequenceTheorems, TLAPS

USE StreamAssumption, SessionAssumption

----------------------------------------------------------------------------
\* Sequences.

\* The last MaxStored of one event more than fit.
LEMMA KeepLastIsSuffix ==
    ASSUME NEW S, NEW events \in Seq(S), Len(events) <= MaxStored + 1, events # << >>
    PROVE  /\ KeepLast(events) \in Seq(S)
           /\ KeepLast(events) # << >>
           /\ Len(KeepLast(events)) <= MaxStored
           /\ Len(KeepLast(events)) <= Len(events)
           /\ \A i \in 1..Len(KeepLast(events)) :
                 KeepLast(events)[i] = events[i + (Len(events) - Len(KeepLast(events)))]
<1> DEFINE k == Len(events)
           m == k - MaxStored + 1
<1>1. k \in Nat /\ k >= 1 /\ \A i \in 1..k : events[i] \in S
  OBVIOUS
<1>2. CASE k <= MaxStored
  <2>1. KeepLast(events) = events
    BY <1>2 DEF KeepLast
  <2> QED  BY <1>1, <1>2, <2>1
<1>3. CASE k > MaxStored
  <2>1. KeepLast(events) = SubSeq(events, m, k)
    BY <1>3 DEF KeepLast
  <2>2. k = MaxStored + 1 /\ m = 2 /\ MaxStored >= 1
    BY <1>1, <1>3
  <2>3. /\ SubSeq(events, 2, k) \in Seq(S)
        /\ Len(SubSeq(events, 2, k)) = k - 1
        /\ \A i \in 1..(k - 1) : SubSeq(events, 2, k)[i] = events[i + 1]
    BY <1>1, <2>2
  <2> HIDE DEF k, m
  <2>4. Len(events) - Len(KeepLast(events)) = 1
    BY <1>1, <2>1, <2>2, <2>3 DEF k
  <2>5. KeepLast(events) # << >>
    BY <1>1, <2>1, <2>2, <2>3
  <2> QED  BY <1>1, <2>1, <2>2, <2>3, <2>4, <2>5 DEF k
<1> QED  BY <1>1, <1>2, <1>3

LEMMA RestOfSequence ==
    ASSUME NEW S, NEW s \in Seq(S), NEW i \in 1..Len(s),
           NEW rest, rest = SubSeq(s, i + 1, Len(s))
    PROVE  /\ rest \in Seq(S)
           /\ Len(rest) = Len(s) - i
           /\ \A j \in 1..(Len(s) - i) : rest[j] = s[i + j]
<1> DEFINE m == i + 1
           n == Len(s)
<1>1. /\ m \in Int /\ n \in Int /\ \A j \in m..n : s[j] \in S
  OBVIOUS
<1>2. /\ (n - m) + 1 = n - i /\ (m <= n \/ n - i = 0)
      /\ \A j \in 1..(n - i) : m + (j - 1) = i + j
  OBVIOUS
<1> HIDE DEF m, n
<1>3. /\ SubSeq(s, m, n) \in Seq(S)
      /\ Len(SubSeq(s, m, n)) = IF m <= n THEN n - m + 1 ELSE 0
      /\ \A j \in 1 .. n - m + 1 : SubSeq(s, m, n)[j] = s[m + j - 1]
  BY <1>1, SubSeqProperties
<1>4. /\ SubSeq(s, m, n) \in Seq(S) /\ Len(SubSeq(s, m, n)) = n - i
      /\ \A j \in 1..(n - i) : SubSeq(s, m, n)[j] = s[i + j]
  BY <1>1, <1>2, <1>3
<1> QED  BY <1>4 DEF m, n

\* What fits a queue is put behind what it holds.
LEMMA OfferIsPrefix ==
    ASSUME NEW S, NEW q \in Seq(S), NEW items \in Seq(S), Len(q) <= QueueSize
    PROVE  /\ Offer(q, items) \in Seq(S)
           /\ Len(Offer(q, items)) <= QueueSize
           /\ Len(q) <= Len(Offer(q, items))
           /\ Len(Offer(q, items)) <= Len(q) + Len(items)
           /\ Len(q \o items) <= QueueSize => Len(Offer(q, items)) = Len(q) + Len(items)
           /\ \A i \in 1..Len(Offer(q, items)) : Offer(q, items)[i] =
                 IF i <= Len(q) THEN q[i] ELSE items[i - Len(q)]
<1> DEFINE all == q \o items
           m == Len(q)
           n == Len(items)
<1>1. /\ m \in Nat /\ n \in Nat /\ all \in Seq(S) /\ Len(all) = m + n
      /\ \A i \in 1..(m + n) : all[i] = IF i <= m THEN q[i] ELSE items[i - m]
  BY ConcatProperties
<1> HIDE DEF all
<1>2. CASE Len(all) <= QueueSize
  <2>1. Offer(q, items) = all
    BY <1>1, <1>2 DEF Offer, all
  <2> QED  BY <1>1, <1>2, <2>1 DEF all
<1>3. CASE Len(all) > QueueSize
  <2>1. Offer(q, items) = SubSeq(all, 1, QueueSize)
    BY <1>3 DEF Offer, all
  <2>2. QueueSize \in Nat /\ QueueSize <= m + n
    BY <1>1, <1>3
  <2>3. /\ SubSeq(all, 1, QueueSize) \in Seq(S)
        /\ Len(SubSeq(all, 1, QueueSize)) = QueueSize
        /\ \A i \in 1..QueueSize : SubSeq(all, 1, QueueSize)[i] = all[i]
    BY <1>1, <2>2
  <2> QED  BY <1>1, <1>3, <2>1, <2>2, <2>3 DEF all
<1> QED  BY <1>1, <1>2, <1>3
----------------------------------------------------------------------------
\* The store.

StoreOK ==
    /\ counter \in [Outputs -> Nat]
    /\ store \in Seq(Event) /\ Len(store) <= MaxStored
    /\ StoreIsRecent /\ StoreIsOrdered

\* What the outputs have counted never decreases, and by one for the output
\* that emits.
LEMMA RecordCounts ==
    ASSUME StoreOK, NEW s \in Outputs, Record(s)
    PROVE  /\ counter' \in [Outputs -> Nat]
           /\ counter[s] \in Nat /\ counter'[s] = counter[s] + 1
           /\ \A t \in Outputs \ {s} : counter'[t] = counter[t]
           /\ NextEvent(s) \in Event
           /\ NextEvent(s).out = s /\ NextEvent(s).id = counter'[s]
  BY DEF StoreOK, Record, NextEvent, Event

LEMMA RecordKeepsStore == ASSUME StoreOK, NEW s \in Outputs, Record(s) PROVE StoreOK'
<1> DEFINE e == NextEvent(s)
           all == Append(store, e)
           new == KeepLast(all)
           n == Len(store)
           k == (n + 1) - Len(new)
<1>1. /\ counter' \in [Outputs -> Nat]
      /\ counter[s] \in Nat /\ counter'[s] = counter[s] + 1
      /\ \A t \in Outputs \ {s} : counter'[t] = counter[t]
      /\ e \in Event /\ e.out = s /\ e.id = counter'[s]
  BY RecordCounts
<1>2. store \in Seq(Event) /\ n \in Nat /\ n <= MaxStored /\ \A i \in 1..n : store[i] \in Event
  BY DEF StoreOK
<1> HIDE DEF e
<1>3. /\ all \in Seq(Event) /\ all # << >> /\ Len(all) = n + 1
      /\ all[n + 1] = e /\ \A i \in 1..n : all[i] = store[i]
  BY <1>1, <1>2
<1> HIDE DEF all, n
<1>4. /\ new \in Seq(Event) /\ new # << >>
      /\ Len(new) <= MaxStored /\ Len(new) <= n + 1
      /\ \A i \in 1..Len(new) : new[i] = all[i + k]
  BY <1>2, <1>3, KeepLastIsSuffix, SMTT(30)
<1>5. store' = new
  BY DEF Record, all, e
<1> HIDE DEF new
<1>6. /\ Len(new) \in Nat /\ Len(new) >= 1 /\ k \in Nat /\ Len(new) + k = n + 1
      /\ DOMAIN store' = 1..Len(new)
      /\ \A i \in 1..Len(new) : store'[i] = all[i + k] /\ i + k \in 1..(n + 1)
      /\ store'[Len(new)] = e
  <2>1. Len(new) \in Nat /\ Len(new) >= 1 /\ DOMAIN new = 1..Len(new)
    BY <1>4
  <2>2. k \in Nat /\ Len(new) + k = n + 1 /\ \A i \in 1..Len(new) : i + k \in 1..(n + 1)
    BY <1>2, <1>4, <2>1
  <2> QED  BY <1>3, <1>4, <1>5, <2>1, <2>2
<1> HIDE DEF k
<1>7. \A i \in 1..n : store[i].out \in Outputs /\ store[i].id \in Nat /\ store[i].id <= counter[store[i].out]
  BY <1>2 DEF StoreOK, StoreIsOrdered, Emitted, Event, n
<1>8. \A i \in 1..n : store[i].id <= counter'[store[i].out] /\ (store[i].out = s => store[i].id < e.id)
  BY <1>1, <1>7
<1>9. StoreIsOrdered'
  <2>1. \A i, j \in 1..(n + 1) : i < j /\ all[i].out = all[j].out => all[i].id < all[j].id
    <3> TAKE i, j \in 1..(n + 1)
    <3> HAVE i < j /\ all[i].out = all[j].out
    <3>1. CASE j \in 1..n
      <4>1. i \in 1..n
        BY <1>2, <3>1
      <4>2. store[i].id < store[j].id
        <5>1. store[i].out = store[j].out
          BY <1>3, <3>1, <4>1
        <5>2. i \in DOMAIN store /\ j \in DOMAIN store
          BY <1>2, <3>1, <4>1 DEF n
        <5> QED  BY <5>1, <5>2 DEF StoreOK, StoreIsOrdered, InOrder
      <4> QED  BY <1>3, <3>1, <4>1, <4>2
    <3>2. CASE j = n + 1
      <4>1. i \in 1..n
        BY <1>2, <3>2
      <4> QED  BY <1>1, <1>3, <1>8, <3>2, <4>1
    <3> QED  BY <1>2, <3>1, <3>2
  <2>2. \A i \in 1..(n + 1) : all[i].id <= counter'[all[i].out]
    BY <1>1, <1>2, <1>3, <1>8
  <2>3. InOrder(store)'
    <3> SUFFICES ASSUME NEW i \in 1..Len(new), NEW j \in 1..Len(new), i < j, store'[i].out = store'[j].out
                 PROVE  store'[i].id < store'[j].id
      BY <1>6 DEF InOrder
    <3>1. i + k < j + k
      BY <1>6
    <3> QED  BY <1>6, <2>1, <3>1
  <2>4. Emitted(store)'
    BY <1>6, <2>2 DEF Emitted
  <2> QED  BY <2>3, <2>4 DEF StoreIsOrdered
<1>10. StoreIsRecent'
  <2> SUFFICES ASSUME NEW i \in 1..Len(new)
               PROVE  IF \E j \in 1..Len(new) : j > i /\ store'[j].out = store'[i].out
                      THEN \E j \in 1..Len(new) :
                              j > i /\ store'[j] = [out |-> store'[i].out, id |-> store'[i].id + 1]
                      ELSE store'[i].id = counter'[store'[i].out]
    BY <1>6 DEF StoreIsRecent
  <2> DEFINE t == store'[i].out
  <2>1. CASE i = Len(new)
    BY <1>1, <1>6, <2>1
  <2>2. CASE i # Len(new)
    <3>1. i + k \in 1..n /\ i < Len(new)
      BY <1>2, <1>6, <2>2
    <3>2. store'[i] = store[i + k]
      BY <1>3, <1>6, <3>1
    <3>3. CASE \E j \in 1..n : j > i + k /\ store[j].out = t
      <4>1. PICK j \in 1..n : j > i + k /\ store[j] = [out |-> t, id |-> store[i + k].id + 1]
        BY <3>1, <3>2, <3>3 DEF StoreOK, StoreIsRecent, n
      <4>2. j - k \in 1..Len(new) /\ j - k > i /\ (j - k) + k = j
        <5>1. n \in Nat /\ k \in Nat /\ Len(new) \in Nat /\ Len(new) + k = n + 1
          BY <1>2, <1>6
        <5>2. j \in 1..n /\ j > i + k /\ i \in 1..Len(new)
          BY <4>1
        <5> QED  BY <5>1, <5>2
      <4>3. store'[j - k] = store[j]
        BY <1>3, <1>6, <4>1, <4>2
      <4>4. store'[j - k].out = t
        BY <4>1, <4>3
      <4> QED  BY <3>2, <4>1, <4>2, <4>3, <4>4
    <3>4. CASE ~\E j \in 1..n : j > i + k /\ store[j].out = t
      <4>1. store[i + k].id = counter[t]
        BY <3>1, <3>2, <3>4 DEF StoreOK, StoreIsRecent, n
      <4>2. CASE t = s
        <5>1. e = [out |-> t, id |-> store'[i].id + 1]
          BY <1>1, <3>2, <4>1, <4>2 DEF Event
        <5>2. Len(new) \in 1..Len(new) /\ Len(new) > i /\ store'[Len(new)].out = t
          BY <1>1, <1>6, <3>1, <4>2
        <5> QED  BY <1>6, <5>1, <5>2
      <4>3. CASE t # s
        <5>1. \A j \in 1..Len(new) : j > i => store'[j].out # t
          <6> TAKE j \in 1..Len(new)
          <6> HAVE j > i
          <6>1. CASE j = Len(new)
            BY <1>1, <1>6, <4>3, <6>1
          <6>2. CASE j # Len(new)
            <7>1. j + k \in 1..n /\ j + k > i + k
              BY <1>2, <1>6, <6>2
            <7>2. store'[j] = store[j + k]
              BY <1>3, <1>6, <7>1
            <7> QED  BY <3>4, <7>1, <7>2
          <6> QED  BY <6>1, <6>2
        <5>2. t \in Outputs
          BY <1>7, <3>1, <3>2
        <5> QED  BY <1>1, <3>2, <4>1, <4>3, <5>1, <5>2
      <4> QED  BY <4>2, <4>3
    <3> QED  BY <3>3, <3>4
  <2> QED  BY <2>1, <2>2
<1> QED  BY <1>1, <1>4, <1>5, <1>9, <1>10 DEF StoreOK

----------------------------------------------------------------------------
\* One client.

ClientTypes(c) ==
    /\ mode[c] \in Connected \cup {"away"}
    /\ source[c] \in Outputs \cup {NoOutput}
    /\ source[c] = NoOutput <=> mode[c] = "away"
    /\ c \in subscribed => mode[c] = "live"
    /\ replay[c] \in [events : Seq(Event), since : {NoId} \cup Nat]
    /\ queue[c] \in Seq(Event \cup {End}) /\ Len(queue[c]) <= QueueSize
    /\ received[c] \in Seq(Event)
    /\ lastId[c] \in {NoId} \cup Nat
    /\ joined[c] \in Nat

ReceivedOK(c) ==
    \A i, j \in DOMAIN received[c] :
        i < j /\ (\A k \in 1..j : received[c][k].out = received[c][j].out) =>
            received[c][i].id < received[c][j].id

CompleteOK(c) ==
    c \in subscribed /\ ~overflowed[c] =>
        \A n \in joined[c] + 1 .. counter[source[c]] :
            \E e \in Range(received[c]) \cup Range(queue[c]) :
                e = [out |-> source[c], id |-> n]

ClientOK(c) ==
    /\ ClientTypes(c)
    /\ QueueIsOrdered(c) /\ ComesInOrder(c) /\ ReceivedOK(c) /\ CompleteOK(c)

\* The end marker is no event.
LEMMA EndIsNoEvent == End \notin Event /\ \A e \in Event : e.out \in Outputs /\ e.id \in Nat \ {0}
  BY DEF End, Event, NoOutput

\* A client that nothing is put in the queue of, though counters may grow.
LEMMA QuietClient ==
    ASSUME NEW c \in Clients, ClientOK(c),
           counter \in [Outputs -> Nat], counter' \in [Outputs -> Nat],
           \A s \in Outputs : counter[s] <= counter'[s],
           mode'[c] = mode[c], source'[c] = source[c], replay'[c] = replay[c],
           queue'[c] = queue[c], lastId'[c] = lastId[c], received'[c] = received[c],
           joined'[c] = joined[c], overflowed'[c] = overflowed[c],
           c \in subscribed' => c \in subscribed /\ counter'[source[c]] = counter[source[c]]
    PROVE  ClientOK(c)'
<1>1. ClientTypes(c)'
  BY DEF ClientOK, ClientTypes
<1>2. QueueIsOrdered(c)'
  <2> SUFFICES ASSUME NEW i \in DOMAIN queue[c], NEW j \in DOMAIN queue[c]
               PROVE  /\ mode'[c] = "live"
                      /\ queue[c][i] # End =>
                            queue[c][i].out = source[c] /\ queue[c][i].id <= counter'[source[c]]
                      /\ i < j => queue[c][i] # End
                      /\ i < j /\ queue[c][j] # End => queue[c][i].id < queue[c][j].id
                      /\ c \in subscribed' => queue[c][i] # End
    BY DEF QueueIsOrdered
  <2>1. mode[c] = "live" /\ source[c] \in Outputs
    BY DEF ClientOK, ClientTypes, QueueIsOrdered
  <2>2. queue[c][i] \in Event \cup {End}
    BY DEF ClientOK, ClientTypes
  <2>3. queue[c][i] # End => queue[c][i].id <= counter'[source[c]]
    BY <2>1, <2>2, EndIsNoEvent DEF ClientOK, QueueIsOrdered
  <2> QED  BY <2>1, <2>3 DEF ClientOK, QueueIsOrdered
<1>3. ComesInOrder(c)'
  <2>1. ASSUME NEW events \in Seq(Event), Emitted(events)
        PROVE  \A i \in DOMAIN events : events[i].id <= counter'[events[i].out]
    <3> TAKE i \in DOMAIN events
    <3>1. events[i] \in Event
      OBVIOUS
    <3>2. events[i].out \in Outputs /\ events[i].id \in Nat
      BY <3>1, EndIsNoEvent
    <3>3. events[i].id <= counter[events[i].out]
      BY <2>1 DEF Emitted
    <3>4. /\ counter[events[i].out] \in Nat /\ counter'[events[i].out] \in Nat
          /\ counter[events[i].out] <= counter'[events[i].out]
      BY <3>2
    <3> QED  BY <3>2, <3>3, <3>4
  <2>2. Emitted(received[c])' /\ Emitted(replay[c].events)'
    BY <2>1 DEF ClientOK, ClientTypes, ComesInOrder, Emitted
  <2>3. InOrder(replay[c].events)'
    BY DEF ClientOK, ComesInOrder, InOrder
  <2>4. ToReplay(c)' = ToReplay(c)
    BY DEF ToReplay, Missed
  <2>5. \A s \in Outputs : OnlyFrom(c, s)' <=> OnlyFrom(c, s)
    BY DEF OnlyFrom
  <2>6. \A s \in Outputs : OnlyFrom(c, s) =>
          /\ \A i \in ToReplay(c) :
                replay[c].events[i].out = s => replay[c].events[i].id > lastId[c]
          /\ \A i \in DOMAIN queue[c] :
                queue[c][i].out = s => queue[c][i].id > lastId[c]
    BY DEF ClientOK, ComesInOrder
  <2>7. /\ mode'[c] # "replaying" => replay'[c] = NoReplay
        /\ IF received'[c] = << >> THEN lastId'[c] = NoId /\ mode'[c] # "replaying"
           ELSE lastId'[c] = Last(received'[c]).id
    BY DEF ClientOK, ComesInOrder
  <2>8. (\A s \in Outputs : OnlyFrom(c, s) =>
          /\ \A i \in ToReplay(c) :
                replay[c].events[i].out = s => replay[c].events[i].id > lastId[c]
          /\ \A i \in DOMAIN queue[c] :
                queue[c][i].out = s => queue[c][i].id > lastId[c])'
    BY <2>4, <2>5, <2>6
  <2> QED  BY <2>2, <2>3, <2>7, <2>8 DEF ComesInOrder
<1>4. ReceivedOK(c)'
  BY DEF ClientOK, ReceivedOK
<1>5. CompleteOK(c)'
  BY DEF ClientOK, CompleteOK
<1> QED  BY <1>1, <1>2, <1>3, <1>4, <1>5 DEF ClientOK

\* A client that leaves.
LEMMA LeftClient ==
    ASSUME NEW c \in Clients, ClientOK(c), UNCHANGED counter,
           mode'[c] = "away", source'[c] = NoOutput, replay'[c] = NoReplay,
           queue'[c] = << >>, lastId'[c] = lastId[c], received'[c] = received[c],
           joined'[c] = 0, overflowed'[c] = FALSE, c \notin subscribed'
    PROVE  ClientOK(c)'
<1>1. /\ NoReplay \in [events : Seq(Event), since : {NoId} \cup Nat]
      /\ NoReplay.events = << >> /\ << >> \in Seq(Event \cup {End}) /\ Len(<< >>) = 0
  BY DEF NoReplay
<1>2. ClientTypes(c)'
  BY <1>1 DEF ClientOK, ClientTypes, Connected
<1>3. QueueIsOrdered(c)'
  BY DEF QueueIsOrdered
<1>4. ComesInOrder(c)'
  <2>1. DOMAIN NoReplay.events = {} /\ DOMAIN queue'[c] = {}
    BY <1>1
  <2>2. Emitted(received[c])'
    BY DEF ClientOK, ComesInOrder, Emitted
  <2>3. Emitted(replay[c].events)' /\ InOrder(replay[c].events)' /\ ToReplay(c)' = {}
    BY <2>1 DEF Emitted, InOrder, ToReplay, Missed
  <2> QED  BY <2>1, <2>2, <2>3 DEF ClientOK, ComesInOrder, OnlyFrom
<1>5. ReceivedOK(c)'
  BY DEF ClientOK, ReceivedOK
<1>6. CompleteOK(c)'
  BY DEF CompleteOK
<1> QED  BY <1>2, <1>3, <1>4, <1>5, <1>6 DEF ClientOK

\* A client that subscribes, after its replay or without one.
LEMMA SubscribedClient ==
    ASSUME NEW c \in Clients, ClientOK(c), UNCHANGED counter, counter \in [Outputs -> Nat],
           source[c] \in Outputs,
           mode'[c] = "live", source'[c] = source[c], replay'[c] = NoReplay,
           queue'[c] = << >>, lastId'[c] = lastId[c], received'[c] = received[c],
           joined'[c] = counter[source[c]]
    PROVE  ClientOK(c)'
<1>1. /\ NoReplay \in [events : Seq(Event), since : {NoId} \cup Nat]
      /\ NoReplay.events = << >> /\ << >> \in Seq(Event \cup {End}) /\ Len(<< >>) = 0
  BY DEF NoReplay
<1>2. ClientTypes(c)'
  <2>1. source[c] # NoOutput /\ counter[source[c]] \in Nat /\ 0 <= QueueSize
    BY DEF NoOutput
  <2>2. /\ received[c] \in Seq(Event) /\ lastId[c] \in {NoId} \cup Nat
    BY DEF ClientOK, ClientTypes
  <2> QED  BY <1>1, <2>1, <2>2 DEF ClientTypes, Connected
<1>3. QueueIsOrdered(c)'
  BY DEF QueueIsOrdered
<1>4. ComesInOrder(c)'
  <2>1. DOMAIN NoReplay.events = {} /\ DOMAIN queue'[c] = {}
    BY <1>1
  <2>2. Emitted(received[c])'
    BY DEF ClientOK, ComesInOrder, Emitted
  <2>3. Emitted(replay[c].events)' /\ InOrder(replay[c].events)' /\ ToReplay(c)' = {}
    BY <2>1 DEF Emitted, InOrder, ToReplay, Missed
  <2> QED  BY <2>1, <2>2, <2>3 DEF ClientOK, ComesInOrder, OnlyFrom
<1>5. ReceivedOK(c)'
  BY DEF ClientOK, ReceivedOK
<1>6. CompleteOK(c)'
  BY DEF CompleteOK
<1> QED  BY <1>2, <1>3, <1>4, <1>5, <1>6 DEF ClientOK

\* A client that asks for a stream.
LEMMA OpenedClient ==
    ASSUME NEW c \in Clients, ClientOK(c), UNCHANGED counter, NEW s \in Outputs,
           mode[c] \notin Connected,
           mode'[c] = "opening", source'[c] = s, replay'[c] = replay[c],
           queue'[c] = queue[c], lastId'[c] = lastId[c], received'[c] = received[c],
           joined'[c] = joined[c], c \notin subscribed'
    PROVE  ClientOK(c)'
<1>1. DOMAIN queue[c] = {} /\ replay[c] = NoReplay /\ s # NoOutput
  BY DEF ClientOK, ClientTypes, QueueIsOrdered, ComesInOrder, Connected, NoOutput
<1>2. ClientTypes(c)'
  BY <1>1 DEF ClientOK, ClientTypes, Connected
<1>3. QueueIsOrdered(c)'
  BY <1>1 DEF QueueIsOrdered
<1>4. ComesInOrder(c)'
  <2>1. Emitted(received[c])' /\ Emitted(replay[c].events)' /\ InOrder(replay[c].events)'
    BY DEF ClientOK, ComesInOrder, Emitted, InOrder
  <2>2. ToReplay(c)' = {} /\ DOMAIN queue'[c] = {}
    BY <1>1 DEF ToReplay, Missed, NoReplay
  <2>3. IF received'[c] = << >> THEN lastId'[c] = NoId /\ mode'[c] # "replaying"
        ELSE lastId'[c] = Last(received'[c]).id
    BY DEF ClientOK, ComesInOrder
  <2> QED  BY <1>1, <2>1, <2>2, <2>3 DEF ComesInOrder
<1>5. ReceivedOK(c)'
  BY DEF ClientOK, ReceivedOK
<1>6. CompleteOK(c)'
  BY DEF CompleteOK
<1> QED  BY <1>2, <1>3, <1>4, <1>5, <1>6 DEF ClientOK

\* A client that has something to be replayed.
LEMMA ResumedClient ==
    ASSUME NEW c \in Clients, ClientOK(c), StoreOK, UNCHANGED counter,
           mode[c] = "opening", lastId[c] # NoId,
           mode'[c] = "replaying", source'[c] = source[c],
           replay'[c] = [events |-> store, since |-> lastId[c]],
           queue'[c] = queue[c], lastId'[c] = lastId[c], received'[c] = received[c],
           joined'[c] = joined[c], c \notin subscribed'
    PROVE  ClientOK(c)'
<1>1. DOMAIN queue[c] = {}
  BY DEF ClientOK, QueueIsOrdered
<1>2. /\ [events |-> store, since |-> lastId[c]] \in [events : Seq(Event), since : {NoId} \cup Nat]
      /\ replay'[c].events = store /\ replay'[c].since = lastId[c]
  BY DEF ClientOK, ClientTypes, StoreOK
<1>3. ClientTypes(c)'
  BY <1>2 DEF ClientOK, ClientTypes, Connected
<1>4. QueueIsOrdered(c)'
  BY <1>1 DEF QueueIsOrdered
<1>5. ComesInOrder(c)'
  <2>1. Emitted(received[c])'
    BY DEF ClientOK, ComesInOrder, Emitted
  <2>2. Emitted(replay[c].events)' /\ InOrder(replay[c].events)'
    BY <1>2 DEF StoreOK, StoreIsOrdered, Emitted, InOrder
  <2>3. received[c] # << >> /\ lastId'[c] = Last(received'[c]).id
    BY DEF ClientOK, ComesInOrder
  <2>4. \A i \in ToReplay(c)' : replay'[c].events[i].id > lastId'[c]
    BY <1>2 DEF ToReplay, Missed
  <2> QED  BY <1>1, <2>1, <2>2, <2>3, <2>4 DEF ComesInOrder
<1>6. ReceivedOK(c)'
  BY DEF ClientOK, ReceivedOK
<1>7. CompleteOK(c)'
  BY DEF CompleteOK
<1> QED  BY <1>3, <1>4, <1>5, <1>6, <1>7 DEF ClientOK

\* An event more, newer than lastId if it comes from the one output that the
\* client has heard of.
LEMMA ReceivedMore ==
    ASSUME NEW c \in Clients, ClientOK(c), UNCHANGED counter, NEW e \in Event,
           e.id <= counter[e.out], OnlyFrom(c, e.out) => e.id > lastId[c],
           received'[c] = Append(received[c], e), lastId'[c] = e.id
    PROVE  /\ received'[c] \in Seq(Event) /\ received'[c] # << >>
           /\ lastId'[c] \in Nat /\ lastId'[c] = Last(received'[c]).id
           /\ Emitted(received[c])'
           /\ ReceivedOK(c)'
           /\ Range(received'[c]) = Range(received[c]) \cup {e}
           /\ \A s \in Outputs : OnlyFrom(c, s)' => e.out = s /\ OnlyFrom(c, s)
<1> DEFINE r == received[c]
           n == Len(received[c])
<1>1. r \in Seq(Event) /\ n \in Nat /\ DOMAIN r = 1..n
  BY DEF ClientOK, ClientTypes
<1>2. /\ received'[c] \in Seq(Event) /\ received'[c] # << >>
      /\ Len(received'[c]) = n + 1 /\ DOMAIN received'[c] = 1..(n + 1)
      /\ received'[c][n + 1] = e /\ \A i \in 1..n : received'[c][i] = r[i]
  BY <1>1
<1> HIDE DEF r, n
<1>3. lastId'[c] \in Nat /\ lastId'[c] = Last(received'[c]).id
  BY <1>2, EndIsNoEvent DEF Last
<1>4. Emitted(received[c])'
  <2>1. Emitted(r)
    BY DEF ClientOK, ComesInOrder, r
  <2>2. \A i \in 1..(n + 1) : i \in 1..n \/ i = n + 1
    BY <1>1
  <2> QED  BY <1>1, <1>2, <2>1, <2>2 DEF Emitted
<1>5. Range(received'[c]) = Range(received[c]) \cup {e}
  <2>1. Range(received'[c]) = {received'[c][i] : i \in 1..(n + 1)}
    BY <1>2 DEF Range
  <2>2. Range(received[c]) = {r[i] : i \in 1..n}
    BY <1>1 DEF Range, r
  <2>3. \A i \in 1..(n + 1) : i \in 1..n \/ i = n + 1
    BY <1>1
  <2>4. n + 1 \in 1..(n + 1) /\ 1..n \subseteq 1..(n + 1)
    BY <1>1
  <2> QED  BY <1>2, <2>1, <2>2, <2>3, <2>4
<1>6. \A s \in Outputs : OnlyFrom(c, s)' => e.out = s /\ OnlyFrom(c, s)
  <2>1. n + 1 \in 1..(n + 1) /\ 1..n \subseteq 1..(n + 1)
    BY <1>1
  <2> QED  BY <1>1, <1>2, <2>1 DEF OnlyFrom, r
<1>7. ReceivedOK(c)'
  <2> SUFFICES ASSUME NEW i \in 1..(n + 1), NEW j \in 1..(n + 1), i < j,
                      \A k \in 1..j : received'[c][k].out = received'[c][j].out
               PROVE  received'[c][i].id < received'[c][j].id
    BY <1>2 DEF ReceivedOK
  <2>1. CASE j \in 1..n
    <3>1. i \in 1..n /\ \A k \in 1..j : k \in 1..n /\ r[k].out = r[j].out
      BY <1>1, <1>2, <2>1
    <3>2. r[i].id < r[j].id
      BY <1>1, <2>1, <3>1 DEF ClientOK, ReceivedOK, r
    <3> QED  BY <1>2, <2>1, <3>1, <3>2
  <2>2. CASE j = n + 1
    <3>1. i \in 1..n /\ n >= 1 /\ n \in 1..n
      BY <1>1, <2>2
    <3>2. \A k \in 1..n : r[k].out = e.out
      BY <1>1, <1>2, <2>2
    <3>3. e.id > lastId[c]
      BY <1>1, <3>2 DEF OnlyFrom, r
    <3>4. r # << >> /\ lastId[c] = r[n].id
      <4>1. r # << >>
        BY <1>1, <3>1 DEF n, r
      <4> QED  BY <4>1 DEF ClientOK, ComesInOrder, Last, r, n
    <3>5. r[i].id <= r[n].id
      <4>1. r[i] \in Event /\ r[n] \in Event
        BY <1>1, <3>1
      <4>2. CASE i = n
        BY <4>1, <4>2, EndIsNoEvent
      <4>3. CASE i < n
        <5>1. r[i].id < r[n].id
          BY <1>1, <3>1, <3>2, <4>3 DEF ClientOK, ReceivedOK, r
        <5> QED  BY <4>1, <5>1, EndIsNoEvent
      <4> QED  BY <1>1, <3>1, <4>2, <4>3
    <3>6. r[i].id \in Nat /\ r[n].id \in Nat /\ e.id \in Nat
      BY <1>1, <3>1, EndIsNoEvent
    <3> QED  BY <1>2, <2>2, <3>1, <3>3, <3>4, <3>5, <3>6, SMTT(30)
  <2>3. j \in 1..n \/ j = n + 1
    BY <1>1, SMTT(30)
  <2> QED  BY <2>1, <2>2, <2>3
<1> QED  BY <1>2, <1>3, <1>4, <1>5, <1>6, <1>7

\* A client that is sent the next missed event.
LEMMA ReplayedClient ==
    ASSUME NEW c \in Clients, ClientOK(c), UNCHANGED counter,
           mode[c] = "replaying", NEW i \in ToReplay(c),
           NEW e, e = replay[c].events[i],
           received'[c] = Append(received[c], e), lastId'[c] = e.id,
           replay'[c] = [replay[c] EXCEPT
                            !.events = SubSeq(@, i + 1, Len(@))],
           mode'[c] = mode[c], source'[c] = source[c], queue'[c] = queue[c],
           joined'[c] = joined[c], c \in subscribed' => c \in subscribed
    PROVE  ClientOK(c)'
<1> DEFINE old == replay[c].events
           new == replay'[c].events
           n == Len(old)
<1>1. /\ old \in Seq(Event) /\ replay[c].since \in {NoId} \cup Nat /\ n \in Nat
      /\ replay[c] \in [events : Seq(Event), since : {NoId} \cup Nat]
      /\ DOMAIN old = 1..n /\ i \in 1..n /\ e = old[i] /\ e \in Event
  <2>1. replay[c] \in [events : Seq(Event), since : {NoId} \cup Nat]
    BY DEF ClientOK, ClientTypes
  <2>2. old \in Seq(Event) /\ DOMAIN old = 1..n /\ n \in Nat
    BY <2>1
  <2>3. i \in DOMAIN old
    BY DEF ToReplay, Missed
  <2> QED  BY <2>1, <2>2, <2>3
<1>2. /\ new = SubSeq(old, i + 1, n)
      /\ replay'[c] = [events |-> new, since |-> replay[c].since]
  BY <1>1
<1> HIDE DEF old, new, n
<1>3. /\ new \in Seq(Event) /\ Len(new) = n - i /\ DOMAIN new = 1..(n - i)
      /\ \A j \in 1..(n - i) : new[j] = old[i + j] /\ i + j \in 1..n /\ i < i + j
  <2>1. /\ new \in Seq(Event) /\ Len(new) = n - i
        /\ \A j \in 1..(n - i) : new[j] = old[i + j]
    <3>1. old \in Seq(Event) /\ i \in 1..Len(old)
      BY <1>1 DEF n
    <3>2. new = SubSeq(old, i + 1, Len(old))
      BY <1>2 DEF n
    <3> QED  BY <3>1, <3>2, RestOfSequence, SMTT(30) DEF n
  <2>2. i \in Nat /\ n \in Nat /\ 1 <= i /\ i <= n
    BY <1>1
  <2>3. \A j \in 1..(n - i) : i + j \in 1..n /\ i < i + j
    BY <2>2, SMTT(30)
  <2> QED  BY <2>1, <2>2, <2>3
<1>4. Emitted(old) /\ InOrder(old) /\ e.id <= counter[e.out]
  BY <1>1 DEF ClientOK, ComesInOrder, Emitted, old
<1>5. e.out \in Outputs /\ e.id \in Nat /\ DOMAIN queue[c] = {} /\ c \notin subscribed
  BY <1>1, EndIsNoEvent DEF ClientOK, ClientTypes, QueueIsOrdered
<1>6. OnlyFrom(c, e.out) => e.id > lastId[c]
  BY <1>1, <1>5 DEF ClientOK, ComesInOrder, old
<1>7. /\ received'[c] \in Seq(Event) /\ received'[c] # << >>
      /\ lastId'[c] \in Nat /\ lastId'[c] = Last(received'[c]).id
      /\ Emitted(received[c])'
      /\ ReceivedOK(c)'
      /\ \A s \in Outputs : OnlyFrom(c, s)' => e.out = s /\ OnlyFrom(c, s)
  BY <1>1, <1>4, <1>6, ReceivedMore
<1>8. ClientTypes(c)'
  <2>1. replay'[c] \in [events : Seq(Event), since : {NoId} \cup Nat]
    <3>1. new \in Seq(Event) /\ replay[c].since \in {NoId} \cup Nat
      BY <1>1, <1>3
    <3>2. [events |-> new, since |-> replay[c].since] \in [events : Seq(Event), since : {NoId} \cup Nat]
      BY <3>1
    <3> QED  BY <1>2, <3>2
  <2> QED  BY <1>5, <1>7, <2>1 DEF ClientOK, ClientTypes
<1>9. QueueIsOrdered(c)'
  BY <1>5 DEF QueueIsOrdered
<1>10. ComesInOrder(c)'
  <2>1. Emitted(replay[c].events)'
    <3>1. \A j \in DOMAIN new : new[j].id <= counter[new[j].out]
      BY <1>1, <1>3, <1>4, SMTT(30) DEF Emitted
    <3> QED  BY <3>1 DEF Emitted, new
  <2>2. InOrder(replay[c].events)'
    <3> SUFFICES ASSUME NEW j \in 1..(n - i), NEW k \in 1..(n - i), j < k, new[j].out = new[k].out
                 PROVE  new[j].id < new[k].id
      BY <1>3 DEF InOrder, new
    <3>1. i + j < i + k /\ i + j \in DOMAIN old /\ i + k \in DOMAIN old
      BY <1>1, <1>3
    <3> QED  BY <1>3, <1>4, <3>1, SMTT(30) DEF InOrder
  <2>3. ASSUME NEW j \in DOMAIN new, new[j].out = e.out PROVE new[j].id > e.id
    <3>1. i \in DOMAIN old /\ i + j \in DOMAIN old /\ i < i + j /\ new[j] = old[i + j]
      BY <1>1, <1>3
    <3>2. old[i].id < old[i + j].id
      BY <1>1, <1>4, <2>3, <3>1 DEF InOrder
    <3>3. old[i + j] \in Event
      BY <1>1, <3>1
    <3> QED  BY <1>1, <1>5, <3>1, <3>2, <3>3, EndIsNoEvent
  <2>4. \A s \in Outputs : OnlyFrom(c, s)' =>
           /\ \A j \in ToReplay(c)' : new[j].out = s => new[j].id > lastId'[c]
           /\ \A j \in DOMAIN queue'[c] : queue'[c][j].out = s => queue'[c][j].id > lastId'[c]
    <3>1. ToReplay(c)' \subseteq DOMAIN new
      BY DEF ToReplay, Missed, new
    <3> QED  BY <1>5, <1>7, <2>3, <3>1
  <2> QED  BY <1>7, <2>1, <2>2, <2>4 DEF ComesInOrder, new
<1>11. CompleteOK(c)'
  BY <1>5 DEF CompleteOK
<1> QED  BY <1>7, <1>8, <1>9, <1>10, <1>11 DEF ClientOK

\* A client that is sent the next event of its queue.
LEMMA ServedClient ==
    ASSUME NEW c \in Clients, ClientOK(c), UNCHANGED counter,
           mode[c] = "live", queue[c] # << >>, NEW e, e = Head(queue[c]), e # End,
           received'[c] = Append(received[c], e), lastId'[c] = e.id,
           queue'[c] = Tail(queue[c]), replay'[c] = replay[c],
           mode'[c] = mode[c], source'[c] = source[c],
           joined'[c] = joined[c], overflowed'[c] = overflowed[c],
           c \in subscribed' => c \in subscribed
    PROVE  ClientOK(c)'
<1> DEFINE old == queue[c]
           new == queue'[c]
           n == Len(old)
<1>1. /\ old \in Seq(Event \cup {End}) /\ n \in Nat /\ n >= 1 /\ n <= QueueSize /\ DOMAIN old = 1..n
      /\ e = old[1] /\ e \in Event
  <2>1. old \in Seq(Event \cup {End}) /\ old # << >> /\ n <= QueueSize
    BY DEF ClientOK, ClientTypes
  <2>2. n \in Nat /\ n >= 1 /\ DOMAIN old = 1..n /\ e = old[1] /\ old[1] \in Event \cup {End}
    BY <2>1
  <2> QED  BY <2>1, <2>2
<1>2. /\ new \in Seq(Event \cup {End}) /\ Len(new) = n - 1 /\ DOMAIN new = 1..(n - 1)
      /\ \A i \in 1..(n - 1) : new[i] = old[i + 1]
  BY <1>1
<1> HIDE DEF old, new, n
<1>3. \A i \in 1..(n - 1) : i + 1 \in DOMAIN old /\ 1 \in DOMAIN old /\ 1 < i + 1
  BY <1>1
<1>4. 1 \in DOMAIN old /\ e.out = source[c] /\ e.id <= counter[e.out]
      /\ e.out \in Outputs /\ e.id \in Nat
  BY <1>1, EndIsNoEvent, SMTT(30) DEF ClientOK, QueueIsOrdered, old
<1>5. OnlyFrom(c, e.out) => e.id > lastId[c]
  BY <1>1, <1>4 DEF ClientOK, ComesInOrder, old
<1>6. /\ received'[c] \in Seq(Event) /\ received'[c] # << >>
      /\ lastId'[c] \in Nat /\ lastId'[c] = Last(received'[c]).id
      /\ Emitted(received[c])'
      /\ ReceivedOK(c)'
      /\ Range(received'[c]) = Range(received[c]) \cup {e}
      /\ \A s \in Outputs : OnlyFrom(c, s)' => e.out = s /\ OnlyFrom(c, s)
  BY <1>1, <1>4, <1>5, ReceivedMore
<1>7. ClientTypes(c)'
  <2>1. queue'[c] \in Seq(Event \cup {End}) /\ Len(queue'[c]) <= QueueSize
    BY <1>1, <1>2 DEF new
  <2> QED  BY <1>6, <2>1 DEF ClientOK, ClientTypes
<1>8. QueueIsOrdered(c)'
  <2> SUFFICES ASSUME NEW i \in 1..(n - 1), NEW j \in 1..(n - 1)
               PROVE  /\ mode'[c] = "live"
                      /\ new[i] # End =>
                            new[i].out = source'[c] /\ new[i].id <= counter'[source'[c]]
                      /\ i < j => new[i] # End
                      /\ i < j /\ new[j] # End => new[i].id < new[j].id
                      /\ c \in subscribed' => new[i] # End
    BY <1>2 DEF QueueIsOrdered, new
  <2>1. i + 1 \in DOMAIN old /\ j + 1 \in DOMAIN old /\ (i < j => i + 1 < j + 1)
    BY <1>1
  <2> QED  BY <1>2, <2>1 DEF ClientOK, QueueIsOrdered, old
<1>9. ComesInOrder(c)'
  <2>1. Emitted(replay[c].events)' /\ InOrder(replay[c].events)' /\ replay'[c] = NoReplay
    BY DEF ClientOK, ComesInOrder, Emitted, InOrder
  <2>2. ToReplay(c)' = {}
    BY <2>1 DEF ToReplay, Missed, NoReplay
  <2>3. ASSUME NEW i \in DOMAIN new, new[i].out = e.out PROVE new[i].id > e.id
    <3>1. new[i] = old[i + 1] /\ i + 1 \in DOMAIN old /\ 1 < i + 1 /\ old[i + 1] \in Event \cup {End}
      BY <1>1, <1>2, <1>3
    <3>2. new[i] # End
      BY <1>4, <2>3 DEF End, NoOutput
    <3>3. old[1].id < old[i + 1].id
      BY <1>4, <3>1, <3>2 DEF ClientOK, QueueIsOrdered, old
    <3> QED  BY <1>1, <1>4, <3>1, <3>2, <3>3, EndIsNoEvent
  <2>4. \A s \in Outputs : OnlyFrom(c, s)' =>
           \A i \in DOMAIN queue'[c] : queue'[c][i].out = s => queue'[c][i].id > lastId'[c]
    BY <1>6, <2>3 DEF new
  <2> QED  BY <1>6, <2>1, <2>2, <2>4 DEF ComesInOrder
<1>10. CompleteOK(c)'
  <2> SUFFICES ASSUME c \in subscribed, ~overflowed[c],
                      NEW m \in joined[c] + 1 .. counter[source[c]]
               PROVE  \E x \in Range(received'[c]) \cup Range(new) : x = [out |-> source[c], id |-> m]
    BY DEF CompleteOK, new
  <2>1. PICK x \in Range(received[c]) \cup Range(old) : x = [out |-> source[c], id |-> m]
    BY DEF ClientOK, CompleteOK, old
  <2>2. CASE x \in Range(received[c]) \/ x = e
    BY <1>6, <2>1, <2>2
  <2>3. CASE x \in Range(old) /\ x # e
    <3>1. PICK k \in 1..n : x = old[k]
      BY <1>1, <2>3 DEF Range
    <3>2. k # 1
      BY <1>1, <2>3, <3>1
    <3>3. k - 1 \in 1..(n - 1) /\ new[k - 1] = x
      BY <1>1, <1>2, <3>1, <3>2
    <3>4. x \in Range(new)
      BY <1>2, <3>3 DEF Range
    <3> QED  BY <2>1, <3>4
  <2> QED  BY <2>1, <2>2, <2>3
<1> QED  BY <1>6, <1>7, <1>8, <1>9, <1>10 DEF ClientOK

\* What an output puts in its subscribers' queues: the event it emits, the end
\* marker, or both.
Offered(s, items) ==
    /\ items \in Seq(Event \cup {End})
    /\ \A i, j \in DOMAIN items :
          /\ items[i] # End =>
                i = 1 /\ items[i].out = s /\ items[i].id = counter[s] + 1 /\ counter'[s] = counter[s] + 1
          /\ i < j => items[i] # End

\* A subscriber of the output that emits or closes.
LEMMA OfferedClient ==
    ASSUME NEW c \in Clients, ClientOK(c), NEW s \in Outputs, NEW items, Offered(s, items),
           counter \in [Outputs -> Nat], counter' \in [Outputs -> Nat],
           \A t \in Outputs : counter[t] <= counter'[t],
           c \in subscribed, source[c] = s,
           c \in subscribed' => items = <<NextEvent(s)>>,
           queue'[c] = Offer(queue[c], items),
           overflowed'[c] = (overflowed[c] \/ Len(queue[c] \o items) > QueueSize),
           mode'[c] = mode[c], source'[c] = source[c], replay'[c] = replay[c],
           lastId'[c] = lastId[c], received'[c] = received[c], joined'[c] = joined[c]
    PROVE  ClientOK(c)'
<1> DEFINE old == queue[c]
           new == queue'[c]
           m == Len(old)
<1>1. old \in Seq(Event \cup {End}) /\ m \in Nat /\ m <= QueueSize /\ DOMAIN old = 1..m
  <2>1. old \in Seq(Event \cup {End}) /\ m <= QueueSize
    BY DEF ClientOK, ClientTypes
  <2> QED  BY <2>1
<1>2. /\ new \in Seq(Event \cup {End}) /\ Len(new) <= QueueSize /\ m <= Len(new)
      /\ Len(new) <= m + Len(items)
      /\ Len(old \o items) <= QueueSize => Len(new) = m + Len(items)
      /\ \A i \in 1..Len(new) : new[i] = IF i <= m THEN old[i] ELSE items[i - m]
  BY <1>1, OfferIsPrefix, SMTT(30) DEF Offered
<1>3. /\ Len(new) \in Nat /\ Len(items) \in Nat
      /\ DOMAIN new = 1..Len(new) /\ DOMAIN items = 1..Len(items)
  BY <1>2 DEF Offered
<1> HIDE DEF old, new, m
<1>4. \A i \in 1..Len(new) : i \in 1..m \/ i - m \in 1..Len(items)
  <2>1. m \in Nat /\ Len(new) \in Nat /\ Len(items) \in Nat /\ Len(new) <= m + Len(items)
    BY <1>1, <1>2, <1>3
  <2> QED  BY <2>1
<1>5. \A i \in 1..Len(new) : i \in 1..m => new[i] = old[i]
  <2>1. \A i \in 1..m : i <= m
    BY <1>1
  <2>2. \A i \in 1..Len(new) : new[i] = IF i <= m THEN old[i] ELSE items[i - m]
    BY <1>2
  <2> QED  BY <2>1, <2>2
<1>6. \A i \in 1..Len(new) : i \notin 1..m =>
         /\ i > m /\ new[i] = items[i - m] /\ i - m \in DOMAIN items
         /\ new[i] # End => /\ i = m + 1 /\ new[i].out = s
                            /\ new[i].id = counter[s] + 1 /\ counter'[s] = counter[s] + 1
  <2> TAKE i \in 1..Len(new)
  <2> HAVE i \notin 1..m
  <2>1. i > m /\ new[i] = items[i - m] /\ i - m \in DOMAIN items
    BY <1>1, <1>2, <1>3, <1>4
  <2>2. i - m = 1 => i = m + 1
    BY <1>1, <1>3
  <2> QED  BY <2>1, <2>2 DEF Offered
<1>7. \A i \in 1..m : /\ old[i] # End /\ old[i] \in Event
                      /\ old[i].out = s /\ old[i].id \in Nat /\ old[i].id <= counter[s]
  <2> TAKE i \in 1..m
  <2>1. i \in DOMAIN queue[c] /\ old[i] \in Event \cup {End}
    BY <1>1 DEF old
  <2>2. old[i] # End
    BY <2>1 DEF ClientOK, QueueIsOrdered, old
  <2>3. old[i].out = s /\ old[i].id <= counter[s]
    BY <2>1, <2>2 DEF ClientOK, QueueIsOrdered, old
  <2> QED  BY <2>1, <2>2, <2>3, EndIsNoEvent
<1>8. counter[s] \in Nat /\ counter'[s] \in Nat /\ counter[s] <= counter'[s] /\ mode[c] = "live"
  BY DEF ClientOK, ClientTypes
<1>9. ClientTypes(c)'
  <2>1. queue'[c] \in Seq(Event \cup {End}) /\ Len(queue'[c]) <= QueueSize
    BY <1>2 DEF new
  <2> QED  BY <2>1 DEF ClientOK, ClientTypes
<1>10. QueueIsOrdered(c)'
  <2> SUFFICES ASSUME NEW i \in 1..Len(new), NEW j \in 1..Len(new)
               PROVE  /\ new[i] # End => new[i].out = s /\ new[i].id <= counter'[s]
                      /\ i < j => new[i] # End
                      /\ i < j /\ new[j] # End => new[i].id < new[j].id
                      /\ c \in subscribed' => new[i] # End
    BY <1>3, <1>8 DEF QueueIsOrdered, new
  <2>1. new[i] # End => new[i].out = s /\ new[i].id <= counter'[s]
    BY <1>5, <1>6, <1>7, <1>8
  <2>2. i < j => new[i] # End
    <3> HAVE i < j
    <3>1. CASE i \in 1..m
      BY <1>5, <1>7, <3>1
    <3>2. CASE i \notin 1..m
      <4>1. j \notin 1..m /\ i - m < j - m
        BY <1>1, <1>3, <3>2
      <4> QED  BY <1>6, <3>2, <4>1 DEF Offered
    <3> QED  BY <3>1, <3>2
  <2>3. i < j /\ new[j] # End => new[i].id < new[j].id
    <3> HAVE i < j /\ new[j] # End
    <3>1. CASE j \in 1..m
      <4>1. i \in 1..m
        BY <1>1, <1>3, <3>1
      <4>2. old[i].id < old[j].id
        BY <1>1, <1>7, <3>1, <4>1 DEF ClientOK, QueueIsOrdered, old
      <4> QED  BY <1>5, <3>1, <4>1, <4>2
    <3>2. CASE j \notin 1..m
      <4>1. j = m + 1 /\ new[j].id = counter[s] + 1
        BY <1>6, <3>2
      <4>2. i \in 1..m
        BY <1>1, <1>3, <4>1
      <4> QED  BY <1>5, <1>7, <1>8, <4>1, <4>2
    <3> QED  BY <3>1, <3>2
  <2>4. c \in subscribed' => new[i] # End
    <3> HAVE c \in subscribed'
    <3>1. \A k \in DOMAIN items : items[k] # End
      <4>1. items = <<NextEvent(s)>> /\ DOMAIN items = {1} /\ items[1] = NextEvent(s)
        OBVIOUS
      <4>2. NextEvent(s) # End
        BY DEF NextEvent, End, NoOutput
      <4> QED  BY <4>1, <4>2
    <3>2. CASE i \in 1..m
      <4>1. new[i] = old[i]
        BY <1>5, <3>2
      <4> QED  BY <1>7, <3>2, <4>1
    <3>3. CASE i \notin 1..m
      <4>1. new[i] = items[i - m] /\ i - m \in DOMAIN items
        BY <1>6, <3>3
      <4> QED  BY <3>1, <4>1
    <3> QED  BY <3>2, <3>3
  <2> QED  BY <2>1, <2>2, <2>3, <2>4
<1>11. ComesInOrder(c)'
  <2>1. ASSUME NEW events \in Seq(Event), Emitted(events)
        PROVE  \A i \in DOMAIN events : events[i].id <= counter'[events[i].out]
    <3> TAKE i \in DOMAIN events
    <3>1. events[i] \in Event
      OBVIOUS
    <3>2. events[i].out \in Outputs /\ events[i].id \in Nat
      BY <3>1, EndIsNoEvent
    <3>3. events[i].id <= counter[events[i].out]
      BY <2>1 DEF Emitted
    <3>4. /\ counter[events[i].out] \in Nat /\ counter'[events[i].out] \in Nat
          /\ counter[events[i].out] <= counter'[events[i].out]
      BY <3>2
    <3> QED  BY <3>2, <3>3, <3>4
  <2>2. replay'[c] = NoReplay /\ replay[c] = NoReplay
    BY <1>8 DEF ClientOK, ComesInOrder
  <2>3. Emitted(received[c])' /\ Emitted(replay[c].events)' /\ InOrder(replay[c].events)'
    BY <2>1, <2>2 DEF ClientOK, ClientTypes, ComesInOrder, Emitted, InOrder, NoReplay
  <2>4. ToReplay(c)' = {}
    BY <2>2 DEF ToReplay, Missed, NoReplay
  <2>5. IF received'[c] = << >> THEN lastId'[c] = NoId /\ mode'[c] # "replaying"
        ELSE lastId'[c] = Last(received'[c]).id
    BY DEF ClientOK, ComesInOrder
  <2>6. ASSUME NEW t \in Outputs, OnlyFrom(c, t), NEW i \in 1..Len(new), new[i].out = t
        PROVE  new[i].id > lastId[c]
    <3>1. new[i] # End
      BY <2>6 DEF End, NoOutput
    <3>2. CASE i \in 1..m
      BY <1>1, <1>5, <2>6, <3>2 DEF ClientOK, ComesInOrder, old
    <3>3. CASE i \notin 1..m
      <4>1. t = s /\ new[i].id = counter[s] + 1
        BY <1>6, <2>6, <3>1, <3>3
      <4>2. CASE received[c] = << >>
        <5>1. lastId[c] = -1
          BY <4>2 DEF ClientOK, ComesInOrder, NoId
        <5> QED  BY <1>8, <4>1, <5>1
      <4>3. CASE received[c] # << >>
        <5> DEFINE l == Len(received[c])
        <5>1. l \in DOMAIN received[c] /\ received[c][l] \in Event /\ lastId[c] = received[c][l].id
          BY <4>3 DEF ClientOK, ClientTypes, ComesInOrder, Last
        <5>2. received[c][l].out = s
          BY <2>6, <4>1, <5>1 DEF OnlyFrom
        <5>3. received[c][l].id <= counter[s]
          BY <5>1, <5>2 DEF ClientOK, ComesInOrder, Emitted
        <5> QED  BY <1>8, <4>1, <5>1, <5>3, EndIsNoEvent
      <4> QED  BY <4>2, <4>3
    <3> QED  BY <3>2, <3>3
  <2>7. \A t \in Outputs : OnlyFrom(c, t)' <=> OnlyFrom(c, t)
    BY DEF OnlyFrom
  <2>8. \A t \in Outputs : OnlyFrom(c, t)' =>
           \A i \in DOMAIN queue'[c] : queue'[c][i].out = t => queue'[c][i].id > lastId'[c]
    BY <1>3, <2>6, <2>7 DEF new
  <2> QED  BY <2>2, <2>3, <2>4, <2>5, <2>8 DEF ComesInOrder
<1>12. ReceivedOK(c)'
  BY DEF ClientOK, ReceivedOK
<1>13. CompleteOK(c)'
  <2> SUFFICES ASSUME c \in subscribed', ~overflowed'[c],
                      NEW n \in joined[c] + 1 .. counter'[s]
               PROVE  \E x \in Range(received[c]) \cup Range(new) : x = [out |-> s, id |-> n]
    BY DEF CompleteOK, new
  <2>1. items = <<NextEvent(s)>> /\ Len(items) = 1 /\ items[1] = NextEvent(s) /\ 1 \in DOMAIN items
    OBVIOUS
  <2>2. NextEvent(s) # End /\ NextEvent(s) = [out |-> s, id |-> counter[s] + 1]
    BY DEF NextEvent, End, NoOutput
  <2>3. counter'[s] = counter[s] + 1
    BY <2>1, <2>2 DEF Offered
  <2>4. ~overflowed[c] /\ ~(Len(old \o items) > QueueSize)
    BY DEF old
  <2>5. Len(old \o items) \in Nat
    BY <1>1, <1>3, ConcatProperties DEF Offered, m
  <2>6. Len(new) = m + 1
    BY <1>2, <2>1, <2>4, <2>5
  <2>7. new[m + 1] = [out |-> s, id |-> counter[s] + 1] /\ m + 1 \in DOMAIN new
    BY <1>1, <1>2, <1>3, <2>1, <2>2, <2>6
  <2>8. CASE n = counter[s] + 1
    BY <2>7, <2>8 DEF Range
  <2>9. CASE n <= counter[s]
    <3>1. n \in joined[c] + 1 .. counter[s]
      BY <1>8, <2>9 DEF ClientOK, ClientTypes
    <3>2. PICK x \in Range(received[c]) \cup Range(old) : x = [out |-> s, id |-> n]
      BY <2>4, <3>1 DEF ClientOK, CompleteOK, old
    <3>3. Range(old) \subseteq Range(new)
      <4> SUFFICES ASSUME NEW i \in DOMAIN old PROVE old[i] \in Range(new)
        BY DEF Range
      <4>1. i \in 1..m /\ i \in DOMAIN new
        BY <1>1, <1>3, <2>6
      <4>2. new[i] = old[i]
        BY <1>5, <4>1
      <4> QED  BY <4>1, <4>2 DEF Range
    <3> QED  BY <3>2, <3>3
  <2>10. n \in Int /\ n <= counter[s] + 1
    BY <1>8, <2>3 DEF ClientOK, ClientTypes
  <2> QED  BY <1>8, <2>8, <2>9, <2>10
<1> QED  BY <1>9, <1>10, <1>11, <1>12, <1>13 DEF ClientOK

----------------------------------------------------------------------------
\* The streams and all their clients.

IsClientFunction(f) == f = [c \in Clients |-> f[c]]

StreamShape ==
    /\ closed \subseteq Outputs /\ subscribed \subseteq Clients
    /\ IsClientFunction(mode) /\ IsClientFunction(source) /\ IsClientFunction(replay)
    /\ IsClientFunction(queue) /\ IsClientFunction(received) /\ IsClientFunction(lastId)
    /\ IsClientFunction(joined) /\ overflowed \in [Clients -> BOOLEAN]
    /\ endDropped \subseteq Clients

StreamOK == StreamShape /\ StoreOK /\ \A c \in Clients : ClientOK(c)

\* The part of IInv that is about the streams.
StreamPart ==
    /\ StreamTypeOK /\ StoreIsRecent /\ StoreIsOrdered
    /\ \A c \in Clients : QueueIsOrdered(c) /\ ComesInOrder(c)
    /\ ReceivedInOrder /\ SubscribedMissesNothing

LEMMA StreamPartIsOK == ASSUME StreamPart, closed \subseteq Outputs PROVE StreamOK
<1>1. StreamShape
  BY DEF StreamPart, StreamTypeOK, StreamShape, IsClientFunction
<1>2. StoreOK
  BY DEF StreamPart, StreamTypeOK, StoreOK
<1>3. ASSUME NEW c \in Clients PROVE ClientOK(c)
  <2>1. ClientTypes(c)
    BY <1>3 DEF StreamPart, StreamTypeOK, ClientTypes
  <2>2. QueueIsOrdered(c) /\ ComesInOrder(c)
    BY <1>3 DEF StreamPart
  <2>3. ReceivedOK(c)
    BY <1>3 DEF StreamPart, ReceivedInOrder, ReceivedOK
  <2>4. CompleteOK(c)
    BY <1>3 DEF StreamPart, SubscribedMissesNothing, CompleteOK
  <2> QED  BY <2>1, <2>2, <2>3, <2>4 DEF ClientOK
<1> QED  BY <1>1, <1>2, <1>3 DEF StreamOK

LEMMA OKIsStreamPart == StreamOK => StreamPart
<1> SUFFICES ASSUME StreamOK PROVE StreamPart
  OBVIOUS
<1>1. \A c \in Clients : ClientTypes(c)
  BY DEF StreamOK, ClientOK
<1>2. StreamTypeOK
  <2>1. counter \in [Outputs -> Nat] /\ closed \subseteq Outputs /\ store \in Seq(Event) /\ Len(store) <= MaxStored
    BY DEF StreamOK, StreamShape, StoreOK
  <2>2. subscribed \subseteq {c \in Clients : mode[c] = "live"}
    BY <1>1 DEF StreamOK, StreamShape, ClientTypes
  <2>3. mode \in [Clients -> Connected \cup {"away"}] /\ source \in [Clients -> Outputs \cup {NoOutput}]
    BY <1>1 DEF StreamOK, StreamShape, ClientTypes, IsClientFunction
  <2>4. \A c \in Clients : (source[c] = NoOutput <=> mode[c] = "away") /\ Len(queue[c]) <= QueueSize
    BY <1>1 DEF ClientTypes
  <2>5. replay \in [Clients -> [events : Seq(Event), since : {NoId} \cup Nat]]
    BY <1>1 DEF StreamOK, StreamShape, ClientTypes, IsClientFunction
  <2>6. queue \in [Clients -> Seq(Event \cup {End})] /\ received \in [Clients -> Seq(Event)]
    BY <1>1 DEF StreamOK, StreamShape, ClientTypes, IsClientFunction
  <2>7. lastId \in [Clients -> {NoId} \cup Nat] /\ joined \in [Clients -> Nat]
    BY <1>1 DEF StreamOK, StreamShape, ClientTypes, IsClientFunction
  <2>8. overflowed \in [Clients -> BOOLEAN] /\ endDropped \subseteq Clients
    BY DEF StreamOK, StreamShape
  <2> QED  BY <2>1, <2>2, <2>3, <2>4, <2>5, <2>6, <2>7, <2>8 DEF StreamTypeOK
<1>3. StoreIsRecent /\ StoreIsOrdered
  BY DEF StreamOK, StoreOK
<1>4. \A c \in Clients : QueueIsOrdered(c) /\ ComesInOrder(c)
  BY DEF StreamOK, ClientOK
<1>5. ReceivedInOrder
  BY DEF StreamOK, ClientOK, ReceivedOK, ReceivedInOrder
<1>6. SubscribedMissesNothing
  BY DEF StreamOK, StreamShape, ClientOK, CompleteOK, SubscribedMissesNothing
<1> QED  BY <1>2, <1>3, <1>4, <1>5, <1>6 DEF StreamPart

LEMMA StreamInitOK == StreamInit => StreamOK
<1> SUFFICES ASSUME StreamInit PROVE StreamOK
  OBVIOUS
<1> USE DEF StreamInit
<1>1. StreamShape
  BY DEF StreamShape, IsClientFunction
<1>2. StoreOK
  BY DEF StoreOK, StoreIsRecent, StoreIsOrdered, InOrder, Emitted
<1>3. ASSUME NEW c \in Clients PROVE ClientOK(c)
  <2>1. /\ NoReplay \in [events : Seq(Event), since : {NoId} \cup Nat]
        /\ NoReplay.events = << >> /\ << >> \in Seq(Event \cup {End}) /\ Len(<< >>) = 0
        /\ << >> \in Seq(Event) /\ 0 <= QueueSize
    BY DEF NoReplay
  <2>2. ClientTypes(c)
    BY <1>3, <2>1 DEF ClientTypes
  <2>3. QueueIsOrdered(c) /\ ReceivedOK(c) /\ CompleteOK(c)
    BY <1>3 DEF QueueIsOrdered, ReceivedOK, CompleteOK
  <2>4. ComesInOrder(c)
    BY <1>3, <2>1 DEF ComesInOrder, Emitted, InOrder, ToReplay, Missed
  <2> QED  BY <2>2, <2>3, <2>4 DEF ClientOK
<1> QED  BY <1>1, <1>2, <1>3 DEF StreamOK

\* Nothing happens to the streams.
LEMMA StreamStutters == ASSUME StreamOK, UNCHANGED streamVars PROVE StreamOK'
<1>1. /\ StreamShape' /\ counter' = counter /\ StoreOK'
  BY DEF StreamOK, StreamShape, StoreOK, StoreIsRecent, StoreIsOrdered, InOrder, Emitted,
         streamVars, outputVars, clientVars
<1>2. ASSUME NEW c \in Clients PROVE ClientOK(c)'
  BY <1>2, QuietClient DEF StreamOK, StoreOK, streamVars, outputVars, clientVars
<1> QED  BY <1>1, <1>2 DEF StreamOK

----------------------------------------------------------------------------
\* What the outputs do.

LEMMA BroadcastStep ==
    ASSUME StreamOK, NEW s \in Outputs, NEW items, Offered(s, items), Broadcast(s, items),
           StoreOK', \A t \in Outputs : counter[t] <= counter'[t],
           \A t \in Outputs \ {s} : counter'[t] = counter[t],
           UNCHANGED clientVars, closed' \subseteq Outputs, subscribed' \subseteq subscribed,
           \A c \in Subscribers(s) : c \in subscribed' => items = <<NextEvent(s)>>
    PROVE  StreamOK'
<1>1. StreamShape'
  <2>1. IsClientFunction(queue') /\ overflowed' \in [Clients -> BOOLEAN]
    BY DEF StreamOK, StreamShape, Broadcast, IsClientFunction
  <2>2. endDropped' \subseteq Clients
    BY DEF StreamOK, StreamShape, Broadcast, Subscribers
  <2> QED  BY <2>1, <2>2 DEF StreamOK, StreamShape, clientVars, IsClientFunction
<1>2. counter \in [Outputs -> Nat] /\ counter' \in [Outputs -> Nat]
  BY DEF StreamOK, StoreOK
<1>3. ASSUME NEW c \in Clients PROVE ClientOK(c)'
  <2>1. /\ mode'[c] = mode[c] /\ source'[c] = source[c] /\ replay'[c] = replay[c]
        /\ lastId'[c] = lastId[c] /\ received'[c] = received[c] /\ joined'[c] = joined[c]
    BY DEF clientVars
  <2>2. ClientOK(c) /\ overflowed[c] \in BOOLEAN /\ subscribed \subseteq Clients
    BY DEF StreamOK, StreamShape
  <2>3. CASE c \in Subscribers(s)
    <3>1. c \in subscribed /\ source[c] = s
      BY <2>3 DEF Subscribers
    <3>2. /\ queue'[c] = Offer(queue[c], items)
          /\ overflowed'[c] = (overflowed[c] \/ Len(queue[c] \o items) > QueueSize)
      BY <2>2, <2>3 DEF Broadcast
    <3>3. c \in subscribed' => items = <<NextEvent(s)>>
      BY <2>3
    <3> QED  BY <1>2, <2>1, <2>2, <3>1, <3>2, <3>3, OfferedClient
  <2>4. CASE c \notin Subscribers(s)
    <3>1. queue'[c] = queue[c] /\ overflowed'[c] = overflowed[c]
      BY <2>2, <2>4 DEF Broadcast
    <3>2. c \in subscribed' => c \in subscribed /\ counter'[source[c]] = counter[source[c]]
      <4> HAVE c \in subscribed'
      <4>1. c \in subscribed /\ source[c] # s
        BY <2>4 DEF Subscribers
      <4>2. source[c] \in Outputs
        BY <2>2, <4>1 DEF ClientOK, ClientTypes
      <4> QED  BY <4>1, <4>2
    <3> QED  BY <1>2, <2>1, <2>2, <3>1, <3>2, QuietClient
  <2> QED  BY <2>3, <2>4
<1> QED  BY <1>1, <1>3 DEF StreamOK

LEMMA EmitStep == ASSUME StreamOK, NEW s \in Outputs, Emit(s) PROVE StreamOK'
<1>1. StoreOK /\ Record(s)
  BY DEF StreamOK, Emit
<1>2. StoreOK'
  BY <1>1, RecordKeepsStore
<1>3. /\ counter' \in [Outputs -> Nat] /\ counter \in [Outputs -> Nat]
      /\ counter[s] \in Nat /\ counter'[s] = counter[s] + 1
      /\ \A t \in Outputs \ {s} : counter'[t] = counter[t]
      /\ NextEvent(s) \in Event
      /\ NextEvent(s).out = s /\ NextEvent(s).id = counter'[s]
  BY <1>1, RecordCounts DEF StoreOK
<1>4. \A t \in Outputs : counter[t] <= counter'[t]
  BY <1>3
<1>5. Offered(s, <<NextEvent(s)>>)
  BY <1>3 DEF Offered
<1>6. /\ Broadcast(s, <<NextEvent(s)>>) /\ UNCHANGED clientVars
      /\ closed' \subseteq Outputs /\ subscribed' \subseteq subscribed
  BY DEF StreamOK, StreamShape, Emit
<1> QED  BY <1>2, <1>3, <1>4, <1>5, <1>6, BroadcastStep

LEMMA CloseStep == ASSUME StreamOK, NEW s \in Outputs, Close(s) PROVE StreamOK'
<1>1. StoreOK' /\ counter' = counter /\ counter \in [Outputs -> Nat]
  BY DEF StreamOK, Close, StoreOK, StoreIsRecent, StoreIsOrdered, InOrder, Emitted
<1>2. \A t \in Outputs : counter[t] <= counter'[t]
  BY <1>1
<1>3. Offered(s, <<End>>)
  <2>1. <<End>> \in Seq(Event \cup {End}) /\ DOMAIN <<End>> = {1} /\ <<End>>[1] = End
    OBVIOUS
  <2> QED  BY <2>1 DEF Offered
<1>4. /\ Broadcast(s, <<End>>) /\ UNCHANGED clientVars
      /\ closed' \subseteq Outputs /\ subscribed' \subseteq subscribed
      /\ \A c \in Subscribers(s) : c \notin subscribed'
  BY DEF StreamOK, StreamShape, Close
<1> QED  BY <1>1, <1>2, <1>3, <1>4, BroadcastStep

LEMMA EmitAndCloseStep == ASSUME StreamOK, NEW s \in Outputs, EmitAndClose(s) PROVE StreamOK'
<1>1. StoreOK /\ Record(s)
  BY DEF StreamOK, EmitAndClose
<1>2. StoreOK'
  BY <1>1, RecordKeepsStore
<1>3. /\ counter' \in [Outputs -> Nat] /\ counter \in [Outputs -> Nat]
      /\ counter[s] \in Nat /\ counter'[s] = counter[s] + 1
      /\ \A t \in Outputs \ {s} : counter'[t] = counter[t]
      /\ NextEvent(s) \in Event
      /\ NextEvent(s).out = s /\ NextEvent(s).id = counter'[s]
  BY <1>1, RecordCounts DEF StoreOK
<1>4. \A t \in Outputs : counter[t] <= counter'[t]
  BY <1>3
<1>5. Offered(s, <<NextEvent(s), End>>)
  <2> DEFINE items == <<NextEvent(s), End>>
  <2>1. /\ items \in Seq(Event \cup {End}) /\ DOMAIN items = {1, 2}
        /\ items[1] = NextEvent(s) /\ items[2] = End
    BY <1>3
  <2>2. NextEvent(s) # End
    BY <1>3, EndIsNoEvent
  <2> HIDE DEF items
  <2>3. Offered(s, items)
    BY <1>3, <2>1, <2>2 DEF Offered
  <2> QED  BY <2>3 DEF items
<1>6. /\ Broadcast(s, <<NextEvent(s), End>>) /\ UNCHANGED clientVars
      /\ closed' \subseteq Outputs /\ subscribed' \subseteq subscribed
      /\ \A c \in Subscribers(s) : c \notin subscribed'
  BY DEF StreamOK, StreamShape, EmitAndClose
<1> QED  BY <1>2, <1>3, <1>4, <1>5, <1>6, BroadcastStep

----------------------------------------------------------------------------
\* What the clients do.

LEMMA LeaveStep ==
    ASSUME StreamOK, NEW gone, Leave(gone), StoreOK', closed' \subseteq Outputs,
           UNCHANGED <<counter, lastId, received>>
    PROVE  StreamOK'
<1>1. StreamShape'
  BY DEF StreamOK, StreamShape, Leave, IsClientFunction
<1>2. counter \in [Outputs -> Nat]
  BY DEF StreamOK, StoreOK
<1>3. ASSUME NEW c \in Clients PROVE ClientOK(c)'
  <2>1. ClientOK(c) /\ overflowed[c] \in BOOLEAN
    BY DEF StreamOK, StreamShape
  <2>2. CASE c \in gone
    <3>1. /\ mode'[c] = "away" /\ source'[c] = NoOutput /\ replay'[c] = NoReplay
          /\ queue'[c] = << >> /\ joined'[c] = 0 /\ overflowed'[c] = FALSE
          /\ c \notin subscribed'
      BY <2>2 DEF Leave
    <3> QED  BY <2>1, <3>1, LeftClient
  <2>3. CASE c \notin gone
    <3>1. /\ mode'[c] = mode[c] /\ source'[c] = source[c] /\ replay'[c] = replay[c]
          /\ queue'[c] = queue[c] /\ joined'[c] = joined[c]
          /\ overflowed'[c] = overflowed[c] /\ (c \in subscribed' => c \in subscribed)
      BY <2>1, <2>3 DEF Leave
    <3> QED  BY <1>2, <2>1, <3>1, QuietClient
  <2> QED  BY <2>2, <2>3
<1> QED  BY <1>1, <1>3 DEF StreamOK

LEMMA LoseStep == ASSUME StreamOK, Lose PROVE StreamOK'
<1>1. StoreOK'
  BY DEF StreamOK, StoreOK, Lose, StoreIsRecent, StoreIsOrdered, InOrder, Emitted
<1>2. Leave(Clients) /\ closed' \subseteq Outputs /\ UNCHANGED <<counter, lastId, received>>
  BY DEF Lose, StreamOK, StreamShape
<1> QED  BY <1>1, <1>2, LeaveStep

\* Steps of one client leave the outputs and the other clients alone.
OthersUntouched(c) ==
    \A d \in Clients \ {c} :
        /\ mode'[d] = mode[d] /\ source'[d] = source[d] /\ replay'[d] = replay[d]
        /\ queue'[d] = queue[d] /\ lastId'[d] = lastId[d] /\ received'[d] = received[d]
        /\ joined'[d] = joined[d] /\ overflowed'[d] = overflowed[d]
        /\ d \in subscribed' => d \in subscribed

LEMMA OneClientStep ==
    ASSUME StreamOK, StreamShape', NEW c \in Clients, UNCHANGED outputVars,
           OthersUntouched(c), ClientOK(c)'
    PROVE  StreamOK'
<1>1. StoreOK' /\ counter' = counter /\ counter \in [Outputs -> Nat]
  BY DEF StreamOK, StoreOK, StoreIsRecent, StoreIsOrdered, InOrder, Emitted, outputVars
<1>2. ASSUME NEW d \in Clients PROVE ClientOK(d)'
  <2>1. CASE d = c
    BY <2>1
  <2>2. CASE d # c
    <3>1. ClientOK(d)
      BY DEF StreamOK
    <3>2. /\ mode'[d] = mode[d] /\ source'[d] = source[d] /\ replay'[d] = replay[d]
          /\ queue'[d] = queue[d] /\ lastId'[d] = lastId[d] /\ received'[d] = received[d]
          /\ joined'[d] = joined[d] /\ overflowed'[d] = overflowed[d]
          /\ d \in subscribed' => d \in subscribed
      BY <2>2 DEF OthersUntouched
    <3> QED  BY <1>1, <3>1, <3>2, QuietClient
  <2> QED  BY <2>1, <2>2
<1> QED  BY <1>1, <1>2 DEF StreamOK

LEMMA OpenStep ==
    ASSUME StreamOK, NEW c \in Clients, NEW s \in Outputs, Open(c, s) PROVE StreamOK'
<1>1. /\ IsClientFunction(mode) /\ IsClientFunction(source)
      /\ closed \subseteq Outputs /\ subscribed \subseteq Clients
  BY DEF StreamOK, StreamShape
<1>2. /\ IsClientFunction(mode') /\ mode'[c] = "opening"
      /\ \A d \in Clients \ {c} : mode'[d] = mode[d]
  BY <1>1 DEF Open, IsClientFunction
<1>3. /\ IsClientFunction(source') /\ source'[c] = s
      /\ \A d \in Clients \ {c} : source'[d] = source[d]
  BY <1>1 DEF Open, IsClientFunction
<1>4. StreamShape'
  BY <1>2, <1>3 DEF StreamOK, StreamShape, Open, IsClientFunction, outputVars
<1>5. OthersUntouched(c)
  BY <1>2, <1>3 DEF OthersUntouched, Open
<1>6. ClientOK(c) /\ mode[c] \notin Connected /\ UNCHANGED counter /\ c \notin subscribed'
      /\ replay'[c] = replay[c] /\ queue'[c] = queue[c] /\ lastId'[c] = lastId[c]
      /\ received'[c] = received[c] /\ joined'[c] = joined[c]
  BY DEF StreamOK, ClientOK, ClientTypes, Open, outputVars, Connected
<1>7. ClientOK(c)'
  BY <1>2, <1>3, <1>6, OpenedClient
<1> QED  BY <1>4, <1>5, <1>7, OneClientStep DEF Open

LEMMA SubscribeStep ==
    ASSUME StreamOK, NEW c \in Clients, mode[c] \in {"opening", "replaying"},
           Subscribe(c, source[c]), IsClientFunction(replay'), replay'[c] = NoReplay,
           \A d \in Clients \ {c} : replay'[d] = replay[d],
           UNCHANGED <<outputVars, source, lastId, received, overflowed, endDropped>>
    PROVE  StreamOK'
<1>1. /\ IsClientFunction(mode) /\ IsClientFunction(queue) /\ IsClientFunction(joined)
      /\ closed \subseteq Outputs /\ subscribed \subseteq Clients
  BY DEF StreamOK, StreamShape
<1>2. /\ IsClientFunction(mode') /\ mode'[c] = "live"
      /\ \A d \in Clients \ {c} : mode'[d] = mode[d]
  BY <1>1 DEF Subscribe, IsClientFunction
<1>3. /\ IsClientFunction(queue') /\ queue'[c] = << >>
      /\ \A d \in Clients \ {c} : queue'[d] = queue[d]
  BY <1>1 DEF Subscribe, IsClientFunction
<1>4. /\ IsClientFunction(joined') /\ joined'[c] = counter[source[c]]
      /\ \A d \in Clients \ {c} : joined'[d] = joined[d]
  BY <1>1 DEF Subscribe, IsClientFunction
<1>5. subscribed' = subscribed \cup {c}
  BY DEF Subscribe
<1>6. StreamShape'
  BY <1>1, <1>2, <1>3, <1>4, <1>5 DEF StreamOK, StreamShape, IsClientFunction, outputVars
<1>7. OthersUntouched(c)
  BY <1>2, <1>3, <1>4, <1>5 DEF OthersUntouched
<1>8. /\ ClientOK(c) /\ UNCHANGED counter /\ source[c] \in Outputs /\ counter \in [Outputs -> Nat]
      /\ source'[c] = source[c] /\ lastId'[c] = lastId[c] /\ received'[c] = received[c]
  BY DEF StreamOK, StoreOK, ClientOK, ClientTypes, outputVars
<1>9. ClientOK(c)'
  BY <1>2, <1>3, <1>4, <1>8, SubscribedClient
<1> QED  BY <1>6, <1>7, <1>9, OneClientStep

LEMMA ConnectStep == ASSUME StreamOK, NEW c \in Clients, Connect(c) PROVE StreamOK'
<1>1. /\ mode[c] = "opening" /\ replay[c] = NoReplay /\ ClientOK(c) /\ StoreOK
      /\ IsClientFunction(replay) /\ IsClientFunction(mode) /\ c \notin subscribed
  BY DEF StreamOK, StreamShape, ClientOK, ClientTypes, ComesInOrder, Connect
<1>2. CASE lastId[c] # NoId /\ Missed(store, lastId[c]) # {}
  <2>1. /\ replay' = [replay EXCEPT ![c] = [events |-> store, since |-> lastId[c]]]
        /\ mode' = [mode EXCEPT ![c] = "replaying"]
        /\ UNCHANGED <<subscribed, queue, joined, outputVars, source, lastId, received, overflowed, endDropped>>
    BY <1>2 DEF Connect
  <2>2. /\ IsClientFunction(mode') /\ mode'[c] = "replaying"
        /\ \A d \in Clients \ {c} : mode'[d] = mode[d]
    BY <1>1, <2>1 DEF IsClientFunction
  <2>3. /\ IsClientFunction(replay') /\ replay'[c] = [events |-> store, since |-> lastId[c]]
        /\ \A d \in Clients \ {c} : replay'[d] = replay[d]
    BY <1>1, <2>1 DEF IsClientFunction
  <2>4. StreamShape'
    BY <2>1, <2>2, <2>3 DEF StreamOK, StreamShape, IsClientFunction, outputVars
  <2>5. OthersUntouched(c)
    BY <2>1, <2>2, <2>3 DEF OthersUntouched
  <2>6. UNCHANGED counter /\ c \notin subscribed'
    BY <1>1, <2>1 DEF outputVars
  <2>7. ClientOK(c)'
    BY <1>1, <1>2, <2>1, <2>2, <2>3, <2>6, ResumedClient
  <2> QED  BY <2>1, <2>4, <2>5, <2>7, OneClientStep
<1>3. CASE ~(lastId[c] # NoId /\ Missed(store, lastId[c]) # {})
  <2>1. /\ Subscribe(c, source[c]) /\ UNCHANGED replay
        /\ UNCHANGED <<outputVars, source, lastId, received, overflowed, endDropped>>
    BY <1>3 DEF Connect
  <2> QED  BY <1>1, <2>1, SubscribeStep
<1> QED  BY <1>2, <1>3

LEMMA EndReplayStep == ASSUME StreamOK, NEW c \in Clients, EndReplay(c) PROVE StreamOK'
<1>1. /\ mode[c] = "replaying" /\ Subscribe(c, source[c])
      /\ UNCHANGED <<outputVars, source, lastId, received, overflowed, endDropped>>
  BY DEF EndReplay
<1>2. /\ IsClientFunction(replay') /\ replay'[c] = NoReplay
      /\ \A d \in Clients \ {c} : replay'[d] = replay[d]
  BY DEF EndReplay, StreamOK, StreamShape, IsClientFunction
<1> QED  BY <1>1, <1>2, SubscribeStep

LEMMA SendReplayStep == ASSUME StreamOK, NEW c \in Clients, SendReplay(c) PROVE StreamOK'
<1>1. PICK i \in ToReplay(c) :
         /\ Deliver(c, replay[c].events[i])
         /\ replay' = [replay EXCEPT ![c].events = SubSeq(@, i + 1, Len(@))]
  BY DEF SendReplay
<1> DEFINE e == replay[c].events[i]
           rest == [replay[c] EXCEPT !.events = SubSeq(@, i + 1, Len(@))]
<1>2. /\ mode[c] = "replaying"
      /\ UNCHANGED <<outputVars, subscribed, mode, source, joined, queue, overflowed, endDropped>>
  BY DEF SendReplay
<1>3. /\ IsClientFunction(replay) /\ IsClientFunction(received) /\ IsClientFunction(lastId)
      /\ ClientOK(c)
  BY DEF StreamOK, StreamShape
<1>4. /\ IsClientFunction(received') /\ received'[c] = Append(received[c], e)
      /\ \A d \in Clients \ {c} : received'[d] = received[d]
  BY <1>1, <1>3 DEF Deliver, IsClientFunction
<1>5. /\ IsClientFunction(lastId') /\ lastId'[c] = e.id
      /\ \A d \in Clients \ {c} : lastId'[d] = lastId[d]
  BY <1>1, <1>3 DEF Deliver, IsClientFunction
<1>6. replay' = [replay EXCEPT ![c] = rest]
  BY <1>1
<1> HIDE DEF e, rest
<1>7. /\ IsClientFunction(replay') /\ replay'[c] = rest
      /\ \A d \in Clients \ {c} : replay'[d] = replay[d]
  BY <1>3, <1>6 DEF IsClientFunction
<1>8. StreamShape'
  BY <1>2, <1>4, <1>5, <1>7 DEF StreamOK, StreamShape, IsClientFunction, outputVars
<1>9. OthersUntouched(c)
  BY <1>2, <1>4, <1>5, <1>7 DEF OthersUntouched
<1>10. ClientOK(c)'
  <2>1. /\ UNCHANGED counter /\ mode'[c] = mode[c] /\ source'[c] = source[c]
        /\ queue'[c] = queue[c] /\ joined'[c] = joined[c] /\ (c \in subscribed' => c \in subscribed)
    BY <1>2 DEF outputVars
  <2> QED  BY <1>2, <1>3, <1>4, <1>5, <1>7, <2>1, ReplayedClient DEF e, rest
<1> QED  BY <1>2, <1>8, <1>9, <1>10, OneClientStep

LEMMA ReceiveStep == ASSUME StreamOK, NEW c \in Clients, Receive(c) PROVE StreamOK'
<1> DEFINE e == Head(queue[c])
<1>1. /\ mode[c] = "live" /\ queue[c] # << >> /\ e # End /\ Deliver(c, e)
      /\ queue' = [queue EXCEPT ![c] = Tail(@)]
      /\ UNCHANGED <<outputVars, subscribed, mode, source, replay, joined, overflowed, endDropped>>
  BY DEF Receive
<1>2. /\ IsClientFunction(queue) /\ IsClientFunction(received) /\ IsClientFunction(lastId)
      /\ ClientOK(c)
  BY DEF StreamOK, StreamShape
<1>3. /\ IsClientFunction(queue') /\ queue'[c] = Tail(queue[c])
      /\ \A d \in Clients \ {c} : queue'[d] = queue[d]
  BY <1>1, <1>2 DEF IsClientFunction
<1>4. /\ IsClientFunction(received') /\ received'[c] = Append(received[c], e)
      /\ \A d \in Clients \ {c} : received'[d] = received[d]
  BY <1>1, <1>2 DEF Deliver, IsClientFunction
<1>5. /\ IsClientFunction(lastId') /\ lastId'[c] = e.id
      /\ \A d \in Clients \ {c} : lastId'[d] = lastId[d]
  BY <1>1, <1>2 DEF Deliver, IsClientFunction
<1>6. StreamShape'
  BY <1>1, <1>3, <1>4, <1>5 DEF StreamOK, StreamShape, IsClientFunction, outputVars
<1>7. OthersUntouched(c)
  BY <1>1, <1>3, <1>4, <1>5 DEF OthersUntouched
<1>8. ClientOK(c)'
  <2>1. /\ UNCHANGED counter /\ mode'[c] = mode[c] /\ source'[c] = source[c]
        /\ replay'[c] = replay[c] /\ joined'[c] = joined[c] /\ overflowed'[c] = overflowed[c]
        /\ c \in subscribed' => c \in subscribed
    BY <1>1 DEF outputVars
  <2> QED  BY <1>1, <1>2, <1>3, <1>4, <1>5, <2>1, ServedClient
<1> QED  BY <1>1, <1>6, <1>7, <1>8, OneClientStep

LEMMA GoneStep ==
    ASSUME StreamOK, NEW c \in Clients, ReceiveEnd(c) \/ Disconnect(c) PROVE StreamOK'
<1>1. Leave({c}) /\ UNCHANGED <<outputVars, lastId, received>>
  BY DEF ReceiveEnd, Disconnect
<1>2. StoreOK' /\ closed' \subseteq Outputs /\ UNCHANGED <<counter, lastId, received>>
  BY <1>1 DEF StreamOK, StreamShape, StoreOK, StoreIsRecent, StoreIsOrdered, InOrder, Emitted, outputVars
<1> QED  BY <1>1, <1>2, LeaveStep

LEMMA ClientStep ==
    ASSUME StreamOK, NEW c \in Clients, Client(c) \/ Disconnect(c) PROVE StreamOK'
  BY ConnectStep, SendReplayStep, EndReplayStep, ReceiveStep, GoneStep DEF Client

----------------------------------------------------------------------------
\* The clients that an output dropped.

EndPart == \A c \in Clients : EndIsComplete(c)

LEMMA AppendedRange ==
    ASSUME NEW S, NEW q \in Seq(S), NEW e \in S
    PROVE  Range(q) \subseteq Range(Append(q, e)) /\ e \in Range(Append(q, e))
<1> DEFINE all == Append(q, e)
           n == Len(q)
<1>1. /\ n \in Nat /\ DOMAIN q = 1..n /\ DOMAIN all = 1..(n + 1)
      /\ all[n + 1] = e /\ \A i \in 1..n : all[i] = q[i]
  OBVIOUS
<1> HIDE DEF all, n
<1>2. n + 1 \in DOMAIN all /\ \A i \in DOMAIN q : i \in DOMAIN all /\ all[i] = q[i]
  BY <1>1
<1> QED  BY <1>1, <1>2 DEF Range, all

LEMMA TailRange ==
    ASSUME NEW S, NEW q \in Seq(S), q # << >>
    PROVE  /\ Range(q) \subseteq {Head(q)} \cup Range(Tail(q))
           /\ Last(q) # Head(q) => Tail(q) # << >> /\ Last(Tail(q)) = Last(q)
<1> DEFINE rest == Tail(q)
           n == Len(q)
<1>1. /\ n \in Nat /\ n >= 1 /\ DOMAIN q = 1..n /\ Len(rest) = n - 1 /\ DOMAIN rest = 1..(n - 1)
      /\ Head(q) = q[1] /\ \A i \in 1..(n - 1) : rest[i] = q[i + 1]
  OBVIOUS
<1> HIDE DEF rest, n
<1>2. \A i \in DOMAIN q : i = 1 \/ (i - 1 \in DOMAIN rest /\ rest[i - 1] = q[i])
  BY <1>1
<1>3. Range(q) \subseteq {Head(q)} \cup Range(rest)
  BY <1>1, <1>2 DEF Range
<1>4. Last(q) # Head(q) => rest # << >> /\ Last(rest) = Last(q)
  <2> HAVE Last(q) # Head(q)
  <2>1. Last(q) = q[n]
    BY DEF Last, n
  <2>2. n # 1
    BY <1>1, <2>1
  <2>3. n - 1 \in 1..(n - 1) /\ (n - 1) + 1 = n
    BY <1>1, <2>2
  <2>4. Last(rest) = rest[n - 1] /\ rest[n - 1] = q[n]
    BY <1>1, <2>3 DEF Last
  <2>5. rest # << >>
    BY <1>1, <2>3
  <2> QED  BY <2>1, <2>4, <2>5
<1> QED  BY <1>3, <1>4 DEF rest

\* A client stays as it is, and no output it was dropped by emits.
LEMMA StillComplete ==
    ASSUME NEW c \in Clients, EndIsComplete(c), closed \subseteq closed',
           mode'[c] = mode[c], source'[c] = source[c], queue'[c] = queue[c],
           received'[c] = received[c], joined'[c] = joined[c], overflowed'[c] = overflowed[c],
           c \in subscribed => c \in subscribed',
           source[c] \in closed => counter'[source[c]] = counter[source[c]]
    PROVE  EndIsComplete(c)'
<1> SUFFICES ASSUME mode[c] = "live", c \notin subscribed
             PROVE  EndIsComplete(c)'
  BY DEF EndIsComplete
<1>1. source[c] \in closed /\ source'[c] \in closed' /\ counter'[source[c]] = counter[source[c]]
  BY DEF EndIsComplete
<1> QED  BY <1>1 DEF EndIsComplete

\* A client gets the next event of its queue; the end marker stays the last.
LEMMA ServedComplete ==
    ASSUME NEW c \in Clients, ClientOK(c), EndIsComplete(c),
           queue[c] # << >>, NEW e, e = Head(queue[c]), e # End,
           UNCHANGED <<counter, closed, subscribed, mode, source, joined, overflowed, endDropped>>,
           received'[c] = Append(received[c], e), queue'[c] = Tail(queue[c])
    PROVE  EndIsComplete(c)'
<1>1. queue[c] \in Seq(Event \cup {End}) /\ received[c] \in Seq(Event \cup {End}) /\ e \in Event \cup {End}
  BY DEF ClientOK, ClientTypes
<1>2. /\ Range(queue[c]) \subseteq {e} \cup Range(queue'[c])
      /\ Last(queue[c]) = End => queue'[c] # << >> /\ Last(queue'[c]) = End
  BY <1>1, TailRange
<1>3. Range(received[c]) \subseteq Range(received'[c]) /\ e \in Range(received'[c])
  BY <1>1, AppendedRange
<1>4. Range(received[c]) \cup Range(queue[c]) \subseteq Range(received'[c]) \cup Range(queue'[c])
  BY <1>2, <1>3
<1> SUFFICES ASSUME mode[c] = "live", c \notin subscribed, ~overflowed[c]
             PROVE  /\ source[c] \in closed /\ queue'[c] # << >> /\ Last(queue'[c]) = End
                    /\ \A n \in joined[c] + 1 .. counter[source[c]] :
                          \E x \in Range(received'[c]) \cup Range(queue'[c]) :
                              x = [out |-> source[c], id |-> n]
  BY DEF EndIsComplete
<1> QED  BY <1>2, <1>4 DEF EndIsComplete

\* A subscriber of the output that closes: with what it is sent, an event or
\* none and then the end marker, it has everything.
LEMMA DroppedComplete ==
    ASSUME NEW c \in Clients, ClientOK(c), NEW s \in Outputs, NEW items, Offered(s, items),
           items # << >>, Last(items) = End,
           counter \in [Outputs -> Nat],
           counter'[s] # counter[s] =>
              counter'[s] = counter[s] + 1 /\ NextEvent(s) \in Range(items),
           c \in subscribed, source[c] = s, closed' = closed \cup {s},
           queue'[c] = Offer(queue[c], items), overflowed[c] \in BOOLEAN,
           overflowed'[c] = (overflowed[c] \/ Len(queue[c] \o items) > QueueSize),
           source'[c] = source[c], received'[c] = received[c], joined'[c] = joined[c]
    PROVE  EndIsComplete(c)'
<1> DEFINE all == queue[c] \o items
           m == Len(queue[c])
           n == Len(items)
<1>1. queue[c] \in Seq(Event \cup {End}) /\ items \in Seq(Event \cup {End}) /\ joined[c] \in Nat
  BY DEF ClientOK, ClientTypes, Offered
<1>2. /\ m \in Nat /\ n \in Nat /\ n >= 1 /\ DOMAIN queue[c] = 1..m /\ DOMAIN items = 1..n
      /\ Len(all) = m + n /\ DOMAIN all = 1..(m + n)
      /\ \A i \in 1..m : all[i] = queue[c][i]
      /\ \A i \in 1..n : all[m + i] = items[i]
  BY <1>1
<1> HIDE DEF all, m, n
<1>3. \A i \in 1..m : i \in 1..(m + n)
  BY <1>2
<1>4. \A i \in 1..n : m + i \in 1..(m + n)
  BY <1>2
<1>5. Range(queue[c]) \cup Range(items) \subseteq Range(all)
  <2>1. Range(queue[c]) \subseteq Range(all)
    BY <1>2, <1>3 DEF Range
  <2>2. Range(items) \subseteq Range(all)
    <3>1. \A i \in DOMAIN items : m + i \in DOMAIN all /\ items[i] = all[m + i]
      BY <1>2, <1>4
    <3> QED  BY <3>1 DEF Range
  <2> QED  BY <2>1, <2>2
<1>6. all # << >> /\ Last(all) = End
  <2>1. n \in 1..n /\ Last(items) = items[n] /\ Last(all) = all[m + n] /\ m + n \in 1..(m + n)
    BY <1>2 DEF Last, n
  <2> QED  BY <1>2, <2>1
<1>7. ~overflowed'[c] => ~overflowed[c] /\ queue'[c] = all
  BY DEF Offer, all
<1>8. ASSUME ~overflowed[c], NEW i \in joined[c] + 1 .. counter'[s]
      PROVE  [out |-> s, id |-> i] \in Range(received[c]) \cup Range(all)
  <2>1. CASE i \in joined[c] + 1 .. counter[s]
    <3>1. [out |-> s, id |-> i] \in Range(received[c]) \cup Range(queue[c])
      BY <1>8, <2>1 DEF ClientOK, CompleteOK
    <3> QED  BY <1>5, <3>1
  <2>2. CASE i \notin joined[c] + 1 .. counter[s]
    <3>1. counter[s] \in Nat
      OBVIOUS
    <3>2. counter'[s] # counter[s]
      BY <2>2
    <3>3. i = counter[s] + 1
      BY <1>1, <2>2, <3>1, <3>2
    <3>4. [out |-> s, id |-> i] \in Range(items)
      BY <3>2, <3>3 DEF NextEvent
    <3> QED  BY <1>5, <3>4
  <2> QED  BY <2>1, <2>2
<1>9. source'[c] \in closed'
  OBVIOUS
<1> SUFFICES ASSUME ~overflowed'[c]
             PROVE  /\ queue'[c] # << >> /\ Last(queue'[c]) = End
                    /\ \A i \in joined[c] + 1 .. counter'[s] :
                          \E x \in Range(received[c]) \cup Range(queue'[c]) :
                              x = [out |-> s, id |-> i]
  BY <1>9 DEF EndIsComplete
<1> QED  BY <1>6, <1>7, <1>8

\* The output that closes sends its subscribers the end marker behind what it
\* emits, and forgets them; the others it leaves alone.
LEMMA DroppedStep ==
    ASSUME StreamOK, EndPart, NEW s \in Outputs, NEW items, Offered(s, items),
           items # << >>, Last(items) = End, Broadcast(s, items),
           counter'[s] # counter[s] =>
              counter'[s] = counter[s] + 1 /\ NextEvent(s) \in Range(items) /\ s \notin closed,
           \A t \in Outputs \ {s} : counter'[t] = counter[t],
           UNCHANGED clientVars, closed' = closed \cup {s},
           subscribed' = subscribed \ Subscribers(s)
    PROVE  EndPart'
<1> SUFFICES ASSUME NEW c \in Clients PROVE EndIsComplete(c)'
  BY DEF EndPart
<1>1. /\ mode'[c] = mode[c] /\ source'[c] = source[c] /\ received'[c] = received[c]
      /\ joined'[c] = joined[c]
  BY DEF clientVars
<1>2. /\ ClientOK(c) /\ EndIsComplete(c) /\ overflowed[c] \in BOOLEAN
      /\ counter \in [Outputs -> Nat] /\ closed \subseteq Outputs
  BY DEF StreamOK, StreamShape, StoreOK, EndPart
<1>3. CASE c \in Subscribers(s)
  <2>1. c \in subscribed /\ source[c] = s
    BY <1>3 DEF Subscribers
  <2>2. /\ queue'[c] = Offer(queue[c], items)
        /\ overflowed'[c] = (overflowed[c] \/ Len(queue[c] \o items) > QueueSize)
    BY <1>3 DEF Broadcast
  <2> QED  BY <1>1, <1>2, <2>1, <2>2, DroppedComplete
<1>4. CASE c \notin Subscribers(s)
  <2>1. queue'[c] = queue[c] /\ overflowed'[c] = overflowed[c]
    BY <1>2, <1>4 DEF Broadcast
  <2>2. source[c] \in closed => counter'[source[c]] = counter[source[c]]
    <3>1. CASE source[c] = s
      BY <3>1
    <3>2. CASE source[c] # s
      BY <1>2, <3>2
    <3> QED  BY <3>1, <3>2
  <2>3. c \in subscribed => c \in subscribed'
    BY <1>4
  <2> QED  BY <1>1, <1>2, <2>1, <2>2, <2>3, StillComplete
<1> QED  BY <1>3, <1>4

\* Who emits is not closed, so a dropped client misses nothing.
LEMMA EmitEnd ==
    ASSUME StreamOK, EndPart, NEW s \in Outputs \ closed, Emit(s) PROVE EndPart'
<1> SUFFICES ASSUME NEW c \in Clients PROVE EndIsComplete(c)'
  BY DEF EndPart
<1>1. \A t \in Outputs \ {s} : counter'[t] = counter[t]
  BY RecordCounts DEF StreamOK, Emit
<1>2. /\ EndIsComplete(c) /\ closed \subseteq Outputs /\ overflowed[c] \in BOOLEAN
      /\ mode'[c] = mode[c] /\ source'[c] = source[c] /\ received'[c] = received[c]
      /\ joined'[c] = joined[c] /\ closed' = closed /\ subscribed' = subscribed
  BY DEF StreamOK, StreamShape, EndPart, Emit, clientVars
<1>3. CASE c \in subscribed
  BY <1>2, <1>3 DEF EndIsComplete
<1>4. CASE c \notin subscribed
  <2>1. queue'[c] = queue[c] /\ overflowed'[c] = overflowed[c]
    BY <1>2, <1>4 DEF Emit, Broadcast, Subscribers
  <2>2. source[c] \in closed => counter'[source[c]] = counter[source[c]]
    BY <1>1, <1>2
  <2> QED  BY <1>2, <2>1, <2>2, StillComplete
<1> QED  BY <1>3, <1>4

LEMMA CloseEnd == ASSUME StreamOK, EndPart, NEW s \in Outputs, Close(s) PROVE EndPart'
<1>1. <<End>> \in Seq(Event \cup {End}) /\ DOMAIN <<End>> = {1} /\ <<End>>[1] = End /\ Len(<<End>>) = 1
  OBVIOUS
<1>2. Offered(s, <<End>>) /\ <<End>> # << >> /\ Last(<<End>>) = End
  BY <1>1 DEF Offered, Last
<1>3. /\ Broadcast(s, <<End>>) /\ UNCHANGED <<counter, clientVars>>
      /\ closed' = closed \cup {s} /\ subscribed' = subscribed \ Subscribers(s)
  BY DEF Close
<1> HIDE DEF End
<1> QED  BY <1>2, <1>3, DroppedStep

LEMMA EmitAndCloseEnd ==
    ASSUME StreamOK, EndPart, NEW s \in Outputs \ closed, EmitAndClose(s) PROVE EndPart'
<1> DEFINE items == <<NextEvent(s), End>>
<1>1. StoreOK /\ Record(s) /\ counter \in [Outputs -> Nat]
  BY DEF StreamOK, StoreOK, EmitAndClose
<1>2. /\ counter[s] \in Nat /\ counter'[s] = counter[s] + 1
      /\ \A t \in Outputs \ {s} : counter'[t] = counter[t]
      /\ NextEvent(s) \in Event
      /\ NextEvent(s).out = s /\ NextEvent(s).id = counter'[s]
  BY <1>1, RecordCounts
<1>3. /\ items \in Seq(Event \cup {End}) /\ DOMAIN items = {1, 2} /\ Len(items) = 2
      /\ items[1] = NextEvent(s) /\ items[2] = End
  BY <1>2
<1>4. NextEvent(s) # End
  BY <1>2, EndIsNoEvent
<1>5. /\ Broadcast(s, items) /\ UNCHANGED clientVars
      /\ closed' = closed \cup {s} /\ subscribed' = subscribed \ Subscribers(s)
  BY DEF EmitAndClose
<1> HIDE DEF items
<1>6. Offered(s, items)
  BY <1>2, <1>3, <1>4 DEF Offered
<1>7. items # << >> /\ Last(items) = End /\ NextEvent(s) \in Range(items)
  <2>1. 1 \in DOMAIN items /\ 2 \in DOMAIN items
    BY <1>3
  <2>2. NextEvent(s) \in Range(items)
    BY <1>3, <2>1 DEF Range
  <2>3. Last(items) = items[2]
    BY <1>3 DEF Last
  <2>4. items # << >>
    <3> SUFFICES ASSUME items = << >> PROVE FALSE
      OBVIOUS
    <3>1. DOMAIN << >> = {}
      OBVIOUS
    <3> QED  BY <2>1, <3>1
  <2> QED  BY <1>3, <2>2, <2>3, <2>4
<1>8. counter'[s] # counter[s] =>
         counter'[s] = counter[s] + 1 /\ NextEvent(s) \in Range(items) /\ s \notin closed
  BY <1>2, <1>7
<1> QED  BY <1>2, <1>5, <1>6, <1>7, <1>8, DroppedStep

\* A client that leaves is not live, and the others are as they were.
LEMMA LeaveEnd ==
    ASSUME StreamOK, EndPart, NEW gone, Leave(gone), UNCHANGED <<counter, closed, received>>
    PROVE  EndPart'
<1> SUFFICES ASSUME NEW c \in Clients PROVE EndIsComplete(c)'
  BY DEF EndPart
<1>1. EndIsComplete(c) /\ overflowed[c] \in BOOLEAN
  BY DEF StreamOK, StreamShape, EndPart
<1>2. CASE c \in gone
  BY <1>2 DEF Leave, EndIsComplete
<1>3. CASE c \notin gone
  BY <1>1, <1>3, StillComplete DEF Leave
<1> QED  BY <1>2, <1>3

LEMMA OpenEnd ==
    ASSUME StreamOK, EndPart, NEW c \in Clients, NEW s \in Outputs, Open(c, s) PROVE EndPart'
<1> SUFFICES ASSUME NEW d \in Clients PROVE EndIsComplete(d)'
  BY DEF EndPart
<1>1. EndIsComplete(d) /\ IsClientFunction(mode) /\ IsClientFunction(source)
  BY DEF StreamOK, StreamShape, EndPart
<1>2. CASE d = c
  BY <1>1, <1>2 DEF Open, EndIsComplete, IsClientFunction
<1>3. CASE d # c
  <2>1. mode'[d] = mode[d] /\ source'[d] = source[d]
    BY <1>1, <1>3 DEF Open, IsClientFunction
  <2> QED  BY <1>1, <2>1, StillComplete DEF Open, outputVars
<1> QED  BY <1>2, <1>3

LEMMA ClientEnd ==
    ASSUME StreamOK, EndPart, NEW c \in Clients, Client(c) \/ Disconnect(c) PROVE EndPart'
<1>1. CASE ReceiveEnd(c) \/ Disconnect(c)
  <2>1. Leave({c}) /\ UNCHANGED <<counter, closed, received>>
    BY <1>1 DEF ReceiveEnd, Disconnect, outputVars
  <2> QED  BY <2>1, LeaveEnd
<1>2. CASE Connect(c) \/ SendReplay(c) \/ EndReplay(c) \/ Receive(c)
  <2> SUFFICES ASSUME NEW d \in Clients PROVE EndIsComplete(d)'
    BY DEF EndPart
  <2>1. /\ EndIsComplete(d) /\ ClientOK(d) /\ IsClientFunction(mode) /\ IsClientFunction(queue)
        /\ IsClientFunction(received) /\ IsClientFunction(joined) /\ IsClientFunction(lastId)
    BY DEF StreamOK, StreamShape, EndPart
  <2>2. UNCHANGED <<counter, closed, source, overflowed, endDropped>>
    BY <1>2 DEF Connect, SendReplay, EndReplay, Receive, outputVars
  <2>3. CASE d # c
    <3>1. /\ mode'[d] = mode[d] /\ queue'[d] = queue[d] /\ joined'[d] = joined[d]
          /\ d \in subscribed => d \in subscribed'
      BY <1>2, <2>1, <2>3 DEF Connect, SendReplay, EndReplay, Receive, Subscribe, IsClientFunction
    <3>2. received'[d] = received[d]
      BY <1>2, <2>1, <2>3 DEF Connect, SendReplay, EndReplay, Receive, Deliver, IsClientFunction
    <3> QED  BY <2>1, <2>2, <3>1, <3>2, StillComplete
  <2>4. CASE d = c /\ Receive(c)
    <3>1. /\ queue[c] # << >> /\ Head(queue[c]) # End
          /\ received'[c] = Append(received[c], Head(queue[c])) /\ queue'[c] = Tail(queue[c])
          /\ UNCHANGED <<subscribed, mode, joined>>
      BY <2>1, <2>4 DEF Receive, Deliver, IsClientFunction
    <3> QED  BY <2>1, <2>2, <2>4, <3>1, ServedComplete
  <2>5. CASE d = c /\ ~Receive(c)
    <3>1. c \in subscribed' \/ mode'[c] # "live"
      BY <1>2, <2>1, <2>5 DEF Connect, SendReplay, EndReplay, Subscribe, IsClientFunction
    <3> QED  BY <2>5, <3>1 DEF EndIsComplete
  <2> QED  BY <2>3, <2>4, <2>5
<1> QED  BY <1>1, <1>2 DEF Client

LEMMA EndStutters == ASSUME EndPart, UNCHANGED streamVars PROVE EndPart'
  BY DEF EndPart, EndIsComplete, streamVars, outputVars, clientVars

----------------------------------------------------------------------------
\* The registries and the saved status.

RegistryPart ==
    TypeOK /\ RegistryNeverStale /\ RunsInTurn /\ ActiveIsReachable /\ FinalStatusIsFinal

LEMMA RunsAreOutputs == Runs \subseteq Outputs /\ Placeholder \in Outputs /\ None \notin Outputs
  BY DEF Runs, Placeholder, None

LEMMA InitRegistry == Init => RegistryPart
<1> SUFFICES ASSUME Init PROVE RegistryPart
  OBVIOUS
<1> USE DEF Init, StreamInit, NothingSaved, None, Runs, Active, Over, FinalStatus
<1>1. TypeOK
  <2>1. 0 \in 0..MaxRestarts
    OBVIOUS
  <2> QED  BY <2>1 DEF TypeOK
<1>2. RegistryNeverStale /\ RunsInTurn /\ ActiveIsReachable
  BY DEF RegistryNeverStale, RunsInTurn, ActiveIsReachable
<1>3. FinalStatusIsFinal
  BY DEF FinalStatusIsFinal, StatusShown
<1> QED  BY <1>1, <1>2, <1>3 DEF RegistryPart

LEMMA SendMessageStep ==
    ASSUME RegistryPart, NEW r \in Runs, SendMessage(r) PROVE RegistryPart'
<1> USE DEF RegistryPart, SendMessage, registryVars, streamVars, outputVars
<1>1. TypeOK'
  <2>1. handler' \in [Runs -> {"idle", "planning", "refused", "accepted"}]
    BY DEF TypeOK
  <2>2. overlapped' \in BOOLEAN
    BY DEF TypeOK, Busy
  <2> QED  BY <2>1, <2>2 DEF TypeOK
<1>2. RegistryNeverStale'
  BY DEF RegistryNeverStale
<1>3. RunsInTurn'
  BY DEF TypeOK, RunsInTurn, Busy
<1>4. ActiveIsReachable'
  BY DEF TypeOK, ActiveIsReachable
<1>5. FinalStatusIsFinal'
  BY DEF FinalStatusIsFinal, StatusShown
<1> QED  BY <1>1, <1>2, <1>3, <1>4, <1>5

LEMMA HandlerEndsStep ==
    ASSUME RegistryPart, NEW r \in Runs, HandlerEnds(r) PROVE RegistryPart'
<1> USE DEF RegistryPart, HandlerEnds, registryVars, streamVars, outputVars
<1>1. TypeOK' /\ RegistryNeverStale'
  BY DEF TypeOK, RegistryNeverStale
<1>2. RunsInTurn'
  BY DEF TypeOK, RunsInTurn
<1>3. ActiveIsReachable' /\ FinalStatusIsFinal'
  BY DEF ActiveIsReachable, FinalStatusIsFinal, StatusShown
<1> QED  BY <1>1, <1>2, <1>3

LEMMA StartExecutionStep ==
    ASSUME RegistryPart, NEW r \in Runs, StartExecution(r) PROVE RegistryPart'
<1> USE DEF RegistryPart, StartExecution, registryVars, streamVars, outputVars
<1>1. run[r] = "none" /\ run'[r] = "scheduled" /\ \A q \in Runs \ {r} : run'[q] = run[q]
  BY DEF TypeOK, RunsInTurn
<1>2. TypeOK'
  <2>1. run' \in [Runs -> Active \cup Over \cup {"none"}]
    BY DEF TypeOK, Active
  <2>2. closed' \subseteq {q \in Runs : run'[q] \in Over}
    BY <1>1 DEF TypeOK, Over
  <2> QED  BY <2>1, <2>2, RunsAreOutputs DEF TypeOK
<1>3. RegistryNeverStale'
  BY <1>1 DEF RegistryNeverStale, Active
<1>4. RunsInTurn'
  BY <1>1 DEF TypeOK, RunsInTurn
<1>5. ActiveIsReachable'
  BY <1>1 DEF TypeOK, RunsInTurn, ActiveIsReachable
<1>6. FinalStatusIsFinal'
  BY <1>1 DEF FinalStatusIsFinal, StatusShown, Over
<1> QED  BY <1>2, <1>3, <1>4, <1>5, <1>6

\* A task that goes on and stays active; the status saved meanwhile, if any, is
\* its own and fits.
LEMMA RunGoesOn ==
    ASSUME RegistryPart, NEW r \in Runs, run[r] \in Active \ {"closing"},
           NEW to \in Active, run' = [run EXCEPT ![r] = to],
           UNCHANGED <<handler, registryVars, overlapped, restarts, closed>>,
           NEW o \in FinalStatus \cup {"running"},
           \/ savedStatus' = savedStatus /\ to # "closing"
           \/ savedStatus' = [by |-> r, status |-> o] /\ (o \in FinalStatus <=> to = "closing")
    PROVE  RegistryPart'
<1> USE DEF RegistryPart, registryVars
<1>1. run'[r] = to /\ \A q \in Runs \ {r} : run'[q] = run[q]
  BY DEF TypeOK
<1>2. TypeOK'
  <2>1. run' \in [Runs -> Active \cup Over \cup {"none"}]
    BY DEF TypeOK
  <2>2. closed' \subseteq {q \in Runs : run'[q] \in Over}
    BY <1>1 DEF TypeOK, Over, Active
  <2>3. savedStatus' \in [by : Runs \cup {None}, status : FinalStatus \cup {"running", "none"}]
    BY DEF TypeOK
  <2> QED  BY <2>1, <2>2, <2>3 DEF TypeOK
<1>3. RegistryNeverStale'
  BY <1>1 DEF TypeOK, RegistryNeverStale, None
<1>4. RunsInTurn'
  <2>1. run[r] # "none" /\ to # "none"
    BY DEF Active
  <2> QED  BY <1>1, <2>1 DEF TypeOK, RunsInTurn
<1>5. ActiveIsReachable'
  BY <1>1 DEF TypeOK, ActiveIsReachable
<1>6. FinalStatusIsFinal'
  <2>1. run[r] \notin {"closing"} \cup Over /\ "running" \notin FinalStatus
    BY DEF Active, Over, FinalStatus
  <2> QED  BY <1>1, <2>1 DEF TypeOK, FinalStatusIsFinal, StatusShown
<1> QED  BY <1>2, <1>3, <1>4, <1>5, <1>6

\* A task that is over, whatever is registered: the registered executor is
\* dropped.
LEMMA RunEnds ==
    ASSUME RegistryPart, NEW r \in Runs, NEW to \in {"ended", "raised"},
           \/ run[r] = "running" /\ to = "raised"
           \/ run[r] = "closing" /\ to = "ended",
           run' = [run EXCEPT ![r] = to], executors' = None, closed' = closed \cup {r},
           UNCHANGED <<handler, streams, savedStatus, overlapped, restarts>>
    PROVE  RegistryPart'
<1> USE DEF RegistryPart
<1>1. run'[r] = to /\ \A q \in Runs \ {r} : run'[q] = run[q]
  BY DEF TypeOK
<1>2. TypeOK'
  <2>1. run' \in [Runs -> Active \cup Over \cup {"none"}]
    BY DEF TypeOK, Over
  <2>2. closed' \subseteq {q \in Runs : run'[q] \in Over}
    BY <1>1 DEF TypeOK, Over
  <2> QED  BY <2>1, <2>2 DEF TypeOK
<1>3. RegistryNeverStale'
  BY DEF RegistryNeverStale
<1>4. to \notin Active /\ run[r] \in Active /\ run[r] # "none" /\ to # "none"
  BY DEF Active
<1>5. RunsInTurn'
  BY <1>1, <1>4 DEF TypeOK, RunsInTurn
<1>6. ActiveIsReachable'
  BY <1>1, <1>4 DEF TypeOK, RunsInTurn, ActiveIsReachable
<1>7. FinalStatusIsFinal'
  BY <1>1 DEF TypeOK, FinalStatusIsFinal, StatusShown, Over
<1> QED  BY <1>2, <1>3, <1>5, <1>6, <1>7

LEMMA RestartStep == ASSUME RegistryPart, Restart PROVE RegistryPart'
<1> USE DEF RegistryPart, Restart
<1>1. \A q \in Runs :
         /\ run'[q] = IF run[q] = "closing" THEN "ended"
                      ELSE IF run[q] \in Active THEN "killed" ELSE run[q]
         /\ handler'[q] = IF handler[q] = "planning" THEN "refused" ELSE handler[q]
         /\ run[q] \in Active \cup Over \cup {"none"}
         /\ handler[q] \in {"idle", "planning", "refused", "accepted"}
  BY DEF TypeOK
<1>2. \A q \in Runs : /\ run'[q] \notin Active /\ handler'[q] # "planning"
                      /\ run'[q] = "none" <=> run[q] = "none"
                      /\ handler'[q] = "accepted" <=> handler[q] = "accepted"
                      /\ run[q] \in Over => run'[q] = run[q]
                      /\ run'[q] = "ended" <=> run[q] \in {"closing", "ended"}
                      /\ run'[q] \in Over \cup {"none"}
  BY <1>1 DEF Active, Over
<1>3. TypeOK'
  <2>1. run' \in [Runs -> Active \cup Over \cup {"none"}]
    BY <1>2
  <2>2. handler' \in [Runs -> {"idle", "planning", "refused", "accepted"}]
    BY <1>1
  <2>3. closed' \subseteq {q \in Runs : run'[q] \in Over}
    BY <1>2 DEF TypeOK, Lose
  <2>4. restarts' \in 0..MaxRestarts
    BY DEF TypeOK
  <2> QED  BY <2>1, <2>2, <2>3, <2>4 DEF TypeOK
<1>4. RegistryNeverStale'
  BY DEF RegistryNeverStale
<1>5. RunsInTurn'
  BY <1>2 DEF RunsInTurn
<1>6. ActiveIsReachable'
  BY <1>2 DEF ActiveIsReachable
<1>7. FinalStatusIsFinal'
  BY <1>2 DEF FinalStatusIsFinal, StatusShown, Active
<1> QED  BY <1>3, <1>4, <1>5, <1>6, <1>7

LEMMA OpenStreamStep ==
    ASSUME RegistryPart, NEW c \in Clients, OpenStream(c) PROVE RegistryPart'
<1> USE DEF RegistryPart, OpenStream, Open, outputVars
<1>1. streams' = (IF streams = None THEN Placeholder ELSE streams) /\ streams' \in Outputs
  BY RunsAreOutputs DEF TypeOK
<1>2. TypeOK'
  BY <1>1 DEF TypeOK
<1>3. RegistryNeverStale' /\ RunsInTurn'
  BY DEF RegistryNeverStale, RunsInTurn
<1>4. ActiveIsReachable'
  BY <1>1 DEF ActiveIsReachable, Runs, None
<1>5. FinalStatusIsFinal'
  BY DEF FinalStatusIsFinal, StatusShown
<1> QED  BY <1>2, <1>3, <1>4, <1>5

LEMMA RegistryStutters ==
    ASSUME RegistryPart, UNCHANGED <<handler, run, registryVars, savedStatus, overlapped, restarts, closed>>
    PROVE  RegistryPart'
  BY DEF RegistryPart, registryVars, TypeOK, RegistryNeverStale, RunsInTurn, ActiveIsReachable,
         FinalStatusIsFinal, StatusShown

----------------------------------------------------------------------------
\* The session.

LEMMA IInvIsParts == IInv <=> RegistryPart /\ StreamPart /\ EndPart
  BY DEF IInv, RegistryPart, StreamPart, EndPart

LEMMA ClosedAreOutputs == TypeOK => closed \subseteq Outputs
  BY RunsAreOutputs DEF TypeOK

LEMMA ExecutionStep ==
    ASSUME RegistryPart, StreamOK, NEW r \in Runs, Execution(r)
    PROVE  RegistryPart' /\ StreamOK'
<1> USE DEF Goes
<1>1. r \in Outputs
  BY RunsAreOutputs
<1>2. CASE Begins(r) \/ Pauses(r) \/ WaitTimesOut(r)
  <2>1. PICK to \in {"running", "waiting"} : run' = [run EXCEPT ![r] = to]
    BY <1>2 DEF Begins, Pauses, WaitTimesOut
  <2>2. /\ run[r] \in Active \ {"closing"} /\ to \in Active /\ to # "closing"
        /\ UNCHANGED <<handler, registryVars, overlapped, restarts, closed>>
        /\ savedStatus' = savedStatus /\ UNCHANGED streamVars
    BY <1>2 DEF Begins, Pauses, WaitTimesOut, Active, streamVars, outputVars
  <2>3. RegistryPart'
    BY <2>1, <2>2, RunGoesOn
  <2> QED  BY <2>2, <2>3, StreamStutters
<1>3. CASE Emits(r)
  <2>1. UNCHANGED <<handler, run, registryVars, savedStatus, overlapped, restarts, closed>>
    BY <1>3 DEF Emits, Emit
  <2>2. RegistryPart'
    BY <2>1, RegistryStutters
  <2> QED  BY <1>1, <1>3, <2>2, EmitStep DEF Emits
<1>4. CASE SavesProgress(r)
  <2>1. /\ run' = [run EXCEPT ![r] = "running"] /\ run[r] = "running"
        /\ savedStatus' = [by |-> r, status |-> "running"]
        /\ UNCHANGED <<handler, registryVars, overlapped, restarts, closed>> /\ UNCHANGED streamVars
    BY <1>4 DEF SavesProgress, streamVars, outputVars, RegistryPart, TypeOK
  <2>2. "running" \in Active \ {"closing"} /\ "running" \notin FinalStatus
    BY DEF Active, FinalStatus
  <2>3. RegistryPart'
    BY <2>1, <2>2, RunGoesOn
  <2> QED  BY <2>1, <2>3, StreamStutters
<1>5. ASSUME NEW o \in FinalStatus, SavesOutcome(r, o) PROVE RegistryPart' /\ StreamOK'
  <2>1. /\ run' = [run EXCEPT ![r] = "closing"] /\ run[r] = "running"
        /\ savedStatus' = [by |-> r, status |-> o]
        /\ UNCHANGED <<handler, registryVars, overlapped, restarts, closed>> /\ UNCHANGED streamVars
    BY <1>5 DEF SavesOutcome, streamVars, outputVars
  <2>2. run[r] \in Active \ {"closing"} /\ "closing" \in Active
    BY <2>1 DEF Active
  <2>3. RegistryPart'
    BY <2>1, <2>2, RunGoesOn
  <2> QED  BY <2>1, <2>3, StreamStutters
<1>6. CASE Ends(r)
  <2>1. /\ run[r] = "closing" /\ run' = [run EXCEPT ![r] = "ended"] /\ executors' = None
        /\ closed' = closed \cup {r} /\ Close(r)
        /\ UNCHANGED <<handler, streams, savedStatus, overlapped, restarts>>
    BY <1>6 DEF Ends, Close
  <2>2. RegistryPart'
    BY <2>1, RunEnds
  <2> QED  BY <1>1, <2>1, <2>2, CloseStep
<1>7. CASE Raises(r)
  <2>1. PICK to \in {"ended", "raised"} :
           /\ \/ run[r] = "running" /\ to = "raised"
              \/ run[r] = "closing" /\ to = "ended"
           /\ run' = [run EXCEPT ![r] = to]
    BY <1>7 DEF Raises
  <2>2. /\ executors' = None /\ closed' = closed \cup {r} /\ EmitAndClose(r)
        /\ UNCHANGED <<handler, streams, savedStatus, overlapped, restarts>>
    BY <1>7 DEF Raises, EmitAndClose
  <2>3. RegistryPart'
    BY <2>1, <2>2, RunEnds
  <2> QED  BY <1>1, <2>2, <2>3, EmitAndCloseStep
<1> QED  BY <1>2, <1>3, <1>4, <1>5, <1>6, <1>7 DEF Execution

LEMMA SessionStep == ASSUME RegistryPart, StreamOK, Next PROVE RegistryPart' /\ StreamOK'
<1>1. ASSUME NEW r \in Runs, SendMessage(r) \/ HandlerEnds(r) \/ StartExecution(r)
      PROVE  RegistryPart' /\ StreamOK'
  <2>1. UNCHANGED streamVars
    BY <1>1 DEF SendMessage, HandlerEnds, StartExecution
  <2> QED  BY <1>1, <2>1, SendMessageStep, HandlerEndsStep, StartExecutionStep, StreamStutters
<1>2. ASSUME NEW r \in Runs, Execution(r) PROVE RegistryPart' /\ StreamOK'
  BY <1>2, ExecutionStep
<1>3. CASE Confirm
  <2>1. /\ executors \in Runs /\ run' = [run EXCEPT ![executors] = "running"]
        /\ run[executors] = "waiting" /\ savedStatus' = savedStatus
        /\ UNCHANGED <<handler, registryVars, overlapped, restarts, closed>> /\ UNCHANGED streamVars
    BY <1>3 DEF Confirm, Goes, RegistryPart, TypeOK, streamVars, outputVars
  <2>2. run[executors] \in Active \ {"closing"} /\ "running" \in Active
    BY <2>1 DEF Active
  <2>3. RegistryPart'
    BY <2>1, <2>2, RunGoesOn
  <2> QED  BY <2>1, <2>3, StreamStutters
<1>4. ASSUME NEW c \in Clients, OpenStream(c) PROVE RegistryPart' /\ StreamOK'
  <2>1. RegistryPart'
    BY <1>4, OpenStreamStep
  <2>2. PICK s \in Outputs : Open(c, s)
    <3>1. streams' \in Outputs
      BY <1>4, RunsAreOutputs DEF OpenStream, RegistryPart, TypeOK
    <3> QED  BY <1>4, <3>1 DEF OpenStream
  <2> QED  BY <2>1, <2>2, OpenStep
<1>5. ASSUME NEW c \in Clients, Client(c) \/ Disconnect(c),
             UNCHANGED <<handler, run, registryVars, savedStatus, overlapped, restarts>>
      PROVE  RegistryPart' /\ StreamOK'
  <2>1. UNCHANGED closed
    BY <1>5 DEF Client, Connect, SendReplay, EndReplay, Receive, ReceiveEnd, Disconnect, outputVars
  <2>2. RegistryPart'
    BY <1>5, <2>1, RegistryStutters
  <2> QED  BY <1>5, <2>2, ClientStep
<1>6. CASE Restart
  <2>1. RegistryPart'
    BY <1>6, RestartStep
  <2> QED  BY <1>6, <2>1, LoseStep DEF Restart
<1> QED  BY <1>1, <1>2, <1>3, <1>4, <1>5, <1>6 DEF Next

\* Only an execution that is not over, hence one whose stream is not closed,
\* emits or closes it.
LEMMA ExecutionEnd ==
    ASSUME TypeOK, StreamOK, EndPart, NEW r \in Runs, Execution(r)
    PROVE  EndPart'
<1>1. r \in Outputs
  BY RunsAreOutputs
<1>2. run[r] \notin Over => r \in Outputs \ closed
  BY <1>1 DEF TypeOK
<1>3. CASE Emits(r)
  <2>1. run[r] \notin Over
    BY <1>3 DEF Emits, Over
  <2> QED  BY <1>2, <1>3, <2>1, EmitEnd DEF Emits
<1>4. CASE Ends(r)
  BY <1>1, <1>4, CloseEnd DEF Ends
<1>5. CASE Raises(r)
  <2>1. run[r] \notin Over
    BY <1>5 DEF Raises, Goes, Over
  <2> QED  BY <1>2, <1>5, <2>1, EmitAndCloseEnd DEF Raises
<1>6. CASE UNCHANGED streamVars
  BY <1>6, EndStutters
<1> QED  BY <1>3, <1>4, <1>5, <1>6
         DEF Execution, Begins, Pauses, WaitTimesOut, SavesProgress, SavesOutcome

LEMMA SessionEnd == ASSUME RegistryPart, StreamOK, EndPart, Next PROVE EndPart'
<1>0. TypeOK
  BY DEF RegistryPart
<1>1. ASSUME NEW r \in Runs, Execution(r) PROVE EndPart'
  BY <1>0, <1>1, ExecutionEnd
<1>2. ASSUME NEW c \in Clients, OpenStream(c) PROVE EndPart'
  <2>1. streams' \in Outputs
    BY <1>0, <1>2, RunsAreOutputs DEF OpenStream, TypeOK
  <2> QED  BY <1>2, <2>1, OpenEnd DEF OpenStream
<1>3. ASSUME NEW c \in Clients, Client(c) \/ Disconnect(c) PROVE EndPart'
  BY <1>3, ClientEnd
<1>4. CASE Restart
  BY <1>4, LeaveEnd DEF Restart, Lose
<1>5. CASE UNCHANGED streamVars
  BY <1>5, EndStutters
<1> QED  BY <1>1, <1>2, <1>3, <1>4, <1>5
         DEF Next, SendMessage, HandlerEnds, StartExecution, Confirm

LEMMA SessionInductive == ASSUME IInv, [Next]_vars PROVE IInv'
<1>1. RegistryPart /\ StreamPart /\ EndPart /\ closed \subseteq Outputs
  BY IInvIsParts, ClosedAreOutputs DEF RegistryPart
<1>2. StreamOK
  BY <1>1, StreamPartIsOK
<1>3. RegistryPart' /\ StreamOK'
  <2>1. CASE Next
    BY <1>1, <1>2, <2>1, SessionStep
  <2>2. CASE UNCHANGED vars
    <3>1. UNCHANGED <<handler, run, registryVars, savedStatus, overlapped, restarts, closed>>
          /\ UNCHANGED streamVars
      BY <2>2 DEF vars, streamVars, outputVars
    <3> QED  BY <1>1, <1>2, <3>1, RegistryStutters, StreamStutters
  <2> QED  BY <2>1, <2>2
<1>4. StreamPart'
  BY <1>3, OKIsStreamPart, PTL
<1>5. EndPart'
  BY <1>1, <1>2, SessionEnd, EndStutters DEF vars
<1> QED  BY <1>3, <1>4, <1>5, IInvIsParts, PTL

\* The registries, the saved status and the streams agree with the executions
\* and with the clients in every state, for any number of messages, events,
\* clients and restarts and for stores and queues of any size.
THEOREM SessionInvariance == Spec => []IInv
<1>1. Init => IInv
  <2>1. Init => StreamPart
    BY StreamInitOK, OKIsStreamPart DEF Init
  <2>2. Init => EndPart
    BY DEF Init, StreamInit, EndPart, EndIsComplete
  <2> QED  BY <2>1, <2>2, InitRegistry, IInvIsParts
<1>2. IInv /\ [Next]_vars => IInv'
  BY SessionInductive
<1> QED  BY <1>1, <1>2, PTL DEF Spec

\* As long as messages wait for the execution before them to end, POST /confirm
\* and GET /stream reach the execution that is active.
THEOREM RequestsReachTheActive == Spec => []ActiveIsReachable
<1>1. IInv => ActiveIsReachable
  BY DEF IInv
<1> QED  BY <1>1, SessionInvariance, PTL

\* A client gets no event twice and none out of order, however often it
\* disconnects and resumes, until it hears of another output.
THEOREM StreamOrder == Spec => []ReceivedInOrder
<1>1. IInv => ReceivedInOrder
  BY DEF IInv
<1> QED  BY <1>1, SessionInvariance, PTL

\* A subscribed client has, received or queued, every event emitted since it
\* subscribed, unless its queue ran over.
THEOREM SubscriptionIsComplete == Spec => []SubscribedMissesNothing
<1>1. IInv => SubscribedMissesNothing
  BY DEF IInv
<1> QED  BY <1>1, SessionInvariance, PTL

\* A client whose response ends on account of the end marker has got every
\* event of its output since it subscribed, unless its queue ran over: what the
\* last step of its stream emits with the close is not lost either.
THEOREM ReleaseIsComplete == Spec => ReleasedHaveAll
<1>1. IInv /\ [Next]_vars => [ReleasedHasAll]_vars
  <2> SUFFICES ASSUME IInv, NEW c \in Clients, ReceiveEnd(c), ~overflowed[c],
                      NEW n \in joined[c] + 1 .. counter[source[c]]
               PROVE  [out |-> source[c], id |-> n] \in Range(received[c])
    BY DEF ReleasedHasAll
  <2> DEFINE q == queue[c]
             e == [out |-> source[c], id |-> n]
  <2>1. q \in Seq(Event \cup {End}) /\ q # << >> /\ Head(q) = End /\ mode[c] = "live"
    BY DEF IInv, StreamTypeOK, ReceiveEnd
  <2>2. QueueIsOrdered(c) /\ EndIsComplete(c) /\ SubscribedMissesNothing
    BY DEF IInv
  <2>3. \A i \in DOMAIN q : q[i] = End
    <3>1. DOMAIN q = 1..Len(q) /\ Len(q) \in Nat /\ 1 \in DOMAIN q /\ q[1] = End
      BY <2>1
    <3>2. ASSUME NEW i \in DOMAIN q, i # 1 PROVE FALSE
      <4>1. 1 < i
        BY <3>1, <3>2
      <4> QED  BY <2>2, <3>1, <4>1 DEF QueueIsOrdered
    <3> QED  BY <3>1, <3>2
  <2>4. e \in Range(received[c]) \cup Range(q)
    BY <2>1, <2>2 DEF EndIsComplete, SubscribedMissesNothing
  <2>5. source[c] # NoOutput /\ e # End
    BY <2>1 DEF IInv, StreamTypeOK, End
  <2> QED  BY <2>3, <2>4, <2>5 DEF Range
<1> QED  BY <1>1, SessionInvariance, PTL DEF Spec, ReleasedHaveAll

----------------------------------------------------------------------------
\* Each execution, seen alone.

\* A step of execution q is one of its own lifecycle, and at most a save over
\* theirs for the others.
LEMMA ExecutionIsARun ==
    ASSUME TypeOK, NEW q \in Runs, Execution(q) \/ (Confirm /\ executors = q), NEW r \in Runs
    PROVE  Run(r)!Next \/ UNCHANGED Run(r)!vars
<1>1. run \in [Runs -> Active \cup Over \cup {"none"}]
  BY DEF TypeOK
<1>2. CASE Begins(q) \/ Pauses(q) \/ WaitTimesOut(q) \/ (Confirm /\ executors = q)
  <2>1. savedStatus' = savedStatus
    BY <1>2 DEF Begins, Pauses, WaitTimesOut, Confirm
  <2>2. PICK from \in {"scheduled", "running", "waiting"}, to \in {"running", "waiting"} :
           /\ run[q] = from /\ run' = [run EXCEPT ![q] = to]
           /\ from # to
    BY <1>2 DEF Begins, Pauses, WaitTimesOut, Confirm, Goes
  <2>3. CASE r = q
    BY <1>1, <2>1, <2>2, <2>3, <1>2
       DEF Run!Next, Run!Begin, Run!Pause, Run!Resume, Run!Goes, Begins, Pauses, WaitTimesOut, Confirm, Goes
  <2>4. CASE r # q
    BY <1>1, <2>1, <2>2, <2>4 DEF Run!vars
  <2>. QED  BY <2>3, <2>4
<1>3. CASE Emits(q)
  BY <1>3 DEF Emits, Run!vars
<1>4. CASE SavesProgress(q)
  <2>1. run' = run /\ run[q] = "running" /\ savedStatus' = [by |-> q, status |-> "running"]
    BY <1>4 DEF SavesProgress
  <2>2. CASE r = q
    BY <2>1, <2>2 DEF Run!Next, Run!SaveProgress, Run!Goes
  <2>3. CASE r # q
    BY <2>1, <2>3 DEF Run!Next, Run!Overwritten
  <2>. QED  BY <2>2, <2>3
<1>5. ASSUME NEW o \in FinalStatus, SavesOutcome(q, o)
      PROVE  Run(r)!Next \/ UNCHANGED Run(r)!vars
  <2>1. /\ run[q] = "running" /\ run' = [run EXCEPT ![q] = "closing"]
        /\ savedStatus' = [by |-> q, status |-> o]
    BY <1>5 DEF SavesOutcome, Goes
  <2>2. CASE r = q
    <3>1. run'[r] = "closing"
      BY <1>1, <2>1, <2>2
    <3>. QED  BY <2>1, <2>2, <3>1 DEF Run!Next, Run!SaveOutcome, Run!Goes, Run!FinalStatus, FinalStatus
  <2>3. CASE r # q
    <3>1. run'[r] = run[r]
      BY <1>1, <2>1, <2>3
    <3>. QED  BY <2>1, <2>3, <3>1 DEF Run!Next, Run!Overwritten
  <2>. QED  BY <2>2, <2>3
<1>6. CASE Ends(q) \/ Raises(q)
  <2>1. savedStatus' = savedStatus
    BY <1>6 DEF Ends, Raises
  <2>2. \/ run[q] = "running" /\ run' = [run EXCEPT ![q] = "raised"]
        \/ run[q] = "closing" /\ run' = [run EXCEPT ![q] = "ended"]
    BY <1>6 DEF Ends, Raises, Goes
  <2>3. CASE r = q
    <3>1. \/ run[r] = "running" /\ run'[r] = "raised"
          \/ run[r] = "closing" /\ run'[r] = "ended"
      BY <1>1, <2>2, <2>3
    <3>. QED  BY <2>1, <3>1 DEF Run!Next, Run!Raise, Run!End, Run!Goes
  <2>4. CASE r # q
    <3>1. run'[r] = run[r]
      BY <1>1, <2>2, <2>4
    <3>. QED  BY <2>1, <3>1 DEF Run!vars
  <2>. QED  BY <2>3, <2>4
<1>. QED  BY <1>2, <1>3, <1>4, <1>5, <1>6 DEF Execution

\* A restart ends every execution where it is.
LEMMA RestartIsAKill ==
    ASSUME TypeOK, Restart, NEW r \in Runs
    PROVE  Run(r)!Next \/ UNCHANGED Run(r)!vars
<1>1. savedStatus' = savedStatus
  BY DEF Restart
<1>2. run'[r] = IF run[r] = "closing" THEN "ended" ELSE IF run[r] \in Active THEN "killed" ELSE run[r]
  BY DEF Restart
<1>3. CASE run[r] = "closing"
  BY <1>1, <1>2, <1>3 DEF Run!Next, Run!End, Run!Goes
<1>4. CASE run[r] \in {"scheduled", "running", "waiting"}
  <2>1. run'[r] = "killed"
    BY <1>2, <1>4 DEF Active
  <2>. QED  BY <1>1, <1>4, <2>1 DEF Run!Next, Run!Kill, Run!Goes
<1>5. CASE run[r] \notin Active
  BY <1>1, <1>2, <1>5 DEF Run!vars, Active
<1>. QED  BY <1>3, <1>4, <1>5 DEF Active

\* However messages overlap, answers come and the process is restarted, each
\* execution of the session is one that Executor implements (RunRefinement),
\* followed by its end.
THEOREM RunsAreExecutions == Spec => RunsKeepTheirLifecycle
<1>1. Init => \A r \in Runs : Run(r)!Init
  BY DEF Init, Run!Init, NothingSaved, Runs, None
<1>2. IInv /\ [Next]_vars => [\A r \in Runs : [Run(r)!Next]_(Run(r)!vars)]_vars
  <2> SUFFICES ASSUME IInv, Next, NEW r \in Runs
               PROVE  Run(r)!Next \/ UNCHANGED Run(r)!vars
    OBVIOUS
  <2>0. TypeOK
    BY DEF IInv
  <2>1. ASSUME NEW q \in Runs, Execution(q) PROVE Run(r)!Next \/ UNCHANGED Run(r)!vars
    BY <2>0, <2>1, ExecutionIsARun
  <2>2. CASE Confirm
    BY <2>0, <2>2, ExecutionIsARun DEF Confirm, TypeOK
  <2>3. CASE Restart
    BY <2>0, <2>3, RestartIsAKill
  <2>4. ASSUME NEW q \in Runs, SendMessage(q) \/ HandlerEnds(q) \/ StartExecution(q)
        PROVE  Run(r)!Next \/ UNCHANGED Run(r)!vars
    <3>1. /\ savedStatus' = savedStatus
          /\ run'[r] = run[r] \/ (run[r] \in {"none", "scheduled"} /\ run'[r] = "scheduled")
      BY <2>0, <2>4 DEF SendMessage, HandlerEnds, StartExecution, TypeOK, IInv, RunsInTurn
    <3>. QED  BY <3>1 DEF Run!vars
  <2>5. CASE UNCHANGED <<run, savedStatus>>
    BY <2>5 DEF Run!vars
  <2>. QED  BY <2>1, <2>2, <2>3, <2>4, <2>5 DEF Next, OpenStream
<1>3. Spec => [][\A r \in Runs : [Run(r)!Next]_(Run(r)!vars)]_vars
  BY <1>2, SessionInvariance, PTL DEF Spec
<1>4. Spec => \A r \in Runs : Run(r)!Init
  BY <1>1, PTL DEF Spec
<1>. QED  BY <1>3, <1>4 DEF RunsKeepTheirLifecycle
=============================================================================
