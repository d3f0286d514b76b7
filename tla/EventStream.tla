---------------------------- MODULE EventStream ----------------------------
(***************************************************************************)
(* The event streams of one session, hermes/stream.py: the StreamingOutput *)
(* of each execution, the EventStore they share, and the clients that run  *)
(* the stream() generator.  An event is its output and its event_id; its   *)
(* payload plays no part.  emit and close run without suspending; stream() *)
(* suspends at every yield and at queue.get().  Session says who emits,    *)
(* closes and connects.                                                    *)
(***************************************************************************)
EXTENDS Integers, FiniteSets, SequencesExt

CONSTANTS
    Clients,
    Outputs,       \* the StreamingOutputs of the session
    MaxStored,     \* max_events of the EventStore (100 in the code)
    QueueSize      \* maxsize of a subscriber's queue (256 in the code)

ASSUME StreamAssumption ==
    /\ Outputs \subseteq Nat \ {0}
    /\ MaxStored \in Nat \ {0}
    /\ QueueSize \in Nat \ {0}

VARIABLES
    counter,      \* _event_counter of each output
    closed,       \* the outputs whose close() was called
    subscribed,   \* the clients whose queue is among an output's _subscribers
    store,        \* EventStore._events of the session
    mode,         \* where each client's generator is
    source,       \* the output whose generator it runs, or ran last
    replay,       \* what a client's generator has still to look through for
                  \* missed events, and the id since when they are missed
    queue,        \* the client's queue
    lastId,       \* the event_id a client got last; it reconnects with it
    received,     \* history: everything the client got
    joined,       \* history: counter when the client subscribed
    overflowed,   \* history: something did not fit the client's queue
    endDropped    \* history: the clients whose queue did not take the end marker

outputVars == <<counter, closed, store>>
clientVars == <<mode, source, replay, lastId, received, joined>>
streamVars == <<outputVars, subscribed, clientVars, queue, overflowed, endDropped>>

NoOutput == 0
End == [out |-> NoOutput, id |-> 0]    \* the None that ends a stream
NoId == -1                             \* no last_event_id

NoReplay == [events |-> << >>, since |-> NoId]

Connected == {"opening", "replaying", "live"}

StreamInit ==
    /\ counter = [s \in Outputs |-> 0]
    /\ closed = {}
    /\ subscribed = {}
    /\ store = << >>
    /\ mode = [c \in Clients |-> "away"]
    /\ source = [c \in Clients |-> NoOutput]
    /\ replay = [c \in Clients |-> NoReplay]
    /\ queue = [c \in Clients |-> << >>]
    /\ lastId = [c \in Clients |-> NoId]
    /\ received = [c \in Clients |-> << >>]
    /\ joined = [c \in Clients |-> 0]
    /\ overflowed = [c \in Clients |-> FALSE]
    /\ endDropped = {}

----------------------------------------------------------------------------
\* The outputs.

\* EventStore.append keeps the last MaxStored events.
KeepLast(events) ==
    IF Len(events) > MaxStored
    THEN SubSeq(events, Len(events) - MaxStored + 1, Len(events))
    ELSE events

\* Faulty variant: only clients that have caught up are sent anything.
OfferIfIdle(q, items) == IF q = << >> THEN items ELSE q

\* put_nowait of one item after the other; what does not fit is dropped.
Offer(q, items) ==
    LET all == q \o items
    IN  IF Len(all) > QueueSize THEN SubSeq(all, 1, QueueSize) ELSE all

Subscribers(s) == {c \in subscribed : source[c] = s}

Broadcast(s, items) ==
    /\ queue' = [c \in Clients |->
          IF c \in Subscribers(s) THEN Offer(queue[c], items) ELSE queue[c]]
    /\ overflowed' = [c \in Clients |->
          overflowed[c] \/ (c \in Subscribers(s) /\ Len(queue[c] \o items) > QueueSize)]
    /\ endDropped' = endDropped \cup
          {c \in Subscribers(s) : Last(items) = End /\ Len(queue[c] \o items) > QueueSize}

NextEvent(s) == [out |-> s, id |-> counter[s] + 1]

Record(s) ==
    /\ counter' = [counter EXCEPT ![s] = @ + 1]
    /\ store' = KeepLast(Append(store, NextEvent(s)))

Emit(s) ==
    /\ Record(s)
    /\ Broadcast(s, <<NextEvent(s)>>)
    /\ UNCHANGED <<closed, subscribed, clientVars>>

\* Faulty variant: the subscribers are forgotten without an end marker.
CloseForgets(s) ==
    /\ closed' = closed \cup {s}
    /\ subscribed' = subscribed \ Subscribers(s)
    /\ UNCHANGED <<counter, store, clientVars, queue, overflowed, endDropped>>

\* close(): every subscriber is sent the end marker, if it fits, and
\* forgotten.
Close(s) ==
    /\ closed' = closed \cup {s}
    /\ Broadcast(s, <<End>>)
    /\ subscribed' = subscribed \ Subscribers(s)
    /\ UNCHANGED <<counter, store, clientVars>>

\* emit and then close, without a suspension in between.
EmitAndClose(s) ==
    /\ Record(s)
    /\ closed' = closed \cup {s}
    /\ Broadcast(s, <<NextEvent(s), End>>)
    /\ subscribed' = subscribed \ Subscribers(s)
    /\ UNCHANGED clientVars

\* The connections of the clients gone break: what was queued for them or
\* waited to be replayed is dropped with their generators.
Leave(gone) ==
    /\ subscribed' = subscribed \ gone
    /\ mode' = [c \in Clients |-> IF c \in gone THEN "away" ELSE mode[c]]
    /\ source' = [c \in Clients |-> IF c \in gone THEN NoOutput ELSE source[c]]
    /\ replay' = [c \in Clients |-> IF c \in gone THEN NoReplay ELSE replay[c]]
    /\ queue' = [c \in Clients |-> IF c \in gone THEN << >> ELSE queue[c]]
    /\ joined' = [c \in Clients |-> IF c \in gone THEN 0 ELSE joined[c]]
    /\ overflowed' = [c \in Clients |-> c \notin gone /\ overflowed[c]]
    /\ endDropped' = endDropped \ gone

\* The process ends: outputs, store and connections are gone.
Lose ==
    /\ store' = << >>
    /\ Leave(Clients)
    /\ UNCHANGED <<counter, closed, lastId, received>>

----------------------------------------------------------------------------
\* The clients.

\* subscribe() on the output s, which may have been closed meanwhile.
Subscribe(c, s) ==
    /\ subscribed' = subscribed \cup {c}
    /\ queue' = [queue EXCEPT ![c] = << >>]
    /\ joined' = [joined EXCEPT ![c] = counter[s]]
    /\ mode' = [mode EXCEPT ![c] = "live"]

\* Faulty variant: the event the client had last is replayed once more.
MissedInclusive(events, id) == {i \in DOMAIN events : events[i].id >= id}

\* EventStore.get_since: the places of the events with a larger id, whatever
\* output they belong to.
Missed(events, id) == {i \in DOMAIN events : events[i].id > id}

\* A client asks for the stream s; the response, and with it the generator, is
\* started by a task of its own.
Open(c, s) ==
    /\ mode[c] \notin Connected
    /\ mode' = [mode EXCEPT ![c] = "opening"]
    /\ source' = [source EXCEPT ![c] = s]
    /\ UNCHANGED <<outputVars, subscribed, replay, lastId, received, joined, queue, overflowed, endDropped>>

\* With a last_event_id the client is first sent what it missed; with nothing
\* to replay the generator goes on to subscribe at once.
Connect(c) ==
    /\ mode[c] = "opening"
    /\ IF lastId[c] # NoId /\ Missed(store, lastId[c]) # {}
       THEN /\ replay' = [replay EXCEPT ![c] = [events |-> store, since |-> lastId[c]]]
            /\ mode' = [mode EXCEPT ![c] = "replaying"]
            /\ UNCHANGED <<subscribed, queue, joined>>
       ELSE /\ Subscribe(c, source[c])
            /\ UNCHANGED replay
    /\ UNCHANGED <<outputVars, source, lastId, received, overflowed, endDropped>>

Deliver(c, event) ==
    /\ received' = [received EXCEPT ![c] = Append(@, event)]
    /\ lastId' = [lastId EXCEPT ![c] = event.id]

ToReplay(c) == Missed(replay[c].events, replay[c].since)

\* The next missed event is yielded; the generator suspends there.
SendReplay(c) ==
    /\ mode[c] = "replaying"
    /\ \E i \in ToReplay(c) :
          /\ \A j \in ToReplay(c) : i <= j
          /\ Deliver(c, replay[c].events[i])
          /\ replay' = [replay EXCEPT ![c].events = SubSeq(@, i + 1, Len(@))]
    /\ UNCHANGED <<outputVars, subscribed, mode, source, joined, queue, overflowed, endDropped>>

\* Only after the last missed event was sent does the client subscribe.
EndReplay(c) ==
    /\ mode[c] = "replaying"
    /\ ToReplay(c) = {}
    /\ Subscribe(c, source[c])
    /\ replay' = [replay EXCEPT ![c] = NoReplay]
    /\ UNCHANGED <<outputVars, source, lastId, received, overflowed, endDropped>>

Receive(c) ==
    /\ mode[c] = "live"
    /\ queue[c] # << >>
    /\ Head(queue[c]) # End
    /\ Deliver(c, Head(queue[c]))
    /\ queue' = [queue EXCEPT ![c] = Tail(@)]
    /\ UNCHANGED <<outputVars, subscribed, mode, source, replay, joined, overflowed, endDropped>>

\* The end marker ends the generator, and with it the response.
ReceiveEnd(c) ==
    /\ mode[c] = "live"
    /\ queue[c] # << >>
    /\ Head(queue[c]) = End
    /\ Leave({c})
    /\ UNCHANGED <<outputVars, lastId, received>>

Disconnect(c) ==
    /\ mode[c] \in Connected
    /\ Leave({c})
    /\ UNCHANGED <<outputVars, lastId, received>>

Client(c) == Connect(c) \/ SendReplay(c) \/ EndReplay(c) \/ Receive(c) \/ ReceiveEnd(c)

----------------------------------------------------------------------------
\* Properties.

Event == [out : Outputs, id : Nat \ {0}]

\* Types; the store never holds more than MaxStored events and a queue never
\* more than QueueSize; only a live client is a subscriber.
StreamTypeOK ==
    /\ counter \in [Outputs -> Nat]
    /\ closed \subseteq Outputs
    /\ subscribed \subseteq {c \in Clients : mode[c] = "live"}
    /\ store \in Seq(Event) /\ Len(store) <= MaxStored
    /\ mode \in [Clients -> Connected \cup {"away"}]
    /\ source \in [Clients -> Outputs \cup {NoOutput}]
    /\ \A c \in Clients : source[c] = NoOutput <=> mode[c] = "away"
    /\ replay \in [Clients -> [events : Seq(Event), since : {NoId} \cup Nat]]
    /\ queue \in [Clients -> Seq(Event \cup {End})]
    /\ \A c \in Clients : Len(queue[c]) <= QueueSize
    /\ received \in [Clients -> Seq(Event)]
    /\ lastId \in [Clients -> {NoId} \cup Nat]
    /\ joined \in [Clients -> Nat]
    /\ overflowed \in [Clients -> BOOLEAN]
    /\ endDropped \subseteq Clients

\* What a reconnecting client can be sent of an output is its latest events
\* without a hole, however many events of other outputs are stored with them.
StoreIsRecent ==
    \A i \in DOMAIN store :
        LET s == store[i].out
        IN  IF \E j \in DOMAIN store : j > i /\ store[j].out = s
            THEN \E j \in DOMAIN store :
                    j > i /\ store[j] = [out |-> s, id |-> store[i].id + 1]
            ELSE store[i].id = counter[s]

InOrder(events) ==
    \A i, j \in DOMAIN events :
        i < j /\ events[i].out = events[j].out => events[i].id < events[j].id

Emitted(events) == \A i \in DOMAIN events : events[i].id <= counter[events[i].out]

\* What is stored was emitted, and in that order.
StoreIsOrdered == InOrder(store) /\ Emitted(store)

\* What is queued for a client comes from its output, in order, and the end
\* marker is the last of it.
QueueIsOrdered(c) ==
    \A i, j \in DOMAIN queue[c] :
        /\ mode[c] = "live"
        /\ queue[c][i] # End =>
              queue[c][i].out = source[c] /\ queue[c][i].id <= counter[source[c]]
        /\ i < j => queue[c][i] # End
        /\ i < j /\ queue[c][j] # End => queue[c][i].id < queue[c][j].id
        /\ c \in subscribed => queue[c][i] # End

OnlyFrom(c, s) == \A i \in DOMAIN received[c] : received[c][i].out = s

\* What a client got was emitted, and lastId is that of the last event; what is
\* still to come of the one output it has heard of is newer.
ComesInOrder(c) ==
    /\ Emitted(received[c]) /\ Emitted(replay[c].events) /\ InOrder(replay[c].events)
    /\ mode[c] # "replaying" => replay[c] = NoReplay
    /\ IF received[c] = << >> THEN lastId[c] = NoId /\ mode[c] # "replaying"
       ELSE lastId[c] = Last(received[c]).id
    /\ \A s \in Outputs : OnlyFrom(c, s) =>
          /\ \A i \in ToReplay(c) :
                replay[c].events[i].out = s => replay[c].events[i].id > lastId[c]
          /\ \A i \in DOMAIN queue[c] :
                queue[c][i].out = s => queue[c][i].id > lastId[c]

\* Until it is sent an event of another output, a client never gets an event
\* twice or out of order, however often it loses its connection and resumes.
ReceivedInOrder ==
    \A c \in Clients : \A i, j \in DOMAIN received[c] :
        i < j /\ (\A k \in 1..j : received[c][k].out = received[c][j].out) =>
            received[c][i].id < received[c][j].id

\* From the moment it subscribed a client has, received or queued, every event
\* emitted since, unless its queue ran over.
SubscribedMissesNothing ==
    \A c \in subscribed : ~overflowed[c] =>
        \A n \in joined[c] + 1 .. counter[source[c]] :
            \E e \in Range(received[c]) \cup Range(queue[c]) :
                e = [out |-> source[c], id |-> n]

\* Why a client that an output dropped is released, and has missed nothing when
\* it is: the end marker is the last in its queue, behind all that was emitted
\* since it subscribed, unless its queue ran over.
EndIsComplete(c) ==
    mode[c] = "live" /\ c \notin subscribed =>
        /\ source[c] \in closed
        /\ ~overflowed[c] =>
              /\ queue[c] # << >> /\ Last(queue[c]) = End
              /\ \A n \in joined[c] + 1 .. counter[source[c]] :
                    \E e \in Range(received[c]) \cup Range(queue[c]) :
                        e = [out |-> source[c], id |-> n]

\* stream.py:170, "replays missed events first, then continues with live
\* events": a client that resumed and is live again lacks no event.
ResumeLosesNothing ==
    \A c \in subscribed : ~overflowed[c] /\ lastId[c] # NoId =>
        \A n \in received[c][1].id .. joined[c] :
            \E e \in Range(received[c]) : e.id = n
=============================================================================
