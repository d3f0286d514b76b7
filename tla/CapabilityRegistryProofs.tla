---------------------- MODULE CapabilityRegistryProofs ----------------------
(***************************************************************************)
(* The manifest that get_manifest serves from its cache is at most a TTL   *)
(* behind the registrations, for any number of servers and callers.        *)
(***************************************************************************)
EXTENDS CapabilityRegistry, FiniteSetTheorems, WellFoundedInduction, TLAPS

LEMMA Least == ASSUME NEW S \in SUBSET Nat, S # {}
               PROVE  \E m \in S : \A n \in S : m <= n
<1> DEFINE R == OpToRel(<, Nat)
<1>1. \E m \in S : \A n \in S : <<n, m>> \notin R
  BY NatLessThanWellFounded, WFMin
<1>2. ASSUME NEW m \in Nat, NEW n \in Nat, <<n, m>> \notin R PROVE m <= n
  BY <1>2 DEF OpToRel
<1> QED  BY <1>1, <1>2

\* The loop goes on to the first entry that is still ahead.
LEMMA NextIsFirst ==
    ASSUME RegistryTypeOK, NEW b, Ahead(b) # {}
    PROVE  NextOf(b) \in Ahead(b) /\ \A t \in Ahead(b) : place[NextOf(b)] <= place[t]
<1>1. Ahead(b) \subseteq Servers /\ \A t \in Servers : place[t] \in Nat
  BY DEF RegistryTypeOK, Ahead, Registered
<1>2. PICK m \in {place[t] : t \in Ahead(b)} : \A n \in {place[t] : t \in Ahead(b)} : m <= n
  BY <1>1, Least
<1>3. \E s \in Ahead(b) : \A t \in Ahead(b) : place[s] <= place[t]
  BY <1>2
<1> QED  BY <1>3 DEF NextOf

LEMMA EntriesAreFinite ==
    ASSUME NEW e \in Entries PROVE IsFiniteSet(e) /\ Cardinality(e) \in Nat
<1>1. IsFiniteSet(1..MaxChanges)
  BY RegistryAssumption, FS_Interval
<1>2. IsFiniteSet(Servers \X (1..MaxChanges))
  BY <1>1, RegistryAssumption, FS_Product
<1>3. IsFiniteSet(e)
  BY <1>2, FS_Subset DEF Entries
<1> QED  BY <1>3, FS_CardinalityType

LEMMA RegisteredAreFinite ==
    IsFiniteSet(Registered) /\ Cardinality(Registered) \in Nat
<1>1. Registered \subseteq Servers
  BY DEF Registered
<1>2. IsFiniteSet(Registered)
  BY <1>1, RegistryAssumption, FS_Subset
<1> QED  BY <1>2, FS_CardinalityType

LEMMA RegistrationIsEntry ==
    ASSUME RegistryTypeOK, NEW s \in Registered
    PROVE  {Registration(s)} \in Entries
<1>1. s \in Servers /\ edition[s] \in 1..MaxChanges
  BY RegistryAssumption DEF RegistryTypeOK, Registered
<1> QED  BY <1>1 DEF Registration, Entries

LEMMA IdleParts ==
    /\ Idle \in Calling /\ Idle.pc = "idle" /\ Idle.age = 0 /\ Idle.at = 0
    /\ Idle.manifest = NoManifest /\ NoManifest \in Manifest
    /\ NoManifest.tools = {} /\ NoManifest.failed = {}
BY RegistryAssumption DEF Idle, NoManifest, NotThere, Calling, Manifest, Entries

LEMMA InitEstablishes == RegistryInit => RegistryInv
<1> SUFFICES ASSUME RegistryInit PROVE RegistryInv
  OBVIOUS
<1>1. RegistryTypeOK
  BY RegistryAssumption, IdleParts DEF RegistryInit, RegistryTypeOK, Registered, NotThere
<1>2. CallsAreBounded /\ BuildsAreCurrent
  BY IdleParts DEF RegistryInit, CallsAreBounded, BuildsAreCurrent
<1>3. CacheIsCurrent
  BY RegistryAssumption DEF RegistryInit, CacheIsCurrent, Fresh
<1> QED  BY <1>1, <1>2, <1>3 DEF RegistryInv

\* What the loop knows when it asks the dict for its next entry.
Knows(b) ==
    /\ b \in Calling
    /\ Cardinality(b.manifest.tools \cup b.manifest.failed) <= b.size
    /\ b.age < TTL =>
          UpToDate(b.manifest.tools \cup b.manifest.failed, b.manifest.tools, b.age, b.at)

LEMMA CallingParts ==
    ASSUME NEW b \in Calling
    PROVE  /\ b.manifest \in Manifest /\ b.manifest.tools \in Entries /\ b.manifest.failed \in Entries
           /\ b.age \in 0..TTL /\ b.at \in 0..MaxChanges /\ b.size \in Nat /\ b.server \in Entries
BY DEF Calling, Manifest

LEMMA AdvanceKeeps ==
    ASSUME RegistryInv, NEW c \in Callers, NEW b, Knows(b), Advance(c, b),
           UNCHANGED <<place, edition, changes, settled>>
    PROVE  RegistryInv'
<1> USE DEF RegistryInv
<1>1. b \in Calling /\ call \in [Callers -> Calling]
  BY DEF Knows, RegistryTypeOK
<1>2. /\ Registered' = Registered
      /\ \A s : Registration(s)' = Registration(s)
  BY DEF Registered, Registration
<1>3. ASSUME NEW listed, NEW tools, NEW age, NEW at
      PROVE  UpToDate(listed, tools, age, at)' <=> UpToDate(listed, tools, age, at)
  BY <1>2 DEF UpToDate
<1>4. CASE DictChanged(b)
  <2>1. call' = [call EXCEPT ![c] = [Idle EXCEPT !.pc = "raised"]] /\ UNCHANGED <<cache, cacheAge>>
    BY <1>4 DEF Advance
  <2>2. [Idle EXCEPT !.pc = "raised"] \in Calling /\ [Idle EXCEPT !.pc = "raised"].pc = "raised"
    BY IdleParts DEF Calling
  <2>3. RegistryTypeOK'
    BY <1>1, <1>2, <2>1, <2>2 DEF RegistryTypeOK
  <2>4. \A d \in Callers : call'[d].pc = "fetching" => call'[d] = call[d]
    BY <1>1, <2>1, <2>2
  <2>5. CallsAreBounded'
    BY <2>4 DEF CallsAreBounded
  <2>6. BuildsAreCurrent'
    BY <1>2, <2>4 DEF BuildsAreCurrent, UpToDate
  <2>7. CacheIsCurrent'
    BY <1>2, <2>1 DEF CacheIsCurrent, Fresh, UpToDate
  <2> QED  BY <2>3, <2>5, <2>6, <2>7
<1>5. CASE ~DictChanged(b) /\ Ahead(b) = {}
  <2>1. /\ cache' = b.manifest /\ cacheAge' = b.age
        /\ call' = [call EXCEPT ![c] = Answered(b.manifest)]
    BY <1>5 DEF Advance, FinishBuild
  <2>2. Answered(b.manifest) \in Calling /\ Answered(b.manifest).pc = "answered"
    BY <1>1, IdleParts, CallingParts DEF Answered, Calling
  <2>3. RegistryTypeOK'
    BY <1>1, <1>2, <2>1, <2>2, CallingParts DEF RegistryTypeOK
  <2>4. \A d \in Callers : call'[d].pc = "fetching" => call'[d] = call[d]
    BY <1>1, <2>1, <2>2
  <2>5. CacheIsCurrent'
    <3> SUFFICES ASSUME b.age < TTL, NEW s \in Servers, settled[s] > b.age
                 PROVE  IF s \in Registered
                        THEN Registration(s) \in b.manifest.tools \cup b.manifest.failed
                        ELSE \A v \in 1..MaxChanges : <<s, v>> \notin b.manifest.tools
      BY <1>2, <2>1 DEF CacheIsCurrent, Fresh, UpToDate
    <3>1. s \in Registered => place[s] <= b.at
      BY <1>1, <1>5, CallingParts DEF Ahead, RegistryTypeOK
    <3> QED  BY <3>1 DEF Knows, UpToDate
  <2>6. CallsAreBounded'
    BY <2>4 DEF CallsAreBounded
  <2>7. BuildsAreCurrent'
    BY <1>2, <2>4 DEF BuildsAreCurrent, UpToDate
  <2> QED  BY <2>3, <2>5, <2>6, <2>7
<1>6. CASE ~DictChanged(b) /\ Ahead(b) # {}
  <2> DEFINE n == NextOf(b)
             e == [b EXCEPT !.pc = "fetching", !.server = {Registration(n)}, !.at = place[n]]
  <2>1. call' = [call EXCEPT ![c] = e] /\ UNCHANGED <<cache, cacheAge>>
    BY <1>6 DEF Advance
  <2>2. /\ n \in Registered /\ n \in Servers /\ place[n] > b.at
        /\ \A t \in Ahead(b) : place[n] <= place[t]
    BY <1>6, NextIsFirst DEF Ahead, Registered
  <2>3. {Registration(n)} \in Entries /\ place[n] \in 0..MaxChanges
    <3>1. place[n] \in 0..changes /\ changes \in 0..MaxChanges
      BY <2>2 DEF RegistryTypeOK
    <3> QED  BY <2>2, <3>1, RegistrationIsEntry, RegistryAssumption
  <2>4. /\ e \in Calling /\ e.manifest = b.manifest /\ e.size = b.size /\ e.age = b.age
        /\ e.server = {Registration(n)} /\ e.at = place[n]
    BY <1>1, <2>3 DEF Calling
  <2> HIDE DEF n, e
  <2>5. RegistryTypeOK'
    BY <1>1, <1>2, <2>1, <2>4 DEF RegistryTypeOK
  <2>6. Cardinality(e.manifest.tools \cup e.manifest.failed) < e.size
    <3>1. b.manifest.tools \cup b.manifest.failed \in Entries
      BY <1>1, CallingParts DEF Entries
    <3>2. Cardinality(b.manifest.tools \cup b.manifest.failed) # b.size
      BY <1>6 DEF DictChanged
    <3> QED  BY <1>1, <2>4, <3>1, <3>2, CallingParts, EntriesAreFinite DEF Knows
  <2>7. ASSUME b.age < TTL
        PROVE  UpToDate(b.manifest.tools \cup b.manifest.failed \cup {Registration(n)},
                        b.manifest.tools \cup {Registration(n)}, b.age, place[n])
    <3> SUFFICES ASSUME NEW s \in Servers, settled[s] > b.age
                 PROVE  IF s \in Registered
                        THEN place[s] <= place[n] =>
                             Registration(s) \in b.manifest.tools \cup b.manifest.failed \cup {Registration(n)}
                        ELSE \A v \in 1..MaxChanges :
                             <<s, v>> \notin b.manifest.tools \cup {Registration(n)}
      BY DEF UpToDate
    <3>1. IF s \in Registered
          THEN place[s] <= b.at => Registration(s) \in b.manifest.tools \cup b.manifest.failed
          ELSE \A v \in 1..MaxChanges : <<s, v>> \notin b.manifest.tools
      BY <2>7 DEF Knows, UpToDate
    <3>2. CASE s \in Registered
      <4>1. place[s] \in Nat /\ place[n] \in Nat /\ b.at \in Nat
        BY <1>1, <2>2, CallingParts, RegistryAssumption DEF RegistryTypeOK
      <4>2. place[s] > b.at /\ place[s] <= place[n] => s = n
        BY <2>2, <3>2, <4>1 DEF Ahead, RegistryTypeOK
      <4> QED  BY <3>1, <3>2, <4>1, <4>2
    <3>3. CASE s \notin Registered
      <4>1. s # n
        BY <2>2, <3>3
      <4>2. \A v \in 1..MaxChanges : <<s, v>> # Registration(n)
        BY <4>1 DEF Registration
      <4> QED  BY <3>1, <3>3, <4>2
    <3> QED  BY <3>2, <3>3
  <2>8. \A d \in Callers : call'[d] = IF d = c THEN e ELSE call[d]
    BY <1>1, <2>1
  <2>9. CallsAreBounded'
    <3>1. Registration(n) \in Servers \X (1..MaxChanges)
      BY <2>3 DEF Entries
    <3> QED  BY <2>4, <2>6, <2>8, <3>1 DEF CallsAreBounded
  <2>10. BuildsAreCurrent'
    <3> SUFFICES ASSUME NEW d \in Callers, call'[d].pc = "fetching", call'[d].age < TTL
                 PROVE  UpToDate(call'[d].manifest.tools \cup call'[d].manifest.failed \cup call'[d].server,
                                 call'[d].manifest.tools \cup call'[d].server,
                                 call'[d].age, call'[d].at)
      BY <1>3 DEF BuildsAreCurrent
    <3>1. CASE d = c
      BY <2>4, <2>7, <2>8, <3>1
    <3>2. CASE d # c
      BY <2>8, <3>2 DEF BuildsAreCurrent
    <3> QED  BY <3>1, <3>2
  <2>11. CacheIsCurrent'
    BY <1>2, <2>1 DEF CacheIsCurrent, Fresh, UpToDate
  <2> QED  BY <2>5, <2>9, <2>10, <2>11
<1> QED  BY <1>4, <1>5, <1>6

\* What a registration or a deregistration of s leaves as it was.
LEMMA OthersKeep ==
    ASSUME RegistryInv, RegistryTypeOK', NEW s \in Servers, UNCHANGED <<cache, call>>, cacheAge' = TTL,
           \A t \in Servers : t # s =>
               place'[t] = place[t] /\ edition'[t] = edition[t] /\ settled'[t] = settled[t],
           settled'[s] = 0 \/ UNCHANGED <<place, edition, settled>>
    PROVE  RegistryInv'
<1>1. CallsAreBounded'
  BY DEF RegistryInv, CallsAreBounded
<1>2. CacheIsCurrent'
  BY RegistryAssumption DEF CacheIsCurrent, Fresh
<1>3. ASSUME NEW listed, NEW tools, NEW age \in 0..TTL, NEW at, UpToDate(listed, tools, age, at)
      PROVE  UpToDate(listed, tools, age, at)'
  <2> SUFFICES ASSUME NEW t \in Servers, settled'[t] > age
               PROVE  IF t \in Registered' THEN place'[t] <= at => Registration(t)' \in listed
                      ELSE \A v \in 1..MaxChanges : <<t, v>> \notin tools
    BY DEF UpToDate
  <2>1. t # s \/ UNCHANGED <<place, edition, settled>>
    BY RegistryAssumption
  <2>2. place'[t] = place[t] /\ edition'[t] = edition[t] /\ settled'[t] = settled[t]
    BY <2>1
  <2>3. Registration(t)' = Registration(t) /\ (t \in Registered' <=> t \in Registered)
    BY <2>2 DEF Registration, Registered
  <2> QED  BY <1>3, <2>2, <2>3 DEF UpToDate
<1>4. BuildsAreCurrent'
  <2> SUFFICES ASSUME NEW c \in Callers, call[c].pc = "fetching", call[c].age < TTL
               PROVE  UpToDate(call[c].manifest.tools \cup call[c].manifest.failed \cup call[c].server,
                               call[c].manifest.tools \cup call[c].server,
                               call[c].age, call[c].at)'
    BY DEF BuildsAreCurrent
  <2>1. call[c].age \in 0..TTL
    BY CallingParts DEF RegistryInv, RegistryTypeOK
  <2>2. UpToDate(call[c].manifest.tools \cup call[c].manifest.failed \cup call[c].server,
                 call[c].manifest.tools \cup call[c].server, call[c].age, call[c].at)
    BY DEF RegistryInv, BuildsAreCurrent
  <2> QED  BY <1>3, <2>1, <2>2
<1> QED  BY <1>1, <1>2, <1>4 DEF RegistryInv

LEMMA RegisterKeeps ==
    ASSUME RegistryInv, NEW s \in Servers, RegisterServer(s) PROVE RegistryInv'
<1> USE DEF RegistryInv, RegistryTypeOK
<1>1. /\ changes \in 0..MaxChanges /\ changes' = changes + 1 /\ changes' \in 1..MaxChanges
      /\ \A t \in Servers : place[t] \in Nat /\ place[t] < changes'
  BY RegistryAssumption DEF RegisterServer
<1>2. /\ place' \in [Servers -> 0..changes'] /\ edition' \in [Servers -> 0..changes']
      /\ settled' \in [Servers -> 0..TTL] /\ cacheAge' = TTL
      /\ edition'[s] = changes' /\ settled'[s] = 0
      /\ place'[s] = IF s \in Registered THEN place[s] ELSE changes'
      /\ \A t \in Servers : t # s =>
            place'[t] = place[t] /\ edition'[t] = edition[t] /\ settled'[t] = settled[t]
  BY <1>1, RegistryAssumption DEF RegisterServer, InvalidateCache
<1>3. Registered' = Registered \cup {s}
  BY <1>1, <1>2 DEF Registered, NotThere
<1>4. \A t \in Registered' : edition'[t] > 0
  BY <1>1, <1>2, <1>3 DEF Registered
<1>5. \A t, u \in Registered' : place'[t] = place'[u] => t = u
  <2>1. \A t \in Registered : t \in Servers
    BY DEF Registered
  <2> QED  BY <1>1, <1>2, <1>3, <2>1
<1>6. RegistryTypeOK'
  BY <1>1, <1>2, <1>4, <1>5, RegistryAssumption DEF RegisterServer
<1> HIDE DEF RegistryInv, RegistryTypeOK
<1>7. UNCHANGED <<cache, call>>
  BY DEF RegisterServer
<1> QED  BY <1>2, <1>6, <1>7, OthersKeep

LEMMA DeregisterKeeps ==
    ASSUME RegistryInv, NEW s \in Servers, DeregisterServer(s) PROVE RegistryInv'
<1> USE DEF RegistryInv, RegistryTypeOK
<1>1. /\ changes \in 0..MaxChanges /\ changes' = changes + 1 /\ changes' \in 1..MaxChanges
  BY RegistryAssumption DEF DeregisterServer
<1>2. /\ place' = [place EXCEPT ![s] = NotThere] /\ place' \in [Servers -> 0..changes']
      /\ edition' = edition /\ edition' \in [Servers -> 0..changes']
      /\ cacheAge' = TTL /\ settled' \in [Servers -> 0..TTL]
      /\ \A t \in Servers : t # s => place'[t] = place[t] /\ settled'[t] = settled[t]
  BY <1>1, RegistryAssumption DEF DeregisterServer, InvalidateCache, NotThere
<1>3. settled'[s] = 0 \/ UNCHANGED <<place, edition, settled>>
  <2>1. CASE s \in Registered
    BY <2>1 DEF DeregisterServer
  <2>2. CASE s \notin Registered
    <3>1. place[s] = NotThere /\ settled' = settled
      BY <2>2 DEF DeregisterServer, Registered
    <3>2. place' = place
      BY <1>2, <3>1
    <3> QED  BY <1>2, <3>1, <3>2
  <2> QED  BY <2>1, <2>2
<1>4. Registered' \subseteq Registered /\ \A t \in Registered' : place'[t] = place[t]
  BY <1>2 DEF Registered
<1>5. RegistryTypeOK'
  BY <1>1, <1>2, <1>4, RegistryAssumption DEF DeregisterServer
<1> HIDE DEF RegistryInv, RegistryTypeOK
<1>6. UNCHANGED <<cache, call>>
  BY DEF DeregisterServer
<1> QED  BY <1>2, <1>3, <1>5, <1>6, OthersKeep

LEMMA GetKeeps ==
    ASSUME RegistryInv, NEW c \in Callers, GetManifest(c) PROVE RegistryInv'
<1>1. UNCHANGED <<place, edition, changes, settled>>
  BY DEF GetManifest
<1>2. CASE Fresh
  <2>1. call' = [call EXCEPT ![c] = Answered(cache)] /\ UNCHANGED <<cache, cacheAge>>
    BY <1>2 DEF GetManifest
  <2>2. Answered(cache) \in Calling /\ Answered(cache).pc = "answered"
    BY IdleParts DEF Answered, Calling, RegistryInv, RegistryTypeOK
  <2>3. RegistryTypeOK'
    BY <1>1, <2>1, <2>2 DEF RegistryInv, RegistryTypeOK, Registered
  <2>4. \A d \in Callers : call'[d].pc = "fetching" => call'[d] = call[d]
    BY <2>1, <2>2 DEF RegistryInv, RegistryTypeOK
  <2>5. CallsAreBounded'
    BY <2>4 DEF RegistryInv, CallsAreBounded
  <2>6. BuildsAreCurrent'
    BY <1>1, <2>4 DEF RegistryInv, BuildsAreCurrent, UpToDate, Registered, Registration
  <2>7. CacheIsCurrent'
    BY <1>1, <2>1 DEF RegistryInv, CacheIsCurrent, Fresh, UpToDate, Registered, Registration
  <2> QED  BY <2>3, <2>5, <2>6, <2>7 DEF RegistryInv
<1>3. CASE ~Fresh
  <2> DEFINE b == [Idle EXCEPT !.size = Cardinality(Registered)]
  <2>1. Advance(c, b)
    BY <1>3 DEF GetManifest
  <2>2. b \in Calling /\ b.manifest = NoManifest /\ b.at = 0 /\ b.size = Cardinality(Registered)
    BY IdleParts, RegisteredAreFinite DEF Calling
  <2> HIDE DEF b
  <2>3. Cardinality({}) = 0 /\ NoManifest.tools \cup NoManifest.failed = {}
    BY IdleParts, FS_EmptySet
  <2>4. UpToDate({}, {}, b.age, 0)
    <3>1. \A s \in Registered : ~(place[s] <= 0)
      BY RegistryAssumption DEF RegistryInv, RegistryTypeOK, Registered, NotThere
    <3> QED  BY <3>1 DEF UpToDate
  <2>5. Knows(b)
    BY <2>2, <2>3, <2>4, IdleParts, RegisteredAreFinite DEF Knows
  <2> QED  BY <1>1, <2>1, <2>5, AdvanceKeeps
<1> QED  BY <1>2, <1>3

LEMMA FetchedKeeps ==
    ASSUME RegistryInv, NEW c \in Callers, NEW ok \in BOOLEAN, Fetched(c, ok) PROVE RegistryInv'
<1> DEFINE m == call[c].manifest
           n == IF ok THEN [m EXCEPT !.tools = @ \cup call[c].server]
                ELSE [m EXCEPT !.failed = @ \cup call[c].server]
           b == [call[c] EXCEPT !.manifest = n]
<1>1. Advance(c, b) /\ UNCHANGED <<place, edition, changes, settled>> /\ call[c].pc = "fetching"
  BY DEF Fetched
<1>2. call[c] \in Calling /\ m \in Manifest /\ call[c].server \in Entries
  BY CallingParts DEF RegistryInv, RegistryTypeOK
<1>3. /\ n \in Manifest
      /\ n.tools \cup n.failed = (m.tools \cup m.failed) \cup call[c].server
      /\ n.tools \subseteq m.tools \cup call[c].server
  <2>1. CASE ok
    BY <1>2, <2>1 DEF Manifest, Entries
  <2>2. CASE ~ok
    BY <1>2, <2>2 DEF Manifest, Entries
  <2> QED  BY <2>1, <2>2
<1>4. /\ b \in Calling /\ b.manifest = n /\ b.size = call[c].size
      /\ b.age = call[c].age /\ b.at = call[c].at
  BY <1>2, <1>3 DEF Calling
<1> HIDE DEF n, b
<1>5. Cardinality(n.tools \cup n.failed) <= b.size
  <2>1. PICK e : call[c].server = {e}
    BY <1>1 DEF RegistryInv, CallsAreBounded
  <2>2. Cardinality(m.tools \cup m.failed) < call[c].size
    BY <1>1 DEF RegistryInv, CallsAreBounded
  <2>3. m.tools \cup m.failed \in Entries
    BY <1>2 DEF Manifest, Entries
  <2>4. /\ IsFiniteSet(m.tools \cup m.failed) /\ Cardinality(m.tools \cup m.failed) \in Nat
    BY <2>3, EntriesAreFinite
  <2>5. Cardinality((m.tools \cup m.failed) \cup {e}) <= Cardinality(m.tools \cup m.failed) + 1
    <3>1. Cardinality((m.tools \cup m.failed) \cup {e}) \in
             {Cardinality(m.tools \cup m.failed), Cardinality(m.tools \cup m.failed) + 1}
      BY <2>4, FS_AddElement
    <3> QED  BY <2>4, <3>1
  <2>6. Cardinality((m.tools \cup m.failed) \cup {e}) \in Nat /\ call[c].size \in Nat
    BY <2>4, FS_AddElement, FS_CardinalityType, <1>2, CallingParts
  <2>7. n.tools \cup n.failed = (m.tools \cup m.failed) \cup {e} /\ b.size = call[c].size
    BY <1>3, <1>4, <2>1
  <2>8. Cardinality((m.tools \cup m.failed) \cup {e}) <= call[c].size
    <3>1. ASSUME NEW x \in Nat, NEW y \in Nat, NEW z \in Nat, x < z, y <= x + 1 PROVE y <= z
      BY <3>1
    <3> HIDE DEF m
    <3> QED  BY <2>2, <2>4, <2>5, <2>6, <3>1
  <2> QED  BY <2>7, <2>8
<1>6. ASSUME b.age < TTL PROVE UpToDate(n.tools \cup n.failed, n.tools, b.age, b.at)
  <2>1. UpToDate((m.tools \cup m.failed) \cup call[c].server, m.tools \cup call[c].server, b.age, b.at)
    BY <1>1, <1>4, <1>6 DEF RegistryInv, BuildsAreCurrent
  <2> QED  BY <1>3, <2>1 DEF UpToDate
<1>7. Knows(b)
  BY <1>4, <1>5, <1>6 DEF Knows
<1> QED  BY <1>1, <1>7, AdvanceKeeps

LEMMA TickKeeps == ASSUME RegistryInv, Tick PROVE RegistryInv'
<1> USE DEF RegistryInv
<1>1. /\ UNCHANGED <<place, edition, changes, cache>>
      /\ cacheAge \in 0..TTL /\ cacheAge' = Smaller(cacheAge + 1, TTL)
      /\ \A s \in Servers : settled[s] \in 0..TTL /\ settled'[s] = Smaller(settled[s] + 1, TTL)
      /\ TTL \in Nat
  BY RegistryAssumption DEF Tick, RegistryTypeOK
<1>2. /\ Registered' = Registered /\ \A s : Registration(s)' = Registration(s)
  BY <1>1 DEF Registered, Registration
<1>3. ASSUME NEW c \in Callers
      PROVE  /\ call'[c] \in Calling /\ call'[c].pc = call[c].pc
             /\ call'[c].manifest = call[c].manifest /\ call'[c].server = call[c].server
             /\ call'[c].size = call[c].size /\ call'[c].at = call[c].at
             /\ call[c].pc = "fetching" => call'[c].age = Smaller(call[c].age + 1, TTL)
  <2>1. call[c] \in Calling /\ call[c].age \in 0..TTL
    BY CallingParts DEF RegistryTypeOK
  <2>2. Smaller(call[c].age + 1, TTL) \in 0..TTL
    BY <1>1, <2>1 DEF Smaller
  <2>3. CASE call[c].pc = "fetching"
    <3>1. call'[c] = [call[c] EXCEPT !.age = Smaller(@ + 1, TTL)]
      BY <2>3 DEF Tick
    <3> QED  BY <2>1, <2>2, <3>1 DEF Calling
  <2>4. CASE call[c].pc # "fetching"
    BY <2>1, <2>4 DEF Tick
  <2> QED  BY <2>3, <2>4
<1>4. RegistryTypeOK'
  <2>1. call' \in [Callers -> Calling]
    BY <1>3 DEF Tick
  <2>2. cacheAge' \in 0..TTL /\ settled' \in [Servers -> 0..TTL]
    BY <1>1 DEF Smaller, Tick
  <2> QED  BY <1>1, <1>2, <2>1, <2>2 DEF RegistryTypeOK
<1>5. CallsAreBounded'
  BY <1>3 DEF CallsAreBounded
\* The servers that have not changed for longer than an age are no more.
<1>6. ASSUME NEW listed, NEW tools, NEW age \in 0..TTL, NEW at,
             Smaller(age + 1, TTL) < TTL, UpToDate(listed, tools, age, at),
             NEW s \in Servers, settled'[s] > Smaller(age + 1, TTL)
      PROVE  IF s \in Registered THEN place[s] <= at => Registration(s) \in listed
             ELSE \A v \in 1..MaxChanges : <<s, v>> \notin tools
  <2>1. settled[s] > age
    BY <1>1, <1>6 DEF Smaller
  <2> QED  BY <1>6, <2>1 DEF UpToDate
<1>7. BuildsAreCurrent'
  <2> SUFFICES ASSUME NEW c \in Callers, call[c].pc = "fetching",
                      Smaller(call[c].age + 1, TTL) < TTL,
                      NEW s \in Servers, settled'[s] > Smaller(call[c].age + 1, TTL)
               PROVE  IF s \in Registered
                      THEN place[s] <= call[c].at =>
                           Registration(s) \in call[c].manifest.tools \cup call[c].manifest.failed
                                                  \cup call[c].server
                      ELSE \A v \in 1..MaxChanges :
                           <<s, v>> \notin call[c].manifest.tools \cup call[c].server
    BY <1>1, <1>2, <1>3 DEF BuildsAreCurrent, UpToDate
  <2>1. call[c].age \in 0..TTL /\ call[c].age < TTL
    BY <1>1, CallingParts DEF RegistryTypeOK, Smaller
  <2> QED  BY <1>6, <2>1 DEF BuildsAreCurrent
<1>8. CacheIsCurrent'
  <2> SUFFICES ASSUME Smaller(cacheAge + 1, TTL) < TTL,
                      NEW s \in Servers, settled'[s] > Smaller(cacheAge + 1, TTL)
               PROVE  IF s \in Registered
                      THEN place[s] <= MaxChanges => Registration(s) \in cache.tools \cup cache.failed
                      ELSE \A v \in 1..MaxChanges : <<s, v>> \notin cache.tools
    BY <1>1, <1>2 DEF CacheIsCurrent, Fresh, UpToDate
  <2>1. cacheAge < TTL
    BY <1>1 DEF Smaller
  <2> QED  BY <1>1, <1>6, <2>1 DEF CacheIsCurrent, Fresh
<1> QED  BY <1>4, <1>5, <1>7, <1>8

LEMMA ReturnKeeps == ASSUME RegistryInv, NEW c \in Callers, Return(c) PROVE RegistryInv'
<1>1. call' = [call EXCEPT ![c] = Idle] /\ UNCHANGED <<place, edition, changes, cache, cacheAge, settled>>
  BY DEF Return
<1>2. RegistryTypeOK'
  BY <1>1, IdleParts DEF RegistryInv, RegistryTypeOK, Registered
<1>3. \A d \in Callers : call'[d].pc = "fetching" => call'[d] = call[d]
  BY <1>1, IdleParts DEF RegistryInv, RegistryTypeOK
<1>4. CallsAreBounded'
  BY <1>3 DEF RegistryInv, CallsAreBounded
<1>5. BuildsAreCurrent'
  BY <1>1, <1>3 DEF RegistryInv, BuildsAreCurrent, UpToDate, Registered, Registration
<1>6. CacheIsCurrent'
  BY <1>1 DEF RegistryInv, CacheIsCurrent, Fresh, UpToDate, Registered, Registration
<1> QED  BY <1>2, <1>4, <1>5, <1>6 DEF RegistryInv

----------------------------------------------------------------------------
\* No step disturbs what builds and the cache know of the registrations.
LEMMA RegistryStep == RegistryInv /\ [RegistryNext]_registryVars => RegistryInv'
<1>1. RegistryInv /\ UNCHANGED registryVars => RegistryInv'
  <2> SUFFICES ASSUME RegistryInv, UNCHANGED registryVars PROVE RegistryInv'
    OBVIOUS
  <2>1. RegistryTypeOK'
    BY DEF registryVars, RegistryInv, RegistryTypeOK, Registered
  <2>2. CallsAreBounded'
    BY DEF registryVars, RegistryInv, CallsAreBounded
  <2>3. BuildsAreCurrent'
    BY DEF registryVars, RegistryInv, BuildsAreCurrent, UpToDate, Registered, Registration
  <2>4. CacheIsCurrent'
    BY DEF registryVars, RegistryInv, CacheIsCurrent, Fresh, UpToDate, Registered, Registration
  <2> QED  BY <2>1, <2>2, <2>3, <2>4 DEF RegistryInv
<1>. QED  BY <1>1, TickKeeps, RegisterKeeps, DeregisterKeeps, GetKeeps, ReturnKeeps, FetchedKeeps DEF RegistryNext

----------------------------------------------------------------------------
\* What a build has asked.

AskInv(b) ==
    /\ b.server \cap Asked(b) = {} /\ b.manifest.tools \cap b.manifest.failed = {}
    /\ \A e \in Asked(b) \cup b.server :
          /\ e[2] <= changes
          /\ \A s \in Registered : Registration(s) = e => place[s] <= b.at

LEMMA AskInvs ==
    NoneAskedTwice /\ AskedIsBehind
        <=> \A c \in Callers : call[c].pc = "fetching" => AskInv(call[c])
BY DEF NoneAskedTwice, AskedIsBehind, AskInv

\* A loop that goes on asks a registration it has no answer for.
LEMMA AdvanceAsks ==
    ASSUME RegistryInv, NEW c \in Callers, NEW b \in Calling, b.server \subseteq Asked(b),
           b.manifest.tools \cap b.manifest.failed = {},
           \A e \in Asked(b) : /\ e[2] <= changes
                               /\ \A s \in Registered : Registration(s) = e => place[s] <= b.at,
           Advance(c, b), UNCHANGED <<place, edition, changes>>,
           call'[c].pc = "fetching"
    PROVE  /\ AskInv(call[c])'
           /\ call'[c].manifest = b.manifest /\ call'[c].size = b.size
<1> USE DEF RegistryInv
<1>1. call \in [Callers -> Calling]
  BY DEF RegistryTypeOK
<1>2. ~DictChanged(b) /\ Ahead(b) # {}
  <2>1. [Idle EXCEPT !.pc = "raised"].pc = "raised" /\ Answered(b.manifest).pc = "answered"
    BY IdleParts DEF Calling, Answered
  <2>2. CASE DictChanged(b)
    BY <1>1, <2>1, <2>2 DEF Advance
  <2>3. CASE ~DictChanged(b) /\ Ahead(b) = {}
    BY <1>1, <2>1, <2>3 DEF Advance, FinishBuild
  <2>. QED  BY <2>2, <2>3
<1> DEFINE n == NextOf(b)
           e == [b EXCEPT !.pc = "fetching", !.server = {Registration(n)}, !.at = place[n]]
<1>3. call'[c] = e
  BY <1>1, <1>2 DEF Advance
<1>4. n \in Registered /\ n \in Servers /\ place[n] > b.at
  BY <1>2, NextIsFirst DEF Ahead, Registered
<1>5. e.manifest = b.manifest /\ e.size = b.size /\ e.server = {Registration(n)} /\ e.at = place[n]
  BY DEF Calling
<1> HIDE DEF n, e
<1>6. /\ Registered' = Registered /\ \A s : Registration(s)' = Registration(s)
      /\ Asked(call[c])' = Asked(b)
  BY <1>3, <1>5 DEF Registered, Registration, Asked
<1>7. place[n] \in Nat /\ b.at \in Nat /\ edition[n] <= changes
      /\ \A s \in Registered : s \in Servers /\ place[s] \in Nat
  BY <1>4, CallingParts, RegistryAssumption DEF RegistryTypeOK, Registered
<1>8. Registration(n) \notin Asked(b)
  BY <1>4, <1>7
<1>9. \A s \in Registered : Registration(s) = Registration(n) => s = n
  BY DEF Registration
<1>10. ASSUME NEW f \in Asked(b) \cup {Registration(n)}
       PROVE  /\ f[2] <= changes
              /\ \A s \in Registered : Registration(s) = f => place[s] <= place[n]
  <2>1. CASE f \in Asked(b)
    BY <1>4, <1>7, <2>1
  <2>2. CASE f = Registration(n)
    BY <1>7, <1>9, <2>2 DEF Registration
  <2>. QED  BY <2>1, <2>2
<1>. QED  BY <1>3, <1>5, <1>6, <1>8, <1>10 DEF AskInv

\* A build goes on after an answer with one more answered.
LEMMA FetchedAsks ==
    ASSUME RegistryIInv, NEW c \in Callers, NEW ok \in BOOLEAN, Fetched(c, ok), call'[c].pc = "fetching"
    PROVE  /\ AskInv(call[c])' /\ call'[c].size = call[c].size
           /\ Cardinality(Asked(call'[c])) = Cardinality(Asked(call[c])) + 1
<1> DEFINE m == call[c].manifest
           n == IF ok THEN [m EXCEPT !.tools = @ \cup call[c].server]
                ELSE [m EXCEPT !.failed = @ \cup call[c].server]
           b == [call[c] EXCEPT !.manifest = n]
<1>1. Advance(c, b) /\ UNCHANGED <<place, edition, changes, settled>> /\ call[c].pc = "fetching"
  BY DEF Fetched
<1>2. call[c] \in Calling /\ m \in Manifest /\ call[c].server \in Entries
  BY CallingParts DEF RegistryIInv, RegistryInv, RegistryTypeOK
<1>3. AskInv(call[c])
  BY <1>1, AskInvs DEF RegistryIInv
<1>4. /\ n \in Manifest
      /\ n.tools \cup n.failed = Asked(call[c]) \cup call[c].server
      /\ n.tools \cap n.failed = {}
  <2>1. CASE ok
    BY <1>2, <1>3, <2>1 DEF Manifest, Entries, Asked, AskInv
  <2>2. CASE ~ok
    BY <1>2, <1>3, <2>2 DEF Manifest, Entries, Asked, AskInv
  <2>. QED  BY <2>1, <2>2
<1>5. /\ b \in Calling /\ b.manifest = n /\ b.size = call[c].size
      /\ b.server = call[c].server /\ b.at = call[c].at
  BY <1>2, <1>4 DEF Calling
<1> HIDE DEF n, b
<1>6. Asked(b) = Asked(call[c]) \cup call[c].server
  BY <1>4, <1>5 DEF Asked
<1>7. /\ AskInv(call[c])'
      /\ call'[c].manifest = b.manifest /\ call'[c].size = b.size
  BY <1>1, <1>3, <1>4, <1>5, <1>6, AdvanceAsks DEF RegistryIInv, AskInv
<1>8. PICK e : call[c].server = {e}
  BY <1>1 DEF RegistryIInv, RegistryInv, CallsAreBounded
<1>9. e \notin Asked(call[c])
  BY <1>3, <1>8 DEF AskInv
<1>10. Asked(call[c]) \in Entries
  BY <1>2 DEF Manifest, Entries, Asked
<1>11. Cardinality(Asked(call[c]) \cup {e}) = Cardinality(Asked(call[c])) + 1
  BY <1>9, <1>10, EntriesAreFinite, FS_AddElement
<1>12. Asked(call'[c]) = Asked(call[c]) \cup {e}
  BY <1>6, <1>7, <1>8 DEF Asked
<1>. QED  BY <1>5, <1>7, <1>11, <1>12

\* A call that finds the cache stale begins by asking its first server.
LEMMA GetAsks ==
    ASSUME RegistryIInv, NEW c \in Callers, GetManifest(c), call'[c].pc = "fetching"
    PROVE  AskInv(call[c])'
<1> DEFINE b == [Idle EXCEPT !.size = Cardinality(Registered)]
<1>1. call \in [Callers -> Calling]
  BY DEF RegistryIInv, RegistryInv, RegistryTypeOK
<1>2. ~Fresh
  <2>1. Answered(cache).pc = "answered"
    BY IdleParts DEF Calling, Answered
  <2>. QED  BY <1>1, <2>1 DEF GetManifest
<1>3. Advance(c, b) /\ UNCHANGED <<place, edition, changes, settled>>
  BY <1>2 DEF GetManifest
<1>4. /\ b \in Calling /\ b.manifest.tools = {} /\ b.manifest.failed = {} /\ b.server = {}
  BY IdleParts, RegisteredAreFinite DEF Calling, Idle
<1> HIDE DEF b
<1>5. Asked(b) = {}
  BY <1>4 DEF Asked
<1>. QED  BY <1>3, <1>4, <1>5, AdvanceAsks DEF RegistryIInv

\* A registration is a new one, and a deregistration makes none: what a build
\* has asked is behind it or registered no more.
LEMMA ChangeAsks ==
    ASSUME RegistryIInv, NEW s \in Servers, RegisterServer(s) \/ DeregisterServer(s),
           NEW c \in Callers, AskInv(call[c])
    PROVE  AskInv(call[c])'
<1>1. /\ call' = call /\ changes \in Nat /\ changes' = changes + 1
      /\ \A t \in Servers : t # s => place'[t] = place[t] /\ edition'[t] = edition[t]
      /\ edition'[s] = changes + 1 \/ place'[s] = NotThere
  <2>1. place \in [Servers -> 0..changes] /\ edition \in [Servers -> 0..changes] /\ changes \in 0..MaxChanges
    BY DEF RegistryIInv, RegistryInv, RegistryTypeOK
  <2>. QED  BY <2>1, RegistryAssumption DEF RegisterServer, DeregisterServer
<1>2. call[c] \in Calling
  BY DEF RegistryIInv, RegistryInv, RegistryTypeOK
<1>3. ASSUME NEW e \in Asked(call[c]) \cup call[c].server
      PROVE  /\ e[2] <= changes'
             /\ \A t \in Registered' : Registration(t)' = e => place'[t] <= call[c].at
  <2>1. e \in Servers \X (1..MaxChanges)
    BY <1>2, CallingParts DEF Asked, Entries
  <2>2. e[2] \in Nat /\ e[2] <= changes
    BY <2>1, RegistryAssumption DEF AskInv
  <2>3. ASSUME NEW t \in Registered', Registration(t)' = e PROVE place'[t] <= call[c].at
    <3>1. t \in Servers /\ place'[t] # NotThere /\ edition'[t] = e[2]
      BY <2>3 DEF Registered, Registration
    <3>2. t # s
      BY <1>1, <2>2, <3>1
    <3>3. t \in Registered /\ Registration(t) = e /\ place'[t] = place[t]
      BY <1>1, <2>3, <3>1, <3>2 DEF Registered, Registration
    <3>. QED  BY <3>3 DEF AskInv
  <2>. QED  BY <1>1, <2>2, <2>3
<1>. QED  BY <1>1, <1>3 DEF AskInv, Asked

\* The calls that another one's step, or time, passes by.
LEMMA StaysAsked ==
    ASSUME NEW c \in Callers, UNCHANGED <<place, edition, changes>>, AskInv(call[c]),
           call'[c].manifest = call[c].manifest, call'[c].server = call[c].server,
           call'[c].at = call[c].at
    PROVE  AskInv(call[c])'
BY DEF AskInv, Asked, Registered, Registration

LEMMA TickPasses ==
    ASSUME RegistryIInv, Tick, NEW c \in Callers
    PROVE  /\ UNCHANGED <<place, edition, changes>> /\ call'[c].pc = call[c].pc
           /\ call'[c] = [call[c] EXCEPT !.age = call'[c].age]
<1>1. call[c] \in Calling
  BY DEF RegistryIInv, RegistryInv, RegistryTypeOK
<1>2. call'[c] = IF call[c].pc = "fetching" THEN [call[c] EXCEPT !.age = Smaller(@ + 1, TTL)] ELSE call[c]
  BY DEF Tick
<1>. QED  BY <1>1, <1>2 DEF Calling, Tick

LEMMA OnesStep ==
    ASSUME RegistryIInv, NEW c \in Callers, GetManifest(c) \/ Return(c) \/ \E ok \in BOOLEAN : Fetched(c, ok)
    PROVE  /\ UNCHANGED <<place, edition, changes>>
           /\ \A d \in Callers : d # c => call'[d] = call[d]
           /\ Return(c) => call'[c].pc # "fetching"
           /\ ~Return(c) /\ call'[c].pc = "fetching" => AskInv(call[c])'
<1>1. call \in [Callers -> Calling]
  BY DEF RegistryIInv, RegistryInv, RegistryTypeOK
<1>2. UNCHANGED <<place, edition, changes>>
  BY DEF GetManifest, Return, Fetched
<1>3. ASSUME NEW b, Advance(c, b) PROVE \A d \in Callers : d # c => call'[d] = call[d]
  BY <1>1, <1>3 DEF Advance, FinishBuild
<1>4. \A d \in Callers : d # c => call'[d] = call[d]
  BY <1>1, <1>3 DEF GetManifest, Return, Fetched
<1>5. Return(c) => call'[c].pc # "fetching"
  BY <1>1, IdleParts DEF Return
<1>. QED  BY <1>2, <1>4, <1>5, GetAsks, FetchedAsks

\* The invariant of the registry: types, the length of the loops, what builds
\* and the cache know of the registrations, and that none is asked twice.
THEOREM RegistryInvariance == RegistrySpec => []RegistryIInv
<1>1. RegistryInit => RegistryIInv
  <2>1. RegistryInit => NoneAskedTwice /\ AskedIsBehind
    BY IdleParts DEF RegistryInit, NoneAskedTwice, AskedIsBehind
  <2>. QED  BY <2>1, InitEstablishes DEF RegistryIInv
<1>2. RegistryIInv /\ [RegistryNext]_registryVars => RegistryIInv'
  <2> SUFFICES ASSUME RegistryIInv, [RegistryNext]_registryVars, NEW c \in Callers, call'[c].pc = "fetching"
               PROVE  AskInv(call[c])'
    <3>1. (\A c \in Callers : call[c].pc = "fetching" => AskInv(call[c]))'
            => (NoneAskedTwice /\ AskedIsBehind)'
      BY AskInvs, PTL
    <3>. QED  BY <3>1, RegistryStep DEF RegistryIInv
  <2>1. call[c].pc = "fetching" => AskInv(call[c])
    BY AskInvs DEF RegistryIInv
  <2>2. CASE UNCHANGED registryVars
    BY <2>1, <2>2, StaysAsked DEF registryVars
  <2>3. CASE Tick
    <3>1. call[c] \in Calling
      BY DEF RegistryIInv, RegistryInv, RegistryTypeOK
    <3>2. call'[c] = [call[c] EXCEPT !.age = call'[c].age] /\ UNCHANGED <<place, edition, changes>>
          /\ call[c].pc = "fetching"
      BY <2>3, TickPasses
    <3>3. /\ call'[c].manifest = call[c].manifest /\ call'[c].server = call[c].server
          /\ call'[c].at = call[c].at
      BY <3>1, <3>2 DEF Calling
    <3>. QED  BY <2>1, <3>2, <3>3, StaysAsked
  <2>4. CASE \E s \in Servers : RegisterServer(s) \/ DeregisterServer(s)
    <3>1. call' = call
      BY <2>4 DEF RegisterServer, DeregisterServer
    <3>. QED  BY <2>1, <2>4, <3>1, ChangeAsks
  <2>5. ASSUME NEW d \in Callers,
               GetManifest(d) \/ Return(d) \/ \E ok \in BOOLEAN : Fetched(d, ok)
        PROVE  AskInv(call[c])'
    <3>1. CASE d = c
      BY <2>5, <3>1, OnesStep, GetAsks, FetchedAsks
    <3>2. CASE d # c
      <4>1. call'[c] = call[c] /\ UNCHANGED <<place, edition, changes>>
        BY <2>5, <3>2, OnesStep
      <4>. QED  BY <2>1, <4>1, StaysAsked
    <3>. QED  BY <3>1, <3>2
  <2>. QED  BY <2>2, <2>3, <2>4, <2>5 DEF RegistryNext
<1>. QED  BY <1>1, <1>2, PTL DEF RegistrySpec

\* However registrations come, go and come back while it is built, a manifest
\* is built by asking each registration once.
THEOREM EachIsAskedOnce == RegistrySpec => []NoneAskedTwice
BY RegistryInvariance, PTL DEF RegistryIInv

\* A build that goes on has one more of its answers: with CallsAreBounded, it
\* asks no more servers than there were when it began.
THEOREM NoAnswerInVain == RegistrySpec => EveryAnswerCounts
<1> DEFINE Counts == \A c \in Callers : call[c].pc = "fetching" /\ call'[c].pc = "fetching" =>
               /\ call'[c].size = call[c].size
               /\ \/ call'[c] = [call[c] EXCEPT !.age = call'[c].age]
                  \/ Cardinality(Asked(call'[c])) = Cardinality(Asked(call[c])) + 1
<1>1. RegistryIInv /\ [RegistryNext]_registryVars => [Counts]_registryVars
  <2> SUFFICES ASSUME RegistryIInv, RegistryNext, NEW c \in Callers, call[c].pc = "fetching", call'[c].pc = "fetching"
               PROVE  /\ call'[c].size = call[c].size
                      /\ \/ call'[c] = [call[c] EXCEPT !.age = call'[c].age]
                         \/ Cardinality(Asked(call'[c])) = Cardinality(Asked(call[c])) + 1
    OBVIOUS
  <2>1. call[c] \in Calling
    BY DEF RegistryIInv, RegistryInv, RegistryTypeOK
  <2>2. CASE call'[c] = call[c]
    <3>1. call[c] = [call[c] EXCEPT !.age = call[c].age]
      BY <2>1 DEF Calling
    <3>. QED  BY <2>2, <3>1
  <2>3. CASE Tick
    BY <2>1, <2>3, TickPasses DEF Calling
  <2>4. CASE \E s \in Servers : RegisterServer(s) \/ DeregisterServer(s)
    BY <2>2, <2>4 DEF RegisterServer, DeregisterServer
  <2>5. ASSUME NEW d \in Callers,
               GetManifest(d) \/ Return(d) \/ \E ok \in BOOLEAN : Fetched(d, ok), d # c
        PROVE  call'[c] = call[c]
    BY <2>5, OnesStep
  <2>6. CASE GetManifest(c) \/ Return(c) \/ \E ok \in BOOLEAN : Fetched(c, ok)
    BY <2>6, OnesStep, FetchedAsks DEF GetManifest
  <2>. QED  BY <2>2, <2>3, <2>4, <2>5, <2>6 DEF RegistryNext
<1>2. RegistrySpec => [][Counts]_registryVars
  BY <1>1, RegistryInvariance, PTL DEF RegistrySpec
<1>. QED  BY <1>2 DEF EveryAnswerCounts

\* What the cache serves ignores no registration or deregistration that is a
\* TTL old, whatever is registered, built and invalidated meanwhile.
THEOREM StaleForATTLAtMost == RegistrySpec => []RegisteredWithinTTL
<1>1. RegistryInv => RegisteredWithinTTL
  <2> SUFFICES ASSUME RegistryInv, Fresh, NEW s \in Servers, settled[s] = TTL
               PROVE  IF s \in Registered
                      THEN Registration(s) \in cache.tools \cup cache.failed
                      ELSE \A v \in 1..MaxChanges : <<s, v>> \notin cache.tools
    BY DEF RegisteredWithinTTL
  <2>1. settled[s] > cacheAge /\ place[s] <= MaxChanges
    BY RegistryAssumption DEF Fresh, RegistryInv, RegistryTypeOK
  <2> QED  BY <2>1 DEF RegistryInv, CacheIsCurrent, UpToDate
<1>2. RegistrySpec => []RegistryInv
  BY RegistryInvariance, PTL DEF RegistryIInv
<1>. QED  BY <1>1, <1>2, PTL
=============================================================================
