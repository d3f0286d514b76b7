------------------------- MODULE CapabilityRegistry -------------------------
(***************************************************************************)
(* The gateway's registry of MCP servers, mcp_gateway/registry.py: the     *)
(* registrations, the cached capability manifest, and get_manifest calls   *)
(* that run concurrently.  Building a manifest suspends at the request to  *)
(* each server, with the loop over the registrations open.  A manifest is  *)
(* represented by the registrations whose tools it lists and those whose   *)
(* server could not be reached; registrations of one name are numbered.    *)
(***************************************************************************)
EXTENDS Integers, FiniteSets

CONSTANTS
    Servers,
    Callers,      \* get_manifest calls
    TTL,          \* _CACHE_TTL_SECONDS, in ticks
    MaxChanges    \* bound: registrations and deregistrations

ASSUME RegistryAssumption ==
    TTL \in Nat \ {0} /\ MaxChanges \in Nat /\ IsFiniteSet(Servers)

VARIABLES
    place,      \* _servers: each server's place in the dict, or NotThere
    edition,    \* which registration of its name a server has (its base_url)
    changes,    \* registrations and deregistrations so far
    cache,      \* _cached_manifest
    cacheAge,   \* now - _cache_time, up to TTL; TTL once invalidated
    call,       \* the get_manifest calls
    settled     \* history: ticks since a server's registration changed

registryVars == <<place, edition, changes, cache, cacheAge, call, settled>>

NotThere == 0
Registered == {s \in Servers : place[s] # NotThere}
Registration(s) == <<s, edition[s]>>

NoManifest == [tools |-> {}, failed |-> {}]
Idle == [pc |-> "idle", age |-> 0, size |-> 0, at |-> NotThere,
         server |-> {}, manifest |-> NoManifest]
Answered(m) == [Idle EXCEPT !.pc = "answered", !.manifest = m]

RegistryInit ==
    /\ place = [s \in Servers |-> NotThere]
    /\ edition = [s \in Servers |-> 0]
    /\ changes = 0
    /\ cache = NoManifest
    /\ cacheAge = TTL
    /\ call = [c \in Callers |-> Idle]
    /\ settled = [s \in Servers |-> TTL]

----------------------------------------------------------------------------
\* Registrations, which do not suspend.

InvalidateCache == cacheAge' = TTL

\* A new name goes to the end of the dict; a known one keeps its place.
RegisterServer(s) ==
    /\ changes < MaxChanges
    /\ changes' = changes + 1
    /\ place' = IF s \in Registered THEN place
                ELSE [place EXCEPT ![s] = changes + 1]
    /\ edition' = [edition EXCEPT ![s] = changes + 1]
    /\ InvalidateCache
    /\ settled' = [settled EXCEPT ![s] = 0]
    /\ UNCHANGED <<cache, call>>

\* The name need not be registered; the cache is invalidated all the same.
DeregisterServer(s) ==
    /\ changes < MaxChanges
    /\ changes' = changes + 1
    /\ place' = [place EXCEPT ![s] = NotThere]
    /\ InvalidateCache
    /\ settled' = IF s \in Registered THEN [settled EXCEPT ![s] = 0] ELSE settled
    /\ UNCHANGED <<edition, cache, call>>

----------------------------------------------------------------------------
\* get_manifest.

Smaller(a, b) == IF a < b THEN a ELSE b

Fresh == cacheAge < TTL

\* What the loop has still to visit, the dict being what it is now.
Ahead(b) == {s \in Registered : place[s] > b.at}
NextOf(b) == CHOOSE s \in Ahead(b) : \A t \in Ahead(b) : place[s] <= place[t]

\* Faulty variant: a loop that only minds the size of the dict.
DictChangedInSize(b) == Cardinality(Registered) # b.size

\* The loop over the dict raises when the dict's size is not what it was when
\* the loop began, or when there is one more entry than that to visit.
DictChanged(b) ==
    \/ Cardinality(Registered) # b.size
    \/ Ahead(b) # {} /\ Cardinality(b.manifest.tools \cup b.manifest.failed) = b.size

\* Faulty variant: the cache is dated when the manifest is complete.
FinishDatedNow(c, b) ==
    /\ cache' = b.manifest
    /\ cacheAge' = 0
    /\ call' = [call EXCEPT ![c] = Answered(b.manifest)]

\* The manifest is cached, dated at the moment the call began.
FinishBuild(c, b) ==
    /\ cache' = b.manifest
    /\ cacheAge' = b.age
    /\ call' = [call EXCEPT ![c] = Answered(b.manifest)]

\* Faulty variant: the loop does not move on.
AdvanceStays(c, b) ==
    IF Ahead(b) = {}
    THEN FinishBuild(c, b)
    ELSE /\ call' = [call EXCEPT ![c] = [b EXCEPT !.pc = "fetching",
                                                  !.server = {Registration(NextOf(b))}]]
         /\ UNCHANGED <<cache, cacheAge>>

\* The loop asks the dict for its next entry.
Advance(c, b) ==
    IF DictChanged(b)
    THEN /\ call' = [call EXCEPT ![c] = [Idle EXCEPT !.pc = "raised"]]
         /\ UNCHANGED <<cache, cacheAge>>
    ELSE IF Ahead(b) = {}
    THEN FinishBuild(c, b)
    ELSE /\ call' = [call EXCEPT ![c] = [b EXCEPT !.pc = "fetching",
                                                  !.server = {Registration(NextOf(b))},
                                                  !.at = place[NextOf(b)]]]
         /\ UNCHANGED <<cache, cacheAge>>

GetManifest(c) ==
    /\ call[c].pc = "idle"
    /\ IF Fresh
       THEN /\ call' = [call EXCEPT ![c] = Answered(cache)]
            /\ UNCHANGED <<cache, cacheAge>>
       ELSE Advance(c, [Idle EXCEPT !.size = Cardinality(Registered)])
    /\ UNCHANGED <<place, edition, changes, settled>>

\* The server being asked answers with its tools, or fails, times out or
\* answers nonsense, and the loop goes on.
Fetched(c, ok) ==
    /\ call[c].pc = "fetching"
    /\ LET m == call[c].manifest
       IN  Advance(c, [call[c] EXCEPT
               !.manifest = IF ok THEN [m EXCEPT !.tools = @ \cup call[c].server]
                            ELSE [m EXCEPT !.failed = @ \cup call[c].server]])
    /\ UNCHANGED <<place, edition, changes, settled>>

\* The caller has its answer; it may call again.
Return(c) ==
    /\ call[c].pc \in {"answered", "raised"}
    /\ call' = [call EXCEPT ![c] = Idle]
    /\ UNCHANGED <<place, edition, changes, cache, cacheAge, settled>>

Tick ==
    /\ cacheAge' = Smaller(cacheAge + 1, TTL)
    /\ call' = [c \in Callers |-> IF call[c].pc = "fetching"
                   THEN [call[c] EXCEPT !.age = Smaller(@ + 1, TTL)] ELSE call[c]]
    /\ settled' = [s \in Servers |-> Smaller(settled[s] + 1, TTL)]
    /\ UNCHANGED <<place, edition, changes, cache>>

----------------------------------------------------------------------------

RegistryNext ==
    \/ Tick
    \/ \E s \in Servers : RegisterServer(s) \/ DeregisterServer(s)
    \/ \E c \in Callers :
          GetManifest(c) \/ Return(c) \/ \E ok \in BOOLEAN : Fetched(c, ok)

RegistrySpec == RegistryInit /\ [][RegistryNext]_registryVars

\* Every request to a server ends, if only by its 5 s timeout.
RegistryFairness == \A c \in Callers : WF_registryVars(\E ok \in BOOLEAN : Fetched(c, ok))

RegistryFairSpec == RegistrySpec /\ RegistryFairness

----------------------------------------------------------------------------
\* Properties.

Entries == SUBSET (Servers \X (1..MaxChanges))
Manifest == [tools : Entries, failed : Entries]
Calling == [pc : {"idle", "fetching", "answered", "raised"}, age : 0..TTL, size : Nat,
            at : 0..MaxChanges, server : Entries, manifest : Manifest]

\* Types; no two servers have the same place in the dict.
RegistryTypeOK ==
    /\ changes \in 0..MaxChanges
    /\ place \in [Servers -> 0..changes]
    /\ edition \in [Servers -> 0..changes]
    /\ \A s \in Registered : edition[s] > 0
    /\ \A s, t \in Registered : place[s] = place[t] => s = t
    /\ cache \in Manifest
    /\ cacheAge \in 0..TTL
    /\ settled \in [Servers -> 0..TTL]
    /\ call \in [Callers -> Calling]

\* A call asks one server at a time, and never more of them than there were
\* when it began.
CallsAreBounded ==
    \A c \in Callers : call[c].pc = "fetching" =>
        /\ \E e \in Servers \X (1..MaxChanges) : call[c].server = {e}
        /\ Cardinality(call[c].manifest.tools \cup call[c].manifest.failed) < call[c].size

\* What is listed is right, up to a place in the dict, for all servers that
\* have not changed for more than a number of ticks.
UpToDate(listed, tools, age, at) ==
    \A s \in Servers : settled[s] > age =>
        IF s \in Registered THEN place[s] <= at => Registration(s) \in listed
        ELSE \A v \in 1..MaxChanges : <<s, v>> \notin tools

\* A build is right about what has not changed since it began, as far as it
\* got, and a manifest about what has not changed since its build began.
BuildsAreCurrent ==
    \A c \in Callers :
        LET b == call[c] IN b.pc = "fetching" /\ b.age < TTL =>
            UpToDate(b.manifest.tools \cup b.manifest.failed \cup b.server,
                     b.manifest.tools \cup b.server, b.age, b.at)

CacheIsCurrent ==
    Fresh => UpToDate(cache.tools \cup cache.failed, cache.tools, cacheAge, MaxChanges)

\* Types, the length of the loops, and what builds and the cache know.
RegistryInv == RegistryTypeOK /\ CallsAreBounded /\ BuildsAreCurrent /\ CacheIsCurrent

\* The registrations a build has an answer for.
Asked(b) == b.manifest.tools \cup b.manifest.failed

\* A build asks no registration twice, and lists none whose server failed,
\* whatever is deregistered and registered again behind or ahead of it.
NoneAskedTwice ==
    \A c \in Callers : call[c].pc = "fetching" =>
        /\ call[c].server \cap Asked(call[c]) = {}
        /\ call[c].manifest.tools \cap call[c].manifest.failed = {}

\* What a build has asked, as far as it is still registered as it was, is
\* behind the build in the dict.
AskedIsBehind ==
    \A c \in Callers : call[c].pc = "fetching" =>
        \A e \in Asked(call[c]) \cup call[c].server :
            /\ e[2] <= changes
            /\ \A s \in Registered : Registration(s) = e => place[s] <= call[c].at

\* The invariant of the registry.
RegistryIInv == RegistryInv /\ NoneAskedTwice /\ AskedIsBehind

\* However builds, registrations and time interleave, the cache never serves a
\* manifest that ignores a registration or deregistration made a TTL ago.
RegisteredWithinTTL ==
    Fresh => \A s \in Servers : settled[s] = TTL =>
        IF s \in Registered
        THEN Registration(s) \in cache.tools \cup cache.failed
        ELSE \A v \in 1..MaxChanges : <<s, v>> \notin cache.tools

\* A build that goes on asking has one more answer than before, of the number
\* it began with, unless nothing but time passed for it.
EveryAnswerCounts ==
    [][\A c \in Callers : call[c].pc = "fetching" /\ call'[c].pc = "fetching" =>
          /\ call'[c].size = call[c].size
          /\ \/ call'[c] = [call[c] EXCEPT !.age = call'[c].age]
             \/ Cardinality(Asked(call'[c])) = Cardinality(Asked(call[c])) + 1]_registryVars

\* A call that has begun to ask the servers ends, whatever is registered or
\* deregistered meanwhile.
CallsEnd ==
    \A c \in Callers : (call[c].pc = "fetching") ~> (call[c].pc # "fetching")
=============================================================================
