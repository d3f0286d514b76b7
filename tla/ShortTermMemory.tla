--------------------------- MODULE ShortTermMemory ---------------------------
(***************************************************************************)
(* Short-term memory, hermes/memory.py: the four Redis keys of a session,  *)
(* their expiry, and the sorted set of a user's sessions.  A pipeline      *)
(* (MULTI/EXEC) is one step; delete_session is two round trips and         *)
(* get_session three, and other requests run between them.  One user owns  *)
(* the sessions; a session id is never generated twice.  Reads change      *)
(* nothing: of get_session one at a time is followed, and what             *)
(* list_sessions answers when it meets no write is an operator.            *)
(*                                                                         *)
(* Messages are numbered in the order they are appended.                   *)
(***************************************************************************)
EXTENDS Integers, FiniteSets, Sequences

CONSTANTS
    Sessions,
    TTL,           \* SESSION_TTL, in ticks (24 hours in the code)
    MaxMessages,   \* MAX_MESSAGES (100 in the code)
    ListLimit,     \* the limit of list_sessions (20 in the code)
    MaxAppends,    \* bound: messages appended to a session
    Watched        \* bound: the sessions that get_session reads and whose
                   \* execution state is saved

ASSUME MemoryAssumption ==
    /\ IsFiniteSet(Sessions)
    /\ TTL \in Nat \ {0}
    /\ MaxMessages \in Nat \ {0}
    /\ ListLimit \in Nat
    /\ MaxAppends \in Nat
    /\ Watched \subseteq Sessions

Keys == {"meta", "messages", "vars", "exec_state"}
Absent == 0      \* the key does not exist
NoExpiry == -1   \* the key exists and never expires

VARIABLES
    ttl,        \* per session and key: ticks left, NoExpiry or Absent
    owned,      \* the sessions whose meta key holds the fields of creation
    messages,   \* the list of each session
    index,      \* user:<id>:sessions, a sorted set with createdAt as score
    appended,   \* messages appended to each session so far
    createdAt,  \* when each session was created, 0 if it never was
    deleting,   \* delete_session under way: what it read in the meta key
    reading     \* get_session under way: what it has read so far

vars == <<ttl, owned, messages, index, appended, createdAt, deleting, reading>>

Created == {s \in Sessions : createdAt[s] > 0}
Exists(s, key) == ttl[s][key] # Absent

NotReading == [session |-> "none"]

Init ==
    /\ ttl = [s \in Sessions |-> [key \in Keys |-> Absent]]
    /\ owned = {}
    /\ messages = [s \in Sessions |-> << >>]
    /\ index = {}
    /\ appended = [s \in Sessions |-> 0]
    /\ createdAt = [s \in Sessions |-> 0]
    /\ deleting = [s \in Sessions |-> "no"]
    /\ reading = NotReading

----------------------------------------------------------------------------
\* Redis.

\* The TTL of the keys in expired is set; those in touched come to exist and
\* keep the expiry they have, none if they are new.
Written(s, expired, touched) ==
    ttl' = [ttl EXCEPT ![s] = [key \in Keys |->
               IF key \in expired THEN TTL
               ELSE IF key \in touched /\ @[key] = Absent THEN NoExpiry
               ELSE @[key]]]

\* Time passes: keys whose time is over are gone.
Tick ==
    /\ ttl' = [s \in Sessions |-> [key \in Keys |->
          IF ttl[s][key] > 0 THEN ttl[s][key] - 1 ELSE ttl[s][key]]]
    /\ owned' = {s \in owned : ttl'[s]["meta"] # Absent}
    /\ messages' = [s \in Sessions |->
          IF ttl'[s]["messages"] = Absent THEN << >> ELSE messages[s]]
    /\ UNCHANGED <<index, appended, createdAt, deleting, reading>>

----------------------------------------------------------------------------
\* Writers: one pipeline each.

\* create_session, with or without an initial context.
CreateSession(s, context) ==
    /\ s \notin Created
    /\ createdAt' = [createdAt EXCEPT ![s] = Cardinality(Created) + 1]
    /\ Written(s, {"meta"} \cup context, {})
    /\ owned' = owned \cup {s}
    /\ index' = index \cup {s}
    /\ UNCHANGED <<messages, appended, deleting, reading>>

\* LTRIM key -MaxMessages -1.
Trim(list) ==
    IF Len(list) > MaxMessages
    THEN SubSeq(list, Len(list) - MaxMessages + 1, Len(list)) ELSE list

\* Faulty variant: only the list's expiry is reset.
AppendKeepsMeta(s) ==
    /\ s \in Created
    /\ appended[s] < MaxAppends
    /\ appended' = [appended EXCEPT ![s] = @ + 1]
    /\ messages' = [messages EXCEPT ![s] = Trim(Append(@, appended[s] + 1))]
    /\ Written(s, {"messages"}, {"meta"})
    /\ UNCHANGED <<owned, index, createdAt, deleting, reading>>

\* append_message; whether the session still exists is not checked, and
\* writing updated_at creates the meta key if it does not.
AppendMessage(s) ==
    /\ s \in Created
    /\ appended[s] < MaxAppends
    /\ appended' = [appended EXCEPT ![s] = @ + 1]
    /\ messages' = [messages EXCEPT ![s] = Trim(Append(@, appended[s] + 1))]
    /\ Written(s, {"messages", "meta"}, {})
    /\ UNCHANGED <<owned, index, createdAt, deleting, reading>>

\* Faulty variant: it resets the expiry of the meta key as well, which then
\* outlives the history.
SetVariableTouching(s) ==
    /\ s \in Created
    /\ Written(s, {"vars", "meta"}, {})
    /\ UNCHANGED <<owned, messages, index, appended, createdAt, deleting, reading>>

\* set_variable sets the expiry of the variables, not that of the meta key,
\* which it creates if it is gone.
SetVariable(s) ==
    /\ s \in Created
    /\ Written(s, {"vars"}, {"meta"})
    /\ UNCHANGED <<owned, messages, index, appended, createdAt, deleting, reading>>

\* save_execution_state sets the expiry of the state only.
SaveExecutionState(s) ==
    /\ s \in Created
    /\ Written(s, {"exec_state"}, {})
    /\ UNCHANGED <<owned, messages, index, appended, createdAt, deleting, reading>>

----------------------------------------------------------------------------
\* delete_session: the meta key is read, then everything is deleted.

BeginDelete(s) ==
    /\ s \in Created
    /\ deleting[s] = "no"
    /\ deleting' = [deleting EXCEPT ![s] = IF s \in owned THEN "owned" ELSE "nobody's"]
    /\ UNCHANGED <<ttl, owned, messages, index, appended, createdAt, reading>>

\* The id leaves its user's set only if the meta key that was read names the
\* user.
DeleteSession(s) ==
    /\ deleting[s] # "no"
    /\ deleting' = [deleting EXCEPT ![s] = "no"]
    /\ ttl' = [ttl EXCEPT ![s] = [key \in Keys |-> Absent]]
    /\ owned' = owned \ {s}
    /\ messages' = [messages EXCEPT ![s] = << >>]
    /\ index' = IF deleting[s] = "owned" THEN index \ {s} ELSE index
    /\ UNCHANGED <<appended, createdAt, reading>>

----------------------------------------------------------------------------
\* Readers.

\* get_session begins: without a meta key it answers None, and is over.
ReadMeta(s) ==
    /\ reading = NotReading
    /\ Exists(s, "meta")
    /\ reading' = [session |-> s, next |-> "messages",
                   owned |-> s \in owned, had |-> messages[s] # << >>]
    /\ UNCHANGED <<ttl, owned, messages, index, appended, createdAt, deleting>>

\* It reads the messages, whatever has become of the session.
ReadMessages(s) ==
    /\ reading # NotReading /\ reading.session = s /\ reading.next = "messages"
    /\ reading' = [reading EXCEPT !.next = "vars", !.had = FALSE]
    /\ UNCHANGED <<ttl, owned, messages, index, appended, createdAt, deleting>>

\* It reads the variables and answers: a session, or, if the meta key that it
\* read lacked the fields of creation, with a KeyError.
ReadVars(s) ==
    /\ reading # NotReading /\ reading.session = s /\ reading.next = "vars"
    /\ reading' = NotReading
    /\ UNCHANGED <<ttl, owned, messages, index, appended, createdAt, deleting>>

\* Faulty variant: the oldest ids are read.
ListOldest ==
    {s \in index : Exists(s, "meta")
        /\ Cardinality({t \in index : createdAt[t] < createdAt[s]}) < ListLimit}

\* list_sessions: of the newest ListLimit ids, those whose meta key exists.
ListSessions ==
    {s \in index : Exists(s, "meta")
        /\ Cardinality({t \in index : createdAt[t] > createdAt[s]}) < ListLimit}

----------------------------------------------------------------------------

Next ==
    \/ Tick
    \/ \E s \in Sessions :
          \/ CreateSession(s, {}) \/ CreateSession(s, {"vars"})
          \/ AppendMessage(s) \/ SetVariable(s)
          \/ BeginDelete(s) \/ DeleteSession(s)
    \/ \E s \in Watched :
          SaveExecutionState(s) \/ ReadMeta(s) \/ ReadMessages(s) \/ ReadVars(s)

Spec == Init /\ [][Next]_vars

----------------------------------------------------------------------------
\* Properties.

\* Types; a list never holds more than MaxMessages, and no content outlives
\* its key.
TypeOK ==
    /\ ttl \in [Sessions -> [Keys -> {NoExpiry} \cup 0..TTL]]
    /\ createdAt \in [Sessions -> Nat]
    /\ owned \subseteq {s \in Created : Exists(s, "meta")}
    /\ deleting \in [Sessions -> {"no", "owned", "nobody's"}]
    /\ \/ reading = NotReading
       \/ reading \in [session : Sessions, next : {"messages", "vars"},
                       owned : BOOLEAN, had : BOOLEAN]
    /\ index \subseteq Created
    /\ appended \in [Sessions -> 0..MaxAppends]
    /\ \A s \in Sessions : appended[s] > 0 => s \in Created
    /\ messages \in [Sessions -> Seq(Nat)]
    /\ \A s \in Sessions :
          /\ messages[s] \in Seq(1..appended[s]) /\ Len(messages[s]) <= MaxMessages
          /\ Exists(s, "messages") <=> messages[s] # << >>

\* Whatever expires or is deleted in between, a history ends with the newest
\* message and has no hole.
HistoryIsRecent ==
    \A s \in Sessions : \A i \in DOMAIN messages[s] :
        messages[s][i] = appended[s] - Len(messages[s]) + i

\* A history never outlives the meta key without which nobody can read it.
HistoryIsReachable ==
    \A s \in Sessions : Exists(s, "messages") =>
        ttl[s]["meta"] = NoExpiry \/ ttl[s]["meta"] >= ttl[s]["messages"]

\* A session that can be read is in its user's set, whatever deletion of it
\* was overtaken by.
ReadableIsIndexed == owned \subseteq index

\* What the other parts of IInv rest on: a key without an expiry, which there
\* should not be (EveryKeyExpires), is a meta key without the fields of creation.
LastingKeyIsBare ==
    \A s \in Sessions, key \in Keys : ttl[s][key] = NoExpiry =>
        key = "meta" /\ s \notin owned

\* A session that can be read has the history that was appended to it, or the
\* latest part: the two keys expire together, whatever else is written.
ReadableHasHistory ==
    \A s \in owned : appended[s] > 0 =>
        Exists(s, "messages") /\ ttl[s]["messages"] >= ttl[s]["meta"]

\* A history that get_session could have read was appended.
HadWasAppended ==
    reading # NotReading => (reading.had => appended[reading.session] > 0)

\* Types, and what the keys of a session and the set of its user owe each
\* other.
IInv ==
    TypeOK /\ HistoryIsRecent /\ HistoryIsReachable /\ ReadableHasHistory
        /\ ReadableIsIndexed /\ LastingKeyIsBare /\ HadWasAppended

\* A session that can be read is listed until the user has created ListLimit
\* others: ids of sessions that expired hide it no earlier than live ones.
ReadableIsListed ==
    \A s \in owned :
        Cardinality({t \in Created : createdAt[t] > createdAt[s]}) < ListLimit =>
            s \in ListSessions

\* get_session, which reads a session at several moments, answers with an empty
\* history for one that had messages only if the session is gone by then.
HistoryGoesWithSession ==
    [][\A s \in Sessions :
          ReadMessages(s) /\ reading.had /\ messages[s] = << >> => s \notin owned]_vars

\* memory.py:135, "SessionMemory or None if not found/expired": get_session
\* never fails on what it finds.
SessionOrNone ==
    [][\A s \in Sessions : ReadVars(s) => reading.owned]_vars

\* memory.py:58, "TTL is 24 hours, reset on every write": whatever was written
\* has an expiry.
EveryKeyExpires ==
    \A s \in Sessions, key \in Keys : ttl[s][key] # NoExpiry
=============================================================================
