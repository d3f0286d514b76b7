------------------------ MODULE ShortTermMemoryProofs ------------------------
(***************************************************************************)
(* Short-term memory keeps IInv, and with it what requests rely on: a      *)
(* history without holes behind a meta key that lives as long, sessions    *)
(* that are listed while they can be read, and that get_session misses a   *)
(* history only when the session is gone.                                  *)
(***************************************************************************)
EXTENDS ShortTermMemory, FiniteSetTheorems, SequenceTheorems, TLAPS

USE MemoryAssumption DEF Absent, NoExpiry, Keys

\* The expiry times of a session that is written to.
LEMMA WrittenTimes ==
    ASSUME ttl \in [Sessions -> [Keys -> {NoExpiry} \cup 0..TTL]],
           NEW s \in Sessions, NEW expired \in SUBSET Keys, NEW touched \in SUBSET Keys,
           Written(s, expired, touched)
    PROVE  /\ ttl' \in [Sessions -> [Keys -> {NoExpiry} \cup 0..TTL]]
           /\ \A t \in Sessions \ {s} : ttl'[t] = ttl[t]
           /\ \A key \in Keys : ttl'[s][key] =
                 IF key \in expired THEN TTL
                 ELSE IF key \in touched /\ ttl[s][key] = Absent THEN NoExpiry
                 ELSE ttl[s][key]
<1> DEFINE new == [key \in Keys |->
               IF key \in expired THEN TTL
               ELSE IF key \in touched /\ ttl[s][key] = Absent THEN NoExpiry
               ELSE ttl[s][key]]
<1>1. ttl' = [ttl EXCEPT ![s] = new]
  BY DEF Written
<1>2. new \in [Keys -> {NoExpiry} \cup 0..TTL]
  OBVIOUS
<1> QED  BY <1>1, <1>2

\* The latest of n messages, as many as are kept or fewer.
Recent(list, n) ==
    /\ list \in Seq(1..n)
    /\ Len(list) <= MaxMessages
    /\ \A i \in DOMAIN list : list[i] = n - Len(list) + i

\* What is appended and trimmed is still the latest part of the history.
LEMMA TrimmedHistory ==
    ASSUME NEW n \in Nat, NEW list, Recent(list, n)
    PROVE  Recent(Trim(Append(list, n + 1)), n + 1) /\ Trim(Append(list, n + 1)) # << >>
<1> DEFINE new == Trim(Append(list, n + 1))
           all == Append(list, n + 1)
           k == Len(all)
<1> USE DEF Recent
<1> SUFFICES Recent(new, n + 1) /\ new # << >>
  OBVIOUS
<1>1. /\ all \in Seq(1..(n + 1)) /\ k = Len(list) + 1 /\ k \in Nat
      /\ \A i \in 1..k : all[i] = n + 1 - k + i
  <2>1. Len(list) \in Nat /\ DOMAIN list = 1..Len(list)
    OBVIOUS
  <2>2. all \in Seq(1..(n + 1)) /\ k = Len(list) + 1
    OBVIOUS
  <2>3. all[k] = n + 1 /\ \A i \in 1..Len(list) : all[i] = list[i]
    OBVIOUS
  <2> QED  BY <2>1, <2>2, <2>3, SMTT(30)
<1> SUFFICES /\ new \in Seq(1..(n + 1)) /\ Len(new) \in 1..MaxMessages
             /\ \A i \in 1..Len(new) : new[i] = n + 1 - Len(new) + i
  <2> HIDE DEF new
  <2>1. ASSUME new \in Seq(1..(n + 1)) PROVE DOMAIN new = 1..Len(new)
    BY <2>1
  <2>2. ASSUME Len(new) \in 1..MaxMessages PROVE new # << >>
    BY <2>2
  <2> QED  BY <2>1, <2>2
<1>2. CASE k <= MaxMessages
  <2>1. new = all
    BY <1>2 DEF Trim
  <2>2. Len(new) = k /\ k \in 1..MaxMessages
    BY <1>1, <1>2, <2>1
  <2> HIDE DEF all, k
  <2> QED  BY <1>1, <2>1, <2>2
<1>3. CASE k > MaxMessages
  <2> DEFINE m == k - MaxMessages + 1
  <2>1. new = SubSeq(all, m, k)
    BY <1>3 DEF Trim
  <2>2. m \in 1..k /\ k - m + 1 = MaxMessages
    BY <1>1, <1>3
  <2> HIDE DEF all, m, k
  <2>3. \A i \in m..k : all[i] \in 1..(n + 1)
    BY <1>1, <2>2, SMTT(30) DEF k
  <2>4. k - m + 1 = MaxMessages /\ m <= k
    BY <1>1, <2>2
  <2>5. /\ new \in Seq(1..(n + 1)) /\ Len(new) = MaxMessages
        /\ \A i \in 1..MaxMessages : new[i] = all[m + i - 1]
    <3>1. m \in Int /\ k \in Int
      BY <1>1, <2>2
    <3>2. /\ SubSeq(all, m, k) \in Seq(1..(n + 1))
          /\ Len(SubSeq(all, m, k)) = IF m <= k THEN k - m + 1 ELSE 0
          /\ \A i \in 1 .. k - m + 1 : SubSeq(all, m, k)[i] = all[m + i - 1]
      BY <2>3, <3>1, SubSeqProperties
    <3> QED  BY <2>1, <2>4, <3>2
  <2>6. \A i \in 1..MaxMessages : m + i - 1 \in 1..k /\ n + 1 - k + (m + i - 1) = n + 1 - MaxMessages + i
    <3>1. k \in Nat /\ m \in Nat /\ 1 <= m
      BY <1>1, <2>2
    <3> QED  BY <2>4, <3>1
  <2>7. \A i \in 1..MaxMessages : new[i] = n + 1 - MaxMessages + i
    <3> TAKE i \in 1..MaxMessages
    <3>1. all[m + i - 1] = n + 1 - k + (m + i - 1)
      BY <1>1, <2>6
    <3> QED  BY <2>5, <2>6, <3>1
  <2>8. Len(new) = MaxMessages /\ MaxMessages \in 1..MaxMessages
    BY <2>5
  <2> QED  BY <2>5, <2>7, <2>8
<1> QED  BY <1>1, <1>2, <1>3

----------------------------------------------------------------------------
LEMMA InitEstablishes == ASSUME Init PROVE IInv
<1>1. TypeOK
  BY DEF Init, TypeOK, Created, Exists, NotReading
<1>2. HistoryIsRecent /\ HistoryIsReachable /\ ReadableHasHistory /\ ReadableIsIndexed
      /\ LastingKeyIsBare /\ HadWasAppended
  BY DEF Init, HistoryIsRecent, HistoryIsReachable, ReadableHasHistory, ReadableIsIndexed, LastingKeyIsBare, HadWasAppended, NotReading, Exists
<1> QED  BY <1>1, <1>2 DEF IInv

LEMMA TickKeeps == ASSUME IInv, Tick PROVE IInv'
<1>1. /\ UNCHANGED <<index, appended, createdAt, deleting, reading>>
      /\ \A s \in Sessions, key \in Keys :
            ttl'[s][key] = IF ttl[s][key] > 0 THEN ttl[s][key] - 1 ELSE ttl[s][key]
      /\ owned' = {s \in owned : ttl'[s]["meta"] # Absent}
      /\ messages' = [s \in Sessions |->
            IF ttl'[s]["messages"] = Absent THEN << >> ELSE messages[s]]
  BY DEF Tick
<1>2. ttl' \in [Sessions -> [Keys -> {NoExpiry} \cup 0..TTL]]
  <2> HIDE DEF Keys
  <2>1. \A s \in Sessions, key \in Keys : ttl[s][key] \in {NoExpiry} \cup 0..TTL
    BY DEF IInv, TypeOK
  <2>2. \A s \in Sessions, key \in Keys : ttl'[s][key] \in {NoExpiry} \cup 0..TTL
    BY <1>1, <2>1
  <2>3. ttl' = [s \in Sessions |-> [key \in Keys |-> ttl'[s][key]]]
    BY DEF Tick
  <2> QED  BY <2>2, <2>3
<1>3. \A s \in Sessions, key \in Keys :
        /\ ttl[s][key] \in {NoExpiry} \cup 0..TTL
        /\ ttl[s][key] = Absent => ttl'[s][key] = Absent
        /\ ttl'[s][key] = NoExpiry <=> ttl[s][key] = NoExpiry
  <2>1. ttl \in [Sessions -> [Keys -> {NoExpiry} \cup 0..TTL]]
    BY DEF IInv, TypeOK
  <2> HIDE DEF Keys
  <2>2. \A s \in Sessions, key \in Keys : ttl[s][key] \in {NoExpiry} \cup 0..TTL
    BY <2>1
  <2> QED  BY <1>1, <2>2
<1>4. TypeOK'
  <2>1. /\ appended' \in [Sessions -> 0..MaxAppends]
        /\ messages' \in [Sessions -> Seq(Nat)]
        /\ \A s \in Sessions :
           /\ messages'[s] \in Seq(1..appended'[s]) /\ Len(messages'[s]) <= MaxMessages
           /\ ttl'[s]["messages"] # Absent <=> messages'[s] # << >>
    <3>1. \A s \in Sessions : messages'[s] = IF ttl'[s]["messages"] = Absent THEN << >> ELSE messages[s]
      BY <1>1
    <3>2. \A s \in Sessions :
             /\ messages[s] \in Seq(1..appended[s]) /\ Len(messages[s]) <= MaxMessages
             /\ messages[s] \in Seq(Nat)
             /\ ttl'[s]["messages"] # Absent => messages[s] # << >>
      BY <1>3 DEF IInv, TypeOK, Exists
    <3>3. << >> \in Seq(Nat) /\ Len(<< >>) <= MaxMessages /\ \A s \in Sessions : << >> \in Seq(1..appended[s])
      OBVIOUS
    <3>4. messages' = [s \in Sessions |-> messages'[s]] /\ appended' \in [Sessions -> 0..MaxAppends]
      BY <1>1 DEF IInv, TypeOK
    <3>5. \A s \in Sessions :
             /\ messages'[s] \in Seq(1..appended'[s]) /\ Len(messages'[s]) <= MaxMessages
             /\ messages'[s] \in Seq(Nat)
             /\ ttl'[s]["messages"] # Absent <=> messages'[s] # << >>
      BY <1>1, <3>1, <3>2, <3>3
    <3> QED  BY <3>4, <3>5
  <2>2. owned' \subseteq {s \in Created' : ttl'[s]["meta"] # Absent}
    BY <1>1 DEF IInv, TypeOK, Created
  <2>4. \A s \in Sessions : appended'[s] > 0 => s \in Created'
    BY <1>1 DEF IInv, TypeOK, Created
  <2>3. index' \subseteq Created' /\ createdAt' \in [Sessions -> Nat]
        /\ deleting' \in [Sessions -> {"no", "owned", "nobody's"}]
        /\ \/ reading' = NotReading
           \/ reading' \in [session : Sessions, next : {"messages", "vars"},
                            owned : BOOLEAN, had : BOOLEAN]
    BY <1>1 DEF IInv, TypeOK, Created, NotReading
  <2> QED  BY <1>2, <2>1, <2>2, <2>3, <2>4 DEF TypeOK, Exists, NotReading
<1>5. HistoryIsRecent'
  <2> SUFFICES ASSUME NEW s \in Sessions, NEW i \in DOMAIN messages'[s]
               PROVE  messages'[s][i] = appended'[s] - Len(messages'[s]) + i
    BY DEF HistoryIsRecent
  <2>1. messages'[s] = messages[s]
    BY <1>1
  <2> QED  BY <1>1, <2>1 DEF IInv, HistoryIsRecent
<1>6. HistoryIsReachable'
  <2> SUFFICES ASSUME NEW s \in Sessions, ttl'[s]["messages"] # Absent
               PROVE  ttl'[s]["meta"] = NoExpiry \/ ttl'[s]["meta"] >= ttl'[s]["messages"]
    BY DEF HistoryIsReachable, Exists
  <2>1. ttl[s]["meta"] = NoExpiry \/ ttl[s]["meta"] >= ttl[s]["messages"]
    BY <1>3 DEF IInv, HistoryIsReachable, Exists
  <2>2. ttl[s]["messages"] # NoExpiry
    BY DEF IInv, LastingKeyIsBare
  <2> QED  BY <1>1, <1>3, <2>1, <2>2
<1>7. ReadableIsIndexed'
  BY <1>1 DEF IInv, ReadableIsIndexed
<1>8. LastingKeyIsBare'
  BY <1>1, <1>3 DEF IInv, LastingKeyIsBare
<1>9. ReadableHasHistory'
  <2> SUFFICES ASSUME NEW s \in owned', appended'[s] > 0
               PROVE  ttl'[s]["messages"] # Absent /\ ttl'[s]["messages"] >= ttl'[s]["meta"]
    BY DEF ReadableHasHistory, Exists
  <2>1. s \in owned /\ s \in Sessions /\ ttl'[s]["meta"] # Absent
    BY <1>1 DEF IInv, TypeOK, Created
  <2>2. ttl[s]["messages"] # Absent /\ ttl[s]["messages"] >= ttl[s]["meta"]
    BY <1>1, <2>1 DEF IInv, ReadableHasHistory, Exists
  <2>3. ttl[s]["meta"] \in 0..TTL /\ ttl[s]["messages"] \in 0..TTL
    BY <1>3, <2>1 DEF IInv, LastingKeyIsBare
  <2> QED  BY <1>1, <2>1, <2>2, <2>3
<1>10. HadWasAppended'
  BY <1>1 DEF IInv, HadWasAppended, NotReading
<1> QED  BY <1>4, <1>5, <1>6, <1>7, <1>8, <1>9, <1>10 DEF IInv

\* A write to a session that appends no message.
LEMMA WriteKeeps ==
    ASSUME IInv, NEW s \in Sessions,
           NEW expired \in SUBSET Keys, NEW touched \in SUBSET {"meta"},
           "messages" \notin expired,
           Written(s, expired, touched),
           UNCHANGED <<messages, appended, deleting, reading>>,
           \/ s \in Created /\ UNCHANGED <<owned, index, createdAt>>
           \/ /\ createdAt' = [createdAt EXCEPT ![s] = Cardinality(Created) + 1]
              /\ owned' = owned \cup {s} /\ index' = index \cup {s}
              /\ "meta" \in expired
              /\ s \notin Created,
           "meta" \in expired => s \notin Created
    PROVE  IInv'
<1>1. /\ ttl' \in [Sessions -> [Keys -> {NoExpiry} \cup 0..TTL]]
      /\ \A t \in Sessions \ {s} : ttl'[t] = ttl[t]
      /\ \A key \in Keys : ttl'[s][key] =
            IF key \in expired THEN TTL
            ELSE IF key \in touched /\ ttl[s][key] = Absent THEN NoExpiry
            ELSE ttl[s][key]
  <2>1. ttl \in [Sessions -> [Keys -> {NoExpiry} \cup 0..TTL]]
    BY DEF IInv, TypeOK
  <2> QED  BY <2>1, WrittenTimes
<1>2. /\ createdAt' \in [Sessions -> Nat]
      /\ Created \subseteq Created' /\ s \in Created'
  <2>1. Cardinality(Created) \in Nat
    BY FS_Subset, FS_CardinalityType DEF Created
  <2>2. createdAt \in [Sessions -> Nat]
    BY DEF IInv, TypeOK
  <2>3. createdAt' \in [Sessions -> Nat] /\ createdAt'[s] > 0
        /\ \A t \in Sessions \ {s} : createdAt'[t] = createdAt[t]
    BY <2>1, <2>2 DEF Created
  <2> QED  BY <2>2, <2>3 DEF Created
<1>3. /\ owned' \subseteq owned \cup {s} /\ index' \subseteq index \cup {s}
      /\ "meta" \notin expired => owned' = owned
      /\ owned' \subseteq index'
  BY DEF IInv, ReadableIsIndexed
<1>4. \A t \in Sessions : ttl'[t]["messages"] = ttl[t]["messages"]
  BY <1>1
<1>5. \A t \in Sessions : ttl[t]["meta"] # Absent => ttl'[t]["meta"] # Absent
  BY <1>1
<1>6. s \in owned' => ttl'[s]["meta"] # Absent
  BY <1>1, <1>3, <1>5 DEF IInv, TypeOK, Exists
<1>7. TypeOK'
  <2>1. owned' \subseteq {t \in Created' : ttl'[t]["meta"] # Absent}
    BY <1>2, <1>3, <1>5, <1>6 DEF IInv, TypeOK, Exists, Created
  <2>2. index' \subseteq Created'
    BY <1>2, <1>3 DEF IInv, TypeOK
  <2>3. \A t \in Sessions :
           /\ messages'[t] \in Seq(1..appended'[t]) /\ Len(messages'[t]) <= MaxMessages
           /\ ttl'[t]["messages"] # Absent <=> messages'[t] # << >>
    BY <1>4 DEF IInv, TypeOK, Exists
  <2> QED  BY <1>1, <1>2, <2>1, <2>2, <2>3 DEF IInv, TypeOK, Exists
<1>8. HistoryIsRecent'
  BY DEF IInv, HistoryIsRecent
<1>9. HistoryIsReachable'
  <2> SUFFICES ASSUME NEW t \in Sessions, ttl'[t]["messages"] # Absent
               PROVE  ttl'[t]["meta"] = NoExpiry \/ ttl'[t]["meta"] >= ttl'[t]["messages"]
    BY DEF HistoryIsReachable, Exists
  <2>1. ttl[t]["meta"] = NoExpiry \/ ttl[t]["meta"] >= ttl[t]["messages"]
    BY <1>4 DEF IInv, HistoryIsReachable, Exists
  <2>2. ttl[t]["messages"] \in 0..TTL
    BY DEF IInv, TypeOK, LastingKeyIsBare
  <2>3. CASE ttl'[t]["meta"] = ttl[t]["meta"]
    BY <1>4, <2>1, <2>3
  <2>4. CASE t = s
    BY <1>1, <1>4, <2>1, <2>2, <2>4
  <2> QED  BY <1>1, <2>3, <2>4
<1>10. LastingKeyIsBare'
  <2> SUFFICES ASSUME NEW t \in Sessions, NEW key \in Keys, ttl'[t][key] = NoExpiry
               PROVE  key = "meta" /\ t \notin owned'
    BY DEF LastingKeyIsBare
  <2>1. CASE ttl[t][key] = NoExpiry
    <3>1. key = "meta" /\ t \notin owned
      BY <2>1 DEF IInv, LastingKeyIsBare
    <3>2. t = s => "meta" \notin expired
      BY <1>1, <3>1
    <3> QED  BY <1>3, <3>1, <3>2
  <2>2. CASE ttl[t][key] # NoExpiry
    <3>1. t = s /\ key \in touched /\ key \notin expired /\ ttl[s][key] = Absent
      BY <1>1, <2>2
    <3>2. key = "meta" /\ s \notin owned
      BY <3>1 DEF IInv, TypeOK, Exists
    <3> QED  BY <1>3, <3>1, <3>2
  <2> QED  BY <2>1, <2>2
<1>11. ReadableHasHistory'
  <2> SUFFICES ASSUME NEW t \in owned', appended'[t] > 0
               PROVE  ttl'[t]["messages"] # Absent /\ ttl'[t]["messages"] >= ttl'[t]["meta"]
    BY DEF ReadableHasHistory, Exists
  <2>1. t \in Sessions /\ appended'[t] = appended[t]
    BY <1>3 DEF IInv, TypeOK, Created
  <2>2. CASE t \in owned
    <3>1. ttl[t]["messages"] # Absent /\ ttl[t]["messages"] >= ttl[t]["meta"] /\ ttl[t]["meta"] # Absent
      BY <2>1, <2>2 DEF IInv, TypeOK, ReadableHasHistory, Exists
    <3>2. t = s => "meta" \notin expired
      BY <2>2 DEF IInv, TypeOK
    <3>3. ttl'[t]["meta"] = ttl[t]["meta"]
      BY <1>1, <2>1, <3>1, <3>2
    <3> QED  BY <1>4, <2>1, <3>1, <3>3
  <2>3. CASE t \notin owned
    <3>1. t = s /\ s \notin Created
      BY <1>3, <2>3
    <3>2. appended[s] = 0
      BY <3>1 DEF IInv, TypeOK
    <3> QED  BY <2>1, <3>1, <3>2
  <2> QED  BY <2>2, <2>3
<1>12. HadWasAppended'
  BY DEF IInv, HadWasAppended, NotReading
<1> QED  BY <1>3, <1>7, <1>8, <1>9, <1>10, <1>11, <1>12 DEF IInv, ReadableIsIndexed

LEMMA CreateKeeps ==
    ASSUME IInv, NEW s \in Sessions, NEW context \in SUBSET {"vars"}, CreateSession(s, context)
    PROVE  IInv'
<1> DEFINE expired == {"meta"} \cup context
<1>1. /\ expired \in SUBSET Keys /\ {} \in SUBSET {"meta"}
      /\ "messages" \notin expired /\ "meta" \in expired
  OBVIOUS
<1>2. /\ Written(s, expired, {})
      /\ createdAt' = [createdAt EXCEPT ![s] = Cardinality(Created) + 1]
      /\ owned' = owned \cup {s} /\ index' = index \cup {s}
      /\ UNCHANGED <<messages, appended, deleting, reading>>
      /\ s \notin Created
  BY DEF CreateSession
<1> HIDE DEF expired
<1> QED  BY <1>1, <1>2, WriteKeeps

LEMMA SetVariableKeeps == ASSUME IInv, NEW s \in Sessions, SetVariable(s) PROVE IInv'
  BY WriteKeeps DEF SetVariable

LEMMA SaveKeeps == ASSUME IInv, NEW s \in Sessions, SaveExecutionState(s) PROVE IInv'
  BY WriteKeeps DEF SaveExecutionState

LEMMA AppendKeeps == ASSUME IInv, NEW s \in Sessions, AppendMessage(s) PROVE IInv'
<1>1. /\ s \in Created /\ appended[s] < MaxAppends
      /\ appended' = [appended EXCEPT ![s] = @ + 1]
      /\ messages' = [messages EXCEPT ![s] = Trim(Append(@, appended[s] + 1))]
      /\ Written(s, {"messages", "meta"}, {})
      /\ UNCHANGED <<owned, index, createdAt, deleting, reading>>
  BY DEF AppendMessage
<1>2. /\ ttl' \in [Sessions -> [Keys -> {NoExpiry} \cup 0..TTL]]
      /\ \A t \in Sessions \ {s} : ttl'[t] = ttl[t]
      /\ \A key \in Keys : ttl'[s][key] = IF key \in {"messages", "meta"} THEN TTL ELSE ttl[s][key]
  <2>1. {"messages", "meta"} \in SUBSET Keys /\ {} \in SUBSET Keys
    OBVIOUS
  <2>2. ttl \in [Sessions -> [Keys -> {NoExpiry} \cup 0..TTL]]
    BY DEF IInv, TypeOK
  <2>3. /\ ttl' \in [Sessions -> [Keys -> {NoExpiry} \cup 0..TTL]]
        /\ \A t \in Sessions \ {s} : ttl'[t] = ttl[t]
        /\ \A key \in Keys : ttl'[s][key] =
              IF key \in {"messages", "meta"} THEN TTL
              ELSE IF key \in {} /\ ttl[s][key] = Absent THEN NoExpiry
              ELSE ttl[s][key]
    BY <1>1, <2>1, <2>2, WrittenTimes, SMTT(30)
  <2> QED  BY <2>3
<1>3. /\ appended' \in [Sessions -> 0..MaxAppends]
      /\ appended'[s] = appended[s] + 1 /\ appended[s] \in Nat
      /\ \A t \in Sessions \ {s} : appended'[t] = appended[t] /\ messages'[t] = messages[t]
      /\ messages'[s] = Trim(Append(messages[s], appended[s] + 1))
  BY <1>1 DEF IInv, TypeOK
<1>4. /\ messages'[s] \in Seq(1..appended'[s]) /\ messages'[s] # << >>
      /\ Len(messages'[s]) <= MaxMessages
      /\ \A i \in DOMAIN messages'[s] : messages'[s][i] = appended'[s] - Len(messages'[s]) + i
  <2>1. /\ messages[s] \in Seq(1..appended[s]) /\ Len(messages[s]) <= MaxMessages
        /\ \A i \in DOMAIN messages[s] : messages[s][i] = appended[s] - Len(messages[s]) + i
    BY DEF IInv, TypeOK, HistoryIsRecent
  <2>2. /\ messages'[s] \in Seq(1..(appended[s] + 1)) /\ messages'[s] # << >>
        /\ Len(messages'[s]) <= MaxMessages
        /\ \A i \in DOMAIN messages'[s] : messages'[s][i] = (appended[s] + 1) - Len(messages'[s]) + i
    <3>1. appended[s] \in Nat /\ Recent(messages[s], appended[s])
      BY <1>3, <2>1 DEF Recent
    <3>2. Recent(messages'[s], appended[s] + 1) /\ messages'[s] # << >>
      BY <1>3, <3>1, TrimmedHistory
    <3> QED  BY <3>2 DEF Recent
  <2> QED  BY <1>3, <2>2
<1>5. \A t \in Sessions : ttl[t]["meta"] # Absent => ttl'[t]["meta"] # Absent
  BY <1>2
<1>6. TypeOK'
  <2>1. owned' \subseteq {t \in Created' : ttl'[t]["meta"] # Absent} /\ index' \subseteq Created'
    BY <1>1, <1>5 DEF IInv, TypeOK, Exists, Created
  <2>2. \A t \in Sessions :
           /\ messages'[t] \in Seq(1..appended'[t]) /\ Len(messages'[t]) <= MaxMessages
           /\ ttl'[t]["messages"] # Absent <=> messages'[t] # << >>
    BY <1>2, <1>3, <1>4 DEF IInv, TypeOK, Exists
  <2>3. messages' \in [Sessions -> Seq(Nat)]
    <3>1. messages'[s] \in Seq(Nat)
      <4>1. Seq(1..appended'[s]) \subseteq Seq(Nat)
        <5>1. 1..appended'[s] \subseteq Nat
          BY <1>3
        <5> QED  BY <5>1, SeqMonotonic
      <4> QED  BY <1>4, <4>1
    <3> QED  BY <1>1, <3>1 DEF IInv, TypeOK
  <2>4. \A t \in Sessions : appended'[t] > 0 => t \in Created'
    BY <1>1, <1>3 DEF IInv, TypeOK, Created
  <2> QED  BY <1>1, <1>2, <1>3, <2>1, <2>2, <2>3, <2>4 DEF IInv, TypeOK, Exists, NotReading
<1>7. HistoryIsRecent'
  <2> SUFFICES ASSUME NEW t \in Sessions, NEW i \in DOMAIN messages'[t]
               PROVE  messages'[t][i] = appended'[t] - Len(messages'[t]) + i
    BY DEF HistoryIsRecent
  <2>1. CASE t = s
    BY <1>4, <2>1
  <2>2. CASE t # s
    <3>1. messages'[t] = messages[t] /\ appended'[t] = appended[t]
      BY <1>3, <2>2
    <3> QED  BY <3>1 DEF IInv, HistoryIsRecent
  <2> QED  BY <2>1, <2>2
<1>8. HistoryIsReachable'
  BY <1>2 DEF IInv, HistoryIsReachable, Exists
<1>9. LastingKeyIsBare'
  BY <1>1, <1>2 DEF IInv, LastingKeyIsBare
<1>10. ReadableIsIndexed'
  BY <1>1 DEF IInv, ReadableIsIndexed
<1>11. ReadableHasHistory'
  <2> SUFFICES ASSUME NEW t \in owned', appended'[t] > 0
               PROVE  ttl'[t]["messages"] # Absent /\ ttl'[t]["messages"] >= ttl'[t]["meta"]
    BY DEF ReadableHasHistory, Exists
  <2>1. t \in owned /\ t \in Sessions
    BY <1>1 DEF IInv, TypeOK, Created
  <2>2. CASE t = s
    BY <1>2, <2>2
  <2>3. CASE t # s
    <3>1. ttl'[t] = ttl[t] /\ appended'[t] = appended[t]
      BY <1>2, <1>3, <2>1, <2>3
    <3> QED  BY <2>1, <3>1 DEF IInv, ReadableHasHistory, Exists
  <2> QED  BY <2>2, <2>3
<1>12. HadWasAppended'
  <2>1. \A t \in Sessions : appended[t] > 0 => appended'[t] > 0
    BY <1>3
  <2>2. reading # NotReading => reading.session \in Sessions
    BY DEF IInv, TypeOK
  <2> QED  BY <1>1, <2>1, <2>2 DEF IInv, HadWasAppended, NotReading
<1> QED  BY <1>6, <1>7, <1>8, <1>9, <1>10, <1>11, <1>12 DEF IInv

LEMMA BeginDeleteKeeps == ASSUME IInv, NEW s \in Sessions, BeginDelete(s) PROVE IInv'
<1>1. TypeOK'
  BY DEF BeginDelete, IInv, TypeOK, Exists, Created, NotReading
<1>2. /\ HistoryIsRecent' /\ HistoryIsReachable' /\ ReadableHasHistory'
      /\ ReadableIsIndexed' /\ LastingKeyIsBare' /\ HadWasAppended'
  BY DEF BeginDelete, IInv, HistoryIsRecent, HistoryIsReachable, ReadableHasHistory, ReadableIsIndexed,
         LastingKeyIsBare, HadWasAppended, NotReading, Exists
<1> QED  BY <1>1, <1>2 DEF IInv

\* get_session changes nothing but what it has read.
LEMMA ReadKeeps ==
    ASSUME IInv, NEW s \in Watched, ReadMeta(s) \/ ReadMessages(s) \/ ReadVars(s)
    PROVE  IInv'
<1>1. UNCHANGED <<ttl, owned, messages, index, appended, createdAt, deleting>>
  BY DEF ReadMeta, ReadMessages, ReadVars
<1>2. reading # NotReading => reading \in [session : Sessions, next : {"messages", "vars"},
                                           owned : BOOLEAN, had : BOOLEAN]
  BY DEF IInv, TypeOK
<1>3. \/ reading' = NotReading
      \/ reading' \in [session : Sessions, next : {"messages", "vars"},
                       owned : BOOLEAN, had : BOOLEAN]
  <2>1. CASE ReadMeta(s)
    <3>1. s \in Sessions /\ (s \in owned) \in BOOLEAN /\ (messages[s] # << >>) \in BOOLEAN
      OBVIOUS
    <3> QED  BY <2>1, <3>1 DEF ReadMeta
  <2>2. CASE ReadMessages(s)
    BY <1>2, <2>2 DEF ReadMessages
  <2>3. CASE ReadVars(s)
    BY <2>3 DEF ReadVars
  <2> QED  BY <2>1, <2>2, <2>3
<1>4. TypeOK'
  BY <1>1, <1>3 DEF IInv, TypeOK, Exists, Created, NotReading
<1>5. /\ HistoryIsRecent' /\ HistoryIsReachable' /\ ReadableHasHistory'
      /\ ReadableIsIndexed' /\ LastingKeyIsBare'
  BY <1>1 DEF IInv, HistoryIsRecent, HistoryIsReachable, ReadableHasHistory, ReadableIsIndexed,
         LastingKeyIsBare, Exists
<1>6. HadWasAppended'
  <2>1. CASE ReadMeta(s)
    <3>1. s \in Sessions /\ messages[s] \in Seq(1..appended[s]) /\ appended[s] \in Nat
      BY DEF IInv, TypeOK
    <3>2. ASSUME messages[s] # << >> PROVE appended[s] > 0
      <4>1. 1 \in DOMAIN messages[s] /\ messages[s][1] \in 1..appended[s]
        BY <3>1, <3>2
      <4> QED  BY <3>1, <4>1
    <3> QED  BY <1>1, <2>1, <3>2 DEF ReadMeta, HadWasAppended
  <2>2. CASE ReadMessages(s)
    BY <1>2, <2>2 DEF ReadMessages, HadWasAppended
  <2>3. CASE ReadVars(s)
    BY <2>3 DEF ReadVars, HadWasAppended
  <2> QED  BY <2>1, <2>2, <2>3
<1> QED  BY <1>4, <1>5, <1>6 DEF IInv

LEMMA DeleteKeeps == ASSUME IInv, NEW s \in Sessions, DeleteSession(s) PROVE IInv'
<1>1. /\ deleting' = [deleting EXCEPT ![s] = "no"]
      /\ ttl' = [ttl EXCEPT ![s] = [key \in Keys |-> Absent]]
      /\ owned' = owned \ {s}
      /\ messages' = [messages EXCEPT ![s] = << >>]
      /\ index' \subseteq index /\ index \ {s} \subseteq index'
      /\ UNCHANGED <<appended, createdAt, reading>>
  BY DEF DeleteSession
<1>2. /\ ttl' \in [Sessions -> [Keys -> {NoExpiry} \cup 0..TTL]]
      /\ \A t \in Sessions \ {s} : ttl'[t] = ttl[t] /\ messages'[t] = messages[t]
      /\ \A key \in Keys : ttl'[s][key] = Absent
      /\ messages'[s] = << >>
  BY <1>1 DEF IInv, TypeOK
<1>3. TypeOK'
  <2>1. owned' \subseteq {t \in Created' : ttl'[t]["meta"] # Absent} /\ index' \subseteq Created'
    BY <1>1, <1>2 DEF IInv, TypeOK, Exists, Created
  <2>2. \A t \in Sessions :
           /\ messages'[t] \in Seq(1..appended'[t]) /\ Len(messages'[t]) <= MaxMessages
           /\ ttl'[t]["messages"] # Absent <=> messages'[t] # << >>
    <3>1. << >> \in Seq(1..appended[s]) /\ Len(<< >>) <= MaxMessages
      OBVIOUS
    <3>2. \A t \in Sessions :
             /\ messages[t] \in Seq(1..appended[t]) /\ Len(messages[t]) <= MaxMessages
             /\ ttl[t]["messages"] # Absent <=> messages[t] # << >>
      BY DEF IInv, TypeOK, Exists
    <3> QED  BY <1>1, <1>2, <3>1, <3>2
  <2>3. /\ messages' \in [Sessions -> Seq(Nat)] /\ createdAt' \in [Sessions -> Nat]
        /\ appended' \in [Sessions -> 0..MaxAppends]
        /\ deleting' \in [Sessions -> {"no", "owned", "nobody's"}]
        /\ \A t \in Sessions : appended'[t] > 0 => t \in Created'
        /\ \/ reading' = NotReading
           \/ reading' \in [session : Sessions, next : {"messages", "vars"},
                            owned : BOOLEAN, had : BOOLEAN]
    BY <1>1 DEF IInv, TypeOK, NotReading, Created
  <2> QED  BY <1>2, <2>1, <2>2, <2>3 DEF TypeOK, Exists, NotReading
<1>4. HistoryIsRecent'
  BY <1>1, <1>2 DEF IInv, HistoryIsRecent
<1>5. HistoryIsReachable'
  BY <1>2 DEF IInv, HistoryIsReachable, Exists
<1>6. LastingKeyIsBare'
  BY <1>1, <1>2 DEF IInv, LastingKeyIsBare
<1>7. ReadableIsIndexed'
  BY <1>1 DEF IInv, ReadableIsIndexed
<1>8. ReadableHasHistory'
  <2>1. \A t \in owned' : t # s /\ t \in owned /\ t \in Sessions
    BY <1>1 DEF IInv, TypeOK, Created
  <2> QED  BY <1>1, <1>2, <2>1 DEF IInv, ReadableHasHistory, Exists
<1>9. HadWasAppended'
  BY <1>1 DEF IInv, HadWasAppended, NotReading
<1> QED  BY <1>3, <1>4, <1>5, <1>6, <1>7, <1>8, <1>9 DEF IInv

----------------------------------------------------------------------------
\* The invariant of the memory: types, histories, the index and the expiry
\* times, under every order of writes, expiry and deletion.
THEOREM MemoryInvariance == Spec => []IInv
<1>1. ASSUME IInv, UNCHANGED vars PROVE IInv'
  <2>1. TypeOK'
    BY <1>1 DEF vars, IInv, TypeOK, Exists, Created, NotReading
  <2>2. /\ HistoryIsRecent' /\ HistoryIsReachable' /\ ReadableHasHistory'
        /\ ReadableIsIndexed' /\ LastingKeyIsBare' /\ HadWasAppended'
    BY <1>1 DEF vars, IInv, HistoryIsRecent, HistoryIsReachable, ReadableHasHistory, ReadableIsIndexed,
           LastingKeyIsBare, HadWasAppended, NotReading, Exists
  <2> QED  BY <2>1, <2>2 DEF IInv
<1>2. ASSUME IInv, NEW s \in Sessions, CreateSession(s, {}) \/ CreateSession(s, {"vars"}) PROVE IInv'
  BY <1>2, CreateKeeps
<1>3. IInv /\ [Next]_vars => IInv'
  BY <1>1, <1>2, TickKeeps, AppendKeeps, SetVariableKeeps, SaveKeeps, BeginDeleteKeeps, DeleteKeeps,
     ReadKeeps DEF Next
<1> QED  BY <1>3, InitEstablishes, PTL DEF Spec

\* get_session misses a history only when the session is gone.
THEOREM HistoryIsReadWhileThere == Spec => HistoryGoesWithSession
<1>1. ASSUME IInv, NEW s \in Sessions, ReadMessages(s), reading.had, messages[s] = << >>
      PROVE  s \notin owned
  <2>1. appended[s] > 0
    BY <1>1 DEF IInv, HadWasAppended, ReadMessages
  <2>2. ~Exists(s, "messages")
    BY <1>1 DEF IInv, TypeOK
  <2>3. ReadableHasHistory
    BY <1>1 DEF IInv
  <2> QED  BY <2>1, <2>2, <2>3 DEF ReadableHasHistory
<1>2. IInv /\ [Next]_vars => [\A s \in Sessions :
          ReadMessages(s) /\ reading.had /\ messages[s] = << >> => s \notin owned]_vars
  BY <1>1
<1> QED  BY <1>2, MemoryInvariance, PTL DEF Spec, HistoryGoesWithSession

\* list_sessions shows every session that can be read until ListLimit newer
\* ones were created.
THEOREM ListedWhileReadable == Spec => []ReadableIsListed
<1>1. IInv => ReadableIsListed
  <2> SUFFICES ASSUME IInv, NEW s \in owned,
                      Cardinality({t \in Created : createdAt[t] > createdAt[s]}) < ListLimit
               PROVE  s \in ListSessions
    BY DEF ReadableIsListed
  <2> DEFINE newer == {t \in Created : createdAt[t] > createdAt[s]}
             listed == {t \in index : createdAt[t] > createdAt[s]}
  <2>1. newer \in SUBSET Sessions /\ listed \in SUBSET newer
    BY DEF IInv, TypeOK, Created
  <2>2. IsFiniteSet(newer)
    BY <2>1, FS_Subset
  <2>3. Cardinality(listed) <= Cardinality(newer)
    BY <2>1, <2>2, FS_Subset
  <2>4. IsFiniteSet(listed)
    BY <2>1, <2>2, FS_Subset
  <2>5. Cardinality(listed) \in Nat /\ Cardinality(newer) \in Nat
    BY <2>2, <2>4, FS_CardinalityType
  <2>6. Cardinality(listed) < ListLimit
    BY <2>3, <2>5
  <2>7. s \in index /\ Exists(s, "meta")
    BY DEF IInv, TypeOK, ReadableIsIndexed
  <2> QED  BY <2>6, <2>7 DEF ListSessions
<1> QED  BY <1>1, MemoryInvariance, PTL
=============================================================================
