------------------------ MODULE TokenProviderProofs ------------------------
(***************************************************************************)
(* No tool call carries an expired token, whatever the number of callers,  *)
(* the life of a token and the delays that TokenAssumption allows.         *)
(***************************************************************************)
EXTENDS TokenProvider, TLAPS

LEMMA InitEstablishes == TokenInit => TokenInv
<1> SUFFICES ASSUME TokenInit PROVE TokenInv
  OBVIOUS
<1>1. TokenTypeOK
  BY DEF TokenInit, TokenTypeOK, NoToken, Travelling
<1>2. EstimateIsClose
  BY DEF TokenInit, EstimateIsClose
<1>3. MessagesAreTimely
  BY DEF TokenInit, MessagesAreTimely, Travelling
<1> QED  BY <1>1, <1>2, <1>3 DEF TokenInv

\* What a message sent now has to satisfy.
LEMMA SendPreserves ==
    ASSUME TokenInv, NEW c \in Users, NEW l \in Travelling, NEW t \in Nat,
           Carry(c, l, t), now' = now,
           l = "calling" => now + MaxDelay <= t,
           l # "calling" => t = now + Life
    PROVE  /\ doing' \in [Users -> {"idle", "refreshing", "loggingIn"} \cup Travelling]
           /\ token' \in [Users -> Nat]
           /\ sent' \in [Users -> Nat]
           /\ MessagesAreTimely'
<1>1. /\ doing' \in [Users -> {"idle", "refreshing", "loggingIn"} \cup Travelling]
      /\ token' \in [Users -> Nat]
      /\ sent' \in [Users -> Nat]
  BY DEF TokenInv, TokenTypeOK, Carry, Goto
<1>2. ASSUME NEW d \in Users, doing'[d] \in Travelling
      PROVE  /\ sent'[d] <= now' /\ now' <= sent'[d] + MaxDelay
             /\ doing'[d] = "calling" => sent'[d] + MaxDelay <= token'[d]
             /\ doing'[d] # "calling" => token'[d] = sent'[d] + Life
  <2>1. CASE d = c
    <3>1. doing'[d] = l /\ token'[d] = t /\ sent'[d] = now
      BY <2>1 DEF TokenInv, TokenTypeOK, Carry, Goto
    <3> QED  BY <3>1, TokenAssumption DEF TokenInv, TokenTypeOK
  <2>2. CASE d # c
    <3>1. doing'[d] = doing[d] /\ token'[d] = token[d] /\ sent'[d] = sent[d]
      BY <2>2 DEF TokenInv, TokenTypeOK, Carry, Goto
    <3> QED  BY <1>2, <3>1 DEF TokenInv, MessagesAreTimely
  <2> QED  BY <2>1, <2>2
<1> QED  BY <1>1, <1>2 DEF MessagesAreTimely

\* A call that leaves the network, or never was in it, changes no message.
LEMMA GotoPreserves ==
    ASSUME TokenInv, NEW c \in Users, NEW l \in {"idle", "refreshing", "loggingIn"},
           Goto(c, l), UNCHANGED <<now, token, sent>>
    PROVE  /\ doing' \in [Users -> {"idle", "refreshing", "loggingIn"} \cup Travelling]
           /\ MessagesAreTimely'
<1>1. doing' \in [Users -> {"idle", "refreshing", "loggingIn"} \cup Travelling]
  BY DEF TokenInv, TokenTypeOK, Goto
<1>2. ASSUME NEW d \in Users, doing'[d] \in Travelling
      PROVE  doing'[d] = doing[d]
  BY <1>2 DEF TokenInv, TokenTypeOK, Goto, Travelling
<1> QED  BY <1>1, <1>2 DEF TokenInv, MessagesAreTimely

LEMMA TickPreserves == TokenInv /\ TimePasses => TokenInv'
<1> SUFFICES ASSUME TokenInv, TimePasses PROVE TokenInv'
  OBVIOUS
<1>1. TokenTypeOK' /\ EstimateIsClose'
  BY DEF TokenInv, TokenTypeOK, EstimateIsClose, TimePasses
<1>2. MessagesAreTimely'
  BY TokenAssumption DEF TokenInv, TokenTypeOK, MessagesAreTimely, TimePasses
<1> QED  BY <1>1, <1>2 DEF TokenInv

LEMMA StepPreserves == TokenInv /\ [TokenNext]_tokenVars => TokenInv'
<1> SUFFICES ASSUME TokenInv, [TokenNext]_tokenVars PROVE TokenInv'
  OBVIOUS
<1>1. CASE TimePasses
  BY <1>1, TickPreserves
<1>2. ASSUME NEW c \in Users, UseCached(c) PROVE TokenInv'
  <2>1. access + MaxDelay >= expiresAt /\ expiresAt - now > Margin /\ access \in Nat
    BY <1>2 DEF TokenInv, TokenTypeOK, EstimateIsClose, UseCached, Reusable
  <2>2. now + MaxDelay <= access
    BY <2>1, TokenAssumption DEF TokenInv, TokenTypeOK
  <2>3. Carry(c, "calling", access) /\ UNCHANGED <<now, access, expiresAt, hasRefresh>>
    BY <1>2 DEF UseCached
  <2>4. "calling" \in Travelling
    BY DEF Travelling
  <2>5. /\ doing' \in [Users -> {"idle", "refreshing", "loggingIn"} \cup Travelling]
        /\ token' \in [Users -> Nat]
        /\ sent' \in [Users -> Nat]
        /\ MessagesAreTimely'
    BY <2>1, <2>2, <2>3, <2>4, SendPreserves
  <2> QED  BY <2>3, <2>5 DEF TokenInv, TokenTypeOK, EstimateIsClose
<1>3. ASSUME NEW c \in Users, Renew(c) PROVE TokenInv'
  <2>1. PICK l \in {"idle", "refreshing", "loggingIn"} : Goto(c, l)
    BY <1>3 DEF Renew
  <2>2. UNCHANGED <<now, access, expiresAt, hasRefresh, token, sent>>
    BY <1>3 DEF Renew
  <2> QED  BY <2>1, <2>2, GotoPreserves DEF TokenInv, TokenTypeOK, EstimateIsClose
<1>4. ASSUME NEW c \in Users, Issue(c) PROVE TokenInv'
  <2>1. PICK l \in Travelling : l # "calling" /\ Carry(c, l, now + Life)
    BY <1>4 DEF Issue, RefreshToken, Authenticate, Travelling
  <2>2. UNCHANGED <<now, access, expiresAt, hasRefresh>>
    BY <1>4 DEF Issue
  <2>3. now + Life \in Nat
    BY TokenAssumption DEF TokenInv, TokenTypeOK
  <2>4. /\ doing' \in [Users -> {"idle", "refreshing", "loggingIn"} \cup Travelling]
        /\ token' \in [Users -> Nat]
        /\ sent' \in [Users -> Nat]
        /\ MessagesAreTimely'
    BY <2>1, <2>2, <2>3, SendPreserves
  <2> QED  BY <2>2, <2>4 DEF TokenInv, TokenTypeOK, EstimateIsClose
<1>5. ASSUME NEW c \in Users, Obtain(c) PROVE TokenInv'
  <2>1. /\ token[c] \in Nat /\ now <= sent[c] + MaxDelay
        /\ token[c] = sent[c] + Life /\ sent[c] \in Nat
    BY <1>5 DEF TokenInv, TokenTypeOK, MessagesAreTimely, Obtain, Travelling
  <2>2. now + MaxDelay <= token[c] /\ now + Life <= token[c] + MaxDelay
    BY <2>1, TokenAssumption DEF TokenInv, TokenTypeOK
  <2>3. "calling" \in Travelling /\ Carry(c, "calling", token[c]) /\ now' = now
    BY <1>5 DEF Obtain, Travelling
  <2>4. /\ doing' \in [Users -> {"idle", "refreshing", "loggingIn"} \cup Travelling]
        /\ token' \in [Users -> Nat]
        /\ sent' \in [Users -> Nat]
        /\ MessagesAreTimely'
    BY <2>1, <2>2, <2>3, SendPreserves
  <2>5. access' = token[c] /\ expiresAt' = now + Life /\ hasRefresh' \in BOOLEAN
    BY <1>5 DEF Obtain, TokenInv, TokenTypeOK
  <2>6. now + Life \in Nat
    BY TokenAssumption DEF TokenInv, TokenTypeOK
  <2>7. EstimateIsClose'
    BY <2>2, <2>5 DEF EstimateIsClose
  <2> QED  BY <2>1, <2>3, <2>4, <2>5, <2>6, <2>7 DEF TokenInv, TokenTypeOK
<1>6. ASSUME NEW c \in Users, RefreshFails(c) PROVE TokenInv'
  <2>1. /\ Goto(c, "loggingIn") /\ hasRefresh' \in BOOLEAN
        /\ UNCHANGED <<now, access, expiresAt, token, sent>>
    BY <1>6 DEF RefreshFails, TokenInv, TokenTypeOK
  <2> QED  BY <2>1, GotoPreserves DEF TokenInv, TokenTypeOK, EstimateIsClose
<1>7. ASSUME NEW c \in Users, LoginFails(c) \/ Arrive(c) PROVE TokenInv'
  <2>1. /\ Goto(c, "idle")
        /\ UNCHANGED <<now, access, expiresAt, hasRefresh, token, sent>>
    BY <1>7 DEF LoginFails, Arrive
  <2> QED  BY <2>1, GotoPreserves DEF TokenInv, TokenTypeOK, EstimateIsClose
<1>8. CASE UNCHANGED tokenVars
  BY <1>8 DEF tokenVars, TokenInv, TokenTypeOK, EstimateIsClose, MessagesAreTimely
<1> QED  BY <1>1, <1>2, <1>3, <1>4, <1>5, <1>6, <1>7, <1>8 DEF TokenNext

\* The timing invariant holds in every reachable state.
THEOREM TokenInvariance == TokenSpec => []TokenInv
BY InitEstablishes, StepPreserves, PTL DEF TokenSpec

\* A tool call reaches the gateway before its token expires.
THEOREM TokensLiveOnArrival == TokenSpec => []NeverExpiredOnArrival
<1>1. TokenInv => NeverExpiredOnArrival
  BY TokenAssumption
  DEF TokenInv, TokenTypeOK, MessagesAreTimely, NeverExpiredOnArrival, Expired, Travelling
<1> QED  BY <1>1, TokenInvariance, PTL
=============================================================================
