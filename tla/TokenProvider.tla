--------------------------- MODULE TokenProvider ---------------------------
(***************************************************************************)
(* The agent's access token, hermes/mcp_client.py (TokenProvider): cached, *)
(* renewed by refresh or login, shared by the tool calls of a batch, which *)
(* run get_token concurrently.  Time is modelled: a token lives from the   *)
(* moment the gateway issues it, the provider counts from the moment it    *)
(* gets it, and the request that carries it takes time to arrive.          *)
(*                                                                         *)
(* A token is represented by the time at which the gateway will no longer  *)
(* take it.                                                                *)
(***************************************************************************)
EXTENDS Integers

CONSTANTS
    Users,
    Life,       \* expires_in of a token
    Margin,     \* how long a cached token must still live (60 s in the code)
    MaxDelay    \* what a message between agent and gateway takes at most

\* The timeouts of the HTTP clients (10 s for the token requests, 5 s each to
\* get a connection, to connect and to write for the tool calls) keep MaxDelay
\* far below Margin, and Margin far below Life.
ASSUME TokenAssumption ==
    /\ Life \in Nat /\ Margin \in Nat /\ MaxDelay \in Nat
    /\ 2 * MaxDelay <= Margin
    /\ Margin <= Life

VARIABLES
    now,
    access,      \* _access_token, NoToken if there is none
    expiresAt,   \* _expires_at
    hasRefresh,  \* there is a _refresh_token
    doing,          \* where each call of get_token, and the request after it, is
    token,       \* the token a message under way carries
    sent         \* when that message was sent

tokenVars == <<now, access, expiresAt, hasRefresh, doing, token, sent>>

NoToken == 0

\* Messages under way.
Travelling == {"refreshed", "loggedIn", "calling"}

TokenInit ==
    /\ now = 1
    /\ access = NoToken
    /\ expiresAt = 0
    /\ hasRefresh = FALSE
    /\ doing = [c \in Users |-> "idle"]
    /\ token = [c \in Users |-> NoToken]
    /\ sent = [c \in Users |-> 0]

Goto(c, l) == doing' = [doing EXCEPT ![c] = l]

Carry(c, l, t) ==
    /\ Goto(c, l)
    /\ token' = [token EXCEPT ![c] = t]
    /\ sent' = [sent EXCEPT ![c] = now]

\* Time passes; no message takes longer than MaxDelay.
TimePasses ==
    /\ \A c \in Users : doing[c] \in Travelling => now < sent[c] + MaxDelay
    /\ now' = now + 1
    /\ UNCHANGED <<access, expiresAt, hasRefresh, doing, token, sent>>

----------------------------------------------------------------------------
\* get_token.

\* Faulty variant: a token is used as long as it lives.
ReusableToTheEnd == access # NoToken /\ expiresAt - now > 0

Reusable == access # NoToken /\ expiresAt - now > Margin

\* The cached token goes out with the tool call at once.
UseCached(c) ==
    /\ doing[c] = "idle"
    /\ Reusable
    /\ Carry(c, "calling", access)
    /\ UNCHANGED <<now, access, expiresAt, hasRefresh>>

\* Else a refresh is requested, or a login when there is nothing to refresh with.
Renew(c) ==
    /\ doing[c] = "idle"
    /\ ~Reusable
    /\ Goto(c, IF hasRefresh THEN "refreshing" ELSE "loggingIn")
    /\ UNCHANGED <<now, access, expiresAt, hasRefresh, token, sent>>

\* The gateway takes a refresh token that has not expired, or a password, and
\* issues a token.  It truncates the time to seconds, here and again when it
\* verifies the token, so that a token lives for Life at least.
RefreshToken(c) == doing[c] = "refreshing" /\ Carry(c, "refreshed", now + Life)

Authenticate(c) == doing[c] = "loggingIn" /\ Carry(c, "loggedIn", now + Life)

Issue(c) ==
    /\ RefreshToken(c) \/ Authenticate(c)
    /\ UNCHANGED <<now, access, expiresAt, hasRefresh>>

\* Faulty variant: the new token's life is added to the old one's.
ObtainAdding(c) ==
    /\ doing[c] \in {"refreshed", "loggedIn"}
    /\ access' = token[c]
    /\ expiresAt' = (IF expiresAt > now THEN expiresAt ELSE now) + Life
    /\ hasRefresh' = (hasRefresh \/ doing[c] = "loggedIn")
    /\ Carry(c, "calling", token[c])
    /\ UNCHANGED now

\* The response is stored, its life counted from now, and the call goes out
\* with the token.  A login brings a refresh token, a refresh does not.
Obtain(c) ==
    /\ doing[c] \in {"refreshed", "loggedIn"}
    /\ access' = token[c]
    /\ expiresAt' = now + Life
    /\ hasRefresh' = (hasRefresh \/ doing[c] = "loggedIn")
    /\ Carry(c, "calling", token[c])
    /\ UNCHANGED now

\* The refresh is refused, and the refresh token dropped, or gets no answer in
\* time; the call logs in instead.
RefreshFails(c) ==
    /\ \/ doing[c] = "refreshing" /\ hasRefresh' = FALSE
       \/ doing[c] \in {"refreshing", "refreshed"} /\ UNCHANGED hasRefresh
    /\ Goto(c, "loggingIn")
    /\ UNCHANGED <<now, access, expiresAt, token, sent>>

\* The error of a failed login goes to the caller.
LoginFails(c) ==
    /\ doing[c] \in {"loggingIn", "loggedIn"}
    /\ Goto(c, "idle")
    /\ UNCHANGED <<now, access, expiresAt, hasRefresh, token, sent>>

\* verify_token.
Expired(t) == now > t

\* The request reaches the gateway, which verifies the token.
Arrive(c) ==
    /\ doing[c] = "calling"
    /\ Goto(c, "idle")
    /\ UNCHANGED <<now, access, expiresAt, hasRefresh, token, sent>>

----------------------------------------------------------------------------

TokenNext ==
    \/ TimePasses
    \/ \E c \in Users :
          \/ UseCached(c) \/ Renew(c) \/ Issue(c) \/ Obtain(c)
          \/ RefreshFails(c) \/ LoginFails(c) \/ Arrive(c)

TokenSpec == TokenInit /\ [][TokenNext]_tokenVars

----------------------------------------------------------------------------
\* Properties.

TokenTypeOK ==
    /\ now \in Nat
    /\ access \in Nat
    /\ expiresAt \in Nat
    /\ hasRefresh \in BOOLEAN
    /\ doing \in [Users -> {"idle", "refreshing", "loggingIn"} \cup Travelling]
    /\ token \in [Users -> Nat]
    /\ sent \in [Users -> Nat]

\* A tool call never reaches the gateway with a token that has expired, in
\* whatever order concurrent calls renew the token they share (A-04 AC-1).
NeverExpiredOnArrival ==
    \A c \in Users : doing[c] = "calling" => ~Expired(token[c])

\* The provider may think its token lives longer than it does, by the delay of
\* the response that brought it and no more.
EstimateIsClose == access # NoToken => expiresAt <= access + MaxDelay

\* Messages are no older than MaxDelay; a new token has its whole life before
\* it, and a token that was sent lived MaxDelay longer when it was.
MessagesAreTimely ==
    \A c \in Users : doing[c] \in Travelling =>
        /\ sent[c] <= now /\ now <= sent[c] + MaxDelay
        /\ doing[c] = "calling" => sent[c] + MaxDelay <= token[c]
        /\ doing[c] # "calling" => token[c] = sent[c] + Life

TokenInv == TokenTypeOK /\ EstimateIsClose /\ MessagesAreTimely
=============================================================================
