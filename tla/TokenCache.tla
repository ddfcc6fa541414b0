----------------------------- MODULE TokenCache -----------------------------
(***************************************************************************)
(* NombaAuthService: the access token of Nomba in one Redis key, shared by *)
(* every caller of the Nomba API.  A caller takes the cached token or gets *)
(* a new one, which it caches for a fixed time; nothing makes callers wait *)
(* for one another, so several may refresh at once and the last to write   *)
(* wins.                                                                   *)
(*                                                                         *)
(* Time is discrete.  A token is represented by the time it expires at     *)
(* Nomba.  The wait of a caller between two steps is bounded by Delay.     *)
(* The 30 s that httpx is given are for each phase (to connect, to send,   *)
(* for each read), so Delay is several times that.                         *)
(*                                                                         *)
(* A `Mutant' is a plausible mistake in the operator that follows it.      *)
(***************************************************************************)
EXTENDS Naturals

CONSTANTS
    Caller,     \* calls of the Nomba API in flight at one time
    TTL,        \* NOMBA_TOKEN_TTL_SECONDS
    Life,       \* how long Nomba honours a token after issuing it
    Delay,      \* bound on a wait for an answer of Nomba or of Redis
    Horizon     \* bound on the clock

ASSUME ClockAssumption ==
    TTL \in Nat \ {0} /\ Life \in Nat /\ Delay \in Nat /\ Horizon \in Nat

\* A token that is cached as late as can be, read as late as can be and sent
\* as late as can be must still be honoured.
ASSUME MarginAssumption == TTL + 2 * Delay <= Life

VARIABLES
    now,
    cache,      \* the Redis key: its token and the time it goes away
    caller      \* local state of each caller

vars == <<now, cache, caller>>

CallerState == [pc: {"idle", "issue", "store", "use"}, token: Nat, since: Nat]

Idle == [pc |-> "idle", token |-> 0, since |-> 0]

\* The clock, the key and every local hold a value of their types.
TypeOK ==
    /\ now \in Nat
    /\ cache \in [token: Nat, until: Nat]
    /\ caller \in [Caller -> CallerState]

Init ==
    /\ now = 0
    /\ cache = [token |-> 0, until |-> 0]
    /\ caller = [c \in Caller |-> Idle]

-----------------------------------------------------------------------------

\* The caller holds the token, and has held it (or waited for it) since then.
Holding(c, pc, token) ==
    caller' = [caller EXCEPT ![c] = [pc |-> pc, token |-> token, since |-> now]]

\* Mutant: reading the key prolongs it.
ReadCacheProlonging(c) ==
    /\ caller[c].pc = "idle"
    /\ \/ now < cache.until /\ Holding(c, "use", cache.token)
       \/ Holding(c, "issue", 0)
    /\ cache' = IF now < cache.until THEN [cache EXCEPT !.until = now + TTL]
                                     ELSE cache
    /\ UNCHANGED now

\* redis.get: a hit is returned at once.  When the key is gone, or the read
\* fails (which is only logged), a token is requested.
ReadCache(c) ==
    /\ caller[c].pc = "idle"
    /\ \/ now < cache.until /\ Holding(c, "use", cache.token)
       \/ Holding(c, "issue", 0)
    /\ UNCHANGED <<now, cache>>

\* Nomba issues a token; the answer is under way.
IssueToken(c) ==
    /\ caller[c].pc = "issue"
    /\ Holding(c, "store", now + Life)
    /\ UNCHANGED <<now, cache>>

\* redis.setex, which may fail (it is only logged), and the token is returned.
StoreToken(c) ==
    /\ caller[c].pc = "store"
    /\ Holding(c, "use", caller[c].token)
    /\ \/ cache' = [token |-> caller[c].token, until |-> now + TTL]
       \/ UNCHANGED cache
    /\ UNCHANGED now

\* The request with the token reaches Nomba.
UseToken(c) ==
    /\ caller[c].pc = "use"
    /\ caller' = [caller EXCEPT ![c] = Idle]
    /\ UNCHANGED <<now, cache>>

\* No credentials, no token in the answer, a status of 4xx or 5xx, a timeout, a
\* restart: the caller ends without having used a token.  Nothing is cached.
GiveUp(c) ==
    /\ caller[c].pc # "idle"
    /\ caller' = [caller EXCEPT ![c] = Idle]
    /\ UNCHANGED <<now, cache>>

\* A second goes by, unless somebody has waited long enough.
Tick ==
    /\ now < Horizon
    /\ \A c \in Caller : caller[c].pc # "idle" => now < caller[c].since + Delay
    /\ now' = now + 1
    /\ UNCHANGED <<cache, caller>>

Next ==
    \/ \E c \in Caller : ReadCache(c) \/ IssueToken(c) \/ StoreToken(c)
                         \/ UseToken(c) \/ GiveUp(c)
    \/ Tick

Spec == Init /\ [][Next]_vars
-----------------------------------------------------------------------------
\* A token is honoured by Nomba for as long as a caller may still send it:
\* whether it was cached or fresh, and also when two callers refresh at once
\* and the one whose token is older writes the key last (auth.py,
\* get_access_token).
TokenHonoured ==
    \A c \in Caller : caller[c].pc = "use" => now < caller[c].token
=============================================================================
