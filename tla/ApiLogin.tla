------------------------------ MODULE ApiLogin ------------------------------
(***************************************************************************)
(* How an API client gets and replaces its token (api/base.py), and the    *)
(* token cache that all processes of a user share (api/token_cache.py).    *)
(* One client may serve several threads: an App Server attempt gives its   *)
(* heartbeat the client of its main thread.  A login is made under the     *)
(* client's lock; nothing locks the cache, which holds one token for each  *)
(* API URL and is rewritten as a whole, by one rename.                     *)
(***************************************************************************)
EXTENDS Missing, Integers

CONSTANTS
    Callers,        \* the threads that make requests
    ApiClient,      \* [Callers -> the client of the thread]
    ApiUrl,         \* [clients -> the URL it is for]
    Given,          \* [clients -> the token it was given (ISSUEKIT_API_TOKEN), or None]
    WithPassword,   \* the clients that have a user name and a password
    Handed,         \* tokens handed out before: 1 .. Handed
    MaxTokens       \* bound: tokens handed out in all

ApiClients == {ApiClient[t] : t \in Callers}
Urls == {ApiUrl[c] : c \in ApiClients}

LoginAssumption ==
    /\ Handed \in Nat /\ MaxTokens \in Nat /\ None \notin Nat \cup Callers
    /\ Given \in [ApiClients -> {None} \cup 1 .. Handed]

ASSUME LoginAssumption

VARIABLES
    cache,      \* token.json
    token,      \* the token of each client
    loginLock,  \* who holds a client's _login_lock
    caller,     \* where each thread is and what it does after a login, the token
                \* its request carries, and the cache as it has read it
    issued,     \* tokens handed out
    lapsed,     \* tokens that the clock says are expired, or are about to
    dead,       \* tokens that the server refuses
    crossed,    \* ghost: two rewrites of the cache overlapped
    stored      \* ghost: what the last login or logout for a URL has left there

loginVars == <<cache, token, loginLock, caller, issued, lapsed, dead, crossed, stored>>

NoTokens == [u \in Urls |-> None]

Away == [at |-> "away", then |-> "away", sent |-> None, copy |-> NoTokens]

LoginInit ==
    /\ cache = NoTokens /\ stored = NoTokens /\ crossed = FALSE
    /\ token = Given /\ loginLock = [c \in ApiClients |-> None]
    /\ caller = [t \in Callers |-> Away]
    /\ issued = Handed /\ lapsed = {} /\ dead = {}

Calls(t, steps) == caller[t].at \in steps

Moves(t, at) == caller' = [caller EXCEPT ![t].at = at]

Leaves(t) == caller' = [caller EXCEPT ![t] = Away]

(* What a login is for: a request, the same once more, or itself. *)
Continues(t, k) ==
    caller' = [caller EXCEPT ![t] =
        IF caller[t].then = "away" THEN Away ELSE [Away EXCEPT !.at = caller[t].then, !.sent = k]]

Unlocked(t) == [loginLock EXCEPT ![ApiClient[t]] = None]

(* Threads that share nothing with others: what a command runs in. *)
AloneWithClient(t) == \A u \in Callers : ApiClient[u] = ApiClient[t] => u = t

TokenOf(t) == token[ApiClient[t]]

Usable(k) == k # None /\ k \notin lapsed

CacheAlone == UNCHANGED <<cache, crossed, stored>>

ServerAlone == UNCHANGED <<issued, lapsed, dead>>

-----------------------------------------------------------------------------
(* Requests *)

(* The process of the client ends or is killed at any point, and another      *)
(* starts: it takes the token it is given, or else the cached one.          *)
OpenClient(c) ==
    /\ caller' = [t \in Callers |-> IF ApiClient[t] = c THEN Away ELSE caller[t]]
    /\ loginLock' = [loginLock EXCEPT ![c] = None]
    /\ token' = [token EXCEPT ![c] = IF Given[c] # None THEN Given[c]
                                     ELSE IF Usable(cache[ApiUrl[c]]) THEN cache[ApiUrl[c]] ELSE None]
    /\ CacheAlone /\ ServerAlone

Requests(t) ==
    /\ Calls(t, {"away"})
    /\ caller' = [caller EXCEPT ![t] = [Away EXCEPT !.at = "login"]]
    /\ UNCHANGED <<token, loginLock>> /\ CacheAlone /\ ServerAlone

(* Fault: the token that was refused is not compared with the client's. *)
ForcedAnyway(t) == Calls(t, {"relogin", "command"})

(* A refused request forces a login, unless another thread has replaced the   *)
(* token since; a login command forces one in any case.                     *)
Forced(t) == \/ Calls(t, {"relogin"}) /\ TokenOf(t) = caller[t].sent
             \/ Calls(t, {"command"})

Then(t) == CASE Calls(t, {"login"})   -> "send"
             [] Calls(t, {"relogin"}) -> "resend"
             [] Calls(t, {"command"}) -> "away"

(* login(), up to its request and under the lock. *)
EntersLogin(t) ==
    LET c == ApiClient[t]
    IN  /\ Calls(t, {"login", "relogin", "command"}) /\ loginLock[c] = None
        /\ \/ /\ ~ Forced(t) /\ Usable(token[c])
              /\ caller' = [caller EXCEPT ![t].at = Then(t), ![t].sent = token[c]]
              /\ UNCHANGED loginLock
           \/ /\ Forced(t) \/ ~ Usable(token[c])
              /\ IF c \in WithPassword
                 THEN /\ caller' = [caller EXCEPT ![t].at = "post", ![t].then = Then(t)]
                      /\ loginLock' = [loginLock EXCEPT ![c] = t]
                 ELSE Leaves(t) /\ UNCHANGED loginLock
        /\ UNCHANGED token /\ CacheAlone /\ ServerAlone

(* A client that was given a token caches none. *)
LoginAnswered(t) ==
    LET c == ApiClient[t]
    IN  /\ Calls(t, {"post"}) /\ issued < MaxTokens
        /\ issued' = issued + 1
        /\ token' = [token EXCEPT ![c] = issued']
        /\ IF Given[c] # None
           THEN Continues(t, issued') /\ loginLock' = Unlocked(t)
           ELSE Moves(t, "read") /\ UNCHANGED loginLock
        /\ UNCHANGED <<lapsed, dead>> /\ CacheAlone

(* Wrong credentials, a redirect, an answer that cannot be read, or none; and *)
(* a cache that cannot be written, which fails the request after all.       *)
LoginFails(t) ==
    /\ Calls(t, {"post", "read", "write"})
    /\ Leaves(t) /\ loginLock' = Unlocked(t)
    /\ UNCHANGED token /\ CacheAlone /\ ServerAlone

Rewrites(t) == Calls(t, {"write"})

ReadsCache(t) ==
    /\ Calls(t, {"read"})
    /\ caller' = [caller EXCEPT ![t].at = "write", ![t].copy = cache]
    /\ crossed' = (crossed \/ \E u \in Callers \ {t} : Rewrites(u))
    /\ UNCHANGED <<token, loginLock, cache, stored>> /\ ServerAlone

(* Fault: the entries of the other URLs are forgotten. *)
RewrittenAlone(t) == [NoTokens EXCEPT ![ApiUrl[ApiClient[t]]] = TokenOf(t)]

(* The entry of this client's URL is the token it has now, None after logout. *)
Rewritten(t) == [caller[t].copy EXCEPT ![ApiUrl[ApiClient[t]]] = TokenOf(t)]

WritesCache(t) ==
    /\ Rewrites(t)
    /\ cache' = Rewritten(t)
    /\ stored' = [stored EXCEPT ![ApiUrl[ApiClient[t]]] = TokenOf(t)]
    /\ Continues(t, TokenOf(t)) /\ loginLock' = Unlocked(t)
    /\ UNCHANGED <<token, crossed>> /\ ServerAlone

(* The request is served, or it is refused with 401, or no answer comes. *)
Sends(t) ==
    /\ Calls(t, {"send"})
    /\ \/ Leaves(t)
       \/ caller[t].sent \in dead /\ ApiClient[t] \in WithPassword /\ Moves(t, "relogin")
    /\ UNCHANGED <<token, loginLock>> /\ CacheAlone /\ ServerAlone

(* Whatever the second answer is, the request is over. *)
Resends(t) ==
    /\ Calls(t, {"resend"})
    /\ Leaves(t)
    /\ UNCHANGED <<token, loginLock>> /\ CacheAlone /\ ServerAlone

-----------------------------------------------------------------------------
(* Commands, and the server *)

(* issuekit login *)
LoginCommand(t) ==
    /\ Calls(t, {"away"}) /\ AloneWithClient(t) /\ Given[ApiClient[t]] = None
    /\ caller' = [caller EXCEPT ![t] = [Away EXCEPT !.at = "command"]]
    /\ UNCHANGED <<token, loginLock>> /\ CacheAlone /\ ServerAlone

(* issuekit logout: the server is told if it can be; then the cache's entry,  *)
(* where there is one, is removed.                                          *)
LogoutCommand(t) ==
    /\ Calls(t, {"away"}) /\ AloneWithClient(t) /\ Given[ApiClient[t]] = None
    /\ \/ Usable(TokenOf(t)) /\ dead' = dead \cup {TokenOf(t)}
       \/ UNCHANGED dead
    /\ IF cache[ApiUrl[ApiClient[t]]] # None
       THEN /\ caller' = [caller EXCEPT ![t].at = "write", ![t].then = "away", ![t].copy = cache]
            /\ crossed' = (crossed \/ \E u \in Callers \ {t} : Rewrites(u))
       ELSE UNCHANGED <<caller, crossed>>
    /\ token' = [token EXCEPT ![ApiClient[t]] = None]
    /\ UNCHANGED <<loginLock, cache, stored, issued, lapsed>>

TokenLapses(k) ==
    /\ k \notin lapsed /\ lapsed' = lapsed \cup {k}
    /\ UNCHANGED <<token, loginLock, caller, issued, dead>> /\ CacheAlone

TokenRevoked(k) ==
    /\ k \notin dead /\ dead' = dead \cup {k}
    /\ UNCHANGED <<token, loginLock, caller, issued, lapsed>> /\ CacheAlone

-----------------------------------------------------------------------------
LoginStep(t) ==
    \/ Requests(t) \/ EntersLogin(t) \/ LoginAnswered(t) \/ LoginFails(t)
    \/ ReadsCache(t) \/ WritesCache(t) \/ Sends(t) \/ Resends(t)
    \/ LoginCommand(t) \/ LogoutCommand(t)

LoginNext ==
    \/ \E t \in Callers : LoginStep(t)
    \/ \E c \in ApiClients : OpenClient(c)
    \/ \E k \in 1 .. issued : TokenLapses(k) \/ TokenRevoked(k)

LoginSpec == LoginInit /\ [][LoginNext]_loginVars

-----------------------------------------------------------------------------
(* Properties *)

Tokens == {None} \cup 1 .. issued

(* Each variable has its type; the lock's holder is between the two ends of   *)
(* a login of its own client.                                               *)
LoginTypes ==
    /\ issued \in Nat /\ lapsed \subseteq 1 .. issued /\ dead \subseteq 1 .. issued
    /\ cache \in [Urls -> Tokens] /\ stored \in [Urls -> Tokens] /\ crossed \in BOOLEAN
    /\ token \in [ApiClients -> Tokens]
    /\ caller \in [Callers ->
          [at : {"away", "login", "send", "relogin", "resend", "command", "post", "read", "write"},
           then : {"send", "resend", "away"}, sent : Tokens, copy : [Urls -> Tokens]]]
    /\ \A c \in ApiClients : loginLock[c] # None => ApiClient[loginLock[c]] = c

(* A request asks for another token only when its client has none, or has     *)
(* one that is expired or that the server has refused: however many threads  *)
(* of a client are refused at once, one login replaces their token.         *)
RefusedTokenReplacedOnce ==
    \A t \in Callers : Calls(t, {"post"}) /\ caller[t].then # "away" =>
        TokenOf(t) \in {None} \cup lapsed \cup dead

(* The cache holds for each URL what its last login or logout left there, as  *)
(* long as no two processes rewrite it at the same time.                    *)
CacheKeepsOthers == ~ crossed => cache = stored
=============================================================================
