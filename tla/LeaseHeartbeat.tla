--------------------------- MODULE LeaseHeartbeat ---------------------------
(***************************************************************************)
(* When the heartbeat thread of an App Server attempt beats, retries and   *)
(* gives up.  Time is counted in tenths of the lease's life.  The provider *)
(* extends the lease at some moment of a call, the thread counts from the  *)
(* answer.                                                                 *)
(***************************************************************************)
EXTENDS Integers

CONSTANT CallTicks   \* the API timeout: 5 at the defaults, 30 s of 60 s

ASSUME CallTicksAssumption == CallTicks \in Nat \ {0}

VARIABLES
    age,      \* since the provider extended the lease
    fenced,   \* the provider refuses the lease: lapsed, or the claim is lost
    thread,   \* "wait", "call", or why it ended: "error", "stopped"
    timer,    \* until the wait ends, or since the call was sent
    since,    \* since last_success
    arrived,  \* the call under way has extended the lease
    failing   \* last_error is set

heartbeatVars == <<age, fenced, thread, timer, since, arrived, failing>>

Life == 10

Interval == 4     \* ttl * 0.4

Half == 5         \* ttl * 0.5

RetryAfter == 1   \* at most a second

HeartbeatInit ==
    /\ age = 0 /\ since = 0 /\ fenced = FALSE /\ failing = FALSE
    /\ thread = "wait" /\ timer = Interval /\ arrived = FALSE

(* No count that matters is larger. *)
Oldest == Life + 2 * CallTicks

Later(n) == IF n < Oldest THEN n + 1 ELSE n

Passes ==
    /\ \/ thread = "wait" /\ timer > 0 /\ timer' = timer - 1
       \/ thread = "call" /\ timer < CallTicks /\ timer' = timer + 1
       \/ thread = "error" /\ age < Life /\ UNCHANGED timer
    /\ age' = Later(age) /\ since' = Later(since)
    /\ fenced' = (fenced \/ age' >= Life)
    /\ UNCHANGED <<thread, arrived, failing>>

ClaimLost ==
    /\ ~ fenced /\ fenced' = TRUE
    /\ UNCHANGED <<age, thread, timer, since, arrived, failing>>

Waits(ticks) == thread' = "wait" /\ timer' = ticks

GivesUp == thread' = "error" /\ timer' = 0

(* Fault: it tries once more however late it is. *)
WakesAnyway ==
    /\ thread = "wait" /\ timer = 0
    /\ thread' = "call" /\ timer' = 0 /\ arrived' = FALSE
    /\ UNCHANGED <<age, fenced, since, failing>>

Wakes ==
    /\ thread = "wait" /\ timer = 0
    /\ IF failing /\ since >= Half THEN GivesUp ELSE thread' = "call" /\ timer' = 0
    /\ arrived' = FALSE
    /\ UNCHANGED <<age, fenced, since, failing>>

Arrives ==
    /\ thread = "call" /\ ~ fenced /\ ~ arrived
    /\ age' = 0 /\ arrived' = TRUE
    /\ UNCHANGED <<fenced, thread, timer, since, failing>>

Answered ==
    /\ thread = "call" /\ arrived
    /\ Waits(Interval)
    /\ since' = 0 /\ failing' = FALSE
    /\ UNCHANGED <<age, fenced, arrived>>

(* request_failed, whether or not the call arrived. *)
NoAnswer ==
    /\ thread = "call"
    /\ IF since < Half THEN Waits(RetryAfter) /\ failing' = TRUE
       ELSE GivesUp /\ UNCHANGED failing
    /\ UNCHANGED <<age, fenced, since, arrived>>

(* Any other code. *)
Refused ==
    /\ thread = "call" /\ fenced
    /\ GivesUp
    /\ UNCHANGED <<age, fenced, since, arrived, failing>>

(* The main thread sets the event; a call under way is not interrupted. *)
Stopped ==
    /\ thread = "wait"
    /\ thread' = "stopped" /\ timer' = 0
    /\ UNCHANGED <<age, fenced, since, arrived, failing>>

HeartbeatNext ==
    \/ Passes \/ ClaimLost
    \/ Wakes \/ Arrives \/ Answered \/ NoAnswer \/ Refused \/ Stopped

HeartbeatSpec == HeartbeatInit /\ [][HeartbeatNext]_heartbeatVars

-----------------------------------------------------------------------------
(* Properties *)

(* Each variable has its type; no wait is longer than an interval, and no    *)
(* call than the API timeout.                                               *)
HeartbeatTypes ==
    /\ age \in 0 .. Oldest /\ since \in 0 .. Oldest
    /\ thread \in {"wait", "call", "error", "stopped"}
    /\ timer \in 0 .. (IF thread = "call" THEN CallTicks ELSE Interval)
    /\ fenced \in BOOLEAN /\ arrived \in BOOLEAN /\ failing \in BOOLEAN

(* An interval and two timeouts after the provider last extended the lease,  *)
(* whatever calls were lost, late or answered with an error in between, the  *)
(* thread has ended and reported it.  With timeouts below three ticks that   *)
(* is before the lease lapses; at the defaults it may lapse four ticks (24   *)
(* s) before the main thread, which works on, is told.                      *)
SilenceIsReported ==
    age > Interval + 2 * CallTicks => thread \in {"error", "stopped"}
=============================================================================
