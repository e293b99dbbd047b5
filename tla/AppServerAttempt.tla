-------------------------- MODULE AppServerAttempt --------------------------
(***************************************************************************)
(* One implementation attempt in the codex_app_server runtime: the main    *)
(* thread drives a local App Server through a session it leases from the   *)
(* issue API; a heartbeat thread keeps the lease; a reader thread receives *)
(* the server's notifications, which the main thread uploads in batches.   *)
(* People may send the session commands, and the claim may be lost.        *)
(*                                                                         *)
(* The provider is not part of the repository: it is modelled by what the  *)
(* code relies on, fencing of a lost lease, idempotent keys and commands   *)
(* in their order.  When the heartbeat thread beats is LeaseHeartbeat's    *)
(* matter; here it reports an error sooner or later.                       *)
(***************************************************************************)
EXTENDS Missing, Integers, Sequences, FiniteSets

CONSTANTS
    Batch,            \* events of one upload
    MaxNotes,         \* bound: notifications
    MaxCommands,      \* bound: commands of the session
    MaxAttemptFaults  \* bound: calls that fail

VARIABLES
    main,       \* where the main thread is
    again,      \* its call is being retried
    due,        \* the deadline has passed
    aborted,    \* abort_event
    timedOut, exitCode, terminal,   \* of _AttemptState; terminal is the last
    session, commands, uploaded,    \* the provider's session
    lease,
    inHand,     \* the command being executed
    journal,    \* commands on record before they take effect
    native,     \* the App Server process
    notes,      \* notifications received
    ended,      \* the number of the one that finished the turn, or 0
    pending,    \* pending_events
    sent,       \* how many of them the request under way, or its retry, carries
    beat,       \* the heartbeat thread: "off", "on", ended by an "error", "over"
    attemptFaults

providerVars == <<session, commands, uploaded, lease>>
stateVars == <<timedOut, exitCode, inHand, journal>>
noteVars == <<notes, ended, pending, terminal>>
worldVars == <<due, aborted, beat>>
attemptVars == <<main, again, stateVars, providerVars, native, noteVars, sent, worldVars, attemptFaults>>

AttemptAssumption ==
    /\ Batch \in Nat \ {0}
    /\ MaxNotes \in Nat /\ MaxCommands \in Nat /\ MaxAttemptFaults \in Nat

ASSUME AttemptAssumption

AttemptInit ==
    /\ main = "list" /\ again = FALSE
    /\ due = FALSE /\ aborted = FALSE
    /\ timedOut = FALSE /\ exitCode = 1 /\ terminal = None
    /\ session = "none" /\ commands = <<>> /\ uploaded = <<>>
    /\ lease = "none"
    /\ inHand = 0 /\ journal = {}
    /\ native = "off" /\ notes = 0 /\ ended = 0 /\ pending = <<>> /\ sent = 0
    /\ beat = "off" /\ attemptFaults = 0

-----------------------------------------------------------------------------
(* The heartbeat thread and the world *)

Still == UNCHANGED <<main, again, stateVars, native, sent>>

(* The lease is lost, or the provider has not answered for too long. *)
HeartbeatReports ==
    /\ beat = "on"
    /\ \/ lease = "lost" /\ UNCHANGED attemptFaults
       \/ attemptFaults < MaxAttemptFaults /\ attemptFaults' = attemptFaults + 1
    /\ beat' = "error"
    /\ Still /\ UNCHANGED <<providerVars, noteVars, due, aborted>>

(* The claim is lost, another attempt takes over, or the lease lapses. *)
LeaseIsLost ==
    /\ lease = "held" /\ main # "done"
    /\ lease' = "lost"
    /\ Still /\ UNCHANGED <<session, commands, uploaded, noteVars, worldVars, attemptFaults>>

DeadlinePasses ==
    /\ main \notin {"done", "list", "create", "acquire"} /\ ~ due
    /\ due' = TRUE
    /\ Still /\ UNCHANGED <<providerVars, noteVars, aborted, beat, attemptFaults>>

Abort ==
    /\ ~ aborted /\ main # "done"
    /\ aborted' = TRUE
    /\ Still /\ UNCHANGED <<providerVars, noteVars, due, beat, attemptFaults>>

Queued(kind) == [kind |-> kind, state |-> "queued"]

SendCommand(kind) ==
    /\ session = "open" /\ Len(commands) < MaxCommands
    /\ commands' = Append(commands, Queued(kind))
    /\ Still /\ UNCHANGED <<session, uploaded, lease, noteVars, worldVars, attemptFaults>>

-----------------------------------------------------------------------------
(* The server and the reader thread *)

TurnStarted == main \notin {"list", "create", "acquire", "open", "started", "thread", "attach",
                            "attached", "command", "claim"}

(* A notification; "error" without a retry finishes the turn as its end does. *)
Notify(kind) ==
    /\ native = "up" /\ TurnStarted /\ notes < MaxNotes
    /\ terminal # None => kind \in {"progress", "turn_failed"}
    /\ notes' = notes + 1
    /\ pending' = Append(pending, notes')
    /\ terminal' = IF kind = "progress" THEN terminal ELSE kind
    /\ ended' = IF kind # "progress" /\ ended = 0 THEN notes' ELSE ended
    /\ UNCHANGED <<main, again, stateVars, sent, native, providerVars, worldVars, attemptFaults>>

Kinds == {"progress", "turn_completed", "turn_failed", "turn_interrupted"}

ServerDies ==
    /\ native = "up" /\ attemptFaults < MaxAttemptFaults
    /\ native' = "exited" /\ attemptFaults' = attemptFaults + 1
    /\ UNCHANGED <<main, again, stateVars, sent, noteVars, providerVars, worldVars>>

-----------------------------------------------------------------------------
(* The main thread: calls and their failures *)

Local == UNCHANGED <<noteVars, sent, due, aborted>>

Proceed(here, there) == main = here /\ main' = there /\ again' = FALSE

BeforeLease == {"list", "create", "acquire"}

(* Calls with the lease's headers: refused once it is lost.  Those with a key *)
(* or numbered events are tried a second time.  Calls to the local server.   *)
Fenced == {"started", "attach", "attached", "claim", "accept", "flush", "poll", "ack", "ack2",
           "lastFlush", "finish", "closeClaim", "closeAck", "closeAck2", "bestEffort",
           "stopped", "seal", "closeSession", "release"}

Retried == {"create", "acquire", "command", "flush", "lastFlush", "closeCommand"}

ToServer == {"open", "thread", "turn", "effect", "interrupt"}

Served(step) ==
    /\ step \in Fenced => lease = "held"
    /\ step \in ToServer \ {"open"} => native = "up"

FailsBy(step) ==
    \/ attemptFaults < MaxAttemptFaults /\ attemptFaults' = attemptFaults + 1
    \/ ~ Served(step) /\ UNCHANGED attemptFaults

Swallowed == {"bestEffort", "stopped", "seal", "closeSession", "release"}

(* Where an error takes the main thread.  Only a refused lease is not        *)
(* reported to the provider.                                                *)
ErrorGoes(step) ==
    IF step \in BeforeLease THEN "done"
    ELSE IF step \in Fenced /\ lease # "held" THEN "teardown"
    ELSE "bestEffort"

(* A retry carries the same events as the first try. *)
FirstBatch ==
    SubSeq(pending, 1, IF again THEN sent
                       ELSE IF Len(pending) < Batch THEN Len(pending) ELSE Batch)

Uploads == {"flush", "lastFlush"}

(* Events the provider has already, the first of the batch, are not stored   *)
(* twice.                                                                   *)
Stored == {n \in DOMAIN FirstBatch : FirstBatch[n] <= Len(uploaded)}

WithBatch == uploaded \o SubSeq(FirstBatch, Cardinality(Stored) + 1, Len(FirstBatch))

StepFails(step) ==
    /\ main = step /\ step \in Fenced \cup Retried \cup ToServer \cup {"list"}
    /\ step \notin Swallowed \cup {"ack", "ack2", "effect"}
    /\ step \in Uploads => pending # <<>>
    /\ FailsBy(step)
    /\ IF step \in Retried /\ ~ again /\ attemptFaults' > attemptFaults
       THEN again' = TRUE /\ UNCHANGED main
       ELSE again' = FALSE /\ main' = ErrorGoes(step)
    /\ \/ UNCHANGED uploaded
       \/ step \in Uploads /\ lease = "held" /\ uploaded' = WithBatch
    /\ sent' = IF step \in Uploads THEN Len(FirstBatch) ELSE sent
    /\ UNCHANGED <<noteVars, due, aborted, stateVars, session, commands, lease, beat, native>>

(* In the teardown: the first failing call skips the rest up to the join. *)
SwallowedFails(step) ==
    /\ main = step /\ step \in Swallowed
    /\ FailsBy(step)
    /\ Proceed(step, CASE step = "bestEffort" -> "teardown"
                       [] step = "release" -> "done"
                       [] OTHER -> "join")
    /\ Local /\ UNCHANGED <<stateVars, session, commands, uploaded, lease, beat, native>>

Steady == UNCHANGED <<attemptFaults, beat, native>> /\ Local

-----------------------------------------------------------------------------
(* Opening the session *)

(* Which earlier native session is resumed, if any, is left out.             *)
ListSessions ==
    /\ Proceed("list", "create")
    /\ Steady /\ UNCHANGED <<stateVars, session, commands, uploaded, lease>>

CreateSession ==
    /\ Proceed("create", "acquire")
    /\ session' = "open"
    /\ Steady /\ UNCHANGED <<stateVars, commands, uploaded, lease>>

AcquireLease ==
    /\ Proceed("acquire", "open")
    /\ lease' = "held" /\ beat' = "on"
    /\ UNCHANGED <<attemptFaults, native, noteVars, sent, due, aborted, stateVars, session, commands, uploaded>>

(* The process is started and initialized; a failure may leave it running. *)
OpenServer ==
    /\ native' = "up"
    /\ \/ Proceed("open", "started") /\ UNCHANGED attemptFaults
       \/ Proceed("open", "bestEffort") /\ FailsBy("open")
    /\ Local /\ UNCHANGED <<stateVars, session, commands, uploaded, lease, beat>>

(* Events about the runtime, starting or resuming the thread, attaching it. *)
Prepares == [started |-> "thread", thread |-> "attach", attach |-> "attached",
             attached |-> "command"]

Prepare(step) ==
    /\ Served(step) /\ Proceed(step, Prepares[step])
    /\ Steady /\ UNCHANGED <<stateVars, session, commands, uploaded, lease>>

(* turn_start, and at the end session_close, go through the provider. *)
CreateOwnCommand(step, kind, there) ==
    /\ Proceed(step, there)
    /\ commands' = Append(commands, Queued(kind))
    /\ inHand' = Len(commands')
    /\ Steady /\ UNCHANGED <<timedOut, exitCode, journal, session, uploaded, lease>>

NextQueued(c) ==
    /\ c \in DOMAIN commands /\ commands[c].state = "queued"
    /\ \A d \in 1 .. c - 1 : commands[d].state # "queued"

Acknowledged(c, state) == commands' = [commands EXCEPT ![c].state = state]

(* Any other command in the queue before it is an error. *)
ClaimOwnCommand(step, there) ==
    /\ Served(step)
    /\ \E c \in DOMAIN commands :
          /\ NextQueued(c) /\ Acknowledged(c, "claimed")
          /\ IF c = inHand
             THEN Proceed(step, there) /\ journal' = journal \cup {c}
             ELSE Proceed(step, "bestEffort") /\ UNCHANGED journal
    /\ Steady /\ UNCHANGED <<timedOut, exitCode, inHand, session, uploaded, lease>>

StartTurn ==
    /\ Served("turn") /\ Proceed("turn", "accept")
    /\ Steady /\ UNCHANGED <<stateVars, session, commands, uploaded, lease>>

AcceptTurn ==
    /\ Served("accept") /\ Proceed("accept", "await")
    /\ Acknowledged(inHand, "accepted")
    /\ Steady /\ UNCHANGED <<stateVars, session, uploaded, lease>>

-----------------------------------------------------------------------------
(* _await_turn *)

TurnCommand == CHOOSE c \in DOMAIN commands : commands[c].kind = "turn_start"

LoopKeeps == Steady /\ UNCHANGED <<exitCode, inHand, journal, session, commands, uploaded, lease>>

(* The top of the loop. *)
LookAround ==
    /\ \/ ended # 0 /\ Proceed("await", "lastFlush")
       \/ ended = 0 /\ native # "up" /\ Proceed("await", "bestEffort")
       \/ ended = 0 /\ native = "up" /\ aborted /\ Proceed("await", "interrupt")
       \/ ended = 0 /\ native = "up" /\ ~ aborted /\ Proceed("await", "look")
    /\ LoopKeeps /\ UNCHANGED timedOut

(* The server may have ended the turn by itself, and refuse. *)
Interrupt ==
    /\ Served("interrupt") /\ Proceed("interrupt", IF timedOut THEN "lastFlush" ELSE "look")
    /\ LoopKeeps /\ UNCHANGED timedOut

LookAtHeartbeat ==
    /\ Proceed("look", IF beat # "error" THEN "flush"
                       ELSE IF lease # "held" THEN "teardown" ELSE "bestEffort")
    /\ LoopKeeps /\ UNCHANGED timedOut


(* One request of _flush_events, if there is anything to send. *)
Flush(step) ==
    /\ main = step /\ again' = FALSE
    /\ pending # <<>> => Served(step)
    /\ IF pending = <<>>
       THEN /\ main' = IF step = "flush" THEN "poll" ELSE "finish"
            /\ UNCHANGED <<uploaded, sent>>
       ELSE /\ uploaded' = WithBatch /\ sent' = Len(FirstBatch)
            /\ main' = IF step = "flush" THEN "drop" ELSE "lastDrop"
    /\ UNCHANGED <<stateVars, session, commands, lease, native, noteVars, worldVars, attemptFaults>>

(* Fault: everything pending counts as sent. *)
DropAll(step, there) ==
    /\ Proceed(step, there)
    /\ pending' = <<>> /\ sent' = 0
    /\ UNCHANGED <<stateVars, providerVars, native, notes, ended, terminal, worldVars, attemptFaults>>

(* The batch is dropped once it is answered; the reader may have added to    *)
(* the list in the meantime.                                                *)
DropBatch(step, there) ==
    /\ Proceed(step, there)
    /\ pending' = SubSeq(pending, sent + 1, Len(pending)) /\ sent' = 0
    /\ UNCHANGED <<stateVars, providerVars, native, notes, ended, terminal, worldVars, attemptFaults>>

(* _execute_pending_command: a command is claimed and journaled, *)
PollCommand ==
    /\ Served("poll") /\ main = "poll" /\ again' = FALSE
    /\ \/ /\ \A c \in DOMAIN commands : commands[c].state # "queued"
          /\ main' = "deadline" /\ UNCHANGED <<inHand, journal, commands, attemptFaults>>
       \/ \E c \in DOMAIN commands :
             /\ NextQueued(c) /\ Acknowledged(c, "claimed")
             /\ inHand' = c /\ journal' = journal \cup {c} /\ main' = "effect"
             /\ UNCHANGED attemptFaults
       \/ /\ attemptFaults < MaxAttemptFaults /\ attemptFaults' = attemptFaults + 1
          /\ \E c \in DOMAIN commands : commands[c].state \in {"claimed", "accepted"} /\ c \in journal
          /\ main' = "bestEffort"   \* a redelivered command
          /\ UNCHANGED <<inHand, journal, commands>>
    /\ Local /\ UNCHANGED <<timedOut, exitCode, session, uploaded, lease, beat, native>>

(* takes effect, *)
ExecuteCommand ==
    /\ Served("effect") /\ Proceed("effect", "ack")
    /\ native' = IF commands[inHand].kind = "session_close" THEN "exited" ELSE native
    /\ Local /\ UNCHANGED <<stateVars, session, commands, uploaded, lease, beat, attemptFaults>>

(* and is acknowledged twice. *)
AckCommand(step) ==
    /\ Served(step)
    /\ \/ step = "ack" /\ Proceed("ack", "ack2") /\ Acknowledged(inHand, "accepted")
       \/ step = "ack2" /\ Proceed("ack2", "deadline") /\ Acknowledged(inHand, "succeeded")
    /\ Steady /\ UNCHANGED <<stateVars, session, uploaded, lease>>

(* Whatever fails is acknowledged as a failure, if that can be, and raised;  *)
(* an error of that last call takes its place.                              *)
CommandFails(step) ==
    /\ main = step /\ step \in {"effect", "ack", "ack2"}
    /\ FailsBy(step)
    /\ again' = FALSE
    /\ IF lease = "held"
       THEN Acknowledged(inHand, "failed") /\ main' = "bestEffort"
       ELSE main' = "teardown" /\ UNCHANGED commands
    /\ Local /\ UNCHANGED <<stateVars, session, uploaded, lease, beat, native>>

(* Fault: after the interrupt the loop goes on until the turn is finished. *)
AtDeadlineWaits ==
    /\ Proceed("deadline", "await")
    /\ timedOut' = due
    /\ LoopKeeps

AtDeadline ==
    /\ Proceed("deadline", IF due THEN "interrupt" ELSE "await")
    /\ timedOut' = due
    /\ LoopKeeps

-----------------------------------------------------------------------------
(* Finishing *)

TurnSucceeded == ~ timedOut /\ terminal = "turn_completed"

FinishTurn ==
    /\ Served("finish")
    /\ Proceed("finish", IF TurnSucceeded THEN "closeCommand" ELSE "teardown")
    /\ Acknowledged(TurnCommand, IF TurnSucceeded THEN "succeeded" ELSE "failed")
    /\ exitCode' = IF timedOut THEN 124 ELSE exitCode
    /\ Steady /\ UNCHANGED <<timedOut, inHand, journal, session, uploaded, lease>>

CloseServer ==
    /\ Proceed("closeServer", "closeAck")
    /\ native' = "exited"
    /\ Local /\ UNCHANGED <<stateVars, session, commands, uploaded, lease, beat, attemptFaults>>

AckClose(step) ==
    /\ Served(step)
    /\ \/ /\ step = "closeAck" /\ Proceed("closeAck", "closeAck2")
          /\ Acknowledged(inHand, "accepted") /\ UNCHANGED exitCode
       \/ /\ step = "closeAck2" /\ Proceed("closeAck2", "teardown")
          /\ Acknowledged(inHand, "succeeded") /\ exitCode' = 0
    /\ Steady /\ UNCHANGED <<timedOut, inHand, journal, session, uploaded, lease>>

BestEffort ==
    /\ Served("bestEffort") /\ Proceed("bestEffort", "teardown")
    /\ session' = "failed"
    /\ Steady /\ UNCHANGED <<stateVars, commands, uploaded, lease>>

Teardown ==
    /\ Proceed("teardown", IF native = "off" THEN "join" ELSE "stopped")
    /\ native' = IF native = "off" THEN "off" ELSE "exited"
    /\ Local /\ UNCHANGED <<stateVars, session, commands, uploaded, lease, beat, attemptFaults>>

RuntimeStopped ==
    /\ Served("stopped") /\ Proceed("stopped", "seal")
    /\ Steady /\ UNCHANGED <<stateVars, session, commands, uploaded, lease>>

(* A session that was already given up is not sealed. *)
Seal ==
    /\ Served("seal")
    /\ \/ session = "open" /\ session' = "sealed" /\ Proceed("seal", "closeSession")
       \/ session # "open" /\ Proceed("seal", "join") /\ UNCHANGED session
    /\ Steady /\ UNCHANGED <<stateVars, commands, uploaded, lease>>

(* Fault: the outcome is the turn's. *)
SessionOutcomeOfTurn == IF TurnSucceeded THEN "closed" ELSE "failed"

SessionOutcome == IF exitCode = 0 THEN "closed" ELSE "failed"

CloseSession ==
    /\ Served("closeSession") /\ Proceed("closeSession", "join")
    /\ session' = SessionOutcome
    /\ Steady /\ UNCHANGED <<stateVars, commands, uploaded, lease>>

(* join waits two seconds; a heartbeat that is still under way then is a      *)
(* daemon's and its answer changes nothing.                                 *)
StopHeartbeat ==
    /\ Proceed("join", "release")
    /\ beat' = "over"
    /\ Local /\ UNCHANGED <<stateVars, session, commands, uploaded, lease, native, attemptFaults>>

ReleaseLease ==
    /\ Served("release") /\ Proceed("release", "done")
    /\ lease' = "released"
    /\ Steady /\ UNCHANGED <<stateVars, session, commands, uploaded>>

MainStep ==
    \/ ListSessions \/ CreateSession \/ AcquireLease \/ OpenServer
    \/ \E step \in DOMAIN Prepares : Prepare(step)
    \/ CreateOwnCommand("command", "turn_start", "claim") \/ ClaimOwnCommand("claim", "turn")
    \/ StartTurn \/ AcceptTurn
    \/ LookAround \/ Interrupt \/ LookAtHeartbeat \/ Flush("flush") \/ DropBatch("drop", "flush") \/ PollCommand
    \/ ExecuteCommand \/ AckCommand("ack") \/ AckCommand("ack2") \/ AtDeadline
    \/ Flush("lastFlush") \/ DropBatch("lastDrop", "lastFlush") \/ FinishTurn
    \/ CreateOwnCommand("closeCommand", "session_close", "closeClaim")
    \/ ClaimOwnCommand("closeClaim", "closeServer") \/ CloseServer
    \/ AckClose("closeAck") \/ AckClose("closeAck2")
    \/ BestEffort \/ Teardown \/ RuntimeStopped \/ Seal \/ CloseSession
    \/ StopHeartbeat \/ ReleaseLease
    \/ StepFails(main) \/ SwallowedFails(main) \/ CommandFails(main)

AttemptNext ==
    \/ MainStep \/ HeartbeatReports \/ LeaseIsLost \/ DeadlinePasses \/ Abort \/ ServerDies
    \/ \E kind \in {"turn_steer", "turn_interrupt", "session_close"} : SendCommand(kind)
    \/ \E kind \in Kinds : Notify(kind)

AttemptSpec == AttemptInit /\ [][AttemptNext]_attemptVars

-----------------------------------------------------------------------------
(* Properties *)

(* Each variable has its type; the server runs only while the attempt does. *)
AttemptTypes ==
    /\ session \in {"none", "open", "sealed", "closed", "failed"}
    /\ lease \in {"none", "held", "lost", "released"}
    /\ native \in {"off", "up", "exited"}
    /\ main \in {"join", "release", "done"} => native # "up"
    /\ inHand \in 0 .. Len(commands) /\ journal \subseteq DOMAIN commands
    /\ Len(uploaded) <= notes /\ sent <= Len(pending) /\ exitCode \in {0, 1, 124}
    /\ beat = "off" <=> lease = "none"

(* The provider has the events in the order the server reported them, none    *)
(* twice and none missing between, although the reader thread adds to the    *)
(* list the main thread sends and empties; and a turn is reported as done    *)
(* only when the event that ended it is there.                              *)
EventsInOrder ==
    /\ \A n \in DOMAIN uploaded : uploaded[n] = n
    /\ \A c \in DOMAIN commands :
          commands[c].kind = "turn_start" /\ commands[c].state = "succeeded" =>
             ended \in 1 .. Len(uploaded)

(* The provider hears of no success that the caller does not: a session is   *)
(* closed as done only by an attempt that returns exit code 0, its turn and  *)
(* its close command acknowledged.  The converse fails: the close may be     *)
(* lost or fenced in a teardown that goes on and returns 0.                 *)
ClosedIsDone ==
    session = "closed" =>
        exitCode = 0 /\ commands[TurnCommand].state = "succeeded"
=============================================================================
