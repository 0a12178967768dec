---------------------------- MODULE AgentAttempt ----------------------------
(***************************************************************************)
(* One attempt of a coding agent: runAgentAttempt and AppServerTransport   *)
(* of codex-app-server.ts in app-symphony.                                 *)
(*                                                                         *)
(* The attempt starts an app server in the workspace of an issue and talks *)
(* to it in lines over pipes: a handshake of three requests, then turns,   *)
(* each begun by a request and ended by a notification, with requests of   *)
(* the server in between.  Timers, an abort signal and the exit of the     *)
(* server interrupt it.                                                    *)
(*                                                                         *)
(* Node reads the lines of one chunk before it goes on with what they have *)
(* resolved, and goes on with that before the next event: more counts the  *)
(* lines of the chunk that are left, got is what the await has been        *)
(* resolved with, and Quiet says that neither has to go on.                *)
(* The process ends (alive) on an error that nothing handles, and that is  *)
(* so for a server that cannot be spawned, for a write to one that died    *)
(* unnoticed and for an answer to it without a child to write to.          *)
(*                                                                         *)
(* Abstracted: contents and ids of messages (a late answer is told by its  *)
(* request), notifications that are only shown, and delays.  A server that *)
(* lives takes what is written to it: its stdin is never full.             *)
(***************************************************************************)
EXTENDS Integers, Sequences

CONSTANTS
    MaxTurns, \* agent.maxTurns of the configuration
    Calls,    \* requests the server makes: "approval", "tool", "input"
    MaxCalls, \* bound on the number of those in an attempt
    MaxLines  \* bound on the lines that wait to be read

Bounds ==
    /\ MaxTurns \in Nat \ {0}
    /\ Calls \subseteq {"approval", "tool", "input"}
    /\ MaxCalls \in Nat /\ MaxLines \in Nat

ASSUME AttemptAssumption == Bounds

VARIABLES
    pc,         \* what runAgentAttempt awaits
    got,        \* what it has been resolved with, "nothing" at first
    turns,      \* currentSession.turnCount
    child,      \* the transport has its child
    aborted,    \* signal.aborted
    listening,  \* the listener for the abort was added
    tools,      \* tool calls that wait for the tracker
    result,     \* the status returned
    alive,      \* the process of the service is
    server,     \* the app server: absent, up, exited by itself or killed, or
                \* either of those with its exit event seen (reaped)
    asked,      \* requests it has still to answer
    turn,       \* its turn
    made,       \* number of requests it has made
    unanswered, \* how many of those have not been answered
    stdout,     \* lines it has written that were not handled
    more,       \* how many of those are left of the chunk being read
    missed,     \* history: the end of a turn was read when nothing awaited it
    early       \* history: the abort came before the listener

attempt == <<pc, got, turns, listening, result>>
outside == <<asked, turn, made, stdout, more>>
attemptVars == <<attempt, child, aborted, tools, alive, server, outside,
                 unanswered, missed, early>>

Requests == {"initialize", "configure", "thread", "turnStart"}

Line == [kind : {"response"}, of : Requests, good : BOOLEAN]
            \cup [kind : {"end"}, good : BOOLEAN]
            \cup [kind : Calls]

AttemptTypeOK ==
    /\ pc \in Requests \cup {"start", "render", "turn", "tracker", "ended"}
    /\ got \in {"nothing", "ok", "error", "timeout"}
    /\ turns \in 0 .. MaxTurns
    /\ \A b \in {child, aborted, listening, alive, missed, early} : b \in BOOLEAN
    /\ tools \in 0 .. MaxCalls /\ made \in 0 .. MaxCalls
    /\ unanswered \in tools .. made
    /\ result \in {"none", "succeeded", "failed", "cancelled", "timed_out"}
    /\ result # "none" <=> pc = "ended"
    /\ server \in {"absent", "up", "exited", "killed", "reaped"}
    /\ asked \subseteq Requests
    /\ turn \in {"none", "open", "completed", "failed"}
    /\ stdout \in Seq(Line) /\ Len(stdout) <= MaxLines
    /\ more \in 0 .. Len(stdout)

\* No chunk is being read, and no promise of the attempt has been settled that
\* it has not gone on from.
Quiet == alive /\ more = 0 /\ got = "nothing"

\* A promise of the attempt has been settled, and the chunk is read.
Resolved == alive /\ more = 0 /\ got # "nothing"

-----------------------------------------------------------------------------
(* The transport *)

\* terminate.
Terminate ==
    /\ child' = FALSE
    /\ server' = IF child /\ server = "up" THEN "killed" ELSE server

\* The end of the attempt; the catch block and the normal return both
\* terminate the server.
Finish(status) ==
    /\ pc' = "ended" /\ got' = "nothing" /\ result' = status
    /\ Terminate
    /\ UNCHANGED <<turns, listening, aborted, tools, alive, outside, unanswered,
                   missed, early>>

\* The catch block of runAgentAttempt.  It would tell "turn_input_required",
\* but a request for input has ended the process by then (Heard).
Fail(timeout) ==
    Finish(IF aborted THEN "cancelled" ELSE IF timeout THEN "timed_out" ELSE "failed")

\* A write to a server that has died, before its exit was seen, makes an error
\* event on its stdin, which has no listener.
Broken == child /\ server = "exited"

\* request(method): without a child it throws; after the exit it is written
\* to nowhere.
Send(method) ==
    \/ /\ child /\ ~Broken
       /\ pc' = method /\ got' = "nothing"
       /\ turns' = IF method = "turnStart" THEN turns + 1 ELSE turns
       /\ asked' = IF server = "up" THEN asked \cup {method} ELSE asked
       /\ turn' = IF method = "turnStart" THEN "none" ELSE turn
       /\ UNCHANGED <<listening, result, child, aborted, tools, alive, server,
                      made, stdout, more, unanswered, missed, early>>
    \/ /\ Broken
       /\ alive' = FALSE
       /\ UNCHANGED <<attempt, child, aborted, tools, server, outside,
                      unanswered, missed, early>>
    \/ ~child /\ Fail(FALSE)

\* The response to a request that still waits, or the end of a turn that is
\* awaited, settles what the attempt awaits.
Settles(line) ==
    /\ got = "nothing"
    /\ \/ line.kind = "response" /\ pc = line.of
       \/ line.kind = "end" /\ pc = "turn"

\* What a line does (handleLine, with the handlers that runAgentAttempt set).
\* A request for input terminates the server and throws; the error cannot be
\* written either, and the promise of handleLine is rejected with nothing that
\* handles it.
Heard(line) ==
    /\ got' = IF ~Settles(line) THEN got ELSE IF line.good THEN "ok" ELSE "error"
    /\ missed' = (missed \/ (line.kind = "end" /\ ~Settles(line)))
    /\ tools' = IF line.kind = "tool" THEN tools + 1 ELSE tools
    /\ IF line.kind = "approval" /\ child /\ ~Broken
       THEN unanswered' = unanswered - 1 /\ UNCHANGED alive
       ELSE alive' = (line.kind \notin {"approval", "input"}) /\ UNCHANGED unanswered
    /\ IF line.kind = "input" THEN Terminate ELSE UNCHANGED <<child, server>>

HandleLine ==
    /\ stdout # <<>>
    /\ Heard(Head(stdout))
    /\ stdout' = Tail(stdout)
    /\ UNCHANGED <<pc, turns, listening, result, aborted, asked, turn, made, early>>

\* A chunk of lines comes, before or after the end of the attempt, and its
\* first line is handled.
ReadChunk ==
    /\ Quiet
    /\ more' \in 0 .. Len(stdout) - 1
    /\ HandleLine

\* The next line of the chunk.
NextLine ==
    /\ alive /\ more > 0
    /\ more' = more - 1
    /\ HandleLine

\* buildLinearToolResult has its answer from the tracker, or an error: both
\* are written to the server, and when that throws it is tried once more as
\* an error and throws again.
ToolAnswers ==
    /\ Quiet /\ tools > 0
    /\ tools' = tools - 1
    /\ IF child /\ ~Broken
       THEN unanswered' = unanswered - 1 /\ UNCHANGED alive
       ELSE alive' = FALSE /\ UNCHANGED unanswered
    /\ UNCHANGED <<attempt, child, aborted, server, outside, missed, early>>

\* The timer of a request.
ReadTimeout ==
    /\ Quiet /\ pc \in Requests
    /\ got' = "error"
    /\ UNCHANGED <<pc, turns, listening, result, child, aborted, tools, alive,
                   server, outside, unanswered, missed, early>>

\* The exit event of the server rejects the request that waits, but not the
\* promise of a turn.
ExitSeen ==
    /\ Quiet /\ server \in {"exited", "killed"}
    /\ server' = "reaped"
    /\ got' = IF pc \in Requests THEN "error" ELSE got
    /\ UNCHANGED <<pc, turns, listening, result, child, aborted, tools, alive,
                   outside, unanswered, missed, early>>

-----------------------------------------------------------------------------
(* runAgentAttempt *)

\* transport.start and the request "initialize", of which nothing goes between;
\* the orchestrator aborts nothing before.  That the server cannot be spawned
\* is thrown or, as for a missing workspace, an error event without listener.
\* A server that has died by the first request breaks its stdin.
StartServer ==
    /\ Quiet /\ pc = "start"
    /\ \/ /\ pc' = "initialize" /\ child' = TRUE /\ server' = "up"
          /\ asked' = {"initialize"}
          /\ UNCHANGED <<got, turns, listening, result, aborted, tools, alive, turn,
                         made, stdout, more, unanswered, missed, early>>
       \/ Fail(FALSE)
       \/ /\ alive' = FALSE /\ child' = TRUE
          /\ server' \in {"absent", "exited"}
          /\ UNCHANGED <<attempt, aborted, tools, outside, unanswered, missed, early>>

\* An answer to the handshake; nothing depends on that to configure.
HandshakeGoesOn ==
    /\ Resolved
    /\ \/ pc = "initialize" /\ got = "ok" /\ Send("configure")
       \/ pc = "configure" /\ Send("thread")
       \/ /\ pc = "thread" /\ got = "ok"
          /\ listening' = TRUE /\ pc' = "render" /\ got' = "nothing"
          /\ UNCHANGED <<turns, result, child, aborted, tools, alive, server,
                         outside, unanswered, missed, early>>

RequestFails ==
    /\ Resolved /\ got = "error" /\ pc \in Requests \ {"configure"}
    /\ Fail(FALSE)

\* The prompt of the first turn; the template may be wrong.
RenderPrompt ==
    /\ Quiet /\ pc = "render"
    /\ Send("turnStart") \/ Fail(FALSE)

\* The answer to turn/start: turnFinished and the timer of the turn are set.
BeginTurn ==
    /\ Resolved /\ pc = "turnStart" /\ got = "ok"
    /\ pc' = "turn" /\ got' = "nothing"
    /\ UNCHANGED <<turns, listening, result, child, aborted, tools, alive,
                   server, outside, unanswered, missed, early>>

\* Seeded fault: the exit of the server clears the timer of the turn.
TurnTimeoutCleared ==
    /\ Quiet /\ pc = "turn" /\ server # "reaped"
    /\ got' = "timeout"
    /\ Terminate
    /\ UNCHANGED <<pc, turns, listening, result, aborted, tools, alive,
                   outside, unanswered, missed, early>>

TurnTimeout ==
    /\ Quiet /\ pc = "turn"
    /\ got' = "timeout"
    /\ Terminate
    /\ UNCHANGED <<pc, turns, listening, result, aborted, tools, alive,
                   outside, unanswered, missed, early>>

\* Seeded fault: the status of the turn is not looked at.
TurnEndsAnyhow ==
    /\ Resolved /\ pc = "turn"
    /\ \/ /\ got \in {"ok", "error"}
          /\ pc' = "tracker" /\ got' = "nothing"
          /\ UNCHANGED <<turns, listening, result, child, aborted, tools, alive,
                         server, outside, unanswered, missed, early>>
       \/ got = "timeout" /\ Fail(TRUE)

TurnEnds ==
    /\ Resolved /\ pc = "turn"
    /\ \/ /\ got = "ok"
          /\ pc' = "tracker" /\ got' = "nothing"
          /\ UNCHANGED <<turns, listening, result, child, aborted, tools, alive,
                         server, outside, unanswered, missed, early>>
       \/ got = "error" /\ Fail(FALSE)
       \/ got = "timeout" /\ Fail(TRUE)

\* Seeded fault: the bound on turns is off by one.
TrackerAnswersOnce(active) ==
    /\ Quiet /\ pc = "tracker"
    /\ IF ~active \/ turns > MaxTurns THEN Finish("succeeded")
       ELSE IF aborted THEN Fail(FALSE) ELSE Send("turnStart")

\* The state of the issue is read again; the attempt ends unless it is active
\* and has turns left.
TrackerAnswers(active) ==
    /\ Quiet /\ pc = "tracker"
    /\ IF ~active \/ turns >= MaxTurns THEN Finish("succeeded")
       ELSE IF aborted THEN Fail(FALSE) ELSE Send("turnStart")

TrackerFails == Quiet /\ pc = "tracker" /\ Fail(FALSE)

\* Whether currentTurnId may be set: an answer to turn/start has set it for
\* good, and a notification turn/started may set it before the first answer.
TurnKnown ==
    IF pc \in {"turn", "tracker"} \/ turns > 1 THEN {TRUE}
    ELSE IF pc = "turnStart" THEN BOOLEAN ELSE {FALSE}

\* Seeded fault: nothing catches that turn/interrupt has no child to go to.
AbortUncaught ==
    /\ Quiet /\ ~aborted /\ pc # "start"
    /\ aborted' = TRUE
    /\ early' = ~listening
    /\ alive' = (listening => child /\ ~Broken)
    /\ IF listening THEN Terminate ELSE UNCHANGED <<child, server>>
    /\ UNCHANGED <<attempt, tools, outside, unanswered, missed>>

\* abort of the orchestrator's controller.  The listener was added once the
\* thread had started, and is not called when the abort was before that.  It
\* writes turn/interrupt when it knows the turn, then terminates; that there
\* is no child is caught, that the server had died unnoticed is not.
Abort ==
    /\ Quiet /\ ~aborted /\ pc # "start"
    /\ aborted' = TRUE
    /\ early' = ~listening
    /\ \E known \in TurnKnown : alive' = ~(listening /\ known /\ Broken)
    /\ IF listening THEN Terminate ELSE UNCHANGED <<child, server>>
    /\ UNCHANGED <<attempt, tools, outside, unanswered, missed>>

-----------------------------------------------------------------------------
(* The app server *)

Says(line) ==
    /\ Len(stdout) < MaxLines
    /\ stdout' = Append(stdout, line)
    /\ UNCHANGED more

Answers(request, good) ==
    /\ alive /\ server = "up" /\ request \in asked
    /\ asked' = asked \ {request}
    /\ turn' = IF request = "turnStart" /\ good THEN "open" ELSE turn
    /\ Says([kind |-> "response", of |-> request, good |-> good])
    /\ UNCHANGED <<attempt, child, aborted, tools, alive, server, made,
                   unanswered, missed, early>>

Calling(kind) ==
    /\ alive /\ server = "up" /\ turn = "open" /\ made < MaxCalls
    /\ made' = made + 1 /\ unanswered' = unanswered + 1
    /\ Says([kind |-> kind])
    /\ UNCHANGED <<attempt, child, aborted, tools, alive, server, asked, turn,
                   missed, early>>

\* A turn ends when the requests of the server have been answered.
EndsTurn(good) ==
    /\ alive /\ server = "up" /\ turn = "open" /\ unanswered = 0
    /\ turn' = IF good THEN "completed" ELSE "failed"
    /\ Says([kind |-> "end", good |-> good])
    /\ UNCHANGED <<attempt, child, aborted, tools, alive, server, asked, made,
                   unanswered, missed, early>>

Exits ==
    /\ alive /\ server = "up"
    /\ server' = "exited"
    /\ UNCHANGED <<attempt, child, aborted, tools, alive, outside, unanswered,
                   missed, early>>

-----------------------------------------------------------------------------

\* runAgentAttempt is called.
AttemptInit ==
    /\ pc = "start" /\ got = "nothing" /\ turns = 0
    /\ child = FALSE /\ aborted = FALSE /\ listening = FALSE
    /\ tools = 0 /\ result = "none" /\ alive = TRUE
    /\ server = "absent" /\ asked = {} /\ turn = "none"
    /\ made = 0 /\ unanswered = 0 /\ stdout = <<>> /\ more = 0
    /\ missed = FALSE /\ early = FALSE

GoOn == StartServer \/ NextLine \/ HandshakeGoesOn \/ RequestFails \/ BeginTurn \/ TurnEnds

Tracker == TrackerFails \/ \E active \in BOOLEAN : TrackerAnswers(active)

AppServer ==
    \/ \E r \in Requests, good \in BOOLEAN : Answers(r, good)
    \/ \E kind \in Calls : Calling(kind)
    \/ \E good \in BOOLEAN : EndsTurn(good)
    \/ Exits

AttemptNext ==
    \/ GoOn \/ RenderPrompt \/ Tracker
    \/ ReadTimeout \/ TurnTimeout \/ Abort
    \/ ReadChunk \/ ToolAnswers \/ ExitSeen
    \/ AppServer

AttemptSpec == AttemptInit /\ [][AttemptNext]_attemptVars

\* Chunks are read and promises go on, timers fire, calls of the tracker have a timeout; the
\* server owes nothing.
Fairness ==
    /\ WF_attemptVars(GoOn) /\ WF_attemptVars(RenderPrompt) /\ WF_attemptVars(Tracker)
    /\ WF_attemptVars(ReadTimeout) /\ WF_attemptVars(TurnTimeout)

AttemptFairSpec == AttemptSpec /\ Fairness

-----------------------------------------------------------------------------
(* Properties *)

\* The status told is what happened: a success means that the server completed
\* its last turn, a cancellation that the attempt was aborted, and a turn is
\* called timed out only when its end was not heard: not written, not read,
\* or read in one chunk with the answer to turn/start, before turnFinished
\* was set (docs/specs/SPEC.md:988-992).
OutcomeIsTrue ==
    /\ result = "succeeded" => turn = "completed"
    /\ result = "cancelled" => aborted
    /\ result = "timed_out" /\ turn # "open" =>
            missed \/ \E n \in DOMAIN stdout : stdout[n].kind = "end"

\* No server goes on in the workspace when its attempt has ended, nor after an
\* abort unless that came before the thread had started.
ServerIsGone ==
    alive /\ (pc = "ended" \/ (aborted /\ ~early)) => server # "up"

\* The service dies of an attempt only when the server could not be started,
\* had died unnoticed when it was written to, or had asked for what could not
\* be answered any more, a request for input included.
SchedulerSurvives ==
    ~alive => server \in {"absent", "exited"} \/ (~child /\ unanswered > 0)

\* What an attempt has begun ends with it.
AttemptIsContained == ServerIsGone /\ SchedulerSurvives

\* Every attempt ends, whatever the server does, within the time of its turns
\* and requests (docs/specs/SPEC.md:991), unless the service died.
AttemptEnds == <>(pc = "ended" \/ ~alive)
=============================================================================
