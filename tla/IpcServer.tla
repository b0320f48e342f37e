----------------------------- MODULE IpcServer -----------------------------
(***************************************************************************)
(* IpcServer (libs/sony-core/src/IpcServer.cpp) over DeviceService: the    *)
(* server thread keeps the client connections, the executor thread runs    *)
(* their requests one at a time and looks after the service in between,    *)
(* and main() of sonyd.cpp stops both.  A connection carries one request,  *)
(* so a job is named by its connection, and the name of a connection is    *)
(* free again when its client and its job are gone.  Time is counted as    *)
(* DeviceService counts it.                                                *)
(***************************************************************************)
EXTENDS Integers, Sequences, FiniteSets, Functions

CONSTANTS
    Conns,          \* connections, by name
    NoConn,         \* the executor has no job
    MaxClients,     \* connections kept at a time (16)
    MaxJobs,        \* jobs queued at a time (16)
    RequestTime,    \* from a connection to its request (5 s)
    AnswerTime,     \* from the request to its answer (30 s)
    SendTime,       \* from the answer to its last byte (5 s)
    IdleTime        \* the link is released after (15 s)

CONSTANTS Addresses, NoAddress, MaxRetry, SettingsFirst, SettingsEvery,
          BatteryEvery, MaxFailures

ASSUME ServerAssumption ==
    /\ NoConn \notin Conns /\ IsFiniteSet(Conns)
    /\ MaxClients \in Nat \ {0} /\ MaxJobs \in Nat \ {0}
    /\ RequestTime \in Nat /\ AnswerTime \in Nat /\ SendTime \in Nat
    /\ IdleTime \in Nat
    /\ NoAddress \notin Addresses
    /\ MaxRetry \in Nat \ {0}
    /\ SettingsFirst \in Nat /\ SettingsEvery \in Nat /\ BatteryEvery \in Nat
    /\ MaxFailures \in Nat

VARIABLES
    \* DeviceService
    made, automatic, wasConnected, retrySeconds, target, selected,
    connectionState, lastError, attemptIn, settingsIn, batteryIn, link,
    discovery, reachable, failures, rest,
    \* the clients of _serverLoop(): where each is, and the time left until its
    \* deadline
    phase, left,
    \* the jobs: what each asks for, those of clients that are gone, those
    \* whose result has a value that the client has not taken, and _jobs
    request, cancelled, answered, queue,
    \* the executor: where it is, its job, and the time since _lastActivity
    executor, job, quiet,
    \* the threads: _running, whether _serverLoop() runs, and main()
    running, server, owner,
    \* history: the time since a request was answered, and whether the link
    \* was lost, or could not be had, since the executor took its job
    since, excused

Service == INSTANCE DeviceService

deviceVars == <<made, automatic, wasConnected, retrySeconds, target, selected,
                connectionState, lastError, attemptIn, settingsIn, batteryIn,
                link, discovery, reachable, failures, rest>>
clientVars == <<phase, left>>
jobVars    == <<request, cancelled, answered, queue>>
ownerVars  == <<running, server, owner>>
serverVars == <<clientVars, jobVars>>
runVars    == <<job, quiet, since, excused>>
vars       == <<deviceVars, serverVars, executor, runVars, ownerVars>>

\* What a request asks for: nothing of the device (devices, status, a JSON
\* snapshot, what is refused), something of it, the same as JSON, which
\* connects nothing, and JSON's connect and disconnect.
Requests == {"status", "device", "json", "connect", "disconnect"}

Init ==
    /\ Service!Init
    /\ phase = [c \in Conns |-> "closed"] /\ left = [c \in Conns |-> 0]
    /\ request = [c \in Conns |-> "none"]
    /\ cancelled = {} /\ answered = {} /\ queue = <<>>
    /\ executor = "waiting" /\ job = NoConn /\ quiet = 0
    /\ running = TRUE /\ server = "on" /\ owner = "serving"
    /\ since = 0 /\ excused = FALSE

-----------------------------------------------------------------------------
(* _serverLoop().                                                          *)

IsOpen(c) == phase[c] \in {"reading", "asked", "answering"}

OpenClients == {c \in Conns : IsOpen(c)}

Closed(C) ==
    /\ phase' = [c \in Conns |-> IF c \in C THEN "closed" ELSE phase[c]]
    /\ left' = [c \in Conns |-> IF c \in C THEN 0 ELSE left[c]]
    /\ cancelled' = cancelled \cup {c \in C \ answered : phase[c] = "asked"}
    /\ answered' = answered \ C

\* Neither a client nor a job has this name.
IsFree(c) == phase[c] = "closed" /\ request[c] = "none"

\* A client connects; one too many is closed at once.
Accept(c) ==
    /\ server = "on" /\ IsFree(c)
    /\ Cardinality(OpenClients) < MaxClients
    /\ phase' = [phase EXCEPT ![c] = "reading"]
    /\ left' = [left EXCEPT ![c] = RequestTime]
    /\ UNCHANGED <<deviceVars, jobVars, executor, runVars, ownerVars>>

\* Mutant: a job that finds the queue full gets no answer.
EnqueueSilent(c, r) ==
    IF Len(queue) >= MaxJobs
    THEN UNCHANGED <<answered, queue, request>>
    ELSE /\ queue' = Append(queue, c)
         /\ request' = [request EXCEPT ![c] = r]
         /\ UNCHANGED answered

\* Mutant: one job too many.
EnqueueOneMore(c, r) ==
    IF Len(queue) > MaxJobs
    THEN answered' = answered \cup {c} /\ UNCHANGED <<queue, request>>
    ELSE /\ queue' = Append(queue, c)
         /\ request' = [request EXCEPT ![c] = r]
         /\ UNCHANGED answered

\* The request becomes a job, answered at once if there are too many.
Enqueue(c, r) ==
    IF Len(queue) >= MaxJobs
    THEN answered' = answered \cup {c} /\ UNCHANGED <<queue, request>>
    ELSE /\ queue' = Append(queue, c)
         /\ request' = [request EXCEPT ![c] = r]
         /\ UNCHANGED answered

\* The last byte of a request is read.
ReadRequest(c, r) ==
    /\ server = "on" /\ phase[c] = "reading" /\ left[c] > 0
    /\ phase' = [phase EXCEPT ![c] = "asked"]
    /\ left' = [left EXCEPT ![c] = AnswerTime]
    /\ Enqueue(c, r)
    /\ UNCHANGED <<deviceVars, cancelled, executor, runVars, ownerVars>>

\* The job's answer is taken, and sent from now on.
TakeAnswer(c) ==
    /\ server = "on" /\ phase[c] = "asked" /\ left[c] > 0
    /\ c \in answered
    /\ phase' = [phase EXCEPT ![c] = "answering"]
    /\ left' = [left EXCEPT ![c] = SendTime]
    /\ UNCHANGED <<deviceVars, jobVars, executor, runVars, ownerVars>>

\* The answer's last byte is sent.
FinishSending(c) ==
    /\ server = "on" /\ phase[c] = "answering" /\ left[c] > 0
    /\ Closed({c})
    /\ UNCHANGED <<deviceVars, request, queue, executor, runVars, ownerVars>>

\* Mutant: a client that waits for its answer has no deadline.
ExpiredReading(c) == phase[c] # "asked" /\ left[c] = 0

Expired(c) == left[c] = 0

CloseLate(c) ==
    /\ server = "on" /\ IsOpen(c) /\ Expired(c)
    /\ Closed({c})
    /\ UNCHANGED <<deviceVars, request, queue, executor, runVars, ownerVars>>

\* The client hangs up, or sends what is not one request.
HangUp(c) ==
    /\ server = "on" /\ IsOpen(c)
    /\ Closed({c})
    /\ UNCHANGED <<deviceVars, request, queue, executor, runVars, ownerVars>>

\* The server thread sees that _running is false.
ServerEnds ==
    /\ server = "on" /\ ~running
    /\ server' = "off"
    /\ Closed(OpenClients)
    /\ UNCHANGED <<deviceVars, request, queue, executor, runVars, running,
                   owner>>

ServerStep ==
    \/ \E c \in Conns :
          \/ Accept(c) \/ TakeAnswer(c) \/ FinishSending(c) \/ CloseLate(c)
          \/ HangUp(c)
          \/ \E r \in Requests : ReadRequest(c, r)
    \/ ServerEnds

-----------------------------------------------------------------------------
(* _executeLoop().                                                         *)

TakeJob ==
    /\ executor = "waiting" /\ running /\ queue # <<>>
    /\ executor' = "taken" /\ job' = Head(queue) /\ queue' = Tail(queue)
    /\ excused' = FALSE
    /\ UNCHANGED <<deviceVars, clientVars, request, cancelled, answered, quiet,
                   since, ownerVars>>

\* Mutant: every round of the loop is activity.
TimesOutActive ==
    /\ executor = "waiting" /\ running /\ queue = <<>>
    /\ executor' = "deciding" /\ quiet' = 0
    /\ UNCHANGED <<deviceVars, serverVars, job, since, excused, ownerVars>>

\* 100 ms without a job.
TimesOut ==
    /\ executor = "waiting" /\ running /\ queue = <<>>
    /\ executor' = "deciding"
    /\ UNCHANGED <<deviceVars, serverVars, runVars, ownerVars>>

\* Mutant: the jobs that are left are to be executed first.
ExecutorEndsEmpty ==
    /\ executor = "waiting" /\ ~running /\ queue = <<>>
    /\ executor' = "off"
    /\ UNCHANGED <<deviceVars, serverVars, runVars, ownerVars>>

ExecutorEnds ==
    /\ executor = "waiting" /\ ~running
    /\ executor' = "off"
    /\ UNCHANGED <<deviceVars, serverVars, runVars, ownerVars>>

\* Mutant: what the service last recorded stands for the link.
NeedsLinkRecorded(c) == request[c] = "device" /\ connectionState # "connected"

NeedsLink(c) == request[c] = "device" /\ ~Service!IsConnected

IsWanted(c) == c \notin cancelled

\* The executor lets go of its job.
Dropped ==
    /\ job' = NoConn
    /\ request' = [request EXCEPT ![job] = "none"]
    /\ cancelled' = cancelled \ {job}
    /\ UNCHANGED <<clientVars, answered, queue>>

Skip ==
    /\ executor = "taken" /\ ~IsWanted(job)
    /\ executor' = "deciding" /\ Dropped
    /\ UNCHANGED <<deviceVars, quiet, since, excused, ownerVars>>

Begin ==
    /\ executor = "taken" /\ IsWanted(job)
    /\ executor' = IF NeedsLink(job) THEN "connecting" ELSE "executing"
    /\ UNCHANGED <<deviceVars, serverVars, runVars, ownerVars>>

\* The job's result is set; it may be that nobody takes it.
Answer == answered' = answered \cup ({job} \ cancelled) /\ since' = 0

\* _connectOnDemand() finds a device and connects it, or fails to; finds
\* none; or throws, which is the request's answer.
ConnectOnDemand ==
    /\ executor = "connecting"
    /\ \/ /\ discovery = "all" /\ executor' = "executing"
          /\ \E a \in Addresses : Service!Connect(a)
          /\ excused' = (excused \/ ~Service!IsConnected')
          /\ UNCHANGED <<answered, since>>
       \/ /\ discovery = "none" /\ executor' = "executing"
          /\ excused' = TRUE
          /\ UNCHANGED <<deviceVars, answered, since>>
       \/ /\ discovery = "throws" /\ executor' = "answered"
          /\ Answer
          /\ UNCHANGED <<deviceVars, excused>>
    /\ UNCHANGED <<clientVars, request, cancelled, queue, job, quiet, ownerVars>>

\* executeLine(): only JSON's connect and disconnect change the service.
Execute ==
    /\ executor = "executing"
    /\ executor' = "answered"
    /\ \/ request[job] = "connect" /\ \E a \in Addresses : Service!Connect(a)
       \/ request[job] = "disconnect" /\ Service!Disconnect
       \/ /\ request[job] \in {"status", "device", "json"}
          /\ UNCHANGED deviceVars
    /\ Answer
    /\ UNCHANGED <<clientVars, request, cancelled, queue, job, quiet, excused,
                   ownerVars>>

\* Mutant: an answer is no activity.
RecordNothing ==
    /\ executor = "answered"
    /\ executor' = "deciding" /\ Dropped
    /\ UNCHANGED <<deviceVars, quiet, since, excused, ownerVars>>

\* Activity is counted from the answer.
Record ==
    /\ executor = "answered"
    /\ executor' = "deciding" /\ Dropped /\ quiet' = 0
    /\ UNCHANGED <<deviceVars, since, excused, ownerVars>>

\* The service is looked after when no job waits.
Decide ==
    /\ executor = "deciding"
    /\ executor' = IF queue = <<>> /\ running THEN "upkeep" ELSE "waiting"
    /\ UNCHANGED <<deviceVars, serverVars, runVars, ownerVars>>

IsIdle == Service!IsConnected /\ quiet > IdleTime

\* tick() has nothing to do, or not yet.
TickReturns ==
    /\ ~Service!IsConnected /\ (~automatic \/ ~Service!Due)
    /\ UNCHANGED deviceVars

\* The link is released after a time without requests; else tick().
Upkeep ==
    /\ executor = "upkeep" /\ executor' = "waiting"
    /\ IF IsIdle THEN Service!Disconnect ELSE Service!Tick \/ TickReturns
    /\ UNCHANGED <<serverVars, runVars, ownerVars>>

ExecutorStep ==
    \/ TakeJob \/ TimesOut \/ ExecutorEnds \/ Skip \/ Begin \/ ConnectOnDemand
    \/ Execute \/ Record \/ Decide \/ Upkeep

-----------------------------------------------------------------------------
(* main(): SIGINT or SIGTERM, stop(), and the service's destruction.       *)

Stop ==
    /\ owner = "serving" /\ owner' = "joining" /\ running' = FALSE
    /\ UNCHANGED <<deviceVars, serverVars, executor, runVars, server>>

Stopped ==
    /\ owner = "joining" /\ server = "off" /\ executor = "off"
    /\ owner' = "stopped" /\ queue' = <<>> /\ cancelled' = {}
    /\ request' = [c \in Conns |-> "none"]
    /\ UNCHANGED <<deviceVars, clientVars, answered, executor, runVars, running,
                   server>>

Destroy ==
    /\ owner = "stopped" /\ owner' = "gone"
    /\ Service!Disconnect
    /\ UNCHANGED <<serverVars, executor, runVars, running, server>>

OwnerStep == Stop \/ Stopped \/ Destroy

-----------------------------------------------------------------------------
(* The world (external), as DeviceService has it.                          *)

Elapse ==
    /\ Service!Elapse
    /\ left' = [c \in Conns |-> Service!Less(left[c])]
    /\ quiet' = Service!AtMost(IdleTime + 1, quiet + 1)
    /\ since' = Service!AtMost(IdleTime + 1, since + 1)
    /\ UNCHANGED <<phase, jobVars, executor, job, excused, ownerVars>>

LinkLost ==
    /\ Service!LinkLost
    /\ excused' = TRUE
    /\ UNCHANGED <<serverVars, executor, job, quiet, since, ownerVars>>

WorldChanges ==
    /\ Service!WorldChanges
    /\ UNCHANGED <<serverVars, executor, runVars, ownerVars>>

Next ==
    \/ ServerStep \/ ExecutorStep \/ OwnerStep
    \/ Elapse \/ LinkLost \/ WorldChanges

Spec == Init /\ [][Next]_vars

\* Both threads run, time passes, and a client that is due to be closed, or
\* whose answer is there, is visited.
FairSpec ==
    /\ Spec
    /\ WF_vars(ExecutorStep) /\ WF_vars(Elapse)
    /\ WF_vars(ServerEnds) /\ WF_vars(Stopped \/ Destroy)
    /\ \A c \in Conns : WF_vars(TakeAnswer(c)) /\ WF_vars(CloseLate(c))

-----------------------------------------------------------------------------
\* The type of every variable.
TypeOK ==
    /\ Service!TypeOK
    /\ phase \in [Conns -> {"closed", "reading", "asked", "answering"}]
    /\ request \in [Conns -> Requests \cup {"none"}]
    /\ left \in [Conns -> Nat]
    /\ cancelled \subseteq Conns /\ answered \subseteq Conns
    /\ queue \in Seq(Conns) /\ Len(queue) <= MaxJobs
    /\ executor \in {"waiting", "taken", "connecting", "executing", "answered",
                     "deciding", "upkeep", "off"}
    /\ job \in Conns \cup {NoConn}
    /\ quiet \in 0 .. IdleTime + 1 /\ since \in 0 .. IdleTime + 1
    /\ running \in BOOLEAN /\ server \in {"on", "off"}
    /\ owner \in {"serving", "joining", "stopped", "gone"}
    /\ excused \in BOOLEAN

\* A client that waits for an answer is not forgotten: its job is queued, in
\* the executor's hands, or answered already.
NoRequestForgotten ==
    \A c \in Conns : phase[c] = "asked" =>
        \/ c \in answered \cup Range(queue)
        \/ job = c /\ executor \in {"taken", "connecting", "executing"}

\* A command is told that no device is connected only when the link was lost,
\* or could not be had, while the executor was at it: never because the
\* executor released an idle link under it.
RefusedForAReason ==
    executor = "executing" /\ request[job] = "device" /\ ~Service!IsConnected
    => excused

\* The link is kept for IdleTime after an answer, however long the command
\* took.
AnswersKeepLink ==
    [][executor = "upkeep" /\ link = "live" /\ link' = "closed"
       => since > IdleTime]_vars

\* No client is kept for ever, whether or not it reads or writes.
ClientsLeave == \A c \in Conns : IsOpen(c) ~> ~IsOpen(c)

\* When the commands cease, the link does not stay: headphones that nobody
\* uses are released for others.
LinkReleased == <>[](job = NoConn) => []<>(link # "live")

\* stop() ends both threads, and main() closes the link.
StopEnds == ~running ~> owner = "gone" /\ link = "closed"

\* sonyd connects to the headphones only when a command needs it: not on its
\* own, at any rate, when no command was answered for IdleTime and no link was
\* held that might have been lost just now.
OnDemandOnly ==
    [][link # "live" /\ link' = "live"
       => job # NoConn \/ since <= IdleTime \/ wasConnected]_vars
=============================================================================
