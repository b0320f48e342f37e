----------------------------- MODULE SonyDevice -----------------------------
(***************************************************************************)
(* SonyDevice (libs/sony-core/src/SonyDevice.cpp): what is known of the    *)
(* headphones' settings, written by the executor, which refreshes and sets *)
(* them, and by the session's reader, which hears of their changes.        *)
(*                                                                         *)
(* The session is the one of module Session, seen from above: one call at  *)
(* a time, one reader, frames delivered once and in order, late replies    *)
(* buffered.  A step is one critical section of _stateMutex, one request   *)
(* or its end, or one join of the reader.                                  *)
(***************************************************************************)
EXTENDS Integers, SequencesExt

CONSTANTS
    Devices,        \* headphones, by address
    V2Devices,      \* those of the second generation
    Features,       \* what is cached of them
    Battery,        \* the feature whose V2 request switches V1 devices off
    NoiseControl,   \* the feature V1's initDevice() asks for
    Handshake,      \* what V2's asks for, which is no feature
    Supports,       \* the capabilities in each device's profile
    Heard,          \* features of each device whose frames can be parsed
    Settable,       \* features with a setter ...
    Checked,        \* ... of which those that test the capability first,
    V2Only,         \* and those the first generation does not have
    Cycle,          \* the features of refreshSettingsStep, in order
    AtConnect,      \* those of refreshAll, in order
    Values,         \* what each feature may be
    MaxBuffered,    \* capacity of the session's _unmatchedFrames
    None,           \* no device, feature or value
    MaxConnects,    \* bound: connections opened
    MaxChanges,     \* bound: settings changed on the headphones
    MaxSets,        \* bound: settings changed by commands
    MaxTimeouts,    \* bound: requests and commands that time out
    MaxInFlight     \* bound: frames on their way to the host

\* What a client may call the device it connects to: a model, or nothing.
Names == Devices \cup {None}

AllValues == UNION {Values[f] : f \in Features}
Settings == {s \in [Features -> AllValues] :
                \A f \in Features : s[f] \in Values[f]}

ASSUME DeviceAssumption ==
    /\ V2Devices \subseteq Devices /\ None \notin Devices
    /\ None \notin Features \cup AllValues \cup {Handshake}
    /\ Handshake \notin Features
    /\ Battery \in Features /\ NoiseControl \in Features
    /\ Supports \in [Devices -> SUBSET Features]
    /\ Heard \in [Devices -> SUBSET Features] /\ Checked \subseteq Settable
    /\ Settable \subseteq Features \ {Battery} /\ V2Only \subseteq Features
    /\ \A d \in Devices \ V2Devices : Supports[d] \cap V2Only = {}
    /\ Cycle \in Seq(Features) /\ Cycle # <<>> /\ AtConnect \in Seq(Features)
    /\ MaxBuffered \in Nat \ {0} /\ MaxInFlight \in Nat \ {0}
    /\ MaxConnects \in Nat /\ MaxChanges \in Nat /\ MaxSets \in Nat
    /\ MaxTimeouts \in Nat

VARIABLES
    \* SonyDevice: the version and the capabilities of the profile, what is
    \* known of each feature, and the place in the cycle of refreshes
    version, capabilities, known, availability, refreshStep,
    \* the session: whether there is one, _running, the request that is
    \* pending and its reply, _hasAck, _unmatchedFrames, the reader and the
    \* frame it notifies of
    made, running, pending, reply, hasAck, unmatched, reader, heard,
    \* the executor: where it is, the device to connect to, the requests it
    \* has yet to make, the one it makes, and the reading it gets
    executor, goal, todo, request, value,
    \* the transport, and frames on their way to the host
    link, toHost,
    \* the headphones at the other end, their settings, those switched off
    peer, setting, off,
    \* history: connections opened, the name the last was opened under and
    \* whether the link is still due to it; changes, commands and timeouts
    conn, called, held, changes, sets, timeouts

profileVars == <<version, capabilities>>
cacheVars   == <<known, availability>>
stateVars   == <<cacheVars, refreshStep>>
callVars    == <<pending, reply, hasAck>>
sessionVars == <<made, running, callVars, unmatched, reader, heard>>
jobVars     == <<goal, todo, request, value>>
linkVars    == <<link, toHost>>
peerVars    == <<peer, setting, off>>
countVars   == <<changes, sets, timeouts>>
histVars    == <<conn, called, held, countVars>>
vars        == <<profileVars, stateVars, sessionVars, executor, jobVars,
                 linkVars, peerVars, histVars>>

-----------------------------------------------------------------------------
(* Requests, readings and frames.  A request is kept when its answer, or   *)
(* its failure, is recorded.                                               *)

Request(f, keep) == [feature |-> f, keep |-> keep]
NoRequest == Request(None, FALSE)

\* initDevice()
InitRequest(v) ==
    Request(IF v = "V1" THEN NoiseControl ELSE Handshake, FALSE)

\* A value and the connection it came from.
Reading(v, c) == [value |-> v, conn |-> c]
NoReading == Reading(None, 0)

Frame(type, f, v) == [type |-> type, feature |-> f, value |-> v, conn |-> conn]
AckFrame == Frame("ack", None, None)
NoFrame == [type |-> "none"]

IsConnected == running /\ link # "closed"

Init ==
    /\ version = "V1" /\ capabilities = {}
    /\ known = [f \in Features |-> NoReading]
    /\ availability = [f \in Features |-> "unknown"] /\ refreshStep = 0
    /\ made = FALSE /\ running = FALSE
    /\ pending = None /\ reply = NoFrame /\ hasAck = FALSE
    /\ unmatched = <<>> /\ reader = "none" /\ heard = NoFrame
    /\ executor = "idle" /\ goal = None /\ todo = <<>>
    /\ request = NoRequest /\ value = NoReading
    /\ link = "closed" /\ toHost = <<>>
    /\ peer = None /\ setting \in Settings /\ off = {}
    /\ conn = 0 /\ called = None /\ held = FALSE
    /\ changes = 0 /\ sets = 0 /\ timeouts = 0

-----------------------------------------------------------------------------
(* connect() and disconnect(), on the executor's thread.                   *)

\* Mutant: the reader is detached.
ReaderJoinedNever == TRUE

\* A thread can be joined when it has ended, or was never started.
ReaderJoined == reader \in {"none", "ended"}

\* The session's disconnect(), once _running is cleared: the reader is joined
\* and the transport closed.
SessionEnds ==
    /\ ReaderJoined
    /\ reader' = IF reader = "ended" THEN "none" ELSE reader
    /\ running' = FALSE
    /\ link' = "closed" /\ toHost' = <<>> /\ held' = FALSE
    /\ unmatched' = <<>> /\ pending' = None /\ reply' = NoFrame
    /\ hasAck' = FALSE

\* The name comes from whoever asks, as the address does: it may be that of
\* another model, or none.
Connect(d, name) ==
    /\ executor = "idle" /\ conn < MaxConnects
    /\ goal' = [device |-> d, name |-> name]
    /\ executor' = IF IsConnected THEN "stopping" ELSE "resolving"
    /\ UNCHANGED <<profileVars, stateVars, sessionVars, todo, request, value,
                   linkVars, peerVars, histVars>>

Disconnect ==
    /\ executor = "idle" /\ executor' = "stopping"
    /\ UNCHANGED <<profileVars, stateVars, sessionVars, jobVars, linkVars,
                   peerVars, histVars>>

\* disconnect(): _running is cleared ...
Stop ==
    /\ executor = "stopping" /\ executor' = "joining"
    /\ running' = FALSE
    /\ UNCHANGED <<profileVars, stateVars, made, callVars, unmatched, reader,
                   heard, jobVars, linkVars, peerVars, histVars>>

\* ... the session ended ...
Join ==
    /\ executor = "joining" /\ executor' = "marking"
    /\ SessionEnds
    /\ UNCHANGED <<profileVars, stateVars, made, heard, jobVars, peerVars,
                   conn, called, countVars>>

\* ... and what was known is known to be old.
MarkStale ==
    /\ executor = "marking"
    /\ executor' = IF goal = None THEN "idle" ELSE "resolving"
    /\ availability' = [f \in Features |->
          IF availability[f] = "valid" THEN "stale" ELSE availability[f]]
    /\ UNCHANGED <<profileVars, known, refreshStep, sessionVars, jobVars,
                   linkVars, peerVars, histVars>>

NameProfile(name) ==
    [version |-> IF name \in V2Devices THEN "V2" ELSE "V1",
     capabilities |-> Supports[name]]

\* Mutant: the profile is only looked up by a name that is given.
ProfileNamed(g) ==
    IF g.name # None THEN NameProfile(g.name)
    ELSE [version |-> version, capabilities |-> capabilities]

\* The profile of the name given to connect(), whichever device has the
\* address: the fallback when there is no name.
Profile(g) ==
    IF g.name # None THEN NameProfile(g.name)
    ELSE [version |-> "V1", capabilities |-> {}]

\* connect(): the profile is taken, and the old session stopped ...
Resolve ==
    /\ executor = "resolving" /\ executor' = "resetting"
    /\ version' = Profile(goal).version
    /\ capabilities' = Profile(goal).capabilities
    /\ running' = FALSE
    /\ UNCHANGED <<stateVars, made, callVars, unmatched, reader, heard, jobVars,
                   linkVars, peerVars, histVars>>

\* ... and destroyed ...
Reset ==
    /\ executor = "resetting" /\ executor' = "clearing"
    /\ IF made THEN SessionEnds
               ELSE UNCHANGED <<running, reader, unmatched, callVars, linkVars,
                                held>>
    /\ made' = FALSE
    /\ UNCHANGED <<profileVars, stateVars, heard, jobVars, peerVars, conn,
                   called, countVars>>

\* ... nothing is known of the new device ...
Clear ==
    /\ executor = "clearing" /\ executor' = "opening"
    /\ known' = [f \in Features |-> NoReading]
    /\ availability' = [f \in Features |->
          IF f \in capabilities THEN "unknown" ELSE "unsupported"]
    /\ refreshStep' = 0
    /\ UNCHANGED <<profileVars, sessionVars, jobVars, linkVars, peerVars,
                   histVars>>

\* ... the transport is opened, or throws ...
Open ==
    /\ executor = "opening" /\ executor' = "starting"
    /\ link' = "up" /\ toHost' = <<>>
    /\ peer' = goal.device /\ goal.device \notin off
    /\ setting' \in Settings
    /\ conn' = conn + 1 /\ called' = goal.name /\ held' = TRUE
    /\ UNCHANGED <<profileVars, stateVars, sessionVars, jobVars, off,
                   countVars>>

OpenFails ==
    /\ executor = "opening" /\ executor' = "idle" /\ goal' = None
    /\ UNCHANGED <<profileVars, stateVars, sessionVars, todo, request, value,
                   linkVars, peerVars, histVars>>

\* ... and _setupSession() makes a session, which destroys one there might
\* be, and starts it, unless the transport is closed again.  initDevice() and
\* refreshAll() follow.
Start ==
    /\ executor = "starting" /\ goal' = None
    /\ made' = TRUE /\ unmatched' = <<>> /\ pending' = None
    /\ reply' = NoFrame /\ hasAck' = FALSE
    /\ IF made
       THEN ReaderJoined /\ link' = "closed" /\ toHost' = <<>>
       ELSE UNCHANGED linkVars
    /\ IF link' = "closed"
       THEN /\ executor' = "idle" /\ reader' = "none"
            /\ UNCHANGED <<running, todo>>
       ELSE /\ executor' = "choosing" /\ reader' = "receiving"
            /\ running' = TRUE
            /\ todo' = <<InitRequest(version)>> \o
                       [i \in DOMAIN AtConnect |-> Request(AtConnect[i], TRUE)]
    /\ UNCHANGED <<profileVars, stateVars, heard, request, value, peerVars,
                   histVars>>

-----------------------------------------------------------------------------
(* Requests: initDevice(), the refreshes and refreshSettingsStep().        *)

\* Mutant: what is valid is not asked for again.
WantedOnce(r) == ~r.keep \/ (r.feature \in capabilities
                             /\ availability[r.feature] # "valid")

\* A feature the profile does not have is not asked for.
Wanted(r) == ~r.keep \/ r.feature \in capabilities

\* The next request, or none.
Choose ==
    /\ executor = "choosing"
    /\ IF todo = <<>>
       THEN /\ executor' = "idle" /\ request' = NoRequest /\ UNCHANGED todo
       ELSE /\ executor' = IF Wanted(Head(todo)) THEN "asking" ELSE "choosing"
            /\ request' = Head(todo) /\ todo' = Tail(todo)
    /\ value' = NoReading
    /\ UNCHANGED <<profileVars, stateVars, sessionVars, goal, linkVars,
                   peerVars, histVars>>

\* A buffered reply to a request for f: the oldest.
Buffered(f) ==
    LET Answers(i) == unmatched[i].type = "reply" /\ unmatched[i].feature = f
    IN {i \in DOMAIN unmatched :
           Answers(i) /\ \A j \in 1 .. i - 1 : ~Answers(j)}

\* The request becomes pending, with a buffered reply if there is one, ...
Register(f) ==
    IF Buffered(f) = {}
    THEN pending' = f /\ reply' = NoFrame /\ UNCHANGED unmatched
    ELSE \E i \in Buffered(f) :
            /\ pending' = f /\ reply' = unmatched[i]
            /\ unmatched' = RemoveAt(unmatched, i)

\* The opcode of a battery inquiry switches off a device of the first
\* generation, when it is that of the second.  (external)
SwitchedOff(f) ==
    IF f = Battery /\ version = "V2" /\ peer \notin V2Devices
    THEN {peer} ELSE {}

\* Whether the headphones are spoken to in their own protocol.
Understood == version = "V2" <=> peer \in V2Devices

\* Headphones acknowledge whatever they are sent while they are on. (external)
Acks == IF peer \in off THEN <<>> ELSE <<AckFrame>>

\* What the headphones have to say to a request: they answer one that is
\* made in their protocol, of something they have.  (external)
Replies(f) ==
    Acks \o
    IF ~Understood \/ f \in Features \ Supports[peer] THEN <<>>
    ELSE <<Frame("reply", f, IF f \in Features THEN setting[f] ELSE None)>>

\* ... and is written: the headphones answer, in their own time.
Ask ==
    /\ executor = "asking" /\ IsConnected /\ link = "up"
    /\ Len(toHost) < MaxInFlight
    /\ executor' = "awaiting"
    /\ hasAck' = FALSE /\ Register(request.feature)
    /\ off' = off \cup SwitchedOff(request.feature)
    /\ toHost' = toHost \o Replies(request.feature)
    /\ UNCHANGED <<profileVars, stateVars, made, running, reader, heard,
                   jobVars, link, peer, setting, histVars>>

\* The session is down, ...
AskRefused ==
    /\ executor = "asking" /\ ~IsConnected
    /\ executor' = "failed"
    /\ UNCHANGED <<profileVars, stateVars, sessionVars, jobVars, linkVars,
                   peerVars, histVars>>

\* ... or found to be when the request is written, which stays pending.
AskFails ==
    /\ executor = "asking" /\ IsConnected /\ link = "lost"
    /\ executor' = "failed"
    /\ hasAck' = FALSE /\ Register(request.feature)
    /\ running' = FALSE
    /\ UNCHANGED <<profileVars, stateVars, made, reader, heard, jobVars,
                   linkVars, peerVars, histVars>>

\* The end of the wait for a reply: it has come, ...
Answered ==
    /\ executor = "awaiting" /\ IsConnected /\ reply # NoFrame
    /\ executor' = IF request.keep THEN "storing" ELSE "choosing"
    /\ value' = Reading(reply.value, reply.conn)
    /\ pending' = None /\ reply' = NoFrame /\ hasAck' = FALSE
    /\ UNCHANGED <<profileVars, stateVars, made, running, unmatched, reader,
                   heard, goal, todo, request, linkVars, peerVars, histVars>>

\* ... the session is over, or it is too late.
AnswerFails ==
    /\ executor = "awaiting"
    /\ \/ ~IsConnected /\ UNCHANGED timeouts
       \/ /\ IsConnected /\ reply = NoFrame
          /\ timeouts < MaxTimeouts /\ timeouts' = timeouts + 1
    /\ executor' = "failed"
    /\ pending' = None /\ reply' = NoFrame
    /\ UNCHANGED <<profileVars, stateVars, made, running, hasAck, unmatched,
                   reader, heard, jobVars, linkVars, peerVars, conn, called,
                   held, changes, sets>>

\* A value and _markSuccess, under _stateMutex.
Record(f, reading) ==
    /\ known' = [known EXCEPT ![f] = reading]
    /\ availability' = [availability EXCEPT ![f] = "valid"]

\* What was read, or set, is recorded, after whatever the reader has put
\* there in the meantime.
Store ==
    /\ executor = "storing" /\ executor' = "choosing"
    /\ Record(request.feature, value)
    /\ UNCHANGED <<profileVars, refreshStep, sessionVars, jobVars, linkVars,
                   peerVars, histVars>>

\* _markError: what was known, if anything, is known to be old.
Fail ==
    /\ executor = "failed" /\ executor' = "choosing"
    /\ availability' =
          IF ~request.keep THEN availability
          ELSE [availability EXCEPT ![request.feature] =
                   IF known[request.feature] = NoReading
                   THEN "unknown" ELSE "stale"]
    /\ UNCHANGED <<profileVars, known, refreshStep, sessionVars, jobVars,
                   linkVars, peerVars, histVars>>

\* refreshSettingsStep(), from tick().
SettingsStep ==
    /\ executor = "idle" /\ IsConnected
    /\ executor' = "choosing"
    /\ todo' = <<Request(Cycle[refreshStep + 1], TRUE)>>
    /\ refreshStep' = (refreshStep + 1) % Len(Cycle)
    /\ UNCHANGED <<profileVars, cacheVars, sessionVars, goal, request, value,
                   linkVars, peerVars, histVars>>

\* refreshBattery(), from tick().
BatteryStep ==
    /\ executor = "idle" /\ IsConnected
    /\ executor' = "choosing"
    /\ todo' = <<Request(Battery, TRUE)>>
    /\ UNCHANGED <<profileVars, stateVars, sessionVars, goal, request, value,
                   linkVars, peerVars, histVars>>

-----------------------------------------------------------------------------
(* The setters.                                                            *)

\* Other settings are refused before anything is written.
MaySet(f) == /\ made /\ IsConnected
             /\ f \in Checked => f \in capabilities
             /\ f \in V2Only => version = "V2"

\* A command, which _session->send() writes; the headphones take it, and
\* acknowledge it.
Set(f, v) ==
    /\ executor = "idle" /\ MaySet(f) /\ sets < MaxSets
    /\ link = "up" /\ Len(toHost) < MaxInFlight
    /\ executor' = "acking" /\ request' = Request(f, TRUE)
    /\ value' = Reading(v, conn) /\ hasAck' = FALSE /\ sets' = sets + 1
    /\ setting' = IF Understood THEN [setting EXCEPT ![f] = v] ELSE setting
    /\ toHost' = toHost \o Acks
    /\ UNCHANGED <<profileVars, stateVars, made, running, pending, reply,
                   unmatched, reader, heard, goal, todo, link, peer, off, conn,
                   called, held, changes, timeouts>>

\* The link is found to be lost when the command is written.
SetFails(f) ==
    /\ executor = "idle" /\ MaySet(f) /\ link = "lost"
    /\ running' = FALSE /\ hasAck' = FALSE
    /\ UNCHANGED <<profileVars, stateVars, made, pending, reply, unmatched,
                   reader, heard, executor, jobVars, linkVars, peerVars,
                   histVars>>

Acked ==
    /\ executor = "acking" /\ IsConnected /\ hasAck
    /\ executor' = "storing" /\ hasAck' = FALSE
    /\ UNCHANGED <<profileVars, stateVars, made, running, pending, reply,
                   unmatched, reader, heard, jobVars, linkVars, peerVars,
                   histVars>>

\* The exception is the command's answer; nothing is recorded.
AckFails ==
    /\ executor = "acking"
    /\ \/ ~IsConnected /\ UNCHANGED timeouts
       \/ /\ IsConnected /\ ~hasAck
          /\ timeouts < MaxTimeouts /\ timeouts' = timeouts + 1
    /\ executor' = "choosing"
    /\ UNCHANGED <<profileVars, stateVars, sessionVars, jobVars, linkVars,
                   peerVars, conn, called, held, changes, sets>>

ExecutorStep ==
    \/ Stop \/ Join \/ MarkStale \/ Resolve \/ Reset \/ Clear
    \/ Open \/ OpenFails \/ Start
    \/ Choose \/ Ask \/ AskRefused \/ AskFails \/ Answered \/ AnswerFails
    \/ Store \/ Fail \/ Acked \/ AckFails

-----------------------------------------------------------------------------
(* The session's reader.                                                   *)

\* Mutant: the buffer is not limited.
TrimNever(frames) == frames

\* _unmatchedFrames forgets its oldest frame.
Trim(frames) == IF Len(frames) > MaxBuffered THEN Tail(frames) ELSE frames

TakeAck ==
    /\ reader = "receiving" /\ link # "closed" /\ toHost # <<>>
    /\ Head(toHost).type = "ack"
    /\ hasAck' = TRUE
    /\ toHost' = Tail(toHost)
    /\ UNCHANGED <<profileVars, stateVars, made, running, pending, reply,
                   unmatched, reader, heard, executor, jobVars, link, peerVars,
                   histVars>>

\* A frame answers the pending request, or is buffered and notified of.
TakeFrame ==
    /\ reader = "receiving" /\ link # "closed" /\ toHost # <<>>
    /\ Head(toHost).type \in {"reply", "notify"}
    /\ LET frame == Head(toHost) IN
       IF /\ frame.type = "reply" /\ frame.feature = pending
          /\ reply = NoFrame
       THEN /\ reply' = frame /\ UNCHANGED <<unmatched, reader, heard>>
       ELSE /\ reader' = "notifying" /\ heard' = frame
            /\ unmatched' = Trim(Append(unmatched, frame))
            /\ UNCHANGED reply
    /\ toHost' = Tail(toHost)
    /\ UNCHANGED <<profileVars, stateVars, made, running, pending, hasAck,
                   executor, jobVars, link, peerVars, histVars>>

\* _onNotification(): what can be parsed is recorded.
Notify ==
    /\ reader = "notifying" /\ reader' = "receiving" /\ heard' = NoFrame
    /\ IF heard.feature \in Heard[peer]
       THEN Record(heard.feature, Reading(heard.value, heard.conn))
       ELSE UNCHANGED cacheVars
    /\ UNCHANGED <<profileVars, refreshStep, made, running, callVars, unmatched,
                   executor, jobVars, linkVars, peerVars, histVars>>

\* The reader sees that _running is false, or that the link is lost.
ReaderEnds ==
    /\ reader = "receiving" /\ (~running \/ link # "up")
    /\ reader' = "ended" /\ running' = FALSE
    /\ UNCHANGED <<profileVars, stateVars, made, callVars, unmatched, heard,
                   executor, jobVars, linkVars, peerVars, histVars>>

ReaderStep == TakeAck \/ TakeFrame \/ Notify \/ ReaderEnds

-----------------------------------------------------------------------------
(* The headphones and the link (external).                                 *)

\* A setting is changed on the headphones, which say so.
Change(f, v) ==
    /\ link = "up" /\ changes < MaxChanges /\ Len(toHost) < MaxInFlight
    /\ v # setting[f] /\ peer \notin off
    /\ setting' = [setting EXCEPT ![f] = v] /\ changes' = changes + 1
    /\ toHost' = Append(toHost, Frame("notify", f, v))
    /\ UNCHANGED <<profileVars, stateVars, sessionVars, executor, jobVars, link,
                   peer, off, conn, called, held, sets, timeouts>>

\* The link is lost; the transport may notice at once or when it is used.
Drop ==
    /\ link = "up" /\ link' \in {"lost", "closed"}
    /\ held' = FALSE
    /\ toHost' = IF link' = "lost" THEN toHost ELSE <<>>
    /\ UNCHANGED <<profileVars, stateVars, sessionVars, executor, jobVars,
                   peerVars, conn, called, countVars>>

Next ==
    \/ (\E d \in Devices, name \in Names : Connect(d, name)) \/ Disconnect
    \/ SettingsStep \/ BatteryStep
    \/ \E f \in Settable : SetFails(f) \/ \E v \in Values[f] : Set(f, v)
    \/ ExecutorStep \/ ReaderStep
    \/ (\E f \in Features : \E v \in Values[f] : Change(f, v)) \/ Drop

Spec == Init /\ [][Next]_vars

\* Both threads run; tick() comes round to both of its inquiries whatever
\* the commands in between.
FairSpec ==
    /\ Spec
    /\ WF_vars(ExecutorStep) /\ WF_vars(ReaderStep)
    /\ SF_vars(SettingsStep) /\ SF_vars(BatteryStep)

-----------------------------------------------------------------------------
Readings == [value: AllValues \cup {None}, conn: 0 .. MaxConnects]
Messages == {"reply", "notify", "ack"}
Frames == [type: Messages, feature: Features \cup {None, Handshake},
           value: AllValues \cup {None}, conn: 0 .. MaxConnects]
Requests == [feature: Features \cup {None, Handshake}, keep: BOOLEAN]
Goals == [device: Devices, name: Names]
Availabilities == [Features -> {"unknown", "unsupported", "valid", "stale"}]
ReaderStates == {"none", "receiving", "notifying", "ended"}
ExecutorStates ==
    {"idle", "stopping", "joining", "marking", "resolving", "resetting",
     "clearing", "opening", "starting", "choosing", "asking", "awaiting",
     "storing", "failed", "acking"}

\* The type of every variable.
TypeOK ==
    /\ version \in {"V1", "V2"} /\ capabilities \subseteq Features
    /\ known \in [Features -> Readings]
    /\ availability \in Availabilities
    /\ refreshStep \in 0 .. Len(Cycle) - 1
    /\ made \in BOOLEAN /\ running \in BOOLEAN /\ hasAck \in BOOLEAN
    /\ pending \in Features \cup {None, Handshake}
    /\ reply \in Frames \cup {NoFrame} /\ heard \in Frames \cup {NoFrame}
    /\ unmatched \in Seq(Frames) /\ Len(unmatched) <= MaxBuffered
    /\ reader \in ReaderStates /\ executor \in ExecutorStates
    /\ goal \in Goals \cup {None}
    /\ todo \in Seq(Requests) /\ request \in Requests
    /\ value \in Readings
    /\ link \in {"closed", "up", "lost"} /\ toHost \in Seq(Frames)
    /\ peer \in Devices \cup {None} /\ setting \in Settings
    /\ off \subseteq Devices /\ conn \in 0 .. MaxConnects
    /\ called \in Names /\ held \in BOOLEAN
    /\ changes \in 0 .. MaxChanges /\ sets \in 0 .. MaxSets
    /\ timeouts \in 0 .. MaxTimeouts

\* Only the name can have a device switched off.  One of the first generation
\* gets the battery inquiry of the second only if the present connection was
\* opened under the name of a model of the second: never for the version that
\* an earlier connection left behind, nor after one without a name.
OffOnlyByName == [][off' # off => called \in V2Devices]_vars

\* What is known is known of the device at the other end: no reading
\* survives into a connection that was opened after it, and none that the old
\* connection's reader still has to tell is recorded in the new one.
KnownOfPeer ==
    \A f \in Features : known[f] # NoReading => known[f].conn = conn

\* connect() does not close what it has opened: the link stays until it is
\* lost or given up.
LinkHeld == held => link = "up"

\* Availability tells what there is: a reading that is said to be valid or
\* stale exists, and none is valid once the device was disconnected.
AvailabilityTold ==
    /\ \A f \in Features :
          availability[f] \in {"valid", "stale"} <=> known[f] # NoReading
    /\ reader = "none" /\ executor = "idle" =>
          \A f \in Features : availability[f] # "valid"

\* The headphones' settings are known in the end, when they are spoken to in
\* their own protocol and have what they are asked for: a notification that was
\* overwritten by an older reading, or a reply taken for a later one, is made
\* good by the refreshes that follow, when changes and timeouts cease.
Converges ==
    \A f \in Features :
        <>[](/\ IsConnected /\ Understood
             /\ f \in capabilities \cap Supports[peer])
        => <>[](known[f].value = setting[f])
=============================================================================
