------------------------------ MODULE Session ------------------------------
(***************************************************************************)
(* SonyProtocolSession (libs/sony-protocol/src/SonyProtocolSession.cpp):   *)
(* one reader thread, the threads that call send() and                     *)
(* sendAndAwaitResponse(), the thread that connects and disconnects, the   *)
(* link, and the headphones at its other end.                              *)
(*                                                                         *)
(* A step is what a thread does between two points where another thread    *)
(* can be seen: one critical section of _sessionMtx, one atomic access to  *)
(* _running or _sequence, one transport call.  A caller that has evaluated *)
(* its wait predicate still owns _sessionMtx ("checked", "passed"), since  *)
(* _writeFrame and the reader change _running without that mutex.          *)
(* A frame is an abstract record: the byte stream is the parser's matter.  *)
(***************************************************************************)
EXTENDS Integers, SequencesExt

CONSTANTS
    Callers,        \* threads that call send() or sendAndAwaitResponse()
    Ops,            \* (opcode, subtype) pairs a request can await
    PushOps,        \* (opcode, subtype) pairs of unsolicited frames
    NoOp,           \* the call awaits no response: it is a send()
    Nobody,         \* _sendMtx is free
    Sequences,      \* numbers given to setSequenceNumber()
    MaxUnmatched,   \* capacity of _unmatchedFrames (32 in the code)
    MaxCalls,       \* bound: calls made
    MaxPushes,      \* bound: unsolicited frames the device originates
    MaxLost,        \* bound: frames corrupted on the link and dropped
    MaxConnects,    \* bound: connections opened
    MaxInFlight,    \* bound: frames on the link, one way
    OrderlyOwner,   \* connect() is only called after disconnect(), and not
                    \* during a call
    WritesTimeOut   \* ITransport::send may throw Timeout

ASSUME NumberAssumption ==
    /\ MaxUnmatched \in Nat \ {0}
    /\ MaxCalls \in Nat /\ MaxPushes \in Nat /\ MaxLost \in Nat
    /\ MaxConnects \in Nat /\ MaxInFlight \in Nat \ {0}
    /\ Sequences \subseteq 0 .. 253

ASSUME NameAssumption ==
    /\ NoOp \notin Ops \cup PushOps
    /\ Nobody \notin Callers
    /\ OrderlyOwner \in BOOLEAN /\ WritesTimeOut \in BOOLEAN

VARIABLES
    \* the session's members
    running, sequence, hasAck, pendingRequest, unmatchedFrames,
    lastSeenDataSeq, sendMtx,
    \* the reader thread: its position and the frames it has parsed
    reader, batch,
    \* the callers: position, awaited op, call number, number loaded or drawn
    pc, op, id, seq,
    \* the owner's thread, in connect() or disconnect()
    owner, reconnect,
    \* the transport and the two directions of the link
    link, toDevice, toHost,
    \* the headphones
    device,
    \* history: what the properties speak about
    calls, conn, lost, accepted, taken, outcome, late, lastWritten

sessionVars == <<running, sequence, hasAck, pendingRequest, unmatchedFrames,
                 lastSeenDataSeq>>
frameVars   == <<pendingRequest, unmatchedFrames, lastSeenDataSeq>>
readerVars  == <<reader, batch>>
argVars     == <<op, id, seq, calls>>
callData    == <<argVars, sendMtx, outcome>>
callVars    == <<pc, callData>>
connVars    == <<reconnect, conn>>
ownerVars   == <<owner, connVars>>
deviceVars  == <<device, accepted, lost>>
linkVars    == <<link, toDevice, toHost, deviceVars>>
histVars    == <<taken, late, lastWritten>>
outside     == <<ownerVars, linkVars>>
notCaller   == <<readerVars, outside>>
notReader   == <<callVars, outside, histVars>>
notOwner    == <<readerVars, callVars, linkVars, histVars>>
notLink     == <<sessionVars, readerVars, callVars, ownerVars, histVars>>
vars        == <<notLink, linkVars>>

-----------------------------------------------------------------------------
(* Frames.  "for" is the call a device frame answers (0: none), "num" its  *)
(* rank among the data frames of connection "conn": both are ghosts.       *)

Bits  == {0, 1}
Bytes == 0 .. 255

DeviceAcks == [type: {"Ack"}, seq: Bits]
DeviceData == [type: {"Data"}, seq: Bits, op: Ops \cup PushOps,
               for: 0 .. MaxCalls, num: Nat, conn: 0 .. MaxConnects]
HostAcks   == [type: {"Ack"}, seq: Bits]
HostData   == [type: {"Data"}, seq: Bytes, op: Ops \cup {NoOp},
               id: 0 .. MaxCalls]

NoFrame == [type |-> "None"]
NoRequest == [op |-> NoOp, reply |-> NoFrame]
Request(o) == [op |-> o, reply |-> NoFrame]

HasResponse == pendingRequest.reply # NoFrame
IsConnected == running /\ link # "down"

-----------------------------------------------------------------------------
(* _sessionMtx and the condition variables.                                *)

SessionMtxFree == \A c \in Callers : pc[c] \notin {"checked", "passed"}

\* notify_all on _ackCv (waiters of send) and _responseCv (of requests).
Woken(p, cvs) ==
    [c \in Callers |->
        IF /\ p[c] = "blocked"
           /\ IF op[c] = NoOp THEN "ack" \in cvs ELSE "response" \in cvs
        THEN "wait" ELSE p[c]]
NotifyAll == pc' = Woken(pc, {"ack", "response"})

Outcome(r, i, f) == [result |-> r, id |-> i, for |-> f]
NoOutcome == Outcome("none", 0, 0)

-----------------------------------------------------------------------------
NewDevice(b) == [bit |-> b, outbox |-> <<>>, flying |-> FALSE, sent |-> 0,
                 pushes |-> 0]

Init ==
    /\ running = FALSE /\ sequence = 0 /\ hasAck = FALSE
    /\ pendingRequest = NoRequest /\ unmatchedFrames = <<>>
    /\ lastSeenDataSeq = {}
    /\ sendMtx = Nobody
    /\ reader = "none" /\ batch = <<>>
    /\ pc = [c \in Callers |-> "idle"] /\ op = [c \in Callers |-> NoOp]
    /\ id = [c \in Callers |-> 0] /\ seq = [c \in Callers |-> 0]
    /\ owner = "idle" /\ reconnect = FALSE
    /\ link = "down" /\ toDevice = <<>> /\ toHost = <<>>
    /\ device = NewDevice(0)
    /\ calls = 0 /\ conn = 0 /\ lost = 0 /\ accepted = {} /\ taken = <<>>
    /\ outcome = [c \in Callers |-> NoOutcome]
    /\ late = FALSE /\ lastWritten = {}

-----------------------------------------------------------------------------
(* send() and sendAndAwaitResponse().                                      *)

\* The connection test comes before _sendMtx: a call made while the session
\* is down throws Disconnected at once.
Call(c, o) ==
    /\ pc[c] = "idle" /\ calls < MaxCalls
    /\ calls' = calls + 1
    /\ id' = [id EXCEPT ![c] = calls + 1]
    /\ op' = [op EXCEPT ![c] = o]
    /\ IF IsConnected
       THEN /\ pc' = [pc EXCEPT ![c] = "acquire"]
            /\ outcome' = [outcome EXCEPT ![c] = NoOutcome]
       ELSE /\ outcome' = [outcome EXCEPT
                              ![c] = Outcome("disconnected", calls + 1, 0)]
            /\ UNCHANGED pc
    /\ UNCHANGED <<notCaller, sessionVars, histVars, sendMtx, seq>>

\* Mutant: the lower bound is one too high.
RunsPastLate(n) == n > 2 /\ n < 254

\* nextSequenceNumber brings a counter that ran past the bit back to it, but
\* lets 254 and 255 through.
RunsPast(n) == n > 1 /\ n < 254

\* Take _sendMtx, then nextSequenceNumber's load.
Acquire(c) ==
    /\ pc[c] = "acquire" /\ sendMtx = Nobody
    /\ sendMtx' = c
    /\ seq' = [seq EXCEPT ![c] = sequence]
    /\ pc' = [pc EXCEPT ![c] = IF RunsPast(sequence)
                               THEN "normalise" ELSE "add"]
    /\ UNCHANGED <<notCaller, sessionVars, histVars, op, id, calls, outcome>>

\* nextSequenceNumber: cur & 1 is stored, whatever the reader stored since.
Normalise(c) ==
    /\ pc[c] = "normalise"
    /\ sequence' = seq[c] % 2
    /\ pc' = [pc EXCEPT ![c] = "add"]
    /\ UNCHANGED <<notCaller, callData, histVars, frameVars, running, hasAck>>

\* nextSequenceNumber: the atomic fetch_add on a uint8.
FetchAdd(c) ==
    /\ pc[c] = "add"
    /\ seq' = [seq EXCEPT ![c] = sequence]
    /\ sequence' = (sequence + 1) % 256
    /\ pc' = [pc EXCEPT ![c] = "register"]
    /\ UNCHANGED <<notCaller, histVars, frameVars, sendMtx, op, id, calls,
                   outcome, running, hasAck>>

\* The buffered frame that answers a request for o: the oldest one.
Buffered(o) ==
    {i \in DOMAIN unmatchedFrames :
        /\ unmatchedFrames[i].op = o
        /\ \A j \in 1 .. i - 1 : unmatchedFrames[j].op # o}

\* Forget the last ACK; a request also becomes pending, answered on the
\* spot when _unmatchedFrames holds a frame of its opcode.
Register(c) ==
    /\ pc[c] = "register" /\ SessionMtxFree
    /\ hasAck' = FALSE
    /\ IF op[c] = NoOp
       THEN UNCHANGED <<pendingRequest, unmatchedFrames>>
       ELSE IF Buffered(op[c]) = {}
       THEN /\ pendingRequest' = Request(op[c])
            /\ UNCHANGED unmatchedFrames
       ELSE \E i \in Buffered(op[c]) :
               /\ pendingRequest' =
                     [op |-> op[c], reply |-> unmatchedFrames[i]]
               /\ unmatchedFrames' = RemoveAt(unmatchedFrames, i)
    /\ pc' = [pc EXCEPT ![c] = "write"]
    /\ UNCHANGED <<notCaller, callData, histVars, running, sequence,
                   lastSeenDataSeq>>

\* The call returns or throws: _sendMtx is released with its guard.
Return(c, p, result, for) ==
    /\ pc' = [p EXCEPT ![c] = "idle"]
    /\ sendMtx' = Nobody
    /\ outcome' = [outcome EXCEPT ![c] = Outcome(result, id[c], for)]

\* _writeFrame, the link is up: the frame leaves.
Write(c) ==
    /\ pc[c] = "write" /\ link = "up" /\ Len(toDevice) < MaxInFlight
    /\ toDevice' = Append(toDevice, [type |-> "Data", seq |-> seq[c],
                                     op |-> op[c], id |-> id[c]])
    /\ lastWritten' = {seq[c]}
    /\ pc' = [pc EXCEPT ![c] = "wait"]
    /\ UNCHANGED <<sessionVars, callData, ownerVars, readerVars, link, toHost,
                   device, accepted, lost, taken, late>>

\* _writeFrame: the transport says it is closed.  The exception leaves
\* _running and _pendingRequest as they are.
WriteRefused(c) ==
    /\ pc[c] = "write" /\ link = "down"
    /\ Return(c, pc, "disconnected", 0)
    /\ UNCHANGED <<notCaller, sessionVars, argVars, histVars>>

\* _writeFrame: the transport's send fails; _running is cleared first ...
WriteFails(c) ==
    /\ pc[c] = "write" /\ link = "broken"
    /\ running' = FALSE
    /\ pc' = [pc EXCEPT ![c] = "failed"]
    /\ UNCHANGED <<notCaller, callData, histVars, frameVars, sequence, hasAck>>

\* ... then both condition variables are notified, without _sessionMtx.
WriteFailed(c) ==
    /\ pc[c] = "failed"
    /\ Return(c, Woken(pc, {"ack", "response"}), "failed", 0)
    /\ UNCHANGED <<notCaller, sessionVars, argVars, histVars>>

\* _writeFrame: a Timeout of the transport leaves the session running, and
\* the request pending though its caller is gone.
WriteTimesOut(c) ==
    /\ WritesTimeOut /\ pc[c] = "write" /\ link = "up"
    /\ Return(c, pc, "timeout", 0)
    /\ late' = TRUE
    /\ UNCHANGED <<notCaller, sessionVars, argVars, taken, lastWritten>>

\* What the caller waits for, besides the end of the session.
Answered(c) == IF op[c] = NoOp THEN hasAck ELSE HasResponse

\* Evaluate the wait predicate under _sessionMtx.
Check(c) ==
    /\ pc[c] = "wait" /\ SessionMtxFree
    /\ pc' = [pc EXCEPT ![c] = IF ~IsConnected \/ Answered(c)
                               THEN "passed" ELSE "checked"]
    /\ UNCHANGED <<notCaller, sessionVars, callData, histVars>>

\* Release _sessionMtx and sleep on the condition variable.
Block(c) ==
    /\ pc[c] = "checked"
    /\ pc' = [pc EXCEPT ![c] = "blocked"]
    /\ UNCHANGED <<notCaller, sessionVars, callData, histVars>>

\* Mutant: wait() instead of wait_until().
ExpireNever(c) == FALSE

\* The deadline passes: wait_until takes _sessionMtx and tests once more.
Expire(c) ==
    /\ pc[c] = "blocked" /\ SessionMtxFree
    /\ pc' = [pc EXCEPT ![c] = "passed"]
    /\ UNCHANGED <<notCaller, sessionVars, callData, histVars>>

\* Mutant: the request is only forgotten when it succeeded or the session died.
AfterWaitKept(c) ==
    IF op[c] = NoOp \/ (IsConnected /\ ~Answered(c))
    THEN pendingRequest ELSE NoRequest

\* A request is no longer pending when its call ends, however it ends.
AfterWait(c) == IF op[c] = NoOp THEN pendingRequest ELSE NoRequest

\* After the wait, still under _sessionMtx.
Decide(c) ==
    /\ pc[c] = "passed"
    /\ IF ~IsConnected
       THEN Return(c, pc, "disconnected", 0) /\ UNCHANGED <<hasAck, late>>
       ELSE IF ~Answered(c)
       THEN Return(c, pc, "timeout", 0) /\ late' = TRUE /\ UNCHANGED hasAck
       ELSE /\ Return(c, pc, "ok",
                      IF op[c] = NoOp THEN 0 ELSE pendingRequest.reply.for)
            /\ hasAck' = FALSE /\ UNCHANGED late
    /\ pendingRequest' = AfterWait(c)
    /\ UNCHANGED <<notCaller, argVars, running, sequence, unmatchedFrames,
                   lastSeenDataSeq, taken, lastWritten>>

CallerStep(c) ==
    \/ Acquire(c) \/ Normalise(c) \/ FetchAdd(c) \/ Register(c)
    \/ Write(c) \/ WriteRefused(c) \/ WriteFails(c) \/ WriteFailed(c)
    \/ WriteTimesOut(c) \/ Check(c) \/ Block(c) \/ Decide(c)

-----------------------------------------------------------------------------
(* _readerLoop and what it calls.                                          *)

\* Mutant: while (true).
KeepsReadingAlways == TRUE

\* while (_running.load())
KeepsReading == running

Loop ==
    /\ reader = "loop"
    /\ reader' = IF KeepsReading THEN "receive" ELSE "exit"
    /\ UNCHANGED <<notReader, sessionVars, batch>>

\* receive() returns bytes holding n whole frames, which _parseStream
\* extracts before the first of them is handled.
Receive(n) ==
    /\ reader = "receive" /\ link # "down" /\ n \in 1 .. Len(toHost)
    /\ batch' = SubSeq(toHost, 1, n)
    /\ toHost' = SubSeq(toHost, n + 1, Len(toHost))
    /\ reader' = "handle"
    /\ UNCHANGED <<callVars, sessionVars, ownerVars, histVars, link, toDevice,
                   deviceVars>>

\* receive() times out: back to the loop's test.
ReceiveTimesOut ==
    /\ reader = "receive" /\ link = "up" /\ toHost = <<>>
    /\ reader' = "loop"
    /\ UNCHANGED <<notReader, sessionVars, batch>>

\* receive() fails: the loop ends.
ReceiveFails ==
    /\ reader = "receive" /\ link # "up"
    /\ reader' = "exit"
    /\ UNCHANGED <<notReader, sessionVars, batch>>

\* The next frame of the batch, or back to the loop's test.
NextFrame ==
    /\ batch' = Tail(batch)
    /\ reader' = IF Len(batch) > 1 THEN "handle" ELSE "loop"

\* Mutant: the ACK's bit is toggled once more.
AckedSequenceToggled(f) == IF f.seq <= 1 THEN 1 - f.seq ELSE sequence

\* The sequence number an ACK leaves behind.
AckedSequence(f) == IF f.seq <= 1 THEN f.seq ELSE sequence

\* An ACK: whatever frame it is for, it releases the waiting send() and sets
\* the next sequence number.
HandleAck ==
    /\ reader = "handle" /\ Head(batch).type = "Ack" /\ SessionMtxFree
    /\ hasAck' = TRUE
    /\ sequence' = AckedSequence(Head(batch))
    /\ NotifyAll
    /\ NextFrame
    /\ UNCHANGED <<outside, callData, histVars, frameVars, running>>

\* Mutants: the bit is not toggled, or counted up.
AckForSame(f) == [type |-> "Ack", seq |-> f.seq]
AckForNext(f) == [type |-> "Ack", seq |-> f.seq + 1]

\* A data frame is acknowledged with the other bit, before anything else.
AckFor(f) == [type |-> "Ack", seq |-> 1 - f.seq]

SendAck ==
    /\ reader = "handle" /\ Head(batch).type = "Data"
    /\ link = "up" /\ Len(toDevice) < MaxInFlight
    /\ toDevice' = Append(toDevice, AckFor(Head(batch)))
    /\ reader' = "acked"
    /\ UNCHANGED <<callVars, sessionVars, ownerVars, histVars, batch, link,
                   toHost, deviceVars>>

\* ... the exception of a closed transport is swallowed ...
SendAckRefused ==
    /\ reader = "handle" /\ Head(batch).type = "Data" /\ link = "down"
    /\ reader' = "acked"
    /\ UNCHANGED <<notReader, sessionVars, batch>>

\* ... and so is that of a failed one, which clears _running before it
\* notifies: the reader goes on with the frame.
SendAckFails ==
    /\ reader = "handle" /\ Head(batch).type = "Data" /\ link = "broken"
    /\ running' = FALSE
    /\ reader' = "notify"
    /\ UNCHANGED <<notReader, frameVars, batch, sequence, hasAck>>

SendAckFailed ==
    /\ reader = "notify"
    /\ NotifyAll
    /\ reader' = "acked"
    /\ UNCHANGED <<outside, sessionVars, callData, histVars, batch>>

\* Mutant: no duplicate detection.
IsDuplicateNever == FALSE

\* The duplicate test, in its own critical section: the frame before had the
\* same sequence number.
IsDuplicate == Head(batch).seq \in lastSeenDataSeq

DropDuplicate ==
    /\ reader = "acked" /\ SessionMtxFree /\ IsDuplicate
    /\ NextFrame
    /\ UNCHANGED <<notReader, sessionVars>>

AcceptFrame ==
    /\ reader = "acked" /\ SessionMtxFree /\ ~IsDuplicate
    /\ lastSeenDataSeq' = {Head(batch).seq}
    /\ taken' = IF Head(batch).conn = conn
                THEN Append(taken, Head(batch).num) ELSE taken
    /\ reader' = "fresh"
    /\ UNCHANGED <<outside, callVars, batch, running, sequence, hasAck,
                   pendingRequest, unmatchedFrames, late, lastWritten>>

\* The frame answers the pending request, if it has no answer yet and awaits
\* this opcode ...
IsAwaited == /\ pendingRequest # NoRequest /\ ~HasResponse
             /\ Head(batch).op = pendingRequest.op

MatchRequest ==
    /\ reader = "fresh" /\ SessionMtxFree /\ IsAwaited
    /\ pendingRequest' = [pendingRequest EXCEPT !.reply = Head(batch)]
    /\ pc' = Woken(pc, {"response"})
    /\ NextFrame
    /\ UNCHANGED <<outside, callData, histVars, running, sequence, hasAck,
                   unmatchedFrames, lastSeenDataSeq>>

\* The buffer is bounded.
Evict(frames) == IF Len(frames) > MaxUnmatched THEN Tail(frames) ELSE frames

\* ... and otherwise it is buffered, the oldest frame giving way ...
Buffer ==
    /\ reader = "fresh" /\ SessionMtxFree /\ ~IsAwaited
    /\ unmatchedFrames' = Evict(Append(unmatchedFrames, Head(batch)))
    /\ reader' = "dispatch"
    /\ UNCHANGED <<notReader, batch, running, sequence, hasAck,
                   pendingRequest, lastSeenDataSeq>>

\* ... and given to the notification callbacks, outside the mutex.
Dispatch ==
    /\ reader = "dispatch"
    /\ NextFrame
    /\ UNCHANGED <<notReader, sessionVars>>

\* Mutant: the reader forgets to clear _running.
ExitRunning ==
    /\ reader = "exit"
    /\ reader' = "leaving"
    /\ UNCHANGED <<notReader, sessionVars, batch>>

\* The end of the loop: _running is cleared, then the waiters are notified
\* under _sessionMtx.
Exit ==
    /\ reader = "exit"
    /\ running' = FALSE
    /\ reader' = "leaving"
    /\ UNCHANGED <<notReader, frameVars, batch, sequence, hasAck>>

\* Mutant: nobody is notified.
LeaveSilent ==
    /\ reader = "leaving" /\ SessionMtxFree
    /\ reader' = "ended"
    /\ UNCHANGED <<notReader, sessionVars, batch>>

Leave ==
    /\ reader = "leaving" /\ SessionMtxFree
    /\ NotifyAll
    /\ reader' = "ended"
    /\ UNCHANGED <<outside, sessionVars, callData, histVars, batch>>

ReaderStep ==
    \/ Loop \/ (\E n \in 1 .. MaxInFlight : Receive(n))
    \/ ReceiveTimesOut \/ ReceiveFails
    \/ HandleAck \/ SendAck \/ SendAckRefused \/ SendAckFails \/ SendAckFailed
    \/ DropDuplicate \/ AcceptFrame \/ MatchRequest \/ Buffer \/ Dispatch
    \/ Exit \/ Leave

-----------------------------------------------------------------------------
(* connect() and disconnect(), on the thread of the session's owner.       *)

\* Mutants: one member is not reset.
ClearSessionKeepsFrames ==
    /\ lastSeenDataSeq' = {}
    /\ UNCHANGED unmatchedFrames
    /\ hasAck' = FALSE
    /\ pendingRequest' = NoRequest
ClearSessionKeepsSeq ==
    /\ UNCHANGED lastSeenDataSeq
    /\ unmatchedFrames' = <<>>
    /\ hasAck' = FALSE
    /\ pendingRequest' = NoRequest

\* What connect() and disconnect() reset under _sessionMtx.
ClearSession ==
    /\ lastSeenDataSeq' = {}
    /\ unmatchedFrames' = <<>>
    /\ hasAck' = FALSE
    /\ pendingRequest' = NoRequest

\* disconnect(), or connect() on a session that is up or running:
\* _stopReader clears _running ...
StopReader(again) ==
    /\ owner = "idle"
    /\ again => /\ running /\ ~OrderlyOwner /\ conn < MaxConnects
    /\ running' = FALSE
    /\ owner' = "stopping" /\ reconnect' = again
    /\ UNCHANGED <<notOwner, frameVars, sequence, hasAck, conn>>

\* ... notifies the waiters under _sessionMtx ...
NotifyStopped ==
    /\ owner \in {"stopping", "restarting"} /\ SessionMtxFree
    /\ NotifyAll
    /\ owner' = IF owner = "stopping" THEN "joining" ELSE "rejoining"
    /\ UNCHANGED <<sessionVars, linkVars, callData, histVars, readerVars,
                   connVars>>

ReaderGone == reader \in {"none", "ended"}

\* ... and joins the reader.
Join ==
    /\ owner = "joining" /\ ReaderGone
    /\ reader' = "none"
    /\ owner' = "closing"
    /\ UNCHANGED <<callVars, sessionVars, linkVars, histVars, batch, connVars>>

\* disconnect(): the transport is closed ...
Close ==
    /\ owner = "closing"
    /\ link' = "down" /\ toDevice' = <<>> /\ toHost' = <<>>
    /\ owner' = "clearing"
    /\ UNCHANGED <<callVars, sessionVars, histVars, readerVars, connVars,
                   deviceVars>>

\* ... and the session emptied.
Clear ==
    /\ owner = "clearing" /\ SessionMtxFree
    /\ ClearSession
    /\ sequence' = 0
    /\ NotifyAll
    /\ owner' = IF reconnect THEN "opening" ELSE "idle"
    /\ reconnect' = FALSE
    /\ UNCHANGED <<linkVars, callData, histVars, readerVars, running, conn>>

\* setSequenceNumber(), on a session at rest; 254 and 255, which
\* nextSequenceNumber lets through, are left out.
SetSequence(n) ==
    /\ owner = "idle" /\ link = "down" /\ reader = "none"
    /\ \A c \in Callers : pc[c] = "idle"
    /\ sequence' = n
    /\ UNCHANGED <<notOwner, ownerVars, frameVars, running, hasAck>>

\* connect() on a session that is neither up nor running.
Connect ==
    /\ owner = "idle" /\ ~running /\ conn < MaxConnects
    /\ OrderlyOwner => /\ link = "down" /\ reader = "none"
                       /\ \A c \in Callers : pc[c] = "idle"
    /\ owner' = "opening"
    /\ UNCHANGED <<notOwner, sessionVars, connVars>>

\* connect(): the transport opens a new connection.  The headphones start
\* it with either sequence bit.
Open ==
    /\ owner = "opening"
    /\ link' = "up" /\ toDevice' = <<>> /\ toHost' = <<>>
    /\ \E b \in Bits :
          device' = [NewDevice(b) EXCEPT !.pushes = device.pushes]
    /\ conn' = conn + 1
    /\ owner' = "starting"
    /\ taken' = <<>> /\ late' = FALSE /\ lastWritten' = {}
    /\ UNCHANGED <<callVars, sessionVars, readerVars, reconnect, accepted,
                   lost>>

\* connect(): the transport throws.
OpenFails ==
    /\ owner = "opening"
    /\ owner' = "idle"
    /\ UNCHANGED <<notOwner, sessionVars, connVars>>

\* start(): refused when the transport is closed again, otherwise the
\* session is emptied, before the reader of an earlier connection is joined.
Start ==
    /\ owner = "starting"
    /\ IF link = "down"
       THEN /\ owner' = "idle"
            /\ UNCHANGED sessionVars
       ELSE /\ SessionMtxFree
            /\ ClearSession
            /\ UNCHANGED <<running, sequence>>
            /\ owner' = "restarting"
    /\ UNCHANGED <<notOwner, connVars>>

\* _startReader: after _stopReader, the new reader.
StartReader ==
    /\ owner = "rejoining" /\ ReaderGone
    /\ running' = TRUE
    /\ reader' = "loop" /\ batch' = <<>>
    /\ owner' = "idle"
    /\ UNCHANGED <<callVars, linkVars, histVars, frameVars, sequence, hasAck,
                   connVars>>

OwnerStep ==
    \/ NotifyStopped \/ Join \/ Close \/ Clear
    \/ Open \/ OpenFails \/ Start \/ StartReader

-----------------------------------------------------------------------------
(* The link and the headphones (external): a stop-and-wait sender with a    *)
(* one-bit sequence number, that acknowledges every data frame it gets and  *)
(* sends its own again until the toggled bit comes back.                    *)

\* The headphones take a data frame: they acknowledge it, and prepare the
\* reply of a request.
DeviceTakes ==
    /\ link = "up" /\ toDevice # <<>> /\ Head(toDevice).type = "Data"
    /\ LET f == Head(toDevice) IN
       /\ accepted' = accepted \cup {f.id}
       /\ toHost' = Append(toHost, [type |-> "Ack", seq |-> 1 - (f.seq % 2)])
       /\ device' = IF f.op = NoOp THEN device
                    ELSE [device EXCEPT !.outbox =
                             Append(@, [op |-> f.op, for |-> f.id])]
    /\ toDevice' = Tail(toDevice)
    /\ UNCHANGED <<notLink, link, lost>>

\* The headphones take an ACK: theirs, or one that comes too late.
DeviceAcked ==
    /\ link = "up" /\ toDevice # <<>> /\ Head(toDevice).type = "Ack"
    /\ toDevice' = Tail(toDevice)
    /\ device' = IF device.flying /\ Head(toDevice).seq = 1 - device.bit
                 THEN [device EXCEPT !.outbox = Tail(@), !.flying = FALSE,
                                     !.bit = 1 - @]
                 ELSE device
    /\ UNCHANGED <<notLink, link, toHost, accepted, lost>>

\* They send, or send again, the frame at the head of their queue.
DeviceSends ==
    /\ link = "up" /\ device.outbox # <<>> /\ Len(toHost) < MaxInFlight
    /\ LET num == IF device.flying THEN device.sent ELSE device.sent + 1 IN
       /\ device' = [device EXCEPT !.flying = TRUE, !.sent = num]
       /\ toHost' = Append(toHost,
                      [type |-> "Data", seq |-> device.bit, num |-> num,
                       op |-> Head(device.outbox).op,
                       for |-> Head(device.outbox).for, conn |-> conn])
    /\ UNCHANGED <<notLink, link, toDevice, accepted, lost>>

\* A button is pressed: an unsolicited frame.
DevicePushes ==
    /\ link = "up" /\ device.pushes < MaxPushes
    /\ \E o \in PushOps :
          device' = [device EXCEPT !.outbox = Append(@, [op |-> o, for |-> 0]),
                                   !.pushes = @ + 1]
    /\ UNCHANGED <<notLink, link, toDevice, toHost, accepted, lost>>

\* A frame arrives corrupt, and is dropped by whoever decodes it.
Corrupt ==
    /\ link = "up" /\ lost < MaxLost
    /\ \/ /\ toHost # <<>> /\ toHost' = Tail(toHost)
          /\ UNCHANGED toDevice
       \/ /\ toDevice # <<>> /\ toDevice' = Tail(toDevice)
          /\ UNCHANGED toHost
    /\ lost' = lost + 1
    /\ UNCHANGED <<notLink, link, device, accepted>>

\* The headphones go away.  The transport may notice at once ("down") or
\* only when it is next used ("broken").
Drop ==
    /\ link = "up"
    /\ \/ link' = "down" /\ toDevice' = <<>> /\ toHost' = <<>>
       \/ link' = "broken" /\ UNCHANGED <<toDevice, toHost>>
    /\ UNCHANGED <<notLink, deviceVars>>

DeviceStep == DeviceTakes \/ DeviceAcked \/ DeviceSends

-----------------------------------------------------------------------------
Next ==
    \/ \E c \in Callers : (\E o \in Ops \cup {NoOp} : Call(c, o))
                          \/ CallerStep(c) \/ Expire(c)
    \/ ReaderStep
    \/ (\E n \in Sequences : SetSequence(n))
    \/ Connect \/ (\E again \in BOOLEAN : StopReader(again)) \/ OwnerStep
    \/ DeviceStep \/ DevicePushes \/ Corrupt \/ Drop

Spec == Init /\ [][Next]_vars

\* Threads that can run do run, the headphones answer, and a frame is only
\* corrupted MaxLost times.  No deadline needs to pass.
FairSpec ==
    /\ Spec
    /\ WF_vars(ReaderStep) /\ WF_vars(OwnerStep) /\ WF_vars(DeviceStep)
    /\ \A c \in Callers : WF_vars(CallerStep(c))

-----------------------------------------------------------------------------
CallerStates == {"idle", "acquire", "normalise", "add", "register", "write",
                 "failed", "wait", "checked", "blocked", "passed"}
ReaderStates == {"none", "loop", "receive", "handle", "notify", "acked",
                 "fresh", "dispatch", "exit", "leaving", "ended"}
OwnerStates == {"idle", "stopping", "joining", "closing", "clearing",
                "opening", "starting", "restarting", "rejoining"}
Results == {"none", "ok", "timeout", "disconnected", "failed"}
Outcomes == [result: Results, id: 0 .. MaxCalls, for: 0 .. MaxCalls]
Requests == [op: Ops \cup {NoOp}, reply: DeviceData \cup {NoFrame}]
Messages == [op: Ops \cup PushOps, for: 0 .. MaxCalls]
Devices == [bit: Bits, flying: BOOLEAN, sent: Nat, pushes: Nat,
            outbox: Seq(Messages)]

\* The type of every variable.
TypeOK ==
    /\ running \in BOOLEAN /\ sequence \in Bytes /\ hasAck \in BOOLEAN
    /\ pendingRequest \in Requests
    /\ unmatchedFrames \in Seq(DeviceData)
    /\ Len(unmatchedFrames) <= MaxUnmatched
    /\ lastSeenDataSeq \in SUBSET Bits
    /\ sendMtx \in Callers \cup {Nobody}
    /\ reader \in ReaderStates /\ batch \in Seq(DeviceAcks \cup DeviceData)
    /\ pc \in [Callers -> CallerStates] /\ op \in [Callers -> Ops \cup {NoOp}]
    /\ id \in [Callers -> 0 .. MaxCalls] /\ seq \in [Callers -> Bytes]
    /\ owner \in OwnerStates /\ reconnect \in BOOLEAN
    /\ link \in {"up", "broken", "down"}
    /\ toDevice \in Seq(HostAcks \cup HostData)
    /\ toHost \in Seq(DeviceAcks \cup DeviceData)
    /\ device \in Devices
    /\ calls \in 0 .. MaxCalls /\ conn \in 0 .. MaxConnects
    /\ lost \in 0 .. MaxLost /\ accepted \subseteq 0 .. MaxCalls
    /\ taken \in Seq(Nat) /\ late \in BOOLEAN /\ lastWritten \in SUBSET Bytes
    /\ outcome \in [Callers -> Outcomes]

=============================================================================
