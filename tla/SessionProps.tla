---------------------------- MODULE SessionProps ----------------------------
(* What SonyProtocolSession must do, stated of the module Session.         *)
EXTENDS Session

\* A running session has a live reader: isConnected() never says yes of a
\* session whose reader has ended, or was never started (_startReader joins
\* the old reader before it sets _running, _readerLoop clears it on its way
\* out, and _writeFrame may clear it at any time).
ReaderAlive == running => reader \notin {"none", "leaving", "ended"}

\* The sequence number of a data frame is one bit: neither a lost ACK nor a
\* store by the reader between the three accesses of nextSequenceNumber lets
\* the counter run.
SequenceIsBit ==
    \A i \in DOMAIN toDevice : toDevice[i].type = "Data" =>
        toDevice[i].seq \in Bits

\* While the session is connected, a pending request is that of the call
\* that holds _sendMtx: a notification is never swallowed as the answer of
\* a request nobody waits for.
PendingOwned ==
    IsConnected /\ pendingRequest # NoRequest =>
        /\ sendMtx # Nobody
        /\ op[sendMtx] = pendingRequest.op
        /\ pc[sendMtx] \in {"write", "failed", "wait", "checked", "blocked",
                            "passed"}

\* A running session holds no frame of an earlier connection, neither
\* buffered nor as an answer.
NoCrossConnection ==
    running =>
        /\ \A i \in DOMAIN unmatchedFrames : unmatchedFrames[i].conn = conn
        /\ HasResponse => pendingRequest.reply.conn = conn

\* A step that ends a call of c with success.
Succeeds(c) == outcome'[c] # outcome[c] /\ outcome'[c].result = "ok"

\* "Send a request and await matching response frame": the response returned
\* answers that request.
ReplyIsOwn ==
    [][\A c \in Callers :
          Succeeds(c) /\ op[c] # NoOp => outcome'[c].for = id[c]]_vars

\* As long as no call on this connection has timed out, the response is that of
\* the request, and a send() that succeeds was taken by the headphones ("Send a
\* frame and wait for device ACK"): buffered and retransmitted frames, ACKs that
\* follow a reply, and a reconnection do not mix the answers of calls up.
TimelyAnswers ==
    [][\A c \in Callers :
          Succeeds(c) /\ ~late =>
              IF op[c] = NoOp THEN id[c] \in accepted
                              ELSE outcome'[c].for = id[c]]_vars

\* Consecutive data frames of a connection carry different sequence bits, as
\* long as the session runs and no call on it has timed out: a device that drops
\* repeated sequence numbers, as this session does, drops no command.
Alternates ==
    [][/\ Len(toDevice') > Len(toDevice)
       /\ Last(toDevice').type = "Data"
       /\ running /\ ~late
       => Last(toDevice').seq \notin lastWritten]_vars

\* "duplicate detection": a frame is dropped as a duplicate only when it was
\* accepted before, on this connection.
DroppedOnlyDuplicates ==
    [][/\ reader = "acked" /\ reader' \in {"handle", "loop"}
       /\ Head(batch).conn = conn
       => Head(batch).num \in Range(taken)]_vars

\* What the session accepts is the stream the headphones send.
Stream == INSTANCE DeviceStream WITH sent <- device.sent, taken <- taken
InOrderOnce == Stream!Spec

\* No wakeup is lost: a call blocked on a condition variable whose wait is
\* over, because it is answered or the session has ended, is woken without
\* its deadline's help.
NoLostWakeup ==
    \A c \in Callers :
        pc[c] = "blocked" /\ (~IsConnected \/ Answered(c))
            ~> pc[c] # "blocked"

\* disconnect() and connect() return: the reader they join ends.
OwnerReturns == owner # "idle" ~> owner = "idle"

\* The headphones get rid of what they have to say, one acknowledged frame
\* after the other, unless the connection ends.
StreamFlows ==
    device.outbox # <<>> /\ IsConnected
        ~> device.outbox = <<>> \/ ~IsConnected

\* Deadlines pass.
TimersFire == \A c \in Callers : WF_vars(Expire(c))

\* Every call returns or throws, provided deadlines pass.
CallReturns ==
    TimersFire => \A c \in Callers : pc[c] # "idle" ~> pc[c] = "idle"

=============================================================================
