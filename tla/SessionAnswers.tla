--------------------------- MODULE SessionAnswers ---------------------------
(* Theorems of Session on a connection where no call timed out: answers are *)
(* not mixed up, and sequence bits alternate.                               *)
EXTENDS SessionProofs

USE DEF sessionVars, frameVars, readerVars, argVars, callData, callVars,
        connVars, ownerVars, deviceVars, linkVars, histVars, outside,
        notCaller, notReader, notOwner, notLink

-----------------------------------------------------------------------------
(* Commands and their answers, on a connection where no call timed out.    *)

\* The call that holds _sendMtx has written its frame.
Waiting == {"wait", "checked", "blocked", "passed"}
Waiter == sendMtx \in Callers /\ pc[sendMtx] \in Waiting
IsMine(m) == Waiter /\ m.for = id[sendMtx] /\ m.op = op[sendMtx]

\* The frames on their way to the host, and among them the answers that have
\* not been taken; the messages the headphones will send as such.
Coming == Range(batch) \cup Range(toHost)
Unread == {f \in DeviceData : f.for # 0 /\ f.num > Len(taken)}
Live(i) == device.outbox[i].for # 0 /\ Current + i - 1 > Len(taken)

NoCommand == Range(toDevice) \cap HostData = {}
NoAck == Coming \cap DeviceAcks = {}
Unanswered == /\ Coming \cap Unread = {}
              /\ \A i \in DOMAIN device.outbox : ~Live(i)
Quiet == NoCommand /\ NoAck /\ Unanswered

\* A frame that answers no call is unsolicited; copies of the current frame are
\* what the headphones are sending.
ContentInv ==
    /\ \A c \in Callers : pc[c] # "idle" => id[c] # 0
    /\ \A f \in Range(toDevice) : f.type = "Data" => f.id # 0
    /\ \A m \in Range(device.outbox) : m.for = 0 => m.op \in PushOps
    /\ \A f \in Coming : f.type = "Data" =>
          /\ f.for = 0 => f.op \in PushOps
          /\ f.num = Current => /\ f.for = device.outbox[1].for
                                /\ f.op = device.outbox[1].op

\* One command is on its way, that of the call which waits, and nothing of an
\* earlier one; its ACK comes once, ahead of its answer; it has one answer.
CommandInv ==
    /\ \A f \in Range(toDevice) \cap HostData :
          /\ Waiter /\ f.id = id[sendMtx] /\ f.op = op[sendMtx]
          /\ NoAck /\ Unanswered /\ lastWritten = {f.seq}
    /\ NoneBehind(toDevice, HostData, HostData)
AckInv ==
    /\ \A f \in Coming \cap DeviceAcks :
          Waiter /\ id[sendMtx] \in accepted /\ lastWritten = {1 - f.seq}
    /\ InOrder(batch, toHost, DeviceAcks, DeviceAcks)
    /\ InOrder(batch, toHost, Unread, DeviceAcks)
AnswerInv ==
    /\ \A i \in DOMAIN device.outbox : Live(i) => IsMine(device.outbox[i])
    /\ \A i, j \in DOMAIN device.outbox : Live(i) /\ Live(j) => i = j
    /\ \A f \in Coming \cap Unread :
          /\ IsMine(f)
          /\ f.num < Current => \A i \in DOMAIN device.outbox : ~Live(i)
LinkPart == CommandInv /\ AckInv /\ AnswerInv

\* The counter and the number drawn are the other bit than the last one written.
ParityPart ==
    /\ lastWritten \subseteq Bits
    /\ \/ sequence % 2 \notin lastWritten
       \/ \E c \in Callers : pc[c] \in {"register", "write"}
    /\ \A c \in Callers : pc[c] \in {"register", "write"} =>
          seq[c] \notin lastWritten /\ sequence % 2 # seq[c]
    /\ \A c \in Callers : pc[c] = "normalise" => seq[c] % 2 = sequence % 2

\* The reader has taken an answer, and not yet handed it over.
Answering == reader = "fresh" /\ Head(batch).for # 0

\* What the session has been told, and what it keeps.
SessionPart ==
    /\ Answering => IsMine(Head(batch)) /\ ~HasResponse /\ Quiet
    /\ HasResponse => /\ Waiter /\ pendingRequest.reply.for = id[sendMtx]
                      /\ op[sendMtx] # NoOp /\ Quiet /\ ~Answering
    /\ hasAck /\ Waiter => id[sendMtx] \in accepted /\ NoCommand /\ NoAck
    /\ \A c \in Callers : pc[c] = "write" => ~hasAck
    /\ \A c \in Callers : pc[c] \in {"write"} \cup Waiting /\ op[c] # NoOp
          => pendingRequest.op = op[c]
    /\ \A f \in Range(unmatchedFrames) : f.op \in PushOps

\* The connection is up, or connect() is about to say so.
Linked == /\ ~late /\ link # "down"
          /\ running \/ owner \in {"starting", "restarting", "rejoining"}

TimelyInv == Linked => LinkPart /\ ParityPart /\ (running => SessionPart)

-----------------------------------------------------------------------------
(* The contents of frames.                                                  *)

\* At the start there is no frame.
LEMMA ContentInit == Init => ContentInv
BY DEF Init, NewDevice, ContentInv, Coming, Range

\* Frames leave, and the headphones' queue grows at its end.
LEMMA FewerKeepContent ==
    ASSUME TypeInv, NumbersInv, ContentInv,
           \A c \in Callers : pc'[c] # "idle" => id'[c] # 0,
           \A f \in Range(toDevice') : f.type = "Data" => f.id # 0,
           \A f \in Coming' : f.type = "Data" => f \in Coming,
           device'.flying = device.flying, device'.sent = device.sent,
           \/ device'.outbox = device.outbox
           \/ \E m \in Messages : /\ m.for = 0 => m.op \in PushOps
                                  /\ device'.outbox = Append(device.outbox, m)
    PROVE  ContentInv'
<1>1. Current' = Current
  BY DEF Current
<1>2. \A m \in Range(device'.outbox) : m.for = 0 => m.op \in PushOps
  <2>1. device.outbox \in Seq(Messages)
    BY DEF TypeInv, TypeOK, Devices
  <2>2. ASSUME NEW m \in Messages, m.for = 0 => m.op \in PushOps,
               device'.outbox = Append(device.outbox, m)
        PROVE  \A n \in Range(device'.outbox) : n.for = 0 => n.op \in PushOps
    BY <2>1, <2>2, AppendRange DEF ContentInv
  <2> QED  BY <2>2 DEF ContentInv
<1>3. ASSUME NEW f \in Coming', f.type = "Data", f.num = Current
      PROVE  device'.outbox[1] = device.outbox[1]
  <2>1. device.flying
    <3>1. f.num \in 1 .. device.sent /\ device.sent \in Nat /\ device.flying \in BOOLEAN
      BY <1>3, StreamTypes DEF NumbersInv, Coming, TypeInv
    <3> QED  BY <1>3, <3>1 DEF Current
  <2>2. device.outbox # <<>> /\ device.outbox \in Seq(Messages)
    BY <2>1 DEF TypeInv, TypeOK, Devices, DeviceInv
  <2>3. Len(device.outbox) \in Nat /\ Len(device.outbox) # 0
    BY <2>2, EmptySeq
  <2>4. \A m \in Messages : Append(device.outbox, m)[1] = device.outbox[1]
    BY <2>2, <2>3
  <2> QED  BY <2>4
<1> QED  BY <1>1, <1>2, <1>3 DEF ContentInv

\* What the reader does with the queues, and what it leaves alone.
LEMMA ReaderReads ==
    ASSUME TypeInv, IdleInv, ReaderStep
    PROVE  /\ Shrinks(batch, toHost, batch', toHost')
           /\ UNCHANGED toDevice \/ \E e \in HostAcks : toDevice' = Append(toDevice, e)
           /\ UNCHANGED <<device, conn, accepted, link, owner, op, id, seq, sendMtx,
                          late, lastWritten>>
           /\ UNCHANGED pc \/ \E cvs : pc' = Woken(pc, cvs)
<1>1. Shrinks(batch, toHost, batch', toHost')
  <2>1. ASSUME NEW n \in 1 .. MaxInFlight, Receive(n)
        PROVE  Shrinks(batch, toHost, batch', toHost')
    <3>1. /\ batch = <<>> /\ n \in 1 .. Len(toHost)
          /\ batch' = SubSeq(toHost, 1, n)
          /\ toHost' = SubSeq(toHost, n + 1, Len(toHost))
      BY <2>1 DEF Receive, IdleInv, Handling
    <3> QED  BY <3>1 DEF Shrinks
  <2>2. CASE HandleAck \/ DropDuplicate \/ MatchRequest \/ Dispatch
    <3>1. batch # <<>> /\ batch' = Tail(batch) /\ toHost' = toHost
      BY <2>2 DEF HandleAck, DropDuplicate, MatchRequest, Dispatch, NextFrame,
                  TypeInv, BatchInv
    <3> QED  BY <3>1 DEF Shrinks, Drains
  <2>3. CASE \/ Loop \/ ReceiveTimesOut \/ ReceiveFails \/ SendAck \/ SendAckRefused
             \/ SendAckFails \/ SendAckFailed \/ AcceptFrame \/ Buffer \/ Exit \/ Leave
    <3>1. batch' = batch /\ toHost' = toHost
      BY <2>3 DEF Loop, ReceiveTimesOut, ReceiveFails, SendAck, SendAckRefused,
                  SendAckFails, SendAckFailed, AcceptFrame, Buffer, Exit, Leave
    <3> QED  BY <3>1 DEF Shrinks, Drains
  <2> QED  BY <2>1, <2>2, <2>3 DEF ReaderStep
<1>2. UNCHANGED toDevice \/ \E e \in HostAcks : toDevice' = Append(toDevice, e)
  <2>1. CASE SendAck
    <3>1. Head(batch) \in DeviceData
      <4>1. Head(batch) \in DeviceAcks \cup DeviceData /\ Head(batch).type = "Data"
        BY <2>1, HeadTailType DEF SendAck, TypeInv, TypeOK, BatchInv
      <4> QED  BY <4>1 DEF DeviceAcks
    <3>2. AckFor(Head(batch)) \in HostAcks
      BY <3>1 DEF AckFor, HostAcks, DeviceData, Bits
    <3> QED  BY <2>1, <3>2 DEF SendAck
  <2>2. CASE ~SendAck
    BY <2>2 DEF ReaderStep, Loop, Receive, ReceiveTimesOut, ReceiveFails, HandleAck,
       SendAckRefused, SendAckFails, SendAckFailed, DropDuplicate, AcceptFrame,
       MatchRequest, Buffer, Dispatch, Exit, Leave
  <2> QED  BY <2>1, <2>2
<1>3. UNCHANGED <<device, conn, accepted, link, owner, op, id, seq, sendMtx, late,
                  lastWritten>>
  BY DEF ReaderStep, Loop, Receive, ReceiveTimesOut, ReceiveFails, HandleAck,
     SendAck, SendAckRefused, SendAckFails, SendAckFailed, DropDuplicate, AcceptFrame,
     MatchRequest, Buffer, Dispatch, Exit, Leave
<1>4. UNCHANGED pc \/ \E cvs : pc' = Woken(pc, cvs)
  BY DEF ReaderStep, Loop, Receive, ReceiveTimesOut, ReceiveFails, HandleAck,
     SendAck, SendAckRefused, SendAckFails, SendAckFailed, DropDuplicate, AcceptFrame,
     MatchRequest, Buffer, Dispatch, Exit, Leave, NotifyAll
<1> QED  BY <1>1, <1>2, <1>3, <1>4

\* Waking callers ends no call, and leaves those who do not wait where they are.
LEMMA WakingStays ==
    ASSUME TypeOK, UNCHANGED pc \/ \E cvs : pc' = Woken(pc, cvs)
    PROVE  /\ \A c \in Callers : pc'[c] = pc[c] \/ (pc[c] = "blocked" /\ pc'[c] = "wait")
           /\ pc' \in [Callers -> CallerStates]
BY WokenStays, WokenType DEF TypeOK

\* The ids of commands, in a queue that drains or grows.
LEMMA CommandIds ==
    ASSUME TypeOK, ContentInv,
           \/ Drains(toDevice, toDevice')
           \/ \E e \in HostAcks \cup HostData :
                 toDevice' = Append(toDevice, e) /\ (e.type = "Data" => e.id # 0)
    PROVE  \A f \in Range(toDevice') : f.type = "Data" => f.id # 0
<1>1. toDevice \in Seq(HostAcks \cup HostData)
  BY DEF TypeOK
<1>2. CASE Drains(toDevice, toDevice')
  BY <1>1, <1>2, DrainedQueue DEF ContentInv
<1>3. ASSUME NEW e \in HostAcks \cup HostData,
             toDevice' = Append(toDevice, e) /\ (e.type = "Data" => e.id # 0)
      PROVE  \A f \in Range(toDevice') : f.type = "Data" => f.id # 0
  BY <1>1, <1>3, AppendRange DEF ContentInv
<1> QED  BY <1>2, <1>3

\* Calls write commands that carry their number.
LEMMA ContentOfCalls ==
    ASSUME TypeInv, NumbersInv, ContentInv, NEW c \in Callers,
           (\E o \in Ops \cup {NoOp} : Call(c, o)) \/ CallerStep(c) \/ Expire(c)
    PROVE  ContentInv'
<1>1. UNCHANGED <<device, batch, toHost>>
  BY DEF Call, CallerStep, Acquire, Normalise, FetchAdd, Register, Write,
         WriteRefused, WriteFails, WriteFailed, WriteTimesOut, Check, Block,
         Decide, Expire
<1>2. \A d \in Callers : pc'[d] # "idle" => id'[d] # 0
  <2>1. /\ pc \in [Callers -> CallerStates] /\ id \in [Callers -> 0 .. MaxCalls]
        /\ calls \in 0 .. MaxCalls /\ MaxCalls \in Nat
    BY NumberAssumption DEF TypeInv, TypeOK
  <2>2. ASSUME NEW o \in Ops \cup {NoOp}, Call(c, o)
        PROVE  \A d \in Callers : pc'[d] # "idle" => id'[d] # 0
    BY <2>1, <2>2 DEF Call, ContentInv
  <2>3. CASE WriteFailed(c)
    <3>1. \A d \in Callers : pc'[d] # "idle" => pc[d] # "idle"
      BY <2>1, <2>3, WokenStays DEF WriteFailed, Return, Woken
    <3> QED  BY <2>3, <3>1 DEF WriteFailed, ContentInv
  <2>4. CASE (CallerStep(c) /\ ~WriteFailed(c)) \/ Expire(c)
    <3>1. UNCHANGED id
      BY <2>4, SMTT(60) DEF CallerStep, Acquire, Normalise, FetchAdd, Register, Write,
         WriteRefused, WriteFails, WriteTimesOut, Check, Block, Decide, Expire
    <3>2. pc[c] # "idle" /\ \A d \in Callers : d # c => pc'[d] = pc[d]
      BY <2>1, <2>4 DEF CallerStep, Acquire, Normalise, FetchAdd, Register, Write,
         WriteRefused, WriteFails, WriteTimesOut, Check, Block, Decide, Expire, Return
    <3> QED  BY <3>1, <3>2 DEF ContentInv
  <2> QED  BY <2>2, <2>3, <2>4
<1>3. \A f \in Range(toDevice') : f.type = "Data" => f.id # 0
  <2>1. CASE Write(c)
    <3> DEFINE f == [type |-> "Data", seq |-> seq[c], op |-> op[c], id |-> id[c]]
    <3>1. f \in HostData /\ toDevice' = Append(toDevice, f) /\ f.id # 0
      BY <2>1 DEF Write, TypeInv, TypeOK, HostData, ContentInv
    <3> HIDE DEF f
    <3> QED  BY <3>1, CommandIds DEF TypeInv
  <2>2. CASE ~Write(c)
    <3>1. UNCHANGED toDevice
      BY <2>2 DEF Call, CallerStep, Acquire, Normalise, FetchAdd, Register,
         WriteRefused, WriteFails, WriteFailed, WriteTimesOut, Check, Block,
         Decide, Expire
    <3> QED  BY <3>1 DEF ContentInv
  <2> QED  BY <2>1, <2>2
<1> QED  BY <1>1, <1>2, <1>3, FewerKeepContent DEF Coming

\* The reader and the owner only take frames away.
LEMMA ContentOfOthers ==
    ASSUME TypeInv, IdleInv, NumbersInv, ContentInv,
           \/ ReaderStep \/ (\E n \in Sequences : SetSequence(n)) \/ Connect
           \/ (\E again \in BOOLEAN : StopReader(again)) \/ OwnerStep
    PROVE  ContentInv'
<1>1. CASE ReaderStep
  <2>1. \A c \in Callers : pc'[c] # "idle" => id'[c] # 0
    BY <1>1, ReaderReads, WakingStays DEF ContentInv, TypeInv
  <2>2. \A f \in Range(toDevice') : f.type = "Data" => f.id # 0
    <3>1. \A e \in HostAcks : e.type # "Data"
      BY DEF HostAcks
    <3> QED  BY <1>1, <3>1, ReaderReads, CommandIds DEF TypeInv, Drains
  <2>3. Coming' \subseteq Coming /\ UNCHANGED device
    BY <1>1, ReaderReads, ShrinkInOrder DEF Coming, TypeInv, TypeOK
  <2> QED  BY <2>1, <2>2, <2>3, FewerKeepContent
<1>2. CASE Open
  BY <1>2 DEF Open, NewDevice, IdleInv, Handling, ContentInv, Coming, Range
<1>3. CASE \/ (\E n \in Sequences : SetSequence(n)) \/ Connect
           \/ (\E again \in BOOLEAN : StopReader(again)) \/ NotifyStopped \/ Join
           \/ Close \/ Clear \/ OpenFails \/ Start \/ StartReader
  <2>1. UNCHANGED <<device, id>> /\ (UNCHANGED pc \/ \E cvs : pc' = Woken(pc, cvs))
    BY <1>3 DEF SetSequence, Connect, StopReader, NotifyStopped, Join, Close, Clear,
                OpenFails, Start, StartReader, NotifyAll
  <2>2. /\ toDevice' = toDevice \/ toDevice' = <<>>
        /\ toHost' = toHost \/ toHost' = <<>>
        /\ batch' = batch \/ batch' = <<>>
    BY <1>3 DEF SetSequence, Connect, StopReader, NotifyStopped, Join, Close, Clear,
                OpenFails, Start, StartReader
  <2>3. \A f \in Range(toDevice') : f.type = "Data" => f.id # 0
    BY <2>2 DEF ContentInv, Range
  <2>4. \A f \in Coming' : f \in Coming
    BY <2>2 DEF Coming, Range
  <2>5. \A c \in Callers : pc'[c] # "idle" => id'[c] # 0
    BY <2>1, WakingStays DEF ContentInv, TypeInv
  <2> QED  BY <2>1, <2>3, <2>4, <2>5, FewerKeepContent
<1> QED  BY <1>1, <1>2, <1>3 DEF OwnerStep

\* The headphones answer a command, push, or copy the head of their queue.
LEMMA ContentOfLink ==
    ASSUME TypeInv, StreamInv, StreamInv', ContentInv,
           DeviceStep \/ DevicePushes \/ Corrupt \/ Drop \/ UNCHANGED vars
    PROVE  ContentInv'
<1>1. UNCHANGED <<pc, id, batch>>
  BY ZenonT(60) DEF DeviceStep, DeviceTakes, DeviceAcked, DeviceSends, DevicePushes, Corrupt,
         Drop, vars
<1>2. Drains(toDevice, toDevice')
  BY ZenonT(60) DEF DeviceStep, DeviceTakes, DeviceAcked, DeviceSends, DevicePushes, Corrupt,
         Drop, vars, Drains
<1>3. /\ \A c \in Callers : pc'[c] # "idle" => id'[c] # 0
      /\ \A f \in Range(toDevice') : f.type = "Data" => f.id # 0
  BY <1>1, <1>2, CommandIds DEF ContentInv, TypeInv
<1>4. CASE DeviceTakes
  <2> DEFINE f == Head(toDevice)
             a == [type |-> "Ack", seq |-> 1 - (f.seq % 2)]
             m == [op |-> f.op, for |-> f.id]
  <2>1. f \in HostData /\ f.id # 0
    <3>1. f \in HostAcks \cup HostData /\ f.type = "Data" /\ f \in Range(toDevice)
      BY <1>4, HeadTailType, QueueRanges DEF DeviceTakes, TypeInv, TypeOK
    <3> QED  BY <3>1 DEF HostAcks, ContentInv
  <2>2. a \in DeviceAcks /\ a.type # "Data"
    BY <2>1, ByteArithmetic DEF HostData, DeviceAcks, Bits
  <2>3. Range(toHost') = Range(toHost) \cup {a}
    <3>1. toHost \in Seq(DeviceAcks \cup DeviceData) /\ a \in DeviceAcks \cup DeviceData
      BY <2>2 DEF TypeInv, TypeOK
    <3>2. toHost' = Append(toHost, a)
      BY <1>4 DEF DeviceTakes
    <3> HIDE DEF a
    <3> QED  BY <3>1, <3>2, AppendRange
  <2>4. \A g \in Coming' : g.type = "Data" => g \in Coming
    BY <1>1, <2>2, <2>3 DEF Coming
  <2>5. device'.flying = device.flying /\ device'.sent = device.sent
    BY <1>4 DEF DeviceTakes, TypeInv, TypeOK, Devices
  <2>6. f.op = NoOp \/ m \in Messages
    BY <2>1 DEF HostData, Messages
  <2>7. \/ device'.outbox = device.outbox
        \/ m \in Messages /\ device'.outbox = Append(device.outbox, m)
    BY <1>4, <2>6 DEF DeviceTakes, TypeInv, TypeOK, Devices
  <2>8. m.for # 0
    BY <2>1
  <2> HIDE DEF a, m, f
  <2> QED  BY <1>3, <2>4, <2>5, <2>7, <2>8, FewerKeepContent DEF StreamInv
<1>5. CASE DeviceAcked
  <2>1. CASE device' = device
    BY <1>1, <1>3, <1>5, <2>1, FewerKeepContent DEF DeviceAcked, Coming, StreamInv
  <2>2. CASE device' # device
    <3>1. /\ device.flying /\ device'.flying = FALSE /\ device'.sent = device.sent
          /\ device'.outbox = Tail(device.outbox) /\ Coming' = Coming
      BY <1>1, <1>5, <2>2 DEF DeviceAcked, TypeInv, TypeOK, Devices, Coming
    <3>2. device.outbox # <<>> /\ device.outbox \in Seq(Messages)
      BY <3>1 DEF TypeInv, TypeOK, Devices, DeviceInv
    <3>3. Range(device'.outbox) \subseteq Range(device.outbox)
      BY <3>1, <3>2, QueueRanges
    <3>4. Current' = device.sent + 1 /\ device.sent \in Nat
      BY <3>1, StreamTypes DEF Current, TypeInv
    <3>5. \A f \in Coming' : f.type = "Data" => f.num # Current'
      BY <3>1, <3>4 DEF StreamInv, NumbersInv, Coming
    <3> QED  BY <1>3, <3>1, <3>3, <3>5 DEF ContentInv
  <2> QED  BY <2>1, <2>2
<1>6. CASE DeviceSends
  <2>1. PICK f : /\ f.type = "Data" /\ f.num = Current /\ toHost' = Append(toHost, f)
                 /\ f.op = device.outbox[1].op /\ f.for = device.outbox[1].for
    BY <1>6 DEF DeviceSends, Current
  <2>2. /\ device'.outbox = device.outbox /\ device'.flying = TRUE
        /\ device'.sent = Current /\ Current' = Current
    BY <1>6 DEF DeviceSends, Current, TypeInv, TypeOK, Devices
  <2>3. device.outbox # <<>> /\ device.outbox \in Seq(Messages)
    BY <1>6 DEF DeviceSends, TypeInv, TypeOK, Devices
  <2>4. device.outbox[1] \in Range(device.outbox)
    <3>1. 1 \in DOMAIN device.outbox
      BY <2>3, EmptySeq
    <3> QED  BY <3>1 DEF Range
  <2>5. Range(toHost') = Range(toHost) \cup {f}
    <3>1. toHost \in Seq(DeviceAcks \cup DeviceData \cup {f})
          /\ f \in DeviceAcks \cup DeviceData \cup {f}
      BY DEF TypeInv, TypeOK
    <3> QED  BY <2>1, <3>1, AppendRange
  <2>6. f.for = 0 => f.op \in PushOps
    BY <2>1, <2>4 DEF ContentInv
  <2>7. Coming' = Coming \cup {f}
    BY <1>1, <2>5 DEF Coming
  <2> QED  BY <1>3, <2>1, <2>2, <2>6, <2>7 DEF ContentInv
<1>7. CASE DevicePushes \/ Corrupt \/ Drop \/ UNCHANGED vars
  <2>1. Drains(toHost, toHost')
    BY <1>7 DEF DevicePushes, Corrupt, Drop, vars, Drains
  <2>2. \A f \in Coming' : f \in Coming
    BY <1>1, <2>1, DrainedQueue DEF Coming, TypeInv, TypeOK
  <2>3. device'.flying = device.flying /\ device'.sent = device.sent
    BY <1>7 DEF DevicePushes, Corrupt, Drop, vars, TypeInv, TypeOK, Devices
  <2>4. \/ device'.outbox = device.outbox
        \/ \E m \in Messages : /\ m.for = 0 => m.op \in PushOps
                               /\ device'.outbox = Append(device.outbox, m)
    <3>1. CASE DevicePushes
      <4>1. PICK o \in PushOps :
               device'.outbox = Append(device.outbox, [op |-> o, for |-> 0])
        BY <3>1 DEF DevicePushes, TypeInv, TypeOK, Devices
      <4>2. [op |-> o, for |-> 0] \in Messages
        BY NumberAssumption DEF Messages
      <4> QED  BY <4>1, <4>2
    <3>2. CASE Corrupt \/ Drop \/ UNCHANGED vars
      BY <3>2 DEF Corrupt, Drop, vars
    <3> QED  BY <1>7, <3>1, <3>2
  <2> QED  BY <1>3, <2>2, <2>3, <2>4, FewerKeepContent, SMTT(60) DEF StreamInv
<1> QED  BY <1>4, <1>5, <1>6, <1>7, SMTT(60) DEF DeviceStep

\* Every step keeps the contents of the frames.
LEMMA ContentStep ==
    TypeInv /\ IdleInv /\ StreamInv /\ ContentInv /\ StreamInv' /\ [Next]_vars
    => ContentInv'
BY ContentOfCalls, ContentOfOthers, ContentOfLink DEF Next, StreamInv

-----------------------------------------------------------------------------
(* Commands, ACKs and answers on the link.                                  *)

\* Where nobody waits, nothing is on its way, and where nothing is, all is well.
LEMMA NobodyWaits == LinkPart /\ ~Waiter => Quiet
BY DEF LinkPart, CommandInv, AckInv, AnswerInv, IsMine, Quiet, NoCommand, NoAck,
       Unanswered

\* ... and where nothing is, all is well.
LEMMA QuietIsOrdered == Quiet' => LinkPart'
BY DEF Quiet, NoCommand, NoAck, Unanswered, LinkPart, CommandInv, AckInv, AnswerInv,
       NoneBehind, InOrder, Coming, Range

\* The call that waits goes on waiting.
HolderStays ==
    /\ UNCHANGED sendMtx
    /\ Waiter => Waiter' /\ id'[sendMtx] = id[sendMtx] /\ op'[sendMtx] = op[sendMtx]

\* The headphones' queue is what it was, but for unsolicited frames.
OutboxStays ==
    /\ device'.flying = device.flying /\ device'.sent = device.sent
    /\ \/ device'.outbox = device.outbox
       \/ \E m \in Messages : m.for = 0 /\ device'.outbox = Append(device.outbox, m)

\* What has left the link does not come back.
QuietStays ==
    /\ NoCommand => NoCommand'
    /\ NoAck => NoAck'
    /\ Unanswered => Unanswered'

\* Frames leave the link.
LEMMA LessOnLink ==
    ASSUME TypeInv, LinkPart, HolderStays, OutboxStays,
           Shrinks(batch, toHost, batch', toHost'),
           Drains(toDevice, toDevice')
              \/ \E e \in HostAcks : toDevice' = Append(toDevice, e),
           Len(taken') \in Nat, Len(taken) <= Len(taken'), UNCHANGED lastWritten,
           accepted \subseteq accepted'
    PROVE  LinkPart' /\ QuietStays
<1>1. Current' = Current /\ Len(taken) \in Nat /\ Current \in Nat
  BY StreamTypes DEF Current, OutboxStays, TypeInv
<1>2. Unread' \subseteq Unread
  BY <1>1 DEF Unread, DeviceData
<1>3. \A i \in DOMAIN device'.outbox :
         Live(i)' => i \in DOMAIN device.outbox /\ Live(i)
                     /\ device'.outbox[i] = device.outbox[i]
  <2>1. device.outbox \in Seq(Messages)
    BY DEF TypeInv, TypeOK, Devices
  <2>2. CASE device'.outbox = device.outbox
    BY <1>1, <2>1, <2>2 DEF Live
  <2>3. ASSUME NEW m \in Messages, m.for = 0, device'.outbox = Append(device.outbox, m),
               NEW i \in DOMAIN device'.outbox, Live(i)'
        PROVE  i \in DOMAIN device.outbox /\ Live(i) /\ device'.outbox[i] = device.outbox[i]
    <3>1. i \in 1 .. Len(device.outbox) + 1 /\ device'.outbox[i].for # 0
      BY <2>1, <2>3 DEF Live
    <3>2. i # Len(device.outbox) + 1
      BY <2>1, <2>3, <3>1
    <3>3. i \in DOMAIN device.outbox /\ device'.outbox[i] = device.outbox[i] /\ i \in Nat
      BY <2>1, <2>3, <3>1, <3>2
    <3> QED  BY <1>1, <2>3, <3>3 DEF Live
  <2> QED  BY <2>2, <2>3 DEF OutboxStays
<1>4. /\ Coming' \subseteq Coming
      /\ \A A, B : InOrder(batch, toHost, A, B) => InOrder(batch', toHost', A, B)
  BY ShrinkInOrder DEF Coming, TypeInv, TypeOK
<1>5. /\ Range(toDevice') \cap HostData \subseteq Range(toDevice)
      /\ NoneBehind(toDevice', HostData, HostData)
  <2>1. toDevice \in Seq(HostAcks \cup HostData) /\ NoneBehind(toDevice, HostData, HostData)
    BY DEF TypeInv, TypeOK, LinkPart, CommandInv
  <2>2. CASE Drains(toDevice, toDevice')
    BY <2>1, <2>2, DrainedQueue
  <2>3. ASSUME NEW e \in HostAcks, toDevice' = Append(toDevice, e)
        PROVE  /\ Range(toDevice') \cap HostData \subseteq Range(toDevice)
               /\ NoneBehind(toDevice', HostData, HostData)
    <3>1. e \notin HostData
      BY DEF HostAcks, HostData
    <3> QED  BY <2>1, <2>3, <3>1, AppendRange, BehindAppend
  <2> QED  BY <2>2, <2>3
<1>6. QuietStays
  BY <1>2, <1>3, <1>4, <1>5 DEF QuietStays, NoCommand, NoAck, Unanswered
<1>7. CommandInv'
  BY <1>5, <1>6 DEF LinkPart, CommandInv, HolderStays, QuietStays
<1>8. AckInv'
  <2>1. InOrder(batch', toHost', DeviceAcks, DeviceAcks)
        /\ InOrder(batch', toHost', Unread, DeviceAcks)
    BY <1>4 DEF LinkPart, AckInv
  <2>2. InOrder(batch', toHost', Unread', DeviceAcks)
    BY <1>2, <2>1, LessInOrder
  <2> QED  BY <1>4, <2>1, <2>2 DEF LinkPart, AckInv, HolderStays
<1>9. AnswerInv'
  BY <1>1, <1>2, <1>3, <1>4 DEF LinkPart, AnswerInv, IsMine, HolderStays
<1> QED  BY <1>6, <1>7, <1>8, <1>9 DEF LinkPart

\* _writeFrame: the command of the call that holds _sendMtx.
LEMMA WriteOnLink ==
    ASSUME TypeInv, HolderInv, LinkPart, NEW c \in Callers, Write(c)
    PROVE  LinkPart' /\ Quiet
<1> DEFINE f == [type |-> "Data", seq |-> seq[c], op |-> op[c], id |-> id[c]]
<1>1. /\ f \in HostData /\ f.seq = seq[c] /\ f.op = op[c] /\ f.id = id[c]
      /\ toDevice' = Append(toDevice, f) /\ lastWritten' = {seq[c]}
      /\ UNCHANGED <<batch, toHost, device, taken, op, id, sendMtx>>
      /\ pc[c] = "write" /\ pc' = [pc EXCEPT ![c] = "wait"]
      /\ pc \in [Callers -> CallerStates]
  BY DEF Write, HostData, TypeInv, TypeOK
<1>2. sendMtx = c
  BY <1>1 DEF HolderInv
<1>3. ~Waiter /\ Waiter'
  BY <1>1, <1>2 DEF Waiter, Waiting
<1>4. Quiet
  BY <1>3, NobodyWaits
<1>5. Current' = Current /\ Coming' = Coming /\ Unread' = Unread
  BY <1>1 DEF Current, Coming, Unread
<1>6. NoAck' /\ Unanswered'
  BY <1>1, <1>4, <1>5 DEF Quiet, NoAck, Unanswered, Live
<1>7. /\ Range(toDevice') = Range(toDevice) \cup {f}
      /\ NoneBehind(toDevice', HostData, HostData)
  <2>1. toDevice \in Seq(HostAcks \cup HostData) /\ Range(toDevice) \cap HostData = {}
        /\ f \in HostAcks \cup HostData
    BY <1>1, <1>4 DEF TypeInv, TypeOK, Quiet, NoCommand
  <2>2. NoneBehind(toDevice, HostData, HostData)
    BY DEF LinkPart, CommandInv
  <2> HIDE DEF f
  <2>3. toDevice' = Append(toDevice, f)
    BY <1>1
  <2> QED  BY <2>1, <2>2, <2>3, AppendRange, BehindAppend
<1>8. CommandInv'
  BY <1>1, <1>2, <1>3, <1>4, <1>6, <1>7 DEF CommandInv, Quiet, NoCommand
<1>9. AckInv' /\ AnswerInv'
  BY <1>6 DEF AckInv, AnswerInv, NoAck, Unanswered, InOrder, NoneBehind, Coming, Range
<1> QED  BY <1>4, <1>8, <1>9 DEF LinkPart

\* The headphones take a command, and owe its ACK and its answer.
LEMMA TakeOnLink ==
    ASSUME TypeInv, ContentInv, ParityPart, LinkPart, DeviceTakes
    PROVE  LinkPart' /\ Waiter /\ ~NoCommand
<1> DEFINE f == Head(toDevice)
           a == [type |-> "Ack", seq |-> 1 - (f.seq % 2)]
           m == [op |-> f.op, for |-> f.id]
<1>1. f \in HostData /\ f \in Range(toDevice) /\ toDevice # <<>>
  <2>1. f \in HostAcks \cup HostData /\ f.type = "Data" /\ f \in Range(toDevice)
    BY HeadTailType, QueueRanges DEF DeviceTakes, TypeInv, TypeOK
  <2> QED  BY <2>1 DEF HostAcks, DeviceTakes
<1>2. a \in DeviceAcks /\ a.seq = 1 - (f.seq % 2)
  BY <1>1, ByteArithmetic DEF HostData, DeviceAcks, Bits
<1>3. /\ toHost' = Append(toHost, a) /\ toDevice' = Tail(toDevice)
      /\ accepted' = accepted \cup {f.id}
      /\ UNCHANGED <<batch, taken, pc, id, op, sendMtx, lastWritten>>
      /\ device'.flying = device.flying /\ device'.sent = device.sent
      /\ device'.outbox = IF f.op = NoOp THEN device.outbox
                          ELSE Append(device.outbox, m)
  BY DEF DeviceTakes, TypeInv, TypeOK, Devices
<1>4. /\ Waiter /\ f.id = id[sendMtx] /\ f.op = op[sendMtx]
      /\ NoAck /\ Unanswered /\ lastWritten = {f.seq}
  BY <1>1 DEF LinkPart, CommandInv
<1>5. NoCommand'
  BY <1>1, <1>3, BehindTail DEF LinkPart, CommandInv, NoCommand, TypeInv, TypeOK
<1>6. Current' = Current /\ Unread' = Unread /\ Waiter'
  BY <1>3, <1>4 DEF Current, Unread, Waiter
<1>7. f.seq % 2 = f.seq
  <2>1. f.seq \in Bits
    BY <1>4 DEF ParityPart
  <2> QED  BY <2>1 DEF Bits
<1>8. a.seq = 1 - f.seq /\ f.seq = 1 - a.seq
  <2>1. f.seq \in Bits
    BY <1>4 DEF ParityPart
  <2> QED  BY <1>2, <1>7, <2>1 DEF Bits
<1>9. f.id # 0 /\ f.type = "Data"
  BY <1>1 DEF ContentInv, HostData
<1> HIDE DEF a
<1>10. Range(toHost') = Range(toHost) \cup {a}
  <2>1. toHost \in Seq(DeviceAcks \cup DeviceData) /\ a \in DeviceAcks \cup DeviceData
    BY <1>2 DEF TypeInv, TypeOK
  <2> QED  BY <1>3, <2>1, AppendRange
<1>11. a \notin Unread /\ Coming' = Coming \cup {a}
  BY <1>2, <1>3, <1>10 DEF Unread, DeviceAcks, DeviceData, Coming
<1>12. CommandInv'
  <2>1. NoneBehind(toDevice', HostData, HostData)
    BY <1>1, <1>3, BehindTail DEF LinkPart, CommandInv, TypeInv, TypeOK
  <2> QED  BY <1>5, <2>1 DEF CommandInv, NoCommand
<1>13. AckInv'
  <2>1. \A g \in Coming' \cap DeviceAcks : g = a
    BY <1>4, <1>11 DEF NoAck
  <2>2. id[sendMtx] \in accepted' /\ lastWritten = {1 - a.seq}
    BY <1>3, <1>4, <1>8
  <2>3. /\ toHost \in Seq(DeviceAcks \cup DeviceData) /\ batch \in Seq(DeviceAcks \cup DeviceData)
        /\ a \in DeviceAcks \cup DeviceData
    BY <1>2 DEF TypeInv, TypeOK
  <2>4. /\ InOrder(batch, toHost, DeviceAcks, DeviceAcks)
        /\ InOrder(batch, toHost, Unread, DeviceAcks)
        /\ (Range(batch) \cup Range(toHost)) \cap DeviceAcks = {}
        /\ (Range(batch) \cup Range(toHost)) \cap Unread = {}
    BY <1>4 DEF LinkPart, AckInv, NoAck, Unanswered, Coming
  <2>5. InOrder(batch, Append(toHost, a), DeviceAcks, DeviceAcks)
        /\ InOrder(batch, Append(toHost, a), Unread, DeviceAcks)
    BY <2>3, <2>4, GrowInOrder
  <2> QED  BY <1>3, <1>6, <2>1, <2>2, <2>5 DEF AckInv
<1>14. AnswerInv'
  <2>1. Coming' \cap Unread' = {}
    BY <1>4, <1>6, <1>11 DEF Unanswered
  <2>2. device.outbox \in Seq(Messages)
    BY DEF TypeInv, TypeOK, Devices
  <2>3. \A i \in DOMAIN device'.outbox :
           Live(i)' => i = Len(device.outbox) + 1 /\ device'.outbox[i] = m
    <3>1. CASE f.op = NoOp
      <4>1. device'.outbox = device.outbox
        BY <1>3, <3>1
      <4> QED  BY <1>3, <1>4, <1>6, <4>1 DEF Unanswered, Live
    <3>2. ASSUME f.op # NoOp, NEW i \in DOMAIN device'.outbox, Live(i)'
          PROVE  i = Len(device.outbox) + 1 /\ device'.outbox[i] = m
      <4>1. device'.outbox = Append(device.outbox, m)
        BY <1>3, <3>2
      <4> HIDE DEF m
      <4>2. i \in 1 .. Len(device.outbox) + 1 /\ i \in Nat /\ Len(device.outbox) \in Nat
        BY <2>2, <3>2, <4>1
      <4>3. CASE i # Len(device.outbox) + 1
        <5>1. i \in DOMAIN device.outbox /\ device'.outbox[i] = device.outbox[i]
          BY <2>2, <4>1, <4>2, <4>3
        <5> QED  BY <1>3, <1>4, <1>6, <3>2, <5>1 DEF Unanswered, Live
      <4>4. CASE i = Len(device.outbox) + 1
        BY <2>2, <4>1, <4>4
      <4> QED  BY <4>3, <4>4
    <3> QED  BY <3>1, <3>2
  <2>4. Waiter' /\ m.for = id'[sendMtx'] /\ m.op = op'[sendMtx']
    BY <1>3, <1>4, <1>6
  <2> HIDE DEF m
  <2> QED  BY <2>1, <2>3, <2>4 DEF AnswerInv, IsMine
<1> QED  BY <1>1, <1>4, <1>12, <1>13, <1>14 DEF LinkPart, NoCommand

\* An answer that is the headphones' current frame is the head of their queue.
LEMMA CurrentIsLive ==
    ASSUME TypeInv, NumbersInv, ContentInv, NEW f \in Coming \cap Unread, f.num = Current
    PROVE  /\ 1 \in DOMAIN device.outbox /\ Live(1)
           /\ f.for = device.outbox[1].for /\ f.op = device.outbox[1].op
<1>1. f.type = "Data" /\ f.for # 0 /\ f.num > Len(taken) /\ f.num \in Nat
  BY DEF Unread, DeviceData
<1>2. f.for = device.outbox[1].for /\ f.op = device.outbox[1].op
  BY <1>1 DEF ContentInv
<1>3. device.flying
  <2>1. f.num \in 1 .. device.sent /\ device.sent \in Nat /\ device.flying \in BOOLEAN
    BY <1>1, StreamTypes DEF NumbersInv, Coming, TypeInv
  <2> QED  BY <2>1 DEF Current
<1>4. device.outbox # <<>> /\ device.outbox \in Seq(Messages)
  BY <1>3 DEF TypeInv, TypeOK, Devices, DeviceInv
<1>5. 1 \in DOMAIN device.outbox
  BY <1>4, EmptySeq
<1> QED  BY <1>1, <1>2, <1>5 DEF Live

\* The headphones get an ACK.
LEMMA AckedOnLink ==
    ASSUME TypeInv, StreamInv, ContentInv, LinkPart, DeviceAcked
    PROVE  LinkPart' /\ QuietStays
<1>1. /\ UNCHANGED <<batch, toHost, taken, pc, id, op, sendMtx, lastWritten, accepted>>
      /\ toDevice # <<>> /\ toDevice' = Tail(toDevice)
      /\ Len(taken) \in Nat
  BY StreamTypes DEF DeviceAcked, TypeInv
<1>2. HolderStays
  BY <1>1 DEF HolderStays, Waiter
<1>3. CASE device' = device
  <2>1. Shrinks(batch, toHost, batch', toHost') /\ Drains(toDevice, toDevice')
        /\ OutboxStays
    BY <1>1, <1>3 DEF Shrinks, Drains, OutboxStays
  <2> QED  BY <1>1, <1>2, <2>1, LessOnLink
<1>4. CASE device' # device
  <2>1. /\ device.flying /\ ~device'.flying /\ device'.sent = device.sent
        /\ device'.outbox = Tail(device.outbox)
    BY <1>4 DEF DeviceAcked, TypeInv, TypeOK, Devices
  <2>2. device.outbox # <<>> /\ device.outbox \in Seq(Messages)
    BY <2>1 DEF TypeInv, TypeOK, Devices, DeviceInv
  <2>3. Current' = Current + 1 /\ Current \in Nat
    BY <2>1, StreamTypes DEF Current, TypeInv
  <2>4. /\ Coming' = Coming /\ Unread' = Unread /\ Waiter' = Waiter
    BY <1>1 DEF Coming, Unread, Waiter
  <2>5. \A i \in DOMAIN device'.outbox :
           /\ i \in Nat /\ i >= 1 /\ i + 1 \in DOMAIN device.outbox
           /\ device'.outbox[i] = device.outbox[i + 1]
    BY <2>1, <2>2
  <2>6. \A i \in DOMAIN device'.outbox : Live(i)' => Live(i + 1)
    BY <1>1, <2>3, <2>5 DEF Live
  <2>7. QuietStays
    <3>1. NoCommand => NoCommand'
      <4>1. Range(toDevice') \subseteq Range(toDevice)
        BY <1>1, DrainedQueue DEF Drains, TypeInv, TypeOK
      <4> QED  BY <4>1 DEF NoCommand
    <3>2. Unanswered => Unanswered'
      BY <2>4, <2>5, <2>6 DEF Unanswered
    <3> QED  BY <2>4, <3>1, <3>2 DEF QuietStays, NoAck
  <2>8. CommandInv'
    <3>1. Range(toDevice') \subseteq Range(toDevice)
          /\ NoneBehind(toDevice', HostData, HostData)
      BY <1>1, DrainedQueue DEF Drains, TypeInv, TypeOK, LinkPart, CommandInv
    <3> QED  BY <1>1, <2>4, <2>7, <3>1 DEF LinkPart, CommandInv, QuietStays
  <2>9. AckInv'
    BY <1>1, <2>4 DEF LinkPart, AckInv
  <2>10. AnswerInv'
    <3>1. \A i \in DOMAIN device'.outbox : Live(i)' => IsMine(device.outbox[i + 1])
      BY <2>5, <2>6 DEF LinkPart, AnswerInv
    <3>2. \A i, j \in DOMAIN device'.outbox : Live(i)' /\ Live(j)' => i = j
      <4> SUFFICES ASSUME NEW i \in DOMAIN device'.outbox, NEW j \in DOMAIN device'.outbox,
                          Live(i)', Live(j)'
                   PROVE  i = j
        OBVIOUS
      <4>1. i + 1 = j + 1
        BY <2>5, <2>6 DEF LinkPart, AnswerInv
      <4> QED  BY <2>5, <4>1
    <3>3. ASSUME NEW f \in Coming \cap Unread, f.num < Current'
          PROVE  \A i \in DOMAIN device'.outbox : ~Live(i)'
      <4>0. f.num \in Nat
        BY DEF Unread, DeviceData
      <4>1. CASE f.num < Current
        BY <2>5, <2>6, <4>1 DEF LinkPart, AnswerInv
      <4>2. CASE f.num = Current
        <5>1. 1 \in DOMAIN device.outbox /\ Live(1)
          BY <4>2, CurrentIsLive DEF StreamInv
        <5>2. ASSUME NEW i \in DOMAIN device'.outbox, Live(i)' PROVE FALSE
          <6>1. i + 1 = 1
            BY <2>5, <2>6, <5>1, <5>2 DEF LinkPart, AnswerInv
          <6> QED  BY <2>5, <6>1
        <5> QED  BY <5>2
      <4> QED  BY <2>3, <3>3, <4>0, <4>1, <4>2
    <3>4. \A f \in Coming \cap Unread : IsMine(f)
      BY DEF LinkPart, AnswerInv
    <3> QED  BY <1>1, <2>4, <2>5, <3>1, <3>2, <3>3, <3>4 DEF AnswerInv, IsMine
  <2> QED  BY <2>7, <2>8, <2>9, <2>10 DEF LinkPart
<1> QED  BY <1>3, <1>4

\* They send the frame at the head of their queue, or send it again.
LEMMA SendOnLink ==
    ASSUME TypeInv, StreamInv, ContentInv, LinkPart, DeviceSends
    PROVE  LinkPart' /\ QuietStays
<1>1. /\ UNCHANGED <<batch, toDevice, taken, pc, id, op, sendMtx, lastWritten, accepted>>
      /\ device.outbox # <<>> /\ device.outbox \in Seq(Messages)
      /\ device'.outbox = device.outbox /\ device'.flying = TRUE
      /\ device'.sent = Current /\ Current' = Current
  BY DEF DeviceSends, Current, TypeInv, TypeOK, Devices
<1>2. PICK f : /\ f = [type |-> "Data", seq |-> device.bit, num |-> Current,
                       op |-> device.outbox[1].op, for |-> device.outbox[1].for,
                       conn |-> conn]
               /\ toHost' = Append(toHost, f)
  BY DEF DeviceSends, Current
<1>3. f \in DeviceData /\ f \notin DeviceAcks /\ f.num = Current
      /\ f.for = device.outbox[1].for /\ f.op = device.outbox[1].op
  <2>1. device.outbox[1] \in Messages
    BY <1>1, EmptySeq
  <2>2. device.bit \in Bits /\ Current \in Nat /\ conn \in 0 .. MaxConnects
    BY StreamTypes DEF TypeInv, TypeOK
  <2> QED  BY <1>2, <2>1, <2>2 DEF DeviceData, DeviceAcks, Messages
<1>4. 1 \in DOMAIN device.outbox
  BY <1>1, EmptySeq
<1>5. f \in Unread => Live(1)
  BY <1>3, StreamTypes DEF Unread, Live, TypeInv
<1>6. Coming' = Coming \cup {f}
  <2>1. toHost \in Seq(DeviceAcks \cup DeviceData) /\ f \in DeviceAcks \cup DeviceData
    BY <1>3 DEF TypeInv, TypeOK
  <2>2. Range(toHost') = Range(toHost) \cup {f}
    BY <1>2, <2>1, AppendRange
  <2> QED  BY <1>1, <2>2 DEF Coming
<1>7. /\ Unread' = Unread /\ Waiter' = Waiter
      /\ \A i \in DOMAIN device.outbox : Live(i)' = Live(i)
  BY <1>1 DEF Unread, Waiter, Live
<1>8. QuietStays
  <2>1. NoCommand' = NoCommand
    BY <1>1 DEF NoCommand
  <2>2. NoAck => NoAck'
    BY <1>3, <1>6 DEF NoAck
  <2>3. Unanswered => Unanswered'
    BY <1>1, <1>4, <1>5, <1>6, <1>7 DEF Unanswered
  <2> QED  BY <2>1, <2>2, <2>3 DEF QuietStays
<1>9. CommandInv'
  BY <1>1, <1>7, <1>8 DEF LinkPart, CommandInv, QuietStays
<1>10. AckInv'
  <2>1. \A g \in Coming' \cap DeviceAcks : g \in Coming \cap DeviceAcks
    BY <1>3, <1>6
  <2>2. /\ toHost \in Seq(DeviceAcks \cup DeviceData) /\ batch \in Seq(DeviceAcks \cup DeviceData)
        /\ f \in DeviceAcks \cup DeviceData
    BY <1>3 DEF TypeInv, TypeOK
  <2>3. InOrder(batch, toHost, DeviceAcks, DeviceAcks)
        /\ InOrder(batch, toHost, Unread, DeviceAcks)
    BY DEF LinkPart, AckInv
  <2>4. InOrder(batch, Append(toHost, f), DeviceAcks, DeviceAcks)
        /\ InOrder(batch, Append(toHost, f), Unread, DeviceAcks)
    BY <1>3, <2>2, <2>3, GrowInOrder
  <2> QED  BY <1>1, <1>2, <1>7, <2>1, <2>4 DEF LinkPart, AckInv
<1>11. AnswerInv'
  <2>1. f \in Unread => IsMine(f)
    BY <1>3, <1>4, <1>5 DEF LinkPart, AnswerInv, IsMine
  <2>2. f.num \in Nat
    BY <1>3 DEF DeviceData
  <2> QED  BY <1>1, <1>3, <1>6, <1>7, <2>1, <2>2 DEF LinkPart, AnswerInv, IsMine
<1> QED  BY <1>8, <1>9, <1>10, <1>11 DEF LinkPart

\* The reader takes a frame.  Where it is an answer, it is that of the call
\* which waits, and nothing is left on its way.
LEMMA AcceptOnLink ==
    ASSUME TypeInv, StreamInv, ContentInv, LinkPart, SessionPart, AcceptFrame
    PROVE  LinkPart' /\ SessionPart'
<1> DEFINE f == Head(batch)
<1>1. /\ reader = "acked" /\ reader' = "fresh" /\ ~IsDuplicate
      /\ UNCHANGED <<batch, toHost, toDevice, device, pc, id, op, sendMtx, lastWritten,
                     accepted, pendingRequest, unmatchedFrames, hasAck>>
      /\ taken' = Append(taken, Len(taken) + 1)
  BY AcceptKeepsStream DEF AcceptFrame
<1>2. /\ Len(taken) \in Nat /\ Len(taken') = Len(taken) + 1
  BY <1>1, StreamTypes, AppendType DEF TypeInv, TypeOK
<1>3. HolderStays /\ OutboxStays /\ Drains(toDevice, toDevice')
      /\ Shrinks(batch, toHost, batch', toHost')
  BY <1>1 DEF HolderStays, Waiter, OutboxStays, Drains, Shrinks
<1>4. LinkPart' /\ QuietStays
  BY <1>1, <1>2, <1>3, LessOnLink
<1>5. f \in Range(batch) /\ f.type = "Data" /\ f \in DeviceData /\ batch # <<>>
      /\ f.num = Len(taken) + 1 /\ f.num \in 1 .. device.sent
      /\ batch \in Seq(DeviceAcks \cup DeviceData)
  <2>1. /\ f \in Range(batch) /\ f \in DeviceAcks \cup DeviceData /\ f.type = "Data"
        /\ f.num \in 1 .. device.sent /\ batch # <<>>
    BY <1>1, HeadOfBatch DEF StreamInv, TypeInv, BatchInv, Handling
  <2>2. f.num = Len(taken) + 1
    BY <1>1, DuplicateIsTaken
  <2> QED  BY <2>1, <2>2 DEF DeviceAcks, TypeInv, TypeOK
<1>6. ASSUME f.for # 0
      PROVE  IsMine(f) /\ ~HasResponse /\ Quiet'
  <2>1. f \in Coming \cap Unread
    BY <1>2, <1>5, <1>6 DEF Coming, Unread
  <2>2. IsMine(f) /\ ~Unanswered
    BY <2>1 DEF LinkPart, AnswerInv, Unanswered
  <2>3. ~HasResponse
    BY <2>2 DEF SessionPart, Quiet
  <2>4. NoCommand
    BY <2>2 DEF LinkPart, CommandInv, NoCommand
  <2>5. NoAck
    <3>1. InOrder(batch, toHost, Unread, DeviceAcks)
      BY DEF LinkPart, AckInv
    <3>2. Range(Tail(batch)) \cap DeviceAcks = {}
      BY <1>5, <2>1, <3>1, BehindTail DEF InOrder
    <3>3. Range(batch) = Range(Tail(batch)) \cup {f}
      BY <1>5, QueueRanges
    <3>4. Range(toHost) \cap DeviceAcks = {}
      BY <1>5, <2>1, <3>1 DEF InOrder
    <3> QED  BY <1>5, <3>2, <3>3, <3>4 DEF NoAck, Coming, DeviceAcks, DeviceData
  <2>6. Current' = Current /\ Current \in Nat /\ device.sent \in Nat
        /\ \A g \in Coming : g.type = "Data" => g.num \in {Current, Current - 1}
                                                /\ g.num \in 1 .. device.sent
    BY <1>1, StreamTypes DEF Current, TypeInv, StreamInv, NumbersInv, Coming
  <2>7. f.num = Current => Live(1) /\ 1 \in DOMAIN device.outbox
    BY <2>1, CurrentIsLive DEF StreamInv
  <2>8. ASSUME NEW i \in DOMAIN device.outbox, Live(i)' PROVE FALSE
    <3>1. device.outbox \in Seq(Messages) /\ i \in Nat
      BY <2>8, SMTT(60) DEF TypeInv, TypeOK, Devices
    <3>2. Live(i) /\ Current + i - 1 > f.num
      BY <1>1, <1>2, <1>5, <2>6, <2>8, <3>1 DEF Live
    <3>3. f.num = Current
      BY <2>1, <2>6, <3>2, <1>5 DEF LinkPart, AnswerInv
    <3>4. i = 1
      BY <2>7, <3>2, <3>3 DEF LinkPart, AnswerInv
    <3> QED  BY <2>6, <3>2, <3>3, <3>4
  <2>9. ASSUME NEW g \in Coming \cap Unread' PROVE FALSE
    <3>1. g.type = "Data" /\ g.num \in Nat /\ g.num > f.num /\ g \in Unread
      BY <1>1, <1>2, <1>5, <2>9 DEF Unread, DeviceData
    <3>2. f.num = Current - 1 /\ g.num = Current
      BY <1>5, <2>1, <2>6, <3>1
    <3>3. Live(1) /\ 1 \in DOMAIN device.outbox
      BY <3>1, <3>2, CurrentIsLive DEF StreamInv
    <3> QED  BY <2>1, <2>6, <3>2, <3>3 DEF LinkPart, AnswerInv
  <2>10. Unanswered'
    BY <1>1, <2>8, <2>9 DEF Unanswered, Coming
  <2> QED  BY <1>4, <2>2, <2>3, <2>4, <2>5, <2>10 DEF Quiet, QuietStays
<1>7. Answering' => f.for # 0
  BY <1>1 DEF Answering
<1>8. (Answering => IsMine(f) /\ ~HasResponse /\ Quiet)'
  BY <1>1, <1>6, <1>7 DEF IsMine, HasResponse, Waiter
<1>9. HasResponse => Quiet'
  BY <1>4 DEF SessionPart, Quiet, QuietStays
<1>10. HasResponse' = HasResponse /\ Waiter' = Waiter
  BY <1>1 DEF HasResponse, Waiter
<1>11. HasResponse => ~Answering'
  BY <1>6, <1>7
<1> QED  BY <1>1, <1>4, <1>8, <1>9, <1>10, <1>11 DEF SessionPart, QuietStays

-----------------------------------------------------------------------------
(* A connection on which no call timed out, from step to step.             *)

\* While connect() or disconnect() is at work the session does not run.
OwnerRest == owner # "idle" => ~running

\* At the start the session does not run.
LEMMA RestInit == Init => OwnerRest
BY DEF Init, OwnerRest

\* disconnect() clears _running first, and StartReader sets it last.
LEMMA RestStep == OwnerRest /\ [Next]_vars => OwnerRest'
<1> SUFFICES ASSUME OwnerRest, [Next]_vars PROVE OwnerRest'
  OBVIOUS
<1>1. ASSUME NEW c \in Callers,
             (\E o \in Ops \cup {NoOp} : Call(c, o)) \/ CallerStep(c) \/ Expire(c)
      PROVE  OwnerRest'
  BY <1>1 DEF OwnerRest, Call, CallerStep, Acquire, Normalise, FetchAdd, Register,
     Write, WriteRefused, WriteFails, WriteFailed, WriteTimesOut, Check, Block,
     Decide, Expire
<1>2. CASE ReaderStep
  BY <1>2 DEF OwnerRest, ReaderStep, Loop, Receive, ReceiveTimesOut, ReceiveFails,
     HandleAck, SendAck, SendAckRefused, SendAckFails, SendAckFailed, DropDuplicate,
     AcceptFrame, MatchRequest, Buffer, Dispatch, Exit, Leave
<1>3. CASE \/ (\E n \in Sequences : SetSequence(n)) \/ Connect
           \/ (\E again \in BOOLEAN : StopReader(again)) \/ OwnerStep
  BY <1>3, SMTT(60) DEF OwnerRest, SetSequence, Connect, StopReader, OwnerStep, NotifyStopped,
     Join, Close, Clear, Open, OpenFails, Start, StartReader
<1>4. CASE DeviceStep \/ DevicePushes \/ Corrupt \/ Drop \/ UNCHANGED vars
  BY <1>4 DEF OwnerRest, DeviceStep, DeviceTakes, DeviceAcked, DeviceSends,
     DevicePushes, Corrupt, Drop, vars
<1> QED  BY <1>1, <1>2, <1>3, <1>4 DEF Next

\* What is linked runs, once a call or the reader is at work.
LEMMA LinkedRuns ==
    ASSUME IdleInv, Linked, (\E c \in Callers : pc[c] # "idle") \/ reader # "none"
    PROVE  running
BY DEF Linked, IdleInv

\* A call starts, waits, or is left alone.
CallersStay ==
    /\ UNCHANGED sendMtx
    /\ \A c \in Callers : \/ pc'[c] = pc[c]
                          \/ pc[c] \in Waiting /\ pc'[c] \in Waiting
                          \/ pc[c] = "idle" /\ pc'[c] = "acquire"
    /\ \A c \in Callers : pc[c] # "idle" =>
          id'[c] = id[c] /\ op'[c] = op[c] /\ seq'[c] = seq[c]

\* The call that waits is still the one that holds _sendMtx.
LEMMA StayingHolds ==
    ASSUME CallersStay PROVE HolderStays /\ Waiter' = Waiter
BY DEF CallersStay, HolderStays, Waiter, Waiting

\* The numbers drawn stay what they were.
LEMMA ParityStays ==
    ASSUME ParityPart, CallersStay, UNCHANGED <<sequence, lastWritten>>
    PROVE  ParityPart'
BY DEF ParityPart, CallersStay, Waiting

\* What the session keeps stays true of the same call.
LEMMA SessionStays ==
    ASSUME SessionPart, CallersStay, QuietStays,
           ~Answering' \/ UNCHANGED <<reader, batch>>,
           UNCHANGED pendingRequest, hasAck' => hasAck, accepted \subseteq accepted',
           Range(unmatchedFrames') \subseteq Range(unmatchedFrames)
    PROVE  SessionPart'
<1>1. HolderStays /\ Waiter' = Waiter
  BY StayingHolds
<1>2. HasResponse' = HasResponse
  BY DEF HasResponse
<1>3. Answering' => Answering /\ Head(batch') = Head(batch)
  BY DEF Answering
<1>4. Quiet => Quiet'
  BY DEF Quiet, QuietStays
<1>5. (Answering => IsMine(Head(batch)) /\ ~HasResponse /\ Quiet)'
  BY <1>1, <1>2, <1>3, <1>4 DEF SessionPart, IsMine, HolderStays
<1>6. HasResponse' => /\ Waiter' /\ pendingRequest'.reply.for = id'[sendMtx']
                      /\ op'[sendMtx'] # NoOp /\ Quiet' /\ ~Answering'
  BY <1>1, <1>2, <1>3, <1>4 DEF SessionPart, HolderStays
<1>7. hasAck' /\ Waiter' => id'[sendMtx'] \in accepted' /\ NoCommand' /\ NoAck'
  BY <1>1 DEF SessionPart, HolderStays, QuietStays
<1>8. \A c \in Callers : pc'[c] = "write" => ~hasAck'
  BY DEF SessionPart, CallersStay, Waiting
<1>9. \A c \in Callers : pc'[c] \in {"write"} \cup Waiting /\ op'[c] # NoOp
         => pendingRequest'.op = op'[c]
  BY DEF SessionPart, CallersStay, Waiting
<1>10. \A f \in Range(unmatchedFrames') : f.op \in PushOps
  BY DEF SessionPart
<1> QED  BY <1>5, <1>6, <1>7, <1>8, <1>9, <1>10 DEF SessionPart

\* Nothing moves on the link.
LinkRests == UNCHANGED <<batch, toHost, toDevice, device, accepted, taken>>

\* A link that rests stays quiet.
LEMMA StillQuiet == LinkRests /\ Quiet => Quiet' /\ LinkPart'
<1>1. LinkRests /\ Quiet => Quiet'
  BY DEF LinkRests, Quiet, NoCommand, NoAck, Unanswered, Coming, Unread, Live, Current
<1> QED  BY <1>1, QuietIsOrdered

\* A link that rests stays in order, whichever call starts.
LEMMA RestingLink ==
    ASSUME TypeInv, LinkPart, CallersStay, LinkRests, UNCHANGED lastWritten
    PROVE  LinkPart' /\ QuietStays
<1>1. /\ HolderStays /\ OutboxStays /\ Drains(toDevice, toDevice')
      /\ Shrinks(batch, toHost, batch', toHost')
      /\ Len(taken') \in Nat /\ Len(taken) <= Len(taken') /\ accepted \subseteq accepted'
  BY StayingHolds, StreamTypes DEF LinkRests, OutboxStays, Drains, Shrinks, TypeInv
<1> QED  BY <1>1, LessOnLink

\* A call that succeeds got its own answer, or its frame was taken; nothing of
\* it is left on its way.
LEMMA SuccessIsOwn ==
    ASSUME TypeInv, HolderInv, LinkPart, SessionPart, IsConnected,
           NEW c \in Callers, Decide(c), ~late'
    PROVE  /\ Quiet /\ ~Answering /\ ~HasResponse'
           /\ IF op[c] = NoOp THEN id[c] \in accepted
                              ELSE pendingRequest.reply.for = id[c]
<1>1. pc[c] = "passed" /\ sendMtx = c /\ Waiter /\ Answered(c)
      /\ pendingRequest' = AfterWait(c)
  BY DEF Decide, HolderInv, Waiter, Waiting
<1>2. op[c] # NoOp => HasResponse
  BY <1>1 DEF Answered
<1>3. CASE op[c] # NoOp
  <2>1. ~HasResponse'
    BY <1>1, <1>3 DEF AfterWait, HasResponse, NoRequest
  <2> QED  BY <1>1, <1>2, <1>3, <2>1 DEF SessionPart
<1>4. CASE op[c] = NoOp
  <2>1. hasAck /\ pendingRequest' = pendingRequest
    BY <1>1, <1>4 DEF Answered, AfterWait
  <2>2. id[c] \in accepted /\ NoCommand /\ NoAck
    BY <1>1, <2>1 DEF SessionPart
  <2>3. \A m : m.op \in Ops \cup PushOps => ~IsMine(m)
    BY <1>1, <1>4, NameAssumption DEF IsMine
  <2>4. Unanswered
    <3>1. \A f \in Coming \cap Unread : f.op \in Ops \cup PushOps
      BY DEF Unread, DeviceData
    <3>2. \A i \in DOMAIN device.outbox : device.outbox[i].op \in Ops \cup PushOps
      <4>1. device.outbox \in Seq(Messages)
        BY DEF TypeInv, TypeOK, Devices
      <4>2. \A i \in DOMAIN device.outbox : device.outbox[i] \in Messages
        BY <4>1
      <4> QED  BY <4>2 DEF Messages
    <3> QED  BY <2>3, <3>1, <3>2 DEF LinkPart, AnswerInv, Unanswered
  <2>5. ~Answering
    <3>1. ASSUME Answering PROVE FALSE
      <4>1. IsMine(Head(batch)) /\ reader = "fresh"
        BY <3>1 DEF SessionPart, Answering
      <4>2. Head(batch) \in DeviceAcks \cup DeviceData /\ Head(batch).type = "Data"
        BY <4>1, HeadTailType DEF TypeInv, TypeOK, BatchInv
      <4> QED  BY <2>3, <4>1, <4>2 DEF DeviceAcks, DeviceData
    <3> QED  BY <3>1
  <2>6. ~HasResponse
    BY <1>1, <1>4 DEF SessionPart
  <2> QED  BY <1>4, <2>1, <2>2, <2>4, <2>5, <2>6 DEF Quiet, HasResponse
<1> QED  BY <1>3, <1>4

\* The call that holds _sendMtx, on its way to the frame it writes.
LEMMA DrawsKeepTimely ==
    ASSUME TypeInv, BitInv, LinkPart, ParityPart, SessionPart, NEW c \in Callers,
           Acquire(c) \/ Normalise(c) \/ FetchAdd(c)
    PROVE  LinkPart' /\ ParityPart' /\ SessionPart'
<1>0. /\ pc \in [Callers -> CallerStates] /\ seq \in [Callers -> Bytes]
      /\ sequence \in Bytes /\ HolderInv /\ CounterInv
  BY DEF TypeInv, TypeOK, BitInv
<1>1. /\ LinkRests /\ UNCHANGED <<lastWritten, reader, pendingRequest, unmatchedFrames,
                                 hasAck, op, id>>
      /\ pc[c] \in {"acquire", "normalise", "add"}
      /\ pc'[c] \in {"normalise", "add", "register"}
      /\ \A d \in Callers : d # c => pc'[d] = pc[d]
      /\ sendMtx' = c
  BY <1>0 DEF LinkRests, Acquire, Normalise, FetchAdd, HolderInv
<1>2. \A d \in Callers : d # c => pc[d] \in {"idle", "acquire"}
  BY <1>0, NameAssumption DEF Acquire, Normalise, FetchAdd, HolderInv
<1>3. ~Waiter /\ ~Waiter'
  <2>1. ~Waiter'
    BY <1>1 DEF Waiter, Waiting
  <2>2. sendMtx = Nobody \/ (sendMtx = c /\ pc[c] \in {"normalise", "add"})
    BY <1>0 DEF Acquire, Normalise, FetchAdd, HolderInv
  <2> QED  BY <2>1, <2>2, NameAssumption DEF Waiter, Waiting
<1>4. Quiet /\ Quiet' /\ LinkPart'
  BY <1>1, <1>3, NobodyWaits, StillQuiet
<1>5. ParityPart'
  <2>1. sequence % 2 \notin lastWritten
    BY <1>1, <1>2 DEF ParityPart
  <2>2. CASE Acquire(c)
    <3>1. sequence' = sequence /\ seq'[c] = sequence /\ pc'[c] \in {"normalise", "add"}
      BY <1>0, <2>2 DEF Acquire
    <3> QED  BY <1>1, <1>2, <2>1, <3>1 DEF ParityPart
  <2>3. CASE Normalise(c)
    <3>1. pc'[c] = "add" /\ sequence' = seq[c] % 2 /\ seq[c] % 2 = sequence % 2
      BY <1>0, <2>3 DEF Normalise, ParityPart
    <3>2. sequence' % 2 = sequence % 2
      BY <1>0, <3>1 DEF Bytes
    <3> QED  BY <1>1, <1>2, <2>1, <3>1, <3>2 DEF ParityPart
  <2>4. CASE FetchAdd(c)
    <3>1. pc'[c] = "register" /\ seq'[c] = sequence /\ sequence \in Bits
          /\ sequence' = (sequence + 1) % 256
      BY <1>0, <2>4 DEF FetchAdd, CounterInv, Bytes, Bits
    <3>2. sequence % 2 = sequence /\ sequence' % 2 # sequence
      BY <3>1 DEF Bits
    <3> QED  BY <1>1, <1>2, <2>1, <3>1, <3>2 DEF ParityPart
  <2> QED  BY <2>2, <2>3, <2>4
<1>6. ~Answering' /\ ~HasResponse'
  BY <1>1, <1>3 DEF SessionPart, Answering, HasResponse, IsMine, LinkRests
<1>7. \A d \in Callers : pc'[d] \notin {"write"} \cup Waiting
  BY <1>1, <1>2 DEF Waiting
<1>8. \A f \in Range(unmatchedFrames') : f.op \in PushOps
  BY <1>1 DEF SessionPart
<1>9. SessionPart'
  BY <1>3, <1>6, <1>7, <1>8 DEF SessionPart
<1> QED  BY <1>4, <1>5, <1>9

\* A new request finds nothing of an earlier one, and no answer in the buffer.
LEMMA RegisterKeepsTimely ==
    ASSUME Ops \cap PushOps = {}, TypeInv, BitInv, LinkPart, ParityPart, SessionPart,
           NEW c \in Callers, Register(c)
    PROVE  LinkPart' /\ ParityPart' /\ SessionPart'
<1>0. pc \in [Callers -> CallerStates] /\ op \in [Callers -> Ops \cup {NoOp}] /\ HolderInv
  BY DEF TypeInv, TypeOK, BitInv
<1>1. /\ LinkRests /\ UNCHANGED <<lastWritten, reader, op, id, seq, sequence, sendMtx>>
      /\ pc[c] = "register" /\ pc'[c] = "write" /\ ~hasAck'
      /\ \A d \in Callers : d # c => pc'[d] = pc[d]
      /\ sendMtx = c
  BY <1>0 DEF LinkRests, Register, HolderInv
<1>2. \A d \in Callers : d # c => pc[d] \in {"idle", "acquire"}
  BY <1>0, <1>1 DEF HolderInv
<1>3. ~Waiter /\ ~Waiter'
  BY <1>1 DEF Waiter, Waiting
<1>4. Quiet /\ Quiet' /\ LinkPart'
  BY <1>1, <1>3, NobodyWaits, StillQuiet
<1>5. ParityPart'
  BY <1>1, <1>2 DEF ParityPart
<1>6. ~Answering' /\ ~HasResponse
  BY <1>1, <1>3 DEF SessionPart, Answering, IsMine, LinkRests
<1>7. /\ ~HasResponse'
      /\ op[c] # NoOp => pendingRequest'.op = op[c]
      /\ UNCHANGED unmatchedFrames
  <2>1. CASE op[c] = NoOp
    BY <1>6, <2>1 DEF Register, HasResponse
  <2>2. CASE op[c] # NoOp
    <3>1. op[c] \notin PushOps
      BY <1>0, <2>2
    <3>2. Buffered(op[c]) = {}
      BY <3>1 DEF Buffered, SessionPart, Range
    <3> QED  BY <2>2, <3>2 DEF Register, Request, HasResponse, NoFrame
  <2> QED  BY <2>1, <2>2
<1>8. \A d \in Callers : pc'[d] \in {"write"} \cup Waiting => d = c
  BY <1>1, <1>2 DEF Waiting
<1>9. \A f \in Range(unmatchedFrames') : f.op \in PushOps
  BY <1>7 DEF SessionPart
<1>10. SessionPart'
  BY <1>1, <1>3, <1>6, <1>7, <1>8, <1>9 DEF SessionPart
<1> QED  BY <1>4, <1>5, <1>10

\* A command goes onto a quiet link, with the other bit than the last.
LEMMA WriteKeepsTimely ==
    ASSUME TypeInv, BitInv, LinkPart, ParityPart, SessionPart, NEW c \in Callers, Write(c)
    PROVE  LinkPart' /\ ParityPart' /\ SessionPart' /\ seq[c] \notin lastWritten
<1>0. pc \in [Callers -> CallerStates] /\ HolderInv /\ CounterInv
  BY DEF TypeInv, TypeOK, BitInv
<1>1. /\ UNCHANGED <<batch, reader, op, id, seq, sequence, sendMtx, pendingRequest,
                     unmatchedFrames, hasAck>>
      /\ lastWritten' = {seq[c]}
      /\ pc[c] = "write" /\ pc'[c] = "wait"
      /\ \A d \in Callers : d # c => pc'[d] = pc[d]
      /\ sendMtx = c
  BY <1>0 DEF Write, HolderInv
<1>2. \A d \in Callers : d # c => pc[d] \in {"idle", "acquire"}
  BY <1>0, <1>1 DEF HolderInv
<1>3. LinkPart'
  BY <1>0, WriteOnLink
<1>4. ParityPart' /\ seq[c] \notin lastWritten
  <2>1. seq[c] \in Bits /\ sequence % 2 # seq[c] /\ seq[c] \notin lastWritten
    BY <1>0, <1>1 DEF CounterInv, ParityPart
  <2> QED  BY <1>1, <1>2, <2>1 DEF ParityPart
<1>5. ~Waiter
  BY <1>1 DEF Waiter, Waiting
<1>6. ~Answering' /\ ~HasResponse'
  BY <1>1, <1>5 DEF SessionPart, Answering, HasResponse, IsMine
<1>7. ~hasAck' /\ (op[c] # NoOp => pendingRequest.op = op[c])
  BY <1>1 DEF SessionPart
<1>8. \A d \in Callers : pc'[d] \in {"write"} \cup Waiting => d = c
  BY <1>1, <1>2 DEF Waiting
<1>9. \A f \in Range(unmatchedFrames') : f.op \in PushOps
  BY <1>1 DEF SessionPart
<1>10. SessionPart'
  BY <1>1, <1>6, <1>7, <1>8, <1>9 DEF SessionPart
<1> QED  BY <1>3, <1>4, <1>10

\* A call ends with nothing on its way.
LEMMA ReturnKeepsTimely ==
    ASSUME TypeInv, BitInv, ParityPart, SessionPart, Quiet, ~Answering, ~HasResponse',
           NEW c \in Callers, NEW r, NEW f, NEW p,
           p = pc \/ (\E cvs : p = Woken(pc, cvs)), Return(c, p, r, f),
           pc[c] \in {"failed", "passed"}, LinkRests,
           UNCHANGED <<lastWritten, reader, seq, sequence, unmatchedFrames>>
    PROVE  LinkPart' /\ ParityPart' /\ SessionPart'
<1>0. pc \in [Callers -> CallerStates] /\ HolderInv
  BY DEF TypeInv, TypeOK, BitInv
<1>1. Quiet' /\ LinkPart'
  BY StillQuiet
<1>2. \A d \in Callers : d # c => pc[d] \in {"idle", "acquire"}
  BY <1>0 DEF HolderInv
<1>3. DOMAIN p = Callers /\ \A d \in Callers : d # c => p[d] = pc[d]
  BY <1>0, <1>2, WokenStays DEF Woken
<1>4. \A d \in Callers : pc'[d] \in {"idle", "acquire"}
  BY <1>2, <1>3 DEF Return
<1>5. ParityPart'
  <2>1. sequence % 2 \notin lastWritten
    BY <1>2 DEF ParityPart
  <2> QED  BY <1>4, <2>1 DEF ParityPart
<1>6. ~Waiter'
  BY <1>4 DEF Waiter, Waiting
<1>7. ~Answering'
  BY DEF Answering, LinkRests
<1>8. \A g \in Range(unmatchedFrames') : g.op \in PushOps
  BY DEF SessionPart
<1>9. SessionPart'
  BY <1>4, <1>6, <1>7, <1>8 DEF SessionPart, Waiting
<1> QED  BY <1>1, <1>5, <1>9

\* A call, from its start to its return.
LEMMA CallsKeepTimely ==
    ASSUME Ops \cap PushOps = {}, TypeInv, BitInv, IdleInv, Linked, TimelyInv,
           NEW c \in Callers, Linked',
           (\E o \in Ops \cup {NoOp} : Call(c, o)) \/ CallerStep(c) \/ Expire(c)
    PROVE  LinkPart' /\ ParityPart' /\ (running' => SessionPart')
<1>0. LinkPart /\ ParityPart /\ (running => SessionPart)
      /\ pc \in [Callers -> CallerStates] /\ HolderInv
  BY DEF TimelyInv, TypeInv, TypeOK, BitInv
<1>1. ASSUME NEW o \in Ops \cup {NoOp}, Call(c, o)
      PROVE  LinkPart' /\ ParityPart' /\ (running' => SessionPart')
  <2>1. CallersStay /\ LinkRests
    BY <1>0, <1>1 DEF Call, CallersStay, LinkRests
  <2>2. UNCHANGED <<lastWritten, reader, batch, sequence, pendingRequest, hasAck,
                    unmatchedFrames, accepted, running>>
    BY <1>1 DEF Call
  <2>3. LinkPart' /\ QuietStays
    BY <1>0, <2>1, <2>2, RestingLink
  <2>4. ParityPart'
    BY <1>0, <2>1, <2>2, ParityStays
  <2>5. running => SessionPart'
    BY <1>0, <2>1, <2>2, <2>3, SessionStays
  <2> QED  BY <2>2, <2>3, <2>4, <2>5
<1>2. ASSUME CallerStep(c) \/ Expire(c)
      PROVE  running /\ SessionPart
  <2>1. pc[c] # "idle"
    BY <1>2 DEF CallerStep, Acquire, Normalise, FetchAdd, Register, Write,
       WriteRefused, WriteFails, WriteFailed, WriteTimesOut, Check, Block, Decide, Expire
  <2> QED  BY <1>0, <2>1, LinkedRuns
<1>3. CASE Acquire(c) \/ Normalise(c) \/ FetchAdd(c)
  BY <1>0, <1>2, <1>3, DrawsKeepTimely DEF CallerStep
<1>4. CASE Register(c)
  BY <1>0, <1>2, <1>4, RegisterKeepsTimely DEF CallerStep
<1>5. CASE Write(c)
  BY <1>0, <1>2, <1>5, WriteKeepsTimely DEF CallerStep
<1>6. CASE WriteRefused(c) \/ WriteTimesOut(c)
  BY <1>6 DEF WriteRefused, WriteTimesOut, Linked
<1>7. CASE WriteFails(c)
  <2>1. ~running' /\ UNCHANGED owner /\ pc[c] # "idle"
    BY <1>7 DEF WriteFails
  <2> QED  BY <2>1 DEF Linked, IdleInv
<1>8. CASE WriteFailed(c)
  <2>1. sendMtx = c /\ pc[c] = "failed"
    BY <1>0, <1>8 DEF HolderInv, WriteFailed
  <2>2. ~Waiter
    BY <2>1 DEF Waiter, Waiting
  <2>3. Quiet /\ ~Answering /\ ~HasResponse
    BY <1>0, <1>2, <1>8, <2>2, NobodyWaits DEF SessionPart, IsMine, CallerStep
  <2>4. LinkRests /\ UNCHANGED <<lastWritten, reader, seq, sequence, unmatchedFrames>>
        /\ ~HasResponse'
    BY <1>8, <2>3 DEF WriteFailed, LinkRests, HasResponse
  <2>5. PICK p : /\ p = pc \/ (\E cvs : p = Woken(pc, cvs))
                 /\ Return(c, p, "failed", 0)
    BY <1>8 DEF WriteFailed
  <2> QED  BY <1>0, <1>2, <1>8, <2>1, <2>3, <2>4, <2>5, ReturnKeepsTimely DEF CallerStep
<1>9. CASE Check(c) \/ Block(c) \/ Expire(c)
  <2>1. CallersStay /\ LinkRests
    BY <1>0, <1>9 DEF Check, Block, Expire, CallersStay, LinkRests, Waiting
  <2>2. UNCHANGED <<lastWritten, reader, batch, sequence, pendingRequest, hasAck,
                    unmatchedFrames, accepted, running>>
    BY <1>9 DEF Check, Block, Expire
  <2>3. LinkPart' /\ QuietStays
    BY <1>0, <2>1, <2>2, RestingLink
  <2>4. ParityPart'
    BY <1>0, <2>1, <2>2, ParityStays
  <2>5. SessionPart'
    BY <1>0, <1>2, <1>9, <2>1, <2>2, <2>3, SessionStays DEF CallerStep
  <2> QED  BY <2>3, <2>4, <2>5
<1>10. CASE Decide(c)
  <2>1. running /\ SessionPart /\ IsConnected /\ ~late'
    BY <1>2, <1>10 DEF CallerStep, Linked, IsConnected
  <2>2. Quiet /\ ~Answering /\ ~HasResponse'
    BY <1>0, <1>10, <2>1, SuccessIsOwn
  <2>3. PICK r, f : Return(c, pc, r, f)
    BY <1>10 DEF Decide
  <2>4. /\ pc[c] = "passed" /\ LinkRests
        /\ UNCHANGED <<lastWritten, reader, seq, sequence, unmatchedFrames>>
    BY <1>10 DEF Decide, LinkRests
  <2> QED  BY <1>0, <2>1, <2>2, <2>3, <2>4, ReturnKeepsTimely
<1> QED  BY <1>1, <1>3, <1>4, <1>5, <1>6, <1>7, <1>8, <1>9, <1>10 DEF CallerStep

\* The reader.
LEMMA ReaderKeepsTimely ==
    ASSUME Ops \cap PushOps = {}, TypeInv, BitInv, IdleInv, StreamInv, ContentInv,
           Linked, TimelyInv, Linked', ReaderStep
    PROVE  LinkPart' /\ ParityPart' /\ (running' => SessionPart')
<1>0. LinkPart /\ ParityPart /\ SessionPart /\ pc \in [Callers -> CallerStates]
      /\ HolderInv
  <2>1. reader # "none"
    BY DEF ReaderStep, Loop, Receive, ReceiveTimesOut, ReceiveFails, HandleAck,
       SendAck, SendAckRefused, SendAckFails, SendAckFailed, DropDuplicate,
       AcceptFrame, MatchRequest, Buffer, Dispatch, Exit, Leave
  <2> QED  BY <2>1, LinkedRuns DEF TimelyInv, TypeInv, TypeOK, BitInv
<1>1. CASE AcceptFrame
  <2>1. LinkPart' /\ SessionPart'
    BY <1>0, <1>1, AcceptOnLink
  <2>2. CallersStay /\ UNCHANGED <<sequence, lastWritten>>
    BY <1>1 DEF AcceptFrame, CallersStay
  <2> QED  BY <1>0, <2>1, <2>2, ParityStays
<1>2. CallersStay
  <2>1. UNCHANGED pc \/ \E cvs : pc' = Woken(pc, cvs)
    BY ReaderReads
  <2>2. \A c \in Callers : pc'[c] = pc[c] \/ (pc[c] = "blocked" /\ pc'[c] = "wait")
    BY <2>1, WakingStays DEF TypeInv
  <2> QED  BY <2>2, ReaderReads DEF CallersStay, Waiting
<1>3. ASSUME ~AcceptFrame PROVE LinkPart' /\ QuietStays
  <2>1. UNCHANGED taken
    BY <1>3 DEF ReaderStep, Loop, Receive, ReceiveTimesOut, ReceiveFails, HandleAck,
       SendAck, SendAckRefused, SendAckFails, SendAckFailed, DropDuplicate,
       MatchRequest, Buffer, Dispatch, Exit, Leave
  <2>2. Len(taken) \in Nat /\ Len(taken) <= Len(taken') /\ Len(taken') \in Nat
    BY <2>1, StreamTypes DEF TypeInv
  <2>3. /\ OutboxStays /\ accepted \subseteq accepted' /\ UNCHANGED lastWritten
        /\ Shrinks(batch, toHost, batch', toHost')
    BY ReaderReads DEF OutboxStays
  <2>4. Drains(toDevice, toDevice') \/ \E e \in HostAcks : toDevice' = Append(toDevice, e)
    BY ReaderReads DEF Drains
  <2> QED  BY <1>0, <1>2, <2>2, <2>3, <2>4, StayingHolds, LessOnLink
<1>4. CASE HandleAck
  <2> DEFINE f == Head(batch)
  <2>1. /\ f \in Range(batch) /\ f \in DeviceAcks /\ f.seq \in Bits
    <3>1. /\ f \in Range(batch) /\ f \in DeviceAcks \cup DeviceData /\ f.seq \in Bits
          /\ f.type = "Ack"
      BY <1>4, HeadOfBatch DEF HandleAck, Handling, TypeInv, StreamInv
    <3> QED  BY <3>1 DEF DeviceData
  <2>2. Waiter /\ id[sendMtx] \in accepted /\ lastWritten = {1 - f.seq}
    BY <1>0, <2>1 DEF LinkPart, AckInv, Coming
  <2>3. NoCommand /\ NoAck'
    <3>1. NoCommand
      BY <1>0, <2>1 DEF LinkPart, CommandInv, NoCommand, NoAck, Coming
    <3>2. batch # <<>> /\ batch \in Seq(DeviceAcks \cup DeviceData)
      BY <1>4 DEF HandleAck, TypeInv, BatchInv, TypeOK
    <3>3. NoneBehind(batch, DeviceAcks, DeviceAcks) /\ Range(toHost) \cap DeviceAcks = {}
      BY <1>0, <2>1 DEF LinkPart, AckInv, InOrder
    <3>4. Range(Tail(batch)) \cap DeviceAcks = {}
      BY <2>1, <3>2, <3>3, BehindTail
    <3>5. batch' = Tail(batch) /\ toHost' = toHost
      BY <1>4 DEF HandleAck, NextFrame
    <3> QED  BY <3>1, <3>3, <3>4, <3>5 DEF NoAck, Coming
  <2>4. sequence' = f.seq /\ UNCHANGED lastWritten
    BY <1>4, <2>1 DEF HandleAck, AckedSequence, Bits
  <2>5. \A c \in Callers : pc'[c] \notin {"normalise", "register", "write"}
    BY <1>0, <1>2, <2>2 DEF Waiter, Waiting, HolderInv, CallersStay
  <2>6. ParityPart'
    <3>1. lastWritten' \subseteq Bits /\ sequence' % 2 \notin lastWritten'
      BY <2>1, <2>2, <2>4 DEF Bits
    <3> QED  BY <2>5, <3>1 DEF ParityPart
  <2>7. LinkPart' /\ QuietStays
    BY <1>3, <1>4 DEF HandleAck, AcceptFrame
  <2>8. HolderStays /\ Waiter' = Waiter
    BY <1>2, StayingHolds
  <2>9. /\ ~Answering' /\ UNCHANGED <<pendingRequest, unmatchedFrames, accepted>>
    BY <1>4 DEF HandleAck, NextFrame, Answering
  <2>10. SessionPart'
    <3>1. HasResponse' = HasResponse /\ (Quiet => Quiet')
      BY <2>7, <2>9 DEF HasResponse, Quiet, QuietStays
    <3>2. HasResponse' => /\ Waiter' /\ pendingRequest'.reply.for = id'[sendMtx']
                          /\ op'[sendMtx'] # NoOp /\ Quiet' /\ ~Answering'
      BY <1>0, <2>8, <2>9, <3>1 DEF SessionPart, HolderStays
    <3>3. id'[sendMtx'] \in accepted' /\ NoCommand' /\ NoAck'
      BY <2>2, <2>3, <2>7, <2>8, <2>9 DEF HolderStays, QuietStays
    <3>4. \A c \in Callers : pc'[c] \in {"write"} \cup Waiting /\ op'[c] # NoOp
             => pendingRequest'.op = op'[c]
      BY <1>0, <1>2, <2>9 DEF SessionPart, CallersStay, Waiting
    <3>5. \A g \in Range(unmatchedFrames') : g.op \in PushOps
      BY <1>0, <2>9 DEF SessionPart
    <3> QED  BY <2>5, <2>9, <3>2, <3>3, <3>4, <3>5 DEF SessionPart
  <2> QED  BY <2>6, <2>7, <2>10
<1>5. ASSUME ~HandleAck, ~AcceptFrame PROVE LinkPart' /\ QuietStays /\ ParityPart'
  <2>1. UNCHANGED <<sequence, lastWritten>>
    BY <1>5 DEF ReaderStep, Loop, Receive, ReceiveTimesOut, ReceiveFails,
       SendAck, SendAckRefused, SendAckFails, SendAckFailed, DropDuplicate,
       MatchRequest, Buffer, Dispatch, Exit, Leave
  <2> QED  BY <1>0, <1>2, <1>3, <1>5, <2>1, ParityStays
<1>6. ASSUME reader = "fresh"
      PROVE  /\ Head(batch).op \in (Ops \cup PushOps) \ {NoOp}
             /\ Head(batch).for = 0 => Head(batch).op \in PushOps
             /\ Head(batch) \in DeviceData
  <2>1. /\ Head(batch) \in Range(batch) /\ Head(batch) \in DeviceAcks \cup DeviceData
        /\ Head(batch).type = "Data"
    BY <1>6, HeadOfBatch DEF Handling, TypeInv, StreamInv, BatchInv
  <2>2. Head(batch) \in DeviceData
    BY <2>1 DEF DeviceAcks
  <2> QED  BY <2>1, <2>2, NameAssumption DEF DeviceData, ContentInv, Coming
<1>7. CASE MatchRequest
  <2>1. /\ reader = "fresh" /\ pendingRequest # NoRequest /\ ~HasResponse
        /\ Head(batch).op = pendingRequest.op
        /\ pendingRequest' = [pendingRequest EXCEPT !.reply = Head(batch)]
        /\ ~Answering' /\ UNCHANGED <<unmatchedFrames, hasAck, accepted>>
    BY <1>7 DEF MatchRequest, IsAwaited, NextFrame, Answering
  <2>2. pendingRequest \in Requests
    BY DEF TypeInv, TypeOK
  <2>3. pendingRequest'.op = pendingRequest.op /\ pendingRequest'.reply = Head(batch)
    BY <2>1, <2>2 DEF Requests
  <2>4. Head(batch).for # 0
    <3>1. pendingRequest.op \in Ops \cup {NoOp}
      BY <2>2 DEF Requests
    <3> QED  BY <1>6, <2>1, <3>1
  <2>5. IsMine(Head(batch)) /\ Quiet
    BY <1>0, <2>1, <2>4 DEF SessionPart, Answering
  <2>6. LinkPart' /\ QuietStays /\ ParityPart'
    BY <1>5, <1>7 DEF MatchRequest, HandleAck, AcceptFrame
  <2>7. HolderStays /\ Waiter' = Waiter
    BY <1>2, StayingHolds
  <2>8. SessionPart'
    <3>1. /\ Waiter' /\ pendingRequest'.reply.for = id'[sendMtx']
          /\ op'[sendMtx'] # NoOp /\ Quiet'
      BY <1>6, <2>1, <2>3, <2>5, <2>6, <2>7 DEF HolderStays, IsMine, Quiet, QuietStays
    <3>2. hasAck' /\ Waiter' => id'[sendMtx'] \in accepted' /\ NoCommand' /\ NoAck'
      BY <1>0, <2>1, <2>6, <2>7 DEF SessionPart, HolderStays, QuietStays
    <3>3. \A c \in Callers : pc'[c] = "write" => ~hasAck'
      BY <1>0, <1>2, <2>1 DEF SessionPart, CallersStay, Waiting
    <3>4. \A c \in Callers : pc'[c] \in {"write"} \cup Waiting /\ op'[c] # NoOp
             => pendingRequest'.op = op'[c]
      BY <1>0, <1>2, <2>3 DEF SessionPart, CallersStay, Waiting
    <3>5. \A g \in Range(unmatchedFrames') : g.op \in PushOps
      BY <1>0, <2>1 DEF SessionPart
    <3> QED  BY <2>1, <3>1, <3>2, <3>3, <3>4, <3>5 DEF SessionPart
  <2> QED  BY <2>6, <2>8
<1>8. CASE Buffer
  <2>1. /\ reader = "fresh" /\ ~IsAwaited /\ ~Answering'
        /\ unmatchedFrames' = Evict(Append(unmatchedFrames, Head(batch)))
        /\ UNCHANGED <<hasAck, accepted, pendingRequest>>
    BY <1>8 DEF Buffer, Answering
  <2>2. LinkPart' /\ QuietStays /\ ParityPart'
    BY <1>5, <1>8 DEF Buffer, HandleAck, AcceptFrame
  <2>3. Head(batch).op \in PushOps
    <3>1. ASSUME Head(batch).for # 0 PROVE FALSE
      <4>1. IsMine(Head(batch)) /\ ~HasResponse
        BY <1>0, <2>1, <3>1 DEF SessionPart, Answering
      <4>2. op[sendMtx] = Head(batch).op /\ op[sendMtx] # NoOp
        BY <1>6, <2>1, <4>1 DEF IsMine
      <4>3. pendingRequest.op = op[sendMtx]
        BY <1>0, <4>1, <4>2 DEF SessionPart, IsMine, Waiter
      <4> QED  BY <2>1, <4>1, <4>2, <4>3 DEF IsAwaited, NoRequest
    <3> QED  BY <1>6, <2>1, <3>1
  <2>4. \A g \in Range(unmatchedFrames') : g.op \in PushOps
    <3>1. unmatchedFrames \in Seq(DeviceData) /\ Head(batch) \in DeviceData
      BY <1>6, <2>1 DEF TypeInv, TypeOK
    <3> DEFINE q == Append(unmatchedFrames, Head(batch))
    <3>2. Range(q) = Range(unmatchedFrames) \cup {Head(batch)}
      BY <3>1, AppendRange
    <3>3. q \in Seq(DeviceData) /\ Len(q) = Len(unmatchedFrames) + 1
      BY <3>1, AppendType
    <3> HIDE DEF q
    <3>4. q # <<>>
      BY <3>1, <3>3, EmptySeq
    <3>5. Range(Tail(q)) \subseteq Range(q)
      BY <3>3, <3>4, QueueRanges
    <3>6. Range(unmatchedFrames') \subseteq Range(q)
      BY <2>1, <3>5 DEF Evict, q
    <3> QED  BY <1>0, <2>3, <3>2, <3>6 DEF SessionPart
  <2>5. SessionPart'
    <3>1. HolderStays /\ Waiter' = Waiter /\ HasResponse' = HasResponse
          /\ (Quiet => Quiet')
      BY <1>2, <2>1, <2>2, StayingHolds DEF HasResponse, Quiet, QuietStays
    <3>2. HasResponse' => /\ Waiter' /\ pendingRequest'.reply.for = id'[sendMtx']
                          /\ op'[sendMtx'] # NoOp /\ Quiet'
      BY <1>0, <2>1, <3>1 DEF SessionPart, HolderStays
    <3>3. hasAck' /\ Waiter' => id'[sendMtx'] \in accepted' /\ NoCommand' /\ NoAck'
      BY <1>0, <2>1, <2>2, <3>1 DEF SessionPart, HolderStays, QuietStays
    <3>4. \A c \in Callers : pc'[c] = "write" => ~hasAck'
      BY <1>0, <1>2, <2>1 DEF SessionPart, CallersStay, Waiting
    <3>5. \A c \in Callers : pc'[c] \in {"write"} \cup Waiting /\ op'[c] # NoOp
             => pendingRequest'.op = op'[c]
      BY <1>0, <1>2, <2>1 DEF SessionPart, CallersStay, Waiting
    <3> QED  BY <2>1, <2>4, <3>2, <3>3, <3>4, <3>5 DEF SessionPart
  <2> QED  BY <2>2, <2>5
<1>9. CASE \/ Loop \/ (\E n \in 1 .. MaxInFlight : Receive(n)) \/ ReceiveTimesOut
           \/ ReceiveFails \/ SendAck \/ SendAckRefused \/ SendAckFails
           \/ SendAckFailed \/ DropDuplicate \/ Dispatch \/ Exit \/ Leave
  <2>1. ~HandleAck /\ ~AcceptFrame
    BY <1>9 DEF HandleAck, AcceptFrame, Loop, Receive, ReceiveTimesOut, ReceiveFails,
       SendAck, SendAckRefused, SendAckFails, SendAckFailed, DropDuplicate, Dispatch,
       Exit, Leave
  <2>2. reader' # "fresh" /\ UNCHANGED <<pendingRequest, hasAck, unmatchedFrames>>
    BY <1>9 DEF Loop, Receive, ReceiveTimesOut, ReceiveFails,
       SendAck, SendAckRefused, SendAckFails, SendAckFailed, DropDuplicate, Dispatch,
       Exit, Leave, NextFrame
  <2>3. LinkPart' /\ QuietStays /\ ParityPart'
    BY <1>5, <2>1
  <2>4. ~Answering' /\ accepted \subseteq accepted'
    BY <2>2, ReaderReads DEF Answering
  <2>5. SessionPart'
    BY <1>0, <1>2, <2>2, <2>3, <2>4, SessionStays
  <2> QED  BY <2>3, <2>5
<1> QED  BY <1>1, <1>4, <1>7, <1>8, <1>9 DEF ReaderStep

\* The owner: connect() starts from a connection that is empty.
LEMMA OwnerKeepsTimely ==
    ASSUME TypeInv, IdleInv, OwnerRest, Linked => TimelyInv, Linked',
           \/ (\E n \in Sequences : SetSequence(n)) \/ Connect
           \/ (\E again \in BOOLEAN : StopReader(again)) \/ OwnerStep
    PROVE  LinkPart' /\ ParityPart' /\ (running' => SessionPart')
<1>1. CASE \/ (\E n \in Sequences : SetSequence(n)) \/ Connect
           \/ (\E again \in BOOLEAN : StopReader(again)) \/ Join \/ Close \/ Clear
           \/ OpenFails
  BY <1>1 DEF Linked, OwnerRest, SetSequence, Connect, StopReader, Join, Close, Clear,
              OpenFails
<1>2. CASE NotifyStopped /\ owner = "stopping"
  BY <1>2 DEF Linked, OwnerRest, NotifyStopped
<1>3. CASE Open
  <2>1. /\ toDevice' = <<>> /\ toHost' = <<>> /\ batch' = <<>> /\ device'.outbox = <<>>
        /\ lastWritten' = {} /\ ~running' /\ \A c \in Callers : pc'[c] = "idle"
    BY <1>3 DEF Open, NewDevice, IdleInv, Handling
  <2>2. Quiet'
    BY <2>1 DEF Quiet, NoCommand, NoAck, Unanswered, Coming, Range
  <2>3. ParityPart'
    BY <2>1 DEF ParityPart
  <2> QED  BY <2>1, <2>2, <2>3, QuietIsOrdered
<1>4. ASSUME Start \/ StartReader \/ (NotifyStopped /\ owner # "stopping")
      PROVE  Linked /\ LinkPart' /\ ParityPart'
  <2>1. LinkRests /\ UNCHANGED <<lastWritten, sequence, link, late>>
    BY <1>4 DEF Start, StartReader, NotifyStopped, LinkRests, IdleInv, Handling
  <2>2. owner \in {"starting", "restarting", "rejoining"}
    BY <1>4 DEF Start, StartReader, NotifyStopped
  <2>3. Linked
    BY <2>1, <2>2 DEF Linked
  <2>4. LinkPart /\ ParityPart
    BY <2>3 DEF TimelyInv
  <2>5. CallersStay
    <3>1. UNCHANGED <<sendMtx, op, id, seq>>
      BY <1>4 DEF Start, StartReader, NotifyStopped
    <3>2. UNCHANGED pc \/ \E cvs : pc' = Woken(pc, cvs)
      BY <1>4 DEF Start, StartReader, NotifyStopped, NotifyAll
    <3>3. \A c \in Callers : pc'[c] = pc[c] \/ (pc[c] = "blocked" /\ pc'[c] = "wait")
      BY <3>2, WakingStays DEF TypeInv
    <3> QED  BY <3>1, <3>3 DEF CallersStay, Waiting
  <2> QED  BY <2>1, <2>3, <2>4, <2>5, RestingLink, ParityStays
<1>5. CASE Start \/ (NotifyStopped /\ owner # "stopping")
  <2>1. ~running'
    BY <1>5 DEF Start, NotifyStopped, OwnerRest
  <2> QED  BY <1>4, <1>5, <2>1
<1>6. CASE StartReader
  <2>1. /\ reader' = "loop" /\ pendingRequest' = NoRequest /\ unmatchedFrames' = <<>>
        /\ \A c \in Callers : pc'[c] = "idle"
    BY <1>6 DEF StartReader, IdleInv
  <2>2. SessionPart'
    BY <2>1 DEF SessionPart, Answering, HasResponse, NoRequest, NoFrame, Waiter, Waiting,
                Range
  <2> QED  BY <1>4, <1>6, <2>2
<1> QED  BY <1>1, <1>2, <1>3, <1>5, <1>6 DEF OwnerStep

\* The link and the headphones.
LEMMA LinkKeepsTimely ==
    ASSUME TypeInv, StreamInv, ContentInv, TimelyInv, Linked, Linked',
           DeviceStep \/ DevicePushes \/ Corrupt \/ Drop \/ UNCHANGED vars
    PROVE  LinkPart' /\ ParityPart' /\ (running' => SessionPart')
<1>1. UNCHANGED <<notLink>>
  BY DEF DeviceStep, DeviceTakes, DeviceAcked, DeviceSends, DevicePushes, Corrupt,
         Drop, vars
<1>2. /\ LinkPart /\ ParityPart /\ (running => SessionPart) /\ CallersStay
      /\ UNCHANGED <<sequence, lastWritten, reader, batch, taken, pendingRequest, hasAck,
                     unmatchedFrames, running>>
  BY <1>1 DEF TimelyInv, CallersStay
<1>3. ParityPart'
  BY <1>2, ParityStays
<1>4. CASE DeviceTakes
  <2>1. LinkPart' /\ Waiter /\ ~NoCommand
    BY <1>2, <1>4, TakeOnLink
  <2>2. running => ~Answering /\ ~HasResponse /\ ~hasAck
    BY <1>2, <2>1 DEF SessionPart, Quiet
  <2>3. ASSUME running PROVE SessionPart'
    <3>1. ~Answering' /\ ~HasResponse' /\ ~hasAck'
      BY <1>2, <2>2, <2>3 DEF Answering, HasResponse
    <3>2. \A c \in Callers : pc'[c] \in {"write"} \cup Waiting /\ op'[c] # NoOp
             => pendingRequest'.op = op'[c]
      BY <1>2, <2>3 DEF SessionPart, CallersStay, Waiting
    <3>3. \A g \in Range(unmatchedFrames') : g.op \in PushOps
      BY <1>2, <2>3 DEF SessionPart
    <3> QED  BY <3>1, <3>2, <3>3 DEF SessionPart
  <2> QED  BY <1>2, <1>3, <2>1, <2>3
<1>5. ASSUME ~DeviceTakes PROVE LinkPart' /\ QuietStays /\ UNCHANGED accepted
  <2>1. CASE DeviceAcked
    BY <1>2, <2>1, AckedOnLink DEF DeviceAcked
  <2>2. CASE DeviceSends
    BY <1>2, <2>2, SendOnLink DEF DeviceSends
  <2>3. CASE DevicePushes \/ Corrupt \/ Drop \/ UNCHANGED vars
    <3>1. /\ Drains(toDevice, toDevice') /\ Drains(toHost, toHost') /\ UNCHANGED accepted
      BY <2>3 DEF DevicePushes, Corrupt, Drop, vars, Drains
    <3>2. OutboxStays
      <4>1. CASE DevicePushes
        <5>1. PICK o \in PushOps :
                 device'.outbox = Append(device.outbox, [op |-> o, for |-> 0])
          BY <4>1 DEF DevicePushes, TypeInv, TypeOK, Devices
        <5>2. [op |-> o, for |-> 0] \in Messages
          BY NumberAssumption DEF Messages
        <5>3. device'.flying = device.flying /\ device'.sent = device.sent
          BY <4>1 DEF DevicePushes, TypeInv, TypeOK, Devices
        <5> QED  BY <5>1, <5>2, <5>3 DEF OutboxStays
      <4>2. CASE Corrupt \/ Drop \/ UNCHANGED vars
        BY <4>2 DEF Corrupt, Drop, vars, OutboxStays
      <4> QED  BY <2>3, <4>1, <4>2
    <3>3. Shrinks(batch, toHost, batch', toHost')
      BY <1>2, <3>1 DEF Shrinks
    <3>4. Len(taken') \in Nat /\ Len(taken) <= Len(taken') /\ accepted \subseteq accepted'
      BY <1>2, <3>1, StreamTypes DEF TypeInv
    <3> QED  BY <1>2, <3>1, <3>2, <3>3, <3>4, StayingHolds, LessOnLink
  <2> QED  BY <1>5, <2>1, <2>2, <2>3 DEF DeviceStep
<1>6. CASE ~DeviceTakes
  <2>1. running => SessionPart'
    BY <1>2, <1>5, <1>6, SessionStays
  <2> QED  BY <1>2, <1>3, <1>5, <1>6, <2>1
<1> QED  BY <1>4, <1>6

\* A connection comes up with Open, and with nothing else.
LEMMA LinkedBefore ==
    ASSUME [Next]_vars, Linked', ~Linked PROVE Open
<1>1. CASE UNCHANGED vars
  BY <1>1 DEF vars, Linked
<1>2. ASSUME NEW c \in Callers,
             (\E o \in Ops \cup {NoOp} : Call(c, o)) \/ CallerStep(c) \/ Expire(c)
      PROVE  FALSE
  BY <1>2 DEF Linked, Call, CallerStep, Acquire, Normalise, FetchAdd, Register,
     Write, WriteRefused, WriteFails, WriteFailed, WriteTimesOut, Check, Block,
     Decide, Expire
<1>3. CASE ReaderStep
  BY <1>3 DEF Linked, ReaderStep, Loop, Receive, ReceiveTimesOut, ReceiveFails,
     HandleAck, SendAck, SendAckRefused, SendAckFails, SendAckFailed, DropDuplicate,
     AcceptFrame, MatchRequest, Buffer, Dispatch, Exit, Leave
<1>4. CASE \/ (\E n \in Sequences : SetSequence(n)) \/ Connect
           \/ (\E again \in BOOLEAN : StopReader(again)) \/ OwnerStep
  BY <1>4 DEF Linked, SetSequence, Connect, StopReader, OwnerStep, NotifyStopped,
     Join, Close, Clear, OpenFails, Start, StartReader
<1>5. CASE DeviceStep \/ DevicePushes \/ Corrupt \/ Drop
  BY <1>5 DEF Linked, DeviceStep, DeviceTakes, DeviceAcked, DeviceSends,
     DevicePushes, Corrupt, Drop
<1> QED  BY <1>1, <1>2, <1>3, <1>4, <1>5 DEF Next

\* Every step of a connection on which no call timed out keeps TimelyInv.
LEMMA TimelyStep ==
    ASSUME Ops \cap PushOps = {}, TypeInv, BitInv, IdleInv, OwnerRest, StreamInv,
           ContentInv, TimelyInv, [Next]_vars
    PROVE  TimelyInv'
<1> SUFFICES ASSUME Linked' PROVE LinkPart' /\ ParityPart' /\ (running' => SessionPart')
  BY DEF TimelyInv
<1>1. CASE \/ (\E n \in Sequences : SetSequence(n)) \/ Connect
           \/ (\E again \in BOOLEAN : StopReader(again)) \/ OwnerStep
  BY <1>1, OwnerKeepsTimely
<1>2. CASE Linked
  BY <1>1, <1>2, CallsKeepTimely, ReaderKeepsTimely, LinkKeepsTimely DEF Next
<1>3. CASE ~Linked
  BY <1>1, <1>3, LinkedBefore DEF OwnerStep
<1> QED  BY <1>2, <1>3

\* At the start there is no connection.
LEMMA TimelyInit == Init => TimelyInv
BY DEF Init, TimelyInv, Linked

\* What is known of every state of a session whose owner is orderly.
OrderlyInv == /\ TypeInv /\ BitInv /\ IdleInv /\ OwnerRest /\ StreamInv
              /\ ContentInv /\ TimelyInv

\* OrderlyInv is inductive.
LEMMA OrderlyHolds ==
    ASSUME OrderlyOwner, Ops \cap PushOps = {} PROVE Spec => []OrderlyInv
<1>1. Init => OrderlyInv
  BY TypeInit, BitInit, IdleInit, RestInit, StreamInit, ContentInit, TimelyInit
  DEF OrderlyInv
<1>2. OrderlyInv /\ [Next]_vars => OrderlyInv'
  <2> SUFFICES ASSUME OrderlyInv, [Next]_vars PROVE OrderlyInv'
    OBVIOUS
  <2>1. TypeInv' /\ BitInv' /\ IdleInv' /\ OwnerRest'
    BY TypeStep, BitStep, IdleStep, RestStep DEF OrderlyInv
  <2>2. StreamInv'
    BY StreamStep DEF OrderlyInv, StreamMoves
  <2>3. ContentInv' /\ TimelyInv'
    BY <2>2, ContentStep, TimelyStep DEF OrderlyInv
  <2> QED  BY <2>1, <2>2, <2>3 DEF OrderlyInv
<1> QED  BY <1>1, <1>2, PTL DEF Spec

\* On a connection where no call timed out, a request that succeeds returns its
\* own answer, and the headphones took the frame of a send() that succeeds.
THEOREM TimelyAnswersAreOwn ==
    ASSUME OrderlyOwner, Ops \cap PushOps = {} PROVE Spec => TimelyAnswers
<1>1. ASSUME OrderlyInv, [Next]_vars, NEW c \in Callers, Succeeds(c), ~late
      PROVE  IF op[c] = NoOp THEN id[c] \in accepted ELSE outcome'[c].for = id[c]
  <2>1. outcome \in [Callers -> Outcomes]
    BY <1>1 DEF OrderlyInv, TypeInv, TypeOK
  <2>2. Decide(c) /\ IsConnected /\ ~late'
        /\ outcome'[c] = Outcome("ok", id[c], IF op[c] = NoOp THEN 0
                                              ELSE pendingRequest.reply.for)
    <3>1. ASSUME NEW d \in Callers, Decide(d)
          PROVE  Decide(c) /\ IsConnected /\ ~late'
                 /\ outcome'[c] = Outcome("ok", id[c], IF op[c] = NoOp THEN 0
                                                       ELSE pendingRequest.reply.for)
      <4>1. d = c
        BY <1>1, <2>1, <3>1 DEF Succeeds, Decide, Return
      <4>2. outcome'[c].result = "ok"
        BY <1>1 DEF Succeeds
      <4>3. \A r, f : Return(c, pc, r, f) => outcome'[c] = Outcome(r, id[c], f)
        BY <2>1 DEF Return
      <4>4. ASSUME NEW r, NEW f, Return(c, pc, r, f) PROVE r = "ok"
        BY <2>1, <4>2, <4>4 DEF Return, Outcome
      <4>5. IsConnected /\ Answered(c)
        BY <3>1, <4>1, <4>4 DEF Decide
      <4> QED  BY <1>1, <3>1, <4>1, <4>3, <4>5 DEF Decide
    <3>2. ASSUME NEW d \in Callers, ~Decide(d),
                 (\E o \in Ops \cup {NoOp} : Call(d, o)) \/ CallerStep(d) \/ Expire(d)
          PROVE  FALSE
      <4>1. \A r, i, f : Outcome(r, i, f).result = r
        BY DEF Outcome
      <4>2. UNCHANGED outcome
            \/ \E r \in {"none", "disconnected", "failed", "timeout"} : \E i, f :
                  outcome' = [outcome EXCEPT ![d] = Outcome(r, i, f)]
        BY <3>2 DEF Call, CallerStep, Acquire, Normalise, FetchAdd, Register, Write,
           WriteRefused, WriteFails, WriteFailed, WriteTimesOut, Check, Block, Expire,
           Return, NoOutcome
      <4> QED  BY <1>1, <2>1, <4>1, <4>2 DEF Succeeds
    <3>3. ASSUME UNCHANGED outcome PROVE FALSE
      BY <1>1, <3>3 DEF Succeeds
    <3>4. CASE ReaderStep
      BY <3>3, <3>4 DEF ReaderStep, Loop, Receive, ReceiveTimesOut, ReceiveFails,
         HandleAck, SendAck, SendAckRefused, SendAckFails, SendAckFailed, DropDuplicate,
         AcceptFrame, MatchRequest, Buffer, Dispatch, Exit, Leave
    <3>5. CASE \/ (\E n \in Sequences : SetSequence(n)) \/ Connect
               \/ (\E again \in BOOLEAN : StopReader(again)) \/ OwnerStep
      BY <3>3, <3>5 DEF SetSequence, Connect, StopReader, OwnerStep, NotifyStopped,
         Join, Close, Clear, Open, OpenFails, Start, StartReader
    <3>6. CASE DeviceStep \/ DevicePushes \/ Corrupt \/ Drop \/ UNCHANGED vars
      BY <3>3, <3>6 DEF DeviceStep, DeviceTakes, DeviceAcked, DeviceSends,
         DevicePushes, Corrupt, Drop, vars
    <3> QED  BY <1>1, <3>1, <3>2, <3>4, <3>5, <3>6 DEF Next
  <2>3. Linked /\ running
    BY <1>1, <2>2 DEF IsConnected, Linked
  <2>4. TypeInv /\ HolderInv /\ LinkPart /\ SessionPart
    BY <1>1, <2>3 DEF OrderlyInv, BitInv, TimelyInv
  <2>5. IF op[c] = NoOp THEN id[c] \in accepted ELSE pendingRequest.reply.for = id[c]
    BY <2>2, <2>4, SuccessIsOwn
  <2> QED  BY <2>2, <2>5 DEF Outcome
<1>2. OrderlyInv /\ [Next]_vars
      => [\A c \in Callers : Succeeds(c) /\ ~late =>
             IF op[c] = NoOp THEN id[c] \in accepted
                             ELSE outcome'[c].for = id[c]]_vars
  BY <1>1
<1>3. Spec => []OrderlyInv
  BY OrderlyHolds
<1> QED  BY <1>2, <1>3, PTL DEF Spec, TimelyAnswers

\* Consecutive data frames of such a connection carry different sequence bits.
THEOREM BitsAlternate ==
    ASSUME OrderlyOwner, Ops \cap PushOps = {} PROVE Spec => Alternates
<1>1. ASSUME OrderlyInv, [Next]_vars, Len(toDevice') > Len(toDevice),
             Last(toDevice').type = "Data", running, ~late
      PROVE  Last(toDevice').seq \notin lastWritten
  <2>1. toDevice \in Seq(HostAcks \cup HostData)
    BY <1>1 DEF OrderlyInv, TypeInv, TypeOK
  <2>2. ASSUME NEW e \in HostAcks \cup HostData, toDevice' = Append(toDevice, e)
        PROVE  Last(toDevice') = e
    BY <2>1, <2>2 DEF Last
  <2>3. ASSUME Drains(toDevice, toDevice') PROVE FALSE
    BY <1>1, <2>1, <2>3, HeadTailType, EmptyType DEF Drains
  <2>4. ASSUME NEW c \in Callers, Write(c) PROVE Last(toDevice').seq \notin lastWritten
    <3> DEFINE f == [type |-> "Data", seq |-> seq[c], op |-> op[c], id |-> id[c]]
    <3>1. f \in HostAcks \cup HostData /\ toDevice' = Append(toDevice, f) /\ f.seq = seq[c]
      BY <1>1, <2>4 DEF Write, OrderlyInv, TypeInv, TypeOK, HostData
    <3>2. Linked
      BY <1>1, <2>4 DEF Write, Linked
    <3>3. seq[c] \notin lastWritten
      BY <1>1, <2>4, <3>2, WriteKeepsTimely DEF OrderlyInv, TimelyInv
    <3> HIDE DEF f
    <3> QED  BY <2>2, <3>1, <3>3
  <2>5. ASSUME NEW c \in Callers, ~Write(c),
               (\E o \in Ops \cup {NoOp} : Call(c, o)) \/ CallerStep(c) \/ Expire(c)
        PROVE  FALSE
    BY <2>3, <2>5 DEF Drains, Call, CallerStep, Acquire, Normalise, FetchAdd, Register,
       WriteRefused, WriteFails, WriteFailed, WriteTimesOut, Check, Block, Decide, Expire
  <2>6. CASE ReaderStep
    <3>1. ASSUME NEW e \in HostAcks, toDevice' = Append(toDevice, e) PROVE FALSE
      BY <1>1, <2>2, <3>1 DEF HostAcks
    <3> QED  BY <1>1, <2>3, <2>6, <3>1, ReaderReads DEF OrderlyInv, Drains
  <2>7. CASE \/ (\E n \in Sequences : SetSequence(n)) \/ Connect
             \/ (\E again \in BOOLEAN : StopReader(again)) \/ OwnerStep
    BY <2>3, <2>7, SMTT(60) DEF Drains, SetSequence, Connect, StopReader, OwnerStep, NotifyStopped,
       Join, Close, Clear, Open, OpenFails, Start, StartReader
  <2>8. CASE DeviceStep \/ DevicePushes \/ Corrupt \/ Drop \/ UNCHANGED vars
    BY <2>3, <2>8 DEF Drains, DeviceStep, DeviceTakes, DeviceAcked, DeviceSends,
       DevicePushes, Corrupt, Drop, vars
  <2> QED  BY <1>1, <2>4, <2>5, <2>6, <2>7, <2>8 DEF Next
<1>2. OrderlyInv /\ [Next]_vars
      => [/\ Len(toDevice') > Len(toDevice)
          /\ Last(toDevice').type = "Data"
          /\ running /\ ~late
          => Last(toDevice').seq \notin lastWritten]_vars
  BY <1>1
<1>3. Spec => []OrderlyInv
  BY OrderlyHolds
<1> QED  BY <1>2, <1>3, PTL DEF Spec, Alternates
=============================================================================
