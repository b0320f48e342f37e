--------------------------- MODULE SessionProofs ---------------------------
(* Proofs about Session, for every value of its constants: its types, a     *)
(* live reader, sequence numbers that are bits; and with an owner that      *)
(* disconnects before it connects again, the pending request, the stream of *)
(* the headphones, and the frames kept over a reconnection.                 *)
EXTENDS SessionProps, SequenceTheorems, TLAPS

-----------------------------------------------------------------------------
(* The inductive invariant: types, and what the types of the next state    *)
(* need to know of the positions of the threads.                           *)

\* A reader that is handling frames has one; past _sendAck it is data.
BatchInv ==
    /\ reader \in {"handle", "notify", "acked", "fresh", "dispatch"} =>
          batch # <<>>
    /\ reader \in {"notify", "acked", "fresh", "dispatch"} =>
          Head(batch).type = "Data"

\* The frame the headphones retransmit is the head of their queue.
DeviceInv == device.flying => device.outbox # <<>>

\* connect() only goes on to open a connection the bound leaves room for.
OwnerInv ==
    \/ owner = "opening"
    \/ reconnect /\ owner \in {"stopping", "joining", "closing", "clearing"}
    => conn < MaxConnects

TypeInv == TypeOK /\ BatchInv /\ DeviceInv /\ OwnerInv

-----------------------------------------------------------------------------
(* Sequences.                                                              *)

\* What Head and Tail of a nonempty sequence are.
LEMMA HeadTailType ==
    ASSUME NEW S, NEW q \in Seq(S), q # <<>>
    PROVE  Head(q) \in S /\ Tail(q) \in Seq(S) /\ Len(Tail(q)) = Len(q) - 1
BY HeadTailProperties

\* The empty sequence is a sequence of anything.
LEMMA EmptyType == ASSUME NEW S PROVE <<>> \in Seq(S) /\ Len(<<>>) = 0
OBVIOUS

\* A sequence grown at its end.
LEMMA AppendType ==
    ASSUME NEW S, NEW q \in Seq(S), NEW e \in S
    PROVE  Append(q, e) \in Seq(S) /\ Len(Append(q, e)) = Len(q) + 1
BY AppendProperties

\* The two parts Receive(n) cuts the link's queue into, and their lengths.
LEMMA CutType ==
    ASSUME NEW S, NEW q \in Seq(S), NEW n \in 1 .. Len(q)
    PROVE  /\ SubSeq(q, 1, n) \in Seq(S)
           /\ SubSeq(q, 1, n) # <<>>
           /\ SubSeq(q, n + 1, Len(q)) \in Seq(S)
<1>1. \A i \in 1 .. Len(q) : q[i] \in S
  OBVIOUS
<1>2. /\ SubSeq(q, 1, n) \in Seq(S) /\ Len(SubSeq(q, 1, n)) = n
  BY <1>1, SubSeqProperties
<1>3. SubSeq(q, n + 1, Len(q)) \in Seq(S)
  BY <1>1, SubSeqProperties
<1> QED  BY <1>2, <1>3

\* A frame taken out of the buffer leaves a shorter one.
LEMMA RemoveAtType ==
    ASSUME NEW S, NEW q \in Seq(S), NEW i \in 1 .. Len(q)
    PROVE  /\ RemoveAt(q, i) \in Seq(S)
           /\ Len(RemoveAt(q, i)) = Len(q) - 1
<1> DEFINE l == SubSeq(q, 1, i - 1)
           r == SubSeq(q, i + 1, Len(q))
<1>1. \A j \in 1 .. Len(q) : q[j] \in S
  OBVIOUS
<1>2. Len(q) \in Nat /\ i \in Nat /\ 1 <= i /\ i <= Len(q)
  OBVIOUS
<1>3. l \in Seq(S) /\ Len(l) = i - 1
  BY <1>1, <1>2, SubSeqProperties
<1>4. r \in Seq(S) /\ Len(r) = Len(q) - i
  BY <1>1, <1>2, SubSeqProperties
<1>5. RemoveAt(q, i) = l \o r
  BY Zenon DEF RemoveAt
<1> HIDE DEF l, r
<1>6. l \o r \in Seq(S) /\ Len(l \o r) = Len(l) + Len(r)
  BY <1>3, <1>4, ConcatProperties
<1> QED  BY <1>2, <1>3, <1>4, <1>5, <1>6

\* The arithmetic of nextSequenceNumber stays within a byte.
LEMMA ByteArithmetic ==
    ASSUME NEW n \in Bytes
    PROVE  /\ n % 2 \in Bits /\ n % 2 \in Bytes
           /\ (n + 1) % 256 \in Bytes
           /\ n <= 254 => (n + 1) % 256 = n + 1
BY DEF Bytes, Bits

\* Waking callers moves them to a state of theirs.
LEMMA WokenType ==
    ASSUME pc \in [Callers -> CallerStates], NEW cvs
    PROVE  Woken(pc, cvs) \in [Callers -> CallerStates]
BY DEF Woken, CallerStates

-----------------------------------------------------------------------------
(* Each step keeps the types, actor by actor.                              *)

USE DEF sessionVars, frameVars, readerVars, argVars, callData, callVars,
        connVars, ownerVars, deviceVars, linkVars, histVars, outside,
        notCaller, notReader, notOwner, notLink

\* How a call can end.
LEMMA OutcomeType ==
    ASSUME NEW r \in Results, NEW i \in 0 .. MaxCalls, NEW f \in 0 .. MaxCalls
    PROVE  Outcome(r, i, f) \in Outcomes
BY DEF Outcome, Outcomes

\* A call that ends leaves well-typed positions and outcomes.
LEMMA ReturnType ==
    ASSUME TypeOK, NEW c \in Callers, NEW r \in Results, NEW f \in 0 .. MaxCalls,
           NEW p \in [Callers -> CallerStates], Return(c, p, r, f)
    PROVE  /\ pc' \in [Callers -> CallerStates]
           /\ sendMtx' \in Callers \cup {Nobody}
           /\ outcome' \in [Callers -> Outcomes]
<1>1. pc' \in [Callers -> CallerStates]
  BY DEF Return, CallerStates
<1>2. Outcome(r, id[c], f) \in Outcomes
  BY OutcomeType DEF TypeOK
<1>3. outcome' \in [Callers -> Outcomes]
  BY <1>2 DEF Return, TypeOK
<1> QED  BY <1>1, <1>3 DEF Return

\* A call, from its start to its return.
LEMMA TypeOfCalls ==
    ASSUME TypeOK, NEW c \in Callers,
           (\E o \in Ops \cup {NoOp} : Call(c, o)) \/ CallerStep(c) \/ Expire(c)
    PROVE  TypeOK'
<1> USE NumberAssumption
<1>0. 0 \in 0 .. MaxCalls
  OBVIOUS
<1>1. ASSUME NEW o \in Ops \cup {NoOp}, Call(c, o) PROVE TypeOK'
  <2>1. calls + 1 \in 0 .. MaxCalls /\ calls' = calls + 1
    BY <1>1 DEF TypeOK, Call
  <2>2. id' \in [Callers -> 0 .. MaxCalls] /\ op' \in [Callers -> Ops \cup {NoOp}]
    BY <1>1, <2>1 DEF TypeOK, Call
  <2>3. pc' \in [Callers -> CallerStates]
    BY <1>1, ZenonT(60) DEF TypeOK, Call, CallerStates
  <2>4. /\ Outcome("disconnected", calls + 1, 0) \in Outcomes
        /\ NoOutcome \in Outcomes
    BY <1>0, <2>1, OutcomeType DEF NoOutcome, Results
  <2>5. outcome' \in [Callers -> Outcomes]
    BY <1>1, <2>4, ZenonT(60) DEF TypeOK, Call
  <2> QED  BY <1>1, <2>1, <2>2, <2>3, <2>5 DEF TypeOK, Call
<1>2. CASE Acquire(c)
  <2>1. pc' \in [Callers -> CallerStates]
    BY <1>2 DEF TypeOK, Acquire, CallerStates
  <2>2. seq' \in [Callers -> Bytes] /\ sendMtx' \in Callers \cup {Nobody}
    BY <1>2 DEF TypeOK, Acquire
  <2> QED  BY <1>2, <2>1, <2>2 DEF TypeOK, Acquire
<1>3. CASE Normalise(c)
  <2>1. pc' \in [Callers -> CallerStates]
    BY <1>3 DEF TypeOK, Normalise, CallerStates
  <2>2. seq[c] \in Bytes
    BY DEF TypeOK
  <2>3. sequence' \in Bytes
    BY <1>3, <2>2, ByteArithmetic DEF Normalise
  <2> QED  BY <1>3, <2>1, <2>3 DEF TypeOK, Normalise
<1>4. CASE FetchAdd(c)
  <2>1. pc' \in [Callers -> CallerStates]
    BY <1>4 DEF TypeOK, FetchAdd, CallerStates
  <2>2. sequence \in Bytes /\ seq \in [Callers -> Bytes]
    BY DEF TypeOK
  <2>3. sequence' \in Bytes
    BY <1>4, <2>2, ByteArithmetic DEF FetchAdd
  <2>4. seq' \in [Callers -> Bytes]
    BY <1>4, <2>2 DEF FetchAdd
  <2> QED  BY <1>4, <2>1, <2>3, <2>4 DEF TypeOK, FetchAdd
<1>5. CASE Register(c)
  <2>1. op[c] \in Ops \cup {NoOp}
    BY DEF TypeOK
  <2>2. Request(op[c]) \in Requests
    BY <2>1 DEF Request, Requests
  <2>3. ASSUME NEW i \in Buffered(op[c])
        PROVE  /\ [op |-> op[c], reply |-> unmatchedFrames[i]] \in Requests
               /\ RemoveAt(unmatchedFrames, i) \in Seq(DeviceData)
               /\ Len(RemoveAt(unmatchedFrames, i)) <= MaxUnmatched
    <3>1. i \in 1 .. Len(unmatchedFrames)
      BY DEF Buffered, TypeOK
    <3>2. /\ unmatchedFrames \in Seq(DeviceData)
          /\ Len(unmatchedFrames) <= MaxUnmatched
      BY DEF TypeOK
    <3>3. unmatchedFrames[i] \in DeviceData
      BY <3>1, <3>2
    <3>4. /\ RemoveAt(unmatchedFrames, i) \in Seq(DeviceData)
          /\ Len(RemoveAt(unmatchedFrames, i)) = Len(unmatchedFrames) - 1
      BY <3>1, <3>2, RemoveAtType
    <3>5. [op |-> op[c], reply |-> unmatchedFrames[i]] \in Requests
      BY <2>1, <3>3 DEF Requests
    <3> QED  BY <3>2, <3>4, <3>5
  <2>4. /\ pendingRequest' \in Requests
        /\ unmatchedFrames' \in Seq(DeviceData)
        /\ Len(unmatchedFrames') <= MaxUnmatched
    BY <1>5, <2>2, <2>3, ZenonT(60) DEF Register, TypeOK
  <2>5. pc' \in [Callers -> CallerStates] /\ hasAck' \in BOOLEAN
    BY <1>5 DEF TypeOK, Register, CallerStates
  <2> QED  BY <1>5, <2>4, <2>5 DEF TypeOK, Register
<1>6. CASE Write(c)
  <2> DEFINE f == [type |-> "Data", seq |-> seq[c], op |-> op[c], id |-> id[c]]
  <2>1. f \in HostData
    BY DEF TypeOK, HostData
  <2>2. toDevice' \in Seq(HostAcks \cup HostData)
    BY <1>6, <2>1, AppendType DEF Write, TypeOK
  <2>3. pc' \in [Callers -> CallerStates]
    BY <1>6 DEF TypeOK, Write, CallerStates
  <2>4. lastWritten' \in SUBSET Bytes
    BY <1>6 DEF TypeOK, Write
  <2> QED  BY <1>6, <2>2, <2>3, <2>4 DEF TypeOK, Write
<1>7. CASE WriteRefused(c)
  <2>1. /\ pc' \in [Callers -> CallerStates]
        /\ sendMtx' \in Callers \cup {Nobody}
        /\ outcome' \in [Callers -> Outcomes]
    BY <1>0, <1>7, ReturnType DEF WriteRefused, TypeOK, Results
  <2> QED  BY <1>7, <2>1 DEF TypeOK, WriteRefused
<1>8. CASE WriteFails(c)
  <2>1. pc' \in [Callers -> CallerStates]
    BY <1>8 DEF TypeOK, WriteFails, CallerStates
  <2> QED  BY <1>8, <2>1 DEF TypeOK, WriteFails
<1>9. CASE WriteFailed(c)
  <2>1. Woken(pc, {"ack", "response"}) \in [Callers -> CallerStates]
    BY WokenType DEF TypeOK
  <2>2. /\ pc' \in [Callers -> CallerStates]
        /\ sendMtx' \in Callers \cup {Nobody}
        /\ outcome' \in [Callers -> Outcomes]
    BY <1>0, <1>9, <2>1, ReturnType DEF WriteFailed, Results
  <2> QED  BY <1>9, <2>2 DEF TypeOK, WriteFailed
<1>10. CASE WriteTimesOut(c)
  <2>1. /\ pc' \in [Callers -> CallerStates]
        /\ sendMtx' \in Callers \cup {Nobody}
        /\ outcome' \in [Callers -> Outcomes]
    BY <1>0, <1>10, ReturnType DEF WriteTimesOut, TypeOK, Results
  <2> QED  BY <1>10, <2>1 DEF TypeOK, WriteTimesOut
<1>11. CASE Check(c)
  <2>1. pc' \in [Callers -> CallerStates]
    BY <1>11 DEF TypeOK, Check, CallerStates
  <2> QED  BY <1>11, <2>1 DEF TypeOK, Check
<1>12. CASE Block(c)
  <2>1. pc' \in [Callers -> CallerStates]
    BY <1>12 DEF TypeOK, Block, CallerStates
  <2> QED  BY <1>12, <2>1 DEF TypeOK, Block
<1>13. CASE Decide(c)
  <2>1. AfterWait(c) \in Requests
    BY DEF AfterWait, NoRequest, TypeOK, Requests
  <2>2. Answered(c) /\ op[c] # NoOp => pendingRequest.reply.for \in 0 .. MaxCalls
    BY DEF Answered, HasResponse, TypeOK, Requests, DeviceData
  <2>3. PICK r \in Results, f \in 0 .. MaxCalls : Return(c, pc, r, f)
    BY <1>0, <1>13, <2>2 DEF Decide, Results
  <2>4. /\ pc' \in [Callers -> CallerStates]
        /\ sendMtx' \in Callers \cup {Nobody}
        /\ outcome' \in [Callers -> Outcomes]
    BY <2>3, ReturnType DEF TypeOK
  <2>5. hasAck' \in BOOLEAN /\ late' \in BOOLEAN /\ pendingRequest' \in Requests
    BY <1>13, <2>1 DEF TypeOK, Decide
  <2> QED  BY <1>13, <2>4, <2>5 DEF TypeOK, Decide
<1>14. CASE Expire(c)
  <2>1. pc' \in [Callers -> CallerStates]
    BY <1>14 DEF TypeOK, Expire, CallerStates
  <2> QED  BY <1>14, <2>1 DEF TypeOK, Expire
<1> QED  BY <1>1, <1>2, <1>3, <1>4, <1>5, <1>6, <1>7, <1>8, <1>9, <1>10,
            <1>11, <1>12, <1>13, <1>14 DEF CallerStep

\* Going on to the next frame of the batch.
LEMMA NextFrameType ==
    ASSUME TypeOK, batch # <<>>, NextFrame
    PROVE  /\ batch' \in Seq(DeviceAcks \cup DeviceData)
           /\ reader' \in ReaderStates /\ BatchInv'
<1>1. /\ Tail(batch) \in Seq(DeviceAcks \cup DeviceData)
      /\ Len(Tail(batch)) = Len(batch) - 1
  BY HeadTailType DEF TypeOK
<1>2. ASSUME Len(batch) > 1 PROVE Tail(batch) # <<>>
  <2>1. Len(batch) \in Nat
    BY DEF TypeOK
  <2>2. Len(Tail(batch)) # 0
    BY <1>1, <1>2, <2>1, SMTT(60)
  <2> QED  BY <2>2, EmptyType
<1>3. reader' \in {"handle", "loop"} /\ (reader' = "handle" => batch' # <<>>)
  BY <1>2 DEF NextFrame
<1> QED  BY <1>1, <1>3 DEF NextFrame, BatchInv, ReaderStates

\* The reader thread.
LEMMA TypeOfReader ==
    ASSUME TypeInv, ReaderStep
    PROVE  TypeOK' /\ BatchInv'
<1> USE NumberAssumption DEF TypeInv
<1>1. CASE Loop
  <2>1. reader' \in ReaderStates /\ BatchInv'
    BY <1>1 DEF Loop, BatchInv, ReaderStates
  <2> QED  BY <1>1, <2>1 DEF TypeOK, Loop
<1>2. ASSUME NEW n \in 1 .. MaxInFlight, Receive(n) PROVE TypeOK' /\ BatchInv'
  <2>1. n \in 1 .. Len(toHost) /\ toHost \in Seq(DeviceAcks \cup DeviceData)
    BY <1>2 DEF Receive, TypeOK
  <2>2. /\ batch' \in Seq(DeviceAcks \cup DeviceData) /\ batch' # <<>>
        /\ toHost' \in Seq(DeviceAcks \cup DeviceData)
    BY <1>2, <2>1, CutType DEF Receive
  <2>3. reader' \in ReaderStates /\ BatchInv'
    BY <1>2, <2>2 DEF Receive, BatchInv, ReaderStates
  <2> QED  BY <1>2, <2>2, <2>3 DEF TypeOK, Receive
<1>3. CASE ReceiveTimesOut
  <2>1. reader' \in ReaderStates /\ BatchInv'
    BY <1>3 DEF ReceiveTimesOut, BatchInv, ReaderStates
  <2> QED  BY <1>3, <2>1 DEF TypeOK, ReceiveTimesOut
<1>4. CASE ReceiveFails
  <2>1. reader' \in ReaderStates /\ BatchInv'
    BY <1>4 DEF ReceiveFails, BatchInv, ReaderStates
  <2> QED  BY <1>4, <2>1 DEF TypeOK, ReceiveFails
<1>5. CASE HandleAck
  <2>1. batch # <<>> /\ Head(batch) \in DeviceAcks \cup DeviceData
    BY <1>5, HeadTailType DEF HandleAck, BatchInv, TypeOK
  <2>2. AckedSequence(Head(batch)) \in Bytes
    <3>1. sequence \in Bytes /\ Bits \subseteq Bytes
      BY DEF TypeOK, Bits, Bytes
    <3>2. Head(batch).seq \in Bits
      BY <2>1 DEF DeviceAcks, DeviceData
    <3> QED  BY <3>1, <3>2 DEF AckedSequence
  <2>3. pc' \in [Callers -> CallerStates]
    BY <1>5, WokenType DEF HandleAck, NotifyAll, TypeOK
  <2>4. /\ batch' \in Seq(DeviceAcks \cup DeviceData)
        /\ reader' \in ReaderStates /\ BatchInv'
    BY <1>5, <2>1, NextFrameType DEF HandleAck
  <2> QED  BY <1>5, <2>2, <2>3, <2>4 DEF TypeOK, HandleAck
<1>6. CASE SendAck
  <2>1. batch # <<>> /\ Head(batch) \in DeviceAcks \cup DeviceData
    BY <1>6, HeadTailType DEF SendAck, BatchInv, TypeOK
  <2>2. AckFor(Head(batch)) \in HostAcks
    BY <2>1 DEF AckFor, HostAcks, DeviceAcks, DeviceData, Bits
  <2>3. toDevice' \in Seq(HostAcks \cup HostData)
    BY <1>6, <2>2, AppendType DEF SendAck, TypeOK
  <2>4. reader' \in ReaderStates /\ BatchInv'
    BY <1>6, <2>1 DEF SendAck, BatchInv, ReaderStates
  <2> QED  BY <1>6, <2>3, <2>4 DEF TypeOK, SendAck
<1>7. CASE SendAckRefused
  <2>1. reader' \in ReaderStates /\ BatchInv'
    BY <1>7 DEF SendAckRefused, BatchInv, ReaderStates
  <2> QED  BY <1>7, <2>1 DEF TypeOK, SendAckRefused
<1>8. CASE SendAckFails
  <2>1. reader' \in ReaderStates /\ BatchInv'
    BY <1>8 DEF SendAckFails, BatchInv, ReaderStates
  <2> QED  BY <1>8, <2>1 DEF TypeOK, SendAckFails
<1>9. CASE SendAckFailed
  <2>1. reader' \in ReaderStates /\ BatchInv'
    BY <1>9 DEF SendAckFailed, BatchInv, ReaderStates
  <2>2. pc' \in [Callers -> CallerStates]
    BY <1>9, WokenType DEF SendAckFailed, NotifyAll, TypeOK
  <2> QED  BY <1>9, <2>1, <2>2 DEF TypeOK, SendAckFailed
<1>10. CASE DropDuplicate
  <2>1. /\ batch' \in Seq(DeviceAcks \cup DeviceData)
        /\ reader' \in ReaderStates /\ BatchInv'
    BY <1>10, NextFrameType DEF DropDuplicate, BatchInv
  <2> QED  BY <1>10, <2>1 DEF TypeOK, DropDuplicate
<1>11. CASE AcceptFrame
  <2>1. batch # <<>> /\ Head(batch) \in DeviceData
    BY <1>11, HeadTailType DEF AcceptFrame, BatchInv, TypeOK, DeviceAcks
  <2>2. Head(batch).seq \in Bits /\ Head(batch).num \in Nat
    BY <2>1 DEF DeviceData
  <2>3. reader' \in ReaderStates /\ BatchInv'
    BY <1>11 DEF AcceptFrame, BatchInv, ReaderStates
  <2>4. lastSeenDataSeq' \in SUBSET Bits
    BY <1>11, <2>2 DEF AcceptFrame
  <2>5. taken' \in Seq(Nat)
    BY <1>11, <2>2, AppendType DEF TypeOK, AcceptFrame
  <2> QED  BY <1>11, <2>3, <2>4, <2>5 DEF TypeOK, AcceptFrame
<1>12. CASE MatchRequest
  <2>1. batch # <<>> /\ Head(batch) \in DeviceData
    BY <1>12, HeadTailType, SMTT(60) DEF MatchRequest, BatchInv, TypeOK, DeviceAcks
  <2>2. pendingRequest' \in Requests
    BY <1>12, <2>1 DEF MatchRequest, TypeOK, Requests
  <2>3. pc' \in [Callers -> CallerStates]
    BY <1>12, WokenType DEF MatchRequest, TypeOK
  <2>4. /\ batch' \in Seq(DeviceAcks \cup DeviceData)
        /\ reader' \in ReaderStates /\ BatchInv'
    BY <1>12, <2>1, NextFrameType DEF MatchRequest
  <2> QED  BY <1>12, <2>2, <2>3, <2>4 DEF TypeOK, MatchRequest
<1>13. CASE Buffer
  <2>1. batch # <<>> /\ Head(batch) \in DeviceData
    BY <1>13, HeadTailType DEF Buffer, BatchInv, TypeOK, DeviceAcks
  <2> DEFINE frames == Append(unmatchedFrames, Head(batch))
  <2>2. /\ unmatchedFrames \in Seq(DeviceData)
        /\ Len(unmatchedFrames) \in Nat /\ Len(unmatchedFrames) <= MaxUnmatched
    BY DEF TypeOK
  <2>3. /\ frames \in Seq(DeviceData)
        /\ Len(frames) = Len(unmatchedFrames) + 1
    BY <2>1, <2>2, AppendType
  <2> HIDE DEF frames
  <2>4. /\ frames # <<>>
        /\ Tail(frames) \in Seq(DeviceData) /\ Len(Tail(frames)) = Len(frames) - 1
    BY <2>2, <2>3, HeadTailType
  <2>5. Evict(frames) \in Seq(DeviceData) /\ Len(Evict(frames)) <= MaxUnmatched
    BY <2>2, <2>3, <2>4 DEF Evict
  <2>6. unmatchedFrames' = Evict(frames)
    BY <1>13 DEF Buffer, frames
  <2>7. reader' \in ReaderStates /\ BatchInv'
    BY <1>13 DEF Buffer, BatchInv, ReaderStates
  <2> QED  BY <1>13, <2>5, <2>6, <2>7 DEF TypeOK, Buffer
<1>14. CASE Dispatch
  <2>1. /\ batch' \in Seq(DeviceAcks \cup DeviceData)
        /\ reader' \in ReaderStates /\ BatchInv'
    BY <1>14, NextFrameType DEF Dispatch, BatchInv
  <2> QED  BY <1>14, <2>1 DEF TypeOK, Dispatch
<1>15. CASE Exit
  <2>1. reader' \in ReaderStates /\ BatchInv'
    BY <1>15 DEF Exit, BatchInv, ReaderStates
  <2> QED  BY <1>15, <2>1 DEF TypeOK, Exit
<1>16. CASE Leave
  <2>1. reader' \in ReaderStates /\ BatchInv'
    BY <1>16 DEF Leave, BatchInv, ReaderStates
  <2>2. pc' \in [Callers -> CallerStates]
    BY <1>16, WokenType DEF Leave, NotifyAll, TypeOK
  <2> QED  BY <1>16, <2>1, <2>2 DEF TypeOK, Leave
<1> QED  BY ReaderStep, <1>1, <1>2, <1>3, <1>4, <1>5, <1>6, <1>7, <1>8, <1>9,
            <1>10, <1>11, <1>12, <1>13, <1>14, <1>15, <1>16 DEF ReaderStep

\* What ClearSession leaves.
ClearedType ==
    /\ lastSeenDataSeq' \in SUBSET Bits
    /\ unmatchedFrames' \in Seq(DeviceData)
    /\ Len(unmatchedFrames') <= MaxUnmatched
    /\ hasAck' \in BOOLEAN /\ pendingRequest' \in Requests

LEMMA ClearSessionType ==
    ASSUME ClearSession PROVE ClearedType
<1>1. NoRequest \in Requests
  BY DEF NoRequest, Requests
<1>2. /\ unmatchedFrames' \in Seq(DeviceData)
      /\ Len(unmatchedFrames') <= MaxUnmatched
  BY NumberAssumption DEF ClearSession
<1> QED  BY <1>1, <1>2 DEF ClearSession, ClearedType

\* The owner's thread.
LEMMA TypeOfOwner ==
    ASSUME TypeInv,
           \/ (\E n \in Sequences : SetSequence(n)) \/ Connect
           \/ (\E again \in BOOLEAN : StopReader(again)) \/ OwnerStep
    PROVE  TypeOK' /\ OwnerInv'
<1> USE NumberAssumption DEF TypeInv, OwnerInv
<1>1. CASE Connect
  <2>1. owner' \in OwnerStates /\ OwnerInv'
    BY <1>1 DEF Connect, OwnerStates
  <2> QED  BY <1>1, <2>1 DEF TypeOK, Connect
<1>2. ASSUME NEW again \in BOOLEAN, StopReader(again) PROVE TypeOK' /\ OwnerInv'
  <2>1. owner' \in OwnerStates /\ reconnect' \in BOOLEAN /\ OwnerInv'
    BY <1>2 DEF StopReader, OwnerStates
  <2> QED  BY <1>2, <2>1 DEF TypeOK, StopReader
<1>3. CASE NotifyStopped
  <2>1. owner' \in OwnerStates /\ OwnerInv'
    BY <1>3 DEF NotifyStopped, OwnerStates
  <2>2. pc' \in [Callers -> CallerStates]
    BY <1>3, WokenType DEF NotifyStopped, NotifyAll, TypeOK
  <2> QED  BY <1>3, <2>1, <2>2 DEF TypeOK, NotifyStopped
<1>4. CASE Join
  <2>1. owner' \in OwnerStates /\ OwnerInv' /\ reader' \in ReaderStates
    BY <1>4 DEF Join, OwnerStates, ReaderStates
  <2> QED  BY <1>4, <2>1 DEF TypeOK, Join
<1>5. CASE Close
  <2>1. owner' \in OwnerStates /\ OwnerInv'
    BY <1>5 DEF Close, OwnerStates
  <2> QED  BY <1>5, <2>1 DEF TypeOK, Close
<1>6. CASE Clear
  <2>1. owner' \in OwnerStates /\ OwnerInv'
    BY <1>6 DEF Clear, OwnerStates
  <2>2. pc' \in [Callers -> CallerStates]
    BY <1>6, WokenType DEF Clear, NotifyAll, TypeOK
  <2>3. sequence' \in Bytes
    BY <1>6 DEF Clear, Bytes
  <2>4. ClearedType
    BY <1>6, ClearSessionType DEF Clear
  <2> QED  BY <1>6, <2>1, <2>2, <2>3, <2>4 DEF TypeOK, Clear, ClearedType
<1>7. CASE Open
  <2>1. owner' \in OwnerStates /\ OwnerInv'
    BY <1>7 DEF Open, OwnerStates, TypeOK
  <2>2. conn' \in 0 .. MaxConnects
    BY <1>7, SMTT(60) DEF Open, TypeOK
  <2>3. device.pushes \in Nat
    BY DEF TypeOK, Devices
  <2>4. <<>> \in Seq(Messages)
    OBVIOUS
  <2>5. PICK b \in Bits : device' = [NewDevice(b) EXCEPT !.pushes = device.pushes]
    BY <1>7 DEF Open
  <2>6. device' \in Devices
    BY <2>3, <2>4, <2>5 DEF NewDevice, Devices
  <2>7. /\ toDevice' \in Seq(HostAcks \cup HostData)
        /\ toHost' \in Seq(DeviceAcks \cup DeviceData)
        /\ link' \in {"up", "broken", "down"}
        /\ taken' \in Seq(Nat) /\ late' \in BOOLEAN /\ lastWritten' \in SUBSET Bytes
    BY <1>7, EmptyType DEF Open
  <2> QED  BY <1>7, <2>1, <2>2, <2>6, <2>7 DEF TypeOK, Open
<1>8. CASE OpenFails
  <2>1. owner' \in OwnerStates /\ OwnerInv'
    BY <1>8 DEF OpenFails, OwnerStates
  <2> QED  BY <1>8, <2>1 DEF TypeOK, OpenFails
<1>9. CASE Start
  <2>1. owner' \in OwnerStates /\ OwnerInv'
    BY <1>9 DEF Start, OwnerStates
  <2>2. CASE link = "down"
    BY <1>9, <2>1, <2>2 DEF TypeOK, Start
  <2>3. CASE link # "down"
    <3>1. ClearedType
      BY <1>9, <2>3, ClearSessionType DEF Start
    <3> QED  BY <1>9, <2>1, <2>3, <3>1 DEF TypeOK, Start, ClearedType
  <2> QED  BY <2>2, <2>3
<1>10. CASE StartReader
  <2>1. owner' \in OwnerStates /\ OwnerInv' /\ reader' \in ReaderStates
    BY <1>10 DEF StartReader, OwnerStates, ReaderStates
  <2> QED  BY <1>10, <2>1 DEF TypeOK, StartReader
<1>11. ASSUME NEW n \in Sequences, SetSequence(n) PROVE TypeOK' /\ OwnerInv'
  <2>1. sequence' \in Bytes
    BY <1>11 DEF SetSequence, Bytes
  <2>2. OwnerInv'
    BY <1>11 DEF SetSequence
  <2> QED  BY <1>11, <2>1, <2>2 DEF TypeOK, SetSequence
<1> QED  BY <1>1, <1>2, <1>3, <1>4, <1>5, <1>6, <1>7, <1>8, <1>9, <1>10, <1>11
         DEF OwnerStep

\* The link and the headphones.
LEMMA TypeOfLink ==
    ASSUME TypeInv, DeviceStep \/ DevicePushes \/ Corrupt \/ Drop
    PROVE  TypeOK' /\ DeviceInv'
<1> USE NumberAssumption DEF TypeInv
<1>0. /\ device.outbox \in Seq(Messages) /\ device.bit \in Bits
      /\ device.sent \in Nat /\ device.pushes \in Nat
      /\ device.flying \in BOOLEAN /\ device \in Devices
  BY DEF TypeOK, Devices
<1>1. CASE DeviceTakes
  <2> DEFINE f == Head(toDevice)
  <2>1. f \in HostData /\ Tail(toDevice) \in Seq(HostAcks \cup HostData)
    BY <1>1, HeadTailType, SMTT(60) DEF DeviceTakes, TypeOK, HostAcks
  <2>2. /\ f.op \in Ops \cup {NoOp} /\ f.id \in 0 .. MaxCalls /\ f.seq \in Bytes
    BY <2>1 DEF HostData
  <2>3. [type |-> "Ack", seq |-> 1 - (f.seq % 2)] \in DeviceAcks
    BY <2>2, ByteArithmetic DEF DeviceAcks, Bits
  <2>4. toHost' \in Seq(DeviceAcks \cup DeviceData)
    BY <1>1, <2>3, AppendType DEF DeviceTakes, TypeOK
  <2>5. ASSUME f.op # NoOp
        PROVE  /\ Append(device.outbox, [op |-> f.op, for |-> f.id]) \in Seq(Messages)
               /\ Append(device.outbox, [op |-> f.op, for |-> f.id]) # <<>>
    <3> DEFINE m == [op |-> f.op, for |-> f.id]
    <3>1. m \in Messages
      BY <2>2, <2>5 DEF Messages
    <3> HIDE DEF m, f
    <3>2. /\ Append(device.outbox, m) \in Seq(Messages)
          /\ Append(device.outbox, m) # <<>>
      BY <1>0, <3>1, AppendProperties
    <3> QED  BY <3>2 DEF m
  <2>6. device' \in Devices /\ DeviceInv'
    BY <1>0, <1>1, <2>5, ZenonT(60) DEF DeviceTakes, Devices, DeviceInv
  <2>7. accepted' \subseteq 0 .. MaxCalls
    BY <1>1, <2>2, SMTT(60) DEF DeviceTakes, TypeOK
  <2> QED  BY <1>1, <2>1, <2>4, <2>6, <2>7 DEF TypeOK, DeviceTakes
<1>2. CASE DeviceAcked
  <2>1. toDevice' \in Seq(HostAcks \cup HostData)
    BY <1>2, HeadTailType DEF DeviceAcked, TypeOK
  <2>2. device.flying => Tail(device.outbox) \in Seq(Messages)
    BY <1>0, HeadTailType DEF DeviceInv
  <2>3. device' \in Devices /\ DeviceInv'
    <3>1. CASE device.flying /\ Head(toDevice).seq = 1 - device.bit
      <4> DEFINE q == Tail(device.outbox)
      <4>1. /\ device' = [device EXCEPT !.outbox = q, !.flying = FALSE,
                                       !.bit = 1 - device.bit]
            /\ q \in Seq(Messages) /\ 1 - device.bit \in Bits
        BY <1>0, <1>2, <2>2, <3>1 DEF DeviceAcked, Bits
      <4> HIDE DEF q
      <4> QED  BY <1>0, <4>1 DEF Devices, DeviceInv
    <3>2. CASE ~(device.flying /\ Head(toDevice).seq = 1 - device.bit)
      BY <1>0, <1>2, <3>2 DEF DeviceAcked, DeviceInv
    <3> QED  BY <3>1, <3>2
  <2> QED  BY <1>2, <2>1, <2>3 DEF TypeOK, DeviceAcked
<1>3. CASE DeviceSends
  <2> DEFINE num == IF device.flying THEN device.sent ELSE device.sent + 1
             f == [type |-> "Data", seq |-> device.bit, num |-> num,
                   op |-> Head(device.outbox).op,
                   for |-> Head(device.outbox).for, conn |-> conn]
  <2>1. num \in Nat /\ Head(device.outbox) \in Messages
    <3>1. device.outbox # <<>>
      BY <1>3 DEF DeviceSends
    <3>2. Head(device.outbox) \in Messages
      BY <1>0, <3>1, HeadTailType
    <3> QED  BY <1>0, <3>2
  <2>2. conn \in 0 .. MaxConnects
    BY DEF TypeOK
  <2>3. f \in DeviceData
    BY <1>0, <2>1, <2>2 DEF DeviceData, Messages
  <2>4. toHost' \in Seq(DeviceAcks \cup DeviceData)
    BY <1>3, <2>3, AppendType DEF DeviceSends, TypeOK
  <2>5. device' \in Devices /\ DeviceInv'
    BY <1>0, <1>3, <2>1 DEF DeviceSends, Devices, DeviceInv
  <2> QED  BY <1>3, <2>4, <2>5 DEF TypeOK, DeviceSends
<1>4. CASE DevicePushes
  <2>1. PICK o \in PushOps :
           device' = [device EXCEPT !.outbox = Append(@, [op |-> o, for |-> 0]),
                                    !.pushes = @ + 1]
    BY <1>4 DEF DevicePushes
  <2> DEFINE m == [op |-> o, for |-> 0]
             q == Append(device.outbox, m)
  <2>2. m \in Messages
    BY DEF Messages
  <2>3. device' = [device EXCEPT !.outbox = q, !.pushes = device.pushes + 1]
    BY <2>1
  <2> HIDE DEF m
  <2>4. q \in Seq(Messages) /\ q # <<>>
    BY <1>0, <2>2, AppendProperties
  <2> HIDE DEF q
  <2>5. device' \in Devices
    <3> DEFINE n == device.pushes + 1
    <3>1. n \in Nat
      BY <1>0
    <3>2. device' = [device EXCEPT !.outbox = q, !.pushes = n]
      BY <2>3
    <3> HIDE DEF n
    <3> QED  BY <1>0, <2>4, <3>1, <3>2 DEF Devices
  <2>6. device'.outbox = q
    BY <1>0, <2>3 DEF Devices
  <2>7. DeviceInv'
    BY <2>4, <2>6 DEF DeviceInv
  <2> QED  BY <1>4, <2>5, <2>7 DEF TypeOK, DevicePushes
<1>5. CASE Corrupt
  <2>1. /\ toHost' \in Seq(DeviceAcks \cup DeviceData)
        /\ toDevice' \in Seq(HostAcks \cup HostData)
    BY <1>5, HeadTailType, ZenonT(60) DEF Corrupt, TypeOK
  <2>2. lost' \in 0 .. MaxLost
    BY <1>5 DEF Corrupt, TypeOK
  <2>3. DeviceInv'
    BY <1>5 DEF Corrupt, DeviceInv
  <2> QED  BY <1>5, <2>1, <2>2, <2>3 DEF TypeOK, Corrupt
<1>6. CASE Drop
  <2>1. DeviceInv'
    BY <1>6 DEF Drop, DeviceInv
  <2>2. /\ toDevice' \in Seq(HostAcks \cup HostData)
        /\ toHost' \in Seq(DeviceAcks \cup DeviceData)
        /\ link' \in {"up", "broken", "down"}
    BY <1>6, EmptyType, ZenonT(60) DEF Drop, TypeOK
  <2> QED  BY <1>6, <2>1, <2>2 DEF TypeOK, Drop
<1> QED  BY <1>1, <1>2, <1>3, <1>4, <1>5, <1>6 DEF DeviceStep

-----------------------------------------------------------------------------
\* The initial state.
LEMMA TypeInit == Init => TypeInv
<1> SUFFICES ASSUME Init PROVE TypeInv
  OBVIOUS
<1> USE NumberAssumption
<1>1. NoRequest \in Requests /\ NewDevice(0) \in Devices /\ ~NewDevice(0).flying
  BY DEF NoRequest, Requests, NewDevice, Devices, Bits
<1>2. NoOutcome \in Outcomes
  BY DEF NoOutcome, Outcome, Outcomes, Results
<1>3. /\ pc \in [Callers -> CallerStates] /\ op \in [Callers -> Ops \cup {NoOp}]
      /\ id \in [Callers -> 0 .. MaxCalls] /\ seq \in [Callers -> Bytes]
      /\ outcome \in [Callers -> Outcomes]
  BY <1>2 DEF Init, Bytes, CallerStates
<1>4. sequence \in Bytes /\ reader \in ReaderStates /\ owner \in OwnerStates
  BY DEF Init, Bytes, ReaderStates, OwnerStates
<1>5. /\ unmatchedFrames \in Seq(DeviceData)
      /\ Len(unmatchedFrames) <= MaxUnmatched
      /\ batch \in Seq(DeviceAcks \cup DeviceData)
      /\ toDevice \in Seq(HostAcks \cup HostData)
      /\ toHost \in Seq(DeviceAcks \cup DeviceData)
  BY EmptyType DEF Init
<1>6. /\ calls \in 0 .. MaxCalls /\ conn \in 0 .. MaxConnects
      /\ lost \in 0 .. MaxLost /\ taken \in Seq(Nat)
  BY EmptyType DEF Init
<1>7. /\ accepted \subseteq 0 .. MaxCalls /\ lastWritten \in SUBSET Bytes
      /\ lastSeenDataSeq \in SUBSET Bits /\ late \in BOOLEAN
      /\ link \in {"up", "broken", "down"}
  BY Zenon DEF Init
<1>8. TypeOK
  BY <1>1, <1>3, <1>4, <1>5, <1>6, <1>7 DEF Init, TypeOK
<1> QED  BY <1>1, <1>8 DEF Init, TypeInv, BatchInv, DeviceInv, OwnerInv

\* What an actor's step leaves alone of the others' parts of the invariant.
LEMMA TypeStep == TypeInv /\ [Next]_vars => TypeInv'
<1> SUFFICES ASSUME TypeInv, [Next]_vars PROVE TypeInv'
  OBVIOUS
<1>1. ASSUME NEW c \in Callers,
             (\E o \in Ops \cup {NoOp} : Call(c, o)) \/ CallerStep(c) \/ Expire(c)
      PROVE  TypeInv'
  <2>1. TypeOK'
    BY <1>1, TypeOfCalls DEF TypeInv
  <2>2. UNCHANGED <<reader, batch, device, owner, reconnect, conn>>
    BY <1>1 DEF Call, CallerStep, Acquire, Normalise, FetchAdd, Register, Write,
                WriteRefused, WriteFails, WriteFailed, WriteTimesOut, Check,
                Block, Decide, Expire
  <2> QED  BY <2>1, <2>2 DEF TypeInv, BatchInv, DeviceInv, OwnerInv
<1>2. CASE ReaderStep
  <2>1. UNCHANGED <<device, owner, reconnect, conn>>
    BY <1>2 DEF ReaderStep, Loop, Receive, ReceiveTimesOut, ReceiveFails,
                HandleAck, SendAck, SendAckRefused, SendAckFails,
                SendAckFailed, DropDuplicate, AcceptFrame, MatchRequest,
                Buffer, Dispatch, Exit, Leave
  <2> QED  BY <1>2, <2>1, TypeOfReader DEF TypeInv, DeviceInv, OwnerInv
<1>3. CASE \/ (\E n \in Sequences : SetSequence(n)) \/ Connect
           \/ (\E again \in BOOLEAN : StopReader(again)) \/ OwnerStep
  <2>1. /\ UNCHANGED batch \/ reader' = "loop"
        /\ reader' \in {reader, "none", "loop"}
    BY <1>3 DEF SetSequence, Connect, StopReader, OwnerStep, NotifyStopped, Join, Close,
                Clear, Open, OpenFails, Start, StartReader
  <2>2. DeviceInv'
    BY <1>3 DEF SetSequence, Connect, StopReader, OwnerStep, NotifyStopped, Join, Close,
                Clear, Open, OpenFails, Start, StartReader, TypeInv, DeviceInv,
                NewDevice
  <2> QED  BY <1>3, <2>1, <2>2, TypeOfOwner DEF TypeInv, BatchInv
<1>4. CASE DeviceStep \/ DevicePushes \/ Corrupt \/ Drop
  <2>1. UNCHANGED <<reader, batch, owner, reconnect, conn>>
    BY <1>4 DEF DeviceStep, DeviceTakes, DeviceAcked, DeviceSends,
                DevicePushes, Corrupt, Drop
  <2> QED  BY <1>4, <2>1, TypeOfLink DEF TypeInv, BatchInv, OwnerInv
<1>5. CASE UNCHANGED vars
  BY <1>5 DEF vars, TypeInv, TypeOK, BatchInv, DeviceInv, OwnerInv
<1> QED  BY <1>1, <1>2, <1>3, <1>4, <1>5 DEF Next

\* Type correctness: every variable keeps its type, whatever the callers,
\* the owner, the headphones and the link do.
THEOREM TypeCorrect == Spec => []TypeOK
<1>1. TypeInv => TypeOK
  BY DEF TypeInv
<1> QED  BY <1>1, TypeInit, TypeStep, PTL DEF Spec

-----------------------------------------------------------------------------
(* The numbers of frames: the counter and what is drawn from it.           *)

\* Past _sendMtx, and until it returns, a caller holds it.
HolderInv ==
    \A c \in Callers : pc[c] \notin {"idle", "acquire"} => sendMtx = c

\* Between two calls the counter may be past the bit, but not so far that
\* the next call would not bring it back before it counts up.
CounterInv ==
    /\ sequence <= 253
    /\ \A c \in Callers : pc[c] = "add" => sequence <= 1
    /\ \A c \in Callers : pc[c] \in {"register", "write"} => seq[c] \in Bits

\* The frames on their way to the headphones.
BitFrames == HostAcks \cup {f \in HostData : f.seq \in Bits}
FramesInv == toDevice \in Seq(BitFrames)

BitInv == HolderInv /\ CounterInv /\ FramesInv

-----------------------------------------------------------------------------

\* A running session has a live reader (_startReader, _readerLoop).
THEOREM ReaderStaysAlive == Spec => []ReaderAlive
<1>1. Init => ReaderAlive
  BY DEF Init, ReaderAlive
<1>2. ReaderAlive /\ [Next]_vars => ReaderAlive'
  <2> SUFFICES ASSUME ReaderAlive, [Next]_vars PROVE ReaderAlive'
    OBVIOUS
  <2> USE DEF ReaderAlive
  <2>1. ASSUME NEW c \in Callers,
               (\E o \in Ops \cup {NoOp} : Call(c, o)) \/ CallerStep(c)
                  \/ Expire(c)
        PROVE  ReaderAlive'
    BY <2>1 DEF Call, CallerStep, Acquire, Normalise, FetchAdd, Register,
                Write, WriteRefused, WriteFails, WriteFailed, WriteTimesOut,
                Check, Block, Decide, Expire
  <2>2. CASE ReaderStep
    BY <2>2 DEF ReaderStep, Loop, Receive, ReceiveTimesOut, ReceiveFails,
                HandleAck, SendAck, SendAckRefused, SendAckFails,
                SendAckFailed, DropDuplicate, AcceptFrame, MatchRequest,
                Buffer, Dispatch, Exit, Leave, NextFrame
  <2>3. CASE \/ (\E n \in Sequences : SetSequence(n)) \/ Connect
             \/ (\E again \in BOOLEAN : StopReader(again)) \/ OwnerStep
    BY <2>3 DEF SetSequence, Connect, StopReader, OwnerStep, NotifyStopped, Join, Close,
                Clear, Open, OpenFails, Start, StartReader, ReaderGone
  <2>4. CASE DeviceStep \/ DevicePushes \/ Corrupt \/ Drop
    BY <2>4 DEF DeviceStep, DeviceTakes, DeviceAcked, DeviceSends,
                DevicePushes, Corrupt, Drop
  <2>5. CASE UNCHANGED vars
    BY <2>5 DEF vars
  <2> QED  BY <2>1, <2>2, <2>3, <2>4, <2>5 DEF Next
<1> QED  BY <1>1, <1>2, PTL DEF Spec

-----------------------------------------------------------------------------
\* Waking callers leaves those alone that do not wait.
LEMMA WokenStays ==
    ASSUME pc \in [Callers -> CallerStates], NEW cvs, NEW c \in Callers
    PROVE  \/ Woken(pc, cvs)[c] = pc[c]
           \/ pc[c] = "blocked" /\ Woken(pc, cvs)[c] = "wait"
BY DEF Woken

\* A step of another thread that at most wakes callers keeps BitInv, when it
\* sets the counter to a bit or leaves it alone, and keeps the link's frames.
LEMMA OthersKeepBits ==
    ASSUME TypeOK, BitInv, FramesInv',
           UNCHANGED <<seq, sendMtx>>,
           sequence' \in Bits \/ UNCHANGED sequence,
           UNCHANGED pc \/ \E cvs : pc' = Woken(pc, cvs)
    PROVE  BitInv'
<1>1. pc \in [Callers -> CallerStates]
  BY DEF TypeOK
<1>2. \A c \in Callers :
         pc'[c] = pc[c] \/ (pc[c] = "blocked" /\ pc'[c] = "wait")
  BY <1>1, WokenStays
<1>3. HolderInv'
  BY <1>2 DEF BitInv, HolderInv
<1>4. CounterInv'
  BY <1>2 DEF BitInv, CounterInv, Bits
<1> QED  BY <1>3, <1>4 DEF BitInv

\* The end of a call.
LEMMA ReturnKeepsBits ==
    ASSUME TypeOK, BitInv, NEW c \in Callers, NEW r, NEW f, NEW p,
           p = pc \/ (\E cvs : p = Woken(pc, cvs)),
           pc[c] \notin {"idle", "acquire"},
           Return(c, p, r, f), UNCHANGED <<seq, sequence, toDevice>>
    PROVE  BitInv'
<1>1. pc \in [Callers -> CallerStates]
  BY DEF TypeOK
<1>2. DOMAIN p = Callers
  BY <1>1 DEF Woken
<1>3. \A d \in Callers : d # c => pc[d] \in {"idle", "acquire"}
  BY DEF BitInv, HolderInv
<1>4. \A d \in Callers : d # c => p[d] \in {"idle", "acquire"}
  BY <1>1, <1>3, WokenStays
<1>5. \A d \in Callers : pc'[d] \in {"idle", "acquire"}
  BY <1>2, <1>4 DEF Return
<1> QED  BY <1>5 DEF BitInv, HolderInv, CounterInv, FramesInv

\* A call, from its start to its return: the counter is a bit when the
\* atomic fetch_add reads it, and the frame carries what it read.
LEMMA CallsKeepBits ==
    ASSUME TypeOK, BitInv, NEW c \in Callers,
           (\E o \in Ops \cup {NoOp} : Call(c, o)) \/ CallerStep(c) \/ Expire(c)
    PROVE  BitInv'
<1>0. /\ pc \in [Callers -> CallerStates] /\ seq \in [Callers -> Bytes]
      /\ sequence \in Bytes
  BY DEF TypeOK
<1>a. HolderInv /\ CounterInv /\ FramesInv
  BY DEF BitInv
<1>1. ASSUME NEW o \in Ops \cup {NoOp}, Call(c, o) PROVE BitInv'
  <2>1. \A d \in Callers : pc'[d] = pc[d] \/ pc'[d] = "acquire"
    BY <1>0, <1>1 DEF Call
  <2>2. UNCHANGED <<sequence, seq, sendMtx, toDevice>>
    BY <1>1 DEF Call
  <2> QED  BY <1>a, <2>1, <2>2 DEF BitInv, HolderInv, CounterInv, FramesInv
<1>2. CASE Acquire(c)
  <2>1. \A d \in Callers : pc[d] \in {"idle", "acquire"}
    BY <1>2, <1>a, NameAssumption DEF Acquire, HolderInv
  <2>2. /\ pc'[c] \in {"normalise", "add"}
        /\ pc'[c] = "add" => ~RunsPast(sequence)
        /\ \A d \in Callers : d # c => pc'[d] = pc[d]
    BY <1>0, <1>2 DEF Acquire
  <2>3. sendMtx' = c /\ UNCHANGED <<sequence, toDevice>>
    BY <1>2 DEF Acquire
  <2>4. sequence <= 253 /\ (~RunsPast(sequence) => sequence <= 1)
    BY <1>0, <1>a DEF CounterInv, RunsPast, Bytes
  <2> QED  BY <1>a, <2>1, <2>2, <2>3, <2>4
           DEF BitInv, HolderInv, CounterInv, FramesInv
<1>3. CASE Normalise(c)
  <2>1. /\ pc'[c] = "add" /\ pc[c] = "normalise"
        /\ \A d \in Callers : d # c => pc'[d] = pc[d]
    BY <1>0, <1>3 DEF Normalise
  <2>2. sequence' \in Bits
    BY <1>0, <1>3, ByteArithmetic DEF Normalise
  <2>3. UNCHANGED <<sendMtx, seq, toDevice>>
    BY <1>3 DEF Normalise
  <2> QED  BY <1>a, <2>1, <2>2, <2>3
           DEF BitInv, HolderInv, CounterInv, FramesInv, Bits
<1>4. CASE FetchAdd(c)
  <2>1. /\ pc'[c] = "register" /\ pc[c] = "add"
        /\ \A d \in Callers : d # c => pc'[d] = pc[d]
    BY <1>0, <1>4 DEF FetchAdd
  <2>2. sequence \in Bits
    BY <1>0, <1>a, <2>1 DEF CounterInv, Bits, Bytes
  <2>3. sequence' <= 253
    BY <1>4, <2>2 DEF FetchAdd, Bits
  <2>4. seq'[c] \in Bits /\ \A d \in Callers : d # c => seq'[d] = seq[d]
    BY <1>0, <1>4, <2>2 DEF FetchAdd
  <2>5. UNCHANGED <<sendMtx, toDevice>>
    BY <1>4 DEF FetchAdd
  <2>6. \A d \in Callers : d # c => pc[d] # "add"
    BY <1>a, <2>1 DEF HolderInv
  <2>7. HolderInv'
    BY <1>a, <2>1, <2>5 DEF HolderInv
  <2>8. CounterInv'
    BY <1>a, <2>1, <2>3, <2>4, <2>6 DEF CounterInv
  <2> QED  BY <1>a, <2>5, <2>7, <2>8 DEF BitInv, FramesInv
<1>5. CASE Register(c)
  <2>1. /\ pc'[c] = "write" /\ pc[c] = "register"
        /\ \A d \in Callers : d # c => pc'[d] = pc[d]
    BY <1>0, <1>5 DEF Register
  <2>2. UNCHANGED <<sequence, seq, sendMtx, toDevice>>
    BY <1>5 DEF Register
  <2> QED  BY <1>a, <2>1, <2>2 DEF BitInv, HolderInv, CounterInv, FramesInv
<1>6. CASE Write(c)
  <2> DEFINE f == [type |-> "Data", seq |-> seq[c], op |-> op[c], id |-> id[c]]
  <2>1. /\ pc'[c] = "wait" /\ pc[c] = "write"
        /\ \A d \in Callers : d # c => pc'[d] = pc[d]
    BY <1>0, <1>6 DEF Write
  <2>2. f \in BitFrames
    BY <1>0, <1>a, <2>1 DEF TypeOK, CounterInv, BitFrames, HostData
  <2>3. toDevice' = Append(toDevice, f)
    BY <1>6 DEF Write
  <2> HIDE DEF f
  <2>4. FramesInv'
    BY <1>a, <2>2, <2>3, AppendType DEF FramesInv
  <2>5. UNCHANGED <<sequence, seq, sendMtx>>
    BY <1>6 DEF Write
  <2> QED  BY <1>a, <2>1, <2>4, <2>5 DEF BitInv, HolderInv, CounterInv
<1>7. CASE WriteRefused(c)
  BY <1>7, ReturnKeepsBits DEF WriteRefused
<1>8. CASE WriteFails(c)
  <2>1. /\ pc'[c] = "failed" /\ pc[c] = "write"
        /\ \A d \in Callers : d # c => pc'[d] = pc[d]
    BY <1>0, <1>8 DEF WriteFails
  <2>2. UNCHANGED <<sequence, seq, sendMtx, toDevice>>
    BY <1>8 DEF WriteFails
  <2> QED  BY <1>a, <2>1, <2>2 DEF BitInv, HolderInv, CounterInv, FramesInv
<1>9. CASE WriteFailed(c)
  BY <1>9, ReturnKeepsBits DEF WriteFailed
<1>10. CASE WriteTimesOut(c)
  BY <1>10, ReturnKeepsBits DEF WriteTimesOut
<1>11. CASE Check(c) \/ Block(c) \/ Expire(c)
  <2>1. /\ pc[c] \in {"wait", "checked", "blocked"}
        /\ pc'[c] \in {"checked", "blocked", "passed"}
        /\ \A d \in Callers : d # c => pc'[d] = pc[d]
    BY <1>0, <1>11 DEF Check, Block, Expire
  <2>2. UNCHANGED <<sequence, seq, sendMtx, toDevice>>
    BY <1>11 DEF Check, Block, Expire
  <2> QED  BY <1>a, <2>1, <2>2 DEF BitInv, HolderInv, CounterInv, FramesInv
<1>12. CASE Decide(c)
  <2>1. PICK r, f : Return(c, pc, r, f)
    BY <1>12 DEF Decide
  <2>2. /\ pc[c] \notin {"idle", "acquire"}
        /\ UNCHANGED <<sequence, seq, toDevice>>
    BY <1>12 DEF Decide
  <2> QED  BY <2>1, <2>2, ReturnKeepsBits
<1> QED  BY <1>1, <1>2, <1>3, <1>4, <1>5, <1>6, <1>7, <1>8, <1>9, <1>10,
            <1>11, <1>12 DEF CallerStep

\* The reader: an ACK sets the counter to the bit it carries.
LEMMA ReaderKeepsBits ==
    ASSUME TypeInv, BitInv, ReaderStep
    PROVE  BitInv'
<1>1. CASE HandleAck
  <2>1. batch # <<>> /\ Head(batch) \in DeviceAcks \cup DeviceData
    BY <1>1, HeadTailType DEF TypeInv, HandleAck, BatchInv, TypeOK
  <2>2. Head(batch).seq \in Bits
    BY <2>1 DEF DeviceAcks, DeviceData
  <2>3. sequence' \in Bits
    BY <1>1, <2>2 DEF HandleAck, AckedSequence, Bits
  <2>4. FramesInv' /\ UNCHANGED <<seq, sendMtx>>
    BY <1>1 DEF HandleAck, BitInv, FramesInv
  <2>5. \E cvs : pc' = Woken(pc, cvs)
    BY <1>1 DEF HandleAck, NotifyAll
  <2> QED  BY <2>3, <2>4, <2>5, OthersKeepBits DEF TypeInv
<1>2. CASE SendAck
  <2>1. batch # <<>> /\ Head(batch) \in DeviceAcks \cup DeviceData
    BY <1>2, HeadTailType DEF TypeInv, SendAck, BatchInv, TypeOK
  <2>2. AckFor(Head(batch)) \in BitFrames
    BY <2>1 DEF AckFor, BitFrames, HostAcks, DeviceAcks, DeviceData, Bits
  <2>3. FramesInv'
    BY <1>2, <2>2, AppendType DEF SendAck, BitInv, FramesInv
  <2>4. UNCHANGED <<seq, sendMtx, sequence, pc>>
    BY <1>2 DEF SendAck
  <2> QED  BY <2>3, <2>4, OthersKeepBits DEF TypeInv
<1>3. ASSUME UNCHANGED <<seq, sendMtx, sequence, toDevice>>,
             UNCHANGED pc \/ \E cvs : pc' = Woken(pc, cvs)
      PROVE  BitInv'
  <2>1. FramesInv'
    BY <1>3 DEF BitInv, FramesInv
  <2> QED  BY <1>3, <2>1, OthersKeepBits DEF TypeInv
<1>4. CASE SendAckFailed \/ MatchRequest \/ Leave
  BY <1>3, <1>4 DEF SendAckFailed, MatchRequest, Leave, NotifyAll
<1>5. CASE \/ Loop \/ (\E n \in 1 .. MaxInFlight : Receive(n))
           \/ ReceiveTimesOut \/ ReceiveFails \/ SendAckRefused \/ SendAckFails
           \/ DropDuplicate \/ AcceptFrame \/ Buffer \/ Dispatch \/ Exit
  BY <1>3, <1>5 DEF Loop, Receive, ReceiveTimesOut, ReceiveFails,
                    SendAckRefused, SendAckFails, DropDuplicate, AcceptFrame,
                    Buffer, Dispatch, Exit
<1> QED  BY ReaderStep, <1>1, <1>2, <1>4, <1>5 DEF ReaderStep

\* The owner, the link and the headphones.
LEMMA OutsideKeepsBits ==
    ASSUME TypeInv, BitInv,
           \/ (\E n \in Sequences : SetSequence(n)) \/ Connect
           \/ (\E again \in BOOLEAN : StopReader(again)) \/ OwnerStep
           \/ DeviceStep \/ DevicePushes \/ Corrupt \/ Drop
    PROVE  BitInv'
<1>1. UNCHANGED <<seq, sendMtx>>
  BY ZenonT(60) DEF SetSequence, Connect, StopReader, OwnerStep, NotifyStopped, Join, Close, Clear,
         Open, OpenFails, Start, StartReader, DeviceStep, DeviceTakes,
         DeviceAcked, DeviceSends, DevicePushes, Corrupt, Drop
<1>2. sequence' \in Bits \/ UNCHANGED sequence
      \/ \E n \in Sequences : SetSequence(n)
  BY ZenonT(60) DEF SetSequence, Connect, StopReader, OwnerStep, NotifyStopped, Join, Close, Clear,
         Open, OpenFails, Start, StartReader, DeviceStep, DeviceTakes,
         DeviceAcked, DeviceSends, DevicePushes, Corrupt, Drop, Bits
<1>3. UNCHANGED pc \/ \E cvs : pc' = Woken(pc, cvs)
  BY ZenonT(60) DEF SetSequence, Connect, StopReader, OwnerStep, NotifyStopped, Join, Close, Clear,
         Open, OpenFails, Start, StartReader, DeviceStep, DeviceTakes,
         DeviceAcked, DeviceSends, DevicePushes, Corrupt, Drop, NotifyAll
<1>4. \/ UNCHANGED toDevice \/ toDevice' = <<>>
      \/ toDevice # <<>> /\ toDevice' = Tail(toDevice)
  BY DEF SetSequence, Connect, StopReader, OwnerStep, NotifyStopped, Join, Close, Clear,
         Open, OpenFails, Start, StartReader, DeviceStep, DeviceTakes,
         DeviceAcked, DeviceSends, DevicePushes, Corrupt, Drop
<1>5. FramesInv'
  BY <1>4, HeadTailType, EmptyType DEF BitInv, FramesInv
<1>6. ASSUME NEW n \in Sequences, SetSequence(n) PROVE BitInv'
  <2>1. sequence' <= 253
    BY <1>6, NumberAssumption DEF SetSequence
  <2>2. \A c \in Callers : pc[c] = "idle"
    BY <1>6 DEF SetSequence
  <2>3. UNCHANGED pc
    BY <1>6 DEF SetSequence
  <2> QED  BY <1>5, <2>1, <2>2, <2>3 DEF BitInv, HolderInv, CounterInv
<1> QED  BY <1>1, <1>2, <1>3, <1>5, <1>6, OthersKeepBits, SMTT(60) DEF TypeInv

\* At the start nothing has been drawn or written.
LEMMA BitInit == Init => BitInv
BY EmptyType DEF Init, BitInv, HolderInv, CounterInv, FramesInv

\* Every step keeps the counter and the numbers drawn in bounds.
LEMMA BitStep == TypeInv /\ BitInv /\ [Next]_vars => BitInv'
<1> SUFFICES ASSUME TypeInv, BitInv, [Next]_vars PROVE BitInv'
  OBVIOUS
<1>1. CASE UNCHANGED vars
  BY <1>1 DEF vars, BitInv, HolderInv, CounterInv, FramesInv
<1> QED  BY <1>1, CallsKeepBits, ReaderKeepsBits, OutsideKeepsBits
         DEF Next, TypeInv

\* Every data frame carries a sequence bit: no lost ACK, and no store by the
\* reader between the accesses of nextSequenceNumber, lets the counter run.
THEOREM SequenceStaysBit == Spec => []SequenceIsBit
<1>1. BitInv => SequenceIsBit
  BY DEF BitInv, FramesInv, SequenceIsBit, BitFrames, HostAcks
<1> QED  BY <1>1, BitInit, BitStep, TypeInit, TypeStep, PTL DEF Spec
-----------------------------------------------------------------------------
(* An owner that disconnects before it connects again.                     *)

\* Where the reader has a frame in hands.
Handling == {"handle", "notify", "acked", "fresh", "dispatch"}

\* connect() finds nobody at work, what was left of the last connection is gone
\* before the new reader starts, and a reader leaves no frame behind.
IdleInv ==
    /\ ~reconnect
    /\ owner \in {"opening", "starting", "restarting", "rejoining"} =>
          ~running /\ reader = "none" /\ \A c \in Callers : pc[c] = "idle"
    /\ owner \in {"closing", "clearing"} => reader = "none"
    /\ owner \in {"starting", "restarting", "rejoining"} => taken = <<>>
    /\ owner \in {"restarting", "rejoining"} =>
          /\ pendingRequest = NoRequest /\ unmatchedFrames = <<>>
          /\ lastSeenDataSeq = {}
    /\ reader \notin Handling => batch = <<>>

\* Where connect() is past its test.
Opening == {"opening", "starting", "restarting", "rejoining"}

\* At the start nobody is at work.
LEMMA IdleInit == Init => IdleInv
BY DEF Init, IdleInv

\* A call finds the session up, so connect() is not at work.
LEMMA CallsKeepIdle ==
    ASSUME IdleInv, NEW c \in Callers,
           (\E o \in Ops \cup {NoOp} : Call(c, o)) \/ CallerStep(c) \/ Expire(c)
    PROVE  IdleInv'
<1>1. UNCHANGED <<reconnect, owner, reader, taken, batch, lastSeenDataSeq>>
  BY DEF Call, CallerStep, Acquire, Normalise, FetchAdd, Register, Write,
         WriteRefused, WriteFails, WriteFailed, WriteTimesOut, Check, Block,
         Decide, Expire
<1>2. CASE owner \in Opening
  <2>1. pc[c] = "idle" /\ ~running
    BY <1>2 DEF IdleInv, Opening
  <2>2. UNCHANGED <<pc, running, pendingRequest, unmatchedFrames>>
    BY <2>1 DEF Call, IsConnected, CallerStep, Acquire, Normalise, FetchAdd,
                Register, Write, WriteRefused, WriteFails, WriteFailed,
                WriteTimesOut, Check, Block, Decide, Expire
  <2> QED  BY <1>1, <2>2 DEF IdleInv
<1> QED  BY <1>1, <1>2 DEF IdleInv, Opening

\* The reader lets a frame go before it leaves.
LEMMA ReaderKeepsIdle ==
    ASSUME TypeInv, IdleInv, ReaderStep
    PROVE  IdleInv'
<1>1. UNCHANGED <<reconnect, owner>>
  BY DEF ReaderStep, Loop, Receive, ReceiveTimesOut, ReceiveFails, HandleAck,
         SendAck, SendAckRefused, SendAckFails, SendAckFailed, DropDuplicate,
         AcceptFrame, MatchRequest, Buffer, Dispatch, Exit, Leave
<1>2. reader # "none"
  BY DEF ReaderStep, Loop, Receive, ReceiveTimesOut, ReceiveFails, HandleAck,
         SendAck, SendAckRefused, SendAckFails, SendAckFailed, DropDuplicate,
         AcceptFrame, MatchRequest, Buffer, Dispatch, Exit, Leave
<1>3. owner \notin Opening /\ owner \notin {"closing", "clearing"}
  BY <1>2 DEF IdleInv, Opening
<1>4. ASSUME NextFrame, reader \in Handling
      PROVE  reader' \notin Handling => batch' = <<>>
  <2>1. batch # <<>> /\ Len(Tail(batch)) = Len(batch) - 1
        /\ Tail(batch) \in Seq(DeviceAcks \cup DeviceData) /\ Len(batch) \in Nat
    BY <1>4, HeadTailType DEF Handling, TypeInv, TypeOK, BatchInv
  <2>2. CASE Len(batch) > 1
    BY <1>4, <2>2 DEF NextFrame, Handling
  <2>3. CASE Len(batch) = 1
    BY <1>4, <2>1, <2>3, EmptySeq DEF NextFrame
  <2>4. Len(batch) # 0
    BY <2>1, EmptySeq DEF TypeInv, TypeOK
  <2> QED  BY <2>1, <2>2, <2>3, <2>4
<1>5. reader' \notin Handling => batch' = <<>>
  <2>1. CASE HandleAck \/ DropDuplicate \/ MatchRequest \/ Dispatch
    BY <1>4, <2>1 DEF HandleAck, DropDuplicate, MatchRequest, Dispatch, Handling
  <2>2. CASE \E n \in 1 .. MaxInFlight : Receive(n)
    BY <2>2 DEF Receive, Handling
  <2>3. CASE \/ Loop \/ ReceiveTimesOut \/ ReceiveFails \/ SendAck
             \/ SendAckRefused \/ SendAckFails \/ SendAckFailed \/ AcceptFrame
             \/ Buffer \/ Exit \/ Leave
    BY <2>3 DEF Loop, ReceiveTimesOut, ReceiveFails, SendAck, SendAckRefused,
                SendAckFails, SendAckFailed, AcceptFrame, Buffer, Exit, Leave,
                IdleInv, Handling
  <2> QED  BY <2>1, <2>2, <2>3 DEF ReaderStep
<1> QED  BY <1>1, <1>3, <1>5 DEF IdleInv, Opening

\* connect() starts from a session that was disconnected, and clears it.
LEMMA OthersKeepIdle ==
    ASSUME OrderlyOwner, IdleInv,
           \/ (\E n \in Sequences : SetSequence(n)) \/ Connect
           \/ (\E again \in BOOLEAN : StopReader(again)) \/ OwnerStep
           \/ DeviceStep \/ DevicePushes \/ Corrupt \/ Drop \/ UNCHANGED vars
    PROVE  IdleInv'
<1> USE DEF IdleInv, Handling
<1>1. CASE \E n \in Sequences : SetSequence(n)
  BY <1>1 DEF SetSequence
<1>2. CASE Connect
  BY <1>2 DEF Connect
<1>3. ASSUME NEW again \in BOOLEAN, StopReader(again) PROVE IdleInv'
  BY <1>3 DEF StopReader
<1>4. CASE NotifyStopped
  BY <1>4 DEF NotifyStopped, NotifyAll, Woken
<1>5. CASE Join \/ Close \/ OpenFails \/ StartReader
  BY <1>5 DEF Join, Close, OpenFails, StartReader, ReaderGone
<1>6. CASE Clear
  BY <1>6 DEF Clear
<1>7. CASE Open
  BY <1>7 DEF Open
<1>8. CASE Start
  BY <1>8 DEF Start, ClearSession
<1>9. CASE DeviceStep \/ DevicePushes \/ Corrupt \/ Drop \/ UNCHANGED vars
  <2>1. UNCHANGED <<notLink>>
    BY <1>9, ZenonT(60) DEF DeviceStep, DeviceTakes, DeviceAcked, DeviceSends, DevicePushes,
                Corrupt, Drop, vars
  <2> QED  BY <2>1, SMTT(60)
<1> QED  BY <1>1, <1>2, <1>3, <1>4, <1>5, <1>6, <1>7, <1>8, <1>9 DEF OwnerStep

\* Every step of an orderly owner, and of those beside it, keeps IdleInv.
LEMMA IdleStep == OrderlyOwner /\ TypeInv /\ IdleInv /\ [Next]_vars => IdleInv'
BY CallsKeepIdle, ReaderKeepsIdle, OthersKeepIdle DEF Next
-----------------------------------------------------------------------------
(* The pending request.                                                     *)

\* A failed write has ended the session, and only requests are pending.
PendingInv ==
    /\ PendingOwned
    /\ pendingRequest # NoRequest => pendingRequest.op # NoOp
    /\ \A c \in Callers : pc[c] = "failed" => ~running

\* At the start no request is pending.
LEMMA PendingInit == Init => PendingInv
BY DEF Init, PendingInv, PendingOwned, IsConnected

\* What wakes callers, and leaves the request to whom it belongs, keeps it owned.
LEMMA WakingKeepsPending ==
    ASSUME TypeOK, PendingInv,
           UNCHANGED <<op, sendMtx>>,
           UNCHANGED pc \/ \E cvs : pc' = Woken(pc, cvs),
           running' => running, link # "down" \/ UNCHANGED link \/ ~running,
           pendingRequest' # NoRequest =>
              pendingRequest # NoRequest /\ pendingRequest'.op = pendingRequest.op
    PROVE  PendingInv'
<1>1. \A c \in Callers :
         pc'[c] = pc[c] \/ (pc[c] = "blocked" /\ pc'[c] = "wait")
  BY WokenStays DEF TypeOK
<1>2. IsConnected' => IsConnected
  BY DEF IsConnected
<1> QED  BY <1>1, <1>2 DEF PendingInv, PendingOwned, TypeOK

\* The end of a call: no request is left pending, or the session has ended.
LEMMA ReturnKeepsPending ==
    ASSUME TypeOK, PendingInv, NEW c \in Callers, NEW r, NEW f, NEW p,
           p = pc \/ (\E cvs : p = Woken(pc, cvs)),
           Return(c, p, r, f), UNCHANGED running,
           pendingRequest' = NoRequest \/ (UNCHANGED pendingRequest /\ ~IsConnected')
    PROVE  PendingInv'
<1>1. pc \in [Callers -> CallerStates]
  BY DEF TypeOK
<1>2. DOMAIN p = Callers
  BY <1>1 DEF Woken
<1>3. \A d \in Callers : p[d] = pc[d] \/ (pc[d] = "blocked" /\ p[d] = "wait")
  BY <1>1, WokenStays
<1>4. \A d \in Callers : pc'[d] = "failed" => pc[d] = "failed"
  BY <1>2, <1>3 DEF Return
<1> QED  BY <1>4 DEF PendingInv, PendingOwned

\* A call takes its request back before it releases _sendMtx.
LEMMA CallsKeepPending ==
    ASSUME ~WritesTimeOut, TypeOK, HolderInv, PendingInv, NEW c \in Callers,
           (\E o \in Ops \cup {NoOp} : Call(c, o)) \/ CallerStep(c) \/ Expire(c)
    PROVE  PendingInv'
<1>0. /\ pc \in [Callers -> CallerStates] /\ op \in [Callers -> Ops \cup {NoOp}]
      /\ sendMtx \in Callers \cup {Nobody}
  BY DEF TypeOK
<1> USE DEF PendingInv
<1>1. ASSUME NEW o \in Ops \cup {NoOp}, Call(c, o) PROVE PendingInv'
  <2>1. /\ pc[c] = "idle" /\ op' = [op EXCEPT ![c] = o]
        /\ UNCHANGED <<sendMtx, pendingRequest, running, link>>
        /\ \A d \in Callers : pc'[d] = pc[d] \/ (d = c /\ pc'[d] = "acquire")
    BY <1>0, <1>1 DEF Call
  <2>2. IsConnected' = IsConnected
    BY <2>1 DEF IsConnected
  <2> QED  BY <1>0, <2>1, <2>2 DEF PendingOwned
<1>2. CASE Acquire(c)
  <2>1. /\ sendMtx = Nobody /\ UNCHANGED <<pendingRequest, running, link>>
        /\ \A d \in Callers : pc'[d] = "failed" => pc[d] = "failed"
    BY <1>0, <1>2 DEF Acquire
  <2> QED  BY <2>1 DEF PendingOwned, IsConnected
<1>3. CASE Normalise(c) \/ FetchAdd(c)
  <2>1. /\ pc[c] \in {"normalise", "add"}
        /\ UNCHANGED <<op, sendMtx, pendingRequest, running, link>>
        /\ pc'[c] # "failed" /\ \A d \in Callers : d # c => pc'[d] = pc[d]
    BY <1>0, <1>3 DEF Normalise, FetchAdd
  <2>2. sendMtx = c
    BY <2>1 DEF HolderInv
  <2>3. ~(IsConnected /\ pendingRequest # NoRequest)
    BY <2>1, <2>2 DEF PendingOwned
  <2> QED  BY <2>1, <2>3 DEF PendingOwned, IsConnected
<1>4. CASE Register(c)
  <2>1. /\ pc[c] = "register" /\ UNCHANGED <<op, sendMtx, running, link>>
        /\ pc'[c] = "write" /\ \A d \in Callers : d # c => pc'[d] = pc[d]
    BY <1>0, <1>4 DEF Register
  <2>2. sendMtx = c /\ ~(IsConnected /\ pendingRequest # NoRequest)
    BY <2>1 DEF HolderInv, PendingOwned
  <2>3. CASE op[c] = NoOp
    BY <1>4, <2>1, <2>2, <2>3 DEF Register, PendingOwned, IsConnected
  <2>4. CASE op[c] # NoOp
    <3>1. pendingRequest'.op = op[c]
      BY <1>4, <2>4 DEF Register, Request
    <3> QED  BY <2>1, <2>2, <2>4, <3>1, NameAssumption DEF PendingOwned
  <2> QED  BY <2>3, <2>4
<1>5. CASE Write(c) \/ Check(c) \/ Block(c) \/ Expire(c)
  <2>1. /\ pc[c] \in {"write", "wait", "checked", "blocked"}
        /\ pc'[c] \in {"wait", "checked", "blocked", "passed"}
        /\ \A d \in Callers : d # c => pc'[d] = pc[d]
        /\ UNCHANGED <<op, sendMtx, pendingRequest, running, link>>
    BY <1>0, <1>5 DEF Write, Check, Block, Expire
  <2>2. IsConnected' = IsConnected
    BY <2>1 DEF IsConnected
  <2> QED  BY <1>0, <2>1, <2>2 DEF PendingOwned
<1>6. CASE WriteFails(c)
  <2>1. ~running' /\ UNCHANGED pendingRequest
    BY <1>6 DEF WriteFails
  <2> QED  BY <2>1 DEF PendingOwned, IsConnected
<1>7. CASE WriteRefused(c)
  BY <1>7, ReturnKeepsPending DEF WriteRefused, IsConnected
<1>8. CASE WriteFailed(c)
  <2>1. ~running
    BY <1>8 DEF WriteFailed
  <2> QED  BY <1>8, <2>1, ReturnKeepsPending DEF WriteFailed, IsConnected
<1>9. CASE WriteTimesOut(c)
  BY <1>9 DEF WriteTimesOut
<1>10. CASE Decide(c)
  <2>1. PICK r, f : Return(c, pc, r, f)
    BY <1>10 DEF Decide
  <2>2. pendingRequest' = AfterWait(c) /\ UNCHANGED <<running, link, op>>
    BY <1>10 DEF Decide
  <2>3. sendMtx = c
    BY <1>10 DEF Decide, HolderInv
  <2>4. op[c] = NoOp => pendingRequest = NoRequest \/ ~IsConnected
    BY <2>3 DEF PendingOwned
  <2> QED  BY <2>1, <2>2, <2>4, ReturnKeepsPending DEF AfterWait, IsConnected
<1> QED  BY <1>1, <1>2, <1>3, <1>4, <1>5, <1>6, <1>7, <1>8, <1>9, <1>10
         DEF CallerStep

\* Nobody but the caller makes a request pending.
LEMMA OthersKeepPending ==
    ASSUME TypeOK, IdleInv, PendingInv,
           \/ ReaderStep \/ (\E n \in Sequences : SetSequence(n)) \/ Connect
           \/ (\E again \in BOOLEAN : StopReader(again)) \/ OwnerStep
           \/ DeviceStep \/ DevicePushes \/ Corrupt \/ Drop \/ UNCHANGED vars
    PROVE  PendingInv'
<1>1. UNCHANGED <<op, sendMtx>>
  BY ZenonT(60) DEF ReaderStep, Loop, Receive, ReceiveTimesOut, ReceiveFails, HandleAck,
         SendAck, SendAckRefused, SendAckFails, SendAckFailed, DropDuplicate,
         AcceptFrame, MatchRequest, Buffer, Dispatch, Exit, Leave, SetSequence,
         Connect, StopReader, OwnerStep, NotifyStopped, Join, Close, Clear, Open,
         OpenFails, Start, StartReader, DeviceStep, DeviceTakes, DeviceAcked,
         DeviceSends, DevicePushes, Corrupt, Drop, vars
<1>2. UNCHANGED pc \/ \E cvs : pc' = Woken(pc, cvs)
  BY ZenonT(60) DEF ReaderStep, Loop, Receive, ReceiveTimesOut, ReceiveFails, HandleAck,
         SendAck, SendAckRefused, SendAckFails, SendAckFailed, DropDuplicate,
         AcceptFrame, MatchRequest, Buffer, Dispatch, Exit, Leave, NotifyAll,
         SetSequence, Connect, StopReader, OwnerStep, NotifyStopped, Join, Close,
         Clear, Open, OpenFails, Start, StartReader, DeviceStep, DeviceTakes,
         DeviceAcked, DeviceSends, DevicePushes, Corrupt, Drop, vars
<1>3. CASE StartReader
  <2>1. pendingRequest' = NoRequest /\ \A c \in Callers : pc'[c] = "idle"
    BY <1>3 DEF StartReader, IdleInv
  <2> QED  BY <2>1 DEF PendingInv, PendingOwned
<1>4. CASE ~StartReader
  <2>1. running' => running
    BY <1>4, ZenonT(60) DEF ReaderStep, Loop, Receive, ReceiveTimesOut, ReceiveFails, HandleAck,
         SendAck, SendAckRefused, SendAckFails, SendAckFailed, DropDuplicate,
         AcceptFrame, MatchRequest, Buffer, Dispatch, Exit, Leave, SetSequence,
         Connect, StopReader, OwnerStep, NotifyStopped, Join, Close, Clear, Open,
         OpenFails, Start, DeviceStep, DeviceTakes, DeviceAcked,
         DeviceSends, DevicePushes, Corrupt, Drop, vars
  <2>2. link # "down" \/ UNCHANGED link \/ ~running
    BY <1>4, ZenonT(60) DEF ReaderStep, Loop, Receive, ReceiveTimesOut, ReceiveFails, HandleAck,
         SendAck, SendAckRefused, SendAckFails, SendAckFailed, DropDuplicate,
         AcceptFrame, MatchRequest, Buffer, Dispatch, Exit, Leave, SetSequence,
         Connect, StopReader, OwnerStep, NotifyStopped, Join, Close, Clear, Open,
         OpenFails, Start, DeviceStep, DeviceTakes, DeviceAcked,
         DeviceSends, DevicePushes, Corrupt, Drop, vars, IdleInv
  <2>3. CASE MatchRequest
    <3>1. pendingRequest # NoRequest /\ pendingRequest'.op = pendingRequest.op
      BY <2>3 DEF MatchRequest, IsAwaited, TypeOK, Requests
    <3> QED  BY <1>1, <1>2, <2>1, <2>2, <3>1, WakingKeepsPending
  <2>4. CASE ~MatchRequest
    <3>1. pendingRequest' = NoRequest \/ UNCHANGED pendingRequest
      BY <1>4, <2>4, ZenonT(60) DEF ReaderStep, Loop, Receive, ReceiveTimesOut, ReceiveFails,
         HandleAck, SendAck, SendAckRefused, SendAckFails, SendAckFailed,
         DropDuplicate, AcceptFrame, Buffer, Dispatch, Exit, Leave, SetSequence,
         Connect, StopReader, OwnerStep, NotifyStopped, Join, Close, Clear, Open,
         OpenFails, Start, ClearSession, DeviceStep, DeviceTakes, DeviceAcked,
         DeviceSends, DevicePushes, Corrupt, Drop, vars
    <3> QED  BY <1>1, <1>2, <2>1, <2>2, <3>1, WakingKeepsPending, SMTT(60)
  <2> QED  BY <2>3, <2>4
<1> QED  BY <1>3, <1>4, SMTT(60)

\* A pending request is that of the call that holds _sendMtx.
THEOREM PendingStaysOwned ==
    ASSUME OrderlyOwner, ~WritesTimeOut
    PROVE  Spec => []PendingOwned
<1>1. TypeInv /\ BitInv /\ IdleInv /\ PendingInv /\ [Next]_vars => PendingInv'
  BY CallsKeepPending, OthersKeepPending DEF Next, TypeInv, BitInv
<1>2. TypeInv /\ IdleInv /\ [Next]_vars => IdleInv'
  BY IdleStep
<1>3. PendingInv => PendingOwned
  BY DEF PendingInv
<1> QED
  BY <1>1, <1>2, <1>3, TypeInit, TypeStep, BitInit, BitStep, IdleInit, PendingInit, PTL
  DEF Spec

-----------------------------------------------------------------------------
(* Queues: what is in them, and in which order.                             *)

\* What a function has at a place is in its range.
LEMMA RangeHas ==
    ASSUME NEW f, NEW x \in DOMAIN f
    PROVE  f[x] \in Range(f)
BY DEF Range

\* What is in a queue that grew, shrank or was cut.
LEMMA QueueRanges ==
    ASSUME NEW S, NEW q \in Seq(S)
    PROVE  /\ Range(<<>>) = {} /\ Range(q) \subseteq S
           /\ \A e \in S : Range(Append(q, e)) = Range(q) \cup {e}
           /\ q # <<>> => /\ Head(q) \in Range(q)
                          /\ Range(q) = Range(Tail(q)) \cup {Head(q)}
           /\ \A n \in 1 .. Len(q) :
                 Range(q) = Range(SubSeq(q, 1, n)) \cup Range(SubSeq(q, n + 1, Len(q)))
<1> USE DEF Range
<1>1. Range(<<>>) = {} /\ Range(q) \subseteq S
  OBVIOUS
<1>2. ASSUME NEW e \in S PROVE Range(Append(q, e)) = Range(q) \cup {e}
  <2>1. /\ DOMAIN Append(q, e) = 1 .. Len(q) + 1 /\ DOMAIN q = 1 .. Len(q)
        /\ \A i \in 1 .. Len(q) : Append(q, e)[i] = q[i]
        /\ Append(q, e)[Len(q) + 1] = e
    OBVIOUS
  <2>2. \A i : i \in 1 .. Len(q) + 1 <=> i \in 1 .. Len(q) \/ i = Len(q) + 1
    OBVIOUS
  <2> QED  BY <2>1, <2>2, Zenon
<1>3. ASSUME q # <<>>
      PROVE  Head(q) \in Range(q) /\ Range(q) = Range(Tail(q)) \cup {Head(q)}
  <2>1. /\ Len(q) \in Nat /\ Len(q) >= 1 /\ Head(q) = q[1] /\ DOMAIN q = 1 .. Len(q)
        /\ DOMAIN Tail(q) = 1 .. Len(q) - 1
        /\ \A i \in 1 .. Len(q) - 1 : Tail(q)[i] = q[i + 1]
    BY <1>3, HeadTailProperties, EmptySeq
  <2>2. \A i \in 1 .. Len(q) : i = 1 \/ (i - 1 \in 1 .. Len(q) - 1 /\ i - 1 + 1 = i)
    BY <2>1
  <2>3. \A i \in 1 .. Len(q) - 1 : i + 1 \in 1 .. Len(q)
    BY <2>1
  <2>4. Head(q) \in Range(q)
    BY <2>1
  <2>5. Range(Tail(q)) \subseteq Range(q)
    BY <2>1, <2>3
  <2>6. ASSUME NEW i \in 1 .. Len(q), i # 1 PROVE q[i] \in Range(Tail(q))
    <3>1. i - 1 \in DOMAIN Tail(q)
      BY <2>1, <2>6
    <3>2. Tail(q)[i - 1] = q[i]
      BY <2>1, <2>6
    <3> HIDE DEF Range
    <3> QED  BY <3>1, <3>2, RangeHas
  <2>7. Range(q) \subseteq Range(Tail(q)) \cup {Head(q)}
    BY <2>1, <2>6
  <2> QED  BY <2>4, <2>5, <2>7
<1>4. ASSUME NEW n \in 1 .. Len(q)
      PROVE  Range(q) = Range(SubSeq(q, 1, n)) \cup Range(SubSeq(q, n + 1, Len(q)))
  <2>1. /\ DOMAIN SubSeq(q, 1, n) = 1 .. n
        /\ \A i \in 1 .. n : SubSeq(q, 1, n)[i] = q[i]
        /\ DOMAIN SubSeq(q, n + 1, Len(q)) = 1 .. Len(q) - n
        /\ \A i \in 1 .. Len(q) - n : SubSeq(q, n + 1, Len(q))[i] = q[i + n]
    OBVIOUS
  <2>2. \A i \in 1 .. Len(q) : i \in 1 .. n \/ (i - n \in 1 .. Len(q) - n /\ i - n + n = i)
    OBVIOUS
  <2>3. /\ \A i \in 1 .. n : i \in 1 .. Len(q)
        /\ \A i \in 1 .. Len(q) - n : i + n \in 1 .. Len(q)
    OBVIOUS
  <2>4. /\ Range(SubSeq(q, 1, n)) \subseteq Range(q)
        /\ Range(SubSeq(q, n + 1, Len(q))) \subseteq Range(q)
    BY <2>1, <2>3
  <2>5. ASSUME NEW i \in 1 .. Len(q)
        PROVE  \/ q[i] \in Range(SubSeq(q, 1, n))
               \/ q[i] \in Range(SubSeq(q, n + 1, Len(q)))
    BY <2>1, <2>2
  <2> QED  BY <2>4, <2>5
<1> QED  BY <1>1, <1>2, <1>3, <1>4

\* A queue that grew.
LEMMA AppendRange ==
    ASSUME NEW S, NEW q \in Seq(S), NEW e \in S
    PROVE  Range(Append(q, e)) = Range(q) \cup {e}
BY QueueRanges

\* Behind a frame of A comes none of B.
NoneBehind(q, A, B) == \A i, j \in DOMAIN q : i < j /\ q[i] \in A => q[j] \notin B

\* The same of the batch b and, behind it, the link's queue h.
InOrder(b, h, A, B) ==
    /\ NoneBehind(b, A, B) /\ NoneBehind(h, A, B)
    /\ Range(b) \cap A = {} \/ Range(h) \cap B = {}

\* A queue is left alone, emptied, or loses its head.
Drains(q, r) == r = q \/ r = <<>> \/ (q # <<>> /\ r = Tail(q))

\* The reader and the loss of frames drain the two, and receive() makes what is
\* on the link a batch.
Shrinks(b, h, b2, h2) ==
    \/ b2 = b /\ Drains(h, h2)
    \/ h2 = h /\ Drains(b, b2)
    \/ /\ b = <<>>
       /\ \E n \in 1 .. Len(h) :
             b2 = SubSeq(h, 1, n) /\ h2 = SubSeq(h, n + 1, Len(h))

\* Order among fewer frames.
LEMMA BehindLess ==
    ASSUME NEW q, NEW A, NEW B, NEW A2, NEW B2, NoneBehind(q, A, B),
           Range(q) \cap A2 \subseteq A, Range(q) \cap B2 \subseteq B
    PROVE  NoneBehind(q, A2, B2)
BY DEF NoneBehind, Range

\* Order of a queue that grew by a frame nothing forbids.
LEMMA BehindAppend ==
    ASSUME NEW S, NEW q \in Seq(S), NEW e \in S, NEW A, NEW B, NoneBehind(q, A, B),
           e \notin B \/ Range(q) \cap A = {}
    PROVE  NoneBehind(Append(q, e), A, B)
BY DEF NoneBehind, Range

\* Order of a queue that lost its head.
LEMMA BehindTail ==
    ASSUME NEW S, NEW q \in Seq(S), q # <<>>, NEW A, NEW B, NoneBehind(q, A, B)
    PROVE  /\ NoneBehind(Tail(q), A, B)
           /\ Head(q) \in A => Range(Tail(q)) \cap B = {}
<1>1. /\ Len(q) \in Nat /\ Len(q) >= 1 /\ Head(q) = q[1] /\ DOMAIN q = 1 .. Len(q)
      /\ DOMAIN Tail(q) = 1 .. Len(q) - 1
      /\ \A i \in 1 .. Len(q) - 1 : Tail(q)[i] = q[i + 1]
  BY HeadTailProperties, EmptySeq
<1>2. /\ \A i \in 1 .. Len(q) - 1 : i + 1 \in 1 .. Len(q) /\ 1 < i + 1
      /\ \A i, j \in 1 .. Len(q) - 1 : i < j => i + 1 < j + 1
      /\ 1 \in 1 .. Len(q)
  BY <1>1
<1>3. NoneBehind(Tail(q), A, B)
  BY <1>1, <1>2 DEF NoneBehind
<1>4. ASSUME Head(q) \in A, NEW i \in 1 .. Len(q) - 1 PROVE Tail(q)[i] \notin B
  BY <1>1, <1>2, <1>4 DEF NoneBehind
<1> QED  BY <1>1, <1>3, <1>4 DEF Range

\* Order of a queue that was cut in two.
LEMMA BehindCut ==
    ASSUME NEW S, NEW q \in Seq(S), NEW n \in 1 .. Len(q), NEW A, NEW B,
           NoneBehind(q, A, B)
    PROVE  InOrder(SubSeq(q, 1, n), SubSeq(q, n + 1, Len(q)), A, B)
<1>1. /\ DOMAIN SubSeq(q, 1, n) = 1 .. n
      /\ \A i \in 1 .. n : SubSeq(q, 1, n)[i] = q[i]
      /\ DOMAIN SubSeq(q, n + 1, Len(q)) = 1 .. Len(q) - n
      /\ \A i \in 1 .. Len(q) - n : SubSeq(q, n + 1, Len(q))[i] = q[i + n]
      /\ DOMAIN q = 1 .. Len(q)
  OBVIOUS
<1>2. /\ \A i \in 1 .. n : i \in 1 .. Len(q)
      /\ \A i \in 1 .. Len(q) - n : i + n \in 1 .. Len(q)
      /\ \A i \in 1 .. n, j \in 1 .. Len(q) - n : i < j + n
      /\ \A i, j \in 1 .. Len(q) - n : i < j => i + n < j + n
  OBVIOUS
<1>3. /\ NoneBehind(SubSeq(q, 1, n), A, B)
      /\ NoneBehind(SubSeq(q, n + 1, Len(q)), A, B)
  BY <1>1, <1>2 DEF NoneBehind
<1>4. ASSUME NEW i \in 1 .. n, NEW j \in 1 .. Len(q) - n,
             SubSeq(q, 1, n)[i] \in A
      PROVE  SubSeq(q, n + 1, Len(q))[j] \notin B
  BY <1>1, <1>2, <1>4 DEF NoneBehind
<1>5. \/ Range(SubSeq(q, 1, n)) \cap A = {}
      \/ Range(SubSeq(q, n + 1, Len(q))) \cap B = {}
  <2>1. ASSUME NEW x \in Range(SubSeq(q, 1, n)), x \in A,
               NEW y \in Range(SubSeq(q, n + 1, Len(q)))
        PROVE  y \notin B
    <3>1. PICK i \in 1 .. n : x = SubSeq(q, 1, n)[i]
      BY <1>1 DEF Range
    <3>2. PICK j \in 1 .. Len(q) - n : y = SubSeq(q, n + 1, Len(q))[j]
      BY <1>1 DEF Range
    <3> QED  BY <1>4, <2>1, <3>1, <3>2
  <2> QED  BY <2>1
<1> QED  BY <1>3, <1>5 DEF InOrder

\* Frames that leave a queue disturb no order.
LEMMA DrainedQueue ==
    ASSUME NEW S, NEW q \in Seq(S), NEW r, Drains(q, r), NEW A, NEW B
    PROVE  /\ r \in Seq(S) /\ Range(r) \subseteq Range(q)
           /\ NoneBehind(q, A, B) => NoneBehind(r, A, B)
<1>1. CASE r = q
  BY <1>1
<1>2. CASE r = <<>>
  BY <1>2 DEF NoneBehind, Range
<1>3. CASE q # <<>> /\ r = Tail(q)
  BY <1>3, QueueRanges, BehindTail, HeadTailType
<1> QED  BY <1>1, <1>2, <1>3 DEF Drains

\* What is taken from the batch and the link leaves the rest in order.
LEMMA ShrinkInOrder ==
    ASSUME NEW S, NEW b \in Seq(S), NEW h \in Seq(S), NEW b2, NEW h2,
           Shrinks(b, h, b2, h2)
    PROVE  /\ b2 \in Seq(S) /\ h2 \in Seq(S)
           /\ Range(b2) \cup Range(h2) \subseteq Range(b) \cup Range(h)
           /\ \A A, B : InOrder(b, h, A, B) => InOrder(b2, h2, A, B)
<1> SUFFICES ASSUME NEW A, NEW B
             PROVE  /\ b2 \in Seq(S) /\ h2 \in Seq(S)
                    /\ Range(b2) \cup Range(h2) \subseteq Range(b) \cup Range(h)
                    /\ InOrder(b, h, A, B) => InOrder(b2, h2, A, B)
  OBVIOUS
<1>1. CASE Drains(b, b2) /\ Drains(h, h2)
  <2>1. /\ b2 \in Seq(S) /\ Range(b2) \subseteq Range(b)
        /\ NoneBehind(b, A, B) => NoneBehind(b2, A, B)
    BY <1>1, DrainedQueue
  <2>2. /\ h2 \in Seq(S) /\ Range(h2) \subseteq Range(h)
        /\ NoneBehind(h, A, B) => NoneBehind(h2, A, B)
    BY <1>1, DrainedQueue
  <2> QED  BY <2>1, <2>2 DEF InOrder
<1>2. ASSUME b = <<>>, NEW n \in 1 .. Len(h),
             b2 = SubSeq(h, 1, n), h2 = SubSeq(h, n + 1, Len(h))
      PROVE  /\ b2 \in Seq(S) /\ h2 \in Seq(S)
             /\ Range(b2) \cup Range(h2) \subseteq Range(b) \cup Range(h)
             /\ InOrder(b, h, A, B) => InOrder(b2, h2, A, B)
  BY <1>2, QueueRanges, BehindCut, CutType, ZenonT(60) DEF InOrder
<1> QED  BY <1>1, <1>2 DEF Shrinks, Drains

\* A frame that joins, of which nothing in front forbids it.
LEMMA GrowInOrder ==
    ASSUME NEW S, NEW b \in Seq(S), NEW h \in Seq(S), NEW e \in S, NEW A, NEW B,
           InOrder(b, h, A, B), e \notin B \/ (Range(b) \cup Range(h)) \cap A = {}
    PROVE  InOrder(b, Append(h, e), A, B)
<1>1. Range(Append(h, e)) = Range(h) \cup {e}
  BY AppendRange
<1>2. NoneBehind(Append(h, e), A, B)
  BY BehindAppend DEF InOrder
<1> QED  BY <1>1, <1>2 DEF InOrder

\* The order of smaller sets of frames.
LEMMA LessInOrder ==
    ASSUME NEW b, NEW h, NEW A, NEW B, NEW A2, NEW B2, InOrder(b, h, A, B),
           (Range(b) \cup Range(h)) \cap A2 \subseteq A,
           (Range(b) \cup Range(h)) \cap B2 \subseteq B
    PROVE  InOrder(b, h, A2, B2)
<1>1. NoneBehind(b, A2, B2) /\ NoneBehind(h, A2, B2)
  BY BehindLess DEF InOrder
<1> QED  BY <1>1 DEF InOrder

-----------------------------------------------------------------------------
(* The frames of a connection, on their way and taken.                      *)

\* Every frame of type t in the queue carries the bit s; none does.
Only(q, t, s) == \A f \in Range(q) : f.type = t => f.seq = s
Lacks(q, t, s) == \A f \in Range(q) : f.type = t => f.seq # s

\* The frames of type t with the bit s.
Frames == HostAcks \cup DeviceAcks \cup DeviceData
Kind(t, s) == {f \in Frames : f.type = t /\ f.seq = s}

\* The frame the headphones' bit stands for: the one in flight, or the next one.
Current == IF device.flying THEN device.sent ELSE device.sent + 1

\* The frames on their way are the current one, which carries the headphones'
\* bit, and the one before, which carries the other.
NumbersInv ==
    /\ device.flying => device.sent > 0
    /\ \A f \in Range(batch) \cup Range(toHost) : f.type = "Data" =>
          /\ f.conn = conn /\ f.num \in 1 .. device.sent
          /\ f.num = IF f.seq = device.bit THEN Current ELSE Current - 1

\* The current frame's ACK is on its way, and no copy of the frame before is.
NoNewAck == Lacks(toDevice, "Ack", 1 - device.bit)
AllNew == Only(batch, "Data", device.bit) /\ Only(toHost, "Data", device.bit)

\* The link keeps the order of the copies, and of their ACKs.
OrderInv ==
    /\ NoneBehind(toDevice, Kind("Ack", 1 - device.bit), Kind("Ack", device.bit))
    /\ InOrder(batch, toHost, Kind("Data", device.bit), Kind("Data", 1 - device.bit))
    /\ NoNewAck \/ AllNew

\* The reader has acknowledged frame n, and not yet compared it with the last.
Ahead(n) == reader \in {"notify", "acked"} /\ Head(batch).num = n

\* What is acknowledged has been taken.
Settled == /\ Len(taken) >= Current - 1
           /\ NoNewAck \/ Len(taken) = Current

\* The frames taken are the first ones, all that are acknowledged but the one
\* in the reader's hands; a copy of the frame before is not on its way any more
\* when the current one is taken.
TakenInv ==
    /\ \A i \in DOMAIN taken : taken[i] = i
    /\ Len(taken) <= device.sent
    /\ Len(taken) >= Current - 1 \/ (Len(taken) = Current - 2 /\ Ahead(Current - 1))
    /\ \/ NoNewAck \/ Len(taken) = Current
       \/ Len(taken) = Current - 1 /\ Ahead(Current)
    /\ Len(taken) = Current => AllNew

\* _lastSeenDataSeq is the bit of the last frame taken.
SeenInv ==
    reader # "none" =>
        lastSeenDataSeq = IF taken = <<>> THEN {}
                          ELSE IF Len(taken) = Current - 1 THEN {1 - device.bit}
                          ELSE {device.bit}

StreamInv == NumbersInv /\ OrderInv /\ TakenInv /\ SeenInv

\* At the start nothing is on its way.
LEMMA StreamInit == Init => StreamInv
<1> SUFFICES ASSUME Init PROVE StreamInv
  OBVIOUS
<1>1. /\ batch = <<>> /\ toHost = <<>> /\ toDevice = <<>> /\ taken = <<>>
      /\ reader = "none" /\ Current = 1 /\ device.sent = 0 /\ ~device.flying
  BY DEF Init, NewDevice, Current
<1>2. NumbersInv
  BY <1>1 DEF NumbersInv, Range
<1>3. OrderInv
  BY <1>1 DEF OrderInv, InOrder, NoneBehind, Lacks, NoNewAck, Range
<1>4. TakenInv
  BY <1>1 DEF TakenInv, NoNewAck, Lacks, Range
<1> QED  BY <1>1, <1>2, <1>3, <1>4 DEF StreamInv, SeenInv

\* What the types say of the stream.
LEMMA StreamTypes ==
    ASSUME TypeOK
    PROVE  /\ device.bit \in Bits /\ device.sent \in Nat /\ device.flying \in BOOLEAN
           /\ Current \in Nat /\ Len(taken) \in Nat
           /\ \A f \in Range(batch) \cup Range(toHost) :
                 f.seq \in Bits /\ (f.type = "Ack" \/ f.type = "Data")
<1>1. device.bit \in Bits /\ device.sent \in Nat /\ device.flying \in BOOLEAN
  BY DEF TypeOK, Devices
<1>2. \A f \in DeviceAcks \cup DeviceData :
         f.seq \in Bits /\ (f.type = "Ack" \/ f.type = "Data")
  BY DEF DeviceAcks, DeviceData
<1>3. Range(batch) \cup Range(toHost) \subseteq DeviceAcks \cup DeviceData
  BY QueueRanges DEF TypeOK
<1> QED  BY <1>1, <1>2, <1>3 DEF TypeOK, Current

\* Where no frame is ahead of its record, what is acknowledged has been taken.
LEMMA NotAhead ==
    ASSUME TypeOK, TakenInv, reader \notin {"notify", "acked"}
    PROVE  Settled
BY DEF TakenInv, Settled, Ahead

\* What the link does when the headphones stay where they are: frames leave its
\* queues, or join them on the other side's behalf.
LinkStep ==
    /\ device'.bit = device.bit /\ device'.flying = device.flying
    /\ device'.sent = device.sent
    /\ \/ Shrinks(batch, toHost, batch', toHost')
       \/ /\ UNCHANGED batch
          /\ \E e \in DeviceAcks : toHost' = Append(toHost, e)
    /\ \/ Drains(toDevice, toDevice')
       \/ \E e \in HostData : toDevice' = Append(toDevice, e)

\* What it does to the order of the frames.
LEMMA LinkStepOrder ==
    ASSUME TypeOK, OrderInv, LinkStep
    PROVE  /\ OrderInv'
           /\ (AllNew => AllNew') /\ (NoNewAck => NoNewAck')
           /\ \A f \in Range(batch') \cup Range(toHost') :
                 f.type = "Data" => f \in Range(batch) \cup Range(toHost)
<1> DEFINE A == Kind("Data", device.bit)
           B == Kind("Data", 1 - device.bit)
           C == Kind("Ack", 1 - device.bit)
           D == Kind("Ack", device.bit)
<1>1. InOrder(batch', toHost', A, B)
      /\ \A f \in Range(batch') \cup Range(toHost') :
            f.type = "Data" => f \in Range(batch) \cup Range(toHost)
  <2>1. InOrder(batch, toHost, A, B)
    BY DEF OrderInv
  <2>2. CASE Shrinks(batch, toHost, batch', toHost')
    BY <2>1, <2>2, ShrinkInOrder DEF TypeOK
  <2>3. ASSUME UNCHANGED batch, NEW e \in DeviceAcks, toHost' = Append(toHost, e)
        PROVE  InOrder(batch', toHost', A, B)
               /\ \A f \in Range(batch') \cup Range(toHost') :
                     f.type = "Data" => f \in Range(batch) \cup Range(toHost)
    <3>1. e.type # "Data" /\ e \notin B
      BY DEF DeviceAcks, Kind
    <3>2. Range(toHost') = Range(toHost) \cup {e}
      <4>1. toHost \in Seq(DeviceAcks \cup DeviceData)
        BY DEF TypeOK
      <4> QED  BY <2>3, <4>1, AppendRange
    <3>3. InOrder(batch', toHost', A, B)
      BY <2>1, <2>3, <3>1, GrowInOrder DEF TypeOK
    <3> QED  BY <2>3, <3>1, <3>2, <3>3
  <2> QED  BY <2>2, <2>3 DEF LinkStep
<1>2. NoneBehind(toDevice', C, D)
      /\ \A f \in Range(toDevice') : f.type = "Ack" => f \in Range(toDevice)
  <2>1. NoneBehind(toDevice, C, D)
    BY DEF OrderInv
  <2>2. CASE Drains(toDevice, toDevice')
    BY <2>1, <2>2, DrainedQueue DEF TypeOK
  <2>3. ASSUME NEW e \in HostData, toDevice' = Append(toDevice, e)
        PROVE  NoneBehind(toDevice', C, D)
               /\ \A f \in Range(toDevice') : f.type = "Ack" => f \in Range(toDevice)
    <3>1. e.type # "Ack" /\ e \notin D
      BY DEF HostData, Kind
    <3>2. toDevice \in Seq(HostAcks \cup HostData)
      BY DEF TypeOK
    <3>3. Range(toDevice') = Range(toDevice) \cup {e}
      BY <2>3, <3>2, AppendRange
    <3>4. NoneBehind(toDevice', C, D)
      BY <2>1, <2>3, <3>1, <3>2, BehindAppend
    <3> QED  BY <3>1, <3>3, <3>4
  <2> QED  BY <2>2, <2>3 DEF LinkStep
<1>3. (AllNew => AllNew') /\ (NoNewAck => NoNewAck')
  BY <1>1, <1>2 DEF AllNew, NoNewAck, Only, Lacks, LinkStep
<1> QED  BY <1>1, <1>2, <1>3 DEF OrderInv, LinkStep

\* What only drains the link, or adds a command or an old ACK, keeps the stream.
LEMMA LinkStepKeepsStream ==
    ASSUME TypeOK, StreamInv, SeenInv', LinkStep, UNCHANGED <<conn, taken>>,
           (\A n : Ahead(n) => Ahead(n)') \/ Settled
    PROVE  StreamInv'
<1>1. /\ OrderInv' /\ (AllNew => AllNew') /\ (NoNewAck => NoNewAck')
      /\ \A f \in Range(batch') \cup Range(toHost') :
            f.type = "Data" => f \in Range(batch) \cup Range(toHost)
  BY LinkStepOrder DEF StreamInv
<1>2. Current' = Current
  BY DEF Current, LinkStep
<1>3. NumbersInv'
  BY <1>1, <1>2 DEF StreamInv, NumbersInv, LinkStep
<1>4. TakenInv'
  BY <1>1, <1>2 DEF StreamInv, TakenInv, Settled, LinkStep
<1> QED  BY <1>1, <1>3, <1>4 DEF StreamInv

\* The thread that reads stays where it is, or lets the frame in hands go.
LEMMA QuietKeepsStream ==
    ASSUME TypeOK, StreamInv, LinkStep, UNCHANGED <<conn, taken, lastSeenDataSeq>>,
           \/ UNCHANGED <<batch, reader>>
           \/ Settled /\ (reader # "none" \/ reader' = "none")
    PROVE  StreamInv'
<1>1. SeenInv'
  BY DEF StreamInv, SeenInv, Current, LinkStep
<1>2. (\A n : Ahead(n) => Ahead(n)') \/ Settled
  BY DEF Ahead
<1> QED  BY <1>1, <1>2, LinkStepKeepsStream

\* What the types and numbers say of the frame in the reader's hands.
LEMMA HeadOfBatch ==
    ASSUME TypeOK, BatchInv, NumbersInv, reader \in Handling
    PROVE  /\ batch # <<>> /\ Head(batch) \in Range(batch)
           /\ Head(batch) \in DeviceAcks \cup DeviceData
           /\ Head(batch).seq \in Bits
           /\ Head(batch).type = "Data" =>
                 /\ Head(batch).conn = conn /\ Head(batch).num \in 1 .. device.sent
                 /\ Head(batch).num = IF Head(batch).seq = device.bit THEN Current
                                      ELSE Current - 1
           /\ reader # "handle" => Head(batch).type = "Data"
<1>1. batch # <<>>
  BY DEF BatchInv, Handling
<1>2. Head(batch) \in Range(batch) /\ Head(batch) \in DeviceAcks \cup DeviceData
  BY <1>1, QueueRanges, HeadTailType DEF TypeOK
<1> QED  BY <1>1, <1>2, StreamTypes DEF NumbersInv, BatchInv, Handling

\* In front of a frame with the headphones' bit there may be one with the other,
\* but not behind it.
LEMMA NewIsLast ==
    ASSUME TypeOK, OrderInv, batch # <<>>, Head(batch).type = "Data",
           Head(batch).seq = device.bit
    PROVE  AllNew
<1>1. Head(batch) \in DeviceAcks \cup DeviceData
  BY HeadTailType DEF TypeOK
<1>2. Head(batch) \in Kind("Data", device.bit) /\ Head(batch) \in Range(batch)
  BY <1>1, QueueRanges DEF Kind, Frames, TypeOK
<1>3. /\ Range(Tail(batch)) \cap Kind("Data", 1 - device.bit) = {}
      /\ Range(toHost) \cap Kind("Data", 1 - device.bit) = {}
  BY <1>2, BehindTail DEF OrderInv, InOrder, TypeOK
<1>4. Range(batch) = Range(Tail(batch)) \cup {Head(batch)}
  BY QueueRanges DEF TypeOK
<1>5. /\ Range(batch) \cup Range(toHost) \subseteq DeviceAcks \cup DeviceData
      /\ device.bit \in Bits
  BY QueueRanges DEF TypeOK, Devices
<1>6. \A f \in Range(batch) \cup Range(toHost) :
         f \notin Kind("Data", 1 - device.bit) /\ f.type = "Data" => f.seq = device.bit
  BY <1>5, StreamTypes DEF Kind, Frames, Bits
<1>7. Head(batch) \notin Kind("Data", 1 - device.bit)
  BY <1>5 DEF Kind, Bits
<1> QED  BY <1>3, <1>4, <1>6, <1>7 DEF AllNew, Only

\* An ACK says what the frame in hands is; a copy of the frame before is not
\* acknowledged after the current one.
LEMMA SendAckKeepsStream ==
    ASSUME TypeInv, StreamInv, SendAck
    PROVE  StreamInv'
<1> DEFINE f == Head(batch)
<1>1. /\ reader = "handle" /\ reader' = "acked" /\ f.type = "Data"
      /\ toDevice' = Append(toDevice, AckFor(f))
      /\ UNCHANGED <<device, conn, taken, lastSeenDataSeq, toHost, batch>>
      /\ AckFor(f).type = "Ack" /\ AckFor(f).seq = 1 - f.seq
  BY DEF SendAck, AckFor
<1>2. /\ f \in Range(batch) /\ f.seq \in Bits /\ f.num \in Nat /\ batch # <<>>
      /\ f.num = IF f.seq = device.bit THEN Current ELSE Current - 1
  BY <1>1, HeadOfBatch DEF TypeInv, StreamInv, Handling
<1>3. AckFor(f) \in HostAcks
  BY <1>1, <1>2 DEF AckFor, HostAcks, Bits
<1>4. Range(toDevice') = Range(toDevice) \cup {AckFor(f)}
  <2>1. toDevice \in Seq(HostAcks \cup HostData)
    BY DEF TypeInv, TypeOK
  <2>2. Range(Append(toDevice, AckFor(f))) = Range(toDevice) \cup {AckFor(f)}
    BY <1>3, <2>1, AppendRange
  <2> QED  BY <1>1, <2>2
<1>5. Settled
  BY <1>1, NotAhead DEF StreamInv, TypeInv
<1>6. device.bit \in Bits /\ Current \in Nat /\ Len(taken) \in Nat /\ device.sent \in Nat
      /\ device.flying \in BOOLEAN
  BY StreamTypes DEF TypeInv
<1> HIDE DEF f
<1>7. CASE f.seq = device.bit
  <2>1. AllNew
    BY <1>1, <1>2, <1>7, NewIsLast DEF f, TypeInv, StreamInv
  <2>2. AckFor(f) \notin Kind("Ack", device.bit)
    BY <1>1, <1>2, <1>6, <1>7 DEF Kind, Bits
  <2>3. NoneBehind(toDevice', Kind("Ack", 1 - device.bit), Kind("Ack", device.bit))
    BY <1>1, <1>3, <2>2, BehindAppend DEF StreamInv, OrderInv, TypeInv, TypeOK
  <2>4. OrderInv'
    BY <1>1, <2>1, <2>3 DEF StreamInv, OrderInv, AllNew
  <2>5. Len(taken) = Current \/ Len(taken) = Current - 1
    BY <1>5, <1>6 DEF StreamInv, TakenInv, Settled, Current
  <2>6. Ahead(Current)'
    BY <1>1, <1>2, <1>7 DEF Ahead, Current, f
  <2>7. TakenInv'
    BY <1>1, <1>5, <2>1, <2>5, <2>6 DEF StreamInv, TakenInv, Settled, Current, AllNew
  <2> QED  BY <1>1, <2>4, <2>7 DEF StreamInv, NumbersInv, SeenInv, Current
<1>8. CASE f.seq # device.bit
  <2>1. NoNewAck
    BY <1>1, <1>2, <1>8 DEF StreamInv, OrderInv, AllNew, Only
  <2>2. AckFor(f).seq # 1 - device.bit
    BY <1>1, <1>2, <1>6, <1>8 DEF Bits
  <2>3. NoNewAck'
    BY <1>1, <1>4, <2>1, <2>2 DEF NoNewAck, Lacks
  <2>4. NoneBehind(toDevice', Kind("Ack", 1 - device.bit), Kind("Ack", device.bit))
    <3>1. Range(toDevice) \cap Kind("Ack", 1 - device.bit) = {}
      BY <2>1 DEF NoNewAck, Lacks, Kind
    <3> QED
      BY <1>1, <1>3, <3>1, BehindAppend DEF StreamInv, OrderInv, TypeInv, TypeOK
  <2>5. OrderInv'
    BY <1>1, <2>3, <2>4 DEF StreamInv, OrderInv
  <2>6. TakenInv'
    BY <1>1, <1>5, <2>3 DEF StreamInv, TakenInv, Settled, Current, AllNew
  <2> QED  BY <1>1, <2>5, <2>6 DEF StreamInv, NumbersInv, SeenInv, Current
<1> QED  BY <1>7, <1>8

\* _lastSeenDataSeq tells a copy from the next frame.
LEMMA DuplicateIsTaken ==
    ASSUME TypeInv, StreamInv, reader = "acked"
    PROVE  /\ IsDuplicate => /\ Settled
                             /\ Head(batch).num \in 1 .. Len(taken)
           /\ ~IsDuplicate => Head(batch).num = Len(taken) + 1
<1> DEFINE f == Head(batch)
<1>1. /\ f \in Range(batch) /\ f.seq \in Bits /\ f.num \in 1 .. device.sent /\ f.type = "Data"
      /\ f.num = IF f.seq = device.bit THEN Current ELSE Current - 1
  BY HeadOfBatch DEF TypeInv, StreamInv, Handling
<1>2. device.bit \in Bits /\ Current \in Nat /\ Len(taken) \in Nat /\ device.sent \in Nat
      /\ device.flying \in BOOLEAN
  BY StreamTypes DEF TypeInv
<1>3. Len(taken) = Current => f.seq = device.bit
  BY <1>1 DEF StreamInv, TakenInv, AllNew, Only
<1>4. /\ Len(taken) <= Current
      /\ Len(taken) >= Current - 1 \/ (Len(taken) = Current - 2 /\ f.num = Current - 1)
      /\ NoNewAck \/ Len(taken) = Current \/ (Len(taken) = Current - 1 /\ f.num = Current)
  BY <1>2 DEF StreamInv, TakenInv, Ahead, Current
<1>5. /\ IsDuplicate <=> f.seq \in lastSeenDataSeq
      /\ lastSeenDataSeq = IF taken = <<>> THEN {}
                           ELSE IF Len(taken) = Current - 1 THEN {1 - device.bit}
                           ELSE {device.bit}
  BY DEF IsDuplicate, StreamInv, SeenInv
<1>6. taken = <<>> <=> Len(taken) = 0
  BY EmptySeq DEF TypeInv, TypeOK
<1> HIDE DEF f
<1>7. IsDuplicate => f.num \in 1 .. Len(taken) /\ Len(taken) >= Current - 1
                     /\ (NoNewAck \/ Len(taken) = Current)
  BY <1>1, <1>2, <1>3, <1>4, <1>5, <1>6 DEF Bits
<1>8. ~IsDuplicate => f.num = Len(taken) + 1
  BY <1>1, <1>2, <1>3, <1>4, <1>5, <1>6 DEF Bits
<1> QED  BY <1>7, <1>8 DEF Settled, f

\* A frame that is no copy of the last one is the next one to be taken.
LEMMA AcceptKeepsStream ==
    ASSUME TypeInv, StreamInv, AcceptFrame
    PROVE  StreamInv' /\ taken' = Append(taken, Len(taken) + 1)
           /\ Len(taken) < device.sent
<1> DEFINE f == Head(batch)
<1>1. /\ reader = "acked" /\ reader' = "fresh" /\ ~IsDuplicate
      /\ lastSeenDataSeq' = {f.seq}
      /\ taken' = IF f.conn = conn THEN Append(taken, f.num) ELSE taken
      /\ UNCHANGED <<device, conn, toHost, toDevice, batch>>
  BY DEF AcceptFrame
<1>2. /\ f \in Range(batch) /\ f.seq \in Bits /\ f.num \in 1 .. device.sent /\ f.type = "Data"
      /\ f.num = IF f.seq = device.bit THEN Current ELSE Current - 1
      /\ f.conn = conn
  BY <1>1, HeadOfBatch DEF TypeInv, StreamInv, Handling
<1>3. /\ device.bit \in Bits /\ Current \in Nat /\ Len(taken) \in Nat /\ device.sent \in Nat
      /\ device.flying \in BOOLEAN /\ taken \in Seq(Nat)
  BY StreamTypes DEF TypeInv, TypeOK
<1>4. f.num = Len(taken) + 1
  BY <1>1, DuplicateIsTaken
<1>5. /\ taken' = Append(taken, f.num) /\ Len(taken') = f.num /\ taken' # <<>>
      /\ \A i \in DOMAIN taken' : taken'[i] = i
  BY <1>1, <1>2, <1>3, <1>4 DEF StreamInv, TakenInv
<1>6. Current' = Current
  BY <1>1 DEF Current
<1> HIDE DEF f
<1>7. SeenInv'
  BY <1>1, <1>2, <1>3, <1>5, <1>6 DEF SeenInv, Bits
<1>8. f.seq = device.bit => AllNew
  <2>1. batch # <<>>
    BY <1>1 DEF TypeInv, BatchInv
  <2> QED  BY <1>2, <2>1, NewIsLast DEF f, TypeInv, StreamInv
<1>9. f.seq # device.bit => NoNewAck
  BY <1>2 DEF StreamInv, OrderInv, AllNew, Only
<1>10. TakenInv'
  BY <1>1, <1>2, <1>3, <1>5, <1>6, <1>8, <1>9 DEF TakenInv, AllNew, NoNewAck
<1>11. NumbersInv' /\ OrderInv'
  BY <1>1, <1>6 DEF StreamInv, NumbersInv, OrderInv, AllNew, NoNewAck
<1>12. Len(taken) < device.sent
  BY <1>2, <1>3, <1>4
<1> QED  BY <1>4, <1>5, <1>7, <1>10, <1>11, <1>12 DEF StreamInv

\* The headphones' bit toggles when the current frame's ACK comes back: all that
\* is behind it on the link belongs to that frame.
LEMMA DeviceAckedKeepsStream ==
    ASSUME TypeInv, StreamInv, DeviceAcked
    PROVE  StreamInv' /\ device'.sent = device.sent
<1> DEFINE f == Head(toDevice)
<1>1. /\ toDevice # <<>> /\ f.type = "Ack" /\ toDevice' = Tail(toDevice)
      /\ UNCHANGED <<conn, taken, lastSeenDataSeq, reader, batch, toHost>>
  BY DEF DeviceAcked
<1>2. /\ device.bit \in Bits /\ Current \in Nat /\ Len(taken) \in Nat /\ device.sent \in Nat
      /\ device.flying \in BOOLEAN
  BY StreamTypes DEF TypeInv
<1>3. f \in Range(toDevice) /\ Range(toDevice') \subseteq Range(toDevice)
  BY <1>1, QueueRanges DEF TypeInv, TypeOK
<1> HIDE DEF f
<1>4. CASE device.flying /\ f.seq = 1 - device.bit
  <2>1. /\ device'.bit = 1 - device.bit /\ device'.sent = device.sent
        /\ device'.flying = FALSE
    BY <1>1, <1>4 DEF DeviceAcked, f, TypeInv, TypeOK, Devices
  <2>2. Current = device.sent /\ Current' = Current + 1
    BY <1>2, <1>4, <2>1 DEF Current
  <2>3. ~NoNewAck /\ AllNew
    BY <1>1, <1>3, <1>4 DEF StreamInv, OrderInv, NoNewAck, Lacks
  <2>4. Range(toDevice') \cap Kind("Ack", device.bit) = {}
    <3>1. f \in Kind("Ack", 1 - device.bit)
      BY <1>1, <1>3, <1>4 DEF Kind, Frames, TypeInv, TypeOK, HostData, Range, f
    <3> QED  BY <1>1, <3>1, BehindTail DEF StreamInv, OrderInv, TypeInv, TypeOK, f
  <2>5. /\ Lacks(toDevice', "Ack", 1 - device'.bit)
        /\ Lacks(batch', "Data", device'.bit) /\ Lacks(toHost', "Data", device'.bit)
    <3>1. Range(toDevice') \subseteq HostAcks \cup HostData
      BY <1>3, QueueRanges DEF TypeInv, TypeOK
    <3>2. Lacks(toDevice', "Ack", device.bit)
      BY <2>4, <3>1 DEF Lacks, Kind, Frames, HostData
    <3> QED  BY <1>1, <1>2, <2>1, <2>3, <3>2 DEF Only, AllNew, Lacks, Bits
  <2>6. OrderInv'
    <3>1. /\ \A A, B : Range(toDevice') \cap A = {} => NoneBehind(toDevice', A, B)
          /\ \A A, B : (Range(batch') \cup Range(toHost')) \cap A = {}
                         => InOrder(batch', toHost', A, B)
      BY DEF NoneBehind, InOrder, Range
    <3>2. /\ Range(toDevice') \cap Kind("Ack", 1 - device'.bit) = {}
          /\ (Range(batch') \cup Range(toHost')) \cap Kind("Data", device'.bit) = {}
      BY <2>5 DEF Lacks, Kind
    <3> QED  BY <2>5, <3>1, <3>2 DEF OrderInv, NoNewAck
  <2>7. NumbersInv'
    BY <1>1, <1>2, <2>1, <2>2, <2>3 DEF StreamInv, NumbersInv, AllNew, Only, Bits
  <2>8. Len(taken) = Current \/ (Len(taken) = Current - 1 /\ Ahead(Current))
    BY <2>3 DEF StreamInv, TakenInv
  <2>9. TakenInv'
    BY <1>1, <1>2, <2>1, <2>2, <2>5, <2>8 DEF StreamInv, TakenInv, Ahead, NoNewAck
  <2>10. SeenInv'
    BY <1>1, <1>2, <2>1, <2>2, <2>8 DEF StreamInv, SeenInv, Bits
  <2> QED  BY <2>1, <2>6, <2>7, <2>9, <2>10 DEF StreamInv
<1>5. CASE ~(device.flying /\ f.seq = 1 - device.bit)
  <2>1. UNCHANGED device
    BY <1>5 DEF DeviceAcked, f
  <2>2. LinkStep
    BY <1>1, <2>1 DEF LinkStep, Shrinks, Drains
  <2> QED  BY <1>1, <2>1, <2>2, QuietKeepsStream DEF TypeInv
<1> QED  BY <1>4, <1>5

\* The headphones send the current frame, for the first time or again.
LEMMA DeviceSendsKeepsStream ==
    ASSUME TypeInv, StreamInv, DeviceSends
    PROVE  /\ StreamInv'
           /\ \/ device'.sent = device.sent
              \/ device'.sent = device.sent + 1 /\ device.sent < Len(taken) + 2
<1>1. /\ device.bit \in Bits /\ Current \in Nat /\ Len(taken) \in Nat /\ device.sent \in Nat
      /\ device.flying \in BOOLEAN /\ conn \in Nat
  BY StreamTypes DEF TypeInv, TypeOK
<1>2. PICK f : /\ f.type = "Data" /\ f.seq = device.bit /\ f.num = Current
               /\ f.conn = conn /\ toHost' = Append(toHost, f)
  BY DEF DeviceSends, Current
<1>3. /\ device'.bit = device.bit /\ device'.sent = Current /\ device'.flying = TRUE
      /\ UNCHANGED <<conn, taken, lastSeenDataSeq, reader, batch, toDevice>>
  BY DEF DeviceSends, Current, TypeInv, TypeOK, Devices
<1>4. Current' = Current /\ Current > 0
  BY <1>1, <1>3 DEF Current, StreamInv, NumbersInv
<1>5. /\ Range(toHost') = Range(toHost) \cup {f}
      /\ InOrder(batch', toHost', Kind("Data", device.bit), Kind("Data", 1 - device.bit))
  <2>1. /\ toHost \in Seq(DeviceAcks \cup DeviceData \cup {f})
        /\ batch \in Seq(DeviceAcks \cup DeviceData \cup {f})
        /\ f \in DeviceAcks \cup DeviceData \cup {f}
    BY DEF TypeInv, TypeOK
  <2>2. Range(toHost') = Range(toHost) \cup {f}
    BY <1>2, <2>1, AppendRange
  <2>3. f \notin Kind("Data", 1 - device.bit)
    BY <1>1, <1>2 DEF Kind, Bits
  <2>4. InOrder(batch, toHost, Kind("Data", device.bit), Kind("Data", 1 - device.bit))
    BY DEF StreamInv, OrderInv
  <2> QED  BY <1>2, <1>3, <2>1, <2>2, <2>3, <2>4, GrowInOrder
<1>6. device.sent <= Current
  BY <1>1 DEF Current
<1>7. NumbersInv'
  BY <1>1, <1>2, <1>3, <1>4, <1>5, <1>6 DEF StreamInv, NumbersInv
<1>8. Only(toHost, "Data", device.bit) => Only(toHost', "Data", device.bit)
  BY <1>2, <1>5 DEF Only
<1>9. (AllNew => AllNew') /\ (NoNewAck' <=> NoNewAck)
  BY <1>3, <1>8 DEF AllNew, NoNewAck
<1>10. OrderInv'
  BY <1>3, <1>5, <1>8, <1>9 DEF StreamInv, OrderInv
<1>11. TakenInv'
  BY <1>1, <1>3, <1>4, <1>6, <1>9 DEF StreamInv, TakenInv, Ahead
<1>12. SeenInv'
  BY <1>3, <1>4 DEF StreamInv, SeenInv
<1>13. device'.sent = device.sent
       \/ (device'.sent = device.sent + 1 /\ device.sent < Len(taken) + 2)
  BY <1>1, <1>3 DEF Current, StreamInv, TakenInv
<1> QED  BY <1>7, <1>10, <1>11, <1>12, <1>13 DEF StreamInv

\* The stream, as DeviceStream sees it, takes a step with every step of the session.
StreamMoves == StreamInv' /\ [Stream!Next]_<<device.sent, taken>>

\* A call only puts data frames on the link.
LEMMA CallsKeepStream ==
    ASSUME TypeInv, StreamInv, NEW c \in Callers,
           (\E o \in Ops \cup {NoOp} : Call(c, o)) \/ CallerStep(c) \/ Expire(c)
    PROVE  StreamMoves
<1>1. UNCHANGED <<device, conn, taken, lastSeenDataSeq, reader, batch, toHost>>
  BY DEF Call, CallerStep, Acquire, Normalise, FetchAdd, Register, Write,
         WriteRefused, WriteFails, WriteFailed, WriteTimesOut, Check, Block,
         Decide, Expire
<1>2. CASE Write(c)
  <2> DEFINE f == [type |-> "Data", seq |-> seq[c], op |-> op[c], id |-> id[c]]
  <2>1. f \in HostData /\ toDevice' = Append(toDevice, f)
    BY <1>2 DEF Write, TypeInv, TypeOK, HostData
  <2> HIDE DEF f
  <2>2. LinkStep
    BY <1>1, <2>1 DEF LinkStep, Shrinks, Drains
  <2> QED  BY <1>1, <2>2, QuietKeepsStream DEF StreamMoves, TypeInv
<1>3. CASE ~Write(c)
  <2>1. UNCHANGED toDevice
    BY <1>3 DEF Call, CallerStep, Acquire, Normalise, FetchAdd, Register,
         WriteRefused, WriteFails, WriteFailed, WriteTimesOut, Check, Block,
         Decide, Expire
  <2>2. LinkStep
    BY <1>1, <2>1 DEF LinkStep, Shrinks, Drains
  <2> QED  BY <1>1, <2>2, QuietKeepsStream DEF StreamMoves, TypeInv
<1> QED  BY <1>2, <1>3

\* The reader takes frames one after the other.
LEMMA ReaderKeepsStream ==
    ASSUME TypeInv, IdleInv, StreamInv, ReaderStep
    PROVE  StreamMoves
<1> USE DEF StreamMoves
<1>1. ASSUME NEW n \in 1 .. MaxInFlight, Receive(n) PROVE StreamMoves
  <2>1. /\ reader = "receive" /\ batch = <<>> /\ n \in 1 .. Len(toHost)
        /\ batch' = SubSeq(toHost, 1, n)
        /\ toHost' = SubSeq(toHost, n + 1, Len(toHost))
        /\ UNCHANGED <<device, conn, taken, lastSeenDataSeq, toDevice>>
    BY <1>1 DEF Receive, IdleInv, Handling
  <2>2. LinkStep
    BY <2>1 DEF LinkStep, Shrinks, Drains
  <2>3. Settled
    BY <2>1, NotAhead DEF StreamInv, TypeInv
  <2> QED  BY <2>1, <2>2, <2>3, QuietKeepsStream DEF TypeInv
<1>2. CASE SendAck
  BY <1>2, SendAckKeepsStream DEF SendAck
<1>3. CASE AcceptFrame
  <2>1. Stream!Take
    BY <1>3, AcceptKeepsStream DEF Stream!Take, AcceptFrame
  <2> QED  BY <1>3, <2>1, AcceptKeepsStream DEF Stream!Next
<1>4. CASE HandleAck \/ DropDuplicate \/ MatchRequest \/ Dispatch
  <2>1. /\ NextFrame /\ reader \in Handling \ {"notify"}
        /\ UNCHANGED <<device, conn, taken, lastSeenDataSeq, toHost, toDevice>>
    BY <1>4 DEF HandleAck, DropDuplicate, MatchRequest, Dispatch, Handling
  <2>2. reader # "none" /\ batch # <<>>
    BY <2>1 DEF Handling, TypeInv, BatchInv
  <2>3. Settled
    BY <1>4, NotAhead, DuplicateIsTaken
    DEF HandleAck, DropDuplicate, MatchRequest, Dispatch, StreamInv, TypeInv
  <2>4. LinkStep
    BY <2>1, <2>2 DEF LinkStep, Shrinks, Drains, NextFrame
  <2> QED  BY <2>1, <2>2, <2>3, <2>4, QuietKeepsStream DEF TypeInv
<1>5. CASE \/ Loop \/ ReceiveTimesOut \/ ReceiveFails \/ SendAckRefused
           \/ SendAckFails \/ SendAckFailed \/ Buffer \/ Exit \/ Leave
  <2>1. UNCHANGED <<device, conn, taken, lastSeenDataSeq, toHost, toDevice, batch>>
    BY <1>5 DEF Loop, ReceiveTimesOut, ReceiveFails, SendAckRefused, SendAckFails,
                SendAckFailed, Buffer, Exit, Leave
  <2>2. /\ reader # "none" /\ reader' # "none"
        /\ reader \in {"notify", "acked"} => reader' \in {"notify", "acked"}
    BY <1>5 DEF Loop, ReceiveTimesOut, ReceiveFails, SendAckRefused, SendAckFails,
                SendAckFailed, Buffer, Exit, Leave
  <2>3. \A n : Ahead(n) => Ahead(n)'
    BY <2>1, <2>2 DEF Ahead
  <2>4. SeenInv' /\ LinkStep
    BY <2>1, <2>2 DEF StreamInv, SeenInv, Current, LinkStep, Shrinks, Drains
  <2> QED  BY <2>1, <2>3, <2>4, LinkStepKeepsStream DEF TypeInv
<1> QED  BY <1>1, <1>2, <1>3, <1>4, <1>5 DEF ReaderStep

\* A connection starts with a new stream.
LEMMA OwnerKeepsStream ==
    ASSUME OrderlyOwner, TypeInv, IdleInv, StreamInv,
           \/ (\E n \in Sequences : SetSequence(n)) \/ Connect
           \/ (\E again \in BOOLEAN : StopReader(again)) \/ OwnerStep
    PROVE  StreamMoves
<1> USE DEF StreamMoves
<1>1. CASE Open
  <2>1. /\ reader = "none" /\ batch = <<>>
        /\ toDevice' = <<>> /\ toHost' = <<>> /\ taken' = <<>>
        /\ UNCHANGED <<reader, batch>>
    BY <1>1 DEF Open, IdleInv, Handling
  <2>2. device'.sent = 0 /\ device'.flying = FALSE
    BY <1>1 DEF Open, NewDevice
  <2>3. Current' = 1
    BY <2>2 DEF Current
  <2>4. NumbersInv'
    BY <2>1, <2>2, <2>3 DEF NumbersInv, Range
  <2>5. OrderInv'
    BY <2>1 DEF OrderInv, InOrder, NoneBehind, Lacks, NoNewAck, Range
  <2>6. TakenInv'
    BY <2>1, <2>2, <2>3 DEF TakenInv, NoNewAck, Lacks, Range
  <2>7. SeenInv'
    BY <2>1 DEF SeenInv
  <2>8. Stream!Restart
    BY <2>1, <2>2 DEF Stream!Restart
  <2> QED  BY <2>4, <2>5, <2>6, <2>7, <2>8 DEF StreamInv, Stream!Next
<1>2. CASE StartReader
  <2>1. /\ batch' = <<>> /\ batch = <<>> /\ taken = <<>> /\ lastSeenDataSeq = {}
        /\ UNCHANGED <<device, conn, taken, lastSeenDataSeq, toHost, toDevice>>
    BY <1>2 DEF StartReader, IdleInv, Handling
  <2>2. reader = "none"
    BY <1>2 DEF StartReader, IdleInv
  <2>3. SeenInv'
    BY <2>1 DEF SeenInv
  <2>4. Settled
    BY <2>2, NotAhead DEF StreamInv, TypeInv
  <2>5. LinkStep
    BY <2>1 DEF LinkStep, Shrinks, Drains
  <2> QED  BY <2>1, <2>3, <2>4, <2>5, LinkStepKeepsStream DEF TypeInv
<1>3. CASE Join
  <2>1. /\ reader' = "none" /\ reader \notin {"notify", "acked"}
        /\ UNCHANGED <<device, conn, taken, lastSeenDataSeq, toHost, toDevice, batch>>
    BY <1>3 DEF Join, ReaderGone
  <2>2. LinkStep
    BY <2>1 DEF LinkStep, Shrinks, Drains
  <2>3. Settled
    BY <2>1, NotAhead DEF StreamInv, TypeInv
  <2> QED  BY <2>1, <2>2, <2>3, QuietKeepsStream DEF TypeInv
<1>4. CASE Clear \/ Start
  <2>1. UNCHANGED <<device, conn, taken, toHost, toDevice, batch, reader>>
    BY <1>4 DEF Clear, Start
  <2>2. reader = "none"
    BY <1>4 DEF Clear, Start, IdleInv
  <2>3. SeenInv'
    BY <2>1, <2>2 DEF SeenInv
  <2>4. Settled
    BY <2>2, NotAhead DEF StreamInv, TypeInv
  <2>5. LinkStep
    BY <2>1 DEF LinkStep, Shrinks, Drains
  <2> QED  BY <2>1, <2>3, <2>4, <2>5, LinkStepKeepsStream DEF TypeInv
<1>5. CASE \/ (\E n \in Sequences : SetSequence(n)) \/ Connect
           \/ (\E again \in BOOLEAN : StopReader(again)) \/ NotifyStopped
           \/ Close \/ OpenFails
  <2>1. UNCHANGED <<device, conn, taken, lastSeenDataSeq, batch, reader>>
    BY <1>5 DEF SetSequence, Connect, StopReader, NotifyStopped, Close, OpenFails
  <2>2. /\ toDevice' = toDevice \/ toDevice' = <<>>
        /\ toHost' = toHost \/ toHost' = <<>>
    BY <1>5 DEF SetSequence, Connect, StopReader, NotifyStopped, Close, OpenFails
  <2>3. UNCHANGED device
    BY <1>5 DEF SetSequence, Connect, StopReader, NotifyStopped, Close, OpenFails
  <2>4. LinkStep
    BY <2>1, <2>2, <2>3 DEF LinkStep, Shrinks, Drains
  <2> QED  BY <2>1, <2>4, QuietKeepsStream DEF TypeInv
<1> QED  BY <1>1, <1>2, <1>3, <1>4, <1>5 DEF OwnerStep

\* The link, and the headphones.
LEMMA LinkKeepsStream ==
    ASSUME TypeInv, StreamInv,
           DeviceStep \/ DevicePushes \/ Corrupt \/ Drop \/ UNCHANGED vars
    PROVE  StreamMoves
<1> USE DEF StreamMoves
<1>1. CASE DeviceTakes
  <2> DEFINE f == Head(toDevice)
             a == [type |-> "Ack", seq |-> 1 - (f.seq % 2)]
  <2>1. f \in HostData
    <3>1. f \in HostAcks \cup HostData /\ f.type = "Data"
      BY <1>1, HeadTailType DEF DeviceTakes, TypeInv, TypeOK
    <3> QED  BY <3>1 DEF HostAcks
  <2>2. f.seq % 2 \in Bits
    BY <2>1, ByteArithmetic DEF HostData
  <2>3. a \in DeviceAcks
    BY <2>2 DEF DeviceAcks, Bits
  <2>4. /\ toHost' = Append(toHost, a) /\ toDevice # <<>> /\ toDevice' = Tail(toDevice)
        /\ UNCHANGED <<conn, taken, lastSeenDataSeq, reader, batch>>
    BY <1>1 DEF DeviceTakes
  <2>5. /\ device'.bit = device.bit /\ device'.flying = device.flying
        /\ device'.sent = device.sent
    BY <1>1 DEF DeviceTakes, TypeInv, TypeOK, Devices
  <2> HIDE DEF a, f
  <2>6. LinkStep
    BY <2>3, <2>4, <2>5 DEF LinkStep, Drains
  <2> QED  BY <2>4, <2>5, <2>6, QuietKeepsStream DEF TypeInv
<1>2. CASE DeviceAcked
  BY <1>2, DeviceAckedKeepsStream DEF DeviceAcked
<1>3. CASE DeviceSends
  <2>1. UNCHANGED taken
    BY <1>3 DEF DeviceSends
  <2> QED  BY <1>3, <2>1, DeviceSendsKeepsStream DEF Stream!Next, Stream!Send
<1>4. CASE DevicePushes \/ Corrupt \/ Drop \/ UNCHANGED vars
  <2>1. /\ device'.bit = device.bit /\ device'.flying = device.flying
        /\ device'.sent = device.sent
    BY <1>4 DEF DevicePushes, Corrupt, Drop, vars, TypeInv, TypeOK, Devices
  <2>2. UNCHANGED <<conn, taken, lastSeenDataSeq, reader, batch>>
    BY <1>4 DEF DevicePushes, Corrupt, Drop, vars
  <2>3. Drains(toHost, toHost') /\ Drains(toDevice, toDevice')
    BY <1>4 DEF DevicePushes, Corrupt, Drop, vars, Drains
  <2>4. LinkStep
    BY <2>1, <2>2, <2>3 DEF LinkStep, Shrinks
  <2> QED  BY <2>1, <2>2, <2>4, QuietKeepsStream DEF TypeInv
<1> QED  BY <1>1, <1>2, <1>3, <1>4 DEF DeviceStep

\* Every step keeps the stream, and is one of DeviceStream or none.
LEMMA StreamStep ==
    OrderlyOwner /\ TypeInv /\ IdleInv /\ StreamInv /\ [Next]_vars => StreamMoves
BY CallsKeepStream, ReaderKeepsStream, OwnerKeepsStream, LinkKeepsStream DEF Next

\* With an owner that disconnects before it connects, what a session accepts is
\* the stream of the headphones: no frame is lost, repeated or out of order,
\* whatever is corrupted, retransmitted or cut by a reconnection (_handleFrames,
\* _sendAck).
THEOREM StreamIsInOrder ==
    ASSUME OrderlyOwner PROVE Spec => InOrderOnce
<1>1. TypeInv /\ IdleInv /\ StreamInv /\ [Next]_vars
      => StreamInv' /\ [Stream!Next]_<<device.sent, taken>>
  BY StreamStep DEF StreamMoves
<1>2. TypeInv /\ IdleInv /\ [Next]_vars => IdleInv'
  BY IdleStep
<1>3. Init => Stream!Init
  BY DEF Init, NewDevice, Stream!Init
<1> QED
  BY <1>1, <1>2, <1>3, TypeInit, TypeStep, IdleInit, StreamInit, PTL
  DEF Spec, InOrderOnce, Stream!Spec

\* A frame dropped as a duplicate is one that was accepted on this connection.
THEOREM DuplicatesAreTaken ==
    ASSUME OrderlyOwner PROVE Spec => DroppedOnlyDuplicates
<1>1. TypeInv /\ IdleInv /\ StreamInv /\ [Next]_vars => StreamInv'
  BY StreamStep DEF StreamMoves
<1>2. TypeInv /\ IdleInv /\ [Next]_vars => IdleInv'
  BY IdleStep
<1>3. TypeInv /\ StreamInv /\ [Next]_vars
      => [/\ reader = "acked" /\ reader' \in {"handle", "loop"}
          /\ Head(batch).conn = conn
          => Head(batch).num \in Range(taken)]_vars
  <2> SUFFICES ASSUME TypeInv, StreamInv, [Next]_vars, reader = "acked",
                      reader' \in {"handle", "loop"}
               PROVE  Head(batch).num \in Range(taken)
    BY SMTT(60)
  <2>1. IsDuplicate
    BY ZenonT(60) DEF Next, Call, CallerStep, Acquire, Normalise, FetchAdd, Register, Write,
       WriteRefused, WriteFails, WriteFailed, WriteTimesOut, Check, Block, Decide,
       Expire, ReaderStep, Loop, Receive, ReceiveTimesOut, ReceiveFails, HandleAck,
       SendAck, SendAckRefused, SendAckFails, SendAckFailed, DropDuplicate,
       AcceptFrame, MatchRequest, Buffer, Dispatch, Exit, Leave, SetSequence,
       Connect, StopReader, OwnerStep, NotifyStopped, Join, Close, Clear, Open,
       OpenFails, Start, StartReader, ReaderGone, DeviceStep, DeviceTakes,
       DeviceAcked, DeviceSends, DevicePushes, Corrupt, Drop, vars
  <2>2. Head(batch).num \in 1 .. Len(taken)
    BY <2>1, DuplicateIsTaken
  <2>3. /\ DOMAIN taken = 1 .. Len(taken)
        /\ \A i \in DOMAIN taken : taken[i] = i
    BY DEF TypeInv, TypeOK, StreamInv, TakenInv
  <2> QED  BY <2>2, <2>3 DEF Range
<1> QED
  BY <1>1, <1>2, <1>3, TypeInit, TypeStep, IdleInit, StreamInit, PTL
  DEF Spec, DroppedOnlyDuplicates

-----------------------------------------------------------------------------
(* The connection of the frames a session keeps.                            *)

\* What is left of a queue that loses a frame.
LEMMA RemoveAtRange ==
    ASSUME NEW S, NEW q \in Seq(S), NEW i \in 1 .. Len(q)
    PROVE  Range(RemoveAt(q, i)) \subseteq Range(q)
<1> DEFINE l == SubSeq(q, 1, i - 1)
           r == SubSeq(q, i + 1, Len(q))
<1>1. \A j \in 1 .. Len(q) : q[j] \in S
  OBVIOUS
<1>2. Len(q) \in Nat /\ i \in Nat /\ 1 <= i /\ i <= Len(q)
  OBVIOUS
<1>3. /\ l \in Seq(S) /\ Len(l) = i - 1 /\ \A j \in 1 .. i - 1 : l[j] = q[j]
      /\ r \in Seq(S) /\ Len(r) = Len(q) - i
      /\ \A j \in 1 .. Len(q) - i : r[j] = q[j + i]
  BY <1>1, <1>2, SubSeqProperties
<1>4. RemoveAt(q, i) = l \o r
  BY Zenon DEF RemoveAt
<1> HIDE DEF l, r
<1>5. /\ Len(l \o r) = Len(l) + Len(r) /\ l \o r \in Seq(S)
      /\ \A j \in 1 .. Len(l) + Len(r) :
            (l \o r)[j] = IF j <= Len(l) THEN l[j] ELSE r[j - Len(l)]
  BY <1>3, ConcatProperties
<1>6. ASSUME NEW j \in DOMAIN (l \o r) PROVE (l \o r)[j] \in Range(q)
  <2>1. j \in 1 .. Len(l) + Len(r)
    BY <1>5
  <2>2. CASE j <= Len(l)
    <3>1. (l \o r)[j] = q[j] /\ j \in 1 .. Len(q)
      BY <1>2, <1>3, <1>5, <2>1, <2>2
    <3> QED  BY <3>1 DEF Range
  <2>3. CASE ~(j <= Len(l))
    <3>1. j - Len(l) \in 1 .. Len(q) - i /\ j - Len(l) + i \in 1 .. Len(q)
      BY <1>2, <1>3, <2>1, <2>3
    <3>2. (l \o r)[j] = q[j - Len(l) + i]
      BY <1>3, <1>5, <2>1, <2>3, <3>1
    <3> QED  BY <3>1, <3>2 DEF Range
  <2> QED  BY <2>2, <2>3
<1> QED  BY <1>4, <1>6 DEF Range

\* NoCrossConnection, of the frames as a set.
CrossInv ==
    running => /\ \A f \in Range(unmatchedFrames) : f.conn = conn
               /\ HasResponse => pendingRequest.reply.conn = conn

\* Frames leave the buffer, or answer the request.
LEMMA FewerKeepCross ==
    ASSUME CrossInv, running' => running, UNCHANGED conn \/ ~running,
           Range(unmatchedFrames') \subseteq Range(unmatchedFrames),
           \/ UNCHANGED pendingRequest \/ pendingRequest'.reply = NoFrame
           \/ pendingRequest'.reply \in Range(unmatchedFrames)
    PROVE  CrossInv'
BY DEF CrossInv, HasResponse

\* A call takes its answer out of the buffer, or resets it.
LEMMA CallsKeepCross ==
    ASSUME TypeOK, CrossInv, NEW c \in Callers,
           (\E o \in Ops \cup {NoOp} : Call(c, o)) \/ CallerStep(c) \/ Expire(c)
    PROVE  CrossInv'
<1>1. UNCHANGED conn /\ (running' => running)
  BY DEF Call, CallerStep, Acquire, Normalise, FetchAdd, Register, Write,
         WriteRefused, WriteFails, WriteFailed, WriteTimesOut, Check, Block,
         Decide, Expire
<1>2. CASE Register(c)
  <2>1. CASE op[c] = NoOp \/ Buffered(op[c]) = {}
    <3>1. UNCHANGED unmatchedFrames
          /\ (UNCHANGED pendingRequest \/ pendingRequest'.reply = NoFrame)
      BY <1>2, <2>1 DEF Register, Request
    <3> QED  BY <1>1, <3>1, FewerKeepCross
  <2>2. CASE ~(op[c] = NoOp \/ Buffered(op[c]) = {})
    <3>1. PICK i \in Buffered(op[c]) :
             /\ pendingRequest' = [op |-> op[c], reply |-> unmatchedFrames[i]]
             /\ unmatchedFrames' = RemoveAt(unmatchedFrames, i)
      BY <1>2, <2>2 DEF Register
    <3>2. i \in 1 .. Len(unmatchedFrames) /\ unmatchedFrames \in Seq(DeviceData)
      BY DEF Buffered, TypeOK
    <3>3. Range(unmatchedFrames') \subseteq Range(unmatchedFrames)
      BY <3>1, <3>2, RemoveAtRange
    <3>4. pendingRequest'.reply \in Range(unmatchedFrames)
      BY <3>1, <3>2 DEF Range
    <3> QED  BY <1>1, <3>3, <3>4, FewerKeepCross
  <2> QED  BY <2>1, <2>2
<1>3. CASE ~Register(c)
  <2>1. UNCHANGED unmatchedFrames
        /\ (UNCHANGED pendingRequest \/ pendingRequest'.reply = NoFrame)
    BY <1>3 DEF Call, CallerStep, Acquire, Normalise, FetchAdd, Write,
       WriteRefused, WriteFails, WriteFailed, WriteTimesOut, Check, Block,
       Decide, AfterWait, NoRequest, Expire
  <2> QED  BY <1>1, <2>1, FewerKeepCross
<1> QED  BY <1>2, <1>3

\* The reader keeps frames of its own connection.
LEMMA ReaderKeepsCross ==
    ASSUME TypeInv, NumbersInv, CrossInv, ReaderStep
    PROVE  CrossInv'
<1>1. UNCHANGED conn /\ (running' => running)
  BY DEF ReaderStep, Loop, Receive, ReceiveTimesOut, ReceiveFails, HandleAck,
         SendAck, SendAckRefused, SendAckFails, SendAckFailed, DropDuplicate,
         AcceptFrame, MatchRequest, Buffer, Dispatch, Exit, Leave
<1>2. reader = "fresh" => /\ Head(batch).conn = conn
                          /\ Head(batch) \in DeviceData
  <2>1. ASSUME reader = "fresh"
        PROVE  /\ Head(batch) \in DeviceAcks \cup DeviceData
               /\ Head(batch).conn = conn /\ Head(batch).type = "Data"
    BY <2>1, HeadOfBatch DEF Handling, TypeInv
  <2> QED  BY <2>1 DEF DeviceAcks
<1>3. CASE MatchRequest
  <2>1. pendingRequest'.reply = Head(batch)
    BY <1>3 DEF MatchRequest, TypeInv, TypeOK, Requests
  <2>2. reader = "fresh" /\ UNCHANGED <<unmatchedFrames>>
    BY <1>3 DEF MatchRequest
  <2> QED  BY <1>1, <1>2, <2>1, <2>2 DEF CrossInv
<1>4. CASE Buffer
  <2>1. /\ reader = "fresh" /\ UNCHANGED pendingRequest
        /\ unmatchedFrames' = Evict(Append(unmatchedFrames, Head(batch)))
    BY <1>4 DEF Buffer
  <2> DEFINE q == Append(unmatchedFrames, Head(batch))
  <2>2. unmatchedFrames \in Seq(DeviceData)
    BY DEF TypeInv, TypeOK
  <2>3. q \in Seq(DeviceData) /\ Len(q) = Len(unmatchedFrames) + 1
    BY <1>2, <2>1, <2>2, AppendType
  <2>4. Range(q) = Range(unmatchedFrames) \cup {Head(batch)}
    BY <1>2, <2>1, <2>2, AppendRange
  <2>5. q # <<>>
    OBVIOUS
  <2> HIDE DEF q
  <2>6. Range(Tail(q)) \subseteq Range(q)
    BY <2>3, <2>5, QueueRanges
  <2>7. Range(unmatchedFrames') \subseteq Range(q)
    BY <2>1, <2>6 DEF Evict, q
  <2> QED  BY <1>1, <1>2, <2>1, <2>4, <2>7 DEF CrossInv, HasResponse
<1>5. CASE ~MatchRequest /\ ~Buffer
  <2>1. UNCHANGED <<unmatchedFrames, pendingRequest>>
    BY <1>5 DEF ReaderStep, Loop, Receive, ReceiveTimesOut, ReceiveFails, HandleAck,
         SendAck, SendAckRefused, SendAckFails, SendAckFailed, DropDuplicate,
         AcceptFrame, Dispatch, Exit, Leave
  <2> QED  BY <1>1, <2>1, FewerKeepCross
<1> QED  BY <1>3, <1>4, <1>5

\* A connection starts with nothing kept; it stays what it is while it runs.
LEMMA OthersKeepCross ==
    ASSUME IdleInv, CrossInv,
           \/ (\E n \in Sequences : SetSequence(n)) \/ Connect
           \/ (\E again \in BOOLEAN : StopReader(again)) \/ OwnerStep
           \/ DeviceStep \/ DevicePushes \/ Corrupt \/ Drop \/ UNCHANGED vars
    PROVE  CrossInv'
<1>1. CASE StartReader
  <2>1. unmatchedFrames' = <<>> /\ pendingRequest' = NoRequest
    BY <1>1 DEF StartReader, IdleInv
  <2> QED  BY <2>1 DEF CrossInv, HasResponse, NoRequest, Range
<1>2. CASE Clear \/ Start
  <2>1. /\ UNCHANGED <<running, conn>>
        /\ \/ UNCHANGED <<unmatchedFrames, pendingRequest>>
           \/ unmatchedFrames' = <<>> /\ pendingRequest' = NoRequest
    BY <1>2 DEF Clear, Start, ClearSession
  <2> QED  BY <2>1 DEF CrossInv, HasResponse, NoRequest, Range
<1>3. CASE ~StartReader /\ ~Clear /\ ~Start
  <2>1. running' => running
    BY <1>3, ZenonT(60) DEF SetSequence, Connect, StopReader, OwnerStep, NotifyStopped,
         Join, Close, Open, OpenFails, DeviceStep, DeviceTakes, DeviceAcked,
         DeviceSends, DevicePushes, Corrupt, Drop, vars
  <2>2. UNCHANGED <<unmatchedFrames, pendingRequest>>
    BY <1>3, ZenonT(60) DEF SetSequence, Connect, StopReader, OwnerStep, NotifyStopped,
         Join, Close, Open, OpenFails, DeviceStep, DeviceTakes, DeviceAcked,
         DeviceSends, DevicePushes, Corrupt, Drop, vars
  <2>3. UNCHANGED conn \/ ~running
    <3>1. CASE Open
      BY <3>1 DEF Open, IdleInv
    <3> QED
      BY <1>3, <3>1
      DEF SetSequence, Connect, StopReader, OwnerStep, NotifyStopped, Join, Close,
          OpenFails, DeviceStep, DeviceTakes, DeviceAcked, DeviceSends,
          DevicePushes, Corrupt, Drop, vars
  <2> QED  BY <2>1, <2>2, <2>3, FewerKeepCross, SMTT(60)
<1> QED  BY <1>1, <1>2, <1>3

\* A running session keeps no frame of an earlier connection.
THEOREM NoFrameCrosses ==
    ASSUME OrderlyOwner PROVE Spec => []NoCrossConnection
<1>1. TypeInv /\ IdleInv /\ StreamInv /\ CrossInv /\ [Next]_vars => CrossInv'
  BY CallsKeepCross, ReaderKeepsCross, OthersKeepCross DEF Next, TypeInv, StreamInv
<1>2. TypeInv /\ IdleInv /\ StreamInv /\ [Next]_vars => StreamInv'
  BY StreamStep DEF StreamMoves
<1>3. TypeInv /\ IdleInv /\ [Next]_vars => IdleInv'
  BY IdleStep
<1>4. Init => CrossInv
  BY DEF Init, CrossInv
<1>5. CrossInv => NoCrossConnection
  BY DEF CrossInv, NoCrossConnection, Range
<1> QED
  BY <1>1, <1>2, <1>3, <1>4, <1>5, TypeInit, TypeStep, IdleInit, StreamInit, PTL
  DEF Spec
=============================================================================
