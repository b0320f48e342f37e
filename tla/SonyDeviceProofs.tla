-------------------------- MODULE SonyDeviceProofs --------------------------
(* Proofs about SonyDevice, for every value of its constants.              *)
EXTENDS SonyDevice, SequenceTheorems, TLAPS

\* A connect() under way knows where it goes, ...
GoalInv ==
    /\ goal \in Goals \cup {None}
    /\ executor \in {"resolving", "resetting", "clearing", "opening"} =>
          goal \in Goals

\* ... has the version of its name once the profile is taken, ...
VersionInv ==
    executor \in {"resetting", "clearing", "opening"} /\ version = "V2" =>
        goal.name \in V2Devices

\* ... and opens the transport with no session to close it, on a closed one.
OpeningInv ==
    /\ executor \in {"clearing", "opening", "starting"} => ~made
    /\ ~made /\ executor # "starting" => link = "closed"

\* Until the version changes for another connection, it is that of the name
\* the present one was opened under.
CalledInv ==
    link # "closed" /\ version = "V2" /\ executor # "resetting" =>
        called \in V2Devices

DeviceInv == GoalInv /\ VersionInv /\ OpeningInv /\ CalledInv /\ LinkHeld

USE DEF profileVars, cacheVars, stateVars, callVars, sessionVars, jobVars,
        linkVars, peerVars, countVars, histVars

-----------------------------------------------------------------------------
-----------------------------------------------------------------------------
(* Types.                                                                  *)

\* A connect() under way has somewhere to go and, until the transport is
\* opened, a connection left to use; an open link has somebody at its end, and
\* a reader that notifies something to notify of.
RoomInv ==
    /\ executor \in {"resolving", "resetting", "clearing", "opening"} =>
          goal \in Goals /\ conn < MaxConnects
    /\ goal # None /\ executor # "starting" => conn < MaxConnects
    /\ link # "closed" => peer \in Devices
    /\ reader = "notifying" => heard \in Frames

TypeInv == TypeOK /\ RoomInv

Asked == Features \cup {None, Handshake}

\* What is buffered stays within the buffer.
LEMMA TrimType ==
    ASSUME NEW S, NEW frames \in Seq(S), NEW frame \in S, DeviceAssumption,
           Len(frames) <= MaxBuffered
    PROVE  /\ Trim(Append(frames, frame)) \in Seq(S)
           /\ Len(Trim(Append(frames, frame))) <= MaxBuffered
<1> DEFINE more == Append(frames, frame)
<1>1. more \in Seq(S) /\ Len(more) = Len(frames) + 1
  OBVIOUS
<1>2. MaxBuffered \in Nat /\ Len(frames) \in Nat
  BY DEF DeviceAssumption
<1>3. CASE Len(more) > MaxBuffered
  <2>1. Trim(more) = Tail(more)
    BY <1>3 DEF Trim
  <2>2. more # <<>>
    BY <1>1, <1>2
  <2>3. Tail(more) \in Seq(S) /\ Len(Tail(more)) = Len(more) - 1
    BY <1>1, <2>2
  <2> QED  BY <1>1, <1>2, <2>1, <2>3
<1>4. CASE ~(Len(more) > MaxBuffered)
  <2>1. Trim(more) = more
    BY <1>4 DEF Trim
  <2> QED  BY <1>1, <1>2, <1>4, <2>1
<1> QED  BY <1>3, <1>4

\* A function on the first numbers is a sequence.
LEMMA FunctionSeq ==
    ASSUME NEW S, NEW n \in Nat, NEW f \in [1 .. n -> S]
    PROVE  f \in Seq(S)
OBVIOUS

LEMMA SingletonSeq == ASSUME NEW S, NEW e \in S PROVE <<e>> \in Seq(S)
OBVIOUS

\* RemoveAt takes one element out of a sequence.
LEMMA RemoveType ==
    ASSUME NEW S, NEW s \in Seq(S), NEW i \in DOMAIN s
    PROVE  /\ RemoveAt(s, i) \in Seq(S) /\ Len(RemoveAt(s, i)) = Len(s) - 1
<1>1. /\ i \in 1 .. Len(s) /\ Len(s) \in Nat
  OBVIOUS
<1>2. /\ SubSeq(s, 1, i - 1) \in Seq(S) /\ Len(SubSeq(s, 1, i - 1)) = i - 1
  BY <1>1
<1>3. /\ SubSeq(s, i + 1, Len(s)) \in Seq(S)
      /\ Len(SubSeq(s, i + 1, Len(s))) = Len(s) - i
  BY <1>1
<1>4. RemoveAt(s, i) = SubSeq(s, 1, i - 1) \o SubSeq(s, i + 1, Len(s))
  BY DEF RemoveAt
<1>5. ASSUME NEW a \in Seq(S), NEW b \in Seq(S)
      PROVE  a \o b \in Seq(S) /\ Len(a \o b) = Len(a) + Len(b)
  OBVIOUS
<1>6. /\ RemoveAt(s, i) \in Seq(S)
      /\ Len(RemoveAt(s, i)) = (i - 1) + (Len(s) - i)
  BY <1>2, <1>3, <1>4, <1>5
<1> QED  BY <1>1, <1>6

\* What the session registers of a request.
LEMMA RegisterType ==
    ASSUME TypeOK, NEW f \in Asked, Register(f)
    PROVE  /\ pending' \in Asked /\ reply' \in Frames \cup {NoFrame}
           /\ unmatched' \in Seq(Frames) /\ Len(unmatched') <= MaxBuffered
<1>1. CASE Buffered(f) = {}
  BY <1>1 DEF Register, TypeOK
<1>2. CASE Buffered(f) # {}
  <2>1. PICK i \in Buffered(f) : /\ pending' = f /\ reply' = unmatched[i]
                                 /\ unmatched' = RemoveAt(unmatched, i)
    BY <1>2 DEF Register
  <2>2. i \in DOMAIN unmatched /\ unmatched \in Seq(Frames)
        /\ Len(unmatched) <= MaxBuffered /\ Len(unmatched) \in Nat
    BY DEF Buffered, TypeOK
  <2>3. unmatched[i] \in Frames
    BY <2>2
  <2>4. /\ unmatched' \in Seq(Frames)
        /\ Len(unmatched') = Len(unmatched) - 1
    BY <2>1, <2>2, RemoveType
  <2>5. MaxBuffered \in Nat
    BY DeviceAssumption DEF DeviceAssumption
  <2> QED  BY <2>1, <2>2, <2>3, <2>4, <2>5
<1> QED  BY <1>1, <1>2


LEMMA TypeInit == Init => TypeInv
<1> SUFFICES ASSUME Init PROVE TypeInv
  OBVIOUS
<1>1. /\ refreshStep \in 0 .. Len(Cycle) - 1 /\ conn \in 0 .. MaxConnects
      /\ changes \in 0 .. MaxChanges /\ sets \in 0 .. MaxSets
      /\ timeouts \in 0 .. MaxTimeouts /\ Len(unmatched) <= MaxBuffered
  BY DeviceAssumption DEF DeviceAssumption, Init
<1>2. NoReading \in Readings /\ NoRequest \in Requests
  BY DeviceAssumption
     DEF DeviceAssumption, NoReading, Reading, Readings, NoRequest, Request,
         Requests
<1>3. /\ known \in [Features -> Readings] /\ availability \in Availabilities
      /\ request \in Requests /\ value \in Readings
  BY <1>2 DEF Init, Availabilities
<1>4. /\ unmatched \in Seq(Frames) /\ toHost \in Seq(Frames)
      /\ todo \in Seq(Requests)
  BY DEF Init
<1>5. reader \in ReaderStates /\ executor \in ExecutorStates
  BY DEF Init, ReaderStates, ExecutorStates
<1>6. called \in Names
  BY DEF Init, Names
<1> QED  BY <1>1, <1>3, <1>4, <1>5, <1>6 DEF Init, TypeInv, TypeOK, RoomInv

\* Frames that are sent are frames.
LEMMA FrameType ==
    ASSUME TypeOK, NEW t \in Messages, NEW f \in Asked,
           NEW v \in AllValues \cup {None}
    PROVE  Frame(t, f, v) \in Frames
BY DEF Frame, Frames, TypeOK, Asked

\* Readings of what there is are readings.
LEMMA ReadingType ==
    ASSUME NEW v \in AllValues \cup {None}, NEW c \in 0 .. MaxConnects
    PROVE  Reading(v, c) \in Readings
BY DEF Reading, Readings

\* Nothing of a session is left when it ends.
LEMMA SessionEndsType ==
    ASSUME TypeOK, SessionEnds
    PROVE  /\ reader' \in ReaderStates
           /\ running' \in BOOLEAN /\ link' \in {"closed", "up", "lost"}
           /\ toHost' \in Seq(Frames) /\ held' \in BOOLEAN
           /\ unmatched' \in Seq(Frames) /\ Len(unmatched') <= MaxBuffered
           /\ pending' \in Features \cup {None, Handshake}
           /\ reply' \in Frames \cup {NoFrame} /\ hasAck' \in BOOLEAN
<1>1. /\ reader' \in ReaderStates /\ link' \in {"closed", "up", "lost"}
      /\ pending' \in Features \cup {None, Handshake}
      /\ reply' \in Frames \cup {NoFrame}
  BY DEF SessionEnds, TypeOK, ReaderStates
<1>2. /\ toHost' \in Seq(Frames) /\ unmatched' \in Seq(Frames)
      /\ Len(unmatched') = 0
  BY DEF SessionEnds
<1>3. Len(unmatched') <= MaxBuffered
  BY <1>2, DeviceAssumption DEF DeviceAssumption
<1>4. running' \in BOOLEAN /\ held' \in BOOLEAN /\ hasAck' \in BOOLEAN
  BY DEF SessionEnds
<1> QED  BY <1>1, <1>2, <1>3, <1>4

LEMMA ConnectTypes ==
    ASSUME TypeInv,
           \/ \E d \in Devices, name \in Names : Connect(d, name)
           \/ Disconnect \/ Stop \/ Join \/ MarkStale \/ Resolve \/ Reset
           \/ Clear \/ Open \/ OpenFails \/ Start
    PROVE  TypeInv'
<1> USE DEF TypeInv, RoomInv, TypeOK
<1>1. ASSUME NEW d \in Devices, NEW name \in Names, Connect(d, name)
      PROVE  TypeInv'
  <2>1. goal' \in Goals /\ executor' \in ExecutorStates
    BY <1>1 DEF Connect, Goals, ExecutorStates
  <2> QED  BY <1>1, <2>1 DEF Connect
<1>2. CASE Disconnect
  <2>1. executor' \in ExecutorStates
    BY <1>2 DEF Disconnect, ExecutorStates
  <2> QED  BY <1>2, <2>1 DEF Disconnect
<1>3. CASE Stop
  <2>1. executor' \in ExecutorStates /\ running' \in BOOLEAN
    BY <1>3 DEF Stop, ExecutorStates
  <2> QED  BY <1>3, <2>1 DEF Stop
<1>4. CASE Join
  <2>1. executor' \in ExecutorStates /\ SessionEnds
    BY <1>4 DEF Join, ExecutorStates
  <2>2. RoomInv'
    BY <1>4, <2>1 DEF Join, SessionEnds
  <2>3. TypeOK'
    BY <1>4, <2>1, SessionEndsType DEF Join
  <2> QED  BY <2>2, <2>3
<1>5. CASE MarkStale
  <2>1. executor' \in ExecutorStates
    BY <1>5 DEF MarkStale, ExecutorStates
  <2>2. availability' \in Availabilities
    BY <1>5 DEF MarkStale, Availabilities
  <2> QED  BY <1>5, <2>1, <2>2 DEF MarkStale
<1>6. CASE Resolve
  <2>1. executor' \in ExecutorStates /\ running' \in BOOLEAN
    BY <1>6 DEF Resolve, ExecutorStates
  <2>2. goal \in Goals
    BY <1>6 DEF Resolve
  <2>3. version' \in {"V1", "V2"} /\ capabilities' \subseteq Features
    BY <1>6, <2>2, DeviceAssumption
       DEF DeviceAssumption, Resolve, Profile, NameProfile, Goals, Names
  <2> QED  BY <1>6, <2>1, <2>2, <2>3 DEF Resolve
<1>7. CASE Reset
  <2>1. executor' \in ExecutorStates /\ made' \in BOOLEAN
    BY <1>7 DEF Reset, ExecutorStates
  <2>2. CASE made
    <3>1. SessionEnds
      BY <1>7, <2>2 DEF Reset
    <3>2. RoomInv'
      BY <1>7, <3>1 DEF Reset, SessionEnds
    <3>3. TypeOK'
      BY <1>7, <2>1, <3>1, SessionEndsType DEF Reset
    <3> QED  BY <3>2, <3>3
  <2>3. CASE ~made
    <3>1. UNCHANGED <<running, reader, unmatched, callVars, linkVars, held>>
      BY <1>7, <2>3 DEF Reset
    <3> QED  BY <1>7, <2>1, <3>1 DEF Reset
  <2> QED  BY <2>2, <2>3
<1>8. CASE Clear
  <2>1. executor' \in ExecutorStates
    BY <1>8 DEF Clear, ExecutorStates
  <2>2. known' \in [Features -> Readings]
    BY <1>8, DeviceAssumption
       DEF DeviceAssumption, Clear, NoReading, Reading, Readings
  <2>3. availability' \in Availabilities
    BY <1>8 DEF Clear, Availabilities
  <2>4. refreshStep' \in 0 .. Len(Cycle) - 1
    BY <1>8, DeviceAssumption DEF DeviceAssumption, Clear
  <2> QED  BY <1>8, <2>1, <2>2, <2>3, <2>4 DEF Clear
<1>9. CASE Open
  <2>1. executor' \in ExecutorStates /\ held' \in BOOLEAN
        /\ toHost' \in Seq(Frames)
    BY <1>9 DEF Open, ExecutorStates
  <2>2. goal \in Goals /\ conn < MaxConnects
    BY <1>9 DEF Open
  <2>3. /\ conn' \in 0 .. MaxConnects /\ peer' \in Devices \cup {None}
        /\ called' \in Names
    BY <1>9, <2>2, DeviceAssumption DEF DeviceAssumption, Open, Goals
  <2>4. RoomInv'
    BY <1>9, <2>2 DEF Open, Goals
  <2>5. TypeOK'
    BY <1>9, <2>1, <2>3 DEF Open
  <2> QED  BY <2>4, <2>5
<1>10. CASE OpenFails
  <2>1. executor' \in ExecutorStates
    BY <1>10 DEF OpenFails, ExecutorStates
  <2> QED  BY <1>10, <2>1 DEF OpenFails
<1>11. CASE Start
  <2>1. todo' \in Seq(Requests)
    <3> DEFINE first == InitRequest(version)
               rest == [i \in DOMAIN AtConnect |-> Request(AtConnect[i], TRUE)]
    <3>1. first \in Requests
      BY DeviceAssumption DEF DeviceAssumption, InitRequest, Request, Requests
    <3>2. AtConnect \in Seq(Features)
      BY DeviceAssumption DEF DeviceAssumption
    <3>3. /\ DOMAIN AtConnect = 1 .. Len(AtConnect) /\ Len(AtConnect) \in Nat
          /\ \A i \in DOMAIN AtConnect : Request(AtConnect[i], TRUE) \in Requests
      BY <3>2 DEF Request, Requests
    <3>4. rest \in Seq(Requests)
      <4>1. rest \in [1 .. Len(AtConnect) -> Requests]
        BY <3>3
      <4> QED  BY <3>3, <4>1, FunctionSeq
    <3> HIDE DEF first, rest
    <3>5. <<first>> \o rest \in Seq(Requests)
      BY <3>1, <3>4
    <3>6. UNCHANGED todo \/ todo' = <<first>> \o rest
      BY <1>11 DEF Start, first, rest
    <3> QED  BY <3>5, <3>6
  <2>2. /\ executor' \in ExecutorStates /\ reader' \in ReaderStates
        /\ goal' = None /\ link' \in {"closed", "up", "lost"}
    BY <1>11 DEF Start, ExecutorStates, ReaderStates
  <2>3. /\ made' \in BOOLEAN /\ running' \in BOOLEAN /\ hasAck' \in BOOLEAN
    BY <1>11 DEF Start
  <2>4. /\ unmatched' \in Seq(Frames) /\ Len(unmatched') <= MaxBuffered
    BY <1>11, DeviceAssumption DEF Start, DeviceAssumption
  <2>5. toHost' \in Seq(Frames)
    <3>1. toHost' = <<>> \/ toHost' = toHost
      BY <1>11 DEF Start
    <3>2. toHost \in Seq(Frames) /\ <<>> \in Seq(Frames)
      OBVIOUS
    <3> QED  BY <3>1, <3>2, Zenon
  <2> QED  BY <1>11, <2>1, <2>2, <2>3, <2>4, <2>5 DEF Start
<1> HIDE DEF TypeInv
<1> QED  BY <1>1, <1>2, <1>3, <1>4, <1>5, <1>6, <1>7, <1>8, <1>9, <1>10, <1>11

LEMMA AckType == ASSUME TypeOK PROVE Acks \in Seq(Frames)
<1>1. AckFrame \in Frames
  BY FrameType DEF AckFrame, Messages, Asked
<1> QED  BY <1>1 DEF Acks

\* The headphones say frames.
LEMMA RepliesType ==
    ASSUME TypeOK, NEW f \in Asked
    PROVE  toHost \o Replies(f) \in Seq(Frames)
<1> DEFINE v == IF f \in Features THEN setting[f] ELSE None
<1>1. Acks \in Seq(Frames) /\ toHost \in Seq(Frames)
  BY AckType DEF TypeOK
<1>2. v \in AllValues \cup {None}
  BY DEF TypeOK, Settings
<1>3. Frame("reply", f, v) \in Frames
  BY <1>2, FrameType DEF Messages
<1>4. \/ Replies(f) = Acks \o <<>>
      \/ Replies(f) = Acks \o <<Frame("reply", f, v)>>
  BY DEF Replies
<1> HIDE DEF v
<1>5. Replies(f) \in Seq(Frames)
  BY <1>1, <1>3, <1>4
<1> QED  BY <1>1, <1>5

\* The cycle of refreshes goes round.
LEMMA CycleType ==
    ASSUME NEW n \in 0 .. Len(Cycle) - 1
    PROVE  /\ (n + 1) % Len(Cycle) \in 0 .. Len(Cycle) - 1
           /\ Cycle[n + 1] \in Features
<1>1. Cycle \in Seq(Features) /\ Len(Cycle) \in Nat
  BY DeviceAssumption DEF DeviceAssumption
<1>2. ASSUME NEW L \in Nat, L > 0, n < L
      PROVE  (n + 1) % L \in 0 .. L - 1
  BY <1>2
<1> QED  BY <1>1, <1>2

LEMMA RequestTypes ==
    ASSUME TypeInv,
           \/ Choose \/ Ask \/ AskRefused \/ AskFails \/ Answered
           \/ AnswerFails \/ Store \/ Fail \/ SettingsStep \/ BatteryStep
           \/ \E f \in Settable : SetFails(f) \/ \E v \in Values[f] : Set(f, v)
           \/ Acked \/ AckFails
    PROVE  TypeInv'
<1> USE DEF TypeInv, RoomInv, TypeOK
<1>1. CASE Choose
  <2>1. executor' \in ExecutorStates
    BY <1>1 DEF Choose, ExecutorStates
  <2>2. executor' \in {"idle", "asking", "choosing"}
    BY <1>1 DEF Choose
  <2>3. NoReading \in Readings /\ NoRequest \in Requests
    BY ReadingType, DeviceAssumption
       DEF DeviceAssumption, NoReading, NoRequest, Request, Requests
  <2>4. request' \in Requests /\ todo' \in Seq(Requests)
    <3>1. CASE todo = <<>>
      BY <1>1, <2>3, <3>1 DEF Choose
    <3>2. CASE todo # <<>>
      <4>1. Head(todo) \in Requests /\ Tail(todo) \in Seq(Requests)
        BY <3>2, HeadTailProperties
      <4> QED  BY <1>1, <3>2, <4>1 DEF Choose
    <3> QED  BY <3>1, <3>2
  <2> QED  BY <1>1, <2>1, <2>2, <2>3, <2>4 DEF Choose
<1>2. ASSUME request.feature \in Asked PROVE Ask => TypeInv'
  <2>1. SUFFICES ASSUME Ask PROVE TypeInv'
    OBVIOUS
  <2>2. executor' \in ExecutorStates /\ executor' = "awaiting"
    BY <2>1 DEF Ask, ExecutorStates
  <2>3. hasAck' \in BOOLEAN
    BY <2>1 DEF Ask
  <2>4. off' \subseteq Devices
    <3>1. peer \in Devices
      BY <2>1 DEF Ask
    <3> QED  BY <2>1, <3>1 DEF Ask, SwitchedOff
  <2>5. toHost' \in Seq(Frames)
    BY <1>2, <2>1, RepliesType DEF Ask
  <2>6. /\ pending' \in Features \cup {None, Handshake}
        /\ reply' \in Frames \cup {NoFrame}
        /\ unmatched' \in Seq(Frames) /\ Len(unmatched') <= MaxBuffered
    BY <1>2, <2>1, RegisterType DEF Ask, Asked
  <2> QED  BY <2>1, <2>2, <2>3, <2>4, <2>5, <2>6 DEF Ask
<1>3. CASE AskRefused
  <2>1. executor' \in ExecutorStates
    BY <1>3 DEF AskRefused, ExecutorStates
  <2> QED  BY <1>3, <2>1 DEF AskRefused
<1>4. ASSUME request.feature \in Asked PROVE AskFails => TypeInv'
  <2>1. SUFFICES ASSUME AskFails PROVE TypeInv'
    OBVIOUS
  <2>2. executor' \in ExecutorStates /\ executor' = "failed"
    BY <2>1 DEF AskFails, ExecutorStates
  <2>3. hasAck' \in BOOLEAN /\ running' \in BOOLEAN
    BY <2>1 DEF AskFails
  <2>4. /\ pending' \in Features \cup {None, Handshake}
        /\ reply' \in Frames \cup {NoFrame}
        /\ unmatched' \in Seq(Frames) /\ Len(unmatched') <= MaxBuffered
    BY <1>4, <2>1, RegisterType DEF AskFails, Asked
  <2> QED  BY <2>1, <2>2, <2>3, <2>4 DEF AskFails
<1>5. request.feature \in Asked
  BY DEF Requests, Asked
<1>6. CASE Answered
  <2>1. executor' \in ExecutorStates /\ executor' \in {"storing", "choosing"}
    BY <1>6 DEF Answered, ExecutorStates
  <2>2. reply \in Frames
    BY <1>6 DEF Answered
  <2>3. value' \in Readings
    BY <1>6, <2>2, ReadingType DEF Answered, Frames
  <2>4. hasAck' \in BOOLEAN
    BY <1>6 DEF Answered
  <2> QED  BY <1>6, <2>1, <2>3, <2>4 DEF Answered
<1>7. CASE AnswerFails
  <2>1. executor' \in ExecutorStates /\ executor' = "failed"
    BY <1>7 DEF AnswerFails, ExecutorStates
  <2>2. timeouts' \in 0 .. MaxTimeouts
    BY <1>7, DeviceAssumption DEF DeviceAssumption, AnswerFails
  <2> QED  BY <1>7, <2>1, <2>2 DEF AnswerFails
<1>8. CASE Store
  <2>1. executor' \in ExecutorStates /\ executor' = "choosing"
    BY <1>8 DEF Store, ExecutorStates
  <2>2. known' \in [Features -> Readings] /\ availability' \in Availabilities
    BY <1>8 DEF Store, Record, Availabilities
  <2> QED  BY <1>8, <2>1, <2>2 DEF Store
<1>9. CASE Fail
  <2>1. executor' \in ExecutorStates /\ executor' = "choosing"
    BY <1>9 DEF Fail, ExecutorStates
  <2>2. availability' \in Availabilities
    BY <1>9 DEF Fail, Availabilities
  <2> QED  BY <1>9, <2>1, <2>2 DEF Fail
<1>10. /\ (refreshStep + 1) % Len(Cycle) \in 0 .. Len(Cycle) - 1
       /\ Cycle[refreshStep + 1] \in Features
  BY CycleType
<1>11. CASE SettingsStep
  <2>1. executor' \in ExecutorStates /\ executor' = "choosing"
    BY <1>11 DEF SettingsStep, ExecutorStates
  <2>2. refreshStep' \in 0 .. Len(Cycle) - 1
    BY <1>10, <1>11 DEF SettingsStep
  <2>3. Request(Cycle[refreshStep + 1], TRUE) \in Requests
    BY <1>10 DEF Request, Requests
  <2>4. todo' \in Seq(Requests)
    BY <1>11, <2>3, SingletonSeq DEF SettingsStep
  <2>5. RoomInv'
    BY <1>11 DEF SettingsStep
  <2>6. UNCHANGED <<profileVars, cacheVars, sessionVars, goal, request, value,
                    linkVars, peerVars, histVars>>
    BY <1>11 DEF SettingsStep
  <2>7. TypeOK'
    BY <2>1, <2>2, <2>4, <2>6
  <2> QED  BY <2>5, <2>7
<1>12. CASE BatteryStep
  <2>1. executor' \in ExecutorStates /\ executor' = "choosing"
    BY <1>12 DEF BatteryStep, ExecutorStates
  <2>2. Request(Battery, TRUE) \in Requests
    BY DeviceAssumption DEF DeviceAssumption, Request, Requests
  <2>3. todo' \in Seq(Requests)
    BY <1>12, <2>2, SingletonSeq DEF BatteryStep
  <2>4. RoomInv'
    BY <1>12 DEF BatteryStep
  <2>5. UNCHANGED <<profileVars, stateVars, sessionVars, goal, request, value,
                    linkVars, peerVars, histVars>>
    BY <1>12 DEF BatteryStep
  <2>6. TypeOK'
    BY <2>1, <2>3, <2>5
  <2> QED  BY <2>4, <2>6
<1>13. ASSUME NEW f \in Settable, SetFails(f) PROVE TypeInv'
  <2>1. running' \in BOOLEAN /\ hasAck' \in BOOLEAN
    BY <1>13 DEF SetFails
  <2> QED  BY <1>13, <2>1 DEF SetFails
<1>14. ASSUME NEW f \in Settable, NEW v \in Values[f], Set(f, v)
       PROVE  TypeInv'
  <2>1. executor' \in ExecutorStates /\ executor' = "acking"
    BY <1>14 DEF Set, ExecutorStates
  <2>2. f \in Features /\ v \in AllValues
    BY DeviceAssumption DEF DeviceAssumption, AllValues
  <2>3. request' \in Requests /\ value' \in Readings
    BY <1>14, <2>2, ReadingType DEF Set, Request, Requests
  <2>4. setting' \in Settings
    BY <1>14, <2>2 DEF Set, Settings
  <2>5. toHost' \in Seq(Frames)
    BY <1>14, AckType DEF Set
  <2>6. sets' \in 0 .. MaxSets
    BY <1>14, DeviceAssumption DEF DeviceAssumption, Set
  <2>7. hasAck' \in BOOLEAN
    BY <1>14 DEF Set
  <2> QED  BY <1>14, <2>1, <2>3, <2>4, <2>5, <2>6, <2>7, ZenonT(60) DEF Set
<1>15. CASE Acked
  <2>1. executor' \in ExecutorStates /\ executor' = "storing"
        /\ hasAck' \in BOOLEAN
    BY <1>15 DEF Acked, ExecutorStates
  <2> QED  BY <1>15, <2>1 DEF Acked
<1>16. CASE AckFails
  <2>1. executor' \in ExecutorStates /\ executor' = "choosing"
    BY <1>16 DEF AckFails, ExecutorStates
  <2>2. timeouts' \in 0 .. MaxTimeouts
    BY <1>16, DeviceAssumption DEF DeviceAssumption, AckFails
  <2> QED  BY <1>16, <2>1, <2>2 DEF AckFails
<1> HIDE DEF TypeInv
<1> QED  BY <1>1, <1>2, <1>3, <1>4, <1>5, <1>6, <1>7, <1>8, <1>9, <1>11, <1>12,
            <1>13, <1>14, <1>15, <1>16

LEMMA OtherTypes ==
    ASSUME TypeInv,
           \/ ReaderStep \/ Drop \/ UNCHANGED vars
           \/ \E f \in Features : \E v \in Values[f] : Change(f, v)
    PROVE  TypeInv'
<1> USE DEF TypeInv, RoomInv, TypeOK
<1>1. ASSUME toHost # <<>>
      PROVE  Head(toHost) \in Frames /\ Tail(toHost) \in Seq(Frames)
  BY <1>1, HeadTailProperties
<1>2. CASE TakeAck
  <2>1. hasAck' \in BOOLEAN
    BY <1>2 DEF TakeAck
  <2>2. toHost' \in Seq(Frames)
    BY <1>1, <1>2 DEF TakeAck
  <2> QED  BY <1>2, <2>1, <2>2 DEF TakeAck
<1>3. CASE TakeFrame
  <2> DEFINE frame == Head(toHost)
  <2>1. frame \in Frames /\ toHost' \in Seq(Frames)
    BY <1>1, <1>3 DEF TakeFrame
  <2>2. \/ reply' = frame /\ UNCHANGED <<unmatched, reader, heard>>
        \/ /\ reader' = "notifying" /\ heard' = frame /\ UNCHANGED reply
           /\ unmatched' = Trim(Append(unmatched, frame))
    BY <1>3 DEF TakeFrame
  <2>3. /\ reply' \in Frames \cup {NoFrame} /\ heard' \in Frames \cup {NoFrame}
        /\ reader' \in ReaderStates
    BY <2>1, <2>2 DEF ReaderStates
  <2>4. unmatched' \in Seq(Frames) /\ Len(unmatched') <= MaxBuffered
    <3>1. CASE UNCHANGED unmatched
      BY <3>1
    <3>2. CASE unmatched' = Trim(Append(unmatched, frame))
      <4> HIDE DEF frame
      <4>1. unmatched \in Seq(Frames) /\ Len(unmatched) <= MaxBuffered
        OBVIOUS
      <4> HIDE DEF TypeOK, TypeInv, RoomInv
      <4> QED  BY <2>1, <3>2, <4>1, DeviceAssumption, TrimType
    <3> QED  BY <2>2, <3>1, <3>2
  <2> HIDE DEF frame
  <2> QED  BY <1>3, <2>1, <2>3, <2>4 DEF TakeFrame
<1>4. CASE Notify
  <2>1. reader' \in ReaderStates /\ heard' \in Frames \cup {NoFrame}
    BY <1>4 DEF Notify, ReaderStates
  <2>2. known' \in [Features -> Readings] /\ availability' \in Availabilities
    <3>1. CASE heard.feature \in Heard[peer]
      <4>1. known' = [known EXCEPT ![heard.feature] =
                         Reading(heard.value, heard.conn)]
            /\ availability' = [availability EXCEPT ![heard.feature] = "valid"]
        BY <1>4, <3>1 DEF Notify, Record
      <4>2. heard \in Frames
        BY <1>4 DEF Notify
      <4>3. Reading(heard.value, heard.conn) \in Readings
        BY <4>2, ReadingType DEF Frames
      <4> QED  BY <4>1, <4>3 DEF Availabilities
    <3>2. CASE heard.feature \notin Heard[peer]
      BY <1>4, <3>2 DEF Notify
    <3> QED  BY <3>1, <3>2
  <2> QED  BY <1>4, <2>1, <2>2 DEF Notify
<1>5. CASE ReaderEnds
  <2>1. reader' \in ReaderStates /\ running' \in BOOLEAN
    BY <1>5 DEF ReaderEnds, ReaderStates
  <2> QED  BY <1>5, <2>1 DEF ReaderEnds
<1>6. CASE Drop
  <2>1. held' \in BOOLEAN /\ toHost' \in Seq(Frames)
    <3>1. held' = FALSE /\ (toHost' = toHost \/ toHost' = <<>>)
      BY <1>6 DEF Drop
    <3>2. toHost \in Seq(Frames) /\ <<>> \in Seq(Frames)
      OBVIOUS
    <3> QED  BY <3>1, <3>2, Zenon
  <2> QED  BY <1>6, <2>1 DEF Drop
<1>7. CASE UNCHANGED vars
  BY <1>7 DEF vars
<1>8. ASSUME NEW f \in Features, NEW v \in Values[f], Change(f, v)
      PROVE  TypeInv'
  <2>1. v \in AllValues
    BY DEF AllValues
  <2>2. setting' \in Settings
    BY <1>8, <2>1 DEF Change, Settings
  <2>3. Frame("notify", f, v) \in Frames
    BY <2>1, FrameType DEF Messages, Asked
  <2>4. toHost' \in Seq(Frames)
    BY <1>8, <2>3, AppendProperties DEF Change
  <2>5. changes' \in 0 .. MaxChanges
    BY <1>8, DeviceAssumption DEF DeviceAssumption, Change
  <2> QED  BY <1>8, <2>2, <2>4, <2>5 DEF Change
<1> HIDE DEF TypeInv
<1> QED  BY <1>2, <1>3, <1>4, <1>5, <1>6, <1>7, <1>8 DEF ReaderStep

LEMMA TypeStep == TypeInv /\ [Next]_vars => TypeInv'
BY ConnectTypes, RequestTypes, OtherTypes DEF Next, ExecutorStep

\* The types are right.
THEOREM TypeCorrect == Spec => []TypeOK
<1>1. TypeInv => TypeOK
  BY DEF TypeInv
<1> QED  BY <1>1, TypeInit, TypeStep, PTL DEF Spec

-----------------------------------------------------------------------------
(* Versions and links.                                                     *)

LEMMA DeviceInit == Init => DeviceInv
BY DEF Init, DeviceInv, GoalInv, VersionInv, OpeningInv, CalledInv,
       LinkHeld

\* What connect() and disconnect() do.
LEMMA ConnectStep ==
    ASSUME DeviceInv, DeviceAssumption,
           \/ \E d \in Devices, name \in Names : Connect(d, name)
           \/ Disconnect \/ Stop \/ Join \/ MarkStale \/ Resolve \/ Reset
           \/ Clear \/ Open \/ OpenFails \/ Start
    PROVE  DeviceInv'
<1> USE DEF DeviceInv, GoalInv, Goals, VersionInv, OpeningInv, CalledInv,
            LinkHeld
<1>1. ASSUME NEW d \in Devices, NEW name \in Names, Connect(d, name)
      PROVE  DeviceInv'
  BY <1>1 DEF Connect
<1>2. CASE Disconnect
  BY <1>2 DEF Disconnect
<1>3. CASE Stop
  BY <1>3 DEF Stop
<1>4. CASE Join
  BY <1>4 DEF Join, SessionEnds
<1>5. CASE MarkStale
  BY <1>5 DEF MarkStale
<1>6. CASE Resolve
  <2>1. goal \in Goals
    BY <1>6 DEF Resolve
  <2>2. version' = "V2" => goal.name \in V2Devices
    BY <1>6 DEF Resolve, Profile, NameProfile
  <2> QED  BY <1>6, <2>1, <2>2 DEF Resolve
<1>7. CASE Reset
  <2>1. link' = "closed" /\ (held' => link' = "up")
    BY <1>7 DEF Reset, SessionEnds
  <2> QED  BY <1>7, <2>1 DEF Reset
<1>8. CASE Clear
  BY <1>8 DEF Clear
<1>9. CASE Open
  BY <1>9 DEF Open
<1>10. CASE OpenFails
  BY <1>10 DEF OpenFails
<1>11. CASE Start
  BY <1>11 DEF Start
<1> QED  BY <1>1, <1>2, <1>3, <1>4, <1>5, <1>6, <1>7, <1>8, <1>9, <1>10, <1>11

\* Requests and setters.
LEMMA RequestStep ==
    ASSUME DeviceInv,
           \/ Choose \/ Ask \/ AskRefused \/ AskFails \/ Answered
           \/ AnswerFails \/ Store \/ Fail \/ SettingsStep \/ BatteryStep
           \/ \E f \in Settable : SetFails(f) \/ \E v \in Values[f] : Set(f, v)
           \/ Acked \/ AckFails
    PROVE  DeviceInv'
<1> USE DEF DeviceInv, GoalInv, VersionInv, OpeningInv, CalledInv,
            LinkHeld
<1>1. CASE Choose
  BY <1>1 DEF Choose
<1>2. CASE Ask
  BY <1>2 DEF Ask
<1>3. CASE AskRefused
  BY <1>3 DEF AskRefused
<1>4. CASE AskFails
  BY <1>4 DEF AskFails
<1>5. CASE Answered
  BY <1>5 DEF Answered
<1>6. CASE AnswerFails
  BY <1>6 DEF AnswerFails
<1>7. CASE Store
  BY <1>7 DEF Store
<1>8. CASE Fail
  BY <1>8 DEF Fail
<1>9. CASE SettingsStep
  BY <1>9 DEF SettingsStep
<1>10. CASE BatteryStep
  BY <1>10 DEF BatteryStep
<1>11. ASSUME NEW f \in Settable, SetFails(f) PROVE DeviceInv'
  BY <1>11 DEF SetFails
<1>12. ASSUME NEW f \in Settable, NEW v \in Values[f], Set(f, v)
       PROVE  DeviceInv'
  BY <1>12 DEF Set
<1>13. CASE Acked
  BY <1>13 DEF Acked
<1>14. CASE AckFails
  BY <1>14 DEF AckFails
<1> QED  BY <1>1, <1>2, <1>3, <1>4, <1>5, <1>6, <1>7, <1>8, <1>9, <1>10, <1>11,
            <1>12, <1>13, <1>14

\* The reader, the headphones and the link.
LEMMA OtherStep ==
    ASSUME DeviceInv,
           \/ ReaderStep \/ Drop \/ UNCHANGED vars
           \/ \E f \in Features : \E v \in Values[f] : Change(f, v)
    PROVE  DeviceInv'
<1> USE DEF DeviceInv, GoalInv, VersionInv, OpeningInv, CalledInv,
            LinkHeld
<1>1. CASE TakeAck
  BY <1>1 DEF TakeAck
<1>2. CASE TakeFrame
  BY <1>2 DEF TakeFrame
<1>3. CASE Notify
  BY <1>3 DEF Notify
<1>4. CASE ReaderEnds
  BY <1>4 DEF ReaderEnds
<1>5. CASE Drop
  BY <1>5 DEF Drop
<1>6. CASE UNCHANGED vars
  BY <1>6 DEF vars
<1>7. ASSUME NEW f \in Features, NEW v \in Values[f], Change(f, v)
      PROVE  DeviceInv'
  BY <1>7 DEF Change
<1> QED  BY <1>1, <1>2, <1>3, <1>4, <1>5, <1>6, <1>7 DEF ReaderStep

LEMMA DeviceStep == DeviceInv /\ [Next]_vars => DeviceInv'
BY DeviceAssumption, ConnectStep, RequestStep, OtherStep DEF Next, ExecutorStep

-----------------------------------------------------------------------------
\* connect() resolves the generation anew from the name it is given, so that
\* opcode 0x22 is only written as a battery inquiry over a connection that was
\* opened under the name of a second-generation model: no other device is
\* switched off by what was connected before it, or for want of a name.
THEOREM OnlyNameSwitchesOff == Spec => OffOnlyByName
<1>1. ASSUME DeviceInv, Next, off' # off PROVE called \in V2Devices
  <2>1. CASE Ask
    <3>1. version = "V2" /\ link = "up" /\ executor = "asking"
      BY <1>1, <2>1 DEF Ask, SwitchedOff
    <3> QED  BY <1>1, <3>1 DEF DeviceInv, CalledInv
  <2>2. CASE \/ \E d \in Devices, name \in Names : Connect(d, name)
             \/ Disconnect \/ Stop \/ Join \/ MarkStale \/ Resolve \/ Reset
             \/ Clear \/ Open \/ OpenFails \/ Start
    BY <1>1, <2>2
       DEF Connect, Disconnect, Stop, Join, MarkStale, Resolve, Reset, Clear,
           Open, OpenFails, Start
  <2>3. CASE \/ Choose \/ AskRefused \/ AskFails \/ Answered \/ AnswerFails
             \/ Store \/ Fail \/ SettingsStep \/ BatteryStep
             \/ \E f \in Settable : SetFails(f) \/ \E v \in Values[f] : Set(f, v)
             \/ Acked \/ AckFails
    BY <1>1, <2>3
       DEF Choose, AskRefused, AskFails, Answered, AnswerFails, Store, Fail,
           SettingsStep, BatteryStep, SetFails, Set, Acked, AckFails
  <2>4. CASE \/ ReaderStep \/ Drop
             \/ \E f \in Features : \E v \in Values[f] : Change(f, v)
    BY <1>1, <2>4
       DEF ReaderStep, TakeAck, TakeFrame, Notify, ReaderEnds, Drop, Change
  <2> QED  BY <1>1, <2>1, <2>2, <2>3, <2>4 DEF Next, ExecutorStep
<1>2. DeviceInv /\ [Next]_vars => [off' # off => called \in V2Devices]_vars
  BY <1>1
<1> QED  BY <1>2, DeviceInit, DeviceStep, PTL DEF Spec, OffOnlyByName

\* connect() never closes the link it has just opened, since the old session,
\* whose destructor closes the transport, is gone by then.
THEOREM LinkStaysHeld == Spec => []LinkHeld
<1>1. DeviceInv => LinkHeld
  BY DEF DeviceInv
<1> QED  BY <1>1, DeviceInit, DeviceStep, PTL DEF Spec
-----------------------------------------------------------------------------
(* Where readings come from.                                               *)

\* Frames of this connection.
Here == {frame \in Frames : frame.conn = conn}

\* Without a session there is no reader, and nothing it has left; ...
EndedInv ==
    ~made => /\ reader = "none" /\ ~running
             /\ unmatched = <<>> /\ reply = NoFrame

\* ... when a connection is opened, nothing is known; ...
ClearedInv ==
    executor \in {"opening", "starting"} =>
        \A f \in Features : known[f] = NoReading

\* ... and all that is on its way into what is known is of the connection.
OnItsWay ==
    /\ toHost \in Seq(Here) /\ unmatched \in Seq(Here)
    /\ reply # NoFrame => reply \in Here
    /\ reader = "notifying" => heard \in Here
    /\ executor \in {"acking", "storing"} => value.conn = conn

OriginInv == EndedInv /\ ClearedInv /\ OnItsWay /\ KnownOfPeer

LEMMA OriginInit == Init => OriginInv
BY DEF Init, OriginInv, EndedInv, ClearedInv, OnItsWay, KnownOfPeer, NoReading,
       Reading

\* Nothing of a session that has ended is left on its way.
LEMMA SessionEndsOrigin ==
    ASSUME SessionEnds, executor' \notin {"acking", "storing"}
    PROVE  EndedInv' /\ OnItsWay'
<1>1. /\ reader' = "none" /\ unmatched' = <<>> /\ reply' = NoFrame
      /\ toHost' = <<>> /\ ~running'
  BY DEF SessionEnds, ReaderJoined
<1> QED  BY <1>1 DEF EndedInv, OnItsWay

LEMMA ConnectOrigin ==
    ASSUME TypeInv, DeviceInv, OriginInv,
           \/ \E d \in Devices, name \in Names : Connect(d, name)
           \/ Disconnect \/ Stop \/ Join \/ MarkStale \/ Resolve \/ Reset
           \/ Clear \/ Open \/ OpenFails \/ Start
    PROVE  OriginInv'
<1> USE DEF OriginInv, EndedInv, ClearedInv, OnItsWay, KnownOfPeer, Here
<1>1. ASSUME NEW d \in Devices, NEW name \in Names, Connect(d, name)
      PROVE  OriginInv'
  BY <1>1 DEF Connect
<1>2. CASE Disconnect
  BY <1>2 DEF Disconnect
<1>3. CASE Stop
  BY <1>3 DEF Stop
<1>4. CASE Join
  <2>1. EndedInv' /\ OnItsWay'
    BY <1>4, SessionEndsOrigin DEF Join
  <2> QED  BY <1>4, <2>1 DEF Join
<1>5. CASE MarkStale
  BY <1>5 DEF MarkStale
<1>6. CASE Resolve
  BY <1>6 DEF Resolve
<1>7. CASE Reset
  <2>1. CASE made
    <3>1. EndedInv' /\ OnItsWay'
      BY <1>7, <2>1, SessionEndsOrigin DEF Reset
    <3> QED  BY <1>7, <3>1 DEF Reset
  <2>2. CASE ~made
    BY <1>7, <2>2 DEF Reset
  <2> QED  BY <2>1, <2>2
<1>8. CASE Clear
  BY <1>8 DEF Clear
<1>9. CASE Open
  <2>1. ~made
    BY <1>9 DEF Open, DeviceInv, OpeningInv
  <2> QED  BY <1>9, <2>1 DEF Open
<1>10. CASE OpenFails
  BY <1>10 DEF OpenFails
<1>11. CASE Start
  <2>1. ~made
    BY <1>11 DEF Start, DeviceInv, OpeningInv
  <2> QED  BY <1>11, <2>1 DEF Start
<1> QED  BY <1>1, <1>2, <1>3, <1>4, <1>5, <1>6, <1>7, <1>8, <1>9, <1>10, <1>11
\* What the session registers of a request is of the connection.
LEMMA RegisterOrigin ==
    ASSUME OriginInv, NEW f, Register(f), UNCHANGED conn
    PROVE  /\ unmatched' \in Seq(Here) /\ (reply' # NoFrame => reply' \in Here)
<1> USE DEF OriginInv, OnItsWay
<1>1. CASE Buffered(f) = {}
  BY <1>1 DEF Register
<1>2. CASE Buffered(f) # {}
  <2>1. PICK i \in Buffered(f) : /\ pending' = f /\ reply' = unmatched[i]
                                 /\ unmatched' = RemoveAt(unmatched, i)
    BY <1>2 DEF Register
  <2>2. i \in DOMAIN unmatched /\ unmatched \in Seq(Here)
    BY DEF Buffered
  <2>3. unmatched[i] \in Here
    BY <2>2
  <2> QED  BY <2>1, <2>2, <2>3, RemoveType
<1> QED  BY <1>1, <1>2

\* What the headphones send is of the connection.
LEMMA FrameHere ==
    ASSUME TypeOK, NEW t \in Messages, NEW f \in Asked,
           NEW v \in AllValues \cup {None}
    PROVE  Frame(t, f, v) \in Here
<1>1. Frame(t, f, v) \in Frames
  BY FrameType
<1> QED  BY <1>1 DEF Here, Frame

LEMMA AckHere == ASSUME TypeOK PROVE Acks \in Seq(Here)
<1>1. AckFrame \in Here
  BY FrameHere DEF AckFrame, Messages, Asked
<1> QED  BY <1>1 DEF Acks

LEMMA RepliesHere ==
    ASSUME TypeOK, toHost \in Seq(Here), NEW f \in Asked
    PROVE  toHost \o Replies(f) \in Seq(Here)
<1> DEFINE v == IF f \in Features THEN setting[f] ELSE None
<1>1. Acks \in Seq(Here)
  BY AckHere
<1>2. v \in AllValues \cup {None}
  BY DEF TypeOK, Settings
<1>3. Frame("reply", f, v) \in Here
  BY <1>2, FrameHere DEF Messages
<1>4. \/ Replies(f) = Acks \o <<>>
      \/ Replies(f) = Acks \o <<Frame("reply", f, v)>>
  BY DEF Replies
<1> HIDE DEF v
<1>5. Replies(f) \in Seq(Here)
  BY <1>1, <1>3, <1>4
<1> QED  BY <1>5

LEMMA RequestOrigin ==
    ASSUME TypeInv, DeviceInv, OriginInv,
           \/ Choose \/ Ask \/ AskRefused \/ AskFails \/ Answered
           \/ AnswerFails \/ Store \/ Fail \/ SettingsStep \/ BatteryStep
           \/ \E f \in Settable : SetFails(f) \/ \E v \in Values[f] : Set(f, v)
           \/ Acked \/ AckFails
    PROVE  OriginInv'
<1> USE DEF OriginInv, EndedInv, ClearedInv, OnItsWay, KnownOfPeer
<1>1. CASE Choose
  BY <1>1 DEF Choose, Here
<1>2. CASE Ask
  <2>1. made /\ request.feature \in Asked
    BY <1>2 DEF Ask, IsConnected, TypeInv, TypeOK, Requests, Asked
  <2>2. UNCHANGED conn /\ Here' = Here
    BY <1>2 DEF Ask, Here
  <2>3. toHost' \in Seq(Here')
    BY <1>2, <2>1, <2>2, RepliesHere DEF Ask, TypeInv
  <2>4. unmatched' \in Seq(Here') /\ (reply' # NoFrame => reply' \in Here')
    BY <1>2, <2>2, RegisterOrigin DEF Ask
  <2> QED  BY <1>2, <2>1, <2>2, <2>3, <2>4 DEF Ask
<1>3. CASE AskRefused
  BY <1>3 DEF AskRefused, Here
<1>4. CASE AskFails
  <2>1. made
    BY <1>4 DEF AskFails, IsConnected
  <2>2. UNCHANGED conn /\ Here' = Here
    BY <1>4 DEF AskFails, Here
  <2>3. unmatched' \in Seq(Here') /\ (reply' # NoFrame => reply' \in Here')
    BY <1>4, <2>2, RegisterOrigin DEF AskFails
  <2> QED  BY <1>4, <2>1, <2>2, <2>3 DEF AskFails
<1>5. CASE Answered
  <2>1. reply \in Here
    BY <1>5 DEF Answered
  <2> QED  BY <1>5, <2>1 DEF Answered, Here, Reading
<1>6. CASE AnswerFails
  BY <1>6 DEF AnswerFails, Here
<1>7. CASE Store
  BY <1>7 DEF Store, Record, Here, TypeInv, TypeOK
<1>8. CASE Fail
  BY <1>8 DEF Fail, Here
<1>9. CASE SettingsStep
  BY <1>9 DEF SettingsStep, Here
<1>10. CASE BatteryStep
  BY <1>10 DEF BatteryStep, Here
<1>11. ASSUME NEW f \in Settable, SetFails(f) PROVE OriginInv'
  BY <1>11 DEF SetFails, Here
<1>12. ASSUME NEW f \in Settable, NEW v \in Values[f], Set(f, v)
       PROVE  OriginInv'
  <2>1. UNCHANGED conn /\ Here' = Here
    BY <1>12 DEF Set, Here
  <2>2. Acks \in Seq(Here)
    BY AckHere DEF TypeInv
  <2>3. toHost' \in Seq(Here')
    BY <1>12, <2>1, <2>2 DEF Set
  <2>4. value'.conn = conn'
    BY <1>12 DEF Set, Reading
  <2> QED  BY <1>12, <2>1, <2>3, <2>4 DEF Set
<1>13. CASE Acked
  BY <1>13 DEF Acked, Here
<1>14. CASE AckFails
  BY <1>14 DEF AckFails, Here
<1> QED  BY <1>1, <1>2, <1>3, <1>4, <1>5, <1>6, <1>7, <1>8, <1>9, <1>10, <1>11,
            <1>12, <1>13, <1>14

LEMMA OtherOrigin ==
    ASSUME TypeInv, DeviceInv, OriginInv,
           \/ ReaderStep \/ Drop \/ UNCHANGED vars
           \/ \E f \in Features : \E v \in Values[f] : Change(f, v)
    PROVE  OriginInv'
<1> USE DEF OriginInv, EndedInv, ClearedInv, OnItsWay, KnownOfPeer
<1>1. ASSUME toHost # <<>>
      PROVE  Head(toHost) \in Here /\ Tail(toHost) \in Seq(Here)
  BY <1>1, HeadTailProperties
<1>2. CASE TakeAck
  <2>1. toHost' \in Seq(Here) /\ Here' = Here
    BY <1>1, <1>2 DEF TakeAck, Here
  <2> QED  BY <1>2, <2>1 DEF TakeAck
<1>3. CASE TakeFrame
  <2> DEFINE frame == Head(toHost)
  <2>1. frame \in Here /\ toHost' \in Seq(Here) /\ Here' = Here
    BY <1>1, <1>3 DEF TakeFrame, Here
  <2>2. \/ reply' = frame /\ UNCHANGED <<unmatched, reader, heard>>
        \/ /\ reader' = "notifying" /\ heard' = frame /\ UNCHANGED reply
           /\ unmatched' = Trim(Append(unmatched, frame))
    BY <1>3 DEF TakeFrame
  <2>3. unmatched' \in Seq(Here)
    <3>1. CASE UNCHANGED unmatched
      BY <3>1
    <3>2. CASE unmatched' = Trim(Append(unmatched, frame))
      BY <2>1, <3>2, DeviceAssumption, TrimType DEF TypeInv, TypeOK
    <3> QED  BY <2>2, <3>1, <3>2
  <2>4. made
    BY <1>3 DEF TakeFrame
  <2> HIDE DEF frame
  <2> QED  BY <1>3, <2>1, <2>2, <2>3, <2>4 DEF TakeFrame
<1>4. CASE Notify
  <2>1. made /\ heard.conn = conn /\ executor \notin {"opening", "starting"}
    BY <1>4 DEF Notify, Here, DeviceInv, OpeningInv
  <2>2. KnownOfPeer'
    BY <1>4, <2>1 DEF Notify, Record, Reading, TypeInv, TypeOK
  <2> QED  BY <1>4, <2>1, <2>2 DEF Notify, Here
<1>5. CASE ReaderEnds
  BY <1>5 DEF ReaderEnds, Here
<1>6. CASE Drop
  <2>1. toHost' = toHost \/ toHost' = <<>>
    BY <1>6 DEF Drop
  <2>2. Here' = Here /\ <<>> \in Seq(Here)
    BY <1>6 DEF Drop, Here
  <2> QED  BY <1>6, <2>1, <2>2 DEF Drop
<1>7. CASE UNCHANGED vars
  BY <1>7 DEF vars, Here
<1>8. ASSUME NEW f \in Features, NEW v \in Values[f], Change(f, v)
      PROVE  OriginInv'
  <2>1. Frame("notify", f, v) \in Here
    BY FrameHere DEF Messages, Asked, AllValues, TypeInv
  <2>2. toHost' \in Seq(Here) /\ Here' = Here
    BY <1>8, <2>1, AppendProperties DEF Change, Here
  <2> QED  BY <1>8, <2>2 DEF Change
<1> QED  BY <1>2, <1>3, <1>4, <1>5, <1>6, <1>7, <1>8 DEF ReaderStep

\* What is known is known of the connection there is: nothing that the old
\* connection's reader or its buffers held is recorded in a new one.
THEOREM KnownStaysOfPeer == Spec => []KnownOfPeer
<1> DEFINE Inv == TypeInv /\ DeviceInv /\ OriginInv
<1>1. Init => Inv
  BY TypeInit, DeviceInit, OriginInit
<1>2. Inv /\ [Next]_vars => Inv'
  BY TypeStep, DeviceStep, ConnectOrigin, RequestOrigin, OtherOrigin
     DEF Next, ExecutorStep
<1>3. Inv => KnownOfPeer
  BY DEF OriginInv
<1> QED  BY <1>1, <1>2, <1>3, PTL DEF Spec
-----------------------------------------------------------------------------
(* What availability tells.                                                *)

\* Where the executor talks to the headphones.
Calling == {"choosing", "asking", "awaiting", "storing", "failed", "acking"}

\* It does so in a session, which there is none of before the first connection,
\* and which has a reader as long as it runs.
SessionInv ==
    /\ executor \in Calling => made /\ reader # "none"
    /\ conn = 0 => ~made /\ executor # "starting"
    /\ running => reader # "none"

\* What is said to be known is known, and what is valid has a reader that hears
\* of its changes; when that has ended, it is not said to be valid for long.
ToldInv ==
    /\ \A f \in Features :
          availability[f] \in {"valid", "stale"} <=> known[f] # NoReading
    /\ reader = "none" /\ executor \notin {"marking", "clearing"} =>
          \A f \in Features : availability[f] # "valid"

TellsInv == SessionInv /\ ToldInv

\* At the start nothing is known.
LEMMA TellsInit == Init => TellsInv
BY DEF Init, TellsInv, SessionInv, ToldInv, Calling

\* What is recorded is a reading of a connection, and valid.
LEMMA RecordTells ==
    ASSUME TypeInv, TellsInv, NEW f, NEW r \in Readings, r.conn # 0,
           Record(f, r), reader' # "none"
    PROVE  ToldInv'
<1>1. r # NoReading
  BY DEF NoReading, Reading
<1>2. /\ \A g \in Features : known'[g] = IF g = f THEN r ELSE known[g]
      /\ \A g \in Features :
            availability'[g] = IF g = f THEN "valid" ELSE availability[g]
  BY DEF Record, TypeInv, TypeOK, Availabilities
<1> QED  BY <1>1, <1>2 DEF TellsInv, ToldInv

\* connect() and disconnect() say of nothing that it is valid, once the reader
\* is gone.
LEMMA ConnectTells ==
    ASSUME TypeInv, DeviceInv, OriginInv, TellsInv,
           \/ \E d \in Devices, name \in Names : Connect(d, name)
           \/ Disconnect \/ Stop \/ Join \/ MarkStale \/ Resolve \/ Reset
           \/ Clear \/ Open \/ OpenFails \/ Start
    PROVE  TellsInv'
<1> USE DEF TellsInv, SessionInv, ToldInv, Calling
<1>1. ASSUME NEW d \in Devices, NEW name \in Names, Connect(d, name)
      PROVE  TellsInv'
  BY <1>1 DEF Connect
<1>2. CASE Disconnect
  BY <1>2 DEF Disconnect
<1>3. CASE Stop
  BY <1>3 DEF Stop
<1>4. CASE Join
  BY <1>4 DEF Join, SessionEnds
<1>5. CASE MarkStale
  BY <1>5 DEF MarkStale
<1>6. CASE Resolve
  BY <1>6 DEF Resolve
<1>7. CASE Reset
  <2>1. CASE made
    BY <1>7, <2>1 DEF Reset, SessionEnds
  <2>2. CASE ~made
    BY <1>7, <2>2 DEF Reset
  <2> QED  BY <2>1, <2>2
<1>8. CASE Clear
  BY <1>8 DEF Clear
<1>9. CASE Open
  <2>1. conn' # 0
    BY <1>9 DEF Open, TypeInv, TypeOK
  <2> QED  BY <1>9, <2>1 DEF Open
<1>10. CASE OpenFails
  BY <1>10 DEF OpenFails
<1>11. CASE Start
  <2>1. ~made /\ reader = "none" /\ ~running /\ conn # 0
    BY <1>11 DEF Start, DeviceInv, OpeningInv, OriginInv, EndedInv
  <2>2. UNCHANGED <<known, availability, conn>> /\ made' = TRUE
    BY <1>11 DEF Start
  <2>3. \/ executor' = "idle" /\ reader' = "none" /\ ~running'
        \/ executor' = "choosing" /\ reader' = "receiving"
    BY <1>11, <2>1 DEF Start
  <2> QED  BY <1>11, <2>1, <2>2, <2>3 DEF Start
<1> QED  BY <1>1, <1>2, <1>3, <1>4, <1>5, <1>6, <1>7, <1>8, <1>9, <1>10, <1>11

\* The executor records what it has read or set, or that what it knows is old.
LEMMA RequestTells ==
    ASSUME TypeInv, DeviceInv, OriginInv, TellsInv,
           \/ Choose \/ Ask \/ AskRefused \/ AskFails \/ Answered
           \/ AnswerFails \/ Store \/ Fail \/ SettingsStep \/ BatteryStep
           \/ \E f \in Settable : SetFails(f) \/ \E v \in Values[f] : Set(f, v)
           \/ Acked \/ AckFails
    PROVE  TellsInv'
<1> USE DEF TellsInv, SessionInv, Calling
<1>1. CASE Store
  <2>1. value \in Readings /\ value.conn = conn /\ conn # 0 /\ reader' # "none"
    BY <1>1 DEF Store, OriginInv, OnItsWay, TypeInv, TypeOK
  <2>2. ToldInv'
    BY <1>1, <2>1, RecordTells DEF Store
  <2> QED  BY <1>1, <2>2 DEF Store
<1>2. CASE Fail
  <2>1. \A f \in Features : \/ availability'[f] = availability[f]
                            \/ availability'[f] =
                                  IF known[f] = NoReading THEN "unknown" ELSE "stale"
    BY <1>2 DEF Fail, TypeInv, TypeOK, Availabilities
  <2>2. UNCHANGED <<known, reader, made, conn, running>>
    BY <1>2 DEF Fail
  <2>3. executor = "failed" /\ executor' = "choosing" /\ reader' # "none"
    BY <1>2 DEF Fail
  <2>4. ASSUME NEW f \in Features
        PROVE  availability'[f] \in {"valid", "stale"} <=> known'[f] # NoReading
    <3>1. availability[f] \in {"valid", "stale"} <=> known[f] # NoReading
      BY DEF ToldInv
    <3> QED  BY <2>1, <2>2, <3>1
  <2>5. ToldInv'
    BY <2>3, <2>4 DEF ToldInv
  <2> QED  BY <2>2, <2>3, <2>5
<1>3. ASSUME \/ Choose \/ Ask \/ AskRefused \/ AskFails \/ Answered
             \/ AnswerFails \/ Acked \/ AckFails
      PROVE  TellsInv'
  <2>1. /\ executor \in Calling /\ UNCHANGED <<known, availability, reader, made, conn>>
        /\ running' => running
        /\ executor' \in Calling \cup {"idle"}
    BY <1>3 DEF Choose, Ask, AskRefused, AskFails, Answered, AnswerFails, Acked, AckFails
  <2> QED  BY <2>1 DEF ToldInv
<1>4. ASSUME \/ SettingsStep \/ BatteryStep
             \/ \E f \in Settable : SetFails(f) \/ \E v \in Values[f] : Set(f, v)
      PROVE  TellsInv'
  <2>1. /\ UNCHANGED <<known, availability, reader, made, conn>>
        /\ running /\ (executor' = "idle" \/ executor' \in Calling)
    BY <1>4 DEF SettingsStep, BatteryStep, SetFails, Set, MaySet, IsConnected
  <2>2. made
    BY <2>1 DEF OriginInv, EndedInv
  <2> QED  BY <2>1, <2>2 DEF ToldInv
<1> QED  BY <1>1, <1>2, <1>3, <1>4

\* The reader records what it hears.
LEMMA OtherTells ==
    ASSUME TypeInv, DeviceInv, OriginInv, TellsInv,
           \/ ReaderStep \/ Drop \/ UNCHANGED vars
           \/ \E f \in Features : \E v \in Values[f] : Change(f, v)
    PROVE  TellsInv'
<1> USE DEF TellsInv, SessionInv
<1>1. CASE Notify /\ heard.feature \in Heard[peer]
  <2> DEFINE r == Reading(heard.value, heard.conn)
  <2>1. heard \in Frames /\ heard.conn = conn
    BY <1>1 DEF Notify, OriginInv, OnItsWay, Here
  <2>2. made /\ conn # 0
    BY <1>1 DEF Notify, OriginInv, EndedInv
  <2>3. heard.value \in AllValues \cup {None} /\ heard.conn \in 0 .. MaxConnects
    BY <2>1 DEF Frames
  <2>4. r \in Readings /\ r.conn # 0
    BY <2>1, <2>2, <2>3, ReadingType DEF Reading
  <2>5. Record(heard.feature, r) /\ reader' = "receiving"
    BY <1>1 DEF Notify
  <2> HIDE DEF r
  <2>6. ToldInv'
    BY <2>4, <2>5, RecordTells
  <2> QED  BY <1>1, <2>2, <2>5, <2>6 DEF Notify
<1>2. CASE ReaderStep /\ ~(Notify /\ heard.feature \in Heard[peer])
  <2>1. /\ UNCHANGED <<known, availability, made, conn, executor>>
        /\ (running' => running) /\ reader # "none" /\ reader' # "none"
    BY <1>2 DEF ReaderStep, TakeAck, TakeFrame, Notify, ReaderEnds
  <2> QED  BY <2>1 DEF ToldInv
<1>3. ASSUME \/ Drop \/ UNCHANGED vars
             \/ \E f \in Features : \E v \in Values[f] : Change(f, v)
      PROVE  TellsInv'
  <2>1. UNCHANGED <<known, availability, made, conn, executor, reader, running>>
    BY <1>3 DEF Drop, vars, Change
  <2> QED  BY <2>1 DEF ToldInv
<1> QED  BY <1>1, <1>2, <1>3

\* Availability tells what there is: whatever is said to be valid or stale has
\* a value, and nothing is said to be valid of headphones that were left
\* (_markSuccess, _markError, _markStaleAll, connect).
THEOREM AvailabilityStaysTold == Spec => []AvailabilityTold
<1> DEFINE Inv == TypeInv /\ DeviceInv /\ OriginInv /\ TellsInv
<1>1. Init => Inv
  BY TypeInit, DeviceInit, OriginInit, TellsInit
<1>2. Inv /\ [Next]_vars => Inv'
  BY TypeStep, DeviceStep, ConnectOrigin, RequestOrigin, OtherOrigin,
     ConnectTells, RequestTells, OtherTells DEF Next, ExecutorStep
<1>3. Inv => AvailabilityTold
  BY DEF TellsInv, ToldInv, AvailabilityTold
<1> QED  BY <1>1, <1>2, <1>3, PTL DEF Spec
=============================================================================
