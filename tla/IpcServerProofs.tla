-------------------------- MODULE IpcServerProofs --------------------------
(* Proofs about IpcServer: what it does to the service is what a            *)
(* DeviceService does, so that the theorems about that hold of it; no       *)
(* request is forgotten; no command loses its link to the server.           *)
EXTENDS IpcServer, TLAPS

Proved == INSTANCE DeviceServiceProofs

-----------------------------------------------------------------------------
(* The server's service is a DeviceService.                                 *)

\* Every step of the server takes the service one step of its own, or none.
LEMMA ServiceStep == [Next]_vars => [Service!Next]_(Service!vars)
<1> SUFFICES ASSUME [Next]_vars
             PROVE  Service!Next \/ UNCHANGED Service!vars
  OBVIOUS
<1> USE DEF Service!vars, Service!serviceVars, Service!choiceVars,
            Service!stateVars, Service!timerVars, Service!upkeepVars,
            Service!worldVars, Service!countVars
<1>1. UNCHANGED deviceVars => UNCHANGED Service!vars
  BY DEF deviceVars
<1>2. CASE ServerStep
  BY <1>1, <1>2
  DEF ServerStep, Accept, TakeAnswer, FinishSending, CloseLate, HangUp,
      ReadRequest, ServerEnds
<1>3. CASE ExecutorStep
  <2>1. CASE ConnectOnDemand \/ Execute
    BY <1>1, <2>1 DEF ConnectOnDemand, Execute, Service!Next
  <2>2. CASE Upkeep
    BY <1>1, <2>2 DEF Upkeep, TickReturns, Service!Next
  <2>3. CASE TakeJob \/ TimesOut \/ ExecutorEnds \/ Skip \/ Begin \/ Record \/ Decide
    BY <1>1, <2>3
    DEF TakeJob, TimesOut, ExecutorEnds, Skip, Begin, Record, Decide
  <2> QED BY <1>3, <2>1, <2>2, <2>3 DEF ExecutorStep
<1>4. CASE OwnerStep
  BY <1>1, <1>4 DEF OwnerStep, Stop, Stopped, Destroy, Service!Next
<1>5. CASE Elapse \/ LinkLost \/ WorldChanges
  BY <1>5 DEF Elapse, LinkLost, WorldChanges, Service!Next
<1>6. CASE UNCHANGED vars
  BY <1>1, <1>6 DEF vars
<1> QED BY <1>2, <1>3, <1>4, <1>5, <1>6 DEF Next

\* Whatever clients, executor and main() do, what they make of the service is a
\* behaviour of DeviceService: the server adds no state and no step to it.
THEOREM ServerImplementsService == Spec => Service!Spec
<1>1. Init => Service!Init
  BY DEF Init
<1> QED BY <1>1, ServiceStep, PTL DEF Spec, Service!Spec
-----------------------------------------------------------------------------
\* What is proved of DeviceService holds of the server's service: the module of
\* those proofs speaks of the same variables.
LEMMA SameService ==
  /\ Service!Init = Proved!Init /\ Service!vars = Proved!vars
  /\ Service!Next => Proved!Next
  /\ Service!TypeOK = Proved!TypeOK /\ Service!LinkTracked = Proved!LinkTracked
  /\ Service!StateTold = Proved!StateTold
<1> USE DEF Service!choiceVars, Proved!choiceVars, Service!stateVars,
            Proved!stateVars, Service!timerVars,
            Proved!timerVars, Service!upkeepVars,
            Proved!upkeepVars, Service!worldVars,
            Proved!worldVars, Service!countVars,
            Proved!countVars, Service!serviceVars,
            Proved!serviceVars, Service!States,
            Proved!States, Service!Candidates,
            Proved!Candidates, Service!IsConnected,
            Proved!IsConnected, Service!AtMost,
            Proved!AtMost, Service!Less, Proved!Less,
            Service!Due, Proved!Due, Service!LostCloses,
            Proved!LostCloses, Service!RoundStarts,
            Proved!RoundStarts, Service!Backoff,
            Proved!Backoff, Service!Connected,
            Proved!Connected, Service!ConnectFails,
            Proved!ConnectFails
<1>1. /\ Service!TypeOK = Proved!TypeOK /\ Service!LinkTracked = Proved!LinkTracked
      /\ Service!StateTold = Proved!StateTold
  BY DEF Service!TypeOK, Proved!TypeOK, Service!LinkTracked, Proved!LinkTracked,
         Service!StateTold, Proved!StateTold, Service!Reported, Proved!Reported
<1>2. Service!Init = Proved!Init
  BY DEF Service!Init, Proved!Init
<1>3. Service!vars = Proved!vars
  BY DEF Service!vars, Proved!vars
<1>4. Service!Next => Proved!Next
  <2>1. ASSUME NEW a \in Addresses, Service!Connect(a) PROVE Proved!Connect(a)
    BY <2>1 DEF Service!Connect, Proved!Connect
  <2>2. Service!Disconnect => Proved!Disconnect
    BY DEF Service!Disconnect, Proved!Disconnect
  <2>3. ASSUME NEW t, Service!StartAutoConnect(t) PROVE Proved!StartAutoConnect(t)
    BY <2>3 DEF Service!StartAutoConnect, Proved!StartAutoConnect
  <2>4. Service!TickMaintains => Proved!TickMaintains
    BY DEF Service!TickMaintains, Proved!TickMaintains
  <2>5. Service!TickConnects => Proved!TickConnects
    BY DEF Service!TickConnects, Proved!TickConnects
  <2>6. Service!TickFails => Proved!TickFails
    BY DEF Service!TickFails, Proved!TickFails
  <2>7. Service!Elapse => Proved!Elapse
    BY DEF Service!Elapse, Proved!Elapse
  <2>8. Service!LinkLost => Proved!LinkLost
    BY DEF Service!LinkLost, Proved!LinkLost
  <2>9. Service!WorldChanges => Proved!WorldChanges
    BY DEF Service!WorldChanges, Proved!WorldChanges
  <2> QED BY <2>1, <2>2, <2>3, <2>4, <2>5, <2>6, <2>7, <2>8, <2>9
      DEF Service!Next, Proved!Next, Service!Tick, Proved!Tick
<1> QED BY <1>1, <1>2, <1>3, <1>4

\* A behaviour of one instance is one of the other.
LEMMA SameSpec == Service!Spec => Proved!Spec
<1>1. Service!Init => Proved!Init
  BY SameService
<1>2. [Service!Next]_(Service!vars) => [Proved!Next]_(Proved!vars)
  BY SameService
  DEF Service!vars, Proved!vars, Service!serviceVars, Proved!serviceVars,
      Service!choiceVars, Proved!choiceVars, Service!stateVars,
      Proved!stateVars, Service!timerVars, Proved!timerVars,
      Service!upkeepVars, Proved!upkeepVars, Service!worldVars,
      Proved!worldVars, Service!countVars, Proved!countVars
<1> QED BY <1>1, <1>2, PTL DEF Service!Spec, Proved!Spec

\* The service behind the server has the right types, its link is tracked, and what
\* it tells clients is so, whatever they ask and however the threads' steps fall.
THEOREM ServiceStaysSound ==
  Spec => [](Service!TypeOK /\ Service!LinkTracked /\ Service!StateTold)
<1>1. Proved!Spec => [](Proved!TypeOK /\ Proved!LinkTracked /\ Proved!StateTold)
  BY ServerAssumption, Proved!TypeCorrect, Proved!LinkStaysTracked,
     Proved!StateStaysTold, PTL
<1>2. Proved!TypeOK /\ Proved!LinkTracked /\ Proved!StateTold
      => Service!TypeOK /\ Service!LinkTracked /\ Service!StateTold
  BY SameService
<1> QED BY <1>1, <1>2, SameSpec, ServerImplementsService, PTL

\* Behind the server too tick() backs off, whatever clients ask in between and
\* whichever idle link is released.
THEOREM ServiceBacksOff == Spec => Service!BacksOff
<1>1. Service!Pause = Proved!Pause
  BY Zenon DEF Service!Pause, Proved!Pause, Service!AtMost, Proved!AtMost
<1>2. Service!TickConnects \/ Service!TickFails
      <=> Proved!TickConnects \/ Proved!TickFails
  BY DEF Service!TickConnects, Proved!TickConnects, Service!TickFails, Proved!TickFails,
         Service!choiceVars, Proved!choiceVars, Service!upkeepVars, Proved!upkeepVars,
         Service!worldVars, Proved!worldVars, Service!Candidates, Proved!Candidates,
         Service!IsConnected, Proved!IsConnected, Service!AtMost, Proved!AtMost,
         Service!Due, Proved!Due, Service!LostCloses, Proved!LostCloses,
         Service!RoundStarts, Proved!RoundStarts, Service!Backoff, Proved!Backoff,
         Service!Connected, Proved!Connected
<1>3. rest >= Proved!Pause[failures] <=> rest >= Service!Pause[failures]
  BY <1>1
<1>4. [Proved!TickConnects \/ Proved!TickFails
          => rest >= Proved!Pause[failures]]_(Proved!vars)
      => [Service!TickConnects \/ Service!TickFails
          => rest >= Service!Pause[failures]]_(Service!vars)
  BY <1>2, <1>3
  DEF Service!vars, Proved!vars, Service!serviceVars, Proved!serviceVars,
      Service!choiceVars, Proved!choiceVars, Service!stateVars,
      Proved!stateVars, Service!timerVars, Proved!timerVars,
      Service!upkeepVars, Proved!upkeepVars, Service!worldVars,
      Proved!worldVars, Service!countVars, Proved!countVars
<1>5. Proved!Spec => Proved!BacksOff
  BY ServerAssumption, Proved!BacksOffAlways
<1> QED
  BY <1>4, <1>5, ServerImplementsService, SameSpec, PTL
  DEF Service!BacksOff, Proved!BacksOff

-----------------------------------------------------------------------------
(* Types.                                                                   *)

ClientTypes ==
    /\ phase \in [Conns -> {"closed", "reading", "asked", "answering"}]
    /\ left \in [Conns -> Nat]
JobTypes ==
    /\ request \in [Conns -> Requests \cup {"none"}]
    /\ cancelled \subseteq Conns /\ answered \subseteq Conns
    /\ queue \in Seq(Conns) /\ Len(queue) <= MaxJobs
    /\ job \in Conns \cup {NoConn}
    /\ executor \in {"taken", "connecting", "executing", "answered"} => job \in Conns
ThreadTypes ==
    /\ executor \in {"waiting", "taken", "connecting", "executing", "answered",
                     "deciding", "upkeep", "off"}
    /\ quiet \in 0 .. IdleTime + 1 /\ since \in 0 .. IdleTime + 1
    /\ running \in BOOLEAN /\ server \in {"on", "off"}
    /\ owner \in {"serving", "joining", "stopped", "gone"}
    /\ excused \in BOOLEAN
ServerTypes == ClientTypes /\ JobTypes /\ ThreadTypes

\* A job that is queued joins the others; the one that is taken leaves them.
LEMMA QueueEnds ==
  ASSUME NEW s \in Seq(Conns)
  PROVE  /\ \A c \in Conns : /\ Append(s, c) \in Seq(Conns)
                            /\ Len(Append(s, c)) = Len(s) + 1
                            /\ Range(Append(s, c)) = Range(s) \cup {c}
         /\ s # <<>> => /\ Tail(s) \in Seq(Conns) /\ Head(s) \in Conns
                        /\ Len(Tail(s)) = Len(s) - 1
                        /\ Range(s) = Range(Tail(s)) \cup {Head(s)}
         /\ Range(<<>>) = {} /\ Range(s) \subseteq Conns
<1>1. ASSUME NEW c \in Conns
      PROVE  Range(Append(s, c)) = Range(s) \cup {c}
  <2>1. DOMAIN Append(s, c) = 1 .. Len(s) + 1 /\ DOMAIN s = 1 .. Len(s)
    OBVIOUS
  <2>2. \A i \in 1 .. Len(s) : Append(s, c)[i] = s[i]
    OBVIOUS
  <2>3. Append(s, c)[Len(s) + 1] = c /\ Len(s) \in Nat
    OBVIOUS
  <2>4. 1 .. Len(s) + 1 = 1 .. Len(s) \cup {Len(s) + 1}
    BY <2>3
  <2> QED BY <2>1, <2>2, <2>3, <2>4, ZenonT(60) DEF Range
<1>2. ASSUME s # <<>>
      PROVE  Range(s) = Range(Tail(s)) \cup {Head(s)}
  <2>1. DOMAIN Tail(s) = 1 .. Len(s) - 1 /\ DOMAIN s = 1 .. Len(s) /\ Len(s) >= 1
    BY <1>2
  <2>2. \A i \in 1 .. Len(s) - 1 : Tail(s)[i] = s[i + 1]
    BY <1>2
  <2>3. Head(s) = s[1] /\ Len(s) \in Nat
    BY <1>2
  <2>4. \A i \in 1 .. Len(s) : i = 1 \/ (i - 1 \in 1 .. Len(s) - 1 /\ (i - 1) + 1 = i)
    BY <2>3
  <2>5. \A i \in 1 .. Len(s) - 1 : i + 1 \in 1 .. Len(s)
    BY <2>3
  <2>6. ASSUME NEW x \in Range(s) PROVE x \in Range(Tail(s)) \cup {Head(s)}
    <3>1. PICK i \in 1 .. Len(s) : x = s[i]
      BY <2>1 DEF Range
    <3>2. CASE i = 1
      BY <2>3, <3>1, <3>2
    <3>3. CASE i - 1 \in DOMAIN Tail(s) /\ (i - 1) + 1 = i
      <4>1. x = Tail(s)[i - 1]
        BY <2>1, <2>2, <3>1, <3>3
      <4> QED BY <3>3, <4>1 DEF Range
    <3> QED BY <2>1, <2>4, <3>2, <3>3
  <2>7. \A x \in Range(Tail(s)) \cup {Head(s)} : x \in Range(s)
    BY <2>1, <2>2, <2>3, <2>5 DEF Range
  <2> QED BY <2>6, <2>7
<1>3. Range(<<>>) = {} /\ Range(s) \subseteq Conns
  BY DEF Range
<1> QED BY <1>1, <1>2, <1>3

LEMMA ServerTypesInit == Init => ServerTypes
<1> SUFFICES ASSUME Init PROVE ServerTypes
  OBVIOUS
<1> USE DEF Init
<1>1. ClientTypes
  BY DEF ClientTypes
<1>2. JobTypes
  <2>1. queue \in Seq(Conns) /\ Len(queue) <= MaxJobs
    BY ServerAssumption
  <2>2. request \in [Conns -> Requests \cup {"none"}]
    OBVIOUS
  <2> QED BY <2>1, <2>2 DEF JobTypes
<1>3. ThreadTypes
  <2>1. quiet \in 0 .. IdleTime + 1 /\ since \in 0 .. IdleTime + 1
    BY ServerAssumption
  <2> QED BY <2>1, Zenon DEF ThreadTypes
<1> QED BY <1>1, <1>2, <1>3 DEF ServerTypes

LEMMA ClientTypesStep == ServerTypes /\ [Next]_vars => ClientTypes'
<1> SUFFICES ASSUME ServerTypes, [Next]_vars PROVE ClientTypes'
  OBVIOUS
<1> USE DEF ServerTypes, ClientTypes
<1>1. UNCHANGED clientVars => ClientTypes'
  BY DEF clientVars
<1>2. ASSUME NEW C, Closed(C) PROVE ClientTypes'
  BY <1>2 DEF Closed
<1>3. ASSUME NEW c \in Conns,
             \/ Accept(c) \/ TakeAnswer(c) \/ FinishSending(c) \/ CloseLate(c)
             \/ HangUp(c) \/ \E r \in Requests : ReadRequest(c, r)
      PROVE  ClientTypes'
  BY <1>2, <1>3, ServerAssumption
  DEF Accept, TakeAnswer, FinishSending, CloseLate, HangUp, ReadRequest
<1>4. CASE ServerEnds
  BY <1>2, <1>4 DEF ServerEnds
<1>5. CASE Elapse
  BY <1>5 DEF Elapse, Service!Less
<1>6. CASE ExecutorStep \/ OwnerStep \/ LinkLost \/ WorldChanges \/ UNCHANGED vars
  BY <1>1, <1>6
  DEF ExecutorStep, TakeJob, TimesOut, ExecutorEnds, Skip, Begin, ConnectOnDemand,
      Execute, Record, Decide, Upkeep, Dropped, OwnerStep, Stop, Stopped, Destroy,
      LinkLost, WorldChanges, vars, serverVars
<1> QED BY <1>3, <1>4, <1>5, <1>6 DEF Next, ServerStep

LEMMA JobTypesStep == ServerTypes /\ [Next]_vars => JobTypes'
<1> SUFFICES ASSUME ServerTypes, [Next]_vars PROVE JobTypes'
  OBVIOUS
<1> USE DEF ServerTypes, JobTypes
<1>1. UNCHANGED <<jobVars, job, executor>> => JobTypes'
  BY DEF jobVars
<1>2. ASSUME NEW C \in SUBSET Conns, Closed(C),
             UNCHANGED <<request, queue, job, executor>>
      PROVE  JobTypes'
  <2>1. cancelled' \subseteq Conns /\ answered' \subseteq Conns
    BY <1>2 DEF Closed
  <2> QED BY <1>2, <2>1
<1>3. ASSUME NEW c \in Conns,
             \/ Accept(c) \/ TakeAnswer(c) \/ FinishSending(c) \/ CloseLate(c)
             \/ HangUp(c)
      PROVE  JobTypes'
  BY <1>1, <1>2, <1>3
  DEF Accept, TakeAnswer, FinishSending, CloseLate, HangUp, runVars
<1>4. ASSUME NEW c \in Conns, NEW r \in Requests, ReadRequest(c, r)
      PROVE  JobTypes'
  <2>1. CASE Len(queue) >= MaxJobs
    BY <1>4, <2>1 DEF ReadRequest, Enqueue, runVars
  <2>2. CASE ~(Len(queue) >= MaxJobs)
    <3>1. queue' \in Seq(Conns) /\ Len(queue') <= MaxJobs
      <4>1. queue' = Append(queue, c)
        BY <1>4, <2>2 DEF ReadRequest, Enqueue
      <4>2. queue' \in Seq(Conns) /\ Len(queue') = Len(queue) + 1 /\ Len(queue) \in Nat
        BY <4>1
      <4> QED BY <2>2, <4>2, ServerAssumption
    <3> QED BY <1>4, <2>2, <3>1 DEF ReadRequest, Enqueue, runVars
  <2> QED BY <2>1, <2>2
<1>5. CASE ServerEnds
  BY <1>2, <1>5 DEF ServerEnds, OpenClients, runVars
<1>6. CASE TakeJob
  <2>1. queue' \in Seq(Conns) /\ Len(queue') <= MaxJobs /\ job' \in Conns
    BY <1>6, QueueEnds, ServerAssumption DEF TakeJob
  <2> QED BY <1>6, <2>1 DEF TakeJob
<1>7. CASE Skip \/ Record
  BY <1>7 DEF Skip, Record, Dropped
<1>8. CASE ConnectOnDemand \/ Execute
  <2>1. answered' \subseteq Conns
    BY <1>8 DEF ConnectOnDemand, Execute, Answer
  <2> QED BY <1>8, <2>1 DEF ConnectOnDemand, Execute
<1>9. CASE TimesOut \/ ExecutorEnds \/ Begin \/ Decide \/ Upkeep
  BY <1>9
  DEF TimesOut, ExecutorEnds, Begin, Decide, Upkeep, serverVars, jobVars, runVars
<1>10. CASE Stopped
  <2>1. queue' \in Seq(Conns) /\ Len(queue') <= MaxJobs
    BY <1>10, ServerAssumption DEF Stopped
  <2> QED BY <1>10, <2>1 DEF Stopped, runVars
<1>11. CASE Stop \/ Destroy \/ Elapse \/ LinkLost \/ WorldChanges \/ UNCHANGED vars
  BY <1>1, <1>11
  DEF Stop, Destroy, Elapse, LinkLost, WorldChanges, vars, serverVars, runVars
<1> QED BY <1>3, <1>4, <1>5, <1>6, <1>7, <1>8, <1>9, <1>10, <1>11
        DEF Next, ServerStep, ExecutorStep, OwnerStep

LEMMA ThreadTypesStep == ServerTypes /\ [Next]_vars => ThreadTypes'
<1> SUFFICES ASSUME ServerTypes, [Next]_vars PROVE ThreadTypes'
  OBVIOUS
<1> USE DEF ServerTypes, ThreadTypes
<1>1. UNCHANGED <<executor, runVars, ownerVars>> => ThreadTypes'
  BY DEF runVars, ownerVars
<1>2. CASE ServerStep
  BY <1>1, <1>2, ZenonT(60)
  DEF ServerStep, Accept, TakeAnswer, FinishSending, CloseLate, HangUp,
      ReadRequest, ServerEnds, runVars, ownerVars
<1>3. CASE ConnectOnDemand
  <2>1. excused' \in BOOLEAN
    BY <1>3 DEF ConnectOnDemand
  <2>2. since' \in 0 .. IdleTime + 1
    BY <1>3, ServerAssumption DEF ConnectOnDemand, Answer
  <2> QED BY <1>3, <2>1, <2>2 DEF ConnectOnDemand, ownerVars
<1>4. CASE Execute
  BY <1>4, ServerAssumption DEF Execute, Answer, ownerVars
<1>5. CASE TakeJob \/ Skip \/ Record
  <2>1. quiet' \in 0 .. IdleTime + 1 /\ since' \in 0 .. IdleTime + 1
    BY <1>5, ServerAssumption DEF TakeJob, Skip, Record
  <2>2. excused' \in BOOLEAN
    BY <1>5 DEF TakeJob, Skip, Record
  <2> QED BY <1>5, <2>1, <2>2 DEF TakeJob, Skip, Record, ownerVars
<1>9. CASE TimesOut \/ ExecutorEnds \/ Begin \/ Decide \/ Upkeep
  BY <1>9 DEF TimesOut, ExecutorEnds, Begin, Decide, Upkeep, runVars, ownerVars
<1>6. CASE OwnerStep
  BY <1>6 DEF OwnerStep, Stop, Stopped, Destroy, runVars
<1>7. CASE Elapse
  BY <1>7, ServerAssumption DEF Elapse, Service!AtMost, ownerVars
<1>8. CASE LinkLost \/ WorldChanges \/ UNCHANGED vars
  BY <1>1, <1>8 DEF LinkLost, WorldChanges, vars, runVars, ownerVars
<1> QED BY <1>2, <1>3, <1>4, <1>5, <1>6, <1>7, <1>8, <1>9 DEF Next, ExecutorStep

\* Every variable of service and server keeps its type, for any number of clients
\* and any limits; in particular the queue never exceeds MaxJobs.
THEOREM TypeCorrect == Spec => []TypeOK
<1>1. ServerTypes /\ [Next]_vars => ServerTypes'
  BY ClientTypesStep, JobTypesStep, ThreadTypesStep DEF ServerTypes
<1>2. ServerTypes /\ Service!TypeOK => TypeOK
  BY DEF TypeOK, ServerTypes, ClientTypes, JobTypes, ThreadTypes
<1>3. Spec => []Service!TypeOK
  BY ServiceStaysSound, PTL
<1> QED BY <1>1, <1>2, <1>3, ServerTypesInit, PTL DEF Spec
-----------------------------------------------------------------------------
(* No request is forgotten: what the names of the connections are good for. *)

\* A job has one name in the queue, and that is the name of a request.
Unrepeated(s) == \A i, j \in DOMAIN s : s[i] = s[j] => i = j
QueueOwned == Unrepeated(queue) /\ \A c \in Range(queue) : request[c] # "none"
\* The executor's job is a request that is no longer queued.
Busy == executor \in {"taken", "connecting", "executing", "answered"}
JobOwned == Busy => request[job] # "none" /\ job \notin Range(queue)
\* Whoever is cancelled is gone, but its name is not free yet.
CancelledGone == \A c \in cancelled : phase[c] = "closed" /\ request[c] # "none"
\* Whoever has yet to ask has no job: no earlier client left one behind.
ReadersFresh == \A c \in Conns : phase[c] = "reading" => request[c] = "none"
\* Clients end with the server thread, and main() goes on after both threads.
EndsInOrder ==
    /\ server = "off" => \A c \in Conns : phase[c] = "closed"
    /\ owner \in {"stopped", "gone"} => server = "off" /\ executor = "off"

JobInv == /\ NoRequestForgotten /\ QueueOwned /\ JobOwned
          /\ CancelledGone /\ ReadersFresh /\ EndsInOrder

\* A new job, and the loss of the first one, leave the queue without repetitions.
LEMMA QueueDistinct ==
  ASSUME NEW s \in Seq(Conns), Unrepeated(s)
  PROVE  /\ \A c \in Conns \ Range(s) : Unrepeated(Append(s, c))
         /\ s # <<>> => Unrepeated(Tail(s)) /\ Head(s) \notin Range(Tail(s))
<1>1. ASSUME NEW c \in Conns \ Range(s)
      PROVE  Unrepeated(Append(s, c))
  <2>1. /\ DOMAIN Append(s, c) = 1 .. Len(s) + 1 /\ DOMAIN s = 1 .. Len(s)
        /\ Append(s, c)[Len(s) + 1] = c
        /\ \A i \in 1 .. Len(s) : Append(s, c)[i] = s[i]
    OBVIOUS
  <2>2. \A i \in 1 .. Len(s) : s[i] # c
    BY <2>1 DEF Range
  <2>3. \A i \in 1 .. Len(s) + 1 : i \in 1 .. Len(s) \/ i = Len(s) + 1
    OBVIOUS
  <2> QED BY <2>1, <2>2, <2>3, Zenon DEF Unrepeated
<1>2. ASSUME s # <<>>
      PROVE  Unrepeated(Tail(s)) /\ Head(s) \notin Range(Tail(s))
  <2>1. /\ DOMAIN Tail(s) = 1 .. Len(s) - 1 /\ DOMAIN s = 1 .. Len(s)
        /\ 1 \in 1 .. Len(s) /\ Head(s) = s[1]
        /\ \A i \in 1 .. Len(s) - 1 : Tail(s)[i] = s[i + 1]
    BY <1>2
  <2>2. \A i \in 1 .. Len(s) - 1 : i + 1 \in 1 .. Len(s) /\ i + 1 # 1
    OBVIOUS
  <2>3. \A i \in 1 .. Len(s) - 1 : s[i + 1] # s[1]
    BY <2>1, <2>2 DEF Unrepeated
  <2>4. \A i, j \in 1 .. Len(s) - 1 : s[i + 1] = s[j + 1] => i = j
    <3>1. \A i, j \in 1 .. Len(s) - 1 : s[i + 1] = s[j + 1] => i + 1 = j + 1
      BY <2>1, <2>2, Zenon DEF Unrepeated
    <3> QED BY <3>1
  <2>5. Unrepeated(Tail(s))
    BY <2>1, <2>4, Zenon DEF Unrepeated
  <2> QED BY <2>1, <2>3, <2>5, ZenonT(60) DEF Range
<1> QED BY <1>1, <1>2

LEMMA JobInvInit == Init => JobInv
<1> SUFFICES ASSUME Init PROVE JobInv
  OBVIOUS
<1>1. Range(queue) = {} /\ Unrepeated(queue)
  BY DEF Init, Range, Unrepeated
<1> QED
  BY <1>1
  DEF Init, JobInv, NoRequestForgotten, QueueOwned, JobOwned, Busy,
      CancelledGone, ReadersFresh, EndsInOrder

\* Clients that are closed leave cancelled jobs behind, whose names are not free.
LEMMA ClosedKeeps ==
  ASSUME ServerTypes, JobInv, NEW C \in SUBSET Conns, Closed(C),
         UNCHANGED <<request, queue, executor, job, owner>>,
         server' = server \/ (server' = "off" /\ \A c \in Conns \ C : phase[c] = "closed")
  PROVE  JobInv'
<1> USE DEF Closed
<1>1. \A c \in Conns : /\ phase'[c] = IF c \in C THEN "closed" ELSE phase[c]
  BY DEF ServerTypes, ClientTypes
<1>2. NoRequestForgotten'
  BY <1>1 DEF JobInv, NoRequestForgotten
<1>3. QueueOwned' /\ JobOwned'
  BY DEF JobInv, QueueOwned, JobOwned, Busy
<1>4. CancelledGone'
  <2>1. ASSUME NEW c \in C \ answered, phase[c] = "asked"
        PROVE  request[c] # "none"
    BY <2>1 DEF JobInv, NoRequestForgotten, QueueOwned, JobOwned, Busy
  <2>2. ASSUME NEW c \in cancelled
        PROVE  phase[c] = "closed" /\ request[c] # "none" /\ c \in Conns
    BY <2>2 DEF JobInv, CancelledGone, ServerTypes, JobTypes
  <2> QED BY <1>1, <2>1, <2>2 DEF CancelledGone
<1>5. ReadersFresh'
  BY <1>1 DEF JobInv, ReadersFresh
<1>6. EndsInOrder'
  BY <1>1 DEF JobInv, EndsInOrder
<1> QED BY <1>2, <1>3, <1>4, <1>5, <1>6 DEF JobInv

LEMMA ServerKeeps == ServerTypes /\ JobInv /\ ServerStep => JobInv'
<1> SUFFICES ASSUME ServerTypes, JobInv, ServerStep PROVE JobInv'
  OBVIOUS
<1> USE DEF ServerTypes, ClientTypes, JobTypes
<1>1. ASSUME NEW c \in Conns, Accept(c) PROVE JobInv'
  <2>1. /\ phase[c] = "closed" /\ request[c] = "none" /\ server = "on"
        /\ phase' = [phase EXCEPT ![c] = "reading"]
        /\ UNCHANGED <<request, cancelled, answered, queue, executor, job, server, owner>>
    BY <1>1 DEF Accept, IsFree, jobVars, runVars, ownerVars
  <2>2. NoRequestForgotten' /\ QueueOwned' /\ JobOwned'
    BY <2>1 DEF JobInv, NoRequestForgotten, QueueOwned, JobOwned, Busy
  <2>3. CancelledGone' /\ ReadersFresh' /\ EndsInOrder'
    BY <2>1 DEF JobInv, CancelledGone, ReadersFresh, EndsInOrder
  <2> QED BY <2>2, <2>3 DEF JobInv
<1>2. ASSUME NEW c \in Conns, TakeAnswer(c) PROVE JobInv'
  <2>1. /\ phase[c] = "asked" /\ server = "on"
        /\ phase' = [phase EXCEPT ![c] = "answering"]
        /\ UNCHANGED <<request, cancelled, answered, queue, executor, job, server, owner>>
    BY <1>2 DEF TakeAnswer, jobVars, runVars, ownerVars
  <2>2. NoRequestForgotten' /\ QueueOwned' /\ JobOwned'
    BY <2>1 DEF JobInv, NoRequestForgotten, QueueOwned, JobOwned, Busy
  <2>3. CancelledGone' /\ ReadersFresh' /\ EndsInOrder'
    BY <2>1 DEF JobInv, CancelledGone, ReadersFresh, EndsInOrder
  <2> QED BY <2>2, <2>3 DEF JobInv
<1>3. ASSUME NEW c \in Conns, FinishSending(c) \/ CloseLate(c) \/ HangUp(c)
      PROVE  JobInv'
  BY <1>3, ClosedKeeps DEF FinishSending, CloseLate, HangUp, runVars, ownerVars
<1>4. ASSUME NEW c \in Conns, NEW r \in Requests, ReadRequest(c, r)
      PROVE  JobInv'
  <2>1. /\ phase[c] = "reading" /\ server = "on"
        /\ phase' = [phase EXCEPT ![c] = "asked"]
        /\ UNCHANGED <<cancelled, executor, job, server, owner>>
    BY <1>4 DEF ReadRequest, runVars, ownerVars
  <2>2. request[c] = "none" /\ r # "none"
    BY <2>1 DEF JobInv, ReadersFresh, Requests
  <2>3. c \notin cancelled /\ c \notin Range(queue) /\ (Busy => job # c)
    BY <2>1, <2>2 DEF JobInv, CancelledGone, QueueOwned, JobOwned
  <2>4. CASE answered' = answered \cup {c} /\ UNCHANGED <<queue, request>>
    <3>1. NoRequestForgotten' /\ QueueOwned' /\ JobOwned'
      BY <2>1, <2>4 DEF JobInv, NoRequestForgotten, QueueOwned, JobOwned, Busy
    <3>2. CancelledGone' /\ ReadersFresh' /\ EndsInOrder'
      BY <2>1, <2>3, <2>4 DEF JobInv, CancelledGone, ReadersFresh, EndsInOrder
    <3> QED BY <3>1, <3>2 DEF JobInv
  <2>5. CASE /\ queue' = Append(queue, c) /\ request' = [request EXCEPT ![c] = r]
             /\ UNCHANGED answered
    <3>1. Range(queue') = Range(queue) \cup {c} /\ Unrepeated(queue')
      BY <2>3, <2>5, QueueEnds, QueueDistinct DEF JobInv, QueueOwned
    <3>2. /\ request'[c] = r
          /\ \A d \in Conns : d # c => request'[d] = request[d] /\ phase'[d] = phase[d]
          /\ phase'[c] = "asked"
      BY <2>1, <2>5
    <3>3. NoRequestForgotten'
      BY <2>1, <2>5, <3>1, <3>2 DEF JobInv, NoRequestForgotten
    <3>4. QueueOwned'
      BY <2>2, <3>1, <3>2, QueueEnds DEF JobInv, QueueOwned
    <3>5. JobOwned'
      BY <2>1, <2>2, <2>3, <3>1, <3>2 DEF JobInv, JobOwned, Busy
    <3>6. CancelledGone' /\ ReadersFresh' /\ EndsInOrder'
      BY <2>1, <2>3, <3>2 DEF JobInv, CancelledGone, ReadersFresh, EndsInOrder
    <3> QED BY <3>3, <3>4, <3>5, <3>6 DEF JobInv
  <2> QED BY <1>4, <2>4, <2>5 DEF ReadRequest, Enqueue
<1>5. CASE ServerEnds
  <2>1. \A c \in Conns \ OpenClients : phase[c] = "closed"
    BY DEF OpenClients, IsOpen
  <2> QED BY <1>5, <2>1, ClosedKeeps DEF ServerEnds, OpenClients, runVars
<1> QED BY <1>1, <1>2, <1>3, <1>4, <1>5 DEF ServerStep

LEMMA ExecutorKeeps == ServerTypes /\ JobInv /\ ExecutorStep => JobInv'
<1> SUFFICES ASSUME ServerTypes, JobInv, ExecutorStep PROVE JobInv'
  OBVIOUS
<1> USE DEF ServerTypes, ClientTypes, JobTypes
<1>0. executor # "off" => owner \notin {"stopped", "gone"}
  BY DEF JobInv, EndsInOrder
<1>1. CASE TakeJob
  <2>1. /\ queue # <<>> /\ job' = Head(queue) /\ queue' = Tail(queue)
        /\ executor = "waiting" /\ executor' = "taken"
        /\ UNCHANGED <<phase, request, cancelled, answered, server, owner>>
    BY <1>1 DEF TakeJob, clientVars, ownerVars
  <2>2. /\ Unrepeated(queue') /\ job' \notin Range(queue') /\ job' \in Conns
        /\ Range(queue) = Range(queue') \cup {job'}
    BY <2>1, QueueEnds, QueueDistinct DEF JobInv, QueueOwned
  <2>3. NoRequestForgotten'
    BY <2>1, <2>2 DEF JobInv, NoRequestForgotten
  <2>4. QueueOwned' /\ JobOwned'
    BY <2>1, <2>2 DEF JobInv, QueueOwned, JobOwned
  <2>5. CancelledGone' /\ ReadersFresh' /\ EndsInOrder'
    BY <1>0, <2>1 DEF JobInv, CancelledGone, ReadersFresh, EndsInOrder
  <2> QED BY <2>3, <2>4, <2>5 DEF JobInv
<1>2. CASE Skip \/ Record
  <2>1. /\ executor \in {"taken", "answered"} /\ executor' = "deciding"
        /\ executor = "taken" => job \in cancelled
        /\ request' = [request EXCEPT ![job] = "none"]
        /\ cancelled' = cancelled \ {job}
        /\ UNCHANGED <<phase, answered, queue, server, owner>>
    BY <1>2 DEF Skip, Record, IsWanted, Dropped, clientVars, ownerVars
  <2>2. job \in Conns /\ job \notin Range(queue)
    BY <2>1 DEF JobInv, JobOwned, Busy
  <2>3. NoRequestForgotten'
    BY <2>1 DEF JobInv, NoRequestForgotten, CancelledGone
  <2>4. QueueOwned' /\ JobOwned'
    BY <2>1, <2>2, QueueEnds DEF JobInv, QueueOwned, JobOwned, Busy
  <2>5. CancelledGone' /\ ReadersFresh' /\ EndsInOrder'
    BY <1>0, <2>1 DEF JobInv, CancelledGone, ReadersFresh, EndsInOrder
  <2> QED BY <2>3, <2>4, <2>5 DEF JobInv
<1>3. CASE Begin \/ ConnectOnDemand \/ Execute
  <2>1. /\ executor \in {"taken", "connecting", "executing"}
        /\ executor' \in {"connecting", "executing", "answered"}
        /\ executor' = "answered" \/ UNCHANGED answered
        /\ executor' = "answered" => answered' = answered \cup ({job} \ cancelled)
        /\ UNCHANGED <<phase, request, cancelled, queue, job, server, owner>>
    BY <1>3
    DEF Begin, ConnectOnDemand, Execute, Answer, serverVars, clientVars, jobVars,
        runVars, ownerVars
  <2>2. \A c \in Conns : phase[c] = "asked" => c \notin cancelled
    BY DEF JobInv, CancelledGone
  <2>3. NoRequestForgotten'
    BY <2>1, <2>2 DEF JobInv, NoRequestForgotten
  <2>4. QueueOwned' /\ JobOwned'
    BY <2>1 DEF JobInv, QueueOwned, JobOwned, Busy
  <2>5. CancelledGone' /\ ReadersFresh' /\ EndsInOrder'
    BY <1>0, <2>1 DEF JobInv, CancelledGone, ReadersFresh, EndsInOrder
  <2> QED BY <2>3, <2>4, <2>5 DEF JobInv
<1>4. CASE TimesOut \/ ExecutorEnds \/ Decide \/ Upkeep
  <2>1. /\ executor \in {"waiting", "deciding", "upkeep"}
        /\ executor' \in {"waiting", "deciding", "upkeep", "off"}
        /\ UNCHANGED <<phase, request, cancelled, answered, queue, job, server, owner>>
    BY <1>4
    DEF TimesOut, ExecutorEnds, Decide, Upkeep, serverVars, clientVars, jobVars,
        runVars, ownerVars
  <2>2. NoRequestForgotten' /\ QueueOwned' /\ JobOwned'
    BY <2>1 DEF JobInv, NoRequestForgotten, QueueOwned, JobOwned, Busy
  <2>3. CancelledGone' /\ ReadersFresh' /\ EndsInOrder'
    BY <1>0, <2>1 DEF JobInv, CancelledGone, ReadersFresh, EndsInOrder
  <2> QED BY <2>2, <2>3 DEF JobInv
<1> QED BY <1>1, <1>2, <1>3, <1>4 DEF ExecutorStep

LEMMA JobInvStep == ServerTypes /\ JobInv /\ [Next]_vars => JobInv'
<1> SUFFICES ASSUME ServerTypes, JobInv, [Next]_vars PROVE JobInv'
  OBVIOUS
<1>1. ASSUME UNCHANGED <<phase, request, cancelled, answered, queue, executor, job,
                         server>>,
             owner' = owner \/ owner' \in {"serving", "joining"}
                            \/ owner \in {"stopped", "gone"}
      PROVE  JobInv'
  <2>1. NoRequestForgotten' /\ QueueOwned' /\ JobOwned'
    BY <1>1 DEF JobInv, NoRequestForgotten, QueueOwned, JobOwned, Busy
  <2>2. CancelledGone' /\ ReadersFresh' /\ EndsInOrder'
    BY <1>1 DEF JobInv, CancelledGone, ReadersFresh, EndsInOrder
  <2> QED BY <2>1, <2>2 DEF JobInv
<1>2. CASE Stopped
  <2>1. /\ server = "off" /\ executor = "off" /\ queue' = <<>> /\ cancelled' = {}
        /\ request' = [c \in Conns |-> "none"]
        /\ UNCHANGED <<phase, server, executor>>
    BY <1>2 DEF Stopped, clientVars
  <2>2. \A c \in Conns : phase'[c] = "closed"
    BY <2>1 DEF JobInv, EndsInOrder
  <2>3. Range(queue') = {} /\ Unrepeated(queue')
    BY <2>1 DEF Range, Unrepeated
  <2>4. NoRequestForgotten' /\ QueueOwned' /\ JobOwned'
    BY <2>1, <2>2, <2>3 DEF NoRequestForgotten, QueueOwned, JobOwned, Busy
  <2>5. CancelledGone' /\ ReadersFresh' /\ EndsInOrder'
    BY <2>1, <2>2 DEF CancelledGone, ReadersFresh, EndsInOrder
  <2> QED BY <2>4, <2>5 DEF JobInv
<1>3. CASE Stop \/ Destroy
  BY <1>1, <1>3 DEF Stop, Destroy, serverVars, clientVars, jobVars, runVars
<1>4. CASE Elapse \/ LinkLost \/ WorldChanges \/ UNCHANGED vars
  BY <1>1, <1>4
  DEF Elapse, LinkLost, WorldChanges, vars, serverVars, clientVars, jobVars,
      runVars, ownerVars
<1> QED BY <1>2, <1>3, <1>4, ServerKeeps, ExecutorKeeps DEF Next, OwnerStep

\* What every theorem below rests on.
LEMMA ServerInvariant ==
  Spec => [](ServerTypes /\ JobInv /\ Service!TypeOK /\ Service!LinkTracked)
<1>1. ServerTypes /\ [Next]_vars => ServerTypes'
  BY ClientTypesStep, JobTypesStep, ThreadTypesStep DEF ServerTypes
<1> QED
  BY <1>1, ServerTypesInit, JobInvInit, JobInvStep, ServiceStaysSound, PTL DEF Spec

\* No client waits for nothing: until it is answered its request is queued or in
\* the executor's hands, however clients leave, names are used again, the queue
\* overflows and the threads stop.
THEOREM RequestsRemembered == Spec => []NoRequestForgotten
BY ServerInvariant, PTL DEF JobInv
-----------------------------------------------------------------------------
(* The link and its commands.                                               *)

\* Time without activity is counted from an answer at the earliest: once the executor
\* has recorded an answer, the answer is at least as old as the count.
Counted == executor # "answered" => quiet <= since

\* What the release of an idle link rests on is invariant.
LEMMA CountedStep == ServerTypes /\ Counted /\ [Next]_vars => Counted'
<1> SUFFICES ASSUME ServerTypes, Counted, [Next]_vars PROVE Counted'
  OBVIOUS
<1> USE DEF Counted
<1>1. CASE UNCHANGED <<quiet, since>> /\ (executor # "answered" \/ UNCHANGED executor)
  BY <1>1
<1>2. CASE ServerStep \/ OwnerStep \/ LinkLost \/ WorldChanges \/ UNCHANGED vars
  BY <1>1, <1>2
  DEF ServerStep, Accept, TakeAnswer, FinishSending, CloseLate, HangUp,
      ReadRequest, ServerEnds, OwnerStep, Stop, Stopped, Destroy, LinkLost,
      WorldChanges, vars, runVars
<1>3. CASE ExecutorStep
  <2>1. CASE ConnectOnDemand \/ Execute
    BY <2>1 DEF ConnectOnDemand, Execute, Answer
  <2>2. CASE Record
    BY <2>2, ServerAssumption DEF Record, ServerTypes, ThreadTypes
  <2>3. CASE TakeJob \/ TimesOut \/ ExecutorEnds \/ Skip \/ Begin \/ Decide \/ Upkeep
    BY <1>1, <2>3
    DEF TakeJob, TimesOut, ExecutorEnds, Skip, Begin, Decide, Upkeep, runVars
  <2> QED BY <1>3, <2>1, <2>2, <2>3 DEF ExecutorStep
<1>4. CASE Elapse
  BY <1>4, ServerAssumption DEF Elapse, Service!AtMost, ServerTypes, ThreadTypes
<1> QED BY <1>2, <1>3, <1>4 DEF Next

\* The link is kept for IdleTime after an answer, however long the command took and
\* whatever came between: only the executor's own upkeep could release it.
THEOREM LinkKept == Spec => AnswersKeepLink
<1>1. Init => Counted
  BY DEF Init, Counted
<1>2. Spec => []Counted
  BY <1>1, CountedStep, ServerInvariant, PTL DEF Spec
<1>3. ServerTypes /\ JobInv /\ Service!LinkTracked /\ Counted /\ [Next]_vars
      => [executor = "upkeep" /\ link = "live" /\ link' = "closed"
          => since > IdleTime]_vars
  <2> SUFFICES ASSUME ServerTypes, JobInv, Service!LinkTracked, Counted,
                      [Next]_vars, executor = "upkeep", link = "live", link' = "closed"
               PROVE  since > IdleTime
    OBVIOUS
  <2>1. Service!IsConnected
    BY DEF Service!LinkTracked, Service!IsConnected
  <2>2. CASE Upkeep
    <3>1. CASE IsIdle
      BY <3>1, ServerAssumption DEF IsIdle, Counted, ServerTypes, ThreadTypes
    <3>2. CASE ~IsIdle
      BY <2>1, <2>2, <3>2
      DEF Upkeep, Service!Tick, TickReturns, Service!TickMaintains,
          Service!TickConnects, Service!TickFails, Service!RoundStarts,
          Service!stateVars
    <3> QED BY <3>1, <3>2
  <2>3. CASE ExecutorStep /\ ~Upkeep
    BY <2>3
    DEF ExecutorStep, TakeJob, TimesOut, ExecutorEnds, Skip, Begin,
        ConnectOnDemand, Execute, Record, Decide
  <2>4. CASE ServerStep \/ Stop \/ Stopped \/ UNCHANGED vars
    BY <2>4
    DEF ServerStep, Accept, TakeAnswer, FinishSending, CloseLate, HangUp,
        ReadRequest, ServerEnds, Stop, Stopped, vars, deviceVars
  <2>5. ~Destroy
    BY DEF Destroy, JobInv, EndsInOrder
  <2>6. CASE Elapse \/ LinkLost \/ WorldChanges
    BY <2>6
    DEF Elapse, LinkLost, WorldChanges, Service!Elapse, Service!LinkLost,
        Service!WorldChanges, Service!stateVars, Service!serviceVars
  <2> QED BY <2>2, <2>3, <2>4, <2>5, <2>6 DEF Next, OwnerStep
<1> QED BY <1>2, <1>3, ServerInvariant, PTL DEF Spec, AnswersKeepLink

LEMMA RefusedInit == Init => RefusedForAReason
BY DEF Init, RefusedForAReason

\* Nobody but the executor's job touches the link of a request that is executed.
LEMMA RefusedStep ==
  ServerTypes /\ JobInv /\ RefusedForAReason /\ [Next]_vars => RefusedForAReason'
<1> SUFFICES ASSUME ServerTypes, JobInv, RefusedForAReason, [Next]_vars
             PROVE  RefusedForAReason'
  OBVIOUS
<1> USE DEF RefusedForAReason
<1>1. CASE /\ UNCHANGED <<made, link, executor, job, excused>>
           /\ executor = "executing" => request'[job] = request[job]
  BY <1>1 DEF Service!IsConnected
<1>2. CASE ServerStep
  <2>1. ASSUME NEW c \in Conns, NEW r \in Requests, ReadRequest(c, r),
               executor = "executing"
        PROVE  request'[job] = request[job]
    <3>1. request[c] = "none" /\ request[job] # "none"
      BY <2>1 DEF ReadRequest, JobInv, ReadersFresh, JobOwned, Busy
    <3> QED BY <2>1, <3>1 DEF ReadRequest, Enqueue, ServerTypes, JobTypes
  <2> QED
    BY <1>1, <1>2, <2>1, ZenonT(60)
    DEF ServerStep, Accept, TakeAnswer, FinishSending, CloseLate, HangUp,
        ReadRequest, ServerEnds, deviceVars, jobVars, runVars
<1>3. CASE Begin
  BY <1>3
  DEF Begin, NeedsLink, deviceVars, serverVars, jobVars, runVars,
      Service!IsConnected
<1>4. CASE ConnectOnDemand
  BY <1>4 DEF ConnectOnDemand
<1>5. CASE TakeJob \/ TimesOut \/ ExecutorEnds \/ Skip \/ Execute \/ Record
           \/ Decide \/ Upkeep
  BY <1>5
  DEF TakeJob, TimesOut, ExecutorEnds, Skip, Execute, Record, Decide, Upkeep
<1>6. CASE Stop \/ WorldChanges \/ UNCHANGED vars
  BY <1>1, <1>6
  DEF Stop, WorldChanges, Service!WorldChanges, Service!serviceVars,
      Service!stateVars, vars, deviceVars, serverVars, jobVars, runVars
<1>7. CASE Stopped \/ Destroy
  BY <1>7
  DEF Stopped, Destroy, JobInv, EndsInOrder, serverVars, jobVars, runVars
<1>8. CASE Elapse
  BY <1>1, <1>8
  DEF Elapse, Service!Elapse, Service!stateVars, jobVars
<1>9. CASE LinkLost
  BY <1>9 DEF LinkLost
<1> QED BY <1>2, <1>3, <1>4, <1>5, <1>6, <1>7, <1>8, <1>9
        DEF Next, ExecutorStep, OwnerStep

\* A command that is told that no device is connected owes it to the device or to
\* the adapter: the executor never releases a link under a command.
THEOREM RefusalsExplained == Spec => []RefusedForAReason
BY RefusedInit, RefusedStep, ServerInvariant, PTL DEF Spec
=============================================================================
