--------------------------- MODULE DeviceService ---------------------------
(***************************************************************************)
(* DeviceService (libs/sony-core/src/DeviceService.cpp): one selected      *)
(* device, connected on request or automatically, and retried with         *)
(* backoff.  Every operation holds _mutex from its first line to its last, *)
(* so each is one step.  Time points are modelled by the time left until   *)
(* them, in a unit of which the code's intervals are multiples.            *)
(***************************************************************************)
EXTENDS Integers

CONSTANTS
    Addresses,      \* Bluetooth addresses of paired devices
    NoAddress,      \* no device is selected
    MaxRetry,       \* longest pause between two attempts (30 s)
    SettingsFirst,  \* from connecting to the first settings inquiry (5 s)
    SettingsEvery,  \* between two settings inquiries (500 ms)
    BatteryEvery,   \* between two battery inquiries (30 s)
    MaxFailures     \* bound: failures counted

ASSUME ServiceAssumption ==
    /\ NoAddress \notin Addresses
    /\ MaxRetry \in Nat \ {0}
    /\ SettingsFirst \in Nat /\ SettingsEvery \in Nat /\ BatteryEvery \in Nat
    /\ MaxFailures \in Nat

VARIABLES
    \* the service's members; made: _device is not null
    made, automatic, wasConnected, retrySeconds, target, selected,
    connectionState, lastError,
    \* time left until _nextAttempt, _nextSettings, _nextBattery
    attemptIn, settingsIn, batteryIn,
    \* the device's session over the transport: closed, live, or dead (lost,
    \* and not closed yet)
    link,
    \* the world: what discovery finds, and the devices that accept a
    \* connection
    discovery, reachable,
    \* history: the failed rounds of tick() since an attempt succeeded or
    \* connecting was asked for, and the time since the last attempt, up to
    \* MaxRetry
    failures, rest

choiceVars  == <<automatic, target>>
stateVars   == <<made, wasConnected, selected, connectionState, lastError, link>>
upkeepVars  == <<settingsIn, batteryIn>>
timerVars   == <<attemptIn, retrySeconds, upkeepVars>>
worldVars   == <<discovery, reachable>>
countVars   == <<failures, rest>>
serviceVars == <<choiceVars, stateVars, timerVars>>
vars        == <<serviceVars, worldVars, countVars>>

AtMost(m, n) == IF n <= m THEN n ELSE m

\* _device && _device->isConnected()
IsConnected == made /\ link = "live"

\* connectionState(): a lost link shows before tick() has noticed it.
Reported == IF connectionState = "connected" /\ ~IsConnected
            THEN "retrying" ELSE connectionState

Init ==
    /\ made = FALSE /\ automatic = FALSE /\ wasConnected = FALSE
    /\ retrySeconds = 1
    /\ target = NoAddress /\ selected = NoAddress
    /\ connectionState = "disconnected" /\ lastError = "none"
    /\ attemptIn = 0 /\ settingsIn = 0 /\ batteryIn = 0
    /\ link = "closed"
    /\ discovery = "all" /\ reachable = Addresses
    /\ failures = 0 /\ rest = MaxRetry

-----------------------------------------------------------------------------
(* The service's operations.                                               *)

\* _connect() succeeds: the old link is closed, the new one is up.
Connected(a) ==
    /\ made' = TRUE /\ selected' = a /\ link' = "live"
    /\ wasConnected' = TRUE
    /\ connectionState' = "connected" /\ lastError' = "none"
    /\ retrySeconds' = 1
    /\ settingsIn' = SettingsFirst /\ batteryIn' = BatteryEvery
    /\ failures' = 0 /\ rest' = 0

\* Mutant: connect() leaves the failed device's link open.
ConnectFailsOpen(a) ==
    /\ made' = TRUE /\ selected' = a
    /\ link' = IF link = "closed" THEN "closed" ELSE "dead"
    /\ wasConnected' = FALSE
    /\ connectionState' = "retrying" /\ lastError' = "failed"
    /\ retrySeconds' = 1 /\ attemptIn' = 1 /\ UNCHANGED upkeepVars
    /\ failures' = 0 /\ rest' = 0

\* ... and it throws, and connect() with it: whatever was open is closed, and
\* tick() is to try again.
ConnectFails(a) ==
    /\ made' = TRUE /\ selected' = a /\ link' = "closed"
    /\ wasConnected' = FALSE
    /\ connectionState' = "retrying" /\ lastError' = "failed"
    /\ retrySeconds' = 1 /\ attemptIn' = 1 /\ UNCHANGED upkeepVars
    /\ failures' = 0 /\ rest' = 0

Connect(a) ==
    /\ target' = a /\ automatic' = TRUE
    /\ IF a \in reachable THEN Connected(a) /\ UNCHANGED attemptIn
                         ELSE ConnectFails(a)
    /\ UNCHANGED worldVars

\* Mutant: the service stays automatic.
DisconnectAutomatic ==
    /\ UNCHANGED automatic
    /\ wasConnected' = FALSE
    /\ connectionState' = "manually_disconnected"
    /\ link' = "closed"
    /\ UNCHANGED <<made, selected, lastError, target, timerVars, worldVars,
                   countVars>>

Disconnect ==
    /\ automatic' = FALSE /\ wasConnected' = FALSE
    /\ connectionState' = "manually_disconnected"
    /\ link' = "closed"
    /\ UNCHANGED <<made, selected, lastError, target, timerVars, worldVars,
                   countVars>>

StartAutoConnect(t) ==
    /\ target' = t /\ automatic' = TRUE
    /\ retrySeconds' = 1 /\ attemptIn' = 0
    /\ connectionState' = "searching"
    /\ failures' = 0
    /\ UNCHANGED <<made, wasConnected, selected, lastError, link, upkeepVars,
                   worldVars, rest>>

-----------------------------------------------------------------------------
(* tick().  It returns at once on a service that is not automatic, and     *)
(* before _nextAttempt.                                                    *)

\* The device is connected: each inquiry that is due is made, and the next
\* one scheduled.
TickMaintains ==
    /\ IsConnected
    /\ settingsIn' = IF settingsIn = 0 THEN SettingsEvery ELSE settingsIn
    /\ batteryIn' = IF batteryIn = 0 THEN BatteryEvery ELSE batteryIn
    /\ UNCHANGED <<choiceVars, stateVars, attemptIn, retrySeconds, worldVars,
                   countVars>>

\* Mutant: the selection is ignored.
CandidatesAll == IF discovery = "all" THEN Addresses ELSE {}

\* The selected device, found or not, or else whatever is found.
Candidates == IF target # NoAddress THEN {target}
              ELSE IF discovery = "all" THEN Addresses ELSE {}

\* Mutant: only a lost link is retried.
DueLost == wasConnected

\* A link that was lost is closed and retried at once, any other attempt
\* waits for its time.
Due == wasConnected \/ attemptIn = 0

RoundStarts == automatic /\ ~IsConnected /\ Due

\* A candidate accepts the connection.
TickConnects ==
    /\ RoundStarts
    /\ discovery # "throws"
    /\ \E a \in Candidates \cap reachable : Connected(a)
    /\ attemptIn' = 0
    /\ UNCHANGED <<choiceVars, worldVars>>

\* Mutant: the pause does not grow.
BackoffFlat == attemptIn' = retrySeconds /\ UNCHANGED retrySeconds

\* Mutant: nothing limits the pause.
BackoffUncapped == attemptIn' = retrySeconds /\ retrySeconds' = 2 * retrySeconds

\* The next attempt, and a pause twice as long after that.
Backoff ==
    /\ attemptIn' = retrySeconds
    /\ retrySeconds' = AtMost(MaxRetry, 2 * retrySeconds)

\* tick() closes what it notices to be lost.
LostCloses == link' = IF wasConnected THEN "closed" ELSE link

\* Discovery throws, finds nothing, or no candidate accepts.
TickFails ==
    /\ RoundStarts
    /\ wasConnected' = FALSE
    /\ \/ /\ discovery = "throws"
          /\ lastError' = "failed" /\ LostCloses
          /\ UNCHANGED <<made, selected>>
       \/ /\ discovery # "throws" /\ Candidates = {}
          /\ lastError' = "notFound" /\ LostCloses
          /\ UNCHANGED <<made, selected>>
       \/ /\ discovery # "throws" /\ Candidates # {}
          /\ Candidates \cap reachable = {}
          /\ lastError' = "failed" /\ link' = "closed" /\ made' = TRUE
          /\ selected' \in Candidates
    /\ connectionState' = "retrying"
    /\ Backoff
    /\ failures' = AtMost(MaxFailures, failures + 1) /\ rest' = 0
    /\ UNCHANGED <<choiceVars, upkeepVars, worldVars>>

Tick == TickMaintains \/ TickConnects \/ TickFails

-----------------------------------------------------------------------------
(* The world (external): time, the link, the devices.                      *)

Less(n) == IF n = 0 THEN 0 ELSE n - 1

Elapse ==
    /\ attemptIn' = Less(attemptIn)
    /\ settingsIn' = Less(settingsIn) /\ batteryIn' = Less(batteryIn)
    /\ rest' = AtMost(MaxRetry, rest + 1)
    /\ UNCHANGED <<choiceVars, stateVars, retrySeconds, worldVars, failures>>

\* The link is lost, though the device may be reached again.
LinkLost ==
    /\ link = "live" /\ link' = "dead"
    /\ UNCHANGED <<choiceVars, timerVars, worldVars, countVars, made,
                   wasConnected, selected, connectionState, lastError>>

\* Devices come and go, or serve someone else; so does the adapter.
WorldChanges ==
    /\ discovery' \in {"all", "none", "throws"}
    /\ reachable' \in SUBSET Addresses
    /\ IsConnected => selected \in reachable'
    /\ UNCHANGED <<serviceVars, countVars>>

Next ==
    \/ \E a \in Addresses : Connect(a)
    \/ Disconnect
    \/ \E t \in Addresses \cup {NoAddress} : StartAutoConnect(t)
    \/ Tick
    \/ Elapse \/ LinkLost \/ WorldChanges

Spec == Init /\ [][Next]_vars

\* Whoever owns the service calls tick() again and again.
FairSpec == Spec /\ WF_vars(Tick) /\ WF_vars(Elapse)

-----------------------------------------------------------------------------
States == {"disconnected", "connected", "retrying", "searching",
           "manually_disconnected"}

\* The type of every variable.
TypeOK ==
    /\ made \in BOOLEAN /\ automatic \in BOOLEAN /\ wasConnected \in BOOLEAN
    /\ retrySeconds \in 1 .. MaxRetry
    /\ target \in Addresses \cup {NoAddress}
    /\ selected \in Addresses \cup {NoAddress}
    /\ connectionState \in States
    /\ lastError \in {"none", "failed", "notFound"}
    /\ attemptIn \in 0 .. MaxRetry
    /\ settingsIn \in Nat /\ batteryIn \in Nat
    /\ link \in {"closed", "live", "dead"}
    /\ discovery \in {"all", "none", "throws"}
    /\ reachable \subseteq Addresses
    /\ failures \in 0 .. MaxFailures /\ rest \in 0 .. MaxRetry

\* The transport is open only on behalf of a service that knows of it and
\* would close or renew it: never after disconnect(), nor after a failed
\* attempt, and a link that was lost is still _wasConnected, for tick() to
\* close it on a _device that exists.
LinkTracked ==
    /\ link # "closed" => wasConnected
    /\ wasConnected => automatic /\ made

\* What connectionState() and its companions tell a client is so: a device
\* that is said to be connected is the one asked for, without an error, and
\* one is said to be disconnected only when nobody will connect it.
StateTold ==
    /\ Reported = "connected" =>
          /\ IsConnected /\ lastError = "none"
          /\ selected = target \/ target = NoAddress
    /\ IsConnected => Reported \in {"connected", "searching"}
    /\ Reported \in {"disconnected", "manually_disconnected"} <=> ~automatic

\* The pause that failure n of a series must be followed by.
Pause[n \in Nat] == IF n = 0 THEN 0 ELSE IF n = 1 THEN 1
                    ELSE AtMost(MaxRetry, 2 * Pause[n - 1])

\* tick() backs off: the round after n failures in a row comes no sooner
\* than 1, 2, 4, ... after the last, whatever else was called in between.
BacksOff == [][TickConnects \/ TickFails => rest >= Pause[failures]]_vars

\* What may be connected to, and is not about to change.
Connectable == /\ automatic
               /\ discovery = "all"
               /\ IF target = NoAddress THEN reachable # {}
                                        ELSE target \in reachable

\* A device that can be connected to is, in the end, and again after every
\* loss of the link.
Reconnects == <>[]Connectable => []<>IsConnected
=============================================================================
