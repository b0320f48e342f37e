------------------------ MODULE DeviceServiceProofs ------------------------
(* Proofs about DeviceService, for every value of its constants.           *)
EXTENDS DeviceService, WellFoundedInduction, TLAPS

\* StateTold, of the members themselves: connectionState() only masks
\* "connected" while the link is lost.
StateInv ==
    /\ connectionState = "connected" =>
          lastError = "none" /\ (selected = target \/ target = NoAddress)
    /\ link = "live" => connectionState \in {"connected", "searching"}
    /\ connectionState \in {"disconnected", "manually_disconnected"}
          <=> ~automatic

ServiceInv == LinkTracked /\ StateInv

USE DEF choiceVars, stateVars, upkeepVars, timerVars, worldVars, countVars,
        serviceVars

-----------------------------------------------------------------------------
\* Doubling a pause keeps it within its bounds.
LEMMA BackoffType ==
    ASSUME NEW n \in 1 .. MaxRetry
    PROVE  AtMost(MaxRetry, 2 * n) \in 1 .. MaxRetry
BY ServiceAssumption DEF AtMost

\* Countdowns and capped counters stay within theirs.
LEMMA CountType ==
    ASSUME NEW m \in Nat, NEW n \in 0 .. m
    PROVE  Less(n) \in 0 .. m /\ AtMost(m, n + 1) \in 0 .. m
BY DEF Less, AtMost

\* A countdown without a bound.
LEMMA LessType == ASSUME NEW n \in Nat PROVE Less(n) \in Nat
BY DEF Less

\* What success and failure of an attempt leave behind.
LEMMA ConnectType ==
    ASSUME TypeOK, NEW a \in Addresses, Connected(a) \/ ConnectFails(a)
    PROVE  /\ made' \in BOOLEAN /\ wasConnected' \in BOOLEAN
           /\ selected' \in Addresses /\ connectionState' \in States
           /\ lastError' \in {"none", "failed", "notFound"}
           /\ link' \in {"closed", "live", "dead"}
           /\ retrySeconds' \in 1 .. MaxRetry
           /\ settingsIn' \in Nat /\ batteryIn' \in Nat
           /\ failures' \in 0 .. MaxFailures /\ rest' \in 0 .. MaxRetry
<1>1. /\ made' \in BOOLEAN /\ wasConnected' \in BOOLEAN
      /\ selected' \in Addresses
  BY DEF Connected, ConnectFails
<1>2. /\ connectionState' \in States
      /\ lastError' \in {"none", "failed", "notFound"}
      /\ link' \in {"closed", "live", "dead"}
  BY DEF Connected, ConnectFails, States
<1>3. /\ retrySeconds' \in 1 .. MaxRetry
      /\ failures' \in 0 .. MaxFailures /\ rest' \in 0 .. MaxRetry
  BY ServiceAssumption DEF Connected, ConnectFails
<1>4. settingsIn' \in Nat /\ batteryIn' \in Nat
  BY ServiceAssumption DEF TypeOK, Connected, ConnectFails
<1> QED  BY <1>1, <1>2, <1>3, <1>4

\* Every step keeps the types.
LEMMA TypeStep == TypeOK /\ [Next]_vars => TypeOK'
<1> SUFFICES ASSUME TypeOK, [Next]_vars PROVE TypeOK'
  OBVIOUS
<1> USE ServiceAssumption
<1>1. ASSUME NEW a \in Addresses, Connect(a) PROVE TypeOK'
  <2>1. Connected(a) \/ ConnectFails(a)
    BY <1>1 DEF Connect
  <2>2. attemptIn' \in 0 .. MaxRetry
    BY <1>1 DEF Connect, ConnectFails, TypeOK
  <2> QED  BY <1>1, <2>1, <2>2, ConnectType DEF Connect, TypeOK
<1>2. CASE Disconnect
  BY <1>2 DEF Disconnect, TypeOK, States
<1>3. ASSUME NEW t \in Addresses \cup {NoAddress}, StartAutoConnect(t)
      PROVE  TypeOK'
  BY <1>3 DEF StartAutoConnect, TypeOK, States
<1>4. CASE TickMaintains
  BY <1>4 DEF TickMaintains, TypeOK
<1>5. CASE TickConnects
  <2>1. PICK a \in Candidates \cap reachable : Connected(a)
    BY <1>5 DEF TickConnects
  <2>2. a \in Addresses
    BY DEF TypeOK
  <2>3. attemptIn' \in 0 .. MaxRetry
    BY <1>5 DEF TickConnects, RoundStarts
  <2> QED  BY <1>5, <2>1, <2>2, <2>3, ConnectType DEF TickConnects, TypeOK
<1>6. CASE TickFails
  <2>1. selected' \in Addresses \cup {NoAddress} /\ made' \in BOOLEAN
    BY <1>6 DEF TickFails, TypeOK, Candidates
  <2>2. attemptIn' \in 0 .. MaxRetry /\ retrySeconds' \in 1 .. MaxRetry
    BY <1>6, BackoffType DEF TickFails, Backoff, TypeOK
  <2>3. failures' \in 0 .. MaxFailures /\ rest' \in 0 .. MaxRetry
    <3>1. /\ failures \in 0 .. MaxFailures /\ MaxFailures \in Nat
          /\ failures' = AtMost(MaxFailures, failures + 1)
      BY <1>6 DEF TickFails, TypeOK
    <3>2. failures' \in 0 .. MaxFailures
      BY <3>1, CountType
    <3>3. rest' \in 0 .. MaxRetry
      BY <1>6 DEF TickFails
    <3> QED  BY <3>2, <3>3
  <2>4. /\ lastError' \in {"none", "failed", "notFound"}
        /\ connectionState' \in States /\ wasConnected' \in BOOLEAN
    BY <1>6 DEF TickFails, RoundStarts, States
  <2>5. link' \in {"closed", "live", "dead"}
    BY <1>6 DEF TickFails, LostCloses, TypeOK
  <2> QED  BY <1>6, <2>1, <2>2, <2>3, <2>4, <2>5 DEF TickFails, TypeOK
<1>7. CASE Elapse
  <2>1. attemptIn' \in 0 .. MaxRetry /\ rest' \in 0 .. MaxRetry
    BY <1>7, CountType DEF Elapse, TypeOK
  <2>2. settingsIn' \in Nat /\ batteryIn' \in Nat
    BY <1>7, LessType DEF Elapse, TypeOK
  <2> QED  BY <1>7, <2>1, <2>2 DEF Elapse, TypeOK
<1>8. CASE LinkLost
  BY <1>8 DEF LinkLost, TypeOK
<1>9. CASE WorldChanges
  BY <1>9 DEF WorldChanges, TypeOK
<1>10. CASE UNCHANGED vars
  BY <1>10 DEF vars, TypeOK
<1> QED  BY <1>1, <1>2, <1>3, <1>4, <1>5, <1>6, <1>7, <1>8, <1>9, <1>10
         DEF Next, Tick

\* The initial state.
LEMMA ServiceInit == Init => TypeOK /\ ServiceInv
<1> SUFFICES ASSUME Init PROVE TypeOK /\ ServiceInv
  OBVIOUS
<1>1. /\ retrySeconds \in 1 .. MaxRetry /\ attemptIn \in 0 .. MaxRetry
      /\ failures \in 0 .. MaxFailures /\ rest \in 0 .. MaxRetry
  BY ServiceAssumption DEF Init
<1>2. /\ settingsIn \in Nat /\ batteryIn \in Nat /\ reachable \subseteq Addresses
      /\ made \in BOOLEAN /\ automatic \in BOOLEAN /\ wasConnected \in BOOLEAN
  BY DEF Init
<1>3. TypeOK
  BY <1>1, <1>2 DEF Init, TypeOK, States
<1>4. ServiceInv
  BY DEF Init, ServiceInv, LinkTracked, StateInv
<1> QED  BY <1>3, <1>4

\* Every step keeps the link tracked and the state told.
LEMMA ServiceStep == ServiceInv /\ [Next]_vars => ServiceInv'
<1> SUFFICES ASSUME ServiceInv, [Next]_vars PROVE ServiceInv'
  OBVIOUS
<1> USE DEF ServiceInv, LinkTracked, StateInv
<1>1. ASSUME NEW a \in Addresses, Connect(a) PROVE ServiceInv'
  BY <1>1 DEF Connect, Connected, ConnectFails
<1>2. CASE Disconnect
  BY <1>2 DEF Disconnect
<1>3. ASSUME NEW t \in Addresses \cup {NoAddress}, StartAutoConnect(t)
      PROVE  ServiceInv'
  BY <1>3 DEF StartAutoConnect
<1>4. CASE TickMaintains
  BY <1>4 DEF TickMaintains
<1>5. CASE TickConnects
  <2>1. PICK a \in Candidates : Connected(a)
    BY <1>5 DEF TickConnects
  <2>2. automatic' = TRUE /\ target' = target
    BY <1>5 DEF TickConnects, RoundStarts
  <2>3. a = target \/ target = NoAddress
    BY DEF Candidates
  <2> QED  BY <2>1, <2>2, <2>3 DEF Connected
<1>6. CASE TickFails
  <2>1. automatic' = TRUE /\ connectionState' = "retrying"
    BY <1>6 DEF TickFails, RoundStarts
  <2>2. link' = "closed" /\ wasConnected' = FALSE
    BY <1>6 DEF TickFails, LostCloses
  <2> QED  BY <2>1, <2>2
<1>7. CASE Elapse
  BY <1>7 DEF Elapse
<1>8. CASE LinkLost
  BY <1>8 DEF LinkLost
<1>9. CASE WorldChanges
  BY <1>9 DEF WorldChanges
<1>10. CASE UNCHANGED vars
  BY <1>10 DEF vars
<1> QED  BY <1>1, <1>2, <1>3, <1>4, <1>5, <1>6, <1>7, <1>8, <1>9, <1>10
         DEF Next, Tick

-----------------------------------------------------------------------------
(* The pauses are what their recursive definition says.                    *)

\* Induction, over a set rather than a predicate: a set that lacks a number
\* lacks a least one.
LEMMA SetInduction ==
    ASSUME NEW S, 0 \in S, \A n \in Nat : n \in S => n + 1 \in S
    PROVE  \A n \in Nat : n \in S
<1> DEFINE Smaller == OpToRel(<, Nat)
           T == Nat \ S
<1>1. \A x, y \in Nat : <<x, y>> \in Smaller <=> x < y
  BY Zenon DEF OpToRel
<1>2. SUFFICES ASSUME T # {} PROVE FALSE
  OBVIOUS
<1>3. T \subseteq Nat
  OBVIOUS
<1>4. PICK x \in T : \A y \in T : ~ (<<y, x>> \in Smaller)
  <2> HIDE DEF Smaller, T
  <2> QED BY <1>2, <1>3, NatLessThanWellFounded, WFMin, Zenon DEF Smaller
<1> HIDE DEF Smaller
<1>5. x \in Nat /\ x # 0
  OBVIOUS
<1>6. x - 1 \in Nat /\ x - 1 < x /\ x - 1 + 1 = x
  BY <1>5
<1>7. x - 1 \in S
  BY <1>1, <1>4, <1>5, <1>6
<1> QED BY <1>6, <1>7

\* What follows a pause, before the n-th failure's.
After(n, pause) == IF n = 1 THEN 1 ELSE AtMost(MaxRetry, 2 * pause)

\* The first n pauses, as a function.
PausesUpTo(n) ==
    {g \in [0 .. n -> 0 .. MaxRetry] :
        g[0] = 0 /\ \A i \in 0 .. n - 1 : g[i + 1] = After(i + 1, g[i])}

\* There are pauses, however many failures there are.
LEMMA PausesExist == \A n \in Nat : PausesUpTo(n) # {}
<1> DEFINE Exist == {n \in Nat : PausesUpTo(n) # {}}
<1>1. 0 \in Exist
  <2>1. [i \in 0 .. 0 |-> 0] \in PausesUpTo(0)
    BY ServiceAssumption DEF PausesUpTo
  <2> QED BY <2>1
<1>2. ASSUME NEW n \in Nat, n \in Exist PROVE n + 1 \in Exist
  <2>1. PICK g : g \in PausesUpTo(n)
    BY <1>2
  <2> DEFINE h == [i \in 0 .. n + 1 |-> IF i <= n THEN g[i] ELSE After(n + 1, g[n])]
  <2>2. /\ g \in [0 .. n -> 0 .. MaxRetry] /\ g[0] = 0
        /\ \A i \in 0 .. n - 1 : g[i + 1] = After(i + 1, g[i])
    BY <2>1 DEF PausesUpTo
  <2>3. After(n + 1, g[n]) \in 0 .. MaxRetry
    BY <2>2, ServiceAssumption DEF After, AtMost
  <2> HIDE DEF After
  <2>4. h \in [0 .. n + 1 -> 0 .. MaxRetry] /\ h[0] = 0
    BY <2>2, <2>3
  <2>5. ASSUME NEW i \in 0 .. n PROVE h[i + 1] = After(i + 1, h[i])
    <3>1. h[i] = g[i] /\ i + 1 \in 0 .. n + 1
      OBVIOUS
    <3>2. CASE i = n
      <4>1. ~(i + 1 <= n)
        BY <3>2
      <4> QED BY <3>1, <3>2, <4>1
    <3>3. CASE i # n
      <4>1. i \in 0 .. n - 1 /\ i + 1 <= n
        BY <3>3
      <4>2. h[i + 1] = g[i + 1]
        BY <3>1, <4>1
      <4> QED BY <2>2, <3>1, <4>1, <4>2
    <3> QED BY <3>2, <3>3
  <2> HIDE DEF h
  <2>6. h \in PausesUpTo(n + 1)
    BY <2>4, <2>5 DEF PausesUpTo
  <2> QED BY <2>6
<1> HIDE DEF Exist
<1>3. \A n \in Nat : n \in Exist
  BY <1>1, <1>2, SetInduction
<1> QED BY <1>3 DEF Exist

\* ... and the same whatever comes after.
LEMMA PausesAgree ==
    ASSUME NEW i \in Nat, NEW m \in Nat, NEW n \in Nat, i <= m, i <= n,
           NEW g \in PausesUpTo(m), NEW h \in PausesUpTo(n)
    PROVE  g[i] = h[i]
<1> DEFINE Agree == {k \in Nat : k <= m /\ k <= n => g[k] = h[k]}
<1>1. 0 \in Agree
  BY DEF PausesUpTo
<1>2. ASSUME NEW k \in Nat, k \in Agree PROVE k + 1 \in Agree
  <2> SUFFICES ASSUME k + 1 <= m, k + 1 <= n PROVE g[k + 1] = h[k + 1]
    OBVIOUS
  <2>1. k <= m /\ k <= n /\ k \in 0 .. m - 1 /\ k \in 0 .. n - 1
    OBVIOUS
  <2>2. g[k] = h[k]
    BY <1>2, <2>1
  <2> QED BY <2>1, <2>2 DEF PausesUpTo
<1> HIDE DEF Agree
<1>3. \A k \in Nat : k \in Agree
  BY <1>1, <1>2, SetInduction
<1> QED BY <1>3 DEF Agree

\* The recursive definition of Pause defines something.
LEMMA PauseValue ==
    /\ Pause \in [Nat -> 0 .. MaxRetry] /\ Pause[0] = 0
    /\ \A n \in Nat : Pause[n + 1] = After(n + 1, Pause[n])
<1> DEFINE part == [n \in Nat |-> CHOOSE g : g \in PausesUpTo(n)]
           f == [n \in Nat |-> part[n][n]]
           Defines(g) == g = [n \in Nat |-> IF n = 0 THEN 0 ELSE IF n = 1 THEN 1
                                            ELSE AtMost(MaxRetry, 2 * g[n - 1])]
<1>1. ASSUME NEW n \in Nat PROVE part[n] \in PausesUpTo(n)
  BY PausesExist
<1> HIDE DEF part
<1>2. ASSUME NEW n \in Nat PROVE f[n] \in 0 .. MaxRetry
  BY <1>1 DEF PausesUpTo
<1>3. f[0] = 0
  BY <1>1 DEF PausesUpTo
<1>4. ASSUME NEW n \in Nat PROVE f[n + 1] = After(n + 1, f[n])
  <2>1. /\ part[n] \in PausesUpTo(n) /\ part[n + 1] \in PausesUpTo(n + 1)
        /\ n <= n + 1 /\ n + 1 \in Nat
    BY <1>1
  <2>2. part[n + 1][n] = part[n][n]
    BY <2>1, PausesAgree
  <2>3. part[n + 1][n + 1] = After(n + 1, part[n + 1][n])
    <3>1. ASSUME NEW h \in PausesUpTo(n + 1) PROVE h[n + 1] = After(n + 1, h[n])
      <4>1. n \in 0 .. n + 1 - 1
        OBVIOUS
      <4> QED BY <4>1 DEF PausesUpTo
    <3> QED BY <2>1, <3>1
  <2> QED BY <2>2, <2>3
<1>5. Defines(f)
  <2>1. ASSUME NEW n \in Nat
        PROVE  f[n] = IF n = 0 THEN 0 ELSE IF n = 1 THEN 1
                      ELSE AtMost(MaxRetry, 2 * f[n - 1])
    <3>1. CASE n = 0
      BY <1>3, <3>1
    <3>2. CASE n # 0
      <4>1. n - 1 \in Nat /\ n - 1 + 1 = n
        BY <3>2
      <4>2. f[n] = After(n, f[n - 1])
        BY <1>4, <4>1
      <4> HIDE DEF f
      <4> QED BY <3>2, <4>2 DEF After
    <3> QED BY <3>1, <3>2
  <2> QED BY <2>1
<1> HIDE DEF f
<1>6. Defines(Pause)
  <2>1. Pause = CHOOSE g : Defines(g)
    BY DEF Pause
  <2> HIDE DEF Defines
  <2> QED BY <1>5, <2>1
<1>7. \A n \in Nat : Pause[n] = f[n]
  <2> DEFINE Same == {n \in Nat : Pause[n] = f[n]}
  <2>1. 0 \in Same
    BY <1>3, <1>6
  <2>2. ASSUME NEW n \in Nat, n \in Same PROVE n + 1 \in Same
    <3>1. Pause[n + 1] = After(n + 1, Pause[n])
      BY <1>6 DEF After
    <3> QED BY <1>4, <2>2, <3>1
  <2> HIDE DEF Same
  <2>3. \A n \in Nat : n \in Same
    BY <2>1, <2>2, SetInduction
  <2> QED BY <2>3 DEF Same
<1>8. Pause = [n \in Nat |-> Pause[n]]
  BY <1>6
<1> QED BY <1>2, <1>3, <1>4, <1>7, <1>8

\* The pauses do not shrink.
LEMMA PauseGrows ==
    ASSUME NEW n \in Nat
    PROVE  /\ Pause[n] \in 0 .. MaxRetry /\ Pause[n + 1] \in 0 .. MaxRetry
           /\ Pause[n] <= Pause[n + 1]
<1>1. /\ Pause[n] \in 0 .. MaxRetry /\ Pause[n + 1] \in 0 .. MaxRetry
      /\ Pause[n + 1] = After(n + 1, Pause[n])
  BY PauseValue
<1>2. CASE n = 0
  BY <1>1, <1>2, PauseValue
<1>3. CASE n # 0
  BY <1>1, <1>3, ServiceAssumption DEF After, AtMost
<1> QED BY <1>1, <1>2, <1>3

-----------------------------------------------------------------------------
(* tick() backs off.                                                       *)

\* The time since the last attempt and the time left make up the pause that
\* is due, the next pause is at least the one after it, and a link that was
\* lost had been made, which starts the count again.
PauseInv ==
    /\ rest + attemptIn >= Pause[failures]
    /\ retrySeconds >= Pause[failures + 1]
    /\ wasConnected => failures = 0

\* The first pauses, which are due when the count starts.
LEMMA FirstPauses == Pause[0] = 0 /\ Pause[1] = 1
<1>1. 0 \in Nat /\ 0 + 1 = 1
  OBVIOUS
<1>2. Pause[0] = 0 /\ Pause[1] = After(1, Pause[0])
  BY <1>1, PauseValue
<1> QED BY <1>2 DEF After

\* A pause that grows keeps up with the failures.
LEMMA BackoffKeepsUp ==
    ASSUME NEW n \in 0 .. MaxFailures, NEW r \in 1 .. MaxRetry, r >= Pause[n + 1]
    PROVE  /\ r >= Pause[AtMost(MaxFailures, n + 1)]
           /\ AtMost(MaxRetry, 2 * r) >= Pause[AtMost(MaxFailures, n + 1) + 1]
<1> USE ServiceAssumption
<1>1. /\ n \in Nat /\ n + 1 \in Nat /\ n + 1 + 1 # 1
      /\ Pause[n] <= Pause[n + 1]
      /\ Pause[n] \in 0 .. MaxRetry /\ Pause[n + 1] \in 0 .. MaxRetry
      /\ Pause[n + 1 + 1] = After(n + 1 + 1, Pause[n + 1])
  BY PauseGrows, PauseValue
<1>2. AtMost(MaxRetry, 2 * r) >= Pause[n + 1 + 1]
  BY <1>1 DEF After, AtMost
<1>3. AtMost(MaxRetry, 2 * r) >= Pause[n + 1]
  BY <1>1 DEF AtMost
<1>4. AtMost(MaxFailures, n + 1) \in {n, n + 1}
  BY DEF AtMost
<1> QED BY <1>1, <1>2, <1>3, <1>4

LEMMA PauseInit == Init => PauseInv
BY FirstPauses, ServiceAssumption DEF Init, PauseInv

LEMMA PauseStep == TypeOK /\ PauseInv /\ [Next]_vars => PauseInv'
<1> SUFFICES ASSUME TypeOK, PauseInv, [Next]_vars PROVE PauseInv'
  OBVIOUS
<1> USE ServiceAssumption
<1>0. /\ rest \in 0 .. MaxRetry /\ attemptIn \in 0 .. MaxRetry
      /\ retrySeconds \in 1 .. MaxRetry /\ failures \in 0 .. MaxFailures
  BY DEF TypeOK
<1>1. ASSUME failures' = 0, retrySeconds' = 1, rest' \in Nat, attemptIn' \in Nat
      PROVE  PauseInv'
  <2>1. Pause[failures'] = 0 /\ Pause[failures' + 1] = 1
    BY <1>1, FirstPauses
  <2>2. rest' + attemptIn' >= 0
    <3>1. ASSUME NEW x \in Nat, NEW y \in Nat PROVE x + y >= 0
      OBVIOUS
    <3> QED BY <1>1, <3>1
  <2>3. rest' + attemptIn' >= Pause[failures'] /\ 1 >= Pause[failures' + 1]
    BY <2>1, <2>2
  <2> QED BY <1>1, <2>3, Zenon DEF PauseInv
<1>2. CASE UNCHANGED <<rest, attemptIn, failures, retrySeconds>>
           /\ (wasConnected' => wasConnected)
  BY <1>2 DEF PauseInv
<1>3. ASSUME NEW a \in Addresses, Connect(a) PROVE PauseInv'
  <2>1. failures' = 0 /\ retrySeconds' = 1 /\ rest' = 0
    BY <1>3 DEF Connect, Connected, ConnectFails
  <2>2. attemptIn' \in Nat
    BY <1>0, <1>3 DEF Connect, ConnectFails
  <2> QED BY <1>1, <2>1, <2>2
<1>4. CASE Disconnect
  BY <1>2, <1>4 DEF Disconnect
<1>5. ASSUME NEW t \in Addresses \cup {NoAddress}, StartAutoConnect(t)
      PROVE  PauseInv'
  BY <1>0, <1>1, <1>5 DEF StartAutoConnect
<1>6. CASE TickMaintains \/ LinkLost \/ WorldChanges \/ UNCHANGED vars
  BY <1>2, <1>6 DEF TickMaintains, LinkLost, WorldChanges, vars
<1>7. CASE TickConnects
  BY <1>1, <1>7 DEF TickConnects, Connected
<1>8. CASE TickFails
  <2>1. /\ attemptIn' = retrySeconds
        /\ retrySeconds' = AtMost(MaxRetry, 2 * retrySeconds)
        /\ failures' = AtMost(MaxFailures, failures + 1) /\ rest' = 0
        /\ wasConnected' = FALSE
    BY <1>8 DEF TickFails, Backoff
  <2>2. retrySeconds >= Pause[failures + 1]
    BY DEF PauseInv
  <2> QED BY <1>0, <2>1, <2>2, BackoffKeepsUp DEF PauseInv
<1>9. CASE Elapse
  <2>1. /\ attemptIn' = Less(attemptIn) /\ rest' = AtMost(MaxRetry, rest + 1)
        /\ UNCHANGED <<failures, retrySeconds, wasConnected>>
    BY <1>9 DEF Elapse
  <2>2. Pause[failures] \in 0 .. MaxRetry
    BY <1>0, PauseGrows
  <2>3. rest' + attemptIn' >= Pause[failures]
    BY <1>0, <2>1, <2>2 DEF PauseInv, Less, AtMost
  <2> QED BY <2>1, <2>3 DEF PauseInv
<1> QED  BY <1>3, <1>4, <1>5, <1>6, <1>7, <1>8, <1>9 DEF Next, Tick

-----------------------------------------------------------------------------
\* Type correctness; in particular a pause is never zero nor beyond MaxRetry.
THEOREM TypeCorrect == Spec => []TypeOK
BY ServiceInit, TypeStep, PTL DEF Spec

\* The transport is open only on behalf of a service that knows of it.
THEOREM LinkStaysTracked == Spec => []LinkTracked
<1>1. ServiceInv => LinkTracked
  BY DEF ServiceInv
<1> QED  BY <1>1, ServiceInit, ServiceStep, PTL DEF Spec

\* What connectionState() and its companions tell a client is so.
THEOREM StateStaysTold == Spec => []StateTold
<1>1. TypeOK /\ ServiceInv => StateTold
  <2> SUFFICES ASSUME TypeOK, ServiceInv PROVE StateTold
    OBVIOUS
  <2>1. IsConnected <=> link = "live"
    BY DEF IsConnected, ServiceInv, LinkTracked, TypeOK
  <2>2. /\ connectionState # "connected" => Reported = connectionState
        /\ connectionState = "connected" /\ link = "live" =>
              Reported = "connected"
        /\ connectionState = "connected" /\ link # "live" =>
              Reported = "retrying"
    BY <2>1 DEF Reported
  <2> QED  BY <2>1, <2>2 DEF StateTold, ServiceInv, StateInv
<1> QED  BY <1>1, ServiceInit, ServiceStep, TypeStep, PTL DEF Spec

\* tick() backs off: the round after n failures in a row comes no sooner than
\* 1, 2, 4, ... after the last, whatever else was called in between.
THEOREM BacksOffAlways == Spec => BacksOff
<1>1. TypeOK /\ PauseInv /\ [Next]_vars
      => [TickConnects \/ TickFails => rest >= Pause[failures]]_vars
  <2> SUFFICES ASSUME TypeOK, PauseInv, TickConnects \/ TickFails
               PROVE  rest >= Pause[failures]
    OBVIOUS
  <2>1. wasConnected \/ attemptIn = 0
    BY DEF TickConnects, TickFails, RoundStarts, Due
  <2>2. /\ rest \in 0 .. MaxRetry /\ rest + attemptIn >= Pause[failures]
        /\ wasConnected => failures = 0
    BY DEF TypeOK, PauseInv
  <2> QED BY <2>1, <2>2, FirstPauses
<1> QED
  BY <1>1, ServiceInit, TypeStep, PauseInit, PauseStep, PTL DEF Spec, BacksOff
=============================================================================
