--------------------------- MODULE CommandsProofs ---------------------------
(* Proofs about Commands: what is sent of a setting is read back, a command *)
(* that says "No device connected" has asked for the device, the pairing is *)
(* wiped only with consent, what is known is true, and what is said to be   *)
(* done has been.                                                           *)
EXTENDS Commands, TLAPS

\* A setting the host can choose survives the wire, in the layouts of both
\* generations: what setNoiseControl() sends, getNoiseControl() reads as the same
\* setting (ProtocolV1.cpp:120-172, ProtocolV2.cpp:102-143).
Choosable(nc) ==
    \/ nc \in [mode : {"off", "cancelling"}, level : {0}, voice : BOOLEAN]
    \/ nc \in [mode : {"ambient"}, level : 1..20, voice : BOOLEAN]

THEOREM NoiseSurvives ==
  ASSUME NEW version \in {"V1", "V2"}, NEW nc, Choosable(nc)
  PROVE  DecodeNoise(version, EncodeNoise(version, nc)) = nc
<1>1. nc = [mode |-> nc.mode, level |-> nc.level, voice |-> nc.voice]
  BY DEF Choosable
<1>2. /\ nc.mode \in {"off", "cancelling", "ambient"} /\ nc.voice \in BOOLEAN
      /\ nc.mode # "ambient" => nc.level = 0
      /\ nc.mode = "ambient" => nc.level \in 1..20
  BY DEF Choosable
<1>3. (Bit(nc.voice) = 1 <=> nc.voice) /\ (Bit(nc.voice) # 0 <=> nc.voice)
  BY <1>2 DEF Bit
<1>4. CASE version = "V1"
  <2> DEFINE w == EncodeNoiseV1(nc)
  <2>1. w.effect # 0 <=> nc.mode # "off"
    BY DEF EncodeNoiseV1
  <2>2. w.kind = 0 <=> nc.mode # "cancelling"
    BY DEF EncodeNoiseV1
  <2>3. Mode(w.effect # 0, w.kind = 0) = nc.mode
    BY <1>2, <2>1, <2>2, Zenon DEF Mode
  <2>4. nc.mode = "ambient" => w.level = nc.level
    BY <1>2 DEF EncodeNoiseV1, Clamp
  <2>5. (w.voice = 1) = nc.voice
    <3>1. w.voice = Bit(nc.voice)
      BY DEF EncodeNoiseV1
    <3> QED BY <1>2, <1>3, <3>1, Zenon
  <2>6. DecodeNoiseV1(w) = [mode |-> nc.mode, level |-> nc.level, voice |-> nc.voice]
    <3> HIDE DEF w
    <3> QED BY <1>2, <2>3, <2>4, <2>5, Zenon DEF DecodeNoiseV1, Noise
  <2> QED BY <1>1, <1>4, <2>6 DEF DecodeNoise, EncodeNoise
<1>5. CASE version = "V2"
  <2> DEFINE w == EncodeNoiseV2(nc)
  <2>1. w.effect # 0 <=> nc.mode # "off"
    BY DEF EncodeNoiseV2, Bit
  <2>2. w.kind # 0 <=> nc.mode = "ambient"
    BY DEF EncodeNoiseV2, Bit
  <2>3. Mode(w.effect # 0, w.kind # 0) = nc.mode
    BY <1>2, <2>1, <2>2, Zenon DEF Mode
  <2>4. nc.mode = "ambient" => w.level = nc.level
    BY <1>2 DEF EncodeNoiseV2
  <2>5. (w.voice # 0) = nc.voice
    <3>1. w.voice = Bit(nc.voice)
      BY DEF EncodeNoiseV2
    <3> QED BY <1>2, <1>3, <3>1, Zenon
  <2>6. DecodeNoiseV2(w) = [mode |-> nc.mode, level |-> nc.level, voice |-> nc.voice]
    <3> HIDE DEF w
    <3> QED BY <1>2, <2>2, <2>3, <2>4, <2>5, Zenon DEF DecodeNoiseV2, Noise
  <2> QED BY <1>1, <1>5, <2>6 DEF DecodeNoise, EncodeNoise
<1> QED BY <1>4, <1>5

-----------------------------------------------------------------------------
\* A band the host can choose survives as well, and one it cannot is sent as the
\* nearest (clampEqValue in ProtocolHelpers.h).
THEOREM BandsSurvive ==
  ASSUME NEW version, NEW b \in Int
  PROVE  Decode(version, "bands", Encode(version, "bands", b)) = Clamp(b, -10, 10)
<1>0. /\ "bands" # "noise" /\ "bands" # "preset" /\ "bands" # "autoPowerOff"
      /\ "bands" \notin Inverted
  BY DEF Inverted
<1>1. Encode(version, "bands", b) = Clamp(b, -10, 10) + 10
  BY <1>0, Zenon DEF Encode
<1>2. \A w : Decode(version, "bands", w) = w - 10
  BY <1>0, Zenon DEF Decode
<1>3. Clamp(b, -10, 10) \in Int
  BY DEF Clamp
<1> QED BY <1>1, <1>2, <1>3

-----------------------------------------------------------------------------
\* A request for the wipe has consent from the time it is sent, and one that
\* execute() needs the device for has asked for it before it is executed, when
\* there is no answer yet.
ModelInv   == model \in Models
ConsentInv == stage \in {"sent", "ready"} /\ request.verb = "factoryReset" /\ request.flag
              => consent
AskedInv   == stage = "ready" /\ request.form = "text" /\ ~Deviceless(request) => tried
AnswerInv  == stage # "done" => answer = "none"
CommandInv == ModelInv /\ ConsentInv /\ AskedInv /\ AnswerInv

\* A line of text that is taken for a wipe says so.
LEMMA TextWipe ==
  ASSUME NEW r, TextCall(r).feature = "factoryReset"
  PROVE  r.verb = "factoryReset"
<1> SUFFICES ASSUME r.verb # "factoryReset"
             PROVE  FALSE
  OBVIOUS
<1>1. CASE r.verb \in {"anc", "ambient", "eqCustom", "autoPowerOff"}
  BY <1>1 DEF TextCall, Call
<1>2. CASE r.verb = "eqPreset"
  BY <1>2 DEF TextCall, Call, Refused
<1>3. CASE r.verb \in {"dsee", "speakToChat", "adaptiveVolume"}
  BY <1>3 DEF TextCall, Call
<1>4. CASE r.verb \in {"reset", "info"}
  BY <1>4 DEF TextCall, Call
<1>5. CASE r.verb \notin {"anc", "ambient", "eqCustom", "autoPowerOff", "eqPreset",
                          "dsee", "speakToChat", "adaptiveVolume", "reset", "info"}
  BY <1>5 DEF TextCall, Call, Refused
<1> QED BY <1>1, <1>2, <1>3, <1>4, <1>5

\* And a JSON request is confirmed as well.
LEMMA JsonWipe ==
  ASSUME NEW r, NEW c, JsonCall(r, c).feature = "factoryReset"
  PROVE  r.verb = "factoryReset" /\ r.flag
BY DEF JsonCall, Call, Refused

\* The one model that has the capability.
LEMMA WipedModel ==
  ASSUME NEW m \in ModelNames, "factoryReset" \in Capabilities[m]
  PROVE  m = "WH-1000XM5"
BY DEF Capabilities, ModelNames, Oldest, Later, Newer

LEMMA CommandInvInit == Init => CommandInv
BY DEF Init, CommandInv, ModelInv, ConsentInv, AskedInv, AnswerInv

\* A step of Next at the client's side.
LEMMA GiveStep ==
  ASSUME CommandInv, NEW r, NEW v, NEW sure \in BOOLEAN, Give(r, v, sure)
  PROVE  CommandInv' /\ wiped' = wiped
<1>1. ModelInv'
  BY DEF CommandInv, ModelInv, Give, deviceVars
<1>2. ConsentInv'
  <2>1. CASE stage' = "idle"
    BY <2>1 DEF ConsentInv
  <2>2. CASE stage' = "sent" /\ request' = [r EXCEPT !.flag = r.flag \/ sure]
             /\ consent' = (sure \/ (r.verb = "factoryReset" /\ r.flag))
    BY <2>2 DEF ConsentInv
  <2> QED BY <2>1, <2>2 DEF Give
<1>3. AskedInv'
  BY DEF Give, AskedInv
<1>4. AnswerInv'
  BY DEF Give, AnswerInv
<1> QED BY <1>1, <1>2, <1>3, <1>4 DEF CommandInv, Give

LEMMA ConnectOnDemandStep ==
  ASSUME CommandInv, ConnectOnDemand
  PROVE  CommandInv' /\ wiped' = wiped
<1>1. ModelInv' /\ ConsentInv'
  BY DEF CommandInv, ModelInv, ConsentInv, ConnectOnDemand, deviceVars
<1>2. AskedInv'
  <2> SUFFICES ASSUME request.form = "text", ~Deviceless(request)
               PROVE  tried'
    BY DEF AskedInv, ConnectOnDemand, Deviceless, NeedsConfirmation
  <2>1. NeedsConnection(request) /\ request.verb # "devices"
    BY DEF Deviceless, NeedsConnection
  <2>2. CASE link
    BY <2>2, Zenon DEF ConnectOnDemand
  <2>3. CASE ~link
    BY <2>1, <2>3, Zenon DEF ConnectOnDemand
  <2> QED BY <2>2, <2>3
<1>3. AnswerInv'
  BY DEF CommandInv, AnswerInv, ConnectOnDemand
<1> QED BY <1>1, <1>2, <1>3 DEF CommandInv, ConnectOnDemand

LEMMA AnswerStep ==
  ASSUME CommandInv, NEW late, Answer(late)
  PROVE  CommandInv' /\ wiped' = wiped
BY DEF Answer, CommandInv, ModelInv, ConsentInv, AskedInv, AnswerInv, deviceVars

\* Whatever is executed ends the command, and wipes with consent only.
LEMMA ExecuteStep ==
  ASSUME CommandInv, Execute
  PROVE  /\ CommandInv'
         /\ wiped' /\ ~wiped => consent /\ model = "WH-1000XM5"
<1>1. model' = model /\ stage' = "done"
  BY DEF Execute, ExecuteConnect, ExecuteDisconnect, ExecuteDeviceless,
         ExecuteNoDevice, ExecuteRefused, ExecuteQuery, ExecuteSet,
         ExecuteReset, Reply, Unmoved, deviceVars
<1>2. CommandInv'
  BY <1>1 DEF CommandInv, ModelInv, ConsentInv, AskedInv, AnswerInv
<1>3. ASSUME wiped', ~wiped
      PROVE  consent /\ model = "WH-1000XM5"
  <2>1. ExecuteReset
    BY <1>3 DEF Execute, ExecuteConnect, ExecuteDisconnect, ExecuteDeviceless,
         ExecuteNoDevice, ExecuteRefused, ExecuteQuery, ExecuteSet, Unmoved
  <2>2. Wanted.feature = "factoryReset" /\ stage = "ready" /\ ~Deviceless(request)
        /\ Sendable(model, "factoryReset")
    BY <2>1, <1>3, Zenon DEF ExecuteReset, IsDeviceCall
  <2>3. request.verb = "factoryReset" /\ request.flag
    <3>1. CASE request.form = "text"
      <4>1. request.verb = "factoryReset"
        BY <3>1, <2>2, TextWipe DEF Wanted
      <4> QED BY <4>1, <3>1, <2>2 DEF Deviceless, NeedsConfirmation
    <3>2. CASE request.form # "text"
      BY <3>2, <2>2, JsonWipe DEF Wanted
    <3> QED BY <3>1, <3>2
  <2>4. consent
    BY <2>2, <2>3 DEF CommandInv, ConsentInv
  <2>5. "factoryReset" \in Capabilities[model] /\ model \in ModelNames
    BY <2>2, CommandAssumption DEF Sendable, Checked, CommandInv, ModelInv
  <2> QED BY <2>4, <2>5, WipedModel
<1> QED BY <1>2, <1>3

\* What happens meanwhile touches no command.
LEMMA MeanwhileStep ==
  ASSUME CommandInv,
         \/ \E f \in Features, tells \in BOOLEAN :
                \E w \in Own[model][f] : Change(f, w, tells)
         \/ \E f \in Features, silent \in Silences : Refresh(f, silent)
         \/ ConnectUnasked \/ Unlink
  PROVE  CommandInv' /\ wiped' = wiped
<1>1. UNCHANGED <<model, stage, request, answer, consent, tried, wiped>>
  BY DEF Change, Refresh, ConnectUnasked, Unlink, deviceVars, commandVars, histVars
<1> QED BY <1>1 DEF CommandInv, ModelInv, ConsentInv, AskedInv, AnswerInv,
                     Deviceless, NeedsConfirmation

LEMMA StepKeeps ==
  ASSUME CommandInv, [Next]_vars
  PROVE  /\ CommandInv'
         /\ wiped' /\ ~wiped => consent /\ model = "WH-1000XM5"
<1>1. CASE Next
  <2>1. CASE \E r \in Requests, v \in {"cli", "direct", "socket"}, sure \in BOOLEAN :
                 Give(r, v, sure)
    BY <2>1, GiveStep
  <2>2. CASE ConnectOnDemand
    BY <2>2, ConnectOnDemandStep
  <2>3. CASE Execute
    BY <2>3, ExecuteStep
  <2>4. CASE \E late \in BOOLEAN : Answer(late)
    BY <2>4, AnswerStep
  <2> QED BY <1>1, <2>1, <2>2, <2>3, <2>4, MeanwhileStep DEF Next
<1>2. CASE UNCHANGED vars
  BY <1>2 DEF vars, deviceVars, commandVars, histVars, CommandInv, ModelInv,
              ConsentInv, AskedInv, AnswerInv, Deviceless, NeedsConfirmation
<1> QED BY <1>1, <1>2

\* CommandInv is an invariant of the commands.
THEOREM CommandsOrdered == Spec => []CommandInv
<1>1. CommandInv /\ [Next]_vars => CommandInv'
  BY StepKeeps
<1> QED BY CommandInvInit, <1>1, PTL DEF Spec

\* The pairing of the headphones is wiped only by a confirmed command, and only
\* on the model whose firmware is known to take the opcode, whatever is asked,
\* in whichever language, of whichever model.
THEOREM WipesOnConsent == Spec => WipedOnConsent
<1>1. CommandInv /\ [Next]_vars
      => [wiped' /\ ~wiped => consent /\ model = "WH-1000XM5"]_vars
  BY StepKeeps
<1> QED BY <1>1, CommandsOrdered, PTL DEF Spec, WipedOnConsent

\* Nobody is told that no device is connected before one was asked for.
THEOREM AsksFirst == Spec => AskedFirst
<1>1. CommandInv /\ [Next]_vars
      => [stage = "ready" /\ answer' = "noDevice" /\ request.form = "text"
          /\ request.verb # "status" => tried]_vars
  <2> SUFFICES ASSUME CommandInv, Next, stage = "ready", answer' = "noDevice",
                      request.form = "text", request.verb # "status"
               PROVE  tried
    OBVIOUS
  <2>1. answer = "none"
    BY DEF CommandInv, AnswerInv
  <2>2. Execute
    BY <2>1 DEF Next, Give, ConnectOnDemand, Answer, Change, Refresh,
                ConnectUnasked, Unlink, commandVars
  <2>3. ~Deviceless(request)
    BY <2>2, Zenon DEF Execute, ExecuteConnect, ExecuteDisconnect, ExecuteDeviceless, 
           ExecuteNoDevice, ExecuteRefused, ExecuteQuery, ExecuteSet, ExecuteReset,
           IsDeviceCall, Reply
  <2> QED BY <2>3 DEF CommandInv, AskedInv
<1> QED BY <1>1, CommandsOrdered, PTL DEF Spec, AskedFirst
-----------------------------------------------------------------------------
(* What is known of the headphones.                                        *)

\* What may be asked to be set of each feature, once the request languages have
\* clamped or refused the rest.
Allowed(f) ==
    CASE f = "noise"        -> 
             [mode : {"off", "cancelling"}, level : {0}, voice : BOOLEAN]
             \cup [mode : {"ambient"}, level : 1..20, voice : BOOLEAN]
      [] f = "preset"       -> 0..255
      [] f = "bands"        -> -10..10
      [] f = "autoPowerOff" -> 0..5
      [] OTHER              -> BOOLEAN

\* What a client may ask at all.
IsRequest(r) ==
    /\ r = Request(r.form, r.verb, r.arg, r.flag)
    /\ r.arg.number \in Int /\ r.flag \in BOOLEAN

\* The features that can be set.
Set == Features \ {"battery"}

\* A code of autoPowerOff is that of one duration only.
LEMMA CodesDiffer ==
  ASSUME NEW i \in 1..6, NEW j \in 1..6,
         AutoPowerOffCodes[i] = AutoPowerOffCodes[j]
  PROVE  i = j
BY DEF AutoPowerOffCodes

\* What is allowed survives the wire.
LEMMA SetSurvives ==
  ASSUME NEW version \in {"V1", "V2"}, NEW f \in Set, NEW v \in Allowed(f)
  PROVE  Decode(version, f, Encode(version, f, v)) = v
<1> USE DEF Set, Features, Inverted
<1>1. CASE f = "noise"
  <2>1. Choosable(v)
    BY <1>1 DEF Allowed, Choosable
  <2> QED BY <1>1, <2>1, NoiseSurvives DEF Encode, Decode
<1>2. CASE f = "preset"
  <2>1. v \in 0..255
    BY <1>2 DEF Allowed
  <2>2. v % 256 = v
    BY <2>1
  <2> QED BY <1>2, <2>2 DEF Encode, Decode
<1>3. CASE f = "bands"
  <2>1. v \in -10..10
    BY <1>3 DEF Allowed
  <2>2. Clamp(v, -10, 10) = v
    BY <2>1 DEF Clamp
  <2> QED BY <1>3, <2>1, <2>2, BandsSurvive
<1>4. CASE f = "autoPowerOff"
  <2>1. v \in 0..5
    BY <1>4 DEF Allowed
  <2>2. v + 1 \in 1..6
    BY <2>1
  <2>3. (CHOOSE i \in 1..6 : AutoPowerOffCodes[i] = AutoPowerOffCodes[v + 1]) = v + 1
    BY <2>2, CodesDiffer
  <2>4. IndexOfCode(AutoPowerOffCodes[v + 1]) = v
    <3> DEFINE c == CHOOSE i \in 1..6 : AutoPowerOffCodes[i] = AutoPowerOffCodes[v + 1]
    <3>1. \E i \in 1..6 : AutoPowerOffCodes[i] = AutoPowerOffCodes[v + 1]
      BY <2>2
    <3>2. IndexOfCode(AutoPowerOffCodes[v + 1]) = c - 1
      BY <3>1, Zenon DEF IndexOfCode
    <3>3. c = v + 1
      BY <2>3
    <3> HIDE DEF c
    <3> QED BY <2>1, <3>2, <3>3
  <2>5. Encode(version, f, v) = AutoPowerOffCodes[v + 1]
    BY <1>4, Zenon DEF Encode
  <2>6. \A w : Decode(version, f, w) = IndexOfCode(w)
    BY <1>4, Zenon DEF Decode
  <2> QED BY <2>4, <2>5, <2>6
<1>5. CASE f \in Inverted
  <2>1. v \in BOOLEAN
    BY <1>5 DEF Allowed
  <2>2. (Bit(~v) = 0) = v
    BY <2>1 DEF Bit
  <2>3. Encode(version, f, v) = Bit(~v)
    BY <1>5 DEF Encode
  <2>4. \A w : Decode(version, f, w) = (w = 0)
    BY <1>5 DEF Decode
  <2> QED BY <2>2, <2>3, <2>4
<1>6. CASE f = "dsee"
  <2>1. v \in BOOLEAN
    BY <1>6 DEF Allowed
  <2>2. (Bit(v) # 0) = v
    BY <2>1 DEF Bit
  <2>3. Encode(version, f, v) = Bit(v)
    BY <1>6 DEF Encode
  <2>4. \A w : Decode(version, f, w) = (w # 0)
    BY <1>6 DEF Decode
  <2> QED BY <2>2, <2>3, <2>4
<1> QED BY <1>1, <1>2, <1>3, <1>4, <1>5, <1>6

\* A preset has one name that is not an alias, and one code.
LEMMA PresetsDiffer ==
  ASSUME NEW p \in Presets \cup Aliases, NEW q \in Presets \cup Aliases,
         p[1] = q[1]
  PROVE  p = q
BY DEF Presets, Aliases

\* A call that is allowed, taken apart.
LEMMA CallAllowed ==
  ASSUME NEW call, NEW f \in Set, NEW v \in Allowed(f), call = Call(f, v)
  PROVE  call.feature \in Set /\ call.value \in Allowed(call.feature)
BY DEF Call

\* What a line of text asks to be set is allowed, whatever its argument.
LEMMA TextAllowed ==
  ASSUME NEW r, IsRequest(r), r.form = "text", TextCall(r).feature \in Features
  PROVE  /\ TextCall(r).feature \in Set
         /\ TextCall(r).value \in Allowed(TextCall(r).feature)
<1> DEFINE n == r.arg.number
<1>1. n \in Int
  BY DEF IsRequest
<1> USE DEF Set, Features
<1>2. Clamp(n, 1, 20) \in 1..20 /\ Clamp(n, -10, 10) \in -10..10 /\ Clamp(n, 0, 5) \in 0..5
  BY <1>1 DEF Clamp
<1>3. CASE r.verb = "anc"
  BY <1>3, ZenonT(60) DEF TextCall, Allowed, Noise, Call
<1>4. CASE r.verb = "ambient"
  <2> DEFINE level == IF r.arg.word = "number" THEN Clamp(n, 1, 20) ELSE 10
  <2>1. level \in 1..20
    BY <1>2
  <2>2. TextCall(r) = Call("noise", IF r.arg.word = "off" THEN Noise("off", 0, FALSE)
                                    ELSE Noise("ambient", level, FALSE))
    BY <1>4 DEF TextCall
  <2> HIDE DEF level
  <2>3. /\ Noise("off", 0, FALSE) \in Allowed("noise")
        /\ Noise("ambient", level, FALSE) \in Allowed("noise")
    BY <2>1 DEF Allowed, Noise
  <2> DEFINE v == IF r.arg.word = "off" THEN Noise("off", 0, FALSE)
                                    ELSE Noise("ambient", level, FALSE)
  <2>4. v \in Allowed("noise") /\ TextCall(r) = Call("noise", v)
    BY <2>2, <2>3, Zenon
  <2> HIDE DEF v
  <2> QED BY <2>4, CallAllowed
<1>5. CASE r.verb = "eqPreset"
  <2> DEFINE p == IF r.arg = NoArgument THEN 0 ELSE PresetFromName(r.arg)
  <2>1. p \in Int
    <3>1. CASE r.arg = NoArgument
      BY <3>1
    <3>2. CASE r.arg # NoArgument /\ r.arg.word = "number"
      BY <1>1, <3>2 DEF PresetFromName
    <3>3. CASE r.arg # NoArgument /\ r.arg.word # "number"
      <4>1. \A q \in Presets \cup Aliases : q[2] \in Int
        BY DEF Presets, Aliases
      <4> QED BY <3>3, <4>1 DEF PresetFromName
    <3> QED BY <3>1, <3>2, <3>3
  <2>2. TextCall(r) = IF 0 <= p /\ p <= 255 THEN Call("preset", p) ELSE Refused
    BY <1>5 DEF TextCall, Within
  <2> HIDE DEF p
  <2> QED BY <2>1, <2>2 DEF Allowed, Refused, Call
<1>6. CASE r.verb = "eqCustom"
  <2> DEFINE b == IF r.arg.word = "number" THEN Clamp(n, -10, 10) ELSE 0
  <2>1. b \in -10..10
    BY <1>2
  <2>2. TextCall(r) = Call("bands", b)
    BY <1>6 DEF TextCall
  <2> HIDE DEF b
  <2> QED BY <2>1, <2>2 DEF Allowed, Call
<1>7. CASE r.verb = "autoPowerOff"
  <2> DEFINE t == IF r.arg.word = "number" THEN Clamp(n, 0, 5) ELSE 0
  <2>1. t \in 0..5
    BY <1>2
  <2>2. TextCall(r) = Call("autoPowerOff", t)
    BY <1>7 DEF TextCall
  <2> HIDE DEF t
  <2> QED BY <2>1, <2>2 DEF Allowed, Call
<1>8. CASE r.verb \in {"dsee", "speakToChat", "adaptiveVolume"}
  <2>2. Allowed(r.verb) = BOOLEAN
    BY <1>8, Zenon DEF Allowed
  <2> DEFINE b == ~(r.arg.word = "off")
  <2>1. TextCall(r) = Call(r.verb, b)
    BY <1>8, Zenon DEF TextCall
  <2>3. b \in BOOLEAN
    OBVIOUS
  <2> HIDE DEF b
  <2> QED BY <1>8, <2>1, <2>2, <2>3, CallAllowed
<1>9. CASE r.verb \notin {"anc", "ambient", "eqCustom", "autoPowerOff", "eqPreset",
                          "dsee", "speakToChat", "adaptiveVolume"}
  BY <1>9 DEF TextCall, Refused, Call
<1> QED BY <1>3, <1>4, <1>5, <1>6, <1>7, <1>8, <1>9

\* And what a JSON request asks to be set is as well.
LEMMA JsonAllowed ==
  ASSUME NEW r, NEW c, IsRequest(r), r.form # "text", JsonCall(r, c).feature \in Features
  PROVE  /\ JsonCall(r, c).feature \in Set
         /\ JsonCall(r, c).value \in Allowed(JsonCall(r, c).feature)
<1> DEFINE n == r.arg.number
<1>1. n \in Int /\ r.flag \in BOOLEAN
  BY DEF IsRequest
<1> USE DEF Set, Features
<1>2. ASSUME JsonCall(r, c) = Refused
      PROVE  FALSE
  BY <1>2 DEF Refused, Call
<1>3. CASE r.verb = "anc"
  <2> DEFINE v == Noise(IF r.arg.word = "on" THEN "cancelling" ELSE "off", 0, FALSE)
  <2>1. v \in Allowed("noise")
    BY DEF Allowed, Noise
  <2>2. JsonCall(r, c) = Call("noise", v)
    BY <1>2, <1>3 DEF JsonCall
  <2> HIDE DEF v
  <2> QED BY <2>1, <2>2, CallAllowed
<1>4. CASE r.verb = "ambient"
  <2>1. JsonCall(r, c) = Call("noise", Noise("ambient", n, r.flag))
        /\ Within(n, 1, 20)
    BY <1>2, <1>4 DEF JsonCall
  <2>2. Noise("ambient", n, r.flag) \in Allowed("noise")
    BY <1>1, <2>1 DEF Allowed, Noise, Within
  <2> QED BY <2>1, <2>2, CallAllowed
<1>5. CASE r.verb = "eqPreset"
  <2>1. JsonCall(r, c) = Call("preset", n) /\ Within(n, 0, 255)
    BY <1>2, <1>5 DEF JsonCall
  <2>2. n \in Allowed("preset")
    BY <1>1, <2>1 DEF Allowed, Within
  <2> QED BY <2>1, <2>2, CallAllowed
<1>6. CASE r.verb = "eqCustom"
  <2>1. JsonCall(r, c) = Call("bands", n) /\ Within(n, -10, 10)
    BY <1>2, <1>6 DEF JsonCall
  <2>2. n \in Allowed("bands")
    BY <1>1, <2>1 DEF Allowed, Within
  <2> QED BY <2>1, <2>2, CallAllowed
<1>7. CASE r.verb = "autoPowerOff"
  <2>1. JsonCall(r, c) = Call("autoPowerOff", n) /\ Within(n, 0, 5)
    BY <1>2, <1>7 DEF JsonCall
  <2>2. n \in Allowed("autoPowerOff")
    BY <1>1, <2>1 DEF Allowed, Within
  <2> QED BY <2>1, <2>2, CallAllowed
<1>8. CASE r.verb \in {"dsee", "speakToChat", "adaptiveVolume"}
  <2> DEFINE b == (r.arg.word = "on")
  <2>1. JsonCall(r, c) = Call(r.verb, b)
    BY <1>2, <1>8, Zenon DEF JsonCall
  <2>2. Allowed(r.verb) = BOOLEAN
    BY <1>8, Zenon DEF Allowed
  <2>3. b \in BOOLEAN
    OBVIOUS
  <2> HIDE DEF b
  <2> QED BY <1>8, <2>1, <2>2, <2>3, CallAllowed
<1>9. CASE r.verb \notin {"anc", "ambient", "eqCustom", "autoPowerOff", "eqPreset",
                          "dsee", "speakToChat", "adaptiveVolume"}
  BY <1>9 DEF JsonCall, Refused, Call
<1> QED BY <1>3, <1>4, <1>5, <1>6, <1>7, <1>8, <1>9

\* A model whose bands can be set has presets, and the other way round.
LEMMA PresetsWithBands ==
  ASSUME NEW m \in ModelNames
  PROVE  "preset" \in Capabilities[m] <=> "bands" \in Capabilities[m]
<1>1. ASSUME "preset" \in Capabilities[m]
      PROVE  "bands" \in Capabilities[m]
  BY <1>1, ZenonT(60) DEF Capabilities, ModelNames, Oldest, Later, Newer
<1>2. ASSUME "bands" \in Capabilities[m]
      PROVE  "preset" \in Capabilities[m]
  BY <1>2, ZenonT(60) DEF Capabilities, ModelNames, Oldest, Later, Newer
<1> QED BY <1>1, <1>2

\* Buds are of the second generation.
LEMMA BudsAreNewer ==
  ASSUME NEW m, m \in Buds, Version(m) = "V1"
  PROVE  FALSE
BY ZenonT(60) DEF Buds, Version

\* The cells of headphones there are: those of the first generation have one,
\* and tell of an empty right one besides.
CellsInv ==
    /\ registers["battery"].left \in Nat
    /\ Version(model) = "V1" => registers["battery"].right = 0

\* The settings are there, and what is known of them.
MapsInv ==
    /\ model \in ModelNames /\ model \in Models /\ IsRequest(request)
    /\ registers = [f \in Features |-> registers[f]]
    /\ known = [f \in Features |-> known[f]]

KnownInv == MapsInv /\ CellsInv /\ KnownIsTrue

\* A reading is true or none: which of the questions about the battery are
\* answered does not change what is read.
LEMMA ReadingTrue ==
  ASSUME MapsInv, CellsInv, NEW f \in Features, NEW silent
  PROVE  Reading(f, silent) \in {None, Truth(f)}
<1>1. CASE f # "battery"
  BY <1>1 DEF Reading, Truth
<1>2. CASE f = "battery"
  <2> DEFINE cells == registers["battery"]
             answered == Answered(model) \ silent
  <2>1. Reading(f, silent) = ReadBattery(model, cells, silent)
    BY <1>2 DEF Reading
  <2>2. Truth(f) = IF model \in Buds THEN Least(cells) ELSE cells.left
    BY <1>2 DEF Truth
  <2>3. CASE "single" \in answered
    <3>1. model \notin Buds
      BY <2>3 DEF Answered
    <3>2. ReadBattery(model, cells, silent) = cells.left
      BY <2>3 DEF ReadBattery
    <3> QED BY <2>1, <2>2, <3>1, <3>2
  <2>4. CASE "single" \notin answered /\ answered = {"dual"}
    <3>1. CASE Version(model) = "V1"
      <4>1. model \notin Buds
        BY <3>1, BudsAreNewer
      <4>2. ReadBattery(model, cells, silent) = BothCellsV1(cells)
        BY <2>4, <3>1 DEF ReadBattery
      <4>3. BothCellsV1(cells) = cells.left
        BY <3>1 DEF CellsInv, BothCellsV1, Least
      <4> QED BY <2>1, <2>2, <4>1, <4>2, <4>3
    <3>2. CASE Version(model) # "V1"
      <4>1. model \in Buds
        BY <2>4, <3>2 DEF Answered
      <4>2. ReadBattery(model, cells, silent) = Least(cells)
        BY <2>4, <3>2 DEF ReadBattery
      <4> QED BY <2>1, <2>2, <4>1, <4>2
    <3> QED BY <3>1, <3>2
  <2>5. CASE "single" \notin answered /\ answered # {"dual"}
    <3>1. ReadBattery(model, cells, silent) = None
      BY <2>5 DEF ReadBattery
    <3> QED BY <2>1, <3>1
  <2> QED BY <2>3, <2>4, <2>5
<1> QED BY <1>1, <1>2

\* What is wanted can be set.
LEMMA WantedAllowed ==
  ASSUME IsRequest(request), Wanted.feature \in Features
  PROVE  Wanted.feature \in Set /\ Wanted.value \in Allowed(Wanted.feature)
BY TextAllowed, JsonAllowed DEF Wanted

\* The truth about a feature stays while its register does.
LEMMA TruthStays ==
  ASSUME NEW f, model' = model, registers'[f] = registers[f]
  PROVE  Truth(f)' = Truth(f)
BY DEF Truth

\* How a preset and a noise setting are read.
LEMMA DecodeNamed ==
  ASSUME NEW version, NEW w
  PROVE  /\ Decode(version, "preset", w) = w
         /\ Decode(version, "noise", w) = DecodeNoise(version, w)
<1>1. /\ "preset" # "noise" /\ "preset" # "bands" /\ "preset" # "autoPowerOff"
      /\ "noise" # "bands" /\ "noise" # "autoPowerOff"
      /\ "preset" \notin Inverted /\ "noise" \notin Inverted
  BY DEF Inverted
<1>2. Decode(version, "preset", w) = w
  BY <1>1, Zenon DEF Decode
<1>3. Decode(version, "noise", w) = DecodeNoise(version, w)
  BY <1>1, Zenon DEF Decode
<1> QED BY <1>2, <1>3

\* Where neither the headphones nor what is known of them changes.
LEMMA NothingNew ==
  ASSUME KnownInv, UNCHANGED <<deviceVars, known, stale>>, IsRequest(request)'
  PROVE  KnownInv'
<1>1. \A f : Truth(f)' = Truth(f)
  BY TruthStays DEF deviceVars
<1>2. KnownIsTrue'
  BY <1>1 DEF KnownInv, KnownIsTrue, can, deviceVars
<1> QED BY <1>2 DEF KnownInv, MapsInv, CellsInv, deviceVars

\* Whatever is learnt on connection is a reading.
LEMMA ConnectedKnows ==
  ASSUME KnownInv, UNCHANGED deviceVars, IsRequest(request)',
         ConnectFails \/ \E silent \in Silences : Connected(silent)
  PROVE  KnownInv'
<1>1. \A f : Truth(f)' = Truth(f)
  BY TruthStays DEF deviceVars
<1>2. MapsInv' /\ CellsInv'
  BY DEF KnownInv, MapsInv, CellsInv, deviceVars, ConnectFails, Connected
<1>3. ASSUME NEW f \in Features
      PROVE  known'[f] \in {None, Truth(f)}
  BY ReadingTrue DEF KnownInv, ConnectFails, Connected
<1> QED BY <1>1, <1>2, <1>3 DEF KnownInv, KnownIsTrue

\* A setter that is acknowledged records what the headphones took.
LEMMA SetKnows ==
  ASSUME KnownInv, ExecuteSet
  PROVE  KnownInv'
<1> DEFINE f == Wanted.feature
           v == Wanted.value
<1>1. f \in Set /\ v \in Allowed(f) /\ f \in Features /\ f # "battery"
  BY WantedAllowed DEF ExecuteSet, KnownInv, MapsInv, Set
<1>2. UNCHANGED <<model, request>> /\ can' = can
  BY DEF ExecuteSet, Reply, can
<1>3. \/ /\ registers' = Taken(f, v) /\ known' = Recorded(f, v)
         /\ stale' = (stale \ Disturbed(f)) \cup (Disturbed(f) \ {f, "preset"})
      \/ /\ registers' \in {registers, Taken(f, v)} /\ known' = known
         /\ stale' = stale \cup Disturbed(f)
  BY Zenon DEF ExecuteSet
<1> HIDE DEF f, v
<1>4. \A g \in Features \ Disturbed(f) : Taken(f, v)[g] = registers[g]
  BY DEF Taken, Disturbed
<1>5. MapsInv'
  BY <1>2, <1>3 DEF KnownInv, MapsInv, Taken, Recorded
<1>6. "battery" \in Features \ Disturbed(f)
  BY <1>1 DEF Features, Disturbed
<1>7. CellsInv'
  BY <1>2, <1>3, <1>4, <1>6 DEF KnownInv, CellsInv
<1>8. ASSUME NEW g \in Features \cap can', g \notin stale'
      PROVE  known'[g] \in {None, Truth(g)'}
  <2>1. CASE g \notin Disturbed(f)
    <3>1. Truth(g)' = Truth(g)
      BY <1>2, <1>3, <1>4, <2>1, TruthStays
    <3>2. known'[g] = known[g]
      BY <1>3, <2>1 DEF Recorded, Disturbed
    <3>3. g \notin stale
      BY <1>3, <1>8, <2>1
    <3> QED BY <1>2, <1>8, <3>1, <3>2, <3>3 DEF KnownInv, KnownIsTrue
  <2>2. CASE g \in Disturbed(f)
    <3>1. registers' = Taken(f, v) /\ known' = Recorded(f, v)
      BY <1>3, <1>8, <2>2
    <3>2. g \in {f, "preset"} /\ (g = "preset" => f \in {"preset", "bands"})
      BY <1>3, <1>8, <2>2 DEF Disturbed
    <3>3. f \in can
      BY <1>2, <1>8, <3>2, PresetsWithBands DEF KnownInv, MapsInv, can
    <3>4. CASE g = f
      <4>1. registers'[g] = Encode(Version(model), f, v)
        BY <3>1, <3>3, <3>4, <1>1 DEF Taken
      <4>2. known'[g] = v
        BY <3>1, <3>4, <1>1 DEF Recorded
      <4>3. Truth(g)' = Decode(Version(model), f, registers'[g])
        BY <1>1, <1>2, <3>4 DEF Truth
      <4>4. Version(model) \in {"V1", "V2"}
        BY DEF Version
      <4> QED BY <1>1, <4>1, <4>2, <4>3, <4>4, SetSurvives
    <3>5. CASE g # f
      <4>1. g = "preset" /\ f = "bands"
        BY <3>2, <3>5
      <4>2. registers'[g] = 160 /\ known'[g] = 160
        BY <3>1, <3>3, <4>1 DEF Taken, Recorded, Features
      <4>3. Truth(g)' = Decode(Version(model), "preset", registers'[g])
        BY <1>2, <4>1 DEF Truth
      <4>4. \A w : Decode(Version(model), "preset", w) = w
        BY DecodeNamed
      <4> QED BY <4>2, <4>3, <4>4
    <3> QED BY <3>4, <3>5
  <2> QED BY <2>1, <2>2
<1> QED BY <1>5, <1>7, <1>8 DEF KnownInv, KnownIsTrue

\* What is told of a change is what it was.
LEMMA ChangeKnows ==
  ASSUME KnownInv, NEW f \in Features, NEW w \in Own[model][f],
         NEW tells \in BOOLEAN, Change(f, w, tells)
  PROVE  KnownInv'
<1>1. UNCHANGED <<model, request>> /\ can' = can
  BY DEF Change, can, commandVars
<1>2. registers' = [registers EXCEPT ![f] = w]
  BY DEF Change
<1>3. \/ /\ Parsed(model, f) /\ known' = [known EXCEPT ![f] = Notified(f, w)]
         /\ stale' = stale \ {f}
      \/ stale' = stale \cup {f} /\ known' = known
  BY DEF Change
<1>4. MapsInv'
  BY <1>1, <1>2, <1>3 DEF KnownInv, MapsInv
<1>5. registers'[f] = w /\ \A g \in Features : g # f => registers'[g] = registers[g]
  BY <1>2 DEF KnownInv, MapsInv
<1>6. CellsInv'
  <2>1. "battery" \in Features
    BY DEF Features
  <2>2. CASE f = "battery"
    BY <1>1, <1>5, <2>2, OwnAssumption DEF KnownInv, MapsInv, CellsInv
  <2>3. CASE f # "battery"
    BY <1>1, <1>5, <2>1, <2>3 DEF KnownInv, CellsInv
  <2> QED BY <2>2, <2>3
<1>7. ASSUME NEW g \in Features \cap can', g \notin stale'
      PROVE  known'[g] \in {None, Truth(g)'}
  <2>1. CASE g # f
    <3>1. Truth(g)' = Truth(g)
      BY <1>1, <1>5, <1>7, <2>1, TruthStays
    <3> QED BY <1>1, <1>3, <1>7, <2>1, <3>1 DEF KnownInv, KnownIsTrue, MapsInv
  <2>2. CASE g = f
    <3>1. Parsed(model, f) /\ known'[f] = Notified(f, w)
      BY <1>3, <1>7, <2>2 DEF KnownInv, MapsInv
    <3>2. Notified(f, w) = Truth(f)'
      <4>1. CASE f = "noise"
        <5>1. Version(model) = "V2"
          BY <3>1, <4>1 DEF Parsed
        <5>2. Truth(f)' = Decode("V2", "noise", w)
          BY <1>1, <1>5, <4>1, <5>1 DEF Truth
        <5>3. Decode("V2", "noise", w) = DecodeNoise("V2", w)
          BY DecodeNamed
        <5> QED BY <4>1, <5>2, <5>3 DEF Notified, DecodeNoise
      <4>2. CASE f = "battery"
        BY <1>1, <1>5, <4>2 DEF Truth, Notified
      <4>3. CASE f \notin {"noise", "battery"}
        BY <1>1, <1>5, <4>3 DEF Truth, Notified
      <4> QED BY <4>1, <4>2, <4>3
    <3> QED BY <2>2, <3>1, <3>2
  <2> QED BY <2>1, <2>2
<1> QED BY <1>4, <1>6, <1>7 DEF KnownInv, KnownIsTrue

\* A refresh learns the truth or, of what is not answered, nothing.
LEMMA RefreshKnows ==
  ASSUME KnownInv, NEW f \in Features, NEW silent, Refresh(f, silent)
  PROVE  KnownInv'
<1>1. UNCHANGED <<deviceVars, request>> /\ can' = can
  BY DEF Refresh, can, commandVars, deviceVars
<1>2. \A g : Truth(g)' = Truth(g)
  BY <1>1, TruthStays DEF deviceVars
<1>3. PICK read : /\ known' = [g \in Features |->
                                  IF g \in read THEN Reading(g, silent) ELSE known[g]]
                  /\ stale' = stale \ read
  BY Zenon DEF Refresh
<1>4. MapsInv' /\ CellsInv'
  BY <1>1, <1>3 DEF KnownInv, MapsInv, CellsInv, deviceVars
<1>5. ASSUME NEW g \in Features \cap can, g \notin stale'
      PROVE  known'[g] \in {None, Truth(g)}
  BY <1>3, <1>5, ReadingTrue DEF KnownInv, KnownIsTrue
<1> QED BY <1>1, <1>2, <1>4, <1>5 DEF KnownInv, KnownIsTrue

\* To ask nothing is to ask something.
LEMMA NoneAsked == IsRequest(NoRequest)
<1>1. ASSUME NEW form, NEW verb, NEW w
      PROVE  IsRequest(Request(form, verb, Word(w), FALSE))
  BY DEF IsRequest, Request, Word
<1> QED BY <1>1, Zenon DEF NoRequest, NoArgument

\* At the start nothing is known.
LEMMA KnownInit == Init => KnownInv
<1> SUFFICES ASSUME Init PROVE KnownInv
  OBVIOUS
<1>1. model \in Models /\ model \in ModelNames
  BY CommandAssumption DEF Init
<1>2. MapsInv
  BY <1>1, NoneAsked DEF Init, MapsInv, FirstRegisters
<1>3. CellsInv
  <2>1. registers["battery"] = [left |-> 60, right |-> IF model \in Buds THEN 50 ELSE 0]
    BY DEF Init, FirstRegisters, Features
  <2> QED BY <2>1, BudsAreNewer DEF CellsInv
<1>4. KnownIsTrue
  BY DEF Init, KnownIsTrue
<1> QED BY <1>2, <1>3, <1>4 DEF KnownInv

\* What is executed leaves what is known true.
LEMMA ExecuteKnows ==
  ASSUME KnownInv, Execute
  PROVE  KnownInv'
<1>1. request' = request /\ IsRequest(request)
  BY DEF Execute, ExecuteConnect, ExecuteDisconnect, ExecuteDeviceless,
         ExecuteNoDevice, ExecuteRefused, ExecuteQuery, ExecuteSet,
         ExecuteReset, Reply, KnownInv, MapsInv
<1>2. CASE ExecuteConnect
  BY <1>1, <1>2, ConnectedKnows DEF ExecuteConnect
<1>3. CASE ExecuteDisconnect
  BY <1>1, <1>3, NothingNew DEF ExecuteDisconnect
<1>4. CASE ExecuteDeviceless \/ ExecuteNoDevice \/ ExecuteRefused \/ ExecuteQuery
  <2>1. UNCHANGED <<deviceVars, known, stale>>
    BY <1>4 DEF ExecuteDeviceless, ExecuteNoDevice, ExecuteRefused, ExecuteQuery,
                Unmoved, hostVars
  <2> QED BY <1>1, <2>1, NothingNew
<1>5. CASE ExecuteSet
  BY <1>5, SetKnows
<1>6. CASE ExecuteReset
  <2>1. UNCHANGED <<deviceVars, known>> /\ (stale' = stale \/ stale' = Features)
    BY <1>6 DEF ExecuteReset
  <2>2. CASE stale' = stale
    BY <1>1, <2>1, <2>2, NothingNew
  <2>3. CASE stale' = Features
    BY <1>1, <2>1, <2>3 DEF KnownInv, KnownIsTrue, MapsInv, CellsInv, deviceVars
  <2> QED BY <2>1, <2>2, <2>3
<1> QED BY <1>2, <1>3, <1>4, <1>5, <1>6 DEF Execute

\* No step makes what is known untrue.
LEMMA KnownStep == KnownInv /\ [Next]_vars => KnownInv'
<1> SUFFICES ASSUME KnownInv, [Next]_vars PROVE KnownInv'
  OBVIOUS
<1>1. ASSUME NEW r \in Requests, NEW v, NEW sure \in BOOLEAN, Give(r, v, sure)
      PROVE  KnownInv'
  <2>1. IsRequest(r)
    BY RequestAssumption DEF IsRequest
  <2>2. IsRequest([r EXCEPT !.flag = r.flag \/ sure])
    BY <2>1 DEF IsRequest, Request
  <2>3. IsRequest(request)'
    BY <1>1, <2>2 DEF Give, KnownInv, MapsInv
  <2> QED BY <1>1, <2>3, NothingNew DEF Give, hostVars
<1>2. CASE ConnectOnDemand
  <2>1. UNCHANGED <<deviceVars, request>> /\ IsRequest(request)
        /\ (Connects \/ UNCHANGED hostVars)
    BY <1>2 DEF ConnectOnDemand, KnownInv, MapsInv
  <2>2. CASE Connects
    BY <2>1, <2>2, ConnectedKnows DEF Connects
  <2>3. CASE UNCHANGED hostVars
    BY <2>1, <2>3, NothingNew DEF hostVars
  <2> QED BY <2>1, <2>2, <2>3
<1>3. ASSUME NEW late \in BOOLEAN, Answer(late) PROVE KnownInv'
  <2>1. UNCHANGED deviceVars /\ IsRequest(request)'
    BY <1>3, NoneAsked DEF Answer
  <2>2. UNCHANGED <<known, stale>> \/ ConnectFails
    BY <1>3 DEF Answer, ConnectFails, hostVars
  <2> QED BY <2>1, <2>2, NothingNew, ConnectedKnows
<1>4. ASSUME NEW f \in Features, NEW tells \in BOOLEAN, NEW w \in Own[model][f],
             Change(f, w, tells)
      PROVE  KnownInv'
  BY <1>4, ChangeKnows
<1>5. ASSUME NEW f \in Features, NEW silent \in Silences, Refresh(f, silent)
      PROVE  KnownInv'
  BY <1>5, RefreshKnows
<1>6. CASE ConnectUnasked
  BY <1>6, ConnectedKnows DEF ConnectUnasked, commandVars, KnownInv, MapsInv
<1>7. CASE Unlink
  BY <1>7, NothingNew DEF Unlink, commandVars, KnownInv, MapsInv
<1>8. CASE UNCHANGED vars
  BY <1>8, NothingNew DEF vars, hostVars, commandVars, KnownInv, MapsInv
<1> QED BY <1>1, <1>2, <1>3, <1>4, <1>5, <1>6, <1>7, <1>8, ExecuteKnows DEF Next

\* What sonyd says of a feature the headphones have is what they are set to,
\* whichever way it learnt it, or they changed since without telling.
THEOREM KnownStaysTrue == Spec => []KnownIsTrue
<1>1. KnownInv => KnownIsTrue
  BY DEF KnownInv
<1> QED BY <1>1, KnownInit, KnownStep, PTL DEF Spec

-----------------------------------------------------------------------------
(* What a command does.                                                    *)

\* A preset's name is looked up in two lists, and stands for its code in both.
LEMMA PresetNamed ==
  ASSUME NEW arg, arg.word # "number", \E p \in Presets : p[1] = arg.word
  PROVE  <<arg.word, PresetFromName(arg)>> \in Presets
<1>1. PICK p \in Presets : p[1] = arg.word
  OBVIOUS
<1>2. PresetFromName(arg) = (CHOOSE q \in Presets \cup Aliases : q[1] = arg.word)[2]
  BY <1>1, Zenon DEF PresetFromName
<1>3. (CHOOSE q \in Presets \cup Aliases : q[1] = arg.word) = p
  BY <1>1, PresetsDiffer
<1>4. p = <<p[1], p[2]>>
  BY DEF Presets
<1> QED BY <1>1, <1>2, <1>3, <1>4

\* A line of text is taken for what the help says.
LEMMA TextDocumented ==
  ASSUME NEW r, IsRequest(r), r.form = "text", TextCall(r).feature \in Features
  PROVE  Documented(r, TextCall(r).feature, TextCall(r).value)
<1> DEFINE n == r.arg.number
<1>1. CASE r.verb = "anc"
  BY <1>1 DEF TextCall, Call, Noise, Documented
<1>2. CASE r.verb = "ambient"
  <2>1. r.arg.word = "number" /\ n \in 1..20 => Clamp(n, 1, 20) = n
    BY DEF Clamp
  <2>2. r.arg.word = "off" => TextCall(r) = Call("noise", Noise("off", 0, FALSE))
    BY <1>2 DEF TextCall
  <2>3. r.arg.word = "number" /\ n \in 1..20 =>
          TextCall(r) = Call("noise", Noise("ambient", n, FALSE))
    BY <1>2, <2>1 DEF TextCall
  <2>4. (r.form # "text" /\ r.flag) = FALSE
    BY Zenon
  <2>5. CASE r.arg.word = "off"
    BY <1>2, <2>2, <2>5 DEF Documented, Call, Noise
  <2>6. CASE r.arg.word = "number" /\ n \in 1..20
    <3> DEFINE want == Noise("ambient", n, FALSE)
    <3>1. want = Noise("ambient", n, r.form # "text" /\ r.flag)
      BY <2>4, Zenon
    <3>2. TextCall(r) = Call("noise", want)
      BY <2>3, <2>6
    <3> HIDE DEF want
    <3>3. Documented(r, "noise", want)
      BY <1>2, <2>6, <3>1 DEF Documented
    <3>4. TextCall(r).feature = "noise" /\ TextCall(r).value = want
      BY <3>2 DEF Call
    <3> QED BY <3>3, <3>4
  <2>7. CASE r.arg.word # "off" /\ ~(r.arg.word = "number" /\ n \in 1..20)
    BY <1>2, <2>7 DEF Documented
  <2> QED BY <2>5, <2>6, <2>7
<1>3. CASE r.verb = "eqPreset"
  <2> DEFINE names == {"off", "bright", "excited", "mellow", "relaxed", "vocal",
                       "treble-boost", "bass-boost", "speech", "manual"}
             v == TextCall(r).value
  <2>0. ASSUME r.arg.word = "number", n \in 0..255
        PROVE  v = n
    <3>1. r.arg # NoArgument
      <4>1. NoArgument.word = ""
        BY Zenon DEF NoArgument, Word
      <4>2. "number" # ""
        BY Zenon
      <4> QED BY <2>0, <4>1, <4>2, Zenon
    <3>2. PresetFromName(r.arg) = n
      BY <2>0 DEF PresetFromName
    <3> QED BY <1>3, <2>0, <3>1, <3>2 DEF TextCall, Call, Within
  <2>1. \A p \in Presets : p[1] \in names
    BY DEF Presets
  <2>2. "number" \notin names
    OBVIOUS
  <2>3. "" \notin names
    BY Zenon
  <2>4. ASSUME \E p \in Presets : p[1] = r.arg.word
        PROVE  <<r.arg.word, v>> \in Presets
    <3>1. r.arg.word # "number" /\ r.arg # NoArgument
      <4>1. r.arg.word \in names
        BY <2>1, <2>4
      <4>2. r.arg.word # "number" /\ r.arg.word # ""
        BY <2>2, <2>3, <4>1, Zenon
      <4>3. NoArgument.word = ""
        BY Zenon DEF NoArgument, Word
      <4> QED BY <4>2, <4>3, Zenon
    <3>2. TextCall(r).value = PresetFromName(r.arg)
      BY <1>3, <3>1 DEF TextCall, Call, Refused, Features
    <3> QED BY <2>4, <3>1, <3>2, PresetNamed
  <2>5. TextCall(r).feature = "preset"
    BY <1>3 DEF TextCall, Call, Refused, Features
  <2> HIDE DEF v
  <2>6. Documented(r, "preset", v)
    BY <1>3, <2>0, <2>4 DEF Documented
  <2> QED BY <2>5, <2>6 DEF v
<1>4. CASE r.verb = "eqCustom"
  <2>1. r.arg.word = "number" /\ n \in -10..10 => Clamp(n, -10, 10) = n
    BY DEF Clamp
  <2> QED BY <1>4, <2>1 DEF TextCall, Call, Documented
<1>5. CASE r.verb = "autoPowerOff"
  <2>1. r.arg.word = "number" /\ n \in 0..5 => Clamp(n, 0, 5) = n
    BY DEF Clamp
  <2> QED BY <1>5, <2>1 DEF TextCall, Call, Documented
<1>6. CASE r.verb \in {"dsee", "speakToChat", "adaptiveVolume"}
  BY <1>6 DEF TextCall, Call, Documented
<1>7. CASE r.verb \notin {"anc", "ambient", "eqCustom", "autoPowerOff", "eqPreset",
                          "dsee", "speakToChat", "adaptiveVolume"}
  BY <1>7, Zenon DEF Documented
<1> QED BY <1>1, <1>2, <1>3, <1>4, <1>5, <1>6, <1>7

\* And so is a JSON request that is not refused.
LEMMA JsonDocumented ==
  ASSUME NEW r, NEW c, IsRequest(r), r.form # "text", JsonCall(r, c).feature \in Features
  PROVE  Documented(r, JsonCall(r, c).feature, JsonCall(r, c).value)
<1>1. ASSUME JsonCall(r, c) = Refused
      PROVE  FALSE
  BY <1>1 DEF Refused, Call, Features
<1>2. CASE r.verb = "anc"
  BY <1>1, <1>2 DEF JsonCall, Call, Noise, Documented
<1>3. CASE r.verb = "ambient"
  <2> DEFINE voice == (r.form # "text" /\ r.flag)
  <2>1. JsonCall(r, c) = Call("noise", Noise("ambient", r.arg.number, r.flag))
        /\ r.arg.word = "number" /\ r.arg.number \in 1..20
    BY <1>1, <1>3 DEF JsonCall, Within, IsRequest
  <2>2. r.flag = voice
    BY Zenon DEF IsRequest
  <2> HIDE DEF voice
  <2> DEFINE want == Noise("ambient", r.arg.number, voice)
  <2>3. JsonCall(r, c) = Call("noise", want)
    BY <2>1, <2>2, Zenon
  <2>4. Documented(r, "noise", want)
    <3> SUFFICES want = Noise("ambient", r.arg.number, r.form # "text" /\ r.flag)
      BY <1>3, <2>1 DEF Documented
    <3> QED BY Zenon DEF voice
  <2> HIDE DEF want
  <2>5. JsonCall(r, c).feature = "noise" /\ JsonCall(r, c).value = want
    BY <2>3 DEF Call
  <2> QED BY <2>4, <2>5
<1>4. CASE r.verb = "eqPreset"
  <2>1. ~\E p \in Presets : p[1] = "number"
    BY DEF Presets
  <2>2. r.arg.word = "number"
    BY <1>1, <1>4 DEF JsonCall
  <2>3. JsonCall(r, c) = Call("preset", r.arg.number)
    BY <1>1, <1>4 DEF JsonCall
  <2> QED BY <1>4, <2>1, <2>2, <2>3 DEF Documented, Call
<1>5. CASE r.verb = "eqCustom"
  BY <1>1, <1>5 DEF JsonCall, Call, Documented
<1>6. CASE r.verb = "autoPowerOff"
  BY <1>1, <1>6 DEF JsonCall, Call, Documented
<1>7. CASE r.verb \in {"dsee", "speakToChat", "adaptiveVolume"}
  <2> DEFINE b == (r.arg.word = "on")
  <2>1. JsonCall(r, c) = Call(r.verb, b)
    BY <1>1, <1>7, Zenon DEF JsonCall
  <2>2. JsonCall(r, c).feature = r.verb /\ JsonCall(r, c).value = b
    <3> HIDE DEF b
    <3> QED BY <2>1 DEF Call
  <2> QED BY <1>7, <2>2 DEF Documented
<1>8. CASE r.verb \notin {"anc", "ambient", "eqCustom", "autoPowerOff", "eqPreset",
                          "dsee", "speakToChat", "adaptiveVolume"}
  BY <1>8, Zenon DEF Documented
<1> QED BY <1>2, <1>3, <1>4, <1>5, <1>6, <1>7, <1>8

\* A setter that is acknowledged has set what was asked for.
LEMMA SetDocumented ==
  ASSUME KnownInv, ExecuteSet, answer' = "ok", Wanted.feature \in can
  PROVE  Documented(request, Wanted.feature,
             Decode(Version(model), Wanted.feature, registers'[Wanted.feature]))
<1> DEFINE f == Wanted.feature
           v == Wanted.value
<1>1. f \in Set /\ v \in Allowed(f) /\ f \in Features
  BY WantedAllowed DEF ExecuteSet, KnownInv, MapsInv
<1>2. registers' = Taken(f, v)
  BY Zenon DEF ExecuteSet, Reply
<1>3. Documented(request, f, v)
  BY <1>1, TextDocumented, JsonDocumented DEF Wanted, KnownInv, MapsInv
<1> HIDE DEF f, v
<1>4. f \in can
  BY DEF f
<1>5. registers'[f] = Encode(Version(model), f, v)
  BY <1>1, <1>2, <1>4 DEF Taken
<1>6. Decode(Version(model), f, registers'[f]) = v
  BY <1>1, <1>5, SetSurvives DEF Version
<1>7. Documented(request, f, Decode(Version(model), f, registers'[f]))
  BY <1>3, <1>6
<1> QED BY <1>7 DEF f

\* A command that is said to have worked has done what the help says of it, on
\* any model, whichever language it was given in, and what went wrong is never
\* reported as success.
THEOREM DoesWhatIsDone == Spec => DoneIsDone
<1> DEFINE Done ==
      /\ ExecuteSet /\ answer' = "ok" /\ Wanted.feature \in can
            => Documented(request, Wanted.feature,
                   Decode(Version(model), Wanted.feature, registers'[Wanted.feature]))
      /\ stage = "done" /\ exit' = "ok" => answer = "ok"
<1>1. Spec => []KnownInv
  BY KnownInit, KnownStep, PTL DEF Spec
<1>2. KnownInv /\ [Next]_vars => [Done]_vars
  <2> SUFFICES ASSUME KnownInv, Next PROVE Done
    OBVIOUS
  <2>1. ASSUME stage = "done", exit' = "ok"
        PROVE  answer = "ok"
    <3>1. PICK late \in BOOLEAN : Answer(late)
      BY <2>1 DEF Next, Give, ConnectOnDemand, Execute, ExecuteConnect, ExecuteDisconnect,
         ExecuteDeviceless, ExecuteNoDevice, ExecuteRefused, ExecuteQuery,
         ExecuteSet, ExecuteReset, Reply, Change, Refresh, ConnectUnasked, Unlink
    <3> QED BY <2>1, <3>1 DEF Answer
  <2> QED BY <2>1, SetDocumented
<1> QED BY <1>1, <1>2, PTL DEF Spec, DoneIsDone
=============================================================================
