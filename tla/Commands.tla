------------------------------ MODULE Commands ------------------------------
(***************************************************************************)
(* A command from the keyboard to the headphones and back: sonyd's two     *)
(* request languages (IpcProtocol.cpp, JsonProtocol.cpp), the CLI with its *)
(* confirmation and --direct (main.cpp), the connection taken on demand    *)
(* (IpcServer.cpp), the setters (SonyDevice.cpp), what the two protocol    *)
(* versions put on the wire and read from it (ProtocolV1.cpp,              *)
(* ProtocolV2.cpp, DeviceEventDispatcher.cpp) and the profile each model   *)
(* gets (DeviceProfileRegistry.cpp).                                       *)
(*                                                                         *)
(* The executor runs one command at a time, so a step here is a whole one; *)
(* how clients, executor and reader interleave is for modules IpcServer,   *)
(* DeviceService, SonyDevice and Session.                                  *)
(***************************************************************************)
EXTENDS Integers, Sequences, FiniteSets

CONSTANTS
    Models,         \* the models of headphones that may be at the other end
    Requests,       \* what a client may ask
    Own,            \* what the headphones may hold of each feature
    None,           \* no value
    Silences,       \* bound: the sets of questions that together get no answer
    MaxCommands,    \* bound: commands given
    MaxChanges      \* bound: settings changed by other means

ModelNames == {"Unknown", "WH-1000XM3", "WH-1000XM4", "WH-1000XM5",
               "WH-1000XM6", "WF-1000XM4", "WF-1000XM5", "WF-1000XM6",
               "WH-CH720N", "ULT WEAR", "LinkBuds S"}

ASSUME CommandAssumption ==
    /\ Models \subseteq ModelNames
    /\ MaxCommands \in Nat /\ MaxChanges \in Nat

-----------------------------------------------------------------------------
(* The registry.                                                           *)

Oldest == {"battery", "noise", "voice"}
Later  == Oldest \cup {"preset", "bands"}
Newer  == Later \cup {"dsee", "autoPowerOff"}

Capabilities == [m \in ModelNames |->
    CASE m = "Unknown"                              -> {}
      [] m = "WH-1000XM3"                           -> Oldest
      [] m = "WH-1000XM4"                           -> Later
      [] m \in {"WH-CH720N", "ULT WEAR"}            -> Newer
      [] m \in {"WF-1000XM4", "LinkBuds S"}         -> Newer \cup {"speakToChat"}
      [] m \in {"WH-1000XM6", "WF-1000XM5", "WF-1000XM6"} ->
             Newer \cup {"speakToChat", "adaptiveVolume"}
      [] m = "WH-1000XM5" -> Newer \cup {"speakToChat", "adaptiveVolume",
                                         "reset", "factoryReset"}]

Version(m) == IF m \in {"Unknown", "WH-1000XM3", "WH-1000XM4"} THEN "V1" ELSE "V2"
Buds == {"WF-1000XM4", "WF-1000XM5", "WF-1000XM6", "LinkBuds S"}

-----------------------------------------------------------------------------
(* The wire: what a setting is sent as, and what a reading is taken for.   *)

Noise(mode, level, voice) == [mode |-> mode, level |-> level, voice |-> voice]

Clamp(n, lo, hi) == IF n < lo THEN lo ELSE IF n > hi THEN hi ELSE n

Bit(b) == IF b THEN 1 ELSE 0

\* Mutant: the loudest level cannot be sent.
EncodeNoiseV1Softer(nc) ==
    [effect |-> IF nc.mode = "off" THEN 0 ELSE 17,
     kind   |-> IF nc.mode = "cancelling" THEN 2 ELSE 0,
     voice  |-> Bit(nc.voice),
     level  |-> IF nc.mode = "ambient" THEN Clamp(nc.level, 1, 19) ELSE 0]

EncodeNoiseV1(nc) ==
    [effect |-> IF nc.mode = "off" THEN 0 ELSE 17,
     kind   |-> IF nc.mode = "cancelling" THEN 2 ELSE 0,        \* dualSingle
     voice  |-> Bit(nc.voice),
     level  |-> IF nc.mode = "ambient" THEN Clamp(nc.level, 1, 20) ELSE 0]

EncodeNoiseV2(nc) ==
    [effect |-> Bit(nc.mode # "off"),
     kind   |-> Bit(nc.mode = "ambient"),                       \* settingType
     voice  |-> Bit(nc.voice),
     level  |-> (IF nc.level > 0 THEN nc.level ELSE 1) % 256]

Mode(on, ambient) ==
    IF ~on THEN "off" ELSE IF ambient THEN "ambient" ELSE "cancelling"

DecodeNoiseV1(w) ==
    LET mode == Mode(w.effect # 0, w.kind = 0)
    IN  Noise(mode, IF mode = "ambient" THEN w.level ELSE 0, w.voice = 1)

\* The level is told of ambient sound that is off, too.
DecodeNoiseV2(w) ==
    Noise(Mode(w.effect # 0, w.kind # 0), IF w.kind # 0 THEN w.level ELSE 0, w.voice # 0)

EncodeNoise(version, nc) == IF version = "V1" THEN EncodeNoiseV1(nc) ELSE EncodeNoiseV2(nc)
DecodeNoise(version, w)  == IF version = "V1" THEN DecodeNoiseV1(w) ELSE DecodeNoiseV2(w)

AutoPowerOffCodes == <<<<17, 0>>, <<0, 0>>, <<1, 1>>, <<2, 2>>, <<3, 3>>, <<16, 0>>>>

IndexOfCode(code) ==
    IF \E i \in 1..6 : AutoPowerOffCodes[i] = code
    THEN (CHOOSE i \in 1..6 : AutoPowerOffCodes[i] = code) - 1 ELSE 0

\* Speak-to-chat and adaptive volume are sent inverted, DSEE is not.
Inverted == {"speakToChat", "adaptiveVolume"}

Encode(version, f, v) ==
    CASE f = "noise"        -> EncodeNoise(version, v)
      [] f = "preset"       -> v % 256
      [] f = "bands"        -> Clamp(v, -10, 10) + 10
      [] f = "autoPowerOff" -> AutoPowerOffCodes[v + 1]
      [] f \in Inverted     -> Bit(~v)
      [] OTHER              -> Bit(v)

Decode(version, f, w) ==
    CASE f = "noise"        -> DecodeNoise(version, w)
      [] f = "preset"       -> w
      [] f = "bands"        -> w - 10
      [] f = "autoPowerOff" -> IndexOfCode(w)
      [] f \in Inverted     -> w = 0
      [] OTHER              -> w # 0

\* getBattery() asks for the single cell and then for both buds.  Over-ear
\* models of the first generation answer the second question too, with their
\* one cell and an empty right one.
Answered(m) == IF m \in Buds THEN {"dual"}
               ELSE IF Version(m) = "V1" THEN {"single", "dual"} ELSE {"single"}

Least(cells) == IF cells.left < cells.right THEN cells.left ELSE cells.right

\* Mutant: the empty right cell is believed.
BothCellsV1Believed(cells) == Least(cells)

BothCellsV1(cells) ==
    IF cells.right = 0 /\ cells.left > 0 THEN cells.left ELSE Least(cells)

\* What is read when the questions in silent get no answer.
ReadBattery(m, cells, silent) ==
    LET answered == Answered(m) \ silent
    IN  CASE "single" \in answered -> cells.left
          [] answered = {"dual"} ->
                 IF Version(m) = "V1" THEN BothCellsV1(cells) ELSE Least(cells)
          [] OTHER -> None

-----------------------------------------------------------------------------
(* Requests.  The languages name some commands differently; here each has  *)
(* the name JSON gives it.  One number stands for the five bands and Clear *)
(* Bass.                                                                   *)

Word(w) == [word |-> w, number |-> 0]
Number(n) == [word |-> "number", number |-> n]
NoArgument == Word("")

\* The flag is --yes, "confirm" or "focusOnVoice".
Request(form, verb, arg, flag) ==
    [form |-> form, verb |-> verb, arg |-> arg, flag |-> flag]
NoRequest == Request("text", "", NoArgument, FALSE)

ASSUME RequestAssumption ==
    \A r \in Requests :
        /\ r = Request(r.form, r.verb, r.arg, r.flag)
        /\ r.arg.number \in Int /\ r.flag \in BOOLEAN

\* An over-ear model has one cell; those of the first generation tell of an
\* empty right one besides.
ASSUME OwnAssumption ==
    \A m \in Models : \A cells \in Own[m]["battery"] :
        /\ cells.left \in Nat
        /\ Version(m) = "V1" => cells.right = 0

Presets == {<<"off", 0>>, <<"bright", 16>>, <<"excited", 17>>, <<"mellow", 18>>,
            <<"relaxed", 19>>, <<"vocal", 20>>, <<"treble-boost", 21>>,
            <<"bass-boost", 22>>, <<"speech", 23>>, <<"manual", 160>>}
Aliases == {<<"treble", 21>>, <<"treble_boost", 21>>,
            <<"bass", 22>>, <<"bass_boost", 22>>}

PresetFromName(arg) ==
    IF arg.word = "number" THEN arg.number
    ELSE IF \E p \in Presets \cup Aliases : p[1] = arg.word
         THEN (CHOOSE p \in Presets \cup Aliases : p[1] = arg.word)[2]
         ELSE -1

Call(f, v) == [feature |-> f, value |-> v]
Refused == Call("refused", None)
Within(n, lo, hi) == lo <= n /\ n <= hi

\* What a line of text asks of the device: a word or number out of place is
\* given a meaning, not refused.
TextCall(r) ==
    LET off == r.arg.word = "off"
        number(lo, hi, default) ==
            IF r.arg.word = "number" THEN Clamp(r.arg.number, lo, hi) ELSE default
        preset == IF r.arg = NoArgument THEN 0 ELSE PresetFromName(r.arg)
    IN  CASE r.verb = "anc" ->
                 Call("noise", Noise(IF off THEN "off" ELSE "cancelling", 0, FALSE))
          [] r.verb = "ambient" ->
                 Call("noise", IF off THEN Noise("off", 0, FALSE)
                               ELSE Noise("ambient", number(1, 20, 10), FALSE))
          [] r.verb = "eqPreset" ->
                 IF Within(preset, 0, 255) THEN Call("preset", preset) ELSE Refused
          [] r.verb = "eqCustom" -> Call("bands", number(-10, 10, 0))
          [] r.verb = "autoPowerOff" -> Call("autoPowerOff", number(0, 5, 0))
          [] r.verb \in {"dsee", "speakToChat", "adaptiveVolume"} -> Call(r.verb, ~off)
          [] r.verb \in {"reset", "factoryReset"} -> Call(r.verb, None)
          [] r.verb = "info" -> Call("nothing", None)
          [] OTHER -> Refused

\* What a JSON request asks of it: what the profile lacks, is missing or is
\* out of range is refused.
JsonCall(r, can) ==
    LET number(lo, hi) == r.arg.word = "number" /\ Within(r.arg.number, lo, hi)
        switch == r.arg.word \in {"on", "off"}
        n == r.arg.number
    IN  CASE r.verb = "anc" /\ "noise" \in can /\ switch ->
                 Call("noise", Noise(IF r.arg.word = "on" THEN "cancelling"
                                     ELSE "off", 0, FALSE))
          [] r.verb = "ambient" /\ "noise" \in can /\ number(1, 20)
                 /\ (r.flag => "voice" \in can) ->
                 Call("noise", Noise("ambient", n, r.flag))
          [] r.verb = "eqPreset" /\ "preset" \in can /\ number(0, 255)
                 /\ (\E p \in Presets : p[2] = n) -> Call("preset", n)
          [] r.verb = "eqCustom" /\ "bands" \in can /\ number(-10, 10) ->
                 Call("bands", n)
          [] r.verb = "autoPowerOff" /\ "autoPowerOff" \in can /\ number(0, 5) ->
                 Call("autoPowerOff", n)
          [] r.verb \in {"dsee", "speakToChat", "adaptiveVolume"} \cap can /\ switch ->
                 Call(r.verb, r.arg.word = "on")
          [] r.verb = "reset" /\ "reset" \in can -> Call("reset", None)
          [] r.verb = "factoryReset" /\ "factoryReset" \in can /\ r.flag ->
                 Call("factoryReset", None)
          [] OTHER -> Refused

\* Mutant: nothing needs to be confirmed.
NeedsNoConfirmation(r) == FALSE

\* needsConfirmation()
NeedsConfirmation(r) == r.form = "text" /\ r.verb = "factoryReset" /\ ~r.flag

\* Mutant: "info" is taken for one of the commands that need no device.
NeedsConnectionButForInfo(r) ==
    /\ r.form = "text" /\ ~NeedsConfirmation(r)
    /\ r.verb \notin {"raw", "devices", "status", "info"}

\* commandNeedsConnection(), in a Release build
NeedsConnection(r) ==
    /\ r.form = "text" /\ ~NeedsConfirmation(r)
    /\ r.verb \notin {"raw", "devices", "status"}

\* What SonyDevice and the protocol versions let through: the profile is looked
\* at for the riskier commands, and V1 throws for those it does not have.
Checked == {"speakToChat", "adaptiveVolume", "reset", "factoryReset"}
V2Only  == Checked \cup {"dsee", "autoPowerOff"}
Sendable(m, f) ==
    /\ f \in Checked => f \in Capabilities[m]
    /\ Version(m) = "V1" => f \notin V2Only

-----------------------------------------------------------------------------
Features == {"noise", "preset", "bands", "dsee", "autoPowerOff", "speakToChat",
             "adaptiveVolume", "battery"}

VARIABLES
    model,      \* the headphones,
    registers,  \* their settings and cells, as they go over the wire,
    link,       \* and whether they are connected
    known,      \* SonyDevice::_state: what the host believes of each feature
    stale,      \* the features changed since in ways it was not told of
    stage,      \* the command: "idle", "sent", "ready" to execute or "done",
    via,        \* given to the CLI, with --direct, or to the socket,
    request, answer,
    exit,       \* and what the CLI ended with
    consent,    \* history: the human confirmed this command,
    tried,      \* the device was connected, or asked, for it,
    wiped,      \* a factory reset reached the headphones
    commands, changes

deviceVars  == <<model, registers>>
hostVars    == <<link, known, stale>>
commandVars == <<stage, via, request, answer, exit>>
histVars    == <<consent, tried, wiped, commands, changes>>
vars == <<deviceVars, hostVars, commandVars, histVars>>

can == Capabilities[model]

FirstRegisters(m) ==
    [f \in Features |->
        CASE f = "battery" -> [left |-> 60, right |-> IF m \in Buds THEN 50 ELSE 0]
          [] f = "noise"   -> EncodeNoise(Version(m), Noise("cancelling", 0, FALSE))
          [] f = "preset"  -> 0
          [] f = "bands"   -> 10
          [] f = "autoPowerOff" -> <<17, 0>>
          [] OTHER         -> 0]

Init ==
    /\ model \in Models /\ registers = FirstRegisters(model)
    /\ link = FALSE /\ known = [f \in Features |-> None] /\ stale = {}
    /\ stage = "idle" /\ via = "cli" /\ request = NoRequest
    /\ answer = "none" /\ exit = "none"
    /\ consent = FALSE /\ tried = FALSE /\ wiped = FALSE
    /\ commands = 0 /\ changes = 0

\* A reading of feature f when the questions in silent get no answer.
Question(f) == IF f \in {"preset", "bands"} THEN "equalizer" ELSE f
Reading(f, silent) ==
    IF f = "battery" THEN ReadBattery(model, registers["battery"], silent)
    ELSE IF Question(f) \in silent THEN None
         ELSE Decode(Version(model), f, registers[f])

\* SonyDevice::connect(): what was known is forgotten, then refreshAll().
AtConnect == {"battery", "noise", "preset", "bands", "dsee"}
Questions == {"single", "dual", "noise", "equalizer", "dsee"}
Connected(silent) ==
    /\ link' = TRUE /\ stale' = {}
    /\ known' = [f \in Features |-> IF f \in AtConnect \cap can
                                    THEN Reading(f, silent) ELSE None]
ConnectFails == link' = FALSE /\ known' = [f \in Features |-> None] /\ stale' = {}
Connects == ConnectFails \/ \E silent \in Silences : Connected(silent)

-----------------------------------------------------------------------------
(* The client's side of a command.                                         *)

\* main(): a factory reset is confirmed by a human, who says sure, or by --yes,
\* before anything is sent; other clients of the socket may send what they like.
Give(r, v, sure) ==
    /\ stage = "idle" /\ commands < MaxCommands /\ commands' = commands + 1
    /\ v = "direct" => r.form = "text" /\ ~link
    /\ sure => v # "socket" /\ NeedsConfirmation(r)
    /\ via' = v /\ answer' = "none" /\ tried' = FALSE
    /\ consent' = (sure \/ (r.verb = "factoryReset" /\ r.flag))
    /\ IF v # "socket" /\ NeedsConfirmation(r) /\ ~sure
       THEN /\ exit' = "error" /\ UNCHANGED <<stage, request>>
       ELSE /\ stage' = "sent" /\ exit' = "none"
            /\ request' = [r EXCEPT !.flag =
                   r.flag \/ sure]
    /\ UNCHANGED <<deviceVars, hostVars, wiped, changes>>

\* _connectOnDemand(); main() with --direct connects for anything but devices.
ConnectOnDemand ==
    /\ stage = "sent" /\ stage' = "ready"
    /\ IF ~link /\ (IF via = "direct" THEN request.verb # "devices"
                    ELSE NeedsConnection(request))
       THEN Connects /\ tried' = TRUE
       ELSE tried' = link /\ UNCHANGED hostVars
    /\ UNCHANGED <<deviceVars, via, request, answer, exit, consent, wiped,
                   commands, changes>>

\* The answer goes back to whoever waits for it, for 15 seconds at most.  The
\* CLI takes JSON for a failure: its lines do not begin with OK.
Answer(late) ==
    /\ stage = "done" /\ stage' = "idle" /\ request' = NoRequest
    /\ exit' = IF late \/ answer # "ok" \/ (via = "cli" /\ request.form = "json")
               THEN "error" ELSE "ok"
    /\ consent' = FALSE /\ tried' = FALSE
    /\ IF via = "direct"                        \* the process ends
       THEN link' = FALSE /\ known' = [f \in Features |-> None] /\ stale' = {}
       ELSE UNCHANGED hostVars
    /\ answer' = "none" /\ via' = "cli"
    /\ UNCHANGED <<deviceVars, wiped, commands, changes>>

-----------------------------------------------------------------------------
(* execute(), of both languages.                                           *)

Reply(a) == stage = "ready" /\ stage' = "done" /\ answer' = a
            /\ UNCHANGED <<via, request, exit, consent, tried, commands, changes>>
Unmoved == UNCHANGED <<deviceVars, hostVars, wiped>>

\* JSON's "connect" and "disconnect", which other clients use.
ExecuteConnect ==
    /\ request.form = "json" /\ request.verb = "connect"
    /\ \/ ConnectFails /\ Reply("failed")
       \/ \E silent \in Silences : Connected(silent) /\ Reply("ok")
    /\ UNCHANGED <<deviceVars, wiped>>

ExecuteDisconnect ==
    /\ request.form = "json" /\ request.verb = "disconnect"
    /\ link' = FALSE /\ Reply("ok") /\ UNCHANGED <<deviceVars, known, stale, wiped>>

\* What is answered without the device.
Deviceless(r) ==
    \/ r.verb = "devices"
    \/ r.form = "text" /\ (NeedsConfirmation(r) \/ r.verb \in {"raw", "status"})
    \/ r.form = "json" /\ r.verb = "snapshot"

ExecuteDeviceless ==
    /\ Deviceless(request) /\ Unmoved
    /\ Reply(CASE request.verb \in {"devices", "snapshot"} -> "ok"
               [] request.verb = "status" -> (IF link THEN "ok" ELSE "noDevice")
               [] OTHER -> "refused")

\* What it sets.
Wanted == IF request.form = "text" THEN TextCall(request) ELSE JsonCall(request, can)
IsDeviceCall == /\ stage = "ready" /\ ~Deviceless(request)
                /\ ~(request.form = "json" /\ request.verb \in {"connect", "disconnect"})

ExecuteNoDevice == IsDeviceCall /\ ~link /\ Reply("noDevice") /\ Unmoved

ExecuteRefused ==
    /\ IsDeviceCall /\ link /\ Unmoved
    /\ Wanted.feature = "refused" \/ ~Sendable(model, Wanted.feature)
    /\ Reply("refused")

ExecuteQuery ==
    /\ IsDeviceCall /\ link /\ Wanted.feature = "nothing" /\ Unmoved /\ Reply("ok")

\* The headphones take what they have the feature for, and ignore the rest.  A
\* preset brings bands of its own, and bands make the preset the manual one.
Taken(f, v) ==
    IF f \in can
    THEN [g \in Features |->
             CASE g = f -> Encode(Version(model), f, v)
               [] g = "preset" /\ f = "bands" -> 160
               [] OTHER -> registers[g]]
    ELSE registers

Recorded(f, v) ==
    [g \in Features |-> CASE g = f -> v
                          [] g = "preset" /\ f = "bands" -> 160
                          [] OTHER -> known[g]]

Disturbed(f) == IF f \in {"preset", "bands"} THEN {"preset", "bands"} ELSE {f}

\* A setter sends and, once that has been acknowledged, records.
ExecuteSet ==
    /\ IsDeviceCall /\ link /\ Sendable(model, Wanted.feature)
    /\ LET f == Wanted.feature IN
       /\ f \in Features
       /\ \/ /\ registers' = Taken(f, Wanted.value)
             /\ known' = Recorded(f, Wanted.value)
             /\ stale' = (stale \ Disturbed(f)) \cup (Disturbed(f) \ {f, "preset"})
             /\ Reply("ok")
          \/ /\ registers' \in {registers, Taken(f, Wanted.value)}
             /\ stale' = stale \cup Disturbed(f)
             /\ Reply("failed") /\ UNCHANGED known
    /\ UNCHANGED <<model, link, wiped>>

\* reset() and factoryReset(), after which the headphones go their own way.
ExecuteReset ==
    /\ IsDeviceCall /\ link /\ Sendable(model, Wanted.feature)
    /\ Wanted.feature \in {"reset", "factoryReset"}
    /\ \E taken, acked \in BOOLEAN :
           /\ acked => taken
           /\ wiped' = (wiped \/ (taken /\ Wanted.feature = "factoryReset"))
           /\ stale' = IF taken THEN Features ELSE stale
           /\ Reply(IF acked THEN "ok" ELSE "failed")
    /\ UNCHANGED <<deviceVars, link, known>>

-----------------------------------------------------------------------------
(* Meanwhile.                                                              *)

\* What the host takes in of a notification: parseNotificationPayload().
Parsed(m, f) == f \in {"preset", "bands"} \/ (Version(m) = "V2" /\ f \in {"noise", "battery"})

Notified(f, w) ==
    CASE f = "noise"   -> DecodeNoiseV2(w)
      [] f = "battery" -> IF model \in Buds THEN Least(w) ELSE w.left
      [] OTHER         -> Decode(Version(model), f, w)

\* The headphones change of themselves, by their buttons or another host's
\* doing, and tell of it or not.
Change(f, w, tells) ==
    /\ stage = "idle" /\ changes < MaxChanges /\ changes' = changes + 1
    /\ f \in can /\ registers[f] # w
    /\ registers' = [registers EXCEPT ![f] = w]
    /\ IF link /\ tells /\ Parsed(model, f)
       THEN known' = [known EXCEPT ![f] = Notified(f, w)] /\ stale' = stale \ {f}
       ELSE stale' = stale \cup {f} /\ UNCHANGED known
    /\ UNCHANGED <<model, link, commandVars, consent, tried, wiped, commands>>

\* One of the refreshes, which may get no answer to some of its questions.
Refresh(f, silent) ==
    /\ stage = "idle" /\ link /\ f \in can \cap Features
    /\ Reading(f, silent) # None
    /\ LET read == {g \in can \cap Features : Question(g) = Question(f)} IN
       /\ known' = [g \in Features |-> IF g \in read THEN Reading(g, silent) ELSE known[g]]
       /\ stale' = stale \ read
    /\ UNCHANGED <<deviceVars, link, commandVars, histVars>>

\* DeviceService in its automatic mode connects without being asked.
ConnectUnasked ==
    /\ stage = "idle" /\ ~link
    /\ \E silent \in Silences : Connected(silent)
    /\ UNCHANGED <<deviceVars, commandVars, histVars>>

\* The link is lost, or given back when idle.
Unlink ==
    /\ link /\ stage # "done" /\ link' = FALSE
    /\ UNCHANGED <<deviceVars, known, stale, commandVars, histVars>>

Execute ==
    \/ ExecuteConnect \/ ExecuteDisconnect \/ ExecuteDeviceless
    \/ ExecuteNoDevice \/ ExecuteRefused \/ ExecuteQuery \/ ExecuteSet
    \/ ExecuteReset

Next ==
    \/ \E r \in Requests, v \in {"cli", "direct", "socket"}, sure \in BOOLEAN :
           Give(r, v, sure)
    \/ ConnectOnDemand
    \/ Execute
    \/ \E late \in BOOLEAN : Answer(late)
    \/ \E f \in Features, tells \in BOOLEAN : \E w \in Own[model][f] : Change(f, w, tells)
    \/ \E f \in Features, silent \in Silences : Refresh(f, silent)
    \/ ConnectUnasked
    \/ Unlink

Spec == Init /\ [][Next]_vars

-----------------------------------------------------------------------------
(* Properties.                                                             *)

\* What a feature is in words: the value its register stands for, and for the
\* battery the charge of the emptier cell there is.
Truth(f) ==
    IF f = "battery" THEN (IF model \in Buds THEN Least(registers[f]) ELSE registers[f].left)
    ELSE Decode(Version(model), f, registers[f])

\* What sonyd says of a feature the headphones have is what they are set to,
\* whichever way it learnt it (its own setter, a reading of which some questions
\* went unanswered, a notification), unless they changed untold: setters record
\* what they send, clamped as it is sent, and the parsers of the two versions
\* and of notifications read the same layouts.
KnownIsTrue ==
    \A f \in Features \cap can : known[f] \in {None, Truth(f)} \/ f \in stale

\* What the help of sony-wh-cli says a command does (main.cpp:119-181); a preset
\* may be told by its number, and JSON asks for voices besides (JsonProtocol.cpp:143).
Documented(r, f, v) ==
    LET a == r.arg IN
    CASE r.verb = "anc" /\ a.word = "on"  -> f = "noise" /\ v.mode = "cancelling"
      [] r.verb = "anc" /\ a.word = "off" -> f = "noise" /\ v.mode = "off"
      [] r.verb = "ambient" /\ a.word = "off" -> f = "noise" /\ v.mode = "off"
      [] r.verb = "ambient" /\ a.word = "number" /\ a.number \in 1..20 ->
             f = "noise" /\ v = Noise("ambient", a.number, r.form # "text" /\ r.flag)
      [] r.verb = "eqPreset" /\ a.word = "number" /\ a.number \in 0..255 ->
             f = "preset" /\ v = a.number
      [] r.verb = "eqPreset" /\ \E p \in Presets : p[1] = a.word ->
             f = "preset" /\ <<a.word, v>> \in Presets
      [] r.verb = "eqCustom" /\ a.word = "number" /\ a.number \in -10..10 ->
             f = "bands" /\ v = a.number
      [] r.verb = "autoPowerOff" /\ a.word = "number" /\ a.number \in 0..5 ->
             f = "autoPowerOff" /\ v = a.number
      [] r.verb \in {"dsee", "speakToChat", "adaptiveVolume"} /\ a.word \in {"on", "off"} ->
             f = r.verb /\ v = (a.word = "on")
      [] OTHER -> TRUE

\* A command that is reported to have worked has left the headphones as its
\* documentation says, in either language, for either generation.
DoneIsDone ==
    [][ /\ ExecuteSet /\ answer' = "ok" /\ Wanted.feature \in can
            => Documented(request, Wanted.feature,
                   Decode(Version(model), Wanted.feature, registers'[Wanted.feature]))
        /\ stage = "done" /\ exit' = "ok" => answer = "ok" ]_vars

\* The pairing is wiped only by a command the human confirmed, and only on the
\* model the opcode is known for (SonyDevice.cpp:361-369, IpcProtocol.h:49-52).
WipedOnConsent == [][wiped' /\ ~wiped => consent /\ model = "WH-1000XM5"]_vars

\* "No device connected" is said only when the connection was there or has been
\* asked for: what execute() needs the device for, the server connects for,
\* though each has a list of its own.
AskedFirst ==
    [][stage = "ready" /\ answer' = "noDevice" /\ request.form = "text"
       /\ request.verb # "status" => tried]_vars
=============================================================================
