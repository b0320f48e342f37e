----------------------------- MODULE Headphones -----------------------------
(* The older host library: Headphones.cpp, which keeps what the user wants  *)
(* beside what the headphones are believed to have, CommandSerializer.cpp,  *)
(* and BluetoothWrapper.cpp, which lets one command use the link at a time. *)
(*                                                                          *)
(* Several threads share the object.  The user chooses; one thread at a     *)
(* time runs setChanges() (SingleInstanceFuture); others poll and set single *)
(* features; notifications are handled as they come.  _propertyMtx covers   *)
(* each assignment, but neither the reads of setChanges() nor the time      *)
(* between an answer and its record: each of those is a step here.          *)
EXTENDS Integers, Sequences

CONSTANTS
    Versions,       \* the protocol versions the headphones may speak
    Levels,         \* what setAsmLevel() is given
    VptTypes,       \* what setVptType() is given
    Positions,      \* what setSurroundPosition() is given
    Supported,      \* the features the headphones answer for
    Values,         \* what a feature may be
    OwnSettings,    \* the noise settings the headphones may have by themselves
    Callers,        \* the threads that poll and set features
    MaxChoices,     \* bound: what the user chooses
    MaxChanges,     \* bound: what the headphones change, and features set
    MaxUnread,      \* bound: answers left unread
    None            \* no value

Off == 0
OutOfRange == -1
Probed == {"firmware", "codec", "autoPowerOff", "adaptiveVolume", "speakToChat"}
Batteries == {"single", "dual", "case"}
Features == Probed \cup Batteries \cup {"equalizer", "dsee"}
Settable == {"equalizer", "dsee", "autoPowerOff", "adaptiveVolume", "speakToChat"}

ASSUME HeadphonesAssumption ==
    /\ Versions \subseteq {"V1", "V2"}
    /\ Levels \subseteq 0..127
    /\ VptTypes \subseteq Nat /\ Positions \subseteq Nat
    /\ Supported \subseteq Features
    /\ OwnSettings \subseteq [effect : {0, 1}, kind : {0, 1}, voice : {0, 1},
                              level : 0..127]
    /\ None \notin Values /\ None \notin Int
    /\ None \notin Features \cup {"noise", "vpt"}
    /\ MaxChoices \in Nat /\ MaxChanges \in Nat /\ MaxUnread \in Nat
    /\ "changer" \notin Callers

VARIABLES
    version,        \* the headphones' protocol version
    desired,        \* what the user wants: the five Property<>::desired
    current,        \* what the headphones are believed to have: ::current
    copy,           \* _deviceState.noiseControl
    known,          \* the rest of _deviceState, None as long as _has... is false
    device,         \* what the headphones have when they have taken what they were
                    \* sent; of VPT, the last command
    unread,         \* answers nobody has read yet, those in _leftoverBytes first
    notes,          \* notifications on their way
    changer,        \* where setChanges() is
    message,        \* the command it puts together
    calls,          \* what each caller does
    choices, changes,   \* counted against the bounds
    undisturbed,    \* history: the threads nothing has crossed since they began,
                    \* no answer to an earlier question either
    settled         \* history: what was last sent or read undisturbed

vars == <<version, desired, current, copy, known, device, unread, notes,
          changer, message, calls, choices, changes, undisturbed, settled>>

host    == <<desired, current, copy, known>>
link    == <<unread, notes>>
bounded == <<choices, changes>>

-----------------------------------------------------------------------------
(* What a noise setting is sent as and read as.  A value of the user's is a *)
(* record with on (_ambientSoundControl), level (_asmLevel) and voice.      *)

Fields == {"effect", "kind", "voice", "level"}
Unread == [field \in Fields |-> None]
MaxSteps == 19

Bit(b) == IF b THEN 1 ELSE 0

\* "Disabled" is a level of the first generation; it alone has no kind of its
\* own, since the level tells it (getDualSingleForAsmLevel).
PartV1(field, want) ==
    CASE field = "effect" -> IF want.on THEN 17 ELSE 0
      [] field = "voice"  -> Bit(want.voice)
      [] OTHER            -> IF want.on THEN want.level ELSE -1

\* Mutant: noise cancelling, level 0, is sent as ambient sound.
PartV2AlwaysAmbient(field, want) ==
    CASE field = "effect" -> Bit(want.on)
      [] field = "kind"   -> Bit(want.level >= 0)
      [] field = "voice"  -> Bit(want.voice)
      [] OTHER            -> IF want.level > 0 THEN want.level ELSE 1

PartV2(field, want) ==
    CASE field = "effect" -> Bit(want.on)
      [] field = "kind"   -> Bit(want.level > 0)
      [] field = "voice"  -> Bit(want.voice)
      [] OTHER            -> IF want.level > 0 THEN want.level ELSE 1

Part(field, want) == IF version = "V1" THEN PartV1(field, want) ELSE PartV2(field, want)

\* The order in which setChanges() reads: one statement after the other in the
\* first generation; the level, then the arguments of one call in the second.
ReadsNow(field) ==
    /\ message[field] = None
    /\ IF version = "V1"
       THEN /\ field # "kind"
            /\ field = "voice" => message.effect # None
            /\ field = "level" => message.voice # None
       ELSE field # "level" => message.level # None

AllRead == \A field \in Fields :
               message[field] # None \/ (version = "V1" /\ field = "kind")

DualSingle(level) == IF level = 1 THEN 1 ELSE IF level = 0 THEN 2 ELSE 0

Serialized == IF version = "V1"
              THEN [message EXCEPT !.kind = DualSingle(message.level)]
              ELSE message

Mode(on, ambient) ==
    IF ~on THEN "off" ELSE IF ambient THEN "ambient" ELSE "cancelling"

\* requestAmbientState() and parseNotificationPayload(), second generation.
Parsed(w) == [mode  |-> Mode(w.effect # 0, w.kind # 0),
              level |-> IF w.kind # 0 THEN w.level ELSE 0,
              voice |-> w.voice # 0]

-----------------------------------------------------------------------------
(* The user chooses.                                                        *)

Properties == {"on", "level", "voice", "vpt", "surround"}

RangeOf(property) == CASE property \in {"on", "voice"} -> BOOLEAN
                     [] property = "level"    -> Levels
                     [] property = "vpt"      -> VptTypes
                     [] property = "surround" -> Positions

Choose(property, value) ==
    /\ choices < MaxChoices /\ value # desired[property]
    /\ choices' = choices + 1
    /\ desired' = [desired EXCEPT ![property] = value]
    /\ undisturbed' = undisturbed \ {"changer"}
    /\ UNCHANGED <<version, current, copy, known, device, unread, notes, changer,
                   message, calls, changes, settled>>

Fulfilled(properties) == \A p \in properties : desired[p] = current[p]

-----------------------------------------------------------------------------
(* setChanges().                                                            *)

NoiseProperties == {"on", "level", "voice"}
VptProperties   == {"vpt", "surround"}

Start ==
    /\ changer = "idle"
    /\ changer' = IF Fulfilled(NoiseProperties) THEN "vpt" ELSE "reading"
    /\ undisturbed' = undisturbed \cup {"changer"}
    /\ UNCHANGED <<version, host, device, link, message, calls, bounded, settled>>

\* It returns or throws.
Return ==
    /\ changer' = "idle" /\ message' = Unread
    /\ undisturbed' = undisturbed \ {"changer"}

ReadField(field) ==
    /\ changer = "reading"
    /\ ReadsNow(field)
    /\ message' = [message EXCEPT ![field] = Part(field, desired)]
    /\ UNCHANGED <<version, host, device, link, changer, calls, bounded,
                   undisturbed, settled>>

\* serializeNcAndAsmSetting() refuses a level above MAX_STEPS_WH_1000_XM3, and
\* with it goes what setChanges() would have done after it.
ExceedMaxSteps ==
    /\ changer = "reading" /\ AllRead
    /\ version = "V1" /\ message.level > MaxSteps
    /\ Return
    /\ UNCHANGED <<version, host, device, link, calls, bounded, settled>>

\* _waitForAck() takes the next message for the ACK, whatever it is: an answer
\* that nobody has read is gone, or stays behind an older ACK.
AckTaken == unread' = unread \/ (unread # <<>> /\ unread' = Tail(unread))

\* A send that throws may have arrived; one that does not, may have taken
\* another message for its ACK.
Send(what, value, next) ==
    \/ /\ device' = [device EXCEPT ![what] = value]
       /\ settled' = settled \ {what}
       /\ undisturbed' = IF unread = <<>> THEN undisturbed \ Callers ELSE {}
       /\ AckTaken
       /\ changer' = next
       /\ UNCHANGED message
    \/ /\ device' \in {device, [device EXCEPT ![what] = value]}
       /\ settled' = settled \ {what}
       /\ undisturbed' = {}
       /\ UNCHANGED unread
       /\ changer' = "idle" /\ message' = Unread

SendNoise ==
    /\ changer = "reading" /\ AllRead
    /\ ~(version = "V1" /\ message.level > MaxSteps)
    /\ Send("noise", Serialized, "sent")
    /\ UNCHANGED <<version, host, notes, calls, bounded>>

\* History: what thread has brought in line is settled if nothing crossed it.
Settle(thread, what) ==
    settled' = IF thread \in undisturbed THEN settled \cup {what} ELSE settled \ {what}

\* Mutant: the copy is made of what was sent, not of what is believed.
RecordSentNoise ==
    /\ changer = "sent"
    /\ changer' = "vpt" /\ message' = Unread
    /\ current' = [current EXCEPT !.on = desired.on, !.level = desired.level,
                                  !.voice = desired.voice]
    /\ copy' = [mode  |-> Mode(message.effect # 0, message.level > 0),
                level |-> message.level, voice |-> message.voice # 0]
    /\ Settle("changer", "noise")
    /\ UNCHANGED <<version, desired, known, device, link, calls, bounded,
                   undisturbed>>

RecordNoise ==
    /\ changer = "sent"
    /\ changer' = "vpt" /\ message' = Unread
    /\ current' = [current EXCEPT !.on = desired.on, !.level = desired.level,
                                  !.voice = desired.voice]
    /\ copy' = [mode  |-> Mode(current'.on, current'.level > 0),
                level |-> current'.level, voice |-> current'.voice]
    /\ Settle("changer", "noise")
    /\ UNCHANGED <<version, desired, known, device, link, calls, bounded,
                   undisturbed>>

\* The second generation knows no VPT command.
CheckVpt ==
    /\ changer = "vpt"
    /\ IF version = "V1" /\ ~Fulfilled(VptProperties)
       THEN changer' = "choosing" /\ UNCHANGED <<message, undisturbed>>
       ELSE Return
    /\ UNCHANGED <<version, host, device, link, calls, bounded, settled>>

\* The choice of the command, and its preset, which is read once more.
ChooseVpt ==
    /\ changer = "choosing"
    /\ \/ /\ \E p \in VptProperties :
                /\ desired[p] # Off
                /\ p = "surround" => desired.vpt = Off
                /\ message' = [kind |-> p, preset |-> None]
          /\ changer' = "preset"
          /\ UNCHANGED undisturbed
       \/ /\ \A p \in VptProperties : desired[p] = Off
          /\ \E p \in VptProperties :
                /\ current[p] # Off
                /\ p = "vpt" => current.surround = Off
                /\ message' = [kind |-> p, preset |-> Off]
          /\ changer' = "vptReady"
          /\ UNCHANGED undisturbed
       \/ /\ \A p \in VptProperties : desired[p] = Off /\ current[p] = Off
          /\ Return                             \* std::logic_error
    /\ UNCHANGED <<version, host, device, link, calls, bounded, settled>>

ReadPreset ==
    /\ changer = "preset"
    /\ changer' = "vptReady"
    /\ message' = [message EXCEPT !.preset = desired[message.kind]]
    /\ UNCHANGED <<version, host, device, link, calls, bounded, undisturbed, settled>>

SendVpt ==
    /\ changer = "vptReady"
    /\ Send("vpt", message, "vptSent")
    /\ UNCHANGED <<version, host, notes, calls, bounded>>

RecordVpt ==
    /\ changer = "vptSent"
    /\ Return
    /\ current' = [current EXCEPT !.vpt = desired.vpt, !.surround = desired.surround]
    /\ Settle("changer", "vpt")
    /\ UNCHANGED <<version, desired, copy, known, device, link, calls,
                   bounded>>

SetChanges ==
    \/ Start \/ ExceedMaxSteps \/ SendNoise \/ RecordNoise
    \/ CheckVpt \/ ChooseVpt \/ ReadPreset \/ SendVpt \/ RecordVpt
    \/ \E field \in Fields : ReadField(field)

-----------------------------------------------------------------------------
(* Polls and features.                                                      *)

Nothing == [of |-> None, answer |-> None]

\* The answers there are to read once f has been asked for: those that nobody
\* has read and, if the headphones answer, what f is now.  (external)
Stream(f) ==
    unread \o
    IF f \in DOMAIN device THEN <<[of |-> f, value |-> device[f]]>> ELSE <<>>

\* The first message that answers a question for f.
Answers(messages, f) ==
    {i \in DOMAIN messages :
        messages[i].of = f /\ \A j \in 1 .. i - 1 : messages[j].of # f}

\* requestAmbientState(), requestEqualizer(), requestDsee(), requestBattery() and
\* probeCapabilities() ask one question after the other and record each answer
\* for itself.  All is read up to a message that answers, even if it answers an
\* earlier question, for which it was too late; the headphones may send it again
\* before they know that it was read.
Poll(c, f) ==
    /\ calls[c] = Nothing
    /\ \E i \in Answers(Stream(f), f) :
          LET answer == Stream(f)[i]
          IN  /\ calls' = [calls EXCEPT ![c] = [of |-> f, answer |-> answer.value]]
              /\ \E again \in {<<>>, <<answer>>} :
                    unread' = again \o SubSeq(Stream(f), i + 1, Len(Stream(f)))
              /\ undisturbed' = IF i > Len(unread) THEN undisturbed \cup {c}
                                                    ELSE undisturbed \ {c}
    /\ Len(unread') <= MaxUnread
    /\ UNCHANGED <<version, host, device, notes, changer, message, bounded, settled>>

\* recv() times out, or sixteen messages are read: those that have come are
\* gone, the others are left to whoever reads next, and nothing is recorded.
\* What the headphones do not answer for is all one: None.
PollFails(c, f) ==
    /\ calls[c] = Nothing
    /\ \E n \in 0 .. Len(Stream(f)) :
          /\ \A j \in 1 .. n : Stream(f)[j].of # f
          /\ unread' = SubSeq(Stream(f), n + 1, Len(Stream(f)))
    /\ Len(unread') <= MaxUnread
    /\ UNCHANGED <<version, host, device, notes, changer, message, calls, bounded,
                   undisturbed, settled>>

\* A feature is set at once.  Its setter is not called unless the probe found
\* it (Headphones.h:84-85).
SetFeature(c, f, value) ==
    /\ calls[c] = Nothing
    /\ f \in Settable \cap Supported /\ (f \in Probed => known[f] # None)
    /\ changes < MaxChanges /\ changes' = changes + 1
    /\ device' = [device EXCEPT ![f] = value]
    /\ \/ /\ calls' = [calls EXCEPT ![c] = [of |-> f, answer |-> value]]
          /\ undisturbed' = (undisturbed \ Callers) \cup
                                  (IF unread = <<>> THEN {c} ELSE {})
          /\ AckTaken
       \/ /\ UNCHANGED <<calls, unread>>         \* sent, and then it threw
          /\ undisturbed' = undisturbed \ Callers
    /\ settled' = settled \ {f}
    /\ UNCHANGED <<version, host, notes, changer, message, choices>>

\* Mutant: what is off has the level by which "off" is sent.
FromCopyDisabled(properties, nc) ==
    [properties EXCEPT !.on    = nc.mode # "off",
                       !.level = IF nc.mode = "off" THEN -1 ELSE nc.level,
                       !.voice = nc.mode # "off" /\ nc.voice]

\* The properties as the copy has them.
FromCopy(properties, nc) ==
    [properties EXCEPT !.on    = nc.mode # "off",
                       !.level = IF nc.mode = "off" THEN 0 ELSE nc.level,
                       !.voice = nc.mode # "off" /\ nc.voice]

\* The properties as the answer has them.
FromReply(properties, w) ==
    [properties EXCEPT !.on = w.effect # 0, !.level = Parsed(w).level,
                       !.voice = w.voice # 0]

\* The answer is recorded.  That to the noise question is not looked at in the
\* first generation.
Record(c) ==
    LET f == calls[c].of
        answer == calls[c].answer
    IN  /\ calls[c] # Nothing
        /\ calls' = [calls EXCEPT ![c] = Nothing]
        /\ \/ /\ f = "noise" /\ version = "V1"
              /\ undisturbed' = undisturbed \ {c}
              /\ UNCHANGED <<host, settled>>
           \/ /\ f = "noise" /\ version = "V2"
              /\ desired' = FromReply(desired, answer)
              /\ current' = FromReply(current, answer)
              /\ copy' = Parsed(answer)
              /\ Settle(c, f)
              /\ undisturbed' = undisturbed \ {c, "changer"}
              /\ UNCHANGED known
           \/ /\ f # "noise"
              /\ known' = [known EXCEPT ![f] = answer]
              /\ Settle(c, f)
              /\ undisturbed' = undisturbed \ {c}
              /\ UNCHANGED <<desired, current, copy>>
        /\ UNCHANGED <<version, device, link, changer, message, bounded>>

-----------------------------------------------------------------------------
(* The headphones change by themselves, and may tell.                       *)

Told == Batteries \cup {"equalizer", "noise"}

ChangeBySelf(f, value) ==
    /\ changes < MaxChanges /\ value # device[f]
    /\ changes' = changes + 1
    /\ device' = [device EXCEPT ![f] = value]
    /\ \/ /\ f \in Told
          /\ f = "noise" => version = "V2"      \* the only layout that is read
          /\ notes' = Append(notes, [of |-> f, value |-> value])
       \/ UNCHANGED notes
    /\ undisturbed' = {}
    /\ settled' = settled \ {f}
    /\ UNCHANGED <<version, host, unread, changer, message, calls, choices>>

\* Whatever it tells, the noise properties are made anew from the copy.
HandleNotification ==
    /\ notes # <<>>
    /\ notes' = Tail(notes)
    /\ LET note == Head(notes)
       IN  /\ copy' = IF note.of = "noise" THEN Parsed(note.value) ELSE copy
           /\ known' = IF note.of = "noise" THEN known
                       ELSE [known EXCEPT ![note.of] = note.value]
           /\ settled' = settled \ {note.of}
    /\ current' = FromCopy(current, copy')
    /\ desired' = FromCopy(desired, copy')
    /\ undisturbed' = undisturbed \ {"changer"}
    /\ UNCHANGED <<version, device, unread, changer, message, calls, bounded>>

-----------------------------------------------------------------------------

Init ==
    /\ version \in Versions
    /\ desired = [on |-> FALSE, level |-> 0, voice |-> FALSE,
                  vpt |-> Off, surround |-> Off]
    /\ current = [desired EXCEPT !.surround = OutOfRange]
    /\ copy = [mode |-> "off", level |-> 0, voice |-> FALSE]
    /\ known = [f \in Features |-> None]
    /\ \E own \in OwnSettings, v \in Values :
          device = [what \in Supported \cup {"noise", "vpt"} |->
                       CASE what = "noise" -> own
                         [] what = "vpt"   -> None
                         [] OTHER          -> v]
    /\ unread = <<>> /\ notes = <<>>
    /\ changer = "idle" /\ message = Unread
    /\ calls = [c \in Callers |-> Nothing]
    /\ choices = 0 /\ changes = 0
    /\ undisturbed = {} /\ settled = {}

CallerStep(c) ==
    \/ \E f \in Supported \cup {"noise"} : Poll(c, f)
    \/ \E f \in Supported \cup {"noise", None} : PollFails(c, f)
    \/ \E f \in Features, value \in Values : SetFeature(c, f, value)
    \/ Record(c)

ChangesBySelf ==
    \/ \E own \in OwnSettings : ChangeBySelf("noise", own)
    \/ \E f \in Supported, value \in Values : ChangeBySelf(f, value)

Next ==
    \/ \E property \in Properties : \E value \in RangeOf(property) : Choose(property, value)
    \/ SetChanges
    \/ \E c \in Callers : CallerStep(c)
    \/ ChangesBySelf
    \/ HandleNotification

Spec == Init /\ [][Next]_vars

-----------------------------------------------------------------------------
(* What is checked.                                                         *)

\* The types; a feature is known only if the headphones answer for it, however
\* late.
TypeOK ==
    /\ version \in Versions
    /\ {desired, current} \subseteq
           [on : BOOLEAN, level : 0..127, voice : BOOLEAN,
            vpt : VptTypes \cup {Off},
            surround : Positions \cup {Off, OutOfRange}]
    /\ copy \in [mode : {"off", "ambient", "cancelling"}, level : 0..127, voice : BOOLEAN]
    /\ known \in [Features -> Values \cup {None}]
    /\ \A f \in Features : known[f] # None => f \in Supported
    /\ changer \in {"idle", "reading", "sent", "vpt", "choosing", "preset",
                    "vptReady", "vptSent"}
    /\ choices \in 0..MaxChoices /\ changes \in 0..MaxChanges
    /\ Len(notes) <= MaxChanges /\ Len(unread) <= MaxUnread

\* The noise setting is kept twice, in the properties the getters read and in the
\* copy that state() and snapshot() give.  Three threads write both; they never
\* tell different things, except what is not told of a setting that is off.
CopiesAgree ==
    /\ copy.mode # "off" <=> current.on
    /\ current.on => copy.level = current.level /\ copy.voice = current.voice

\* What properties say, the headphones have.
NoiseIsTrue(properties) ==
    /\ properties.on <=> device.noise.effect # 0
    /\ properties.on =>
          /\ properties.voice <=> device.noise.voice # 0
          /\ properties.level = IF version = "V1" \/ device.noise.kind # 0
                                THEN device.noise.level ELSE 0

\* With VPT and a position both chosen, VPT is sent.
VptIsTrue(properties, command) ==
    /\ command.preset = IF properties.vpt # Off THEN properties.vpt
                                                ELSE properties.surround
    /\ command.preset # Off =>
          command.kind = IF properties.vpt # Off THEN "vpt" ELSE "surround"

\* What was sent or read while nothing crossed it, is as the headphones have it,
\* until they change it: of the reads setChanges() makes without the lock, the
\* answers that are recorded later and the notifications that rewrite what they
\* are not about, none spoils what was settled.
SettledIsTrue ==
    /\ "noise" \in settled => NoiseIsTrue(current)
    /\ "vpt" \in settled => VptIsTrue(current, device.vpt)
    /\ \A f \in settled \cap Features : known[f] = device[f]
=============================================================================
