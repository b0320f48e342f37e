-------------------------- MODULE HeadphonesProofs --------------------------
(* Proofs about Headphones: the types, the agreement of the two copies of   *)
(* the noise setting, and that what was settled undisturbed is true.        *)
EXTENDS Headphones, TLAPS, SequenceTheorems

Settings == [on : BOOLEAN, level : 0..127, voice : BOOLEAN,
             vpt : VptTypes \cup {Off}, surround : Positions \cup {Off, OutOfRange}]
NoiseControls == [mode : {"off", "ambient", "cancelling"}, level : 0..127,
                  voice : BOOLEAN]
Notes == [of : Supported, value : Values] \cup [of : {"noise"}, value : OwnSettings]
Places == {"idle", "reading", "sent", "vpt", "choosing", "preset", "vptReady", "vptSent"}

\* A noise command; what is read of the second generation's level fits.
IsWire(w) ==
    /\ w.effect \in Int /\ w.kind \in Int /\ w.voice \in Int /\ w.level \in Int
    /\ version = "V2" => w.level \in 0..127

HostTypes ==
    /\ version \in Versions
    /\ desired \in Settings /\ current \in Settings /\ copy \in NoiseControls
    /\ known \in [Features -> Values \cup {None}]
    /\ \A f \in Features : known[f] # None => f \in Supported
    /\ choices \in 0..MaxChoices /\ changes \in 0..MaxChanges

DeviceTypes ==
    /\ device = [what \in Supported \cup {"noise", "vpt"} |-> device[what]]
    /\ IsWire(device["noise"])
    /\ \A f \in Supported : device[f] \in Values
    /\ notes \in Seq(Notes) /\ Len(notes) <= changes

\* An answer, to whichever question it was given.
IsAnswer(m) ==
    \/ m.of = "noise" /\ IsWire(m.value)
    \/ m.of \in Supported /\ m.value \in Values

AreAnswers(messages) ==
    \E S : messages \in Seq(S) /\ \A m \in S : IsAnswer(m)

LinkTypes == AreAnswers(unread) /\ Len(unread) <= MaxUnread

CallTypes ==
    /\ calls = [c \in Callers |-> calls[c]]
    /\ \A c \in Callers :
          \/ calls[c] = Nothing
          \/ calls[c].of = "noise" /\ IsWire(calls[c].answer)
          \/ calls[c].of \in Supported /\ calls[c].answer \in Values

ChangerTypes ==
    /\ changer \in Places
    /\ changer \in {"idle", "vpt", "choosing"} => message = Unread
    /\ changer = "reading" =>
          /\ message \in [Fields -> Int \cup {None}]
          /\ version = "V2" => message["level"] \in (0..127) \cup {None}

Types == HostTypes /\ DeviceTypes /\ LinkTypes /\ CallTypes /\ ChangerTypes

-----------------------------------------------------------------------------
(* What is read of a noise setting.                                         *)

LEMMA ParsedType ==
  ASSUME NEW w, w.level \in 0..127
  PROVE  Parsed(w) \in NoiseControls
<1>1. Mode(w.effect # 0, w.kind # 0) \in {"off", "ambient", "cancelling"}
  BY DEF Mode
<1>2. (IF w.kind # 0 THEN w.level ELSE 0) \in 0..127
  BY SMT
<1>3. (w.voice # 0) \in BOOLEAN
  BY Zenon
<1> QED BY <1>1, <1>2, <1>3, Zenon DEF Parsed, NoiseControls

LEMMA FromReplyType ==
  ASSUME NEW w, w.level \in 0..127, NEW p \in Settings
  PROVE  FromReply(p, w) \in Settings
<1>1. Parsed(w).level \in 0..127
  BY ParsedType DEF NoiseControls
<1>2. (w.voice # 0) \in BOOLEAN /\ (w.effect # 0) \in BOOLEAN
  BY Zenon
<1> QED BY <1>1, <1>2, ZenonT(60) DEF FromReply, Settings

LEMMA FromCopyType ==
  ASSUME NEW nc \in NoiseControls, NEW p \in Settings
  PROVE  FromCopy(p, nc) \in Settings
<1>1. (IF nc.mode = "off" THEN 0 ELSE nc.level) \in 0..127
  BY DEF NoiseControls
<1>2. (nc.mode # "off") \in BOOLEAN /\ (nc.mode # "off" /\ nc.voice) \in BOOLEAN
  BY Zenon
<1> QED BY <1>1, <1>2, ZenonT(60) DEF FromCopy, Settings

LEMMA OwnIsWire ==
  ASSUME NEW w \in OwnSettings
  PROVE  IsWire(w) /\ w.level \in 0..127
BY HeadphonesAssumption DEF IsWire

LEMMA PartType ==
  ASSUME desired \in Settings, version \in Versions, NEW field \in Fields
  PROVE  /\ Part(field, desired) \in Int
         /\ version = "V2" => Part("level", desired) \in 0..127
<1>1. desired.level \in 0..127
  BY DEF Settings
<1>2. Bit(desired.voice) \in Int /\ Bit(desired.on) \in Int
      /\ Bit(desired.level > 0) \in Int
  BY DEF Bit
<1> QED BY <1>1, <1>2, HeadphonesAssumption DEF Part, PartV1, PartV2, Fields

-----------------------------------------------------------------------------
(* The types.                                                               *)

LEMMA TypesInit == Init => Types
<1> SUFFICES ASSUME Init PROVE Types
  OBVIOUS
<1>1. HostTypes
  <2>1. desired \in Settings /\ copy \in NoiseControls
    BY DEF Init, Settings, NoiseControls
  <2>2. current \in Settings
    BY <2>1 DEF Init, Settings
  <2> QED BY <2>1, <2>2, HeadphonesAssumption DEF Init, HostTypes
<1>2. DeviceTypes
  <2>1. PICK own \in OwnSettings, v \in Values :
          device = [what \in Supported \cup {"noise", "vpt"} |->
                       CASE what = "noise" -> own
                         [] what = "vpt"   -> None
                         [] OTHER          -> v]
    BY DEF Init
  <2>2. device["noise"] = own
    BY <2>1
  <2>3. \A f \in Supported : device[f] \in Values
    BY <2>1, HeadphonesAssumption
    DEF Features, Probed, Batteries
  <2>4. notes \in Seq(Notes) /\ Len(notes) <= changes
    BY DEF Init
  <2> QED BY <2>1, <2>2, <2>3, <2>4, OwnIsWire DEF DeviceTypes
<1>3. LinkTypes
  <2> DEFINE S == {}
  <2>1. unread \in Seq(S) /\ Len(unread) = 0
    BY DEF Init
  <2>2. \A m \in S : IsAnswer(m)
    BY Zenon
  <2> HIDE DEF S
  <2>3. AreAnswers(unread)
    BY <2>1, <2>2 DEF AreAnswers
  <2> QED BY <2>1, <2>3, HeadphonesAssumption DEF LinkTypes
<1>4. CallTypes
  BY DEF Init, CallTypes
<1>5. ChangerTypes
  BY DEF Init, ChangerTypes, Places
<1> QED BY <1>1, <1>2, <1>3, <1>4, <1>5 DEF Types

LEMMA HostTypesNext == Types /\ [Next]_vars => HostTypes'
<1> SUFFICES ASSUME Types, [Next]_vars PROVE HostTypes'
  OBVIOUS
<1> USE HeadphonesAssumption DEF Types, HostTypes
<1>1. CASE UNCHANGED vars
  BY <1>1 DEF vars
<1>2. ASSUME NEW property \in Properties, NEW value \in RangeOf(property),
             Choose(property, value)
      PROVE  HostTypes'
  <2>1. desired' \in Settings
    <3>1. CASE property = "on" \/ property = "voice"
      BY <1>2, <3>1 DEF Choose, RangeOf, Settings
    <3>2. CASE property = "level"
      BY <1>2, <3>2 DEF Choose, RangeOf, Settings
    <3>3. CASE property = "vpt"
      BY <1>2, <3>3 DEF Choose, RangeOf, Settings
    <3>4. CASE property = "surround"
      BY <1>2, <3>4 DEF Choose, RangeOf, Settings
    <3> QED BY <3>1, <3>2, <3>3, <3>4 DEF Properties
  <2> QED BY <1>2, <2>1 DEF Choose
<1>3. CASE SetChanges
  <2>1. CASE RecordNoise
    <3>1. current' \in Settings
      BY <2>1, ZenonT(60) DEF RecordNoise, Settings
    <3>2. copy' \in NoiseControls
      <4>1. Mode(current'.on, current'.level > 0) \in {"off", "ambient", "cancelling"}
        BY DEF Mode
      <4>2. current'.level \in 0..127 /\ current'.voice \in BOOLEAN
        BY <3>1 DEF Settings
      <4> QED BY <2>1, <4>1, <4>2 DEF RecordNoise, NoiseControls
    <3> QED BY <2>1, <3>1, <3>2 DEF RecordNoise, bounded
  <2>2. CASE RecordVpt
    <3>1. current' \in Settings
      BY <2>2, ZenonT(60) DEF RecordVpt, Settings
    <3> QED BY <2>2, <3>1 DEF RecordVpt, bounded
  <2>3. CASE UNCHANGED <<version, host, bounded>>
    BY <2>3 DEF host, bounded
  <2> QED
    BY <1>3, <2>1, <2>2, <2>3
    DEF SetChanges, Start, ExceedMaxSteps, SendNoise, CheckVpt, ChooseVpt,
        ReadPreset, SendVpt, ReadField
<1>4. ASSUME NEW c \in Callers, CallerStep(c)
      PROVE  HostTypes'
  <2>1. CASE UNCHANGED <<version, host, bounded>>
    BY <2>1 DEF host, bounded
  <2>2. ASSUME NEW f \in Features, NEW value \in Values, SetFeature(c, f, value)
        PROVE  HostTypes'
    BY <2>2 DEF SetFeature, host
  <2>3. CASE Record(c)
    <3>1. CASE calls[c].of = "noise" /\ version = "V2"
      <4>1. IsWire(calls[c].answer)
        BY <2>3, <3>1 DEF Record, CallTypes, Features, Probed, Batteries
      <4>2. calls[c].answer.level \in 0..127
        BY <3>1, <4>1 DEF IsWire
      <4>3. desired' \in Settings /\ current' \in Settings
        BY <2>3, <3>1, <4>2, FromReplyType DEF Record
      <4>4. copy' \in NoiseControls
        BY <2>3, <3>1, <4>2, ParsedType DEF Record
      <4> QED BY <2>3, <3>1, <4>3, <4>4 DEF Record, bounded
    <3>2. CASE calls[c].of = "noise" /\ version = "V1"
      BY <2>3, <3>2 DEF Record, host, bounded
    <3>3. CASE calls[c].of # "noise"
      <4>1. calls[c].of \in Supported /\ calls[c].answer \in Values
        BY <2>3, <3>3 DEF Record, CallTypes
      <4>2. /\ known' \in [Features -> Values \cup {None}]
            /\ \A f \in Features : known'[f] # None => f \in Supported
        BY <2>3, <3>3, <4>1 DEF Record
      <4> QED BY <2>3, <3>3, <4>2 DEF Record, bounded
    <3> QED BY <3>1, <3>2, <3>3
  <2> QED BY <1>4, <2>1, <2>2, <2>3, Zenon DEF CallerStep, Poll, PollFails
<1>5. CASE ChangesBySelf
  <2>1. changes < MaxChanges /\ changes' = changes + 1
        /\ UNCHANGED <<version, host, choices>>
    BY <1>5, Zenon DEF ChangesBySelf, ChangeBySelf
  <2> QED BY <2>1 DEF host
<1>6. CASE HandleNotification
  <2>1. Head(notes) \in Notes
    BY <1>6 DEF HandleNotification, DeviceTypes
  <2>2. copy' \in NoiseControls
    <3>1. CASE Head(notes).of = "noise"
      <4>1. Head(notes).value \in OwnSettings
        BY <2>1, <3>1 DEF Notes, Features, Probed, Batteries
      <4> QED BY <1>6, <3>1, <4>1, OwnIsWire, ParsedType DEF HandleNotification
    <3>2. CASE Head(notes).of # "noise"
      BY <1>6, <3>2 DEF HandleNotification
    <3> QED BY <3>1, <3>2
  <2>3. desired' \in Settings /\ current' \in Settings
    BY <1>6, <2>2, FromCopyType DEF HandleNotification
  <2>4. /\ known' \in [Features -> Values \cup {None}]
        /\ \A f \in Features : known'[f] # None => f \in Supported
    BY <1>6, <2>1 DEF HandleNotification, Notes
  <2> QED BY <1>6, <2>2, <2>3, <2>4 DEF HandleNotification, bounded
<1> QED BY <1>1, <1>2, <1>3, <1>4, <1>5, <1>6 DEF Next

\* What a send may make of the headphones.
LEMMA SendTypes ==
  ASSUME Types, HostTypes', NEW what \in {"noise", "vpt"}, NEW value, NEW next,
         what = "noise" => IsWire(value),
         Send(what, value, next), UNCHANGED <<version, notes, bounded>>
  PROVE  DeviceTypes'
<1>1. device' \in {device, [device EXCEPT ![what] = value]}
  BY DEF Send
<1>2. what \notin Supported
  BY HeadphonesAssumption DEF Features, Probed, Batteries
<1>3. device' = [w \in Supported \cup {"noise", "vpt"} |-> device'[w]]
  BY <1>1 DEF Types, DeviceTypes
<1>4. \A f \in Supported : device'[f] = device[f]
  BY <1>1, <1>2 DEF Types, DeviceTypes
<1>5. device'["noise"] = device["noise"] \/ (what = "noise" /\ device'["noise"] = value)
  BY <1>1 DEF Types, DeviceTypes
<1> QED BY <1>3, <1>4, <1>5 DEF Types, DeviceTypes, IsWire, bounded

LEMMA SerializedIsWire ==
  ASSUME Types, changer = "reading", AllRead
  PROVE  IsWire(Serialized)
<1> USE HeadphonesAssumption DEF Types, ChangerTypes, AllRead, Fields, Serialized, IsWire
<1>1. CASE version = "V1"
  <2>1. message["effect"] \in Int /\ message["voice"] \in Int /\ message["level"] \in Int
    BY <1>1
  <2>2. DualSingle(message.level) \in Int
    BY DEF DualSingle
  <2> QED BY <1>1, <2>1, <2>2
<1>2. CASE version = "V2"
  BY <1>2
<1> QED BY <1>1, <1>2 DEF HostTypes

LEMMA DeviceTypesNext == Types /\ HostTypes' /\ [Next]_vars => DeviceTypes'
<1> SUFFICES ASSUME Types, HostTypes', [Next]_vars PROVE DeviceTypes'
  OBVIOUS
<1>1. CASE UNCHANGED <<version, device, notes, bounded>>
  BY <1>1 DEF Types, DeviceTypes, IsWire, bounded
<1>2. CASE UNCHANGED vars
  BY <1>1, <1>2 DEF vars, bounded
<1>3. ASSUME NEW property \in Properties, NEW value \in RangeOf(property),
             Choose(property, value)
      PROVE  DeviceTypes'
  BY <1>3 DEF Choose, Types, DeviceTypes, IsWire
<1>4. CASE SetChanges
  <2>1. CASE SendNoise
    <3>1. IsWire(Serialized)
      BY <2>1, SerializedIsWire DEF SendNoise
    <3> QED BY <2>1, <3>1, SendTypes DEF SendNoise
  <2>2. CASE SendVpt
    BY <2>2, SendTypes DEF SendVpt
  <2> QED
    BY <1>1, <1>4, <2>1, <2>2
    DEF SetChanges, Start, ExceedMaxSteps, RecordNoise, CheckVpt, ChooseVpt,
        ReadPreset, RecordVpt, ReadField, link
<1>5. ASSUME NEW c \in Callers, CallerStep(c)
      PROVE  DeviceTypes'
  <2>1. ASSUME NEW f \in Features, NEW value \in Values, SetFeature(c, f, value)
        PROVE  DeviceTypes'
    <3>1. f \in Supported /\ f \notin {"noise", "vpt"}
      BY <2>1 DEF SetFeature, Features, Probed, Batteries
    <3>2. /\ device' = [device EXCEPT ![f] = value]
          /\ changes' = changes + 1 /\ UNCHANGED <<version, notes>>
      BY <2>1 DEF SetFeature
    <3>3. device' = [w \in Supported \cup {"noise", "vpt"} |-> device'[w]]
      BY <3>2 DEF Types, DeviceTypes
    <3>4. \A g \in Supported : device'[g] \in Values
      BY <3>2 DEF Types, DeviceTypes
    <3>5. device'["noise"] = device["noise"]
      BY <3>1, <3>2 DEF Types, DeviceTypes
    <3>6. Len(notes') <= changes'
      BY <3>2, HeadphonesAssumption DEF Types, DeviceTypes, HostTypes
    <3> QED BY <3>2, <3>3, <3>4, <3>5, <3>6 DEF Types, DeviceTypes, IsWire
  <2> QED
    BY <1>1, <1>5, <2>1, Zenon DEF CallerStep, Poll, PollFails, Record, link, bounded
<1>6. ASSUME NEW f, NEW value, ChangeBySelf(f, value),
             \/ f = "noise" /\ value \in OwnSettings
             \/ f \in Supported /\ value \in Values
      PROVE  DeviceTypes'
  <2>1. /\ device' = [device EXCEPT ![f] = value]
        /\ changes' = changes + 1 /\ UNCHANGED version
    BY <1>6, Zenon DEF ChangeBySelf
  <2>2. f \in Supported => f \notin {"noise", "vpt"}
    BY HeadphonesAssumption DEF Features, Probed, Batteries
  <2>3. device' = [w \in Supported \cup {"noise", "vpt"} |-> device'[w]]
    BY <2>1 DEF Types, DeviceTypes
  <2>4. \A g \in Supported : device'[g] \in Values
    BY <1>6, <2>1, <2>2 DEF Types, DeviceTypes
  <2>5. device'["noise"] = device["noise"] \/ device'["noise"] \in OwnSettings
    BY <1>6, <2>1, <2>2 DEF Types, DeviceTypes
  <2>6. (IsWire(device["noise"]))'
    BY <2>1, <2>5, OwnIsWire DEF Types, DeviceTypes, IsWire
  <2>7. notes' \in Seq(Notes) /\ Len(notes') <= changes'
    <3>1. [of |-> f, value |-> value] \in Notes
      BY <1>6 DEF Notes
    <3>2. notes' = notes \/ notes' = Append(notes, [of |-> f, value |-> value])
      BY <1>6, Zenon DEF ChangeBySelf
    <3>3. changes \in Nat
      BY HeadphonesAssumption DEF Types, HostTypes
    <3>4. notes \in Seq(Notes) /\ Len(notes) <= changes
      BY DEF Types, DeviceTypes
    <3>5. CASE notes' = notes
      BY <2>1, <3>3, <3>4, <3>5
    <3>6. CASE notes' = Append(notes, [of |-> f, value |-> value])
      <4> DEFINE note == [of |-> f, value |-> value]
      <4>1. note \in Notes
        BY <3>1
      <4> HIDE DEF note
      <4>2. Append(notes, note) \in Seq(Notes)
            /\ Len(Append(notes, note)) = Len(notes) + 1 /\ Len(notes) \in Nat
        BY <3>4, <4>1, AppendProperties, LenProperties
      <4> QED BY <2>1, <3>3, <3>4, <3>6, <4>2 DEF note
    <3> QED BY <3>2, <3>5, <3>6
  <2> QED BY <2>3, <2>4, <2>6, <2>7 DEF DeviceTypes
<1>7. CASE HandleNotification
  <2>1. notes' \in Seq(Notes) /\ Len(notes') <= changes'
    BY <1>7, HeadphonesAssumption
    DEF HandleNotification, Types, DeviceTypes, HostTypes, bounded
  <2> QED BY <1>7, <2>1 DEF HandleNotification, Types, DeviceTypes, IsWire
<1> QED
  BY <1>2, <1>3, <1>4, <1>5, <1>6, <1>7 DEF Next, ChangesBySelf

LEMMA VersionStays == [Next]_vars => version' = version
<1>1. ASSUME NEW c \in Callers, CallerStep(c)
      PROVE  version' = version
  BY <1>1, Zenon DEF CallerStep, Poll, PollFails, SetFeature, Record
<1>2. CASE SetChanges
  BY <1>2, Zenon
  DEF SetChanges, Start, ExceedMaxSteps, SendNoise, RecordNoise, CheckVpt, ChooseVpt,
      ReadPreset, SendVpt, RecordVpt, ReadField
<1>3. CASE ChangesBySelf
  BY <1>3, Zenon DEF ChangesBySelf, ChangeBySelf
<1> QED BY <1>1, <1>2, <1>3 DEF Next, Choose, HandleNotification, vars

LEMMA SeqGrows ==
  ASSUME NEW S, NEW T, S \subseteq T, NEW s \in Seq(S)
  PROVE  s \in Seq(T)
<1>1. Len(s) \in Nat /\ s \in [1 .. Len(s) -> T]
  BY LenProperties
<1> QED BY <1>1, IsASeq

\* What there is to read is answers; behind those nobody has read there is but
\* what the headphones have now.
LEMMA StreamTypes ==
  ASSUME Types, NEW f \in Supported \cup {"noise", None}
  PROVE  /\ AreAnswers(Stream(f))
         /\ \A i \in DOMAIN Stream(f) :
               i > Len(unread) => Stream(f)[i].value = device[f]
<1> DEFINE own == [of |-> f, value |-> device[f]]
<1>1. PICK S : unread \in Seq(S) /\ \A m \in S : IsAnswer(m)
  BY DEF Types, LinkTypes, AreAnswers
<1>2. CASE f \in DOMAIN device
  <2>1. f \in Supported \cup {"noise"}
    BY <1>2, HeadphonesAssumption DEF Types, DeviceTypes
  <2>2. IsAnswer(own)
    BY <2>1 DEF Types, DeviceTypes, IsAnswer
  <2>3. Stream(f) = unread \o <<own>>
    BY <1>2 DEF Stream
  <2>4. own.value = device[f]
    OBVIOUS
  <2> HIDE DEF own
  <2>5. unread \in Seq(S \cup {own}) /\ <<own>> \in Seq(S \cup {own})
    BY <1>1, SeqGrows
  <2>6. /\ unread \o <<own>> \in Seq(S \cup {own})
        /\ \A i \in DOMAIN (unread \o <<own>>) :
              i > Len(unread) => (unread \o <<own>>)[i] = own
    BY <2>5, SMTT(60)
  <2> QED BY <1>1, <2>2, <2>3, <2>4, <2>6 DEF AreAnswers
<1>3. CASE f \notin DOMAIN device
  <2>1. Stream(f) = unread
    BY <1>1, <1>3, SMTT(60) DEF Stream
  <2>2. \A i \in DOMAIN unread : ~(i > Len(unread))
    BY <1>1
  <2> QED BY <1>1, <2>1, <2>2 DEF AreAnswers
<1> QED BY <1>2, <1>3

\* The rest of what there was to read is answers, with one of them again or not.
LEMMA RestAreAnswers ==
  ASSUME NEW messages, AreAnswers(messages), NEW i \in 0 .. Len(messages)
  PROVE  LET rest == SubSeq(messages, i + 1, Len(messages))
         IN  /\ AreAnswers(rest)
             /\ i > 0 => AreAnswers(<<messages[i]>> \o rest)
<1>1. PICK S : messages \in Seq(S) /\ \A m \in S : IsAnswer(m)
  BY DEF AreAnswers
<1>2. SubSeq(messages, i + 1, Len(messages)) \in Seq(S)
  BY <1>1, SubSeqProperties
<1>3. i > 0 => <<messages[i]>> \in Seq(S)
  BY <1>1
<1>4. i > 0 => <<messages[i]>> \o SubSeq(messages, i + 1, Len(messages)) \in Seq(S)
  BY <1>2, <1>3, ConcatProperties
<1> QED BY <1>1, <1>2, <1>4 DEF AreAnswers

LEMMA LinkTypesNext == Types /\ [Next]_vars => LinkTypes'
<1> SUFFICES ASSUME Types, [Next]_vars PROVE LinkTypes'
  OBVIOUS
<1>1. \A m : IsAnswer(m) => IsAnswer(m)'
  BY VersionStays DEF IsAnswer, IsWire
<1>2. ASSUME AreAnswers(unread'), Len(unread') <= MaxUnread
      PROVE  LinkTypes'
  BY <1>1, <1>2 DEF LinkTypes, AreAnswers
<1>3. CASE UNCHANGED unread
  BY <1>2, <1>3 DEF Types, LinkTypes
<1>4. CASE AckTaken
  <2>1. PICK S : unread \in Seq(S) /\ \A m \in S : IsAnswer(m)
    BY DEF Types, LinkTypes, AreAnswers
  <2>2. CASE unread # <<>> /\ unread' = Tail(unread)
    <3>1. Tail(unread) \in Seq(S) /\ Len(Tail(unread)) = Len(unread) - 1
          /\ Len(unread) \in Nat
      BY <2>1, <2>2
    <3>2. AreAnswers(unread')
      BY <2>1, <2>2, <3>1 DEF AreAnswers
    <3>3. Len(unread') <= MaxUnread
      BY <2>2, <3>1, HeadphonesAssumption DEF Types, LinkTypes
    <3> QED BY <1>2, <3>2, <3>3
  <2> QED BY <1>3, <1>4, <2>2 DEF AckTaken
<1>5. ASSUME NEW c \in Callers, CallerStep(c)
      PROVE  LinkTypes'
  <2>1. ASSUME NEW f \in Supported \cup {"noise"}, Poll(c, f)
        PROVE  LinkTypes'
    <3>1. AreAnswers(Stream(f))
      BY StreamTypes
    <3>2. PICK i \in Answers(Stream(f), f) :
            \E again \in {<<>>, <<Stream(f)[i]>>} :
               unread' = again \o SubSeq(Stream(f), i + 1, Len(Stream(f)))
      BY <2>1 DEF Poll
    <3>3. i \in 1 .. Len(Stream(f))
      BY <3>1 DEF AreAnswers, Answers
    <3>4. /\ AreAnswers(SubSeq(Stream(f), i + 1, Len(Stream(f))))
          /\ AreAnswers(<<Stream(f)[i]>> \o SubSeq(Stream(f), i + 1, Len(Stream(f))))
      BY <3>1, <3>3, RestAreAnswers
    <3>5. AreAnswers(<<>> \o SubSeq(Stream(f), i + 1, Len(Stream(f))))
      BY <3>4, SMTT(60) DEF AreAnswers
    <3>6. AreAnswers(unread')
      BY <3>2, <3>4, <3>5
    <3> QED BY <1>2, <2>1, <3>6 DEF Poll
  <2>2. ASSUME NEW f \in Supported \cup {"noise", None}, PollFails(c, f)
        PROVE  LinkTypes'
    <3>1. AreAnswers(Stream(f))
      BY StreamTypes
    <3>2. PICK n \in 0 .. Len(Stream(f)) :
            unread' = SubSeq(Stream(f), n + 1, Len(Stream(f)))
      BY <2>2 DEF PollFails
    <3>3. AreAnswers(unread')
      BY <3>1, <3>2, RestAreAnswers
    <3> QED BY <1>2, <2>2, <3>3 DEF PollFails
  <2> QED
    BY <1>3, <1>4, <1>5, <2>1, <2>2, Zenon DEF CallerStep, SetFeature, Record, link
<1>6. CASE SetChanges
  BY <1>3, <1>4, <1>6, Zenon
  DEF SetChanges, Start, ExceedMaxSteps, SendNoise, RecordNoise, CheckVpt, ChooseVpt,
      ReadPreset, SendVpt, RecordVpt, ReadField, Send, link
<1>7. CASE ChangesBySelf
  BY <1>3, <1>7, Zenon DEF ChangesBySelf, ChangeBySelf
<1> QED BY <1>3, <1>5, <1>6, <1>7 DEF Next, Choose, HandleNotification, vars

LEMMA CallTypesNext == Types /\ [Next]_vars => CallTypes'
<1> SUFFICES ASSUME Types, [Next]_vars PROVE CallTypes'
  OBVIOUS
<1>1. CASE UNCHANGED <<version, calls>>
  BY <1>1 DEF Types, CallTypes, IsWire
<1>2. ASSUME NEW c \in Callers, CallerStep(c)
      PROVE  CallTypes'
  <2> DEFINE Typed(call) ==
               \/ call = Nothing
               \/ call.of = "noise" /\ IsWire(call.answer)
               \/ call.of \in Supported /\ call.answer \in Values
  <2>1. ASSUME NEW call, Typed(call), calls' = [calls EXCEPT ![c] = call],
               UNCHANGED version
        PROVE  CallTypes'
    BY <2>1, ZenonT(60) DEF Types, CallTypes, IsWire
  <2>2. ASSUME NEW f \in Supported \cup {"noise"}, Poll(c, f)
        PROVE  CallTypes'
    <3>1. PICK i \in Answers(Stream(f), f) :
            calls' = [calls EXCEPT ![c] = [of |-> f, answer |-> Stream(f)[i].value]]
      BY <2>2 DEF Poll
    <3>2. Stream(f)[i].of = f /\ IsAnswer(Stream(f)[i])
      BY <3>1, StreamTypes DEF Answers, AreAnswers
    <3>3. Typed([of |-> f, answer |-> Stream(f)[i].value])
      BY <3>2 DEF IsAnswer
    <3> HIDE DEF Typed
    <3> QED BY <2>1, <2>2, <3>1, <3>3 DEF Poll
  <2>3. ASSUME NEW f \in Features, NEW value \in Values, SetFeature(c, f, value)
        PROVE  CallTypes'
    <3>1. Typed([of |-> f, answer |-> value])
      BY <2>3 DEF SetFeature
    <3> HIDE DEF Typed
    <3> QED BY <1>1, <2>1, <2>3, <3>1 DEF SetFeature
  <2>4. CASE Record(c)
    BY <2>1, <2>4 DEF Record
  <2>5. ASSUME NEW f, PollFails(c, f)
        PROVE  CallTypes'
    BY <1>1, <2>5 DEF PollFails
  <2> QED BY <1>2, <2>2, <2>3, <2>4, <2>5, SMTT(60) DEF CallerStep
<1>3. ASSUME NEW property \in Properties, NEW value \in RangeOf(property),
             Choose(property, value)
      PROVE  CallTypes'
  BY <1>1, <1>3 DEF Choose
<1>4. CASE SetChanges
  BY <1>1, <1>4
  DEF SetChanges, Start, ExceedMaxSteps, SendNoise, RecordNoise, CheckVpt,
      ChooseVpt, ReadPreset, SendVpt, RecordVpt, ReadField
<1>5. CASE ChangesBySelf
  BY <1>1, <1>5, Zenon DEF ChangesBySelf, ChangeBySelf
<1>6. CASE HandleNotification
  BY <1>1, <1>6 DEF HandleNotification
<1> QED BY <1>1, <1>2, <1>3, <1>4, <1>5, <1>6 DEF Next, vars

LEMMA ChangerTypesNext == Types /\ [Next]_vars => ChangerTypes'
<1> SUFFICES ASSUME Types, [Next]_vars PROVE ChangerTypes'
  OBVIOUS
<1> USE DEF Types, ChangerTypes
<1>1. CASE UNCHANGED <<version, changer, message>>
  BY <1>1
<1>2. ASSUME changer' \in Places \ {"reading"}, UNCHANGED version,
             changer' \in {"idle", "vpt", "choosing"} => message' = Unread
      PROVE  ChangerTypes'
  BY <1>2
<1>3. CASE SetChanges
  <2>1. CASE Start
    <3>1. Unread \in [Fields -> Int \cup {None}] /\ Unread["level"] = None
      BY DEF Unread, Fields
    <3> QED BY <2>1, <3>1 DEF Start, Places
  <2>2. ASSUME NEW field \in Fields, ReadField(field)
        PROVE  ChangerTypes'
    <3>1. /\ Part(field, desired) \in Int
          /\ version = "V2" => Part("level", desired) \in 0..127
      BY PartType DEF HostTypes
    <3>2. message' \in [Fields -> Int \cup {None}]
      BY <2>2, <3>1 DEF ReadField
    <3>3. message'["level"] = IF field = "level" THEN Part("level", desired)
                                                ELSE message["level"]
      BY <2>2 DEF ReadField, Fields
    <3> QED BY <2>2, <3>1, <3>2, <3>3 DEF ReadField
  <2>3. CASE ExceedMaxSteps
    BY <1>2, <2>3 DEF ExceedMaxSteps, Return, Places
  <2>4. CASE SendNoise
    BY <1>2, <2>4 DEF SendNoise, Send, Places
  <2>5. CASE RecordNoise
    BY <1>2, <2>5 DEF RecordNoise, Places
  <2>6. CASE CheckVpt
    BY <1>2, <2>6 DEF CheckVpt, Return, Places
  <2>7. CASE ChooseVpt
    BY <1>2, <2>7, Zenon DEF ChooseVpt, Return, Places
  <2>8. CASE ReadPreset
    BY <1>2, <2>8 DEF ReadPreset, Places
  <2>9. CASE SendVpt
    BY <1>2, <2>9 DEF SendVpt, Send, Places
  <2>10. CASE RecordVpt
    BY <1>2, <2>10 DEF RecordVpt, Return, Places
  <2> QED
    BY <1>3, <2>1, <2>2, <2>3, <2>4, <2>5, <2>6, <2>7, <2>8, <2>9, <2>10
    DEF SetChanges
<1>4. ASSUME NEW c \in Callers, CallerStep(c)
      PROVE  ChangerTypes'
  BY <1>1, <1>4, Zenon DEF CallerStep, Poll, PollFails, SetFeature, Record
<1>5. ASSUME NEW property \in Properties, NEW value \in RangeOf(property),
             Choose(property, value)
      PROVE  ChangerTypes'
  BY <1>1, <1>5 DEF Choose
<1>6. CASE ChangesBySelf
  BY <1>1, <1>6, Zenon DEF ChangesBySelf, ChangeBySelf
<1>7. CASE HandleNotification
  BY <1>1, <1>7 DEF HandleNotification
<1> QED BY <1>1, <1>3, <1>4, <1>5, <1>6, <1>7 DEF Next, vars

LEMMA TypesNext == Types /\ [Next]_vars => Types'
BY HostTypesNext, DeviceTypesNext, LinkTypesNext, CallTypesNext, ChangerTypesNext
DEF Types

\* Every state has the types, in whatever order the threads' steps come; a
\* feature is known only of headphones that answer for it.
THEOREM TypeCorrect == Spec => []TypeOK
<1>1. Types => TypeOK
  <2>1. ASSUME Types PROVE TypeOK
    <3>1. Len(notes) <= MaxChanges
      BY <2>1, HeadphonesAssumption, LenProperties
      DEF Types, HostTypes, DeviceTypes
    <3> QED BY <2>1, <3>1
        DEF Types, HostTypes, LinkTypes, ChangerTypes, TypeOK, Settings, NoiseControls, Places
  <2> QED BY <2>1
<1> QED BY <1>1, TypesInit, TypesNext, PTL DEF Spec

-----------------------------------------------------------------------------
(* The copies.                                                              *)

LEMMA FromCopyAgrees ==
  ASSUME NEW nc \in NoiseControls, NEW p \in Settings
  PROVE  LET q == FromCopy(p, nc)
         IN  /\ nc.mode # "off" <=> q.on
             /\ q.on => nc.level = q.level /\ nc.voice = q.voice
             /\ q.vpt = p.vpt /\ q.surround = p.surround
<1>1. FromCopy(p, nc).on = (nc.mode # "off")
  BY Zenon DEF FromCopy, Settings
<1>2. FromCopy(p, nc).level = (IF nc.mode = "off" THEN 0 ELSE nc.level)
  BY Zenon DEF FromCopy, Settings
<1>3. FromCopy(p, nc).voice = (nc.mode # "off" /\ nc.voice)
  BY Zenon DEF FromCopy, Settings
<1>4. FromCopy(p, nc).vpt = p.vpt /\ FromCopy(p, nc).surround = p.surround
  BY DEF FromCopy, Settings
<1>5. nc.voice \in BOOLEAN
  BY DEF NoiseControls
<1> QED BY <1>1, <1>2, <1>3, <1>4, <1>5, Zenon

LEMMA FromReplyTells ==
  ASSUME NEW w, NEW p \in Settings
  PROVE  LET q == FromReply(p, w)
         IN  /\ q.on = (w.effect # 0) /\ q.voice = (w.voice # 0)
             /\ q.level = IF w.kind # 0 THEN w.level ELSE 0
             /\ q.vpt = p.vpt /\ q.surround = p.surround
<1>1. FromReply(p, w).on = (w.effect # 0) /\ FromReply(p, w).voice = (w.voice # 0)
      /\ FromReply(p, w).level = Parsed(w).level
  BY Zenon DEF FromReply, Settings
<1>2. Parsed(w).level = IF w.kind # 0 THEN w.level ELSE 0
  BY Zenon DEF Parsed
<1>3. FromReply(p, w).vpt = p.vpt /\ FromReply(p, w).surround = p.surround
  BY DEF FromReply, Settings
<1> QED BY <1>1, <1>2, <1>3, Zenon

\* The three writers of both copies, and everyone else, leave them agreeing.
LEMMA CopiesAgreeNext == Types /\ CopiesAgree /\ [Next]_vars => CopiesAgree'
<1> SUFFICES ASSUME Types, CopiesAgree, [Next]_vars PROVE CopiesAgree'
  OBVIOUS
<1>1. CASE UNCHANGED <<current, copy>>
  BY <1>1 DEF CopiesAgree
<1>2. CASE RecordNoise
  <2>1. /\ current'.on = desired.on /\ current'.level = desired.level
        /\ current'.voice = desired.voice
    BY <1>2 DEF RecordNoise, Types, HostTypes, Settings
  <2>2. /\ copy'.mode = Mode(current'.on, current'.level > 0)
        /\ copy'.level = current'.level /\ copy'.voice = current'.voice
    BY <1>2 DEF RecordNoise
  <2>3. copy'.mode # "off" <=> current'.on
    BY <2>2 DEF Mode
  <2> QED BY <2>2, <2>3 DEF CopiesAgree
<1>3. CASE RecordVpt
  <2>1. UNCHANGED <<copy, current.on, current.level, current.voice>>
    BY <1>3 DEF RecordVpt, Types, HostTypes, Settings
  <2> QED BY <2>1 DEF CopiesAgree
<1>4. ASSUME NEW c \in Callers, Record(c), calls[c].of = "noise", version = "V2"
      PROVE  CopiesAgree'
  <2> DEFINE w == calls[c].answer
  <2>1. current' = FromReply(current, w) /\ copy' = Parsed(w)
    BY <1>4 DEF Record
  <2>2. /\ current'.on = (w.effect # 0) /\ current'.voice = (w.voice # 0)
        /\ current'.level = IF w.kind # 0 THEN w.level ELSE 0
    BY <2>1, FromReplyTells, Zenon DEF Types, HostTypes
  <2>3. /\ copy'.mode = Mode(w.effect # 0, w.kind # 0) /\ copy'.voice = (w.voice # 0)
        /\ copy'.level = IF w.kind # 0 THEN w.level ELSE 0
    BY <2>1, Zenon DEF Parsed
  <2>4. copy'.mode # "off" <=> w.effect # 0
    BY <2>3 DEF Mode
  <2> QED BY <2>2, <2>3, <2>4, Zenon DEF CopiesAgree
<1>5. CASE HandleNotification
  <2>1. copy' \in NoiseControls
    BY TypesNext DEF Types, HostTypes
  <2>2. current' = FromCopy(current, copy') /\ current \in Settings
    BY <1>5 DEF HandleNotification, Types, HostTypes
  <2> QED BY <2>1, <2>2, FromCopyAgrees, Zenon DEF CopiesAgree
<1>6. CASE SetChanges
  BY <1>1, <1>2, <1>3, <1>6
  DEF SetChanges, Start, ExceedMaxSteps, SendNoise, CheckVpt, ChooseVpt,
      ReadPreset, SendVpt, ReadField, host
<1>7. ASSUME NEW c \in Callers, CallerStep(c)
      PROVE  CopiesAgree'
  BY <1>1, <1>4, <1>7 DEF CallerStep, Poll, PollFails, SetFeature, Record, host
<1>8. ASSUME NEW property \in Properties, NEW value \in RangeOf(property),
             Choose(property, value)
      PROVE  CopiesAgree'
  BY <1>1, <1>8 DEF Choose
<1>9. CASE ChangesBySelf
  BY <1>1, <1>9, Zenon DEF ChangesBySelf, ChangeBySelf, host
<1> QED BY <1>1, <1>5, <1>6, <1>7, <1>8, <1>9 DEF Next, vars

LEMMA CopiesAgreeInit == Init => CopiesAgree
BY DEF Init, CopiesAgree

\* What the getters tell of the noise setting and what state() and snapshot() tell
\* of it never differ, whichever of the three writers come in which order.
THEOREM CopiesStayAgreed == Spec => []CopiesAgree
BY TypesInit, TypesNext, CopiesAgreeInit, CopiesAgreeNext, PTL DEF Spec

-----------------------------------------------------------------------------
(* What is settled.  While nothing crosses setChanges(), what it has read is *)
(* what the user wants, and what it has sent is what the headphones have;   *)
(* while nothing crosses a caller, its answer is what they have.            *)

ChangerExact ==
    "changer" \in undisturbed =>
        /\ changer = "reading" => \A field \in Fields :
              message[field] = None \/ message[field] = Part(field, desired)
        /\ changer = "sent" => NoiseIsTrue(desired)
        /\ changer = "preset" =>
              /\ message["kind"] = IF desired.vpt # Off THEN "vpt" ELSE "surround"
              /\ message = [kind |-> message["kind"], preset |-> None]
        /\ changer = "vptReady" => VptIsTrue(desired, message)
        /\ changer = "vptSent" => VptIsTrue(desired, device.vpt)

CallsExact ==
    \A c \in Callers : c \in undisturbed /\ calls[c] # Nothing =>
        calls[c].answer = device[calls[c].of]

\* What a noise setting is sent as, tells it.
LEMMA SerializedIsTrue ==
  ASSUME Types, changer = "reading", AllRead,
         \A field \in Fields :
             message[field] = None \/ message[field] = Part(field, desired)
  PROVE  LET w == Serialized
         IN  /\ desired.on <=> w.effect # 0
             /\ desired.on =>
                  /\ desired.voice <=> w.voice # 0
                  /\ desired.level = IF version = "V1" \/ w.kind # 0 THEN w.level ELSE 0
<1>1. desired.level \in 0..127 /\ desired.on \in BOOLEAN /\ desired.voice \in BOOLEAN
  BY DEF Types, HostTypes, Settings
<1>2. message \in [Fields -> Int \cup {None}]
  BY DEF Types, ChangerTypes
<1>3. CASE version = "V1"
  <2>1. /\ message["effect"] = PartV1("effect", desired)
        /\ message["voice"] = PartV1("voice", desired)
        /\ message["level"] = PartV1("level", desired)
    BY <1>3 DEF AllRead, Fields, Part
  <2>2. /\ Serialized["effect"] = message["effect"]
        /\ Serialized["voice"] = message["voice"]
        /\ Serialized["level"] = message["level"]
    BY <1>2, <1>3 DEF Serialized, Fields
  <2>3. /\ PartV1("effect", desired) # 0 <=> desired.on
        /\ PartV1("voice", desired) # 0 <=> desired.voice
        /\ desired.on => PartV1("level", desired) = desired.level
    BY DEF PartV1, Bit
  <2> QED BY <1>3, <2>1, <2>2, <2>3
<1>4. CASE version = "V2"
  <2>1. \A field \in Fields : message[field] = PartV2(field, desired)
    BY <1>4 DEF AllRead, Part
  <2>2. /\ PartV2("effect", desired) # 0 <=> desired.on
        /\ PartV2("voice", desired) # 0 <=> desired.voice
        /\ PartV2("kind", desired) # 0 <=> desired.level > 0
        /\ desired.level > 0 => PartV2("level", desired) = desired.level
    BY <1>1 DEF PartV2, Bit
  <2> QED BY <1>1, <1>4, <2>1, <2>2 DEF Serialized, Fields
<1> QED BY <1>3, <1>4, HeadphonesAssumption DEF Types, HostTypes

LEMMA ChangerExactNext == Types /\ ChangerExact /\ [Next]_vars => ChangerExact'
<1> SUFFICES ASSUME Types, ChangerExact, [Next]_vars, "changer" \in undisturbed'
             PROVE  ChangerExact'
  BY DEF ChangerExact
<1> USE DEF ChangerExact
<1>1. CASE UNCHANGED <<version, desired, changer, message, device.noise, device.vpt>>
           /\ "changer" \in undisturbed
  BY <1>1 DEF NoiseIsTrue, VptIsTrue, Part, PartV1, PartV2
<1>2. CASE Start
  <2>1. \A field \in Fields : Unread[field] = None
    BY DEF Unread
  <2> QED BY <1>2, <2>1 DEF Start, Types, ChangerTypes
<1>3. ASSUME NEW field \in Fields, ReadField(field)
      PROVE  ChangerExact'
  <2>1. changer' = "reading" /\ changer = "reading" /\ "changer" \in undisturbed
        /\ UNCHANGED <<desired, version>>
    BY <1>3 DEF ReadField, host
  <2>2. message' = [message EXCEPT ![field] = Part(field, desired)]
        /\ message \in [Fields -> Int \cup {None}]
    BY <1>3, <2>1 DEF ReadField, Types, ChangerTypes
  <2>3. \A g \in Fields : (Part(g, desired))' = Part(g, desired)
    BY <2>1 DEF Part, PartV1, PartV2
  <2> QED BY <2>1, <2>2, <2>3
<1>4. CASE SendNoise
  <2>1. /\ changer' = "sent" /\ device' = [device EXCEPT !["noise"] = Serialized]
        /\ "changer" \in undisturbed /\ changer = "reading" /\ AllRead
        /\ UNCHANGED <<version, desired>>
    BY <1>4 DEF SendNoise, Send, host
  <2>2. device'.noise = Serialized
    BY <2>1 DEF Types, DeviceTypes
  <2> QED BY <2>1, <2>2, SerializedIsTrue DEF NoiseIsTrue
<1>5. CASE SendVpt
  <2>1. /\ changer' = "vptSent" /\ device' = [device EXCEPT !["vpt"] = message]
        /\ "changer" \in undisturbed /\ changer = "vptReady"
        /\ UNCHANGED <<version, desired>>
    BY <1>5 DEF SendVpt, Send, host
  <2>2. device'.vpt = message
    BY <2>1 DEF Types, DeviceTypes
  <2> QED BY <2>1, <2>2 DEF VptIsTrue
<1>6. CASE ChooseVpt
  <2>1. "changer" \in undisturbed /\ UNCHANGED desired
    BY <1>6, Zenon DEF ChooseVpt, Return, host
  <2>2. CASE changer' = "preset"
    <3>1. PICK p \in VptProperties :
            /\ desired[p] # Off /\ (p = "surround" => desired.vpt = Off)
            /\ message' = [kind |-> p, preset |-> None]
      BY <1>6, <2>2 DEF ChooseVpt, Return
    <3> QED BY <2>1, <2>2, <3>1 DEF VptProperties
  <2>3. CASE changer' = "vptReady"
    <3>1. PICK p \in VptProperties : message' = [kind |-> p, preset |-> Off]
      BY <1>6, <2>3 DEF ChooseVpt, Return
    <3>2. desired.vpt = Off /\ desired.surround = Off
      BY <1>6, <2>3 DEF ChooseVpt, Return, VptProperties
    <3> QED BY <2>1, <2>3, <3>1, <3>2 DEF VptIsTrue
  <2>4. CASE changer' = "idle"
    BY <2>4
  <2> QED BY <1>6, <2>2, <2>3, <2>4, Zenon DEF ChooseVpt, Return
<1>7. CASE ReadPreset
  <2>1. /\ changer' = "vptReady" /\ changer = "preset" /\ "changer" \in undisturbed
        /\ UNCHANGED desired
        /\ message' = [message EXCEPT !.preset = desired[message.kind]]
    BY <1>7 DEF ReadPreset, host
  <2>2. /\ message'.preset = desired[message["kind"]]
        /\ message'.kind = message["kind"]
    BY <2>1
  <2> QED BY <2>1, <2>2 DEF VptIsTrue
<1>8. CASE ExceedMaxSteps \/ RecordNoise \/ CheckVpt \/ RecordVpt
  BY <1>8 DEF ExceedMaxSteps, RecordNoise, CheckVpt, RecordVpt, Return
<1>9. ASSUME NEW c \in Callers, CallerStep(c)
      PROVE  ChangerExact'
  <2>1. c # "changer"
    BY HeadphonesAssumption
  <2>2. ASSUME NEW f, Poll(c, f) \/ PollFails(c, f)
        PROVE  ChangerExact'
    <3>1. "changer" \in undisturbed
      BY <2>1, <2>2, Zenon DEF Poll, PollFails
    <3>2. UNCHANGED <<version, desired, device, changer, message>>
      BY <2>2, Zenon DEF Poll, PollFails, host
    <3> QED BY <1>1, <3>1, <3>2
  <2>3. ASSUME NEW f \in Features, NEW value \in Values, SetFeature(c, f, value)
        PROVE  ChangerExact'
    <3>1. device' = [device EXCEPT ![f] = value] /\ f \notin {"noise", "vpt"}
      BY <2>3 DEF SetFeature, Features, Probed, Batteries
    <3>2. UNCHANGED <<device.noise, device.vpt>>
      BY <3>1 DEF Types, DeviceTypes
    <3>3. "changer" \in undisturbed /\ UNCHANGED <<version, desired, changer, message>>
      BY <2>1, <2>3 DEF SetFeature, host
    <3> QED BY <1>1, <3>2, <3>3
  <2>4. CASE Record(c)
    BY <1>1, <2>4 DEF Record, host
  <2> QED BY <1>9, <2>2, <2>3, <2>4 DEF CallerStep
<1>10. ASSUME NEW property \in Properties, NEW value \in RangeOf(property),
              Choose(property, value)
       PROVE  FALSE
  BY <1>10 DEF Choose
<1>11. CASE ChangesBySelf
  BY <1>11, Zenon DEF ChangesBySelf, ChangeBySelf
<1>12. CASE HandleNotification
  BY <1>12 DEF HandleNotification
<1>13. CASE SetChanges
  BY <1>2, <1>3, <1>4, <1>5, <1>6, <1>7, <1>8, <1>13 DEF SetChanges
<1> QED BY <1>1, <1>9, <1>10, <1>11, <1>12, <1>13 DEF Next, vars

LEMMA CallsExactNext == Types /\ CallsExact /\ [Next]_vars => CallsExact'
<1> SUFFICES ASSUME Types, CallsExact, [Next]_vars PROVE CallsExact'
  OBVIOUS
<1> USE DEF CallsExact
<1>1. CASE UNCHANGED <<device, calls>> /\ undisturbed' \cap Callers \subseteq undisturbed
  BY <1>1
<1>2. CASE undisturbed' \cap Callers = {}
  BY <1>2
<1>3. CASE SetChanges
  <2>1. CASE SendNoise
    BY <1>1, <1>2, <2>1, HeadphonesAssumption DEF SendNoise, Send
  <2>2. CASE SendVpt
    BY <1>1, <1>2, <2>2, HeadphonesAssumption DEF SendVpt, Send
  <2>3. CASE Start
    BY <1>1, <2>3, HeadphonesAssumption DEF Start
  <2> QED
    BY <1>1, <1>3, <2>1, <2>2, <2>3
    DEF SetChanges, ExceedMaxSteps, RecordNoise, CheckVpt, ChooseVpt,
        ReadPreset, RecordVpt, ReadField, Return
<1>4. ASSUME NEW c \in Callers, CallerStep(c)
      PROVE  CallsExact'
  <2>1. ASSUME NEW f \in Supported \cup {"noise"}, Poll(c, f)
        PROVE  CallsExact'
    <3>1. PICK i \in Answers(Stream(f), f) :
            /\ calls' = [calls EXCEPT ![c] = [of |-> f, answer |-> Stream(f)[i].value]]
            /\ undisturbed' = IF i > Len(unread) THEN undisturbed \cup {c}
                                                 ELSE undisturbed \ {c}
      BY <2>1 DEF Poll
    <3>2. i > Len(unread) => Stream(f)[i].value = device[f]
      BY <3>1, StreamTypes DEF Answers
    <3>3. UNCHANGED device
      BY <2>1 DEF Poll
    <3>4. calls'[c] = [of |-> f, answer |-> Stream(f)[i].value]
          /\ \A d \in Callers \ {c} : calls'[d] = calls[d]
      BY <3>1 DEF Types, CallTypes
    <3> QED BY <3>1, <3>2, <3>3, <3>4
  <2>2. ASSUME NEW f \in Features, NEW value \in Values, SetFeature(c, f, value)
        PROVE  CallsExact'
    <3>1. device' = [device EXCEPT ![f] = value] /\ f \in Supported
      BY <2>2 DEF SetFeature
    <3>2. device'[f] = value
      BY <3>1 DEF Types, DeviceTypes
    <3>3. CASE undisturbed' = undisturbed \ Callers
      BY <1>2, <3>3
    <3>4. CASE /\ calls' = [calls EXCEPT ![c] = [of |-> f, answer |-> value]]
               /\ undisturbed' \subseteq (undisturbed \ Callers) \cup {c}
      BY <3>2, <3>4 DEF Types, CallTypes
    <3> QED BY <2>2, <3>3, <3>4 DEF SetFeature
  <2>3. CASE Record(c)
    BY <2>3 DEF Record, Types, CallTypes
  <2>4. ASSUME NEW f, PollFails(c, f)
        PROVE  CallsExact'
    BY <1>1, <2>4 DEF PollFails
  <2> QED BY <1>4, <2>1, <2>2, <2>3, <2>4 DEF CallerStep
<1>5. ASSUME NEW property \in Properties, NEW value \in RangeOf(property),
             Choose(property, value)
      PROVE  CallsExact'
  BY <1>1, <1>5 DEF Choose
<1>6. CASE ChangesBySelf
  BY <1>2, <1>6, Zenon DEF ChangesBySelf, ChangeBySelf
<1>7. CASE HandleNotification
  BY <1>1, <1>7 DEF HandleNotification
<1> QED BY <1>1, <1>3, <1>4, <1>5, <1>6, <1>7 DEF Next, vars

SettledIn == settled \subseteq Supported \cup {"noise", "vpt"}

LEMMA SettledInNext == Types /\ SettledIn /\ [Next]_vars => SettledIn'
<1> SUFFICES ASSUME Types, SettledIn, [Next]_vars PROVE SettledIn'
  OBVIOUS
<1> USE DEF SettledIn
<1>1. CASE settled' \subseteq settled \cup {"noise", "vpt"}
  BY <1>1
<1>2. CASE SetChanges
  BY <1>1, <1>2
  DEF SetChanges, Start, ExceedMaxSteps, SendNoise, RecordNoise, CheckVpt, ChooseVpt,
      ReadPreset, SendVpt, RecordVpt, ReadField, Send, Settle
<1>3. ASSUME NEW c \in Callers, CallerStep(c)
      PROVE  SettledIn'
  <2>1. CASE Record(c)
    <3>1. calls[c].of \in Supported \cup {"noise"}
      BY <2>1 DEF Record, Types, CallTypes
    <3> QED BY <2>1, <3>1 DEF Record, Settle
  <2> QED BY <1>1, <1>3, <2>1 DEF CallerStep, Poll, PollFails, SetFeature
<1>4. ASSUME NEW property \in Properties, NEW value \in RangeOf(property),
             Choose(property, value)
      PROVE  SettledIn'
  BY <1>1, <1>4 DEF Choose
<1>5. CASE ChangesBySelf
  <2>1. settled' \subseteq settled
    BY <1>5, Zenon DEF ChangesBySelf, ChangeBySelf
  <2> QED BY <1>1, <2>1
<1>6. CASE HandleNotification
  BY <1>1, <1>6 DEF HandleNotification
<1> QED BY <1>1, <1>2, <1>3, <1>4, <1>5, <1>6 DEF Next, vars

\* What is settled stays true when nothing else changes, of the belief or of the
\* headphones.
LEMMA SettledFrame ==
  ASSUME SettledIsTrue, SettledIn, NEW S, UNCHANGED <<version, current, known>>,
         settled' \subseteq settled \ S,
         \A what \in (Supported \cup {"noise", "vpt"}) \ S : device'[what] = device[what]
  PROVE  SettledIsTrue'
<1>1. "noise" \in settled' => NoiseIsTrue(current)'
  BY DEF SettledIsTrue, NoiseIsTrue
<1>2. "vpt" \in settled' => VptIsTrue(current, device.vpt)'
  BY DEF SettledIsTrue, VptIsTrue
<1>3. \A f \in settled' \cap Features : known'[f] = device'[f]
  BY DEF SettledIsTrue, SettledIn
<1> QED BY <1>1, <1>2, <1>3 DEF SettledIsTrue

LEMMA SettledIsTrueNext ==
  ASSUME Types, CopiesAgree, ChangerExact, CallsExact, SettledIn, SettledIsTrue,
         [Next]_vars
  PROVE  SettledIsTrue'
<1> DEFINE Keys == Supported \cup {"noise", "vpt"}
<1>0. Supported \subseteq Features /\ "noise" \notin Features /\ "vpt" \notin Features
  BY HeadphonesAssumption DEF Features, Probed, Batteries
<1>1. CASE UNCHANGED <<version, current, known, device, settled>>
  BY <1>1, SettledFrame
<1>2. CASE SendNoise
  <2>1. /\ UNCHANGED <<version, current, known>> /\ settled' = settled \ {"noise"}
        /\ device' \in {device, [device EXCEPT !["noise"] = Serialized]}
    BY <1>2 DEF SendNoise, Send, host
  <2>2. \A what \in Keys \ {"noise"} : device'[what] = device[what]
    BY <2>1 DEF Types, DeviceTypes
  <2> QED BY <2>1, <2>2, SettledFrame
<1>3. CASE SendVpt
  <2>1. /\ UNCHANGED <<version, current, known>> /\ settled' = settled \ {"vpt"}
        /\ device' \in {device, [device EXCEPT !["vpt"] = message]}
    BY <1>3 DEF SendVpt, Send, host
  <2>2. \A what \in Keys \ {"vpt"} : device'[what] = device[what]
    BY <2>1 DEF Types, DeviceTypes
  <2> QED BY <2>1, <2>2, SettledFrame
<1>4. CASE RecordNoise
  <2>1. /\ UNCHANGED <<version, known, device>>
        /\ settled' \subseteq settled \cup {"noise"}
        /\ "noise" \in settled' => NoiseIsTrue(desired)
    BY <1>4 DEF RecordNoise, Settle, ChangerExact
  <2>2. /\ current'.on = desired.on /\ current'.level = desired.level
        /\ current'.voice = desired.voice
        /\ current'.vpt = current.vpt /\ current'.surround = current.surround
    BY <1>4 DEF RecordNoise, Types, HostTypes, Settings
  <2>3. "noise" \in settled' => NoiseIsTrue(current)'
    BY <2>1, <2>2 DEF NoiseIsTrue
  <2>4. "vpt" \in settled' => VptIsTrue(current, device.vpt)'
    BY <2>1, <2>2 DEF SettledIsTrue, VptIsTrue
  <2> QED BY <1>0, <2>1, <2>3, <2>4 DEF SettledIsTrue
<1>5. CASE RecordVpt
  <2>1. /\ UNCHANGED <<version, known, device>>
        /\ settled' \subseteq settled \cup {"vpt"}
        /\ "vpt" \in settled' => VptIsTrue(desired, device.vpt)
    BY <1>5 DEF RecordVpt, Settle, ChangerExact
  <2>2. /\ current'.on = current.on /\ current'.level = current.level
        /\ current'.voice = current.voice
        /\ current'.vpt = desired.vpt /\ current'.surround = desired.surround
    BY <1>5 DEF RecordVpt, Types, HostTypes, Settings
  <2>3. "noise" \in settled' => NoiseIsTrue(current)'
    BY <2>1, <2>2 DEF SettledIsTrue, NoiseIsTrue
  <2>4. "vpt" \in settled' => VptIsTrue(current, device.vpt)'
    BY <2>1, <2>2 DEF VptIsTrue
  <2> QED BY <1>0, <2>1, <2>3, <2>4 DEF SettledIsTrue
<1>6. CASE SetChanges
  BY <1>1, <1>2, <1>3, <1>4, <1>5, <1>6
  DEF SetChanges, Start, ExceedMaxSteps, CheckVpt, ChooseVpt, ReadPreset,
      ReadField, host
<1>7. ASSUME NEW c \in Callers, NEW f \in Features, NEW value \in Values,
             SetFeature(c, f, value)
      PROVE  SettledIsTrue'
  <2>1. /\ UNCHANGED <<version, current, known>> /\ settled' = settled \ {f}
        /\ device' = [device EXCEPT ![f] = value]
    BY <1>7 DEF SetFeature, host
  <2>2. \A what \in Keys \ {f} : device'[what] = device[what]
    BY <2>1 DEF Types, DeviceTypes
  <2> QED BY <2>1, <2>2, SettledFrame
<1>8. ASSUME NEW c \in Callers, Record(c)
      PROVE  SettledIsTrue'
  <2> DEFINE f == calls[c].of
             answer == calls[c].answer
  <2>1. /\ calls[c] # Nothing /\ UNCHANGED <<version, device>>
        /\ c \in undisturbed => answer = device[f]
    BY <1>8 DEF Record, CallsExact
  <2>2. CASE f = "noise" /\ version = "V1"
    BY <1>1, <1>8, <2>2 DEF Record, host
  <2>3. CASE f = "noise" /\ version = "V2"
    <3>1. /\ UNCHANGED known /\ settled' \subseteq settled \cup {"noise"}
          /\ current' = FromReply(current, answer)
          /\ "noise" \in settled' => answer = device.noise
      BY <1>8, <2>1, <2>3 DEF Record, Settle
    <3>2. /\ current'.on = (answer.effect # 0) /\ current'.voice = (answer.voice # 0)
          /\ current'.level = IF answer.kind # 0 THEN answer.level ELSE 0
          /\ current'.vpt = current.vpt /\ current'.surround = current.surround
      BY <3>1, FromReplyTells, Zenon DEF Types, HostTypes
    <3>3. "noise" \in settled' => NoiseIsTrue(current)'
      <4>1. version' # "V1"
        BY <2>1, <2>3
      <4> QED BY <2>1, <3>1, <3>2, <4>1, Zenon DEF NoiseIsTrue
    <3>4. "vpt" \in settled' => VptIsTrue(current, device.vpt)'
      BY <2>1, <3>1, <3>2, Zenon DEF SettledIsTrue, VptIsTrue
    <3> QED BY <1>0, <2>1, <3>1, <3>3, <3>4 DEF SettledIsTrue
  <2>4. CASE f # "noise"
    <3>1. f \in Supported
      BY <1>8, <2>4 DEF Record, Types, CallTypes
    <3>2. /\ known' = [known EXCEPT ![f] = answer] /\ UNCHANGED current
          /\ settled' \subseteq settled \cup {f}
          /\ f \in settled' => answer = device[f]
      BY <1>8, <2>1, <2>4 DEF Record, Settle
    <3>3. \A g \in settled' \cap Features : known'[g] = device'[g]
      BY <1>0, <2>1, <3>1, <3>2 DEF SettledIsTrue, Types, HostTypes
    <3> QED BY <1>0, <2>1, <3>1, <3>2, <3>3 DEF SettledIsTrue, NoiseIsTrue, VptIsTrue
  <2> QED BY <2>2, <2>3, <2>4, HeadphonesAssumption DEF Types, HostTypes
<1>9. ASSUME NEW c \in Callers, CallerStep(c)
      PROVE  SettledIsTrue'
  BY <1>1, <1>7, <1>8, <1>9 DEF CallerStep, Poll, PollFails, host
<1>10. ASSUME NEW property \in Properties, NEW value \in RangeOf(property),
              Choose(property, value)
       PROVE  SettledIsTrue'
  BY <1>1, <1>10 DEF Choose
<1>11. ASSUME NEW f \in Keys, NEW value, ChangeBySelf(f, value)
       PROVE  SettledIsTrue'
  <2>1. /\ UNCHANGED <<version, current, known>> /\ settled' = settled \ {f}
        /\ device' = [device EXCEPT ![f] = value]
    BY <1>11, Zenon DEF ChangeBySelf, host
  <2>2. \A what \in Keys \ {f} : device'[what] = device[what]
    BY <2>1 DEF Types, DeviceTypes
  <2> QED BY <2>1, <2>2, SettledFrame
<1>12. CASE HandleNotification
  <2> DEFINE note == Head(notes)
  <2>1. /\ UNCHANGED <<version, device>> /\ settled' = settled \ {note.of}
        /\ current' = FromCopy(current, copy') /\ current \in Settings
    BY <1>12 DEF HandleNotification, Types, HostTypes
  <2>2. copy' \in NoiseControls
    BY TypesNext DEF Types, HostTypes
  <2>3. /\ copy'.mode # "off" <=> current'.on
        /\ current'.on => copy'.level = current'.level /\ copy'.voice = current'.voice
        /\ current'.vpt = current.vpt /\ current'.surround = current.surround
    BY <2>1, <2>2, FromCopyAgrees, Zenon
  <2>4. "noise" \in settled' => NoiseIsTrue(current)'
    <3>1. SUFFICES ASSUME "noise" \in settled' PROVE NoiseIsTrue(current)'
      OBVIOUS
    <3>2. copy' = copy /\ NoiseIsTrue(current)
      BY <1>12, <2>1, <3>1 DEF HandleNotification, SettledIsTrue
    <3>3. /\ current'.on <=> current.on
          /\ current'.on => current'.level = current.level /\ current'.voice = current.voice
      BY <2>3, <3>2 DEF CopiesAgree
    <3> QED BY <2>1, <3>2, <3>3 DEF NoiseIsTrue
  <2>5. "vpt" \in settled' => VptIsTrue(current, device.vpt)'
    BY <2>1, <2>3 DEF SettledIsTrue, VptIsTrue
  <2>6. \A g \in settled' \cap Features : known'[g] = device'[g]
    BY <1>12, <2>1 DEF HandleNotification, SettledIsTrue, Types, HostTypes
  <2> QED BY <2>4, <2>5, <2>6 DEF SettledIsTrue
<1> QED
  BY <1>1, <1>6, <1>9, <1>10, <1>11, <1>12 DEF Next, ChangesBySelf, vars

\* What setChanges(), a poll or a setter has brought in line while nothing crossed
\* it is as the headphones have it, and later reads, answers and notifications do
\* not spoil it.
THEOREM SettledStaysTrue == Spec => []SettledIsTrue
<1> DEFINE Inv == /\ Types /\ CopiesAgree /\ ChangerExact /\ CallsExact
                  /\ SettledIn /\ SettledIsTrue
<1>1. Init => Inv
  BY TypesInit, CopiesAgreeInit
  DEF Init, ChangerExact, CallsExact, SettledIn, SettledIsTrue
<1>2. Inv /\ [Next]_vars => Inv'
  BY TypesNext, CopiesAgreeNext, ChangerExactNext, CallsExactNext, SettledInNext,
     SettledIsTrueNext
<1>3. Inv => SettledIsTrue
  OBVIOUS
<1> HIDE DEF Inv
<1> QED BY <1>1, <1>2, <1>3, PTL DEF Spec
=============================================================================
