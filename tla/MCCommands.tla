----------------------------- MODULE MCCommands -----------------------------
(* A small instance of Commands for TLC: models of each kind, and every     *)
(* command with arguments in, at and out of their bounds.                   *)
EXTENDS Commands

Switching == {Word("on"), Word("off"), Word("perhaps"), NoArgument}
Counting(ns) == {Number(n) : n \in ns} \cup {Word("perhaps"), NoArgument}

Arguments == [
    anc            |-> Switching,
    ambient        |-> Counting({1, 20, 21}) \cup {Word("off")},
    eqPreset       |-> Counting({16, 256}) \cup {Word("bass-boost")},
    eqCustom       |-> Counting({-10, 11}),
    autoPowerOff   |-> Counting({5, 6}),
    dsee           |-> {Word("on"), Word("off")},
    speakToChat    |-> {Word("on"), Word("perhaps")},
    adaptiveVolume |-> {Word("on"), Word("off")},
    reset          |-> {NoArgument}, factoryReset |-> {NoArgument},
    info           |-> {NoArgument}, status |-> {NoArgument},
    devices        |-> {NoArgument}, raw |-> {NoArgument},
    connect        |-> {NoArgument}, disconnect |-> {NoArgument},
    snapshot       |-> {NoArgument}, gibberish |-> {NoArgument}]

AllRequests ==
    {Request(form, verb, arg, flag) :
        <<form, verb, flag, arg>> \in
            UNION {{<<form, verb, flag, arg>> : arg \in Arguments[verb]} :
                   <<form, verb, flag>> \in
                       {"text", "json"} \X (DOMAIN Arguments) \X BOOLEAN}}

\* The flag means something to these alone, and these words are JSON's alone.
MCRequests ==
    {r \in AllRequests :
        /\ r.flag => r.verb = "factoryReset" \/ (r.verb = "ambient" /\ r.form = "json")
        /\ r.verb \in {"connect", "disconnect", "snapshot"} => r.form = "json"}

\* None, one of the two that tell the battery, both and that of the noise.
MCSilences == {{}, {"single"}, {"single", "dual", "noise"}}

\* Ambient with voice, an empty bud, a time nobody has heard of.
MCOwn == [m \in ModelNames |-> [f \in Features |->
    CASE f = "noise"        -> {EncodeNoise(Version(m), Noise("ambient", 20, TRUE))}
      [] f = "battery"      -> {[left |-> 40, right |-> 0]}
      [] f = "autoPowerOff" -> {<<9, 9>>}
      [] f = "preset"       -> {99}
      [] OTHER              -> {1}]]
=============================================================================
