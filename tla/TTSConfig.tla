------------------------------- MODULE TTSConfig -------------------------------
(***************************************************************************)
(* TTSConfiguration and what the calls of the clients make of it           *)
(* (TTSSpeaker.cpp 36-398, TTSManager.cpp 190-372): operators from a       *)
(* configuration and a request to a configuration, and what the            *)
(* configuration store keeps of one.                                       *)
(*                                                                         *)
(* Of a configuration: level stands for volume, rate and speech rate, duck *)
(* for the ducking of the primary volume, pitch for what an utterance      *)
(* takes by default (utterance volume and rate, pitch); endpoint for the   *)
(* two remote endpoints; local says that a local endpoint is in use; text  *)
(* is the fallback text, path that its audio has been downloaded.          *)
(***************************************************************************)
EXTENDS Integers

CONSTANTS Languages, NoLanguage,
          Voices, NoVoice,
          VoiceFor,        \* the first of "voice_for_" a language, in ttsconfig
          LocalVoiceFor,   \* the first of "voice_for_local_" a language
          Language,        \* "language", "localendpoint" of ttsconfig
          HasLocal,
          Texts, NoText,
          Levels, NoLevel

ASSUME ConfigAssumption ==
    /\ NoLanguage \notin Languages /\ NoVoice \notin Voices /\ NoText \notin Texts
    /\ NoLevel \notin Levels /\ 1 \in Levels /\ Language \in Languages /\ HasLocal \in BOOLEAN
    /\ VoiceFor \in [Languages -> Voices \cup {NoVoice}]
    /\ LocalVoiceFor \in [Languages -> Voices \cup {NoVoice}]
    /\ VoiceFor[Language] # NoVoice

Endpoints == {"remote", "localhost"}
NoEndpoint == "none"

Configs == [enabled : BOOLEAN, language : Languages, voice : Voices, level : Levels, duck : Levels,
            pitch : Levels, endpoint : Endpoints, local : BOOLEAN,
            apiKey : BOOLEAN, text : Texts \cup {NoText}, path : BOOLEAN]
Stored == [enabled : BOOLEAN, language : Languages, voice : Voices, level : Levels, duck : Levels,
           text : Texts \cup {NoText}, path : BOOLEAN]

\* SetConfiguration and SetDeviceConfiguration; a level of one is a pitch of the other.
Requests == [endpoint : Endpoints \cup {NoEndpoint}, language : Languages \cup {NoLanguage},
             voice : Voices \cup {NoVoice}, level : Levels \cup {NoLevel}, device : BOOLEAN]

\* The constructor, and Configure before it loads the store.  The default voice is that
\* of the default language.
Default ==
    [enabled |-> FALSE, language |-> Language, voice |-> VoiceFor[Language], level |-> 1,
     duck |-> 1, pitch |-> 1, endpoint |-> "remote", local |-> HasLocal,
     apiKey |-> FALSE, text |-> NoText, path |-> FALSE]

\* _writeToFile
Persisted(c) == [enabled |-> c.enabled, language |-> c.language, voice |-> c.voice,
                 level |-> c.level, duck |-> c.duck, text |-> c.text, path |-> c.path]

\* _readFromFile
Loaded(c, d) == [c EXCEPT !.enabled = d.enabled, !.language = d.language, !.voice = d.voice,
                          !.level = d.level, !.duck = d.duck, !.text = d.text, !.path = d.path]

\* Empty values leave a setting alone, and so do those out of range.
Set(old, new, none) == IF new = none THEN old ELSE new

\* A new endpoint on this very device is always used: no local one any more.
WithEndpoint(c, e) ==
    IF e \in {NoEndpoint, c.endpoint} THEN c
    ELSE [c EXCEPT !.endpoint = e, !.local = @ /\ e # "localhost"]

\* Without a voice a language takes its first one.
DefaultVoice(r) == IF r.voice = NoVoice /\ r.language # NoLanguage THEN VoiceFor[r.language]
                   ELSE r.voice
NoVoices(r) == r.language # NoLanguage /\ DefaultVoice(r) = NoVoice

WithLanguage(c, r) == [c EXCEPT !.language = Set(@, r.language, NoLanguage),
                                !.voice = Set(@, DefaultVoice(r), NoVoice)]

\* The local endpoint has no voice for a language that is new.
NoLocalVoices(c, r) ==
    LET d == WithLanguage(c, r)
    IN  d.local /\ d.language # c.language /\ LocalVoiceFor[d.language] = NoVoice

WithLevel(c, r) == IF r.device THEN [c EXCEPT !.pitch = Set(@, r.level, NoLevel)]
                   ELSE [c EXCEPT !.level = Set(@, r.level, NoLevel)]

\* setConfiguration, setDeviceConfiguration: what they leave when they fail on the way,
\* and at their end
Configured(c, r) ==
    LET d == WithEndpoint(c, r.endpoint)
    IN  IF NoVoices(r) THEN d
        ELSE IF NoLocalVoices(d, r) THEN WithLanguage(d, r)
        ELSE WithLevel(WithLanguage(d, r), r)

Refused(c, r) == NoVoices(r) \/ NoLocalVoices(WithEndpoint(c, r.endpoint), r)

\* What makes the manager save: not a new endpoint
Differs(c, d) == \/ c.language # d.language \/ c.voice # d.voice
                 \/ c.level # d.level \/ c.pitch # d.pitch

\* setFallBackText; the text's audio is yet to be downloaded
WithText(c, t) == IF t \in {NoText, c.text} THEN c ELSE [c EXCEPT !.text = t, !.path = FALSE]

===============================================================================
