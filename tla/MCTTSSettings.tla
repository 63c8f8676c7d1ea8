---------------------------- MODULE MCTTSSettings -----------------------------
(***************************************************************************)
(* The settings of TextToSpeech, or what it remembers of one other plugin, *)
(* or a request to an endpoint: they share nothing.                        *)
(***************************************************************************)
EXTENDS TTSSettings, TTSCaches, TTSURL

VARIABLE scene
vars == <<settingsVars, cacheVars, urlVars, scene>>

\* "en" has a voice at both endpoints, "fr" at the remote one only, "es" at the local one.
MCVoiceFor == [en |-> "carol", fr |-> "claire", es |-> NoVoice]
MCLocalVoiceFor == [en |-> "carol", fr |-> NoVoice, es |-> "carol"]

Nothing == Call("SetConfiguration").request
Json(key, text, hasDuck, duck, r) == JsonSetConfiguration(key, text, hasDuck, duck, r)

\* A key and a text; a text with a duck out of range; languages; an endpoint on the
\* device; and calls of COM-RPC clients.
MCBatches ==
    {Json(TRUE, "A", TRUE, 2, [Nothing EXCEPT !.level = 2]),
     Json(FALSE, "B", TRUE, NoLevel, Nothing),
     Json(FALSE, NoText, FALSE, NoLevel, [Nothing EXCEPT !.language = "fr"]),
     Json(FALSE, NoText, FALSE, NoLevel, [Nothing EXCEPT !.endpoint = "localhost", !.language = "fr"]),
     Json(FALSE, NoText, FALSE, NoLevel, [Nothing EXCEPT !.language = "es"]),
     <<[Call("SetConfiguration") EXCEPT !.request.device = TRUE, !.request.level = 2]>>,
     <<[Call("Enable") EXCEPT !.on = TRUE]>>}

\* Local and remote, a key, an endpoint of RFC, TTS 1 and 2, a speech rate and none
MCSettings ==
    {[key |-> FALSE, rfc |-> FALSE, tts2 |-> FALSE, fallback |-> TRUE, rate |-> "faster"],
     [key |-> FALSE, rfc |-> TRUE, tts2 |-> FALSE, fallback |-> TRUE, rate |-> ""],
     [key |-> TRUE, rfc |-> FALSE, tts2 |-> TRUE, fallback |-> TRUE, rate |-> "faster"],
     [key |-> TRUE, rfc |-> TRUE, tts2 |-> TRUE, fallback |-> TRUE, rate |-> ""]}
MCUtteranceRates == {0, 1, 24, 25, 49, 50, 89, 90, 100}

Init == SettingsInit /\ CachesInit /\ URLInit /\ scene \in {"settings", "request"} \cup Caches
Next == /\ UNCHANGED scene
        /\ \/ scene = "settings" /\ SettingsNext /\ UNCHANGED <<cacheVars, urlVars>>
           \/ scene = "request" /\ URLNext /\ UNCHANGED <<settingsVars, cacheVars>>
           \/ \E c \in Caches : scene = c /\ CacheStep(c) /\ UNCHANGED <<settingsVars, urlVars>>

Spec == Init /\ [][Next]_vars /\ SettingsFairness

\* The settings keep their ranges whatever is asked for (the setters of
\* TTSConfiguration, TTSSpeaker.cpp 114-298), in memory, in the store and in the
\* downloader's copy; and a cache holds only values that were once true.
TypeOK == SettingsTypeOK /\ CachesTypeOK
===============================================================================
