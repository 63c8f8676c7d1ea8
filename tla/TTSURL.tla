--------------------------------- MODULE TTSURL ---------------------------------
(***************************************************************************)
(* What TextToSpeech asks an endpoint to say (TTSURLConstructer.cpp): the  *)
(* parameters of the request, and the text as it is cleaned for it.        *)
(*                                                                         *)
(* A text is a sequence of characters: "a" is any letter, "." any          *)
(* punctuation that is read out, "?" any that is silent, "$" stands for    *)
(* all the symbols with a word of their own.  A word put in for a symbol   *)
(* is one letter here.  A request has the text that the endpoint decodes:  *)
(* curlSanitize only encodes it.                                           *)
(***************************************************************************)
EXTENDS Integers, SequencesExt

CONSTANTS MaxText,      \* bound: length of a text
          Settings,     \* the settings to look at: records of key, rfc, tts2, fallback, rate
          UtteranceRates \* ten times the rate of an utterance; 0 is none

\* The rate of an utterance is from 0.1 to 10, or none (TextToSpeechImplementation.cpp:92).
ASSUME URLAssumption == UtteranceRates \subseteq 0 .. 100

VARIABLES input,   \* what constructURL is called with
          request  \* what it returns
urlVars == <<input, request>>

Letters == {"a", "dollar", "or", "colonslashslash"}
Quote == "q"
Blank == "b"
Silent == {"?", ":"}
Punctuation == Silent \cup {".", "$", "/", Quote}
Characters == {"a", Blank} \cup Punctuation
Said == Characters \cup Letters
SpokenTexts == {t \in BoundedSeq(Characters, MaxText) : ToSet(t) \ {Blank} # {}}

-------------------------------------------------------------------------------
(* Cleaning.                                                               *)

Gap(c) == c \in Punctuation \cup {Blank}

\* Where search is, from pos on, and whether what is at i stands alone
Found(text, search, pos) ==
    {i \in pos .. Len(text) - Len(search) + 1 : SubSeq(text, i, i + Len(search) - 1) = search}
Isolated(text, i) == /\ i = 1 \/ Gap(text[i - 1])
                     /\ i = Len(text) \/ Gap(text[i + 1])

\* From where it has come to on: it does not look at what it has put in.
replaceIfIsolated(string, search, replace, skipIsolationCheck) ==
    LET from[x \in Seq(Said) \X (Nat \ {0})] ==
            LET text == x[1]
                i == Min(Found(text, search, x[2]))
            IN  IF Found(text, search, x[2]) = {} THEN text
                ELSE IF Isolated(text, i) \/ skipIsolationCheck
                THEN from[<<SubSeq(text, 1, i - 1) \o replace
                               \o SubSeq(text, i + Len(search), Len(text)), i + Len(replace)>>]
                ELSE from[<<text, i + Len(search)>>]
    IN  from[<<string, 1>>]

Worded(text) ==
    LET slashes == replaceIfIsolated(text, <<":", "/", "/">>, <<Blank, "colonslashslash", Blank>>, TRUE)
        dollars == replaceIfIsolated(slashes, <<"$">>, <<"dollar">>, FALSE)
    IN  replaceIfIsolated(dollars, <<"/">>, <<"or">>, FALSE)

\* Mutant: only what follows the punctuation at once is dropped.
Follows_Adjacent(text, pos) ==
    LET ends == {i \in pos + 1 .. Len(text) : text[i] \notin Silent} IN
    IF ends = {} THEN Len(text) + 1 ELSE Min(ends)

\* Where the silent punctuation and the spaces after pos end
Follows(text, pos) ==
    LET ends == {i \in pos + 1 .. Len(text) : text[i] \notin Silent \cup {Blank}} IN
    IF ends = {} THEN Len(text) + 1 ELSE Min(ends)

\* A quote at pos is dropped, and the character that takes its place is passed over: after
\* the last one, that is outside the text.
Unquoted(text, pos) ==
    IF pos <= Len(text) /\ text[pos] = Quote THEN <<RemoveAt(text, pos), pos + 1>> ELSE <<text, pos>>

\* Of what follows the punctuation at pos, the spaces are kept.
Spaces(text, pos) ==
    [n \in 1 .. Cardinality({i \in pos + 1 .. Follows(text, pos) - 1 : text[i] = Blank}) |-> Blank]

\* A text, and the position from which on it is looked at
replaceSuccesivePunctuation[x \in Seq(Said) \X (Nat \ {0})] ==
    LET t == Unquoted(x[1], x[2])[1]
        p == Unquoted(x[1], x[2])[2]
    IN  IF p > Len(t) THEN [text |-> t, outside |-> p > Len(t) + 1]
        ELSE IF t[p] \notin Punctuation THEN replaceSuccesivePunctuation[<<t, p + 1>>]
        ELSE replaceSuccesivePunctuation[
                 <<SubSeq(t, 1, p) \o Spaces(t, p) \o SubSeq(t, Follows(t, p), Len(t)),
                   p + 1 + Len(Spaces(t, p))>>]

sanitizeString(text) == replaceSuccesivePunctuation[<<Worded(text), 1>>]

-------------------------------------------------------------------------------
(* The request.                                                            *)

SpeechRates == {"slow", "medium", "fast", "faster", "fastest"}
speechRateMap == [slow |-> 25, medium |-> 50, fast |-> 75, faster |-> 90, fastest |-> 100]
utteranceRateMap == [k \in {0, 25, 50, 75, 90} |->
    CASE k = 0 -> "slow" [] k = 25 -> "medium" [] k = 50 -> "fast" [] k = 75 -> "faster"
      [] k = 90 -> "fastest"]

\* upper_bound, and one back
utteranceRate(r) == utteranceRateMap[Max({k \in DOMAIN utteranceRateMap : k <= r})]

\* A speech rate that is not in the table, or was never set
numbered(rate) == IF rate \in SpeechRates THEN speechRateMap[rate] ELSE 50

\* Of TTS 1 and of the local endpoint, a number; of TTS 2, a name, and a speech rate goes
\* as it is
Rate(c, utterance, isLocal) ==
    IF isLocal \/ ~c.tts2
    THEN <<"rate", IF utterance # 0 THEN utterance ELSE numbered(c.rate)>>
    ELSE <<"speaking_rate", IF utterance # 0 THEN utteranceRate(utterance) ELSE c.rate>>

httpgetURL(c, text, utterance, isLocal) ==
    LET said == sanitizeString(text)
    IN  {[endpoint |-> IF isLocal THEN "local" ELSE IF c.rfc THEN "rfc" ELSE "secure",
          voice |-> IF isLocal THEN "local" ELSE "remote",
          rate |-> Rate(c, utterance, isLocal), text |-> said.text, outside |-> said.outside]}

\* The server is given the text as it is, and no rate; what it names, if anything, is the
\* URL.  When it does not answer, the fallback's audio is the URL.
NoRequest == [endpoint |-> "none", voice |-> "none", rate |-> <<"none">>, text |-> <<>>, outside |-> FALSE]
httppostURL(c, text, isFallback) ==
    {NoRequest, [NoRequest EXCEPT !.endpoint = "named", !.voice = "remote", !.text = text]}
    \cup (IF c.fallback /\ ~isFallback THEN {[NoRequest EXCEPT !.endpoint = "file"]} ELSE {})

\* The text is the fallback's if isFallback.
constructURL(c, text, utterance, isFallback, isLocal) ==
    IF c.key /\ ~isLocal /\ ~c.rfc THEN httppostURL(c, text, isFallback)
    ELSE httpgetURL(c, text, utterance, isLocal)

-------------------------------------------------------------------------------
NoInput == [config |-> "none"]

URLInit == input = NoInput /\ request = NoRequest

\* The manager lets no empty text by.  What becomes of a text does not depend on the rest:
\* the longer ones come without an utterance.
Asked ==
    /\ input = NoInput /\ UNCHANGED request
    /\ \E c \in Settings, t \in SpokenTexts, u \in UtteranceRates, f \in BOOLEAN, l \in BOOLEAN :
          /\ Len(t) <= 1 \/ (u = 0 /\ ~f /\ ~l)
          /\ input' = [config |-> c, text |-> t, utterance |-> u, isFallback |-> f, isLocal |-> l]

Construct ==
    /\ input # NoInput /\ request = NoRequest /\ UNCHANGED input
    /\ request' \in constructURL(input.config, input.text, input.utterance, input.isFallback, input.isLocal)

URLNext == Asked \/ Construct

URLSpec == URLInit /\ [][URLNext]_urlVars

-------------------------------------------------------------------------------
Count(t, c) == Cardinality({i \in DOMAIN t : t[i] = c})

\* What is read out of a text, in order
Aloud == Said \ (Silent \cup {Quote})
Heard(t, i) == Cardinality({j \in 1 .. i : t[j] \in Aloud})
Loud(t) == [n \in 1 .. Heard(t, Len(t)) |->
               t[CHOOSE i \in DOMAIN t : t[i] \in Aloud /\ Heard(t, i) = n]]

\* What is asked to be said is the text: silent punctuation that follows punctuation is
\* dropped, also over spaces, and nothing else is ("replaceSuccesivePunctuation"); a
\* symbol between spaces is said as a word and one next to a letter is not
\* ("replaceIfIsolated").  Quotes break this, "Remove unwanted characters"
\* (TTSURLConstructer.cpp:283) notwithstanding: the character after one is passed over,
\* so that a second quote stays, and when the text ends in a quote, it reads outside it.
Says(t, said) ==
    LET r == said.text
        Space(i) == i \notin DOMAIN t \/ t[i] = Blank
        dollars == {i \in DOMAIN t : t[i] = "$"}
    IN  /\ said.outside => Last(t) = Quote
        /\ Count(r, Quote) < Count(t, Quote) \/ Quote \notin ToSet(t)
        /\ Loud(r) = Loud(Worded(t))
        /\ Count(r, "dollar") + Count(r, "$") = Cardinality(dollars)
        /\ Cardinality({i \in dollars : Space(i - 1) /\ Space(i + 1)}) <= Count(r, "dollar")
        /\ Count(r, "dollar") <= Cardinality(
               {i \in dollars : "a" \notin {t[j] : j \in {i - 1, i + 1} \cap DOMAIN t}})
        /\ Quote \in ToSet(t) \/ \A j, k \in DOMAIN r :
              ~(j < k /\ r[j] \in Punctuation /\ r[k] \in Silent
                /\ \A i \in j + 1 .. k - 1 : r[i] \in Silent \cup {Blank})
SaysTheText == Says(input.text, request)

\* The two tables of rates agree: a TTS 2 endpoint is never asked to speak slower than
\* the utterance asks for, nor by more than a quarter faster.
RatesAgree ==
    (request.rate[1] = "speaking_rate" /\ input.utterance # 0) =>
        speechRateMap[request.rate[2]] \in input.utterance .. input.utterance + 25

\* A request says what the client asked for, as fast as it asked.
RequestHolds == request.endpoint \in {"local", "rfc", "secure"} => SaysTheText /\ RatesAgree
===============================================================================
