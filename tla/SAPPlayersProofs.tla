---------------------------- MODULE SAPPlayersProofs ----------------------------
(***************************************************************************)
(* The types of SAPPlayers, and SoleOwner, for any number of callers,      *)
(* players and calls.                                                      *)
(*                                                                         *)
(* Types.  objectMap has no key of a deleted player, so that only a call   *)
(* that fetched its player before Close can use a deleted one              *)
(* (SystemAudioPlayerImplementation.cpp:557).  That a player is deleted    *)
(* once it has left objectMap follows from where each caller is (Holding): *)
(* a Close has taken its player out, and only a Close deletes.  TypeOK is  *)
(* proved group by group of variables; each lemma has a case for each      *)
(* action that changes the group.                                          *)
(*                                                                         *)
(* SoleOwner.  Two players of one mode play together only when one of them *)
(* was started around SameModeNotPlaying                                   *)
(* (SystemAudioPlayerImplementation.cpp:523).  The invariant follows a     *)
(* Play through its question.  While it asks it has _adminLock, so that no *)
(* player is opened or deleted meanwhile (Control, Gone), and each player  *)
(* of the mode it has already seen is silent; once granted, all of them    *)
(* are (Exclusive).  A player that is silent can be heard again only by a  *)
(* Start, which is a Play's own, or by a step that sets bypassed.          *)
(*                                                                         *)
(* The locks.  NoCircle follows from where the holder of each lock is      *)
(* (LocksHeld): who has a m_apiMutex is between its two halves of Stop and *)
(* waits for nothing; who has a m_playMutex or _adminLock waits at most    *)
(* for a m_apiMutex, or for the pusher of a player that it deletes.        *)
(***************************************************************************)
EXTENDS SAPPlayers, WellFoundedInduction, TLAPS

USE PlayersAssumption

\* The groups of TypeOK
MapsTyped ==
    /\ opened \in 0 .. MaxPlayers /\ mapped \subseteq 1 .. opened
    /\ freed \subseteq (1 .. opened) \ mapped
PlayersTyped ==
    /\ state \in [Player -> States]
    /\ paused \in [Player -> BOOLEAN] /\ fresh \in [Player -> BOOLEAN]
FeedsTyped == fed \in [Player -> BOOLEAN] /\ inHand \in [Player -> BOOLEAN]
PipesTyped ==
    /\ gst \in [Player -> {"none", "null", "ready", "paused", "playing", "drained", "broken"}]
    /\ target \in [Player -> {"null", "paused", "playing"}]
    /\ bus \in [Player -> Seq(Messages)]
VolumesTyped ==
    /\ volume \in Levels /\ primary \in [Player -> Levels]
    /\ prev \in [Player -> Levels \cup {Unset}] /\ setter \in 0 .. MaxPlayers
    /\ byBus \in BOOLEAN
ToldTyped == told \in [Player -> Beliefs]
LocksTyped ==
    /\ adminLock \in Callers \cup {Nobody}
    /\ playMutex \in [Player -> Callers \cup {Nobody}]
    /\ apiMutex \in [Player -> Threads \cup {Nobody}]
CallsTyped ==
    /\ cpc \in [Callers -> {"idle", "fetched", "check", "stop", "ready", "granted", "start",
                            "delete", "act", "mix"}]
    /\ op \in [Callers -> CallKinds \cup {"none"}] /\ pl \in [Callers -> 0 .. MaxPlayers]
    /\ rest \in [Callers -> SUBSET Player] /\ calls \in 0 .. MaxCalls
BusTyped ==
    /\ bpc \in {"idle", "handle", "tell", "stop", "ready"}
    /\ bmsg \in Messages \cup {"none"} /\ bpl \in 0 .. MaxPlayers
    /\ bstale \in BOOLEAN
GhostsTyped == bypassed \in BOOLEAN /\ crashed \in BOOLEAN

LEMMA Groups ==
  TypeOK <=> /\ MapsTyped /\ PlayersTyped /\ FeedsTyped /\ PipesTyped /\ VolumesTyped
             /\ ToldTyped /\ LocksTyped /\ CallsTyped /\ BusTyped /\ GhostsTyped
  BY DEF TypeOK, MapsTyped, PlayersTyped, FeedsTyped, PipesTyped, VolumesTyped, ToldTyped,
     LocksTyped, CallsTyped, BusTyped, GhostsTyped

\* The player of a call, and that of the message in hand
Holding ==
    /\ \A c \in Callers :
          /\ cpc[c] # "idle" => pl[c] \in 1 .. opened
          /\ cpc[c] = "delete" => op[c] = "close"
          /\ op[c] = "close" => pl[c] \in (1 .. opened) \ mapped
    /\ bpc # "idle" => bpl \in Player

TypeInv == TypeOK /\ Holding

\* The steps of Next
PlayStep(c) == \/ Refuse(c) \/ Ask(c) \/ Check(c) \/ EnterPlay(c) \/ CallerStops(c)
               \/ CallerReady(c) \/ Start(c) \/ Delete(c)
ActStep(c) == \/ PlayerPlayBuffer(c) \/ PlayerPause(c) \/ PlayerResume(c)
              \/ PlayerSmartVolControl(c) \/ PlayerMixerLevels(c) \/ PlayerMixes(c)
              \/ PlayerPCMCaps(c) \/ PlayerIsPlaying(c) \/ UsesFreed(c)

LEMMA NextCases ==
  Next => \/ \E c \in Callers : Call(c)
          \/ \E c \in Callers : PlayStep(c)
          \/ \E c \in Callers : ActStep(c)
          \/ \E p \in Player : Pushing(p) \/ Stream(p)
          \/ BusStep
  BY DEF Next, CallStep, PlayStep, ActStep

LEMMA PlayerBounds ==
  ASSUME TypeInv
  PROVE  /\ opened \in Nat /\ opened <= MaxPlayers /\ 1 .. opened \subseteq Player
         /\ \A p \in Player : p \in 0 .. MaxPlayers
         /\ 0 \in 0 .. MaxPlayers
         /\ \A c \in Callers : cpc[c] # "idle" => pl[c] \in Player
         /\ bpc # "idle" => bpl \in Player
  BY DEF TypeInv, TypeOK, Holding, Player

USE DEF Set

\* One entry of a function changes, or none.
LEMMA SetTyped ==
  ASSUME NEW S, NEW T, NEW f \in [S -> T], NEW p, NEW v, p \in S => v \in T
  PROVE  [f EXCEPT ![p] = v] \in [S -> T]
  OBVIOUS

-------------------------------------------------------------------------------
(* What the steps are made of.                                             *)

\* A pipeline in the NULL state, or another
LEMMA SilenceTyped ==
  ASSUME PipesTyped, BusTyped, NEW p, NEW anew \in BOOLEAN, Silence(p, anew)
  PROVE  PipesTyped' /\ bstale' \in BOOLEAN
<1>1. gst' \in [Player -> {"none", "null", "ready", "paused", "playing", "drained", "broken"}]
  <2>1. \E g \in {"none", "null", "ready", "paused", "playing", "drained", "broken"} :
            gst' = [gst EXCEPT ![p] = g]
    BY DEF Silence, createPipeline
  <2> QED
    BY <2>1, SetTyped DEF PipesTyped
<1>2. target' \in [Player -> {"null", "paused", "playing"}]
  BY SetTyped DEF Silence, PipesTyped
<1>3. bus' \in [Player -> Seq(Messages)]
  <2>1. <<>> \in Seq(Messages)
    OBVIOUS
  <2> QED
    BY <2>1, SetTyped DEF Silence, PipesTyped
<1>4. bstale' \in BOOLEAN
  BY DEF Silence
<1> QED
  BY <1>1, <1>2, <1>3, <1>4 DEF PipesTyped

\* The first half of Stop, and the second
LEMMA ResetsTyped ==
  ASSUME PlayersTyped, FeedsTyped, PipesTyped, LocksTyped, BusTyped, NEW t \in Threads, NEW p,
         StopResets(t, p)
  PROVE  PlayersTyped' /\ FeedsTyped' /\ PipesTyped' /\ LocksTyped' /\ bstale' \in BOOLEAN
<1>1. PipesTyped' /\ bstale' \in BOOLEAN
  <2>1. (state[p] = "PLAYBACKERROR" \/ gst[p] = "none") \in BOOLEAN
    OBVIOUS
  <2>2. Silence(p, state[p] = "PLAYBACKERROR" \/ gst[p] = "none")
    BY DEF StopResets
  <2> QED
    BY <2>1, <2>2, SilenceTyped
<1>2. PlayersTyped'
  BY SetTyped DEF StopResets, PlayersTyped
<1>3. FeedsTyped'
  BY SetTyped DEF StopResets, FeedsTyped
<1>4. LocksTyped'
  BY SetTyped DEF StopResets, LocksTyped
<1> QED
  BY <1>1, <1>2, <1>3, <1>4

LEMMA ReadyTyped ==
  ASSUME PlayersTyped, LocksTyped, NEW t \in Threads, NEW p, StopReady(t, p)
  PROVE  PlayersTyped' /\ LocksTyped'
<1>1. PlayersTyped'
  BY SetTyped DEF StopReady, PlayersTyped, States
<1>2. LocksTyped'
  BY SetTyped DEF StopReady, LocksTyped
<1> QED
  BY <1>1, <1>2

\* A pipeline is asked for another state.
LEMMA SetStateTyped ==
  ASSUME PipesTyped, NEW p \in Player, NEW to \in {"paused", "playing"}, SetState(p, to)
  PROVE  PipesTyped'
<1>1. gst[p] \in {"none", "null", "ready", "paused", "playing", "drained", "broken"}
  BY DEF PipesTyped
<1>2. gst' \in [Player -> {"none", "null", "ready", "paused", "playing", "drained", "broken"}]
  BY <1>1, SetTyped DEF SetState, PipesTyped
<1>3. target' \in [Player -> {"null", "paused", "playing"}]
  BY SetTyped DEF SetState, PipesTyped
<1> QED
  BY <1>2, <1>3 DEF SetState, PipesTyped

\* setPrimaryVolume
LEMMA VolumeTyped ==
  ASSUME VolumesTyped, NEW p \in Player, NEW v \in Levels, NEW w \in Levels, NEW b \in BOOLEAN,
         setPrimaryVolume(p, v, w, b), UNCHANGED primary
  PROVE  VolumesTyped'
<1>1. p \in 0 .. MaxPlayers
  BY DEF Player
<1>2. CASE UNCHANGED <<volume, prev, setter, byBus>>
  BY <1>2 DEF VolumesTyped
<1>3. CASE volume' = w /\ prev' = [prev EXCEPT ![p] = w] /\ setter' = (IF b THEN p ELSE 0) /\ byBus' = b
  BY <1>1, <1>3, SetTyped DEF VolumesTyped
<1> QED
  BY <1>2, <1>3 DEF setPrimaryVolume

\* How handleMessage ends
LEMMA EndTyped ==
  ASSUME VolumesTyped, NEW p \in Player, NEW s, EndOfMessage(p, s)
  PROVE  VolumesTyped'
<1>1. Full \in Levels /\ TRUE \in BOOLEAN
  BY DEF Levels
<1>2. CASE setPrimaryVolume(p, Full, Full, TRUE) /\ UNCHANGED primary
  BY <1>1, <1>2, VolumeTyped
<1>3. CASE UNCHANGED volumeVars
  BY <1>3 DEF volumeVars, VolumesTyped
<1> QED
  BY <1>2, <1>3 DEF EndOfMessage

LEMMA DockTyped ==
  ASSUME VolumesTyped, NEW p \in Player, Dock(p)
  PROVE  VolumesTyped'
<1>1. primary[p] \in Levels /\ Full \in Levels
  BY DEF VolumesTyped, Levels
<1>2. (IF state[p] = "PLAYING" THEN primary[p] ELSE Full) \in Levels /\ (target[p] # "null") \in BOOLEAN
  BY <1>1
<1> QED
  BY <1>1, <1>2, VolumeTyped DEF Dock

LEMMA CutTyped ==
  ASSUME VolumesTyped, NEW p, Cut(p)
  PROVE  VolumesTyped'
  BY DEF Cut, VolumesTyped

\* A caller goes on, and one that returns.
LEMMA GotoTyped ==
  ASSUME CallsTyped, NEW c,
         NEW to \in {"idle", "fetched", "check", "stop", "ready", "granted", "start",
                   "delete", "act", "mix"},
         Goto(c, to), NEW Q, Q \subseteq Player, rest' = [rest EXCEPT ![c] = Q] \/ rest' = rest,
         UNCHANGED <<op, pl, calls>>
  PROVE  CallsTyped'
<1>1. cpc' \in [Callers -> {"idle", "fetched", "check", "stop", "ready", "granted", "start",
                          "delete", "act", "mix"}]
  BY SetTyped DEF Goto, CallsTyped
<1>2. rest' \in [Callers -> SUBSET Player]
  BY SetTyped DEF CallsTyped
<1> QED
  BY <1>1, <1>2 DEF CallsTyped

LEMMA ReturnTyped ==
  ASSUME CallsTyped, NEW c, Return(c), UNCHANGED calls
  PROVE  CallsTyped'
<1>1. cpc' \in [Callers -> {"idle", "fetched", "check", "stop", "ready", "granted", "start",
                          "delete", "act", "mix"}]
  BY SetTyped DEF Return, Goto, CallsTyped
<1>2. op' \in [Callers -> CallKinds \cup {"none"}]
  BY SetTyped DEF Return, CallsTyped
<1>3. pl' \in [Callers -> 0 .. MaxPlayers]
  <2>1. 0 \in 0 .. MaxPlayers
    OBVIOUS
  <2> QED
    BY <2>1, SetTyped DEF Return, CallsTyped
<1>4. rest' \in [Callers -> SUBSET Player]
  <2>1. {} \in SUBSET Player
    OBVIOUS
  <2> QED
    BY <2>1, SetTyped DEF Return, CallsTyped
<1> QED
  BY <1>1, <1>2, <1>3, <1>4 DEF CallsTyped

-------------------------------------------------------------------------------
(* The groups.                                                             *)

\* objectMap: a player is opened, leaves it, and is deleted.
LEMMA MapStep ==
  ASSUME TypeInv, Next
  PROVE  MapsTyped'
<1> USE Groups, PlayerBounds DEF TypeInv, MapsTyped
<1>1. CASE \E c \in Callers : Open(c)
  BY <1>1 DEF Open
<1>2. CASE \E c \in Callers, p \in Player : Close(c, p)
  BY <1>2 DEF Close, getObjectFromMap, Erase
<1>3. CASE \E c \in Callers : Delete(c)
  BY <1>3 DEF Delete, Using, At, Holding
<1>4. CASE UNCHANGED mapVars
  BY <1>4 DEF mapVars
<1> HIDE DEF TypeInv, MapsTyped
<1> QED
  <2>1. CASE \E c \in Callers : Call(c)
    BY <1>1, <1>2, <1>4, <2>1
       DEF Call, Play, PlayBuffer, Stop, Config, SetMixerLevels, SetSmartVolControl, Pause, Resume,
           IsPlaying, Fetch, getObjectFromMap, mapVars
  <2>2. CASE \E c \in Callers : PlayStep(c)
    BY <1>3, <1>4, <2>2
       DEF PlayStep, Refuse, Ask, Check, EnterPlay, CallerStops, CallerReady, Start
  <2>3. CASE \E c \in Callers : ActStep(c)
    BY <1>4, <2>3
       DEF ActStep, PlayerPlayBuffer, PlayerPause, PlayerResume, PlayerSmartVolControl,
           PlayerMixerLevels, PlayerMixes, PlayerPCMCaps, PlayerIsPlaying, UsesFreed, Acting,
           Guarded
  <2>4. CASE \E p \in Player : Pushing(p) \/ Stream(p)
    BY <1>4, <2>4
       DEF Pushing, Stream, PusherTakes, PusherPushes, StreamAdvances, StreamEnds
  <2>5. CASE BusStep
    BY <1>4, <2>5
       DEF BusStep, BusPop, HandleDropped, HandleState, HandleTell, HandleEos, HandleError,
           BusStops, BusReady, BusUsesFreed
  <2> QED
    BY <2>1, <2>2, <2>3, <2>4, <2>5, NextCases

\* The fields of the players
LEMMA PlayerStep ==
  ASSUME TypeInv, Next
  PROVE  PlayersTyped'
<1> USE Groups, PlayerBounds DEF TypeInv, PlayersTyped
<1>1. CASE \E c \in Callers : CallerStops(c)
  BY <1>1, ResetsTyped DEF CallerStops, Threads
<1>2. CASE \E c \in Callers : CallerReady(c)
  BY <1>2, ReadyTyped DEF CallerReady, Threads
<1>3. CASE \E c \in Callers : PlayerPause(c)
  BY <1>3 DEF PlayerPause
<1>4. CASE \E p \in Player : PusherPushes(p)
  BY <1>4 DEF PusherPushes
<1>5. CASE HandleState
  BY <1>5 DEF HandleState, States
<1>6. CASE HandleTell
  BY <1>6 DEF HandleTell
<1>7. CASE HandleEos
  BY <1>7 DEF HandleEos
<1>8. CASE HandleError
  BY <1>8 DEF HandleError, States
<1>9. CASE BusStops
  BY <1>9, ResetsTyped DEF BusStops, Threads
<1>10. CASE BusReady
  BY <1>10 DEF BusReady, States
<1>11. CASE UNCHANGED playerVars
  BY <1>11 DEF playerVars
<1> HIDE DEF TypeInv, PlayersTyped
<1> QED
  <2>1. CASE \E c \in Callers : Call(c)
    BY <1>11, <2>1
       DEF Call, Open, Play, PlayBuffer, Stop, Close, Config, SetMixerLevels, SetSmartVolControl,
           Pause, Resume, IsPlaying, Fetch, getObjectFromMap
  <2>2. CASE \E c \in Callers : PlayStep(c)
    BY <1>1, <1>2, <1>11, <2>2
       DEF PlayStep, Refuse, Ask, Check, EnterPlay, Start, Delete
  <2>3. CASE \E c \in Callers : ActStep(c)
    BY <1>3, <1>11, <2>3
       DEF ActStep, PlayerPlayBuffer, PlayerResume, PlayerSmartVolControl, PlayerMixerLevels,
           PlayerMixes, PlayerPCMCaps, PlayerIsPlaying, UsesFreed, Acting, Guarded
  <2>4. CASE \E p \in Player : Pushing(p) \/ Stream(p)
    BY <1>4, <1>11, <2>4
       DEF Pushing, Stream, PusherTakes, StreamAdvances, StreamEnds
  <2>5. CASE BusStep
    BY <1>5, <1>6, <1>7, <1>8, <1>9, <1>10, <1>11, <2>5
       DEF BusStep, BusPop, HandleDropped, BusUsesFreed
  <2> QED
    BY <2>1, <2>2, <2>3, <2>4, <2>5, NextCases

\* What the pushers have
LEMMA FeedStep ==
  ASSUME TypeInv, Next
  PROVE  FeedsTyped'
<1> USE Groups, PlayerBounds DEF TypeInv, FeedsTyped
<1>1. CASE \E c \in Callers : CallerStops(c)
  BY <1>1, ResetsTyped DEF CallerStops, Threads
<1>2. CASE \E c \in Callers : Delete(c)
  BY <1>2 DEF Delete
<1>3. CASE \E c \in Callers : PlayerPlayBuffer(c)
  <2>1. PICK c \in Callers : PlayerPlayBuffer(c)
    BY <1>3
  <2>2. fed' = fed \/ fed' = [fed EXCEPT ![pl[c]] = pl[c] \in Data]
    BY <2>1 DEF PlayerPlayBuffer
  <2>3. inHand' = inHand
    BY <2>1 DEF PlayerPlayBuffer
  <2>4. (pl[c] \in Data) \in BOOLEAN
    OBVIOUS
  <2> QED
    BY <2>2, <2>3, <2>4, SetTyped
<1>4. CASE \E p \in Player : PusherTakes(p)
  BY <1>4 DEF PusherTakes
<1>5. CASE \E p \in Player : PusherPushes(p)
  BY <1>5 DEF PusherPushes
<1>6. CASE BusStops
  BY <1>6, ResetsTyped DEF BusStops, Threads
<1>7. CASE UNCHANGED feedVars
  BY <1>7 DEF feedVars
<1> HIDE DEF TypeInv, FeedsTyped
<1> QED
  <2>1. CASE \E c \in Callers : Call(c)
    BY <1>7, <2>1
       DEF Call, Open, Play, PlayBuffer, Stop, Close, Config, SetMixerLevels, SetSmartVolControl,
           Pause, Resume, IsPlaying, Fetch, getObjectFromMap
  <2>2. CASE \E c \in Callers : PlayStep(c)
    BY <1>1, <1>2, <1>7, <2>2
       DEF PlayStep, Refuse, Ask, Check, EnterPlay, CallerReady, Start, StopReady
  <2>3. CASE \E c \in Callers : ActStep(c)
    BY <1>3, <1>7, <2>3
       DEF ActStep, PlayerPause, PlayerResume, PlayerSmartVolControl, PlayerMixerLevels,
           PlayerMixes, PlayerPCMCaps, PlayerIsPlaying, UsesFreed, Acting, Guarded
  <2>4. CASE \E p \in Player : Pushing(p) \/ Stream(p)
    BY <1>4, <1>5, <1>7, <2>4
       DEF Pushing, Stream, StreamAdvances, StreamEnds
  <2>5. CASE BusStep
    BY <1>6, <1>7, <2>5
       DEF BusStep, BusPop, HandleDropped, HandleState, HandleTell, HandleEos, HandleError,
           BusReady, BusUsesFreed
  <2> QED
    BY <2>1, <2>2, <2>3, <2>4, <2>5, NextCases

\* The pipelines
LEMMA PipeStep ==
  ASSUME TypeInv, Next
  PROVE  PipesTyped'
<1> USE Groups, PlayerBounds DEF TypeInv, PipesTyped
<1>1. CASE \E c \in Callers : Open(c)
  <2>1. PICK c \in Callers : Open(c)
    BY <1>1
  <2>2. /\ gst' \in [Player -> {"none", "null", "ready", "paused", "playing", "drained", "broken"}]
        /\ UNCHANGED <<target, bus>>
    BY <2>1, SetTyped DEF Open, createPipeline
  <2> QED
    BY <2>2
<1>2. CASE \E c \in Callers : CallerStops(c)
  BY <1>2, ResetsTyped DEF CallerStops, Threads
<1>3. CASE \E c \in Callers : Start(c)
  <2>1. PICK c \in Callers : Start(c)
    BY <1>3
  <2>2. pl[c] \in Player
    BY <2>1 DEF Start, Using, At
  <2>3. SetState(pl[c], "playing") \/ UNCHANGED pipeVars
    BY <2>1 DEF Start
  <2> QED
    BY <2>2, <2>3, SetStateTyped DEF pipeVars
<1>4. CASE \E c \in Callers : Delete(c)
  <2>1. PICK c \in Callers : Delete(c)
    BY <1>4
  <2>2. <<>> \in Seq(Messages)
    OBVIOUS
  <2>3. /\ gst' = [gst EXCEPT ![pl[c]] = "none"] /\ target' = [target EXCEPT ![pl[c]] = "null"]
        /\ bus' = [bus EXCEPT ![pl[c]] = <<>>]
    BY <2>1 DEF Delete
  <2> QED
    BY <2>2, <2>3, SetTyped
<1>5. CASE \E c \in Callers : PlayerPlayBuffer(c)
  <2>1. PICK c \in Callers : PlayerPlayBuffer(c)
    BY <1>5
  <2>2. pl[c] \in Player
    BY <2>1 DEF PlayerPlayBuffer, Acting, Guarded, Using, At
  <2>3. SetState(pl[c], "playing") \/ UNCHANGED pipeVars
    BY <2>1 DEF PlayerPlayBuffer, pipeVars
  <2> QED
    BY <2>2, <2>3, SetStateTyped DEF pipeVars
<1>6. CASE \E c \in Callers : PlayerPause(c)
  <2>1. PICK c \in Callers : PlayerPause(c)
    BY <1>6
  <2>2. pl[c] \in Player
    BY <2>1 DEF PlayerPause, Acting, Guarded, Using, At
  <2>3. SetState(pl[c], "paused") \/ UNCHANGED pipeVars
    BY <2>1 DEF PlayerPause, pipeVars
  <2> QED
    BY <2>2, <2>3, SetStateTyped DEF pipeVars
<1>7. CASE \E c \in Callers : PlayerResume(c)
  <2>1. PICK c \in Callers : PlayerResume(c)
    BY <1>7
  <2>2. pl[c] \in Player
    BY <2>1 DEF PlayerResume, Acting, Guarded, Using, At
  <2>3. SetState(pl[c], "playing") \/ UNCHANGED pipeVars
    BY <2>1 DEF PlayerResume, pipeVars
  <2> QED
    BY <2>2, <2>3, SetStateTyped DEF pipeVars
<1>8. CASE \E c \in Callers : PlayerSmartVolControl(c)
  <2>1. PICK c \in Callers : PlayerSmartVolControl(c)
    BY <1>8
  <2>2. Silence(pl[c], TRUE) \/ UNCHANGED pipeVars
    BY <2>1 DEF PlayerSmartVolControl
  <2> QED
    BY <2>2, SilenceTyped DEF pipeVars
<1>9. CASE \E p \in Player : StreamAdvances(p)
  <2>1. PICK p \in Player : StreamAdvances(p)
    BY <1>9
  <2>2. \A m \in Messages : Append(bus[p], m) \in Seq(Messages)
    OBVIOUS
  <2>3. \E m \in Messages : bus' = [bus EXCEPT ![p] = Append(bus[p], m)]
    BY <2>1 DEF StreamAdvances, Post, Messages
  <2>4. bus' \in [Player -> Seq(Messages)]
    BY <2>2, <2>3, SetTyped
  <2>5. /\ gst' \in [Player -> {"none", "null", "ready", "paused", "playing", "drained", "broken"}]
        /\ UNCHANGED target
    BY <2>1, SetTyped DEF StreamAdvances
  <2> QED
    BY <2>4, <2>5
<1>10. CASE \E p \in Player : StreamEnds(p)
  <2>1. PICK p \in Player : StreamEnds(p)
    BY <1>10
  <2>2. \A m \in Messages : Append(bus[p], m) \in Seq(Messages)
    OBVIOUS
  <2>3. \E m \in Messages : bus' = [bus EXCEPT ![p] = Append(bus[p], m)]
    BY <2>1 DEF StreamEnds, Post, Messages
  <2>4. bus' \in [Player -> Seq(Messages)]
    BY <2>2, <2>3, SetTyped
  <2>5. /\ gst' \in [Player -> {"none", "null", "ready", "paused", "playing", "drained", "broken"}]
        /\ UNCHANGED target
    BY <2>1, SetTyped DEF StreamEnds
  <2> QED
    BY <2>4, <2>5
<1>11. CASE \E p \in Player : BusPop(p)
  <2>1. PICK p \in Player : BusPop(p)
    BY <1>11
  <2>2. bus[p] # <<>> /\ bus[p] \in Seq(Messages)
    BY <2>1 DEF BusPop
  <2>3. bus' = [bus EXCEPT ![p] = Tail(bus[p])] /\ UNCHANGED <<gst, target>>
    BY <2>1 DEF BusPop
  <2>4. Tail(bus[p]) \in Seq(Messages)
    BY <2>2
  <2> QED
    BY <2>3, <2>4, SetTyped
<1>12. CASE BusStops
  BY <1>12, ResetsTyped DEF BusStops, Threads
<1>13. CASE UNCHANGED pipeVars
  BY <1>13 DEF pipeVars
<1> HIDE DEF TypeInv, PipesTyped
<1> QED
  <2>1. CASE \E c \in Callers : Call(c)
    BY <1>1, <1>13, <2>1
       DEF Call, Play, PlayBuffer, Stop, Close, Config, SetMixerLevels, SetSmartVolControl, Pause,
           Resume, IsPlaying, Fetch, getObjectFromMap
  <2>2. CASE \E c \in Callers : PlayStep(c)
    BY <1>2, <1>3, <1>4, <1>13, <2>2
       DEF PlayStep, Refuse, Ask, Check, EnterPlay, CallerReady, StopReady
  <2>3. CASE \E c \in Callers : ActStep(c)
    BY <1>5, <1>6, <1>7, <1>8, <1>13, <2>3
       DEF ActStep, PlayerMixerLevels, PlayerMixes, PlayerPCMCaps, PlayerIsPlaying, UsesFreed,
           Acting, Guarded
  <2>4. CASE \E p \in Player : Pushing(p) \/ Stream(p)
    BY <1>9, <1>10, <1>13, <2>4
       DEF Pushing, Stream, PusherTakes, PusherPushes
  <2>5. CASE BusStep
    BY <1>11, <1>12, <1>13, <2>5
       DEF BusStep, HandleDropped, HandleState, HandleTell, HandleEos, HandleError, BusReady,
           BusUsesFreed
  <2> QED
    BY <2>1, <2>2, <2>3, <2>4, <2>5, NextCases

\* The primary volume
LEMMA VolumeStep ==
  ASSUME TypeInv, Next
  PROVE  VolumesTyped'
<1> USE Groups, PlayerBounds DEF TypeInv, VolumesTyped
<1>1. CASE \E c \in Callers : CallerReady(c)
  BY <1>1, CutTyped DEF CallerReady
<1>2. CASE \E c \in Callers : Delete(c)
  BY <1>2, CutTyped DEF Delete
<1>3. CASE \E c \in Callers : PlayerMixerLevels(c)
  <2>1. PICK c \in Callers : PlayerMixerLevels(c)
    BY <1>3
  <2>2. PICK l \in Levels : primary' = [primary EXCEPT ![pl[c]] = l]
    BY <2>1 DEF PlayerMixerLevels
  <2>3. UNCHANGED <<volume, prev, setter, byBus>>
    BY <2>1 DEF PlayerMixerLevels
  <2> QED
    BY <2>2, <2>3, SetTyped
<1>4. CASE \E c \in Callers : PlayerMixes(c)
  <2>1. PICK c \in Callers : PlayerMixes(c)
    BY <1>4
  <2>2. pl[c] \in Player /\ primary[pl[c]] \in Levels
    BY <2>1 DEF PlayerMixes, Using, At
  <2> QED
    BY <2>1, <2>2, VolumeTyped DEF PlayerMixes
<1>5. CASE \E p \in Player : PusherPushes(p)
  <2>1. PICK p \in Player : PusherPushes(p)
    BY <1>5
  <2>2. primary[p] \in Levels
    OBVIOUS
  <2>3. CASE setPrimaryVolume(p, primary[p], primary[p], FALSE) /\ UNCHANGED primary
    BY <2>2, <2>3, VolumeTyped
  <2>4. CASE UNCHANGED volumeVars
    BY <2>4 DEF volumeVars
  <2> QED
    BY <2>1, <2>3, <2>4 DEF PusherPushes
<1>6. CASE HandleDropped
  <2>1. bpl \in Player
    BY <1>6 DEF HandleDropped, Handling
  <2>2. EndOfMessage(bpl, state[bpl]) \/ UNCHANGED volumeVars
    BY <1>6 DEF HandleDropped
  <2> QED
    BY <2>1, <2>2, EndTyped DEF volumeVars
<1>7. CASE HandleState
  <2>1. bpl \in Player
    BY <1>7 DEF HandleState, Handling
  <2>2. EndOfMessage(bpl, "PAUSED") \/ UNCHANGED volumeVars
    BY <1>7 DEF HandleState
  <2> QED
    BY <2>1, <2>2, EndTyped DEF volumeVars
<1>8. CASE HandleTell
  <2>1. bpl \in Player
    BY <1>8 DEF HandleTell, Handling
  <2>2. Dock(bpl) \/ EndOfMessage(bpl, state[bpl]) \/ UNCHANGED volumeVars
    BY <1>8 DEF HandleTell
  <2> QED
    BY <2>1, <2>2, EndTyped, DockTyped DEF volumeVars
<1>9. CASE BusReady
  <2>1. bpl \in Player
    BY <1>9 DEF BusReady, Handling
  <2>2. EndOfMessage(bpl, "READY") \/ UNCHANGED volumeVars
    BY <1>9 DEF BusReady
  <2> QED
    BY <2>1, <2>2, EndTyped DEF volumeVars
<1>10. CASE UNCHANGED volumeVars
  BY <1>10 DEF volumeVars
<1> HIDE DEF TypeInv, VolumesTyped
<1> QED
  <2>1. CASE \E c \in Callers : Call(c)
    BY <1>10, <2>1
       DEF Call, Open, Play, PlayBuffer, Stop, Close, Config, SetMixerLevels, SetSmartVolControl,
           Pause, Resume, IsPlaying, Fetch, getObjectFromMap
  <2>2. CASE \E c \in Callers : PlayStep(c)
    BY <1>1, <1>2, <1>10, <2>2
       DEF PlayStep, Refuse, Ask, Check, EnterPlay, CallerStops, Start
  <2>3. CASE \E c \in Callers : ActStep(c)
    BY <1>3, <1>4, <1>10, <2>3
       DEF ActStep, PlayerPlayBuffer, PlayerPause, PlayerResume, PlayerSmartVolControl,
           PlayerPCMCaps, PlayerIsPlaying, UsesFreed, Acting, Guarded
  <2>4. CASE \E p \in Player : Pushing(p) \/ Stream(p)
    BY <1>5, <1>10, <2>4
       DEF Pushing, Stream, PusherTakes, StreamAdvances, StreamEnds
  <2>5. CASE BusStep
    BY <1>6, <1>7, <1>8, <1>9, <1>10, <2>5
       DEF BusStep, BusPop, HandleEos, HandleError, BusStops, BusUsesFreed
  <2> QED
    BY <2>1, <2>2, <2>3, <2>4, <2>5, NextCases

\* What the clients are told
LEMMA ToldStep ==
  ASSUME TypeInv, Next
  PROVE  ToldTyped'
<1> USE Groups, PlayerBounds DEF TypeInv, ToldTyped
<1>1. CASE \E p \in Player : PusherPushes(p)
  BY <1>1 DEF PusherPushes, Tell, Beliefs
<1>2. CASE (HandleTell) \/ (HandleEos) \/ (HandleError)
  BY <1>2 DEF HandleTell, HandleEos, HandleError, Tell, Beliefs
<1>3. CASE UNCHANGED told
  BY <1>3
<1> HIDE DEF TypeInv, ToldTyped
<1> QED
  <2>1. CASE \E c \in Callers : Call(c)
    BY <1>3, <2>1
       DEF Call, Open, Play, PlayBuffer, Stop, Close, Config, SetMixerLevels, SetSmartVolControl,
           Pause, Resume, IsPlaying, Fetch, getObjectFromMap
  <2>2. CASE \E c \in Callers : PlayStep(c)
    BY <1>3, <2>2
       DEF PlayStep, Refuse, Ask, Check, EnterPlay, CallerStops, CallerReady, Start, Delete
  <2>3. CASE \E c \in Callers : ActStep(c)
    BY <1>3, <2>3
       DEF ActStep, PlayerPlayBuffer, PlayerPause, PlayerResume, PlayerSmartVolControl,
           PlayerMixerLevels, PlayerMixes, PlayerPCMCaps, PlayerIsPlaying, UsesFreed, Acting,
           Guarded
  <2>4. CASE \E p \in Player : Pushing(p) \/ Stream(p)
    BY <1>1, <1>3, <2>4
       DEF Pushing, Stream, PusherTakes, StreamAdvances, StreamEnds
  <2>5. CASE BusStep
    BY <1>2, <1>3, <2>5
       DEF BusStep, BusPop, HandleDropped, HandleState, BusStops, BusReady, BusUsesFreed
  <2> QED
    BY <2>1, <2>2, <2>3, <2>4, <2>5, NextCases

\* The locks
LEMMA LockStep ==
  ASSUME TypeInv, Next
  PROVE  LocksTyped'
<1> USE Groups, PlayerBounds DEF TypeInv, LocksTyped
<1>1. CASE \E c \in Callers, p \in Player : Close(c, p)
  BY <1>1 DEF Close, getObjectFromMap
<1>2. CASE (\E c \in Callers : Ask(c)) \/ (\E c \in Callers : Check(c))
  BY <1>2 DEF Ask, Check
<1>3. CASE \E c \in Callers : EnterPlay(c)
  <2>1. PICK c \in Callers : EnterPlay(c)
    BY <1>3
  <2>2. playMutex' = [playMutex EXCEPT ![pl[c]] = c] /\ UNCHANGED <<adminLock, apiMutex>>
    BY <2>1 DEF EnterPlay
  <2>3. playMutex \in [Player -> Callers \cup {Nobody}] /\ c \in Callers \cup {Nobody}
    OBVIOUS
  <2>4. playMutex' \in [Player -> Callers \cup {Nobody}]
    BY <2>2, <2>3, SetTyped
  <2> QED
    BY <2>2, <2>4
<1>4. CASE \E c \in Callers : CallerStops(c)
  BY <1>4, ResetsTyped DEF CallerStops, Threads
<1>5. CASE \E c \in Callers : CallerReady(c)
  BY <1>5, ReadyTyped DEF CallerReady, Threads
<1>6. CASE (\E c \in Callers : Start(c)) \/ (\E c \in Callers : Delete(c))
  BY <1>6 DEF Start, Delete
<1>7. CASE BusStops
  BY <1>7, ResetsTyped DEF BusStops, Threads
<1>8. CASE BusReady
  BY <1>8 DEF BusReady
<1>9. CASE UNCHANGED lockVars
  BY <1>9 DEF lockVars
<1> HIDE DEF TypeInv, LocksTyped
<1> QED
  <2>1. CASE \E c \in Callers : Call(c)
    BY <1>1, <1>9, <2>1
       DEF Call, Open, Play, PlayBuffer, Stop, Config, SetMixerLevels, SetSmartVolControl, Pause,
           Resume, IsPlaying, Fetch, getObjectFromMap, lockVars
  <2>2. CASE \E c \in Callers : PlayStep(c)
    BY <1>2, <1>3, <1>4, <1>5, <1>6, <1>9, <2>2
       DEF PlayStep, Refuse
  <2>3. CASE \E c \in Callers : ActStep(c)
    BY <1>9, <2>3
       DEF ActStep, PlayerPlayBuffer, PlayerPause, PlayerResume, PlayerSmartVolControl,
           PlayerMixerLevels, PlayerMixes, PlayerPCMCaps, PlayerIsPlaying, UsesFreed, Acting,
           Guarded
  <2>4. CASE \E p \in Player : Pushing(p) \/ Stream(p)
    BY <1>9, <2>4
       DEF Pushing, Stream, PusherTakes, PusherPushes, StreamAdvances, StreamEnds
  <2>5. CASE BusStep
    BY <1>7, <1>8, <1>9, <2>5
       DEF BusStep, BusPop, HandleDropped, HandleState, HandleTell, HandleEos, HandleError,
           BusUsesFreed
  <2> QED
    BY <2>1, <2>2, <2>3, <2>4, <2>5, NextCases

\* Where the callers are
LEMMA CallsStep ==
  ASSUME TypeInv, Next
  PROVE  CallsTyped'
<1> USE Groups, PlayerBounds DEF TypeInv, CallsTyped
<1>1. CASE \E c \in Callers, p \in Player :
                \/ Play(c, p) \/ PlayBuffer(c, p) \/ Stop(c, p) \/ Close(c, p) \/ Config(c, p)
                \/ SetMixerLevels(c, p) \/ SetSmartVolControl(c, p)
                \/ Pause(c, p) \/ Resume(c, p) \/ IsPlaying(c, p)
  <2>1. PICK c \in Callers, p \in Player, k \in CallKinds, to \in {"fetched", "act", "stop"} :
           /\ cpc' = [cpc EXCEPT ![c] = to] /\ op' = [op EXCEPT ![c] = k] /\ pl' = [pl EXCEPT ![c] = p]
           /\ rest' = rest /\ calls < MaxCalls /\ calls' = calls + 1
    BY <1>1 DEF Play, PlayBuffer, Stop, Close, Config, SetMixerLevels, SetSmartVolControl,
       Pause, Resume,
       IsPlaying, Fetch, getObjectFromMap, CallKinds, Goto
  <2>2. cpc' \in [Callers -> {"idle", "fetched", "check", "stop", "ready", "granted", "start",
                            "delete", "act", "mix"}]
    BY <2>1, SetTyped
  <2>3. op' \in [Callers -> CallKinds \cup {"none"}] /\ pl' \in [Callers -> 0 .. MaxPlayers]
    BY <2>1, SetTyped
  <2>4. calls' \in 0 .. MaxCalls
    BY <2>1
  <2> QED
    BY <2>1, <2>2, <2>3, <2>4
<1>2. CASE \E c \in Callers : Ask(c)
  <2>1. PICK c \in Callers : Ask(c)
    BY <1>2
  <2>2. {q \in mapped \ {pl[c]} : Mode[q] = Mode[pl[c]]} \subseteq Player
    BY DEF MapsTyped
  <2> QED
    BY <2>1, <2>2, GotoTyped DEF Ask
<1>3. CASE \E c \in Callers : Check(c)
  <2>1. PICK c \in Callers : Check(c)
    BY <1>3
  <2>2. CASE Return(c) /\ UNCHANGED calls
    BY <2>2, ReturnTyped
  <2>3. CASE (Goto(c, "stop") \/ Goto(c, "granted")) /\ UNCHANGED <<op, pl, rest, calls>>
    BY <2>3, GotoTyped
  <2> QED
    BY <2>1, <2>2, <2>3 DEF Check
<1>4. CASE \E c \in Callers : EnterPlay(c)
  <2>1. PICK c \in Callers : EnterPlay(c)
    BY <1>4
  <2> QED
    BY <2>1, GotoTyped DEF EnterPlay
<1>5. CASE \E c \in Callers : CallerStops(c)
  <2>1. PICK c \in Callers : CallerStops(c)
    BY <1>5
  <2> QED
    BY <2>1, GotoTyped DEF CallerStops
<1>6. CASE \E c \in Callers : CallerReady(c)
  <2>1. PICK c \in Callers : CallerReady(c)
    BY <1>6
  <2>2. CASE rest[c] # {}
    <3>1. rest[c] \ {Stopped(c)} \subseteq Player
      OBVIOUS
    <3> QED
      BY <2>1, <2>2, <3>1, GotoTyped DEF CallerReady
  <2>3. CASE rest[c] = {} /\ op[c] = "play"
    BY <2>1, <2>3, GotoTyped DEF CallerReady
  <2>4. CASE rest[c] = {} /\ op[c] = "close"
    BY <2>1, <2>4, GotoTyped DEF CallerReady
  <2>5. CASE rest[c] = {} /\ op[c] \notin {"play", "close"}
    BY <2>1, <2>5, ReturnTyped DEF CallerReady
  <2> QED
    BY <2>2, <2>3, <2>4, <2>5
<1>7. CASE \E c \in Callers : Refuse(c) \/ Start(c) \/ Delete(c)
  BY <1>7, ReturnTyped DEF Refuse, Start, Delete
<1>8. CASE \E c \in Callers : \/ PlayerPlayBuffer(c) \/ PlayerPause(c) \/ PlayerResume(c)
                               \/ PlayerSmartVolControl(c) \/ PlayerPCMCaps(c)
                               \/ PlayerIsPlaying(c)
  BY <1>8, ReturnTyped
     DEF PlayerPlayBuffer, PlayerPause, PlayerResume, PlayerSmartVolControl, PlayerPCMCaps,
         PlayerIsPlaying, Acting, Guarded
<1>9. CASE \E c \in Callers : PlayerMixerLevels(c)
  <2>1. PICK c \in Callers : PlayerMixerLevels(c)
    BY <1>9
  <2>2. CASE Goto(c, "mix") /\ UNCHANGED <<op, pl, rest, calls>>
    BY <2>2, GotoTyped
  <2>3. CASE Return(c) /\ UNCHANGED calls
    BY <2>3, ReturnTyped
  <2> QED
    BY <2>1, <2>2, <2>3 DEF PlayerMixerLevels
<1>10. CASE \E c \in Callers : PlayerMixes(c)
  BY <1>10, ReturnTyped DEF PlayerMixes
<1>11. CASE UNCHANGED callVars
  BY <1>11 DEF callVars
<1> HIDE DEF TypeInv, CallsTyped
<1> QED
  <2>1. CASE \E c \in Callers : Call(c)
    BY <1>1, <1>11, <2>1
       DEF Call, Open
  <2>2. CASE \E c \in Callers : PlayStep(c)
    BY <1>2, <1>3, <1>4, <1>5, <1>6, <1>7, <1>11, <2>2
       DEF PlayStep
  <2>3. CASE \E c \in Callers : ActStep(c)
    BY <1>8, <1>9, <1>10, <1>11, <2>3
       DEF ActStep, UsesFreed
  <2>4. CASE \E p \in Player : Pushing(p) \/ Stream(p)
    BY <1>11, <2>4
       DEF Pushing, Stream, PusherTakes, PusherPushes, StreamAdvances, StreamEnds
  <2>5. CASE BusStep
    BY <1>11, <2>5
       DEF BusStep, BusPop, HandleDropped, HandleState, HandleTell, HandleEos, HandleError,
           BusStops, BusReady, BusUsesFreed
  <2> QED
    BY <2>1, <2>2, <2>3, <2>4, <2>5, NextCases

\* The message in hand
LEMMA BusMessageStep ==
  ASSUME TypeInv, Next
  PROVE  BusTyped'
<1> USE Groups, PlayerBounds DEF TypeInv, BusTyped
<1>1. CASE \E c \in Callers : CallerStops(c)
  BY <1>1, ResetsTyped DEF CallerStops, Threads
<1>2. CASE \E c \in Callers : PlayerSmartVolControl(c)
  <2>1. PICK c \in Callers : PlayerSmartVolControl(c)
    BY <1>2
  <2>2. (Silence(pl[c], TRUE) \/ UNCHANGED bstale) /\ UNCHANGED <<bpc, bmsg, bpl>>
    BY <2>1 DEF PlayerSmartVolControl
  <2> QED
    BY <2>2, SilenceTyped
<1>3. CASE \E p \in Player : BusPop(p)
  <2>1. PICK p \in Player : BusPop(p)
    BY <1>3
  <2>2. bus[p] # <<>> /\ bus[p] \in Seq(Messages)
    BY <2>1 DEF BusPop, PipesTyped
  <2>3. Head(bus[p]) \in Messages
    BY <2>2
  <2> QED
    BY <2>1, <2>3 DEF BusPop
<1>4. CASE (HandleDropped) \/ (HandleState) \/ (HandleTell)
  BY <1>4 DEF HandleDropped, HandleState, HandleTell, Handled, BusGoto
<1>5. CASE (HandleEos) \/ (HandleError)
  BY <1>5 DEF HandleEos, HandleError, BusGoto
<1>6. CASE BusStops
  BY <1>6, ResetsTyped DEF BusStops, Threads
<1>7. CASE BusReady
  BY <1>7 DEF BusReady, Handled
<1>8. CASE UNCHANGED busVars
  BY <1>8 DEF busVars
<1> HIDE DEF TypeInv, BusTyped
<1> QED
  <2>1. CASE \E c \in Callers : Call(c)
    BY <1>8, <2>1
       DEF Call, Open, Play, PlayBuffer, Stop, Close, Config, SetMixerLevels, SetSmartVolControl,
           Pause, Resume, IsPlaying, Fetch, getObjectFromMap
  <2>2. CASE \E c \in Callers : PlayStep(c)
    BY <1>1, <1>8, <2>2
       DEF PlayStep, Refuse, Ask, Check, EnterPlay, CallerReady, Start, Delete, StopReady, busVars
  <2>3. CASE \E c \in Callers : ActStep(c)
    BY <1>2, <1>8, <2>3
       DEF ActStep, PlayerPlayBuffer, PlayerPause, PlayerResume, PlayerMixerLevels, PlayerMixes,
           PlayerPCMCaps, PlayerIsPlaying, UsesFreed, Acting, Guarded
  <2>4. CASE \E p \in Player : Pushing(p) \/ Stream(p)
    BY <1>8, <2>4
       DEF Pushing, Stream, PusherTakes, PusherPushes, StreamAdvances, StreamEnds
  <2>5. CASE BusStep
    BY <1>3, <1>4, <1>5, <1>6, <1>7, <1>8, <2>5
       DEF BusStep, BusUsesFreed
  <2> QED
    BY <2>1, <2>2, <2>3, <2>4, <2>5, NextCases

\* The ghosts
LEMMA GhostStep ==
  ASSUME TypeInv, Next
  PROVE  GhostsTyped'
<1> USE Groups, PlayerBounds DEF TypeInv, GhostsTyped
<1>1. CASE \E c \in Callers : Start(c)
  BY <1>1 DEF Start
<1>2. CASE \E c \in Callers : PlayerPlayBuffer(c)
  BY <1>2 DEF PlayerPlayBuffer
<1>3. CASE \E c \in Callers : PlayerPause(c)
  BY <1>3 DEF PlayerPause
<1>4. CASE \E c \in Callers : PlayerPCMCaps(c)
  BY <1>4 DEF PlayerPCMCaps
<1>5. CASE (\E c \in Callers : UsesFreed(c)) \/ (BusUsesFreed)
  BY <1>5 DEF UsesFreed, BusUsesFreed
<1>6. CASE UNCHANGED ghostVars
  BY <1>6 DEF ghostVars
<1> HIDE DEF TypeInv, GhostsTyped
<1> QED
  <2>1. CASE \E c \in Callers : Call(c)
    BY <1>6, <2>1
       DEF Call, Open, Play, PlayBuffer, Stop, Close, Config, SetMixerLevels, SetSmartVolControl,
           Pause, Resume, IsPlaying, Fetch, getObjectFromMap
  <2>2. CASE \E c \in Callers : PlayStep(c)
    BY <1>1, <1>6, <2>2
       DEF PlayStep, Refuse, Ask, Check, EnterPlay, CallerStops, CallerReady, Delete
  <2>3. CASE \E c \in Callers : ActStep(c)
    BY <1>2, <1>3, <1>4, <1>5, <1>6, <2>3
       DEF ActStep, PlayerResume, PlayerSmartVolControl, PlayerMixerLevels, PlayerMixes,
           PlayerIsPlaying, Acting, Guarded
  <2>4. CASE \E p \in Player : Pushing(p) \/ Stream(p)
    BY <1>6, <2>4
       DEF Pushing, Stream, PusherTakes, PusherPushes, StreamAdvances, StreamEnds
  <2>5. CASE BusStep
    BY <1>5, <1>6, <2>5
       DEF BusStep, BusPop, HandleDropped, HandleState, HandleTell, HandleEos, HandleError,
           BusStops, BusReady
  <2> QED
    BY <2>1, <2>2, <2>3, <2>4, <2>5, NextCases

-------------------------------------------------------------------------------
(* Whose player is whose.                                                  *)

\* A caller that returns, and one that goes on
LEMMA ReturnHolds ==
  ASSUME TypeInv, NEW c \in Callers, Return(c), UNCHANGED <<opened, mapped, bpc, bpl>>
  PROVE  Holding'
<1>1. /\ cpc'[c] = "idle" /\ op'[c] = "none"
      /\ \A d \in Callers \ {c} : cpc'[d] = cpc[d] /\ op'[d] = op[d] /\ pl'[d] = pl[d]
  BY DEF Return, Goto, TypeInv, TypeOK
<1> QED
  BY <1>1 DEF TypeInv, Holding

LEMMA GotoHolds ==
  ASSUME TypeInv, NEW c \in Callers, NEW to, to = "delete" => op[c] = "close", cpc[c] # "idle",
         Goto(c, to), UNCHANGED <<op, pl, opened, mapped, bpc, bpl>>
  PROVE  Holding'
<1>1. cpc'[c] = to /\ \A d \in Callers \ {c} : cpc'[d] = cpc[d]
  BY DEF Goto, TypeInv, TypeOK
<1> QED
  BY <1>1 DEF TypeInv, Holding

\* objectMap gets a player nobody has, and a Close takes its own out.
LEMMA OpenHolds ==
  ASSUME TypeInv, NEW c \in Callers, Open(c)
  PROVE  Holding'
<1>1. opened' = opened + 1 /\ mapped' = mapped \cup {opened + 1} /\ UNCHANGED <<cpc, op, pl, bpc, bpl>>
  BY DEF Open, callVars, busVars
<1> QED
  BY <1>1, PlayerBounds DEF TypeInv, Holding

LEMMA FetchHolds ==
  ASSUME TypeInv, NEW c \in Callers, NEW k, NEW p, NEW to, to # "delete",
         getObjectFromMap(c, k, p, to), mapped' \subseteq mapped, k = "close" => p \notin mapped'
  PROVE  Holding'
<1>1. /\ cpc'[c] = to /\ op'[c] = k /\ pl'[c] = p /\ p \in mapped
      /\ \A d \in Callers \ {c} : cpc'[d] = cpc[d] /\ op'[d] = op[d] /\ pl'[d] = pl[d]
      /\ UNCHANGED <<opened, bpc, bpl>>
  BY DEF getObjectFromMap, Goto, TypeInv, TypeOK, busVars
<1>2. p \in 1 .. opened
  BY <1>1 DEF TypeInv, TypeOK
<1> QED
  BY <1>1, <1>2 DEF TypeInv, Holding

LEMMA CallHolds ==
  ASSUME TypeInv, NEW c \in Callers, Call(c)
  PROVE  Holding'
<1>1. CASE Open(c)
  BY <1>1, OpenHolds
<1>2. ASSUME NEW p \in Player, Close(c, p)
      PROVE  Holding'
  BY <1>2, FetchHolds DEF Close, Erase
<1>3. ASSUME NEW p \in Player, NEW k \in CallKinds \ {"close"}, NEW to \in {"fetched", "act", "stop"},
             Fetch(c, k, p, to)
      PROVE  Holding'
  BY <1>3, FetchHolds DEF Fetch
<1> QED
  BY <1>1, <1>2, <1>3 DEF Call, Play, PlayBuffer, Stop, Config, SetMixerLevels,
     SetSmartVolControl, Pause, Resume, IsPlaying, CallKinds

LEMMA PlayHolds ==
  ASSUME TypeInv, NEW c \in Callers, PlayStep(c)
  PROVE  Holding'
<1>1. CASE Refuse(c) \/ Start(c) \/ Delete(c)
  BY <1>1, ReturnHolds DEF Refuse, Start, Delete, mapVars, busVars
<1>2. CASE Ask(c)
  BY <1>2, GotoHolds DEF Ask, Using, At, mapVars, busVars
<1>3. CASE Check(c)
  <2>1. cpc[c] # "idle" /\ UNCHANGED <<opened, mapped, bpc, bpl>>
    BY <1>3 DEF Check, Using, At, mapVars, busVars
  <2>2. Return(c) \/ ((Goto(c, "stop") \/ Goto(c, "granted")) /\ UNCHANGED <<op, pl>>)
    BY <1>3 DEF Check
  <2> QED
    BY <2>1, <2>2, ReturnHolds, GotoHolds
<1>4. CASE EnterPlay(c)
  BY <1>4, GotoHolds DEF EnterPlay, Using, At, mapVars, busVars
<1>5. CASE CallerStops(c)
  BY <1>5, GotoHolds DEF CallerStops, Using, At, mapVars
<1>6. CASE CallerReady(c)
  <2>1. cpc[c] # "idle" /\ UNCHANGED <<opened, mapped, bpc, bpl>>
    BY <1>6 DEF CallerReady, Using, At, mapVars
  <2>2. CASE rest[c] # {}
    BY <1>6, <2>1, <2>2, GotoHolds DEF CallerReady
  <2>3. CASE rest[c] = {} /\ op[c] = "play"
    BY <1>6, <2>1, <2>3, GotoHolds DEF CallerReady
  <2>4. CASE rest[c] = {} /\ op[c] = "close"
    BY <1>6, <2>1, <2>4, GotoHolds DEF CallerReady
  <2>5. CASE rest[c] = {} /\ op[c] \notin {"play", "close"}
    BY <1>6, <2>1, <2>5, ReturnHolds DEF CallerReady
  <2> QED
    BY <2>2, <2>3, <2>4, <2>5
<1> QED
  BY <1>1, <1>2, <1>3, <1>4, <1>5, <1>6 DEF PlayStep

LEMMA ActHolds ==
  ASSUME TypeInv, NEW c \in Callers, ActStep(c)
  PROVE  Holding'
<1>1. UNCHANGED <<opened, mapped, bpc, bpl>>
  BY DEF ActStep, PlayerPlayBuffer, PlayerPause, PlayerResume, PlayerSmartVolControl,
     PlayerMixerLevels, PlayerMixes, PlayerPCMCaps, PlayerIsPlaying, UsesFreed, mapVars, busVars
<1>2. CASE Return(c)
  BY <1>1, <1>2, ReturnHolds
<1>3. CASE Goto(c, "mix") /\ UNCHANGED <<op, pl>> /\ cpc[c] # "idle"
  BY <1>1, <1>3, GotoHolds
<1>4. CASE UNCHANGED callVars
  BY <1>1, <1>4 DEF callVars, TypeInv, Holding
<1> QED
  BY <1>2, <1>3, <1>4
     DEF ActStep, PlayerPlayBuffer, PlayerPause, PlayerResume, PlayerSmartVolControl,
         PlayerMixerLevels, PlayerMixes, PlayerPCMCaps, PlayerIsPlaying, UsesFreed, Acting,
         Guarded, Using, At

\* The others fetch no player; the bus thread takes messages of players.
LEMMA OthersHold ==
  ASSUME TypeInv, (\E p \in Player : Pushing(p) \/ Stream(p)) \/ BusStep
  PROVE  Holding'
<1>1. UNCHANGED <<opened, mapped, cpc, op, pl>>
  BY DEF Pushing, Stream, PusherTakes, PusherPushes, StreamAdvances, StreamEnds, BusStep, BusPop,
     HandleDropped, HandleState, HandleTell, HandleEos, HandleError, BusStops, BusReady,
     BusUsesFreed, mapVars, callVars
<1>2. bpc' # "idle" => bpl' \in Player
  <2>1. CASE \E p \in Player : BusPop(p)
    BY <2>1 DEF BusPop
  <2>2. CASE Handled \/ (bpc # "idle" /\ UNCHANGED bpl) \/ UNCHANGED <<bpc, bpl>>
    BY <2>2 DEF Handled, TypeInv, Holding
  <2> QED
    BY <2>1, <2>2 DEF Pushing, Stream, PusherTakes, PusherPushes, StreamAdvances, StreamEnds,
       BusStep,
       HandleDropped, HandleState, HandleTell, HandleEos, HandleError, BusStops, BusReady,
       BusUsesFreed, busVars, BusGoto, Handling
<1> QED
  BY <1>1, <1>2 DEF TypeInv, Holding

-------------------------------------------------------------------------------

\* The inductive invariant: types, and whose player is whose.
THEOREM PlayersInvariant == Spec => []TypeInv
<1>1. Init => TypeInv
  <2> SUFFICES ASSUME Init PROVE TypeInv
    OBVIOUS
  <2>1. MapsTyped /\ PlayersTyped /\ FeedsTyped
    BY DEF Init, MapsTyped, PlayersTyped, States, FeedsTyped
  <2>2. PipesTyped
    <3>1. <<>> \in Seq(Messages)
      OBVIOUS
    <3> QED
      BY <3>1 DEF Init, PipesTyped
  <2>3. VolumesTyped /\ ToldTyped
    BY DEF Init, VolumesTyped, Levels, ToldTyped, Beliefs
  <2>4. LocksTyped
    BY DEF Init, LocksTyped
  <2>5. CallsTyped
    BY DEF Init, CallsTyped
  <2>6. BusTyped /\ GhostsTyped
    <3>1. bpl \in 0 .. MaxPlayers
      BY DEF Init
    <3>2. bpc = "idle" /\ bmsg = "none" /\ bstale \in BOOLEAN /\ GhostsTyped
      BY DEF Init, GhostsTyped
    <3> QED
      BY <3>1, <3>2 DEF BusTyped
  <2>7. Holding
    BY DEF Init, Holding
  <2> QED
    BY <2>1, <2>2, <2>3, <2>4, <2>5, <2>6, <2>7, Groups DEF TypeInv
<1>2. TypeInv /\ [Next]_vars => TypeInv'
  <2> SUFFICES ASSUME TypeInv, [Next]_vars PROVE TypeInv'
    OBVIOUS
  <2>1. CASE Next
    <3>1. Holding'
      BY <2>1, NextCases, CallHolds, PlayHolds, ActHolds, OthersHold
    <3>2. MapsTyped' /\ PlayersTyped' /\ FeedsTyped' /\ PipesTyped' /\ VolumesTyped'
      BY <2>1, MapStep, PlayerStep, FeedStep, PipeStep, VolumeStep
    <3>3. ToldTyped' /\ LocksTyped' /\ CallsTyped' /\ BusTyped' /\ GhostsTyped'
      BY <2>1, ToldStep, LockStep, CallsStep, BusMessageStep, GhostStep
    <3> QED
      BY <3>1, <3>2, <3>3
         DEF TypeInv, TypeOK, MapsTyped, PlayersTyped, FeedsTyped, PipesTyped, VolumesTyped,
             ToldTyped, LocksTyped, CallsTyped, BusTyped, GhostsTyped
  <2>2. CASE UNCHANGED vars
    BY <2>2 DEF vars, mapVars, playerVars, feedVars, pipeVars, volumeVars, lockVars, callVars,
       busVars, ghostVars, TypeInv, TypeOK, Holding
  <2> QED
    BY <2>1, <2>2
<1> QED
  BY <1>1, <1>2, PTL DEF Spec

\* Whatever the callers, the bus thread, the pushers and the streams do, and in whatever
\* order: objectMap has no deleted player, and each variable keeps its type.
THEOREM PlayersTypeCorrect == Spec => []TypeOK
<1>1. TypeInv => TypeOK
  BY DEF TypeInv
<1> QED
  BY <1>1, PlayersInvariant, PTL

-------------------------------------------------------------------------------
(* Who may play.                                                           *)

\* Asked to play or to pause, or paused and so resumable
Held(p) == p \notin freed /\ (target[p] # "null" \/ paused[p])

Rivals(c) == {q \in Player \ {pl[c]} : Mode[q] = Mode[pl[c]]}

\* A Play in SameModeNotPlaying, and one that has its answer
Asking(c) == /\ op[c] = "play"
             /\ cpc[c] = "check" \/ (cpc[c] \in {"stop", "ready"} /\ rest[c] # {})
Granted(c) == /\ op[c] = "play"
              /\ \/ cpc[c] \in {"granted", "start"}
                 \/ cpc[c] \in {"stop", "ready"} /\ rest[c] = {}

\* A player that the question of c has seen
Seen(c, q) == q \notin rest[c] \/ (cpc[c] = "ready" /\ q = Min(rest[c]))

Control == \A c \in Callers :
    /\ cpc[c] \in {"fetched", "check", "granted", "start"} => op[c] = "play"
    /\ rest[c] # {} => op[c] = "play" /\ cpc[c] \in {"check", "stop", "ready"}
    /\ op[c] = "close" => cpc[c] \in {"stop", "ready", "delete"}
    /\ op[c] = "close" \/ Asking(c) => adminLock = c

\* The players that objectMap does not have
Gone ==
    /\ \A q \in (1 .. opened) \ (mapped \cup freed) :
          \E c \in Callers : op[c] = "close" /\ pl[c] = q
    /\ \A q \in Player \ (1 .. opened) : target[q] = "null" /\ ~paused[q]
    /\ \A q \in freed : target[q] = "null"

Exclusive ==
    bypassed \/ /\ \A p, q \in Player : p # q /\ Mode[p] = Mode[q] => ~Held(p) \/ ~Held(q)
                /\ \A c \in Callers : Granted(c) => \A q \in Rivals(c) : ~Held(q)
                /\ \A c \in Callers : Asking(c) => \A q \in Rivals(c) : Seen(c, q) => ~Held(q)

\* What a step does to the players: none is heard that was not.
Quieter == /\ \A p \in Player : Held(p)' => Held(p)
           /\ bypassed => bypassed'

\* A caller is where it was; a step is of c alone.
Same(d) == cpc'[d] = cpc[d] /\ op'[d] = op[d] /\ pl'[d] = pl[d] /\ rest'[d] = rest[d]
Alone(c) == \A d \in Callers \ {c} : Same(d)

-------------------------------------------------------------------------------
(* What the steps do.                                                      *)

\* A caller that goes on, or returns
LEMMA GoesOn ==
  ASSUME TypeInv, NEW c \in Callers, NEW to, Goto(c, to), UNCHANGED <<op, pl>>,
         NEW Q, rest' = [rest EXCEPT ![c] = Q] \/ (rest' = rest /\ Q = rest[c])
  PROVE  /\ Alone(c) /\ cpc'[c] = to /\ rest'[c] = Q
         /\ op'[c] = op[c] /\ pl'[c] = pl[c]
  BY DEF TypeInv, TypeOK, Goto, Alone, Same

LEMMA Returns ==
  ASSUME TypeInv, NEW c \in Callers, Return(c)
  PROVE  Alone(c) /\ cpc'[c] = "idle" /\ op'[c] = "none" /\ rest'[c] = {}
  BY DEF TypeInv, TypeOK, Return, Goto, Alone, Same

LEMMA Fetches ==
  ASSUME TypeInv, NEW c \in Callers, NEW k, NEW p, NEW to, getObjectFromMap(c, k, p, to)
  PROVE  /\ Alone(c) /\ cpc'[c] = to /\ op'[c] = k /\ pl'[c] = p /\ rest'[c] = rest[c]
         /\ cpc[c] = "idle" /\ adminLock = Nobody /\ p \in mapped
         /\ UNCHANGED <<opened, freed, target, paused, bypassed>>
  BY DEF TypeInv, TypeOK, getObjectFromMap, At, Goto, Alone, Same, playerVars, pipeVars, ghostVars

\* The first half of a Stop silences its player.
LEMMA Silences ==
  ASSUME TypeInv, NEW t, NEW p \in Player, StopResets(t, p), UNCHANGED <<freed, bypassed>>
  PROVE  Quieter /\ ~Held(p)' /\ (\A q \in Player : q # p => target'[q] = target[q])
         /\ target'[p] = "null" /\ ~paused'[p] /\ \A q \in Player : paused'[q] => paused[q]
  BY DEF TypeInv, TypeOK, StopResets, Silence, Quieter, Held

\* The threads that are no callers
LEMMA OthersStep ==
  ASSUME TypeInv, (\E p \in Player : Pushing(p) \/ Stream(p)) \/ BusStep
  PROVE  /\ UNCHANGED <<opened, mapped, freed, adminLock, cpc, op, pl, rest, bypassed>> /\ Quieter
         /\ \A p \in Player : /\ target[p] = "null" => target'[p] = "null"
                              /\ paused'[p] => paused[p]
<1> USE DEF mapVars, callVars, ghostVars, playerVars, pipeVars, lockVars
<1>1. UNCHANGED <<opened, mapped, freed, adminLock, cpc, op, pl, rest, bypassed>>
  BY DEF Pushing, Stream, PusherTakes, PusherPushes, StreamAdvances, StreamEnds, BusStep, BusPop,
     HandleDropped, HandleState, HandleTell, HandleEos, HandleError, BusStops, BusReady,
     BusUsesFreed, StopResets
<1>2. CASE BusStops
  BY <1>1, <1>2, Silences, PlayerBounds DEF BusStops, Handling
<1>3. CASE HandleTell
  <2>1. target' = target /\ (paused' = paused \/ paused' = [paused EXCEPT ![bpl] = FALSE])
    BY <1>3 DEF HandleTell
  <2>2. \A p \in Player : paused'[p] => paused[p]
    BY <2>1 DEF TypeInv, TypeOK
  <2> QED
    BY <1>1, <2>1, <2>2 DEF Quieter, Held
<1>4. CASE UNCHANGED <<target, paused>>
  BY <1>1, <1>4 DEF Quieter, Held
<1> QED
  BY <1>1, <1>2, <1>3, <1>4
     DEF Pushing, Stream, PusherTakes, PusherPushes, StreamAdvances, StreamEnds, BusStep, BusPop,
         HandleDropped, HandleState, HandleEos, HandleError, BusReady, BusUsesFreed

-------------------------------------------------------------------------------
(* Control: who has _adminLock.                                            *)

LEMMA ControlGoesOn ==
  ASSUME Control, NEW c \in Callers, Alone(c), adminLock' = adminLock,
         cpc'[c] \in {"fetched", "check", "granted", "start"} => op'[c] = "play",
         rest'[c] # {} => op'[c] = "play" /\ cpc'[c] \in {"check", "stop", "ready"},
         op'[c] = "close" => op[c] = "close" /\ cpc'[c] \in {"stop", "ready", "delete"},
         Asking(c)' => Asking(c)
  PROVE  Control'
  BY DEF Control, Alone, Same, Asking

\* A caller takes or releases _adminLock.
LEMMA ControlLocks ==
  ASSUME Control, NEW c \in Callers, Alone(c), adminLock \in {Nobody, c},
         cpc'[c] \in {"fetched", "check", "granted", "start"} => op'[c] = "play",
         rest'[c] # {} => op'[c] = "play" /\ cpc'[c] \in {"check", "stop", "ready"},
         op'[c] = "close" => cpc'[c] \in {"stop", "ready", "delete"},
         op'[c] = "close" \/ Asking(c)' => adminLock' = c
  PROVE  Control'
<1>1. \A d \in Callers \ {c} : Asking(d)' => Asking(d)
  BY DEF Alone, Same, Asking
<1> QED
  BY <1>1 DEF Control, Alone, Same

LEMMA ControlCall ==
  ASSUME TypeInv, Control, NEW c \in Callers, Call(c)
  PROVE  Control'
<1>1. CASE Open(c)
  BY <1>1 DEF Open, callVars, lockVars, Control, Asking
<1>2. ASSUME NEW p \in Player, Close(c, p)
      PROVE  Control'
  <2>1. getObjectFromMap(c, "close", p, "stop") /\ adminLock' = c
    BY <1>2 DEF Close
  <2>2. rest[c] = {}
    BY <2>1, Fetches DEF Control
  <2> QED
    BY <2>1, <2>2, Fetches, ControlLocks DEF Asking
<1>3. ASSUME NEW p \in Player, NEW k \in CallKinds \ {"close"}, NEW to \in {"fetched", "act", "stop"},
             Fetch(c, k, p, to), to = "fetched" => k = "play", k = "play" => to = "fetched"
      PROVE  Control'
  <2>1. getObjectFromMap(c, k, p, to) /\ adminLock' = adminLock
    BY <1>3 DEF Fetch
  <2>2. rest[c] = {}
    BY <2>1, Fetches DEF Control
  <2> QED
    BY <1>3, <2>1, <2>2, Fetches, ControlGoesOn DEF Asking
<1> QED
  BY <1>1, <1>2, <1>3 DEF Call, Play, PlayBuffer, Stop, Config, SetMixerLevels,
     SetSmartVolControl, Pause, Resume, IsPlaying, CallKinds

LEMMA ControlReturns ==
  ASSUME TypeInv, Control, NEW c \in Callers, Return(c), adminLock' = adminLock
  PROVE  Control'
  BY Returns, ControlGoesOn DEF Asking

LEMMA ControlPlay ==
  ASSUME TypeInv, Control, NEW c \in Callers, PlayStep(c)
  PROVE  Control'
<1> USE DEF lockVars, Using, At
<1>1. CASE Refuse(c) \/ Start(c)
  BY <1>1, ControlReturns DEF Refuse, Start
<1>2. CASE Ask(c)
  BY <1>2, GoesOn, ControlLocks DEF Ask, Control, Asking
<1>3. CASE Check(c)
  <2>1. cpc[c] = "check" /\ op[c] = "play" /\ adminLock = c
    BY <1>3 DEF Check, Control, Asking
  <2>2. CASE Return(c) /\ adminLock' = Nobody
    BY <2>1, <2>2, Returns, ControlLocks DEF Asking
  <2>3. CASE rest[c] = {} /\ Goto(c, "granted") /\ UNCHANGED <<op, pl, rest>>
    BY <2>1, <2>3, GoesOn, ControlLocks DEF Asking
  <2>4. CASE rest[c] # {} /\ Goto(c, "stop") /\ UNCHANGED <<op, pl, rest, adminLock>>
    BY <2>1, <2>4, GoesOn, ControlLocks DEF Asking
  <2> QED
    BY <1>3, <2>2, <2>3, <2>4 DEF Check
<1>4. CASE EnterPlay(c)
  <2>1. /\ cpc[c] = "granted" /\ op[c] = "play" /\ rest[c] = {}
        /\ adminLock' = adminLock
    BY <1>4 DEF EnterPlay, Control
  <2>2. PICK to \in {"start", "stop"} : Goto(c, to)
    BY <1>4 DEF EnterPlay
  <2>3. Alone(c) /\ cpc'[c] = to /\ rest'[c] = {} /\ op'[c] = "play"
    BY <1>4, <2>1, <2>2, GoesOn DEF EnterPlay
  <2>4. ~Asking(c)' /\ (cpc'[c] \in {"fetched", "check", "granted", "start"} => op'[c] = "play")
    BY <2>3 DEF Asking
  <2>5. op'[c] # "close"
    BY <2>3
  <2> QED
    BY <2>1, <2>3, <2>4, <2>5, ControlGoesOn
<1>5. CASE CallerStops(c)
  BY <1>5, GoesOn, ControlGoesOn DEF CallerStops, StopResets, Control, Asking
<1>6. CASE CallerReady(c)
  <2>1. cpc[c] = "ready" /\ adminLock' = adminLock
    BY <1>6 DEF CallerReady, StopReady
  <2>2. CASE rest[c] # {}
    <3>1. op[c] = "play" /\ Asking(c)
      BY <2>1, <2>2 DEF Control, Asking
    <3> QED
      BY <1>6, <2>1, <2>2, <3>1, GoesOn, ControlGoesOn DEF CallerReady
  <2>3. CASE rest[c] = {} /\ op[c] = "play"
    BY <1>6, <2>1, <2>3, GoesOn, ControlGoesOn DEF CallerReady, Asking
  <2>4. CASE rest[c] = {} /\ op[c] = "close"
    BY <1>6, <2>1, <2>4, GoesOn, ControlGoesOn DEF CallerReady, Asking
  <2>5. CASE rest[c] = {} /\ op[c] \notin {"play", "close"}
    BY <1>6, <2>1, <2>5, ControlReturns DEF CallerReady
  <2> QED
    BY <2>2, <2>3, <2>4, <2>5
<1>7. CASE Delete(c)
  <2>1. op[c] = "close" /\ adminLock = c
    BY <1>7 DEF Delete, TypeInv, Holding, Control
  <2> QED
    BY <1>7, <2>1, Returns, ControlLocks DEF Delete, Asking
<1> QED
  BY <1>1, <1>2, <1>3, <1>4, <1>5, <1>6, <1>7 DEF PlayStep

LEMMA ControlAct ==
  ASSUME TypeInv, Control, NEW c \in Callers, ActStep(c)
  PROVE  Control'
<1>1. adminLock' = adminLock
  BY DEF ActStep, PlayerPlayBuffer, PlayerPause, PlayerResume, PlayerSmartVolControl,
     PlayerMixerLevels, PlayerMixes, PlayerPCMCaps, PlayerIsPlaying, UsesFreed, lockVars
<1>2. CASE Return(c)
  BY <1>1, <1>2, ControlReturns
<1>3. CASE Goto(c, "mix") /\ UNCHANGED <<op, pl, rest>> /\ op[c] = "mixer"
  BY <1>1, <1>3, GoesOn, ControlGoesOn DEF Asking, Control
<1>4. CASE UNCHANGED callVars
  BY <1>1, <1>4 DEF callVars, Control, Asking
<1> QED
  BY <1>2, <1>3, <1>4
     DEF ActStep, PlayerPlayBuffer, PlayerPause, PlayerResume, PlayerSmartVolControl,
         PlayerMixerLevels, PlayerMixes, PlayerPCMCaps, PlayerIsPlaying, UsesFreed, Acting,
         Guarded

LEMMA ControlOthers ==
  ASSUME TypeInv, Control, (\E p \in Player : Pushing(p) \/ Stream(p)) \/ BusStep
  PROVE  Control'
  BY OthersStep DEF Control, Asking

-------------------------------------------------------------------------------
(* Gone: a player that objectMap does not have is being closed, deleted, or *)
(* not opened yet.                                                         *)

\* The step of a caller that is not closing, on players that are opened
LEMMA GoneStays ==
  ASSUME TypeInv, Control, Gone, NEW c \in Callers, Alone(c), UNCHANGED <<opened, mapped, freed>>,
         op[c] = "close" => op'[c] = "close" /\ pl'[c] = pl[c],
         \A q \in Player \ (1 .. opened) : target'[q] = target[q] /\ paused'[q] = paused[q],
         \A q \in freed : target'[q] = "null"
  PROVE  Gone'
  BY DEF Gone, Alone, Same

\* A deleted player is asked for nothing.
LEMMA FreedSilent ==
  ASSUME TypeInv, Gone, NEW p, NEW v, v = "null" \/ p \notin freed,
         target' = [target EXCEPT ![p] = v] \/ target' = target
  PROVE  \A q \in freed : target'[q] = "null"
<1>1. freed \subseteq Player
  BY PlayerBounds DEF TypeInv, TypeOK
<1> QED
  BY <1>1 DEF TypeInv, TypeOK, Gone

LEMMA GoneCall ==
  ASSUME TypeInv, Control, Gone, NEW c \in Callers, Call(c)
  PROVE  Gone'
<1>1. CASE Open(c)
  <2>1. /\ opened' = opened + 1 /\ mapped' = mapped \cup {opened + 1}
        /\ UNCHANGED <<freed, target, paused, op, pl>>
    BY <1>1 DEF Open, playerVars, callVars
  <2> QED
    BY <2>1, PlayerBounds DEF Gone
<1>2. ASSUME NEW p \in Player, Close(c, p)
      PROVE  Gone'
  <2>1. getObjectFromMap(c, "close", p, "stop") /\ mapped' = mapped \ {p}
    BY <1>2 DEF Close, Erase
  <2>2. op[c] # "close"
    BY <2>1, Fetches DEF Control
  <2> QED
    BY <2>1, <2>2, Fetches DEF Gone, Alone, Same
<1>3. ASSUME NEW p \in Player, NEW k \in CallKinds, NEW to, Fetch(c, k, p, to)
      PROVE  Gone'
  <2>1. getObjectFromMap(c, k, p, to) /\ mapped' = mapped
    BY <1>3 DEF Fetch
  <2>2. op[c] # "close"
    BY <2>1, Fetches DEF Control
  <2> QED
    BY <2>1, <2>2, Fetches, GoneStays DEF Gone
<1> QED
  BY <1>1, <1>2, <1>3 DEF Call, Play, PlayBuffer, Stop, Config, SetMixerLevels,
     SetSmartVolControl, Pause, Resume, IsPlaying, CallKinds

LEMMA GonePlay ==
  ASSUME TypeInv, Control, Gone, NEW c \in Callers, PlayStep(c)
  PROVE  Gone'
<1> USE DEF mapVars, playerVars, pipeVars, Using, At
<1>1. cpc[c] # "idle" /\ pl[c] \in 1 .. opened
  BY DEF PlayStep, Refuse, Ask, Check, EnterPlay, CallerStops, CallerReady, Start, Delete,
     TypeInv, Holding
<1>2. CASE Refuse(c) \/ Ask(c) \/ Check(c)
  <2>1. op[c] # "close" /\ UNCHANGED <<opened, mapped, freed, target, paused>>
    BY <1>2 DEF Refuse, Ask, Check, Control
  <2>2. Alone(c)
    BY <1>2, Returns, GoesOn DEF Refuse, Ask, Check
  <2> QED
    BY <2>1, <2>2, GoneStays DEF Gone
<1>3. CASE EnterPlay(c) \/ Start(c)
  <2>1. op[c] # "close" /\ UNCHANGED <<opened, mapped, freed, paused>>
    BY <1>3 DEF EnterPlay, Start, Control
  <2>2. Alone(c)
    BY <1>3, Returns, GoesOn DEF EnterPlay, Start
  <2>3. \A q \in Player \ (1 .. opened) : target'[q] = target[q]
    BY <1>1, <1>3 DEF EnterPlay, Start, SetState, TypeInv, TypeOK
  <2>4. \A q \in freed : target'[q] = "null"
    BY <1>3, FreedSilent DEF EnterPlay, Start, SetState
  <2> QED
    BY <2>1, <2>2, <2>3, <2>4, GoneStays
<1>4. CASE CallerStops(c)
  <2>1. UNCHANGED <<opened, mapped, freed>> /\ op'[c] = op[c] /\ pl'[c] = pl[c] /\ Alone(c)
    BY <1>4, GoesOn DEF CallerStops
  <2>2. \A q \in Player \ (1 .. opened) : target'[q] = target[q] /\ paused'[q] = paused[q]
    <3>1. /\ target' = [target EXCEPT ![Stopped(c)] = "null"]
          /\ paused' = [paused EXCEPT ![Stopped(c)] = FALSE]
      BY <1>4 DEF CallerStops, StopResets, Silence
    <3>2. \A q \in Player \ (1 .. opened) : target[q] = "null" /\ paused[q] = FALSE
      BY DEF Gone, TypeInv, TypeOK
    <3> QED
      BY <3>1, <3>2 DEF TypeInv, TypeOK
  <2>3. \A q \in freed : target'[q] = "null"
    BY <1>4, FreedSilent DEF CallerStops, StopResets, Silence
  <2> QED
    BY <2>1, <2>2, <2>3, GoneStays
<1>5. CASE CallerReady(c)
  <2>1. UNCHANGED <<opened, mapped, freed, target, paused>>
    BY <1>5 DEF CallerReady, StopReady
  <2>2. CASE rest[c] # {} \/ op[c] \in {"play", "close"}
    BY <1>5, <2>1, <2>2, GoesOn, GoneStays DEF CallerReady, Gone
  <2>3. CASE rest[c] = {} /\ op[c] \notin {"play", "close"}
    BY <1>5, <2>1, <2>3, Returns, GoneStays DEF CallerReady, Gone
  <2> QED
    BY <2>2, <2>3
<1>6. CASE Delete(c)
  <2>1. Alone(c) /\ freed' = freed \cup {pl[c]} /\ UNCHANGED <<opened, mapped, paused>>
    BY <1>6, Returns DEF Delete
  <2>2. \A q \in Player \ (1 .. opened) : target'[q] = target[q]
    BY <1>1, <1>6 DEF Delete, TypeInv, TypeOK
  <2>3. \A q \in freed' : target'[q] = "null"
    <3>1. target' = [target EXCEPT ![pl[c]] = "null"]
      BY <1>6 DEF Delete
    <3>2. target'[pl[c]] = "null"
      BY <1>1, <3>1, PlayerBounds DEF TypeInv, TypeOK
    <3> QED
      BY <2>1, <3>1, <3>2, FreedSilent
  <2> QED
    BY <2>1, <2>2, <2>3 DEF Gone, Alone, Same
<1> QED
  BY <1>2, <1>3, <1>4, <1>5, <1>6 DEF PlayStep

\* The calls that are one step change their own player.
LEMMA GoneAct ==
  ASSUME TypeInv, Control, Gone, NEW c \in Callers, ActStep(c)
  PROVE  Gone'
<1> USE DEF mapVars, playerVars, pipeVars, Using, At
<1>1. UNCHANGED <<opened, mapped, freed>> /\ cpc[c] # "idle" /\ pl[c] \in 1 .. opened
  BY DEF ActStep, PlayerPlayBuffer, PlayerPause, PlayerResume, PlayerSmartVolControl,
     PlayerMixerLevels, PlayerMixes, PlayerPCMCaps, PlayerIsPlaying, UsesFreed, Acting, Guarded,
     TypeInv, Holding
<1>2. \A q \in Player \ (1 .. opened) : target'[q] = target[q] /\ paused'[q] = paused[q]
  <2>1. CASE PlayerPlayBuffer(c)
    BY <1>1, <2>1 DEF PlayerPlayBuffer, SetState, TypeInv, TypeOK
  <2>2. CASE PlayerPause(c)
    BY <1>1, <2>2 DEF PlayerPause, SetState, TypeInv, TypeOK
  <2>3. CASE PlayerResume(c)
    BY <1>1, <2>3 DEF PlayerResume, SetState, TypeInv, TypeOK
  <2>4. CASE PlayerSmartVolControl(c)
    BY <1>1, <2>4 DEF PlayerSmartVolControl, Silence, TypeInv, TypeOK
  <2>5. CASE UNCHANGED <<target, paused>>
    BY <2>5
  <2> QED
    BY <2>1, <2>2, <2>3, <2>4, <2>5
       DEF ActStep, PlayerMixerLevels, PlayerMixes, PlayerPCMCaps, PlayerIsPlaying, UsesFreed
<1>3. \A q \in freed : target'[q] = "null"
  <2>1. CASE PlayerPlayBuffer(c)
    BY <2>1, FreedSilent DEF PlayerPlayBuffer, Guarded, Acting, SetState
  <2>2. CASE PlayerPause(c)
    BY <2>2, FreedSilent DEF PlayerPause, Guarded, Acting, SetState
  <2>3. CASE PlayerResume(c)
    BY <2>3, FreedSilent DEF PlayerResume, Guarded, Acting, SetState
  <2>4. CASE PlayerSmartVolControl(c)
    BY <2>4, FreedSilent DEF PlayerSmartVolControl, Silence
  <2>5. CASE target' = target
    BY <2>5, FreedSilent
  <2> QED
    BY <2>1, <2>2, <2>3, <2>4, <2>5
       DEF ActStep, PlayerMixerLevels, PlayerMixes, PlayerPCMCaps, PlayerIsPlaying, UsesFreed
<1>4. CASE Return(c) /\ op[c] # "close"
  BY <1>1, <1>2, <1>3, <1>4, Returns, GoneStays
<1>5. CASE Goto(c, "mix") /\ UNCHANGED <<op, pl, rest>>
  BY <1>1, <1>2, <1>3, <1>5, GoesOn, GoneStays
<1>6. CASE UNCHANGED callVars
  BY <1>1, <1>2, <1>3, <1>6, GoneStays DEF callVars, Alone, Same
<1> QED
  BY <1>4, <1>5, <1>6
     DEF ActStep, PlayerPlayBuffer, PlayerPause, PlayerResume, PlayerSmartVolControl,
         PlayerMixerLevels, PlayerMixes, PlayerPCMCaps, PlayerIsPlaying, UsesFreed, Acting,
         Guarded, Control

LEMMA GoneOthers ==
  ASSUME TypeInv, Gone, (\E p \in Player : Pushing(p) \/ Stream(p)) \/ BusStep
  PROVE  Gone'
<1>1. freed \subseteq Player
  BY PlayerBounds DEF TypeInv, TypeOK
<1> QED
  BY <1>1, OthersStep DEF Gone

-------------------------------------------------------------------------------
(* Exclusive: while and after its question, a Play is alone of its mode.   *)

\* Nobody is heard that was not, and nobody's question goes on.
LEMMA ExclusiveStays ==
  ASSUME Exclusive, Quieter,
         \A d \in Callers : Granted(d)' => Granted(d) /\ pl'[d] = pl[d],
         \A d \in Callers : Asking(d)' =>
            /\ Asking(d) /\ pl'[d] = pl[d]
            /\ \A q \in Rivals(d) : Seen(d, q)' => Seen(d, q) \/ ~Held(q)'
  PROVE  Exclusive'
<1> SUFFICES ASSUME ~bypassed' PROVE Exclusive'
  BY DEF Exclusive
<1>1. /\ \A p, q \in Player : p # q /\ Mode[p] = Mode[q] => ~Held(p) \/ ~Held(q)
      /\ \A c \in Callers : Granted(c) => \A q \in Rivals(c) : ~Held(q)
      /\ \A c \in Callers : Asking(c) => \A q \in Rivals(c) : Seen(c, q) => ~Held(q)
  BY DEF Exclusive, Quieter
<1>2. \A p \in Player : Held(p)' => Held(p)
  BY DEF Quieter
<1>3. \A p, q \in Player : p # q /\ Mode[p] = Mode[q] => ~Held(p)' \/ ~Held(q)'
  BY <1>1, <1>2
<1>4. \A c \in Callers : pl'[c] = pl[c] => Rivals(c)' = Rivals(c)
  BY DEF Rivals
<1>5. \A c \in Callers : Rivals(c) \subseteq Player
  BY DEF Rivals
<1>6. \A c \in Callers : Granted(c)' => \A q \in Rivals(c)' : ~Held(q)'
  BY <1>1, <1>2, <1>4, <1>5
<1>7. \A c \in Callers : Asking(c)' => \A q \in Rivals(c)' : Seen(c, q)' => ~Held(q)'
  BY <1>1, <1>2, <1>4, <1>5
<1> QED
  BY <1>3, <1>6, <1>7 DEF Exclusive

\* A step of c, whose question and answer are settled one by one
LEMMA ExclusiveAlone ==
  ASSUME Exclusive, Quieter, NEW c \in Callers, Alone(c),
         Granted(c)' => Granted(c) /\ pl'[c] = pl[c],
         Asking(c)' => /\ Asking(c) /\ pl'[c] = pl[c]
                       /\ \A q \in Rivals(c) : Seen(c, q)' => Seen(c, q) \/ ~Held(q)'
  PROVE  Exclusive'
<1>1. \A d \in Callers \ {c} : /\ Granted(d)' => Granted(d) /\ pl'[d] = pl[d]
                               /\ Asking(d)' => Asking(d) /\ pl'[d] = pl[d]
  BY DEF Alone, Same, Granted, Asking
<1>2. \A d \in Callers \ {c} : \A q \in Rivals(d) : Seen(d, q)' => Seen(d, q)
  BY DEF Alone, Same, Seen
<1> QED
  BY <1>1, <1>2, ExclusiveStays

\* A caller that is neither asking nor granted afterwards
LEMMA ExclusiveLeft ==
  ASSUME Exclusive, Quieter, NEW c \in Callers, Alone(c), op'[c] # "play" \/ cpc'[c] = "fetched"
  PROVE  Exclusive'
  BY ExclusiveAlone DEF Granted, Asking

LEMMA ExclusiveCall ==
  ASSUME TypeInv, Control, Exclusive, NEW c \in Callers, Call(c)
  PROVE  Exclusive'
<1>1. CASE Open(c)
  <2>1. UNCHANGED <<freed, target, paused, bypassed, cpc, op, pl, rest>>
    BY <1>1 DEF Open, playerVars, callVars, ghostVars
  <2> QED
    BY <2>1, ExclusiveStays DEF Quieter, Held, Granted, Asking, Seen
<1>2. ASSUME NEW p \in Player, NEW k, NEW to, getObjectFromMap(c, k, p, to),
             k = "play" => to = "fetched"
      PROVE  Exclusive'
  <2>1. Quieter
    BY <1>2, Fetches DEF Quieter, Held
  <2> QED
    BY <1>2, <2>1, Fetches, ExclusiveLeft
<1> QED
  BY <1>1, <1>2 DEF Call, Play, PlayBuffer, Stop, Close, Config, SetMixerLevels,
     SetSmartVolControl, Pause, Resume, IsPlaying, Fetch

\* While a Play asks, the players of its mode that objectMap does not have are silent.
LEMMA ExclusiveAsk ==
  ASSUME TypeInv, Control, Gone, Exclusive, NEW c \in Callers, Ask(c)
  PROVE  Exclusive'
<1> SUFFICES ASSUME ~bypassed PROVE Exclusive'
  BY DEF Ask, ghostVars, Exclusive
<1>1. /\ UNCHANGED <<freed, mapped, target, paused, bypassed, op, pl>> /\ adminLock = Nobody
      /\ Alone(c) /\ cpc'[c] = "check"
      /\ rest'[c] = {q \in mapped \ {pl[c]} : Mode[q] = Mode[pl[c]]}
  BY GoesOn DEF Ask, mapVars, playerVars, pipeVars, ghostVars
<1>2. \A q \in Rivals(c) : q \notin rest'[c] => ~Held(q)
  <2> SUFFICES ASSUME NEW q \in Player, q \notin mapped PROVE ~Held(q)
    BY <1>1 DEF Rivals
  <2>1. \A d \in Callers : op[d] # "close"
    BY <1>1 DEF Control
  <2>2. q \in freed \/ q \in Player \ (1 .. opened)
    BY <2>1 DEF Gone
  <2> QED
    BY <2>2 DEF Gone, Held
<1>3. \A q \in Player : Held(q)' = Held(q)
  BY <1>1 DEF Held
<1>4. \A d \in Callers : Rivals(d)' = Rivals(d) /\ Rivals(d) \subseteq Player
  BY <1>1 DEF Rivals
<1>5. \A d \in Callers : Granted(d)' => \A q \in Rivals(d)' : ~Held(q)'
  <2>1. \A d \in Callers : Granted(d)' => Granted(d)
    BY <1>1 DEF Granted, Alone, Same
  <2> QED
    BY <1>3, <1>4, <2>1 DEF Exclusive
<1>6. \A d \in Callers : Asking(d)' => \A q \in Rivals(d)' : Seen(d, q)' => ~Held(q)'
  <2>1. \A d \in Callers \ {c} : /\ Asking(d)' => Asking(d)
                                 /\ \A q \in Rivals(d) : Seen(d, q)' => Seen(d, q)
    BY <1>1 DEF Asking, Seen, Alone, Same
  <2>2. \A q \in Rivals(c) : Seen(c, q)' => q \notin rest'[c]
    BY <1>1 DEF Seen
  <2> QED
    BY <1>2, <1>3, <1>4, <2>1, <2>2 DEF Exclusive
<1> QED
  BY <1>3, <1>5, <1>6 DEF Exclusive

\* The question ends, and each player of the mode was seen.
LEMMA ExclusiveCheck ==
  ASSUME TypeInv, Control, Exclusive, NEW c \in Callers, Check(c)
  PROVE  Exclusive'
<1>1. /\ UNCHANGED <<freed, target, paused, bypassed>>
      /\ cpc[c] = "check" /\ op[c] = "play" /\ Asking(c)
  BY DEF Check, Using, At, Control, Asking, mapVars, playerVars, pipeVars, ghostVars
<1>2. Quieter
  BY <1>1 DEF Quieter, Held
<1>3. CASE Return(c)
  BY <1>2, <1>3, Returns, ExclusiveLeft
<1>4. CASE rest[c] # {} /\ Goto(c, "stop") /\ UNCHANGED <<op, pl, rest>>
  BY <1>1, <1>2, <1>4, GoesOn, ExclusiveAlone DEF Granted, Asking, Seen
<1>5. CASE rest[c] = {} /\ Goto(c, "granted") /\ UNCHANGED <<op, pl, rest>>
  <2> SUFFICES ASSUME ~bypassed PROVE Exclusive'
    BY <1>1 DEF Exclusive
  <2>1. Alone(c) /\ cpc'[c] = "granted" /\ rest'[c] = {} /\ pl' = pl
    BY <1>5, GoesOn
  <2>2. \A q \in Player : Held(q)' = Held(q)
    BY <1>1 DEF Held
  <2>3. \A d \in Callers : Rivals(d)' = Rivals(d) /\ Rivals(d) \subseteq Player
    BY <2>1 DEF Rivals
  <2>4. \A q \in Rivals(c) : ~Held(q)
    BY <1>1, <1>5 DEF Exclusive, Seen
  <2>5. \A d \in Callers : Granted(d)' => d = c \/ Granted(d)
    BY <2>1 DEF Granted, Alone, Same
  <2>6. \A d \in Callers : Asking(d)' => Asking(d) /\ \A q \in Rivals(d) : Seen(d, q)' => Seen(d, q)
    BY <1>5, <2>1 DEF Asking, Seen, Alone, Same
  <2> QED
    BY <2>2, <2>3, <2>4, <2>5, <2>6 DEF Exclusive
<1> QED
  BY <1>3, <1>4, <1>5 DEF Check

\* Where a Play goes on stopping: a player of the mode has been seen once it is silent.
LEMMA ExclusiveStops ==
  ASSUME TypeInv, Control, Exclusive, NEW c \in Callers, CallerStops(c)
  PROVE  Exclusive'
<1>1. /\ StopResets(c, Stopped(c)) /\ UNCHANGED <<freed, bypassed, op, pl, rest>>
      /\ cpc[c] = "stop" /\ cpc'[c] = "ready" /\ Alone(c)
  BY GoesOn DEF CallerStops, Using, At, mapVars, ghostVars
<1>2. \A q \in Player : Held(q)' => Held(q) /\ q # Stopped(c)
  BY <1>1 DEF StopResets, Silence, TypeInv, TypeOK, Held
<1>3. Quieter
  BY <1>1, <1>2 DEF Quieter
<1>4. Asking(c)' => \A q \in Rivals(c) : Seen(c, q)' => Seen(c, q) \/ ~Held(q)'
  BY <1>1, <1>2 DEF Asking, Seen, Stopped, Rivals
<1>5. /\ Granted(c)' => Granted(c)
      /\ Asking(c)' => Asking(c)
  BY <1>1 DEF Granted, Asking
<1> QED
  BY <1>1, <1>3, <1>4, <1>5, ExclusiveAlone

LEMMA ExclusiveReady ==
  ASSUME TypeInv, Control, Exclusive, NEW c \in Callers, CallerReady(c)
  PROVE  Exclusive'
<1>1. cpc[c] = "ready" /\ UNCHANGED <<freed, target, paused, bypassed>>
  BY DEF CallerReady, StopReady, Using, At, mapVars, pipeVars, ghostVars
<1>2. Quieter
  BY <1>1 DEF Quieter, Held
<1>3. CASE rest[c] # {}
  <2>1. /\ cpc'[c] = "check" /\ rest'[c] = rest[c] \ {Stopped(c)} /\ Alone(c)
        /\ op'[c] = op[c] /\ pl'[c] = pl[c]
    BY <1>3, GoesOn DEF CallerReady
  <2>2. \A q \in Rivals(c) : Seen(c, q)' => Seen(c, q)
    BY <1>1, <1>3, <2>1 DEF Seen, Stopped
  <2>3. Asking(c) /\ ~Granted(c)'
    BY <1>1, <1>3, <2>1 DEF Asking, Granted, Control
  <2> QED
    BY <1>2, <2>1, <2>2, <2>3, ExclusiveAlone
<1>4. CASE rest[c] = {} /\ op[c] = "play"
  <2>1. cpc'[c] = "start" /\ Alone(c) /\ pl'[c] = pl[c]
    BY <1>4, GoesOn DEF CallerReady
  <2>2. Granted(c) /\ ~Asking(c)'
    BY <1>1, <1>4, <2>1 DEF Granted, Asking
  <2> QED
    BY <1>2, <2>1, <2>2, ExclusiveAlone
<1>5. CASE rest[c] = {} /\ op[c] = "close"
  BY <1>2, <1>5, GoesOn, ExclusiveLeft DEF CallerReady
<1>6. CASE rest[c] = {} /\ op[c] \notin {"play", "close"}
  BY <1>2, <1>6, Returns, ExclusiveLeft DEF CallerReady
<1> QED
  BY <1>3, <1>4, <1>5, <1>6

\* The one step that lets a player be heard with nobody's leave but its own answer:
\* unless another Play of the mode has asked (Overlaps), the others are silent.
LEMMA ExclusiveStart ==
  ASSUME TypeInv, Control, Exclusive, NEW c \in Callers, Start(c)
  PROVE  Exclusive'
<1> SUFFICES ASSUME ~bypassed' PROVE Exclusive'
  BY DEF Exclusive
<1>1. cpc[c] = "start" /\ ~bypassed /\ ~Overlaps(c) /\ Alone(c) /\ op'[c] = "none"
  BY Returns DEF Start, Using, At
<1>2. op[c] = "play" /\ Granted(c)
  BY <1>1 DEF Control, Granted
<1>3. \A q \in Player : Held(q)' => Held(q) \/ q = pl[c]
  BY DEF Start, SetState, TypeInv, TypeOK, Held, mapVars, playerVars, pipeVars
<1>4. \A q \in Player : q # pl[c] /\ Mode[q] = Mode[pl[c]] => ~Held(q)
  BY <1>1, <1>2 DEF Exclusive, Rivals
<1>5. \A p, q \in Player : p # q /\ Mode[p] = Mode[q] => ~Held(p)' \/ ~Held(q)'
  BY <1>1, <1>3, <1>4 DEF Exclusive
<1>6. \A d \in Callers : Granted(d)' \/ Asking(d)' =>
         /\ d # c /\ Granted(d)' = Granted(d) /\ Asking(d)' = Asking(d)
         /\ Rivals(d)' = Rivals(d) /\ \A q \in Rivals(d) : Seen(d, q)' = Seen(d, q)
  BY <1>1 DEF Granted, Asking, Rivals, Seen, Alone, Same
<1>7. \A d \in Callers \ {c} : Granted(d) \/ Asking(d) => pl[c] \notin Rivals(d)
  BY <1>1 DEF Overlaps, Granted, Asking, Rivals
<1>8. \A d \in Callers : Rivals(d) \subseteq Player
  BY DEF Rivals
<1>9. \A d \in Callers : Granted(d)' => \A q \in Rivals(d)' : ~Held(q)'
  BY <1>1, <1>3, <1>6, <1>7, <1>8 DEF Exclusive
<1>10. \A d \in Callers : Asking(d)' => \A q \in Rivals(d)' : Seen(d, q)' => ~Held(q)'
  BY <1>1, <1>3, <1>6, <1>7, <1>8 DEF Exclusive
<1> QED
  BY <1>5, <1>9, <1>10 DEF Exclusive

LEMMA ExclusivePlay ==
  ASSUME TypeInv, Control, Gone, Exclusive, NEW c \in Callers, PlayStep(c)
  PROVE  Exclusive'
<1> USE DEF mapVars, playerVars, pipeVars, ghostVars, Using, At
<1>1. CASE Refuse(c)
  BY <1>1, Returns, ExclusiveLeft DEF Refuse, Quieter, Held
<1>2. CASE EnterPlay(c)
  <2>1. op[c] = "play" /\ Granted(c) /\ rest[c] = {} /\ Quieter
    BY <1>2 DEF EnterPlay, Control, Granted, Quieter, Held
  <2>2. Alone(c) /\ cpc'[c] \in {"start", "stop"} /\ rest'[c] = {} /\ pl'[c] = pl[c]
    BY <1>2, <2>1, GoesOn DEF EnterPlay
  <2> QED
    BY <2>1, <2>2, ExclusiveAlone DEF Asking
<1>3. CASE Delete(c)
  <2>1. Quieter
    BY <1>3 DEF Delete, Quieter, Held, TypeInv, TypeOK
  <2> QED
    BY <1>3, <2>1, Returns, ExclusiveLeft DEF Delete
<1> QED
  BY <1>1, <1>2, <1>3, ExclusiveAsk, ExclusiveCheck, ExclusiveStops, ExclusiveReady, ExclusiveStart
     DEF PlayStep

\* A buffer, or a Resume after a late Pause, may let a player be heard: around the question.
LEMMA ExclusiveAct ==
  ASSUME TypeInv, Control, Exclusive, NEW c \in Callers, ActStep(c)
  PROVE  Exclusive'
<1> SUFFICES ASSUME ~bypassed' PROVE Exclusive'
  BY DEF Exclusive
<1> USE DEF mapVars, playerVars, pipeVars, ghostVars
<1>1. bypassed => bypassed'
  BY DEF ActStep, PlayerPlayBuffer, PlayerPause, PlayerResume, PlayerSmartVolControl,
     PlayerMixerLevels, PlayerMixes, PlayerPCMCaps, PlayerIsPlaying, UsesFreed
<1>2. \A q \in Player : Held(q)' => Held(q)
  <2>1. CASE PlayerPlayBuffer(c)
    <3>1. UNCHANGED <<freed, paused>>
      BY <2>1 DEF PlayerPlayBuffer
    <3>2. target' = target \/ (target[pl[c]] = "playing" /\ Set(target, pl[c], "playing"))
      BY <2>1 DEF PlayerPlayBuffer, SetState
    <3>3. \A q \in Player : target'[q] = target[q]
      BY <3>2 DEF TypeInv, TypeOK
    <3> QED
      BY <3>1, <3>3 DEF Held
  <2>2. CASE PlayerPause(c)
    <3>1. CASE UNCHANGED <<target, paused>>
      BY <2>2, <3>1 DEF PlayerPause, Held
    <3>2. CASE target[pl[c]] # "null" /\ Set(paused, pl[c], TRUE) /\ SetState(pl[c], "paused")
      <4>1. \A q \in Player : q # pl[c] => target'[q] = target[q] /\ paused'[q] = paused[q]
        BY <3>2 DEF SetState, TypeInv, TypeOK
      <4> QED
        BY <2>2, <3>2, <4>1 DEF PlayerPause, Held
    <3> QED
      BY <2>2, <3>1, <3>2 DEF PlayerPause
  <2>3. CASE PlayerResume(c)
    BY <2>3 DEF PlayerResume, SetState, TypeInv, TypeOK, Held
  <2>4. CASE PlayerSmartVolControl(c)
    BY <2>4 DEF PlayerSmartVolControl, Silence, TypeInv, TypeOK, Held
  <2>5. CASE UNCHANGED <<freed, target, paused>>
    BY <2>5 DEF Held
  <2> QED
    BY <2>1, <2>2, <2>3, <2>4, <2>5
       DEF ActStep, PlayerMixerLevels, PlayerMixes, PlayerPCMCaps, PlayerIsPlaying, UsesFreed
<1>3. Quieter
  BY <1>1, <1>2 DEF Quieter
<1>4. CASE Return(c)
  BY <1>3, <1>4, Returns, ExclusiveLeft
<1>5. CASE Goto(c, "mix") /\ UNCHANGED <<op, pl, rest>> /\ op[c] = "mixer"
  BY <1>3, <1>5, GoesOn, ExclusiveLeft
<1>6. CASE UNCHANGED callVars
  BY <1>3, <1>6, ExclusiveStays DEF callVars, Granted, Asking, Seen
<1> QED
  BY <1>4, <1>5, <1>6
     DEF ActStep, PlayerPlayBuffer, PlayerPause, PlayerResume, PlayerSmartVolControl,
         PlayerMixerLevels, PlayerMixes, PlayerPCMCaps, PlayerIsPlaying, UsesFreed, Acting,
         Guarded

LEMMA ExclusiveOthers ==
  ASSUME TypeInv, Exclusive, (\E p \in Player : Pushing(p) \/ Stream(p)) \/ BusStep
  PROVE  Exclusive'
<1>1. UNCHANGED <<cpc, op, pl, rest>> /\ Quieter
  BY OthersStep
<1> QED
  BY <1>1, ExclusiveStays DEF Granted, Asking, Seen

-------------------------------------------------------------------------------

\* The inductive invariant of the ownership.
THEOREM OwnerInvariant == Spec => [](Control /\ Gone /\ Exclusive)
<1> DEFINE Inv == Control /\ Gone /\ Exclusive
<1>1. Init => Inv
  BY DEF Init, Inv, Control, Gone, Exclusive, Held, Granted, Asking
<1>2. TypeInv /\ Inv /\ [Next]_vars => Inv'
  <2> SUFFICES ASSUME TypeInv, Inv, [Next]_vars PROVE Inv'
    OBVIOUS
  <2>1. CASE Next
    <3>1. Control'
      BY <2>1, NextCases, ControlCall, ControlPlay, ControlAct, ControlOthers
    <3>2. Gone'
      BY <2>1, NextCases, GoneCall, GonePlay, GoneAct, GoneOthers
    <3>3. Exclusive'
      BY <2>1, NextCases, ExclusiveCall, ExclusivePlay, ExclusiveAct, ExclusiveOthers
    <3> QED
      BY <3>1, <3>2, <3>3
  <2>2. CASE UNCHANGED vars
    BY <2>2 DEF vars, mapVars, playerVars, pipeVars, lockVars, callVars, ghostVars, Control,
       Gone, Exclusive, Held, Granted, Asking, Rivals, Seen
  <2> QED
    BY <2>1, <2>2
<1> QED
  BY <1>1, <1>2, PlayersInvariant, PTL DEF Spec

\* Two players of one mode play together only when one of them was started around
\* SameModeNotPlaying: by a Play whose question and start overlap another's, by a buffer,
\* or by a Resume after a Pause that was taken on a player already silenced.
THEOREM OneOwnerUnlessBypassed == Spec => []SoleOwner
<1>1. Gone /\ Exclusive => SoleOwner
  <2> SUFFICES ASSUME Gone, Exclusive, ~bypassed,
                      NEW p \in Player, NEW q \in Player, BothPlay(p, q)
               PROVE  FALSE
    BY DEF SoleOwner, OneOwner
  <2> QED
    <3>1. ~Held(p) \/ ~Held(q)
      BY DEF Exclusive, BothPlay
    <3>2. p \notin freed /\ q \notin freed
      BY DEF Gone, BothPlay
    <3> QED
      BY <3>1, <3>2 DEF BothPlay, Held
<1> QED
  BY <1>1, OwnerInvariant, PTL

-------------------------------------------------------------------------------
(* The locks.                                                              *)

\* Where a caller is that has _adminLock, the m_playMutex of p, or its m_apiMutex
UnderAdmin(c) == op[c] = "close" \/ Asking(c)
UnderPlay(c, p) == op[c] = "play" /\ pl[c] = p /\ rest[c] = {} /\ cpc[c] \in {"stop", "ready", "start"}
UnderApi(c, p) == cpc[c] = "ready" /\ Stopped(c) = p

LocksHeld ==
    /\ adminLock # Nobody => UnderAdmin(adminLock)
    /\ \A p \in Player : playMutex[p] # Nobody => UnderPlay(playMutex[p], p)
    /\ \A p \in Player : apiMutex[p] \in Callers => UnderApi(apiMutex[p], p)
    /\ \A p \in Player : apiMutex[p] = Bus => bpc = "ready" /\ bpl = p

\* A step of c leaves the locks of the other callers, and of the bus thread, alone.
LEMMA LocksAlone ==
  ASSUME TypeInv, LocksHeld, NEW c \in Callers, Alone(c), UNCHANGED <<bpc, bpl>>,
         adminLock' \in {Nobody, adminLock, c},
         \A p \in Player : /\ playMutex'[p] \in {Nobody, playMutex[p], c}
                           /\ apiMutex'[p] \in {Nobody, apiMutex[p], c},
         adminLock' = c => UnderAdmin(c)',
         \A p \in Player : /\ playMutex'[p] = c => UnderPlay(c, p)'
                           /\ apiMutex'[p] = c => UnderApi(c, p)'
  PROVE  LocksHeld'
<1>0. Nobody \notin Callers /\ Bus \notin Callers /\ Nobody # Bus
  BY DEF Nobody, Bus
<1>1. /\ adminLock \in Callers \cup {Nobody}
      /\ \A p \in Player : playMutex[p] \in Callers \cup {Nobody}
  BY DEF TypeInv, TypeOK
<1>2. \A d \in Callers \ {c} :
         /\ UnderAdmin(d) => UnderAdmin(d)'
         /\ \A p \in Player : (UnderPlay(d, p) => UnderPlay(d, p)') /\ (UnderApi(d, p) => UnderApi(d, p)')
  BY DEF Alone, Same, UnderAdmin, UnderPlay, UnderApi, Asking, Stopped
<1>3. (adminLock # Nobody => UnderAdmin(adminLock))'
  <2> SUFFICES ASSUME adminLock' # Nobody, adminLock' # c PROVE UnderAdmin(adminLock)'
    OBVIOUS
  <2>1. PICK d \in Callers \ {c} : d = adminLock /\ adminLock' = adminLock
    BY <1>1
  <2>2. UnderAdmin(d)
    BY <1>0, <2>1 DEF LocksHeld
  <2>3. UnderAdmin(d)'
    BY <1>2, <2>2
  <2>4. d = adminLock'
    BY <2>1
  <2> QED
    BY <2>3, <2>4 DEF UnderAdmin, Asking
<1>4. ASSUME NEW p \in Player PROVE (playMutex[p] # Nobody => UnderPlay(playMutex[p], p))'
  <2> SUFFICES ASSUME playMutex'[p] # Nobody, playMutex'[p] # c PROVE UnderPlay(playMutex[p], p)'
    OBVIOUS
  <2>1. PICK d \in Callers \ {c} : d = playMutex[p] /\ playMutex'[p] = playMutex[p]
    BY <1>1
  <2>2. UnderPlay(d, p)
    BY <1>0, <2>1 DEF LocksHeld
  <2>3. UnderPlay(d, p)'
    BY <1>2, <2>2
  <2>4. d = playMutex'[p]
    BY <2>1
  <2> QED
    BY <2>3, <2>4 DEF UnderPlay
<1>5. ASSUME NEW p \in Player PROVE (apiMutex[p] \in Callers => UnderApi(apiMutex[p], p))'
  <2> SUFFICES ASSUME apiMutex'[p] \in Callers, apiMutex'[p] # c PROVE UnderApi(apiMutex[p], p)'
    OBVIOUS
  <2>1. PICK d \in Callers \ {c} : d = apiMutex[p] /\ apiMutex'[p] = apiMutex[p]
    BY <1>0
  <2>2. UnderApi(d, p)
    BY <2>1 DEF LocksHeld
  <2>3. UnderApi(d, p)'
    BY <1>2, <2>2
  <2>4. d = apiMutex'[p]
    BY <2>1
  <2> QED
    BY <2>3, <2>4 DEF UnderApi, Stopped
<1>6. ASSUME NEW p \in Player PROVE (apiMutex[p] = Bus => bpc = "ready" /\ bpl = p)'
  BY <1>0 DEF LocksHeld
<1> QED
  BY <1>3, <1>4, <1>5, <1>6 DEF LocksHeld

\* A caller that is not in such a place has no lock.
LEMMA NoLock ==
  ASSUME TypeInv, Control, LocksHeld, NEW c \in Callers
  PROVE  /\ cpc[c] \notin {"check", "stop", "ready", "delete"} => adminLock # c
         /\ \A p \in Player : cpc[c] \notin {"stop", "ready", "start"} => playMutex[p] # c
         /\ \A p \in Player : cpc[c] # "ready" => apiMutex[p] # c
  BY DEF LocksHeld, UnderAdmin, UnderPlay, UnderApi, Asking, Control, Nobody

LEMMA LocksCall ==
  ASSUME TypeInv, Control, LocksHeld, NEW c \in Callers, Call(c)
  PROVE  LocksHeld'
<1>1. CASE Open(c)
  BY <1>1 DEF Open, lockVars, callVars, busVars, LocksHeld, UnderAdmin, UnderPlay, UnderApi, Asking, Stopped
<1>2. ASSUME NEW p \in Player, NEW k, NEW to, getObjectFromMap(c, k, p, to),
             adminLock' = adminLock \/ (k = "close" /\ to = "stop" /\ adminLock' = c)
      PROVE  LocksHeld'
  <2>1. /\ Alone(c) /\ op'[c] = k /\ cpc[c] = "idle" /\ adminLock = Nobody
        /\ UNCHANGED <<bpc, bpl, playMutex, apiMutex>>
    BY <1>2, Fetches DEF getObjectFromMap, busVars
  <2>2. \A q \in Player : playMutex[q] # c /\ apiMutex[q] # c
    BY <2>1, NoLock
  <2>3. adminLock' = c => UnderAdmin(c)'
    BY <1>2, <2>1 DEF UnderAdmin, Nobody
  <2> QED
    BY <1>2, <2>1, <2>2, <2>3, LocksAlone
<1> QED
  BY <1>1, <1>2 DEF Call, Play, PlayBuffer, Stop, Close, Config, SetMixerLevels, SetSmartVolControl, Pause,
     Resume, IsPlaying, Fetch

LEMMA LocksPlay ==
  ASSUME TypeInv, Control, LocksHeld, NEW c \in Callers, PlayStep(c)
  PROVE  LocksHeld'
<1> USE DEF lockVars, busVars, Using, At
<1>0. Nobody \notin Callers
  BY DEF Nobody
<1>1. CASE Refuse(c)
  <2>1. Alone(c) /\ cpc[c] = "fetched" /\ UNCHANGED <<bpc, bpl, adminLock, playMutex, apiMutex>>
    BY <1>1, Returns DEF Refuse
  <2> QED
    BY <2>1, NoLock, LocksAlone
<1>2. CASE Ask(c)
  <2>1. /\ Alone(c) /\ cpc[c] = "fetched" /\ cpc'[c] = "check" /\ op'[c] = op[c] /\ adminLock' = c
        /\ UNCHANGED <<bpc, bpl, playMutex, apiMutex>>
    BY <1>2, GoesOn DEF Ask
  <2>2. UnderAdmin(c)'
    BY <2>1 DEF UnderAdmin, Asking, Control
  <2> QED
    BY <2>1, <2>2, NoLock, LocksAlone
<1>3. CASE Check(c)
  <2>1. cpc[c] = "check" /\ UNCHANGED <<bpc, bpl, playMutex, apiMutex>>
    BY <1>3 DEF Check
  <2>2. CASE adminLock' = Nobody
    <3>1. Alone(c)
      BY <1>3, <1>0, <2>2, Returns, GoesOn DEF Check, Control, Asking
    <3> QED
      BY <1>0, <2>1, <2>2, <3>1, NoLock, LocksAlone
  <2>3. CASE rest[c] # {} /\ Goto(c, "stop") /\ UNCHANGED <<op, pl, rest, adminLock>>
    <3>1. Alone(c) /\ cpc'[c] = "stop" /\ rest'[c] = rest[c] /\ op'[c] = op[c]
      BY <2>3, GoesOn
    <3>2. UnderAdmin(c)'
      BY <2>1, <2>3, <3>1 DEF UnderAdmin, Asking, Control
    <3> QED
      BY <2>1, <2>3, <3>1, <3>2, NoLock, LocksAlone
  <2> QED
    BY <1>3, <2>2, <2>3 DEF Check
<1>4. CASE EnterPlay(c)
  <2>1. /\ Alone(c) /\ cpc[c] = "granted" /\ cpc'[c] \in {"start", "stop"} /\ rest'[c] = rest[c]
        /\ op'[c] = op[c] /\ pl'[c] = pl[c] /\ playMutex' = [playMutex EXCEPT ![pl[c]] = c]
        /\ UNCHANGED <<bpc, bpl, adminLock, apiMutex>>
    BY <1>4, GoesOn DEF EnterPlay
  <2>2. rest[c] = {} /\ op[c] = "play"
    BY <2>1 DEF Control
  <2>3. \A p \in Player : /\ playMutex'[p] \in {playMutex[p], c}
                          /\ playMutex'[p] = c => playMutex[p] = c \/ p = pl[c]
    BY <2>1 DEF TypeInv, TypeOK
  <2>4. \A p \in Player : playMutex'[p] = c => UnderPlay(c, p)'
    BY <2>1, <2>2, <2>3, NoLock DEF UnderPlay
  <2> QED
    BY <2>1, <2>3, <2>4, NoLock, LocksAlone
<1>5. CASE CallerStops(c)
  <2>1. /\ Alone(c) /\ cpc[c] = "stop" /\ cpc'[c] = "ready" /\ rest'[c] = rest[c]
        /\ op'[c] = op[c] /\ pl'[c] = pl[c] /\ apiMutex' = [apiMutex EXCEPT ![Stopped(c)] = c]
        /\ UNCHANGED <<bpc, bpl, adminLock, playMutex>>
    BY <1>5, GoesOn DEF CallerStops, StopResets
  <2>2. \A p \in Player : /\ apiMutex'[p] \in {apiMutex[p], c}
                          /\ apiMutex'[p] = c => apiMutex[p] = c \/ p = Stopped(c)
    BY <2>1 DEF TypeInv, TypeOK
  <2>3. Stopped(c)' = Stopped(c)
    BY <2>1 DEF Stopped
  <2>4. \A p \in Player : apiMutex'[p] = c => UnderApi(c, p)'
    BY <2>1, <2>2, <2>3, NoLock DEF UnderApi
  <2>5. adminLock' = c => UnderAdmin(c)'
    BY <1>0, <2>1 DEF LocksHeld, UnderAdmin, Asking
  <2>6. \A p \in Player : playMutex'[p] = c => UnderPlay(c, p)'
    BY <1>0, <2>1 DEF LocksHeld, UnderPlay
  <2> QED
    BY <2>1, <2>2, <2>4, <2>5, <2>6, LocksAlone
<1>6. CASE CallerReady(c)
  <2>1. /\ cpc[c] = "ready" /\ apiMutex' = [apiMutex EXCEPT ![Stopped(c)] = Nobody]
        /\ UNCHANGED <<bpc, bpl, adminLock, playMutex>>
    BY <1>6 DEF CallerReady, StopReady
  <2>2. \A p \in Player : apiMutex'[p] \in {Nobody, apiMutex[p]} /\ apiMutex'[p] # c
    BY <1>0, <2>1 DEF TypeInv, TypeOK, LocksHeld, UnderApi
  <2>3. CASE rest[c] # {}
    <3>1. Alone(c) /\ cpc'[c] = "check" /\ op'[c] = op[c]
      BY <1>6, <2>3, GoesOn DEF CallerReady
    <3>2. op[c] = "play"
      BY <2>3 DEF Control
    <3>3. adminLock' = c => UnderAdmin(c)'
      BY <3>1, <3>2 DEF UnderAdmin, Asking
    <3>4. \A p \in Player : playMutex[p] # c
      BY <1>0, <2>3 DEF LocksHeld, UnderPlay
    <3> QED
      BY <2>1, <2>2, <3>1, <3>3, <3>4, LocksAlone
  <2>4. CASE rest[c] = {} /\ op[c] = "play"
    <3>1. Alone(c) /\ cpc'[c] = "start" /\ rest'[c] = {} /\ op'[c] = op[c] /\ pl'[c] = pl[c]
      BY <1>6, <2>4, GoesOn DEF CallerReady
    <3>2. adminLock # c
      BY <1>0, <2>1, <2>4 DEF LocksHeld, UnderAdmin, Asking
    <3>3. \A p \in Player : playMutex'[p] = c => UnderPlay(c, p)'
      BY <1>0, <2>1, <2>4, <3>1 DEF LocksHeld, UnderPlay
    <3> QED
      BY <2>1, <2>2, <3>1, <3>2, <3>3, LocksAlone
  <2>5. CASE rest[c] = {} /\ op[c] # "play"
    <3>1. Alone(c) /\ (op[c] = "close" => op'[c] = op[c])
      BY <1>6, <2>5, GoesOn, Returns DEF CallerReady
    <3>2. adminLock' = c => UnderAdmin(c)'
      BY <1>0, <2>1, <2>5, <3>1 DEF LocksHeld, UnderAdmin, Asking
    <3>3. \A p \in Player : playMutex[p] # c
      BY <1>0, <2>5 DEF LocksHeld, UnderPlay
    <3> QED
      BY <2>1, <2>2, <3>1, <3>2, <3>3, LocksAlone
  <2> QED
    BY <2>3, <2>4, <2>5
<1>7. CASE Start(c)
  <2>1. /\ Alone(c) /\ cpc[c] = "start" /\ playMutex' = [playMutex EXCEPT ![pl[c]] = Nobody]
        /\ UNCHANGED <<bpc, bpl, adminLock, apiMutex>>
    BY <1>7, Returns DEF Start
  <2>2. \A p \in Player : playMutex'[p] \in {Nobody, playMutex[p]} /\ playMutex'[p] # c
    BY <1>0, <2>1 DEF TypeInv, TypeOK, LocksHeld, UnderPlay
  <2> QED
    BY <2>1, <2>2, NoLock, LocksAlone
<1>8. CASE Delete(c)
  <2>1. /\ Alone(c) /\ cpc[c] = "delete" /\ adminLock' = Nobody
        /\ UNCHANGED <<bpc, bpl, playMutex, apiMutex>>
    BY <1>8, Returns DEF Delete
  <2> QED
    BY <1>0, <2>1, NoLock, LocksAlone
<1> QED
  BY <1>1, <1>2, <1>3, <1>4, <1>5, <1>6, <1>7, <1>8 DEF PlayStep

LEMMA LocksAct ==
  ASSUME TypeInv, Control, LocksHeld, NEW c \in Callers, ActStep(c)
  PROVE  LocksHeld'
<1> USE DEF lockVars, busVars
<1>1. UNCHANGED <<adminLock, playMutex, apiMutex, bpc, bpl>>
  BY DEF ActStep, PlayerPlayBuffer, PlayerPause, PlayerResume, PlayerSmartVolControl,
     PlayerMixerLevels, PlayerMixes, PlayerPCMCaps, PlayerIsPlaying, UsesFreed
<1>2. \/ UNCHANGED callVars
      \/ /\ Return(c) \/ (Goto(c, "mix") /\ UNCHANGED <<op, pl, rest>>)
         /\ cpc[c] \in {"act", "mix"}
  BY DEF ActStep, PlayerPlayBuffer, PlayerPause, PlayerResume, PlayerSmartVolControl,
         PlayerMixerLevels, PlayerMixes, PlayerPCMCaps, PlayerIsPlaying, UsesFreed, Acting,
         Guarded, Using, At
<1>3. CASE UNCHANGED callVars
  BY <1>1, <1>3 DEF callVars, LocksHeld, UnderAdmin, UnderPlay, UnderApi, Asking, Stopped
<1>4. CASE /\ Return(c) \/ (Goto(c, "mix") /\ UNCHANGED <<op, pl, rest>>)
           /\ cpc[c] \in {"act", "mix"}
  <2>1. Alone(c)
    BY <1>4, Returns, GoesOn
  <2> QED
    BY <1>1, <1>4, <2>1, NoLock, LocksAlone
<1> QED
  BY <1>2, <1>3, <1>4

LEMMA LocksOthers ==
  ASSUME TypeInv, LocksHeld, (\E p \in Player : Pushing(p) \/ Stream(p)) \/ BusStep
  PROVE  LocksHeld'
<1> USE DEF lockVars, busVars
<1>0. Bus \notin Callers /\ Nobody \notin Callers /\ Bus # Nobody
  BY DEF Bus, Nobody
<1>1. UNCHANGED <<adminLock, playMutex, cpc, op, pl, rest>>
  BY OthersStep DEF Pushing, Stream, PusherTakes, PusherPushes, StreamAdvances, StreamEnds, BusStep, BusPop,
     HandleDropped, HandleState, HandleTell, HandleEos, HandleError, BusStops, BusReady,
     BusUsesFreed, StopResets
<1>2. ASSUME \A p \in Player : /\ apiMutex'[p] \in {Nobody, Bus, apiMutex[p]}
                               /\ apiMutex'[p] = Bus => bpc' = "ready" /\ bpl' = p
      PROVE  LocksHeld'
  BY <1>0, <1>1, <1>2 DEF LocksHeld, UnderAdmin, UnderPlay, UnderApi, Asking, Stopped
<1>3. CASE BusStops
  <2>1. apiMutex' = [apiMutex EXCEPT ![bpl] = Bus] /\ bpc = "stop" /\ bpc' = "ready" /\ bpl' = bpl
    BY <1>3 DEF BusStops, StopResets, Handling
  <2> QED
    BY <1>2, <2>1 DEF LocksHeld, TypeInv, TypeOK
<1>4. CASE BusReady
  <2>1. apiMutex' = [apiMutex EXCEPT ![bpl] = Nobody]
    BY <1>4 DEF BusReady
  <2> QED
    BY <1>0, <1>2, <2>1 DEF LocksHeld, TypeInv, TypeOK
<1>5. CASE apiMutex' = apiMutex /\ (UNCHANGED <<bpc, bpl>> \/ bpc # "ready")
  BY <1>2, <1>5 DEF LocksHeld
<1> QED
  BY <1>3, <1>4, <1>5
     DEF Pushing, Stream, PusherTakes, PusherPushes, StreamAdvances, StreamEnds, BusStep, BusPop,
         HandleDropped, HandleState, HandleTell, HandleEos, HandleError, BusUsesFreed, Handling

\* Who has a lock is where the code gives it, for any number of callers and players.
THEOREM LocksInvariant == Spec => []LocksHeld
<1>1. Init => LocksHeld
  BY DEF Init, LocksHeld, Nobody, Bus
<1>2. TypeInv /\ Control /\ LocksHeld /\ [Next]_vars => LocksHeld'
  <2> SUFFICES ASSUME TypeInv, Control, LocksHeld, [Next]_vars PROVE LocksHeld'
    OBVIOUS
  <2>1. CASE Next
    BY <2>1, NextCases, LocksCall, LocksPlay, LocksAct, LocksOthers
  <2>2. CASE UNCHANGED vars
    BY <2>2 DEF vars, lockVars, callVars, busVars, LocksHeld, UnderAdmin, UnderPlay, UnderApi,
       Asking, Stopped
  <2> QED
    BY <2>1, <2>2
<1> QED
  BY <1>1, <1>2, PlayersInvariant, OwnerInvariant, PTL DEF Spec

\* The least of the players still to be stopped is one of them.
LEMMA LeastIsOne ==
  ASSUME NEW S \in SUBSET Player, S # {}
  PROVE  Min(S) \in S
<1> DEFINE Less == OpToRel(<, Nat)
<1>1. \A m, n \in Nat : m < n => <<m, n>> \in Less
  BY DEF OpToRel
<1> HIDE DEF Less
<1>2. IsWellFoundedOn(Less, Nat)
  BY NatLessThanWellFounded DEF Less
<1>3. S \subseteq Nat
  BY DEF Player
<1>4. PICK x \in S : \A y \in S : <<y, x>> \notin Less
  BY <1>2, <1>3, WFMin
<1>5. ASSUME NEW y \in S PROVE x =< y
  <2>1. x \in Nat /\ y \in Nat /\ <<y, x>> \notin Less
    BY <1>3, <1>4
  <2>2. ~(y < x)
    BY <1>1, <2>1
  <2> QED
    BY <2>1, <2>2
<1> QED
  BY <1>5 DEF Min

\* Play, Stop, Close and the calls on a player take _adminLock, m_playMutex, m_apiMutex and
\* join the pusher, in no circle: whenever a call is under way, some thread waits for
\* nothing (SystemAudioPlayerImplementation.cpp:136-560, AudioPlayer.cpp:480-860).
THEOREM NoCircleOfLocks == Spec => []NoCircle
<1>1. TypeInv /\ Control /\ LocksHeld => NoCircle
  <2> SUFFICES ASSUME TypeInv, Control, LocksHeld, NEW c \in Callers, cpc[c] # "idle", bpc # "ready",
                      \A p \in Player : ~inHand[p],
                      \A d \in Callers : cpc[d] # "idle" => Waits(d)
               PROVE  FALSE
    BY DEF NoCircle
  <2>0. Nobody \notin Callers /\ Bus \notin Callers
    BY DEF Nobody, Bus
  <2>1. \A d \in Callers : cpc[d] \notin {"check", "ready", "start", "mix"}
    BY DEF Waits
  <2>2. \A p \in Player : apiMutex[p] = Nobody
    BY <2>1 DEF LocksHeld, UnderApi, TypeInv, TypeOK, Threads
  <2>3. \A d \in Callers : cpc[d] # "idle" => pl[d] \in Player
    BY PlayerBounds
  <2>4. \A d \in Callers : cpc[d] # "idle" => Stopped(d) \in Player
    BY <2>3, LeastIsOne DEF Stopped, TypeInv, TypeOK
  <2>5. \A d \in Callers : cpc[d] # "idle" => cpc[d] \in {"fetched", "granted"}
    BY <2>2, <2>3, <2>4 DEF Waits
  \* nobody has _adminLock: its holder would ask, or delete
  <2>6. adminLock = Nobody
    <3> SUFFICES ASSUME adminLock # Nobody PROVE FALSE
      OBVIOUS
    <3>1. adminLock \in Callers /\ UnderAdmin(adminLock)
      BY DEF LocksHeld, TypeInv, TypeOK
    <3>2. cpc[adminLock] \in {"check", "stop", "ready", "delete"}
      BY <3>1 DEF UnderAdmin, Asking, Control
    <3> QED
      BY <2>5, <3>1, <3>2
  \* nor a m_playMutex: its holder would stop the player, or start it
  <2>7. \A p \in Player : playMutex[p] = Nobody
    <3> SUFFICES ASSUME NEW p \in Player, playMutex[p] # Nobody PROVE FALSE
      OBVIOUS
    <3>1. playMutex[p] \in Callers /\ UnderPlay(playMutex[p], p)
      BY DEF LocksHeld, TypeInv, TypeOK
    <3> QED
      BY <2>5, <3>1 DEF UnderPlay
  <2> QED
    BY <2>3, <2>5, <2>6, <2>7 DEF Waits
<1> QED
  BY <1>1, PlayersInvariant, OwnerInvariant, LocksInvariant, PTL
===============================================================================
