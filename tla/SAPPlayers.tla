------------------------------ MODULE SAPPlayers ------------------------------
(***************************************************************************)
(* The players of SystemAudioPlayer: SystemAudioPlayerImplementation with  *)
(* its objectMap, and the state of each AudioPlayer.                       *)
(*                                                                         *)
(*   - Callers are threads of the framework, each in a call of the API;    *)
(*     _adminLock guards objectMap, but a call uses the player it fetched  *)
(*     after releasing it;                                                 *)
(*   - the bus thread runs handleMessage for all players, with no lock but *)
(*     the m_apiMutex that Stop takes;                                     *)
(*   - the pusher of a player fed with buffers announces the first one.    *)
(* The primary volume is one, of the hardware; each player remembers what  *)
(* it set it to.  The player's own volume goes the same way and is left    *)
(* out, as are the urls and formats.                                       *)
(*                                                                         *)
(* A call that uses a player deleted since, or feeds a player that has no  *)
(* queue, or configures a source that is gone, ends the behaviour: crashed.*)
(***************************************************************************)
EXTENDS Integers, Sequences, FiniteSets, FiniteSetsExt

CONSTANTS Callers,       \* threads that call the API
          MaxPlayers,    \* bound: players opened; ids are 1..MaxPlayers
          Mode,          \* the play mode each is opened with
          Data,          \* those of source DATA; the others play a file or a url
          Calls,         \* the calls made on players
          MaxCalls       \* bound: their number

Player == 1 .. MaxPlayers
CallKinds == {"play", "playBuffer", "pause", "resume", "stop", "close", "smartVolume",
              "mixer", "config", "isPlaying"}
\* Of the primary volume: MAX_PRIM_VOL_LEVEL, the default of a player, and not known
Full == 100
Docked == 25
Unset == -1
Levels == {Docked, Full}
Nobody == "nobody"
Bus    == "bus"

ASSUME PlayersAssumption ==
    /\ MaxPlayers \in Nat /\ MaxCalls \in Nat
    /\ Mode \in [Player -> {"APP", "SYSTEM"}] /\ Data \subseteq Player
    /\ Calls \subseteq CallKinds
    /\ Nobody \notin Callers /\ Bus \notin Callers

VARIABLES
    opened,      \* players opened
    mapped,      \* keys of objectMap
    freed,       \* players deleted
    state, paused, fresh,   \* state, m_isPaused, appsrc_firstpacket
    fed, inHand, \* buffers wait in its queue; the pusher holds one
    gst, target, \* state of the pipeline ("none": NULL), and state asked of it
    bus,         \* messages it has posted
    volume,      \* primary volume of the hardware
    primary, prev,  \* m_primVolume, m_prevPrimVolume
    setter, byBus,  \* ghosts: the bus thread set it last, for a player not stopped since
    told,        \* ghost: what the last event of each player made its client believe
    adminLock, playMutex, apiMutex,
    cpc, op, pl, \* where each caller is, in which call, on which player
    rest,        \* players SameModeNotPlaying has yet to see
    calls,       \* calls made, up to MaxCalls
    bpc, bmsg, bpl, bstale, \* the bus thread: its message, from a pipeline destroyed since
    bypassed,    \* ghost: a player was started around SameModeNotPlaying
    crashed      \* a deleted player, or a queue that is not there, was used

mapVars    == <<opened, mapped, freed>>
playerVars == <<state, paused, fresh>>
feedVars   == <<fed, inHand>>
pipeVars   == <<gst, target, bus>>
volumeVars == <<volume, primary, prev, setter, byBus>>
lockVars   == <<adminLock, playMutex, apiMutex>>
callVars   == <<cpc, op, pl, rest, calls>>
busVars    == <<bpc, bmsg, bpl, bstale>>
ghostVars  == <<bypassed, crashed>>
vars == <<mapVars, playerVars, feedVars, pipeVars, volumeVars, told, lockVars, callVars, busVars, ghostVars>>

States   == {"READY", "PAUSED", "PLAYING", "PLAYBACKERROR"}
Messages == {"PREROLLED", "PLAYING", "PAUSED", "EOS", "ERROR"}
Beliefs  == {"idle", "plays", "paused"}
Threads  == Callers \cup {Bus}

\* Whatever the callers, the bus thread and the pushers do: objectMap holds no deleted
\* player, and each player's state, pipeline, messages and levels keep their ranges
\* (AudioPlayer.h, SystemAudioPlayerImplementation.h).
TypeOK ==
    /\ opened \in 0 .. MaxPlayers /\ mapped \subseteq 1 .. opened
    /\ freed \subseteq (1 .. opened) \ mapped
    /\ state \in [Player -> States]
    /\ paused \in [Player -> BOOLEAN] /\ fresh \in [Player -> BOOLEAN]
    /\ fed \in [Player -> BOOLEAN] /\ inHand \in [Player -> BOOLEAN]
    /\ gst \in [Player -> {"none", "null", "ready", "paused", "playing", "drained", "broken"}]
    /\ target \in [Player -> {"null", "paused", "playing"}]
    /\ bus \in [Player -> Seq(Messages)] /\ told \in [Player -> Beliefs]
    /\ volume \in Levels /\ primary \in [Player -> Levels]
    /\ prev \in [Player -> Levels \cup {Unset}] /\ setter \in 0 .. MaxPlayers
    /\ byBus \in BOOLEAN
    /\ adminLock \in Callers \cup {Nobody}
    /\ playMutex \in [Player -> Callers \cup {Nobody}]
    /\ apiMutex \in [Player -> Threads \cup {Nobody}]
    /\ cpc \in [Callers -> {"idle", "fetched", "check", "stop", "ready", "granted", "start",
                            "delete", "act", "mix"}]
    /\ op \in [Callers -> CallKinds \cup {"none"}] /\ pl \in [Callers -> 0 .. MaxPlayers]
    /\ rest \in [Callers -> SUBSET Player] /\ calls \in 0 .. MaxCalls
    /\ bpc \in {"idle", "handle", "tell", "stop", "ready"}
    /\ bmsg \in Messages \cup {"none"} /\ bpl \in 0 .. MaxPlayers
    /\ bstale \in BOOLEAN /\ bypassed \in BOOLEAN /\ crashed \in BOOLEAN

Init ==
    /\ opened = 0 /\ mapped = {} /\ freed = {}
    /\ state = [p \in Player |-> "READY"] /\ paused = [p \in Player |-> FALSE]
    /\ fresh = [p \in Player |-> TRUE]
    /\ fed = [p \in Player |-> FALSE] /\ inHand = [p \in Player |-> FALSE]
    /\ gst = [p \in Player |-> "none"] /\ target = [p \in Player |-> "null"]
    /\ volume = Full /\ primary = [p \in Player |-> Docked]
    /\ prev = [p \in Player |-> Unset] /\ setter = 0 /\ byBus = TRUE
    /\ bus = [p \in Player |-> <<>>] /\ told = [p \in Player |-> "idle"]
    /\ adminLock = Nobody /\ playMutex = [p \in Player |-> Nobody]
    /\ apiMutex = [p \in Player |-> Nobody]
    /\ cpc = [c \in Callers |-> "idle"] /\ op = [c \in Callers |-> "none"]
    /\ pl = [c \in Callers |-> 0] /\ rest = [c \in Callers |-> {}] /\ calls = 0
    /\ bpc = "idle" /\ bmsg = "none" /\ bpl = 0 /\ bstale = FALSE
    /\ bypassed = FALSE /\ crashed = FALSE

-------------------------------------------------------------------------------
(* A player.                                                               *)

isPlaying(p) == /\ gst[p] # "none" /\ state[p] = "PLAYING"
                /\ p \in Data => ~fresh[p]

Set(f, p, v) == f' = [f EXCEPT ![p] = v]
Tell(p, e) == Set(told, p, CASE e \in {"STARTED", "RESUMED"} -> "plays"
                             [] e = "PAUSED" -> "paused"
                             [] OTHER -> "idle")   \* FINISHED, ERROR

\* setPrimaryVolume, of v and then of w: the hardware is told of what the player has not
\* set already.
setPrimaryVolume(p, v, w, onBus) ==
    IF prev[p] = v /\ v = w THEN UNCHANGED <<volume, prev, setter, byBus>>
    ELSE volume' = w /\ Set(prev, p, w) /\ setter' = (IF onBus THEN p ELSE 0) /\ byBus' = onBus
\* A call has silenced p: a message that would restore the volume is lost.
Cut(p) == /\ byBus' = (byBus /\ setter # p)
          /\ setter' = IF setter = p THEN 0 ELSE setter
          /\ UNCHANGED <<volume, primary, prev>>

\* gst_element_set_state, towards PAUSED or PLAYING
SetState(p, to) == /\ Set(target, p, to)
                   /\ Set(gst, p, IF gst[p] = "null" THEN "ready" ELSE gst[p])
                   /\ UNCHANGED bus

\* No pipeline, or its elements cannot be linked; or no audio caps or filter, and then
\* one that is not linked and not watched; or one that works.
createPipeline(p) == \E g \in {"none", "broken", "null"} : Set(gst, p, g)

\* The pipeline is in the NULL state, which flushes its bus; it was destroyed
\* and created again when `anew'.
Silence(p, anew) ==
    /\ IF anew THEN createPipeline(p) ELSE Set(gst, p, IF gst[p] = "broken" THEN "broken" ELSE "null")
    /\ Set(target, p, "null") /\ Set(bus, p, <<>>)
    /\ bstale' = (bstale \/ (anew /\ bpl = p))

\* Stop, by thread t: m_apiMutex, clear() and resetPipeline...
StopResets(t, p) ==
    /\ apiMutex[p] = Nobody /\ Set(apiMutex, p, t)
    /\ Set(fresh, p, TRUE) /\ Set(fed, p, FALSE) /\ Set(paused, p, FALSE)
    /\ Silence(p, state[p] = "PLAYBACKERROR" \/ gst[p] = "none")
    /\ UNCHANGED <<state, inHand, adminLock, playMutex>>

\* ... then state = READY, and the mutex is released.
StopReady(t, p) ==
    /\ apiMutex[p] = t /\ Set(apiMutex, p, Nobody)
    /\ Set(state, p, "READY")
    /\ UNCHANGED <<paused, fresh, feedVars, pipeVars, bstale, adminLock, playMutex>>

-------------------------------------------------------------------------------
(* The calls.                                                              *)

Goto(c, to) == Set(cpc, c, to)
At(c, step) == cpc[c] = step /\ ~crashed
Return(c) == Goto(c, "idle") /\ Set(op, c, "none") /\ Set(pl, c, 0) /\ Set(rest, c, {})

\* A step of caller c on the player it fetched, which is still there.
Using(c, step) == At(c, step) /\ pl[c] \notin freed

Open(c) ==
    /\ At(c, "idle") /\ adminLock = Nobody /\ opened < MaxPlayers
    /\ opened' = opened + 1 /\ mapped' = mapped \cup {opened + 1}
    /\ createPipeline(opened + 1)
    /\ UNCHANGED <<freed, volumeVars, playerVars, feedVars, target, bus, told, lockVars, callVars, busVars,
                   ghostVars>>

\* CloseMapping takes the player out of objectMap before it deletes it.
\* Mutant: the key stays, of a deleted player.
Erase_Keeps(p) == UNCHANGED mapped
Erase(p) == mapped' = mapped \ {p}

\* getObjectFromMap, under _adminLock, which only Close keeps.
getObjectFromMap(c, k, p, to) ==
    /\ calls < MaxCalls /\ calls' = calls + 1
    /\ At(c, "idle") /\ adminLock = Nobody /\ p \in mapped /\ k \in Calls
    /\ Set(op, c, k) /\ Set(pl, c, p) /\ Goto(c, to)
    /\ UNCHANGED <<rest, opened, freed, playerVars, feedVars, pipeVars, volumeVars, told, playMutex,
                   apiMutex, busVars, ghostVars>>
Fetch(c, k, p, to) == getObjectFromMap(c, k, p, to) /\ UNCHANGED <<mapped, adminLock>>

Play(c, p) == Fetch(c, "play", p, "fetched")
PlayBuffer(c, p) == Fetch(c, "playBuffer", p, "act")
Stop(c, p) == Fetch(c, "stop", p, "stop")
Close(c, p) == getObjectFromMap(c, "close", p, "stop") /\ Erase(p) /\ adminLock' = c
Config(c, p) == Fetch(c, "config", p, "act")
SetMixerLevels(c, p) == Fetch(c, "mixer", p, "act")
SetSmartVolControl(c, p) == Fetch(c, "smartVolume", p, "act")
Pause(c, p) == Fetch(c, "pause", p, "act")
Resume(c, p) == Fetch(c, "resume", p, "act")
IsPlaying(c, p) == Fetch(c, "isPlaying", p, "act")

\* The url is not one of the player's source (an outcome, never the only way on).
Refuse(c) ==
    /\ Using(c, "fetched") /\ Return(c)
    /\ UNCHANGED <<calls, mapVars, playerVars, feedVars, pipeVars, volumeVars, told, lockVars, busVars,
                   ghostVars>>

\* Play, after the tests of its url: SameModeNotPlaying, from the first key on.
Ask(c) ==
    /\ Using(c, "fetched") /\ adminLock = Nobody /\ adminLock' = c
    /\ Goto(c, "check")
    /\ Set(rest, c, {q \in mapped \ {pl[c]} : Mode[q] = Mode[pl[c]]})
    /\ UNCHANGED <<op, pl, calls, mapVars, playerVars, feedVars, pipeVars, volumeVars, told, playMutex,
                   apiMutex, busVars, ghostVars>>

\* Mutant: the other players of the mode are not stopped.
Check_KeepsOthers(c) ==
    /\ Using(c, "check")
    /\ IF \E q \in rest[c] : isPlaying(q) THEN Return(c)
       ELSE Goto(c, "granted") /\ Set(rest, c, {}) /\ UNCHANGED <<op, pl>>
    /\ adminLock' = Nobody
    /\ UNCHANGED <<calls, mapVars, playerVars, feedVars, pipeVars, volumeVars, told, playMutex, apiMutex,
                   busVars, ghostVars>>

\* The next of them plays: refused.  It does not: it is stopped.  No more: granted.
Check(c) ==
    /\ Using(c, "check")
    /\ \/ /\ rest[c] # {} /\ isPlaying(Min(rest[c]))
          /\ adminLock' = Nobody /\ Return(c)
       \/ /\ rest[c] # {} /\ ~isPlaying(Min(rest[c]))
          /\ Goto(c, "stop") /\ UNCHANGED <<op, pl, rest, adminLock>>
       \/ /\ rest[c] = {}
          /\ adminLock' = Nobody /\ Goto(c, "granted") /\ UNCHANGED <<op, pl, rest>>
    /\ UNCHANGED <<calls, mapVars, playerVars, feedVars, pipeVars, volumeVars, told, playMutex, apiMutex,
                   busVars, ghostVars>>

\* AudioPlayer::Play: m_playMutex, then Stop
EnterPlay(c) ==
    /\ Using(c, "granted")
    /\ playMutex[pl[c]] = Nobody /\ Set(playMutex, pl[c], c)
    /\ Goto(c, IF gst[pl[c]] = "none" THEN "start" ELSE "stop")
    /\ UNCHANGED <<op, pl, rest, calls, mapVars, playerVars, feedVars, pipeVars, volumeVars, told, adminLock,
                   apiMutex, busVars, ghostVars>>

\* The player a caller stops: one of its mode, or its own
Stopped(c) == IF rest[c] # {} THEN Min(rest[c]) ELSE pl[c]

CallerStops(c) ==
    /\ Using(c, "stop")
    /\ StopResets(c, Stopped(c))
    /\ Goto(c, "ready")
    /\ UNCHANGED <<op, pl, rest, calls, mapVars, volumeVars, told, bpc, bmsg, bpl, ghostVars>>

CallerReady(c) ==
    /\ Using(c, "ready")
    /\ StopReady(c, Stopped(c))
    /\ IF rest[c] # {}
       THEN Goto(c, "check") /\ Set(rest, c, rest[c] \ {Stopped(c)}) /\ UNCHANGED <<op, pl>>
       ELSE CASE op[c] = "play"  -> Goto(c, "start")  /\ UNCHANGED <<op, pl, rest>>
              [] op[c] = "close" -> Goto(c, "delete") /\ UNCHANGED <<op, pl, rest>>
              [] OTHER           -> Return(c)
    /\ Cut(Stopped(c))
    /\ UNCHANGED <<calls, mapVars, told, bpc, bmsg, bpl, ghostVars>>

\* Another Play of the mode is between its question and its start.
Overlaps(c) == \E d \in Callers \ {c} :
                  /\ op[d] = "play" /\ cpc[d] # "fetched"
                  /\ pl[d] # pl[c] /\ Mode[pl[d]] = Mode[pl[c]]

Start(c) ==
    /\ Using(c, "start")
    /\ IF gst[pl[c]] # "none" THEN SetState(pl[c], "playing") ELSE UNCHANGED pipeVars
    /\ bypassed' = (bypassed \/ Overlaps(c))
    /\ Set(playMutex, pl[c], Nobody)
    /\ Return(c)
    /\ UNCHANGED <<calls, mapVars, playerVars, feedVars, volumeVars, told, adminLock, apiMutex, busVars,
                   crashed>>

\* Mutant: Close returns with _adminLock held.
Delete_KeepsLock(c) ==
    /\ Using(c, "delete") /\ ~inHand[pl[c]]
    /\ freed' = freed \cup {pl[c]}
    /\ Set(gst, pl[c], "none") /\ Set(target, pl[c], "null") /\ Set(bus, pl[c], <<>>)
    /\ Set(fed, pl[c], FALSE)
    /\ Return(c)
    /\ Cut(pl[c])
    /\ UNCHANGED <<inHand, opened, mapped, calls, playerVars, told, lockVars, busVars, ghostVars>>

\* ~AudioPlayer, which joins the pusher; _adminLock is released.
Delete(c) ==
    /\ Using(c, "delete") /\ ~inHand[pl[c]]
    /\ freed' = freed \cup {pl[c]}
    /\ Set(gst, pl[c], "none") /\ Set(target, pl[c], "null") /\ Set(bus, pl[c], <<>>)
    /\ Set(fed, pl[c], FALSE)
    /\ adminLock' = Nobody
    /\ Return(c)
    /\ Cut(pl[c])
    /\ UNCHANGED <<inHand, opened, mapped, calls, playerVars, told, playMutex, apiMutex, busVars, ghostVars>>

\* The calls that are one step, under m_apiMutex but the last
Acting(c, k) == Using(c, "act") /\ op[c] = k /\ Return(c) /\ UNCHANGED calls
Guarded(c, k) == Acting(c, k) /\ apiMutex[pl[c]] = Nobody

PlayerPlayBuffer(c) ==
    /\ Guarded(c, "playBuffer")
    /\ crashed' = (gst[pl[c]] # "none" /\ pl[c] \notin Data)
    /\ IF gst[pl[c]] = "none" THEN UNCHANGED <<pipeVars, fed, bypassed>>
       ELSE /\ IF state[pl[c]] # "PLAYING" THEN SetState(pl[c], "playing") ELSE UNCHANGED pipeVars
            /\ bypassed' = (bypassed \/ target[pl[c]] # "playing")
            /\ Set(fed, pl[c], pl[c] \in Data)
    /\ UNCHANGED <<mapVars, playerVars, inHand, volumeVars, told, lockVars, busVars>>

PlayerPause(c) ==
    /\ Guarded(c, "pause")
    /\ LET p == pl[c] IN
       IF gst[p] # "none" /\ p \notin Data /\ ~paused[p] /\ state[p] = "PLAYING"
       THEN /\ Set(paused, p, TRUE) /\ SetState(p, "paused")
            /\ bypassed' = (bypassed \/ target[p] = "null")
       ELSE UNCHANGED <<paused, pipeVars, bypassed>>
    /\ UNCHANGED <<mapVars, state, fresh, feedVars, volumeVars, told, lockVars, busVars, crashed>>

PlayerResume(c) ==
    /\ Guarded(c, "resume")
    /\ LET p == pl[c] IN
       IF gst[p] # "none" /\ p \notin Data /\ paused[p] /\ state[p] = "PAUSED"
       THEN SetState(p, "playing")
       ELSE UNCHANGED pipeVars
    /\ UNCHANGED <<mapVars, playerVars, feedVars, volumeVars, told, lockVars, busVars, ghostVars>>

\* SetSmartVolControl, enabling: a player that does not play gets a new pipeline.
PlayerSmartVolControl(c) ==
    /\ Acting(c, "smartVolume")
    /\ IF isPlaying(pl[c]) THEN UNCHANGED <<pipeVars, bstale>> ELSE Silence(pl[c], TRUE)
    /\ UNCHANGED <<mapVars, playerVars, feedVars, volumeVars, told, lockVars, bpc, bmsg, bpl, ghostVars>>

\* What a player plays is made louder or quieter at once.
PlayerMixerLevels(c) ==
    /\ Using(c, "act") /\ op[c] = "mixer"
    /\ \E l \in Levels : Set(primary, pl[c], l)
    /\ IF isPlaying(pl[c]) THEN Goto(c, "mix") /\ UNCHANGED <<op, pl, rest>> ELSE Return(c)
    /\ UNCHANGED <<volume, prev, setter, byBus, calls, mapVars, playerVars, feedVars, pipeVars, told,
                   lockVars, busVars, ghostVars>>
PlayerMixes(c) ==
    /\ Using(c, "mix") /\ Return(c)
    /\ setPrimaryVolume(pl[c], primary[pl[c]], primary[pl[c]], FALSE)
    /\ UNCHANGED <<primary, calls, mapVars, playerVars, feedVars, pipeVars, told, lockVars, busVars,
                   ghostVars>>

\* Without a pipeline, the source is one that was destroyed, or none.
PlayerPCMCaps(c) ==
    /\ Acting(c, "config")
    /\ \/ UNCHANGED crashed
       \/ gst[pl[c]] = "none" /\ crashed' = TRUE
    /\ UNCHANGED <<mapVars, playerVars, feedVars, pipeVars, volumeVars, told, lockVars, busVars, bypassed>>

PlayerIsPlaying(c) ==
    /\ Acting(c, "isPlaying")
    /\ UNCHANGED <<mapVars, playerVars, feedVars, pipeVars, volumeVars, told, lockVars, busVars, ghostVars>>

\* The player was deleted since it was fetched.
UsesFreed(c) ==
    /\ ~crashed /\ cpc[c] # "idle" /\ pl[c] \in freed
    /\ crashed' = TRUE
    /\ UNCHANGED <<mapVars, playerVars, feedVars, pipeVars, volumeVars, told, lockVars, callVars, busVars,
                   bypassed>>

-------------------------------------------------------------------------------
(* The pushers and the streams.                                            *)

Joining(p) == \E c \in Callers : cpc[c] = "delete" /\ pl[c] = p

PusherTakes(p) ==
    /\ ~crashed /\ fed[p] /\ ~inHand[p] /\ ~Joining(p)
    /\ Set(inHand, p, TRUE)
    /\ \E more \in BOOLEAN : Set(fed, p, more)
    /\ UNCHANGED <<mapVars, playerVars, pipeVars, volumeVars, told, lockVars, callVars, busVars, ghostVars>>

\* The first packet since a Stop or an end: PLAYBACK_STARTED
PusherPushes(p) ==
    /\ ~crashed /\ inHand[p]
    /\ Set(inHand, p, FALSE) /\ Set(fresh, p, FALSE)
    /\ IF fresh[p]
       THEN Tell(p, "STARTED") /\ setPrimaryVolume(p, primary[p], primary[p], FALSE) /\ UNCHANGED primary
       ELSE UNCHANGED <<told, volumeVars>>
    /\ UNCHANGED <<mapVars, state, paused, fed, pipeVars, lockVars, callVars, busVars, ghostVars>>

Post(p, m) == Set(bus, p, Append(bus[p], m))

StreamAdvances(p) ==
    /\ ~crashed
    /\ \/ /\ gst[p] = "ready" /\ target[p] # "null"
          /\ Set(gst, p, "paused") /\ Post(p, "PREROLLED")
       \/ /\ gst[p] = "paused" /\ target[p] = "playing"
          /\ Set(gst, p, "playing") /\ Post(p, "PLAYING")
       \/ /\ gst[p] = "playing" /\ target[p] = "paused"
          /\ Set(gst, p, "paused") /\ Post(p, "PAUSED")
    /\ UNCHANGED <<target, mapVars, playerVars, feedVars, volumeVars, told, lockVars, callVars, busVars,
                   ghostVars>>

\* An appsrc is never told of the end of its stream.
StreamEnds(p) ==
    /\ ~crashed
    /\ \/ gst[p] = "playing" /\ p \notin Data /\ Post(p, "EOS")
       \/ gst[p] \in {"ready", "paused", "playing"} /\ Post(p, "ERROR")
    /\ Set(gst, p, "drained")
    /\ UNCHANGED <<target, mapVars, playerVars, feedVars, volumeVars, told, lockVars, callVars, busVars,
                   ghostVars>>

-------------------------------------------------------------------------------
(* The bus thread.                                                         *)

Handling(step) == bpc = step /\ ~crashed /\ bpl \notin freed
BusGoto(to) == bpc' = to /\ UNCHANGED <<bmsg, bpl, bstale>>
Handled == bpc' = "idle" /\ bmsg' = "none" /\ bpl' = 0 /\ bstale' = FALSE

\* How handleMessage ends.
\* Mutant: not when the player was stopped.
EndOfMessage_NotReady(p, s) ==
    IF s \in {"PAUSED", "PLAYBACKERROR"}
    THEN setPrimaryVolume(p, Full, Full, TRUE) /\ UNCHANGED primary ELSE UNCHANGED volumeVars
EndOfMessage(p, s) ==
    IF s \in {"PAUSED", "PLAYBACKERROR", "READY"}
    THEN setPrimaryVolume(p, Full, Full, TRUE) /\ UNCHANGED primary ELSE UNCHANGED volumeVars

BusPop(p) ==
    /\ bpc = "idle" /\ ~crashed /\ bus[p] # <<>>
    /\ bpc' = "handle" /\ bmsg' = Head(bus[p]) /\ bpl' = p /\ bstale' = FALSE
    /\ Set(bus, p, Tail(bus[p]))
    /\ UNCHANGED <<mapVars, playerVars, feedVars, gst, target, volumeVars, told, lockVars, callVars, ghostVars>>

\* A NULL pipeline; a state change of another pipeline; an end after an error
HandleDropped ==
    /\ Handling("handle")
    /\ \/ gst[bpl] = "none" /\ UNCHANGED volumeVars
       \/ /\ gst[bpl] # "none"
          /\ \/ bstale /\ bmsg \notin {"EOS", "ERROR"}
             \/ bmsg = "EOS" /\ state[bpl] = "PLAYBACKERROR"
          /\ EndOfMessage(bpl, state[bpl])
    /\ Handled
    /\ UNCHANGED <<mapVars, playerVars, feedVars, pipeVars, told, lockVars, callVars, ghostVars>>

\* state follows the pipeline; the event is told in a later step.
HandleState ==
    /\ Handling("handle") /\ gst[bpl] # "none" /\ ~bstale
    /\ \/ bmsg = "PREROLLED" /\ Set(state, bpl, "PAUSED") /\ EndOfMessage(bpl, "PAUSED") /\ Handled
       \/ bmsg = "PAUSED"    /\ Set(state, bpl, "PAUSED") /\ UNCHANGED volumeVars /\ BusGoto("tell")
       \/ bmsg = "PLAYING"   /\ Set(state, bpl, "PLAYING") /\ UNCHANGED volumeVars /\ BusGoto("tell")
    /\ UNCHANGED <<mapVars, paused, fresh, feedVars, pipeVars, told, lockVars, callVars, ghostVars>>

\* The volume of a player that starts or resumes, and then how handleMessage ends
Dock(p) == /\ setPrimaryVolume(p, primary[p], IF state[p] = "PLAYING" THEN primary[p] ELSE Full, target[p] # "null")
           /\ UNCHANGED primary

\* Mutant: only a resumed player tells that it plays.
HandleTell_NoStart ==
    /\ Handling("tell")
    /\ \/ /\ bmsg = "PLAYING" /\ bpl \notin Data /\ paused[bpl]
          /\ Tell(bpl, "RESUMED") /\ Set(paused, bpl, FALSE) /\ Dock(bpl)
       \/ /\ bmsg = "PAUSED" /\ paused[bpl]
          /\ Tell(bpl, "PAUSED") /\ UNCHANGED paused /\ EndOfMessage(bpl, state[bpl])
       \/ ~paused[bpl] /\ UNCHANGED <<told, paused>> /\ EndOfMessage(bpl, state[bpl])
    /\ Handled
    /\ UNCHANGED <<mapVars, state, fresh, feedVars, pipeVars, lockVars, callVars, ghostVars>>

HandleTell ==
    /\ Handling("tell")
    /\ \/ /\ bmsg = "PLAYING" /\ bpl \notin Data
          /\ Tell(bpl, IF paused[bpl] THEN "RESUMED" ELSE "STARTED")
          /\ Set(paused, bpl, FALSE)
          /\ Dock(bpl)
       \/ /\ bmsg = "PAUSED" /\ paused[bpl]
          /\ Tell(bpl, "PAUSED") /\ UNCHANGED paused
          /\ EndOfMessage(bpl, state[bpl])
       \/ /\ IF bmsg = "PLAYING" THEN bpl \in Data ELSE ~paused[bpl]
          /\ UNCHANGED <<told, paused>>
          /\ EndOfMessage(bpl, state[bpl])
    /\ Handled
    /\ UNCHANGED <<mapVars, state, fresh, feedVars, pipeVars, lockVars, callVars, ghostVars>>

\* EOS: PLAYBACK_FINISHED, and Stop
HandleEos ==
    /\ Handling("handle") /\ gst[bpl] # "none" /\ bmsg = "EOS" /\ state[bpl] # "PLAYBACKERROR"
    /\ Set(fresh, bpl, TRUE) /\ Tell(bpl, "FINISHED")
    /\ BusGoto("stop")
    /\ UNCHANGED <<mapVars, state, paused, feedVars, pipeVars, volumeVars, lockVars, callVars, ghostVars>>

\* ERROR: NETWORK_ERROR or PLAYBACK_ERROR, and Stop
HandleError ==
    /\ Handling("handle") /\ gst[bpl] # "none" /\ bmsg = "ERROR"
    /\ Set(state, bpl, "PLAYBACKERROR") /\ Tell(bpl, "ERROR")
    /\ BusGoto("stop")
    /\ UNCHANGED <<mapVars, paused, fresh, feedVars, pipeVars, volumeVars, lockVars, callVars, ghostVars>>

BusStops ==
    /\ Handling("stop") /\ StopResets(Bus, bpl)
    /\ bpc' = "ready" /\ UNCHANGED <<bmsg, bpl>>
    /\ UNCHANGED <<mapVars, volumeVars, told, callVars, ghostVars>>

BusReady ==
    /\ Handling("ready")
    /\ apiMutex[bpl] = Bus /\ Set(apiMutex, bpl, Nobody) /\ Set(state, bpl, "READY")
    /\ EndOfMessage(bpl, "READY")
    /\ Handled
    /\ UNCHANGED <<mapVars, paused, fresh, feedVars, pipeVars, told, adminLock, playMutex, callVars,
                   ghostVars>>

BusUsesFreed ==
    /\ ~crashed /\ bpc # "idle" /\ bpl \in freed
    /\ crashed' = TRUE
    /\ UNCHANGED <<mapVars, playerVars, feedVars, pipeVars, volumeVars, told, lockVars, callVars, busVars,
                   bypassed>>

-------------------------------------------------------------------------------
Call(c) == \/ Open(c)
           \/ \E p \in Player :
                 \/ Play(c, p) \/ PlayBuffer(c, p) \/ Stop(c, p) \/ Close(c, p) \/ Config(c, p)
                 \/ SetMixerLevels(c, p) \/ SetSmartVolControl(c, p)
                 \/ Pause(c, p) \/ Resume(c, p) \/ IsPlaying(c, p)
CallStep(c) == \/ Ask(c) \/ Check(c) \/ EnterPlay(c) \/ CallerStops(c) \/ CallerReady(c)
               \/ Start(c) \/ Delete(c) \/ PlayerPlayBuffer(c) \/ PlayerPause(c) \/ PlayerResume(c)
               \/ PlayerSmartVolControl(c) \/ PlayerMixerLevels(c) \/ PlayerMixes(c)
               \/ PlayerPCMCaps(c) \/ PlayerIsPlaying(c) \/ UsesFreed(c)
Pushing(p) == PusherTakes(p) \/ PusherPushes(p)
Stream(p) == StreamAdvances(p) \/ StreamEnds(p)
BusStep == \/ \E p \in Player : BusPop(p)
           \/ HandleDropped \/ HandleState \/ HandleTell \/ HandleEos \/ HandleError
           \/ BusStops \/ BusReady \/ BusUsesFreed

Next == \/ \E c \in Callers : Call(c) \/ Refuse(c) \/ CallStep(c)
        \/ \E p \in Player : Pushing(p) \/ Stream(p)
        \/ BusStep

Spec == Init /\ [][Next]_vars

-------------------------------------------------------------------------------
(* Properties.                                                             *)

\* Two players of one mode are both told to play.
BothPlay(p, q) == p # q /\ Mode[p] = Mode[q] /\ target[p] = "playing" /\ target[q] = "playing"

\* Comment at SystemAudioPlayerImplementation.cpp:531, "If the same mode ... player
\* is playing already, do not allow play back for this player".
OneOwner == \A p, q \in Player : ~BothPlay(p, q)

\* There are three ways around it only: Plays whose question and start overlap; a
\* buffer played without asking; a pause taken for real on a player that Stop had
\* silenced, its last state change being handled late, and then resumed.
SoleOwner == bypassed \/ OneOwner

\* A client is told that a playback finished, or paused, only when its last event was that
\* it started or resumed, whatever Stop flushed and whichever message came late.
EventOrder ==
    [][ \/ bmsg = "EOS" /\ bpc = "handle" /\ bpc' = "stop"
        \/ bmsg = "PAUSED" /\ bpc = "tell" /\ bpc' # "tell" /\ paused[bpl] /\ ~crashed'
       => told[bpl] = "plays"]_vars

\* "if neither APP or SYSTEM mode is playing now, then set primary volume to Max" (comment
\* at AudioPlayer.cpp:718): with nothing under way, the primary volume is at its
\* maximum.  There are three ways around it only: a call stopped the player that had set it,
\* whose pipeline then tells nothing; that player's last state change was handled after
\* the stop; or the pusher or SetMixerLevels set it, who may come after the bus thread has
\* restored it.
Quiet == /\ ~crashed /\ bpc = "idle" /\ \A c \in Callers : cpc[c] = "idle"
         /\ \A p \in Player : bus[p] = <<>> /\ gst[p] \notin {"ready", "playing"}
VolumeRestored == Quiet /\ byBus => volume = Full

\* What the call of c waits for: a mutex, or the pusher of the player that it deletes.
Waits(c) ==
    /\ pl[c] \notin freed
    /\ \/ cpc[c] = "fetched" /\ adminLock # Nobody
       \/ cpc[c] = "granted" /\ playMutex[pl[c]] # Nobody
       \/ cpc[c] = "stop" /\ apiMutex[Stopped(c)] # Nobody
       \/ cpc[c] = "act" /\ op[c] \in {"playBuffer", "pause", "resume"} /\ apiMutex[pl[c]] # Nobody
       \/ cpc[c] = "delete" /\ inHand[pl[c]]

\* The locks, and Close's join of the pusher, are never waited for in a circle:
\* while a call is under way some caller waits for nothing, or the bus thread or a
\* pusher, which then do not wait either, has what it waits for.
NoCircle ==
    (\E c \in Callers : cpc[c] # "idle") /\ ~crashed
        => \/ \E c \in Callers : cpc[c] # "idle" /\ ~Waits(c)
           \/ bpc = "ready" \/ \E p \in Player : inHand[p]

\* There is no circle, and who waits for nothing can go on (a caller also when its url is
\* not refused).
SomeoneMoves ==
    /\ NoCircle
    /\ ~crashed => /\ \A c \in Callers : cpc[c] # "idle" /\ ~Waits(c) => ENABLED CallStep(c)
                   /\ bpc = "ready" => ENABLED (BusReady \/ BusUsesFreed)
                   /\ \A p \in Player : inHand[p] => ENABLED PusherPushes(p)
===============================================================================
