---------------------------- MODULE SAPStreamProofs ----------------------------
(***************************************************************************)
(* What the clients of SAPPlayers are told of their streams, and what      *)
(* becomes of the primary volume, for any number of callers, players and   *)
(* calls: EventOrder and VolumeRestored.                                   *)
(*                                                                         *)
(* Events.  A stream posts its messages in order (InOrder), and Stop       *)
(* empties the bus: so what is left of a bus either says itself that the   *)
(* stream played before it says that it ended (Announced), or the client   *)
(* has been told so, or the bus thread has that message in hand            *)
(* (Sounding).  Between the two is the message in hand, which nothing      *)
(* flushes (Ending).                                                       *)
(*                                                                         *)
(* Volume.  The bus thread docks the volume for a player that starts.  As  *)
(* long as it is docked for that player, something is under way that will  *)
(* restore it (Restorer): a message of its pipeline, a Stop, or the        *)
(* message in hand.  To dock it, the bus thread needs a pipeline that goes *)
(* on, or a Stop that does (Hand).                                         *)
(***************************************************************************)
EXTENDS SAPPlayersProofs

USE PlayersAssumption DEF Set

-------------------------------------------------------------------------------
(* A stream and the bus it posts on.                                       *)

\* The bus of a pipeline in state g is in order: an end comes last; between two pauses, and
\* between a pause and an end, the stream played; and it plays only if nothing came since.
InOrder(q, g) ==
    /\ \A i \in 1 .. Len(q) : q[i] \in {"EOS", "ERROR"} => i = Len(q) /\ g = "drained"
    /\ \A i, k \in 1 .. Len(q) : i < k /\ q[i] = "PAUSED" /\ q[k] \in {"PAUSED", "EOS"}
          => \E j \in 1 .. Len(q) : i < j /\ j < k /\ q[j] = "PLAYING"
    /\ g = "playing" => \A i \in 1 .. Len(q) : q[i] = "PAUSED"
          => \E j \in 1 .. Len(q) : i < j /\ q[j] = "PLAYING"
    /\ q # <<>> /\ q[Len(q)] = "PLAYING" => g = "playing"

\* The bus itself says that the stream played, before it says that it paused or ended.
Announced(q, g) ==
    /\ \A i \in 1 .. Len(q) : q[i] \in {"PAUSED", "EOS"}
          => \E j \in 1 .. Len(q) : j < i /\ q[j] = "PLAYING"
    /\ g = "playing" => \E j \in 1 .. Len(q) : q[j] = "PLAYING"

\* The stream goes on from g to h, and posts m.
Goes(g, m, h) ==
    \/ g = "ready" /\ m = "PREROLLED" /\ h = "paused"
    \/ g = "paused" /\ m = "PLAYING" /\ h = "playing"
    \/ g = "playing" /\ m = "PAUSED" /\ h = "paused"
    \/ g = "playing" /\ m = "EOS" /\ h = "drained"
    \/ g \in {"ready", "paused", "playing"} /\ m = "ERROR" /\ h = "drained"

LEMMA AppendFacts ==
  ASSUME NEW q \in Seq(Messages), NEW m \in Messages
  PROVE  /\ Append(q, m) \in Seq(Messages) /\ Len(Append(q, m)) = Len(q) + 1 /\ Len(q) \in Nat
         /\ Append(q, m)[Len(q) + 1] = m /\ \A i \in 1 .. Len(q) : Append(q, m)[i] = q[i]
         /\ Append(q, m) # <<>>
  OBVIOUS

LEMMA TailFacts ==
  ASSUME NEW q \in Seq(Messages), q # <<>>
  PROVE  /\ Tail(q) \in Seq(Messages) /\ Len(Tail(q)) = Len(q) - 1 /\ Len(q) \in Nat /\ Len(q) > 0
         /\ Head(q) = q[1] /\ \A i \in 1 .. Len(q) - 1 : Tail(q)[i] = q[i + 1]
  OBVIOUS

LEMMA AppendInOrder ==
  ASSUME NEW q \in Seq(Messages), NEW m \in Messages, NEW g, NEW h, Goes(g, m, h), InOrder(q, g)
  PROVE  InOrder(Append(q, m), h)
<1> DEFINE r == Append(q, m)
           n == Len(q)
<1>1. /\ Len(r) = n + 1 /\ n \in Nat /\ r[n + 1] = m /\ r # <<>>
      /\ \A i \in 1 .. n : r[i] = q[i]
  BY AppendFacts
<1> HIDE DEF r, n
<1>2. /\ \A i \in 1 .. n : q[i] \in {"EOS", "ERROR"} => FALSE
  BY DEF InOrder, Goes, n
<1>3. \A i \in 1 .. n + 1 : r[i] \in {"EOS", "ERROR"} => i = n + 1 /\ h = "drained"
  BY <1>1, <1>2 DEF Goes
<1>4. ASSUME NEW i \in 1 .. n + 1, NEW k \in 1 .. n + 1, i < k, r[i] = "PAUSED",
             r[k] \in {"PAUSED", "EOS"}
      PROVE  \E j \in 1 .. n + 1 : i < j /\ j < k /\ r[j] = "PLAYING"
  <2>1. i \in 1 .. n /\ q[i] = "PAUSED"
    BY <1>1, <1>4
  <2>2. CASE k \in 1 .. n
    BY <1>1, <1>4, <2>1, <2>2 DEF InOrder, n
  <2>3. CASE k = n + 1
    <3>1. g = "playing"
      BY <1>1, <1>4, <2>3 DEF Goes
    <3>2. PICK j \in 1 .. n : i < j /\ q[j] = "PLAYING"
      BY <2>1, <3>1 DEF InOrder, n
    <3> QED
      BY <1>1, <2>3, <3>2
  <2> QED
    BY <1>1, <2>2, <2>3
<1>5. ASSUME h = "playing", NEW i \in 1 .. n + 1, r[i] = "PAUSED"
      PROVE  \E j \in 1 .. n + 1 : i < j /\ r[j] = "PLAYING"
  <2>1. m = "PLAYING"
    BY <1>5 DEF Goes
  <2> QED
    BY <1>1, <1>5, <2>1
<1>6. r[n + 1] = "PLAYING" => h = "playing"
  BY <1>1 DEF Goes
<1> QED
  BY <1>1, <1>3, <1>4, <1>5, <1>6 DEF InOrder, r

LEMMA AppendAnnounced ==
  ASSUME NEW q \in Seq(Messages), NEW m \in Messages, NEW g, NEW h, Goes(g, m, h), Announced(q, g)
  PROVE  Announced(Append(q, m), h)
<1> DEFINE r == Append(q, m)
           n == Len(q)
<1>1. /\ Len(r) = n + 1 /\ n \in Nat /\ r[n + 1] = m
      /\ \A i \in 1 .. n : r[i] = q[i]
  BY AppendFacts
<1> HIDE DEF r, n
<1>2. ASSUME NEW i \in 1 .. n + 1, r[i] \in {"PAUSED", "EOS"}
      PROVE  \E j \in 1 .. n + 1 : j < i /\ r[j] = "PLAYING"
  <2>1. CASE i \in 1 .. n
    <3>1. PICK j \in 1 .. n : j < i /\ q[j] = "PLAYING"
      BY <1>1, <1>2, <2>1 DEF Announced, n
    <3> QED
      BY <1>1, <3>1
  <2>2. CASE i = n + 1
    <3>1. g = "playing"
      BY <1>1, <1>2, <2>2 DEF Goes
    <3>2. PICK j \in 1 .. n : q[j] = "PLAYING"
      BY <1>2, <3>1 DEF Announced, n
    <3> QED
      BY <1>1, <2>2, <3>2
  <2> QED
    BY <1>1, <2>1, <2>2
<1>3. h = "playing" => \E j \in 1 .. n + 1 : r[j] = "PLAYING"
  BY <1>1 DEF Goes
<1> QED
  BY <1>1, <1>2, <1>3 DEF Announced, r

LEMMA TailInOrder ==
  ASSUME NEW q \in Seq(Messages), q # <<>>, NEW g, InOrder(q, g)
  PROVE  InOrder(Tail(q), g)
<1> DEFINE r == Tail(q)
           n == Len(q)
<1>1. /\ Len(r) = n - 1 /\ n \in Nat /\ n > 0 /\ \A i \in 1 .. n - 1 : r[i] = q[i + 1]
      /\ r # <<>> => Len(r) \in 1 .. n - 1
  BY TailFacts
<1> HIDE DEF r
<1>2. \A i \in 1 .. n - 1 : i + 1 \in 1 .. n
  BY <1>1
<1>3. \A i \in 1 .. n - 1 : r[i] \in {"EOS", "ERROR"} => i = n - 1 /\ g = "drained"
  BY <1>1, <1>2 DEF InOrder
<1>4. ASSUME NEW i \in 1 .. n - 1, NEW k \in 1 .. n - 1, i < k, r[i] = "PAUSED",
             r[k] \in {"PAUSED", "EOS"}
      PROVE  \E j \in 1 .. n - 1 : i < j /\ j < k /\ r[j] = "PLAYING"
  <2>1. PICK j \in 1 .. n : i + 1 < j /\ j < k + 1 /\ q[j] = "PLAYING"
    BY <1>1, <1>2, <1>4 DEF InOrder
  <2>2. j - 1 \in 1 .. n - 1 /\ r[j - 1] = q[j]
    BY <1>1, <2>1
  <2> QED
    BY <1>1, <2>1, <2>2
<1>5. ASSUME g = "playing", NEW i \in 1 .. n - 1, r[i] = "PAUSED"
      PROVE  \E j \in 1 .. n - 1 : i < j /\ r[j] = "PLAYING"
  <2>1. PICK j \in 1 .. n : i + 1 < j /\ q[j] = "PLAYING"
    BY <1>1, <1>2, <1>5 DEF InOrder
  <2>2. j - 1 \in 1 .. n - 1 /\ r[j - 1] = q[j]
    BY <1>1, <2>1
  <2> QED
    BY <1>1, <2>1, <2>2
<1>6. r # <<>> /\ r[Len(r)] = "PLAYING" => g = "playing"
  <2> SUFFICES ASSUME r # <<>>, r[Len(r)] = "PLAYING" PROVE g = "playing"
    OBVIOUS
  <2>1. q[n] = "PLAYING"
    BY <1>1
  <2> QED
    BY <2>1 DEF InOrder
<1> HIDE DEF n
<1> QED
  BY <1>1, <1>3, <1>4, <1>5, <1>6 DEF InOrder, r

\* What is popped: neither a pause nor an end, if all is announced; and behind a pause or
\* an end, all is.
LEMMA TailAnnounced ==
  ASSUME NEW q \in Seq(Messages), q # <<>>, NEW g, InOrder(q, g)
  PROVE  /\ Announced(q, g) => Head(q) \notin {"PAUSED", "EOS"}
         /\ Announced(q, g) /\ Head(q) # "PLAYING" => Announced(Tail(q), g)
         /\ Head(q) \in {"PAUSED", "EOS", "ERROR"} => Announced(Tail(q), g)
<1> DEFINE r == Tail(q)
           n == Len(q)
<1>1. /\ Len(r) = n - 1 /\ n \in Nat /\ n > 0 /\ Head(q) = q[1]
      /\ \A i \in 1 .. n - 1 : r[i] = q[i + 1]
  BY TailFacts
<1> HIDE DEF r
<1>2. \A i \in 1 .. n - 1 : i + 1 \in 1 .. n
  BY <1>1
<1>3. ASSUME NEW j \in 1 .. n, q[j] = "PLAYING", Head(q) # "PLAYING"
      PROVE  j - 1 \in 1 .. n - 1 /\ r[j - 1] = "PLAYING"
  <2>1. j # 1
    BY <1>1, <1>3
  <2> QED
    BY <1>1, <1>3, <2>1
<1>4. Announced(q, g) => Head(q) \notin {"PAUSED", "EOS"}
  BY <1>1 DEF Announced
<1>5. ASSUME Announced(q, g), Head(q) # "PLAYING" PROVE Announced(r, g)
  <2>1. ASSUME NEW i \in 1 .. n - 1, r[i] \in {"PAUSED", "EOS"}
        PROVE  \E j \in 1 .. n - 1 : j < i /\ r[j] = "PLAYING"
    <3>1. PICK j \in 1 .. n : j < i + 1 /\ q[j] = "PLAYING"
      BY <1>1, <1>2, <1>5, <2>1 DEF Announced
    <3> QED
      BY <1>1, <1>3, <1>5, <3>1
  <2>2. g = "playing" => \E j \in 1 .. n - 1 : r[j] = "PLAYING"
    BY <1>3, <1>5 DEF Announced
  <2> QED
    BY <1>1, <2>1, <2>2 DEF Announced
<1>6. ASSUME Head(q) = "PAUSED" PROVE Announced(r, g)
  <2>1. ASSUME NEW i \in 1 .. n - 1, r[i] \in {"PAUSED", "EOS"}
        PROVE  \E j \in 1 .. n - 1 : j < i /\ r[j] = "PLAYING"
    <3>1. PICK j \in 1 .. n : 1 < j /\ j < i + 1 /\ q[j] = "PLAYING"
      BY <1>1, <1>2, <1>6, <2>1 DEF InOrder
    <3> QED
      BY <1>1, <1>3, <1>6, <3>1
  <2>2. g = "playing" => \E j \in 1 .. n - 1 : r[j] = "PLAYING"
    BY <1>1, <1>3, <1>6 DEF InOrder
  <2> QED
    BY <1>1, <2>1, <2>2 DEF Announced
<1>7. ASSUME Head(q) \in {"EOS", "ERROR"} PROVE Announced(r, g)
  <2>1. n = 1 /\ g = "drained"
    BY <1>1, <1>7 DEF InOrder
  <2> QED
    BY <1>1, <2>1 DEF Announced
<1> QED
  BY <1>4, <1>5, <1>6, <1>7 DEF r

-------------------------------------------------------------------------------
(* What a step does to the pipeline of a player.                           *)

Silent == {"none", "broken", "null"}

Kept(p) == gst'[p] = gst[p] /\ target'[p] = target[p] /\ bus'[p] = bus[p]
Asked(p) == /\ p <= opened /\ gst[p] # "none" /\ target'[p] \in {"playing", "paused"}
            /\ gst'[p] = (IF gst[p] = "null" THEN "ready" ELSE gst[p]) /\ bus'[p] = bus[p]
Emptied(p) == gst'[p] \in Silent /\ target'[p] = "null" /\ bus'[p] = <<>>
Posted(p, m) == /\ Goes(gst[p], m, gst'[p]) /\ bus'[p] = Append(bus[p], m)
                /\ target'[p] = target[p] /\ (m = "EOS" => p \notin Data)

\* A pipeline that is in the NULL state, or is none, has posted nothing; only a player that
\* was opened has one that works; messages are in order.  Those that are fed with buffers
\* do not pause, and never end.
Piped ==
    /\ \A p \in Player :
          /\ gst[p] \in Silent => bus[p] = <<>>
          /\ gst[p] \in {"none", "null"} => target[p] = "null"
          /\ p > opened => gst[p] \in Silent /\ target[p] = "null"
          /\ InOrder(bus[p], gst[p])
    /\ \A p \in Data : ~paused[p] /\ \A i \in 1 .. Len(bus[p]) : bus[p][i] # "EOS"
    /\ bmsg = "EOS" => bpl \notin Data

LEMMA SilenceStory ==
  ASSUME TypeInv, NEW x, NEW anew \in BOOLEAN, Silence(x, anew), NEW p \in Player
  PROVE  IF p = x THEN Emptied(p) ELSE Kept(p)
<1>1. gst' = [gst EXCEPT ![x] = gst'[x]] /\ (x \in Player => gst'[x] \in Silent)
  BY DEF Silence, createPipeline, Silent, TypeInv, TypeOK
<1> QED
  BY <1>1 DEF Silence, Emptied, Kept, TypeInv, TypeOK

LEMMA SetStateStory ==
  ASSUME TypeInv, NEW x \in Player, x <= opened, gst[x] # "none",
         NEW to \in {"playing", "paused"}, SetState(x, to), NEW p \in Player
  PROVE  IF p = x THEN Asked(p) ELSE Kept(p)
  BY DEF SetState, Asked, Kept, TypeInv, TypeOK

\* The steps that silence a player, or open it
Silencing(p) ==
    \/ \E c \in Callers : \/ CallerStops(c) /\ Stopped(c) = p
                          \/ Delete(c) /\ pl[c] = p
                          \/ PlayerSmartVolControl(c) /\ pl[c] = p /\ ~isPlaying(p)
                          \/ Open(c) /\ p = opened + 1
    \/ BusStops /\ bpl = p

\* What happens to a pipeline in a step
Story(p) == \/ Kept(p) \/ Asked(p) \/ (Emptied(p) /\ Silencing(p))
            \/ (\E m \in Messages : Posted(p, m)) \/ BusPop(p)

LEMMA Stories ==
  ASSUME TypeInv, Piped, Next, NEW p \in Player
  PROVE  Story(p)
<1>1. CASE UNCHANGED pipeVars
  BY <1>1 DEF pipeVars, Story, Kept
<1>2. ASSUME NEW c \in Callers, Open(c) PROVE Story(p)
  <2>1. /\ \E g \in Silent : gst' = [gst EXCEPT ![opened + 1] = g] /\ UNCHANGED <<target, bus>>
    BY <1>2 DEF Open, createPipeline, Silent
  <2>2. p = opened + 1 => gst[p] \in Silent /\ target[p] = "null" /\ bus[p] = <<>>
    BY PlayerBounds DEF Piped
  <2> QED
    BY <1>2, <2>1, <2>2 DEF Story, Kept, Emptied, Silencing, TypeInv, TypeOK
<1>3. ASSUME NEW x, NEW anew \in BOOLEAN, Silence(x, anew), p = x => Silencing(p) PROVE Story(p)
  BY <1>3, SilenceStory DEF Story
<1>4. ASSUME NEW x \in 1 .. opened, gst[x] # "none", NEW to \in {"playing", "paused"},
             SetState(x, to)
      PROVE  Story(p)
  BY <1>4, SetStateStory, PlayerBounds DEF Story
<1>5. ASSUME NEW x \in Player, Stream(x) PROVE Story(p)
  <2>1. target' = target /\ (p # x => Kept(p))
    BY <1>5 DEF Stream, StreamAdvances, StreamEnds, Post, Kept, TypeInv, TypeOK
  <2>2. CASE StreamAdvances(p)
    <3>1. \E m \in Messages : Posted(p, m)
      BY <2>2 DEF StreamAdvances, Post, Posted, Goes, Messages, TypeInv, TypeOK
    <3> QED
      BY <3>1 DEF Story
  <2>3. CASE StreamEnds(p)
    <3>1. \E m \in Messages : Posted(p, m)
      BY <2>3 DEF StreamEnds, Post, Posted, Goes, Messages, TypeInv, TypeOK
    <3> QED
      BY <3>1 DEF Story
  <2> QED
    BY <1>5, <2>1, <2>2, <2>3 DEF Stream, Story
<1>6. ASSUME NEW x \in Player, BusPop(x) PROVE Story(p)
  BY <1>6 DEF BusPop, Story, Kept, TypeInv, TypeOK
<1>7. ASSUME NEW c \in Callers, Call(c) PROVE Story(p)
  BY <1>1, <1>2, <1>7
     DEF Call, Play, PlayBuffer, Stop, Close, Config, SetMixerLevels, SetSmartVolControl, Pause,
         Resume, IsPlaying, Fetch, getObjectFromMap
<1>8. ASSUME NEW c \in Callers, PlayStep(c) PROVE Story(p)
  <2>1. CASE CallerStops(c)
    <3>1. Silence(Stopped(c), state[Stopped(c)] = "PLAYBACKERROR" \/ gst[Stopped(c)] = "none")
      BY <2>1 DEF CallerStops, StopResets
    <3>2. p = Stopped(c) => Silencing(p)
      BY <2>1 DEF Silencing
    <3> QED
      BY <1>3, <3>1, <3>2
  <2>2. CASE Start(c)
    <3>1. pl[c] \in 1 .. opened
      BY <2>2 DEF Start, Using, At, TypeInv, Holding
    <3> QED
      BY <1>1, <1>4, <2>2, <3>1 DEF Start
  <2>3. CASE Delete(c)
    <3>1. p = pl[c] => Emptied(p)
      BY <2>3 DEF Delete, Emptied, Silent, TypeInv, TypeOK
    <3>2. p # pl[c] => Kept(p)
      BY <2>3 DEF Delete, Kept, TypeInv, TypeOK
    <3> QED
      BY <2>3, <3>1, <3>2 DEF Story, Silencing
  <2> QED
    BY <1>1, <1>8, <2>1, <2>2, <2>3
       DEF PlayStep, Refuse, Ask, Check, EnterPlay, CallerReady, StopReady
<1>9. ASSUME NEW c \in Callers, ActStep(c) PROVE Story(p)
  <2>1. CASE PlayerPlayBuffer(c) \/ PlayerPause(c) \/ PlayerResume(c)
    <3>1. pl[c] \in 1 .. opened
      BY <2>1 DEF PlayerPlayBuffer, PlayerPause, PlayerResume, Guarded, Acting, Using, At,
         TypeInv, Holding
    <3>2. \/ UNCHANGED pipeVars
          \/ gst[pl[c]] # "none" /\ (SetState(pl[c], "playing") \/ SetState(pl[c], "paused"))
      BY <2>1 DEF PlayerPlayBuffer, PlayerPause, PlayerResume
    <3> QED
      BY <1>1, <1>4, <3>1, <3>2
  <2>2. CASE PlayerSmartVolControl(c)
    <3>1. UNCHANGED pipeVars \/ (Silence(pl[c], TRUE) /\ ~isPlaying(pl[c]))
      BY <2>2 DEF PlayerSmartVolControl
    <3>2. p = pl[c] /\ ~isPlaying(pl[c]) => Silencing(p)
      BY <2>2 DEF Silencing
    <3> QED
      BY <1>1, <1>3, <3>1, <3>2
  <2> QED
    BY <1>1, <1>9, <2>1, <2>2
       DEF ActStep, PlayerMixerLevels, PlayerMixes, PlayerPCMCaps, PlayerIsPlaying, UsesFreed
<1>10. CASE BusStep
  <2>1. CASE BusStops
    <3>1. Silence(bpl, state[bpl] = "PLAYBACKERROR" \/ gst[bpl] = "none")
      BY <2>1 DEF BusStops, StopResets
    <3>2. p = bpl => Silencing(p)
      BY <2>1 DEF Silencing
    <3> QED
      BY <1>3, <3>1, <3>2
  <2> QED
    BY <1>1, <1>6, <1>10, <2>1
       DEF BusStep, HandleDropped, HandleState, HandleTell, HandleEos, HandleError, BusReady,
           BusUsesFreed
<1> QED
  BY <1>1, <1>5, <1>7, <1>8, <1>9, <1>10, NextCases DEF Pushing, PusherTakes, PusherPushes

\* Only Open opens.
LEMMA OpenedSteps ==
  /\ \A c \in Callers : Call(c) => opened' = opened \/ opened' = opened + 1
  /\ \A c \in Callers : PlayStep(c) \/ ActStep(c) => opened' = opened
  /\ (\E p \in Player : Pushing(p) \/ Stream(p)) \/ BusStep => opened' = opened
<1>1. ASSUME NEW c \in Callers, Call(c) PROVE opened' = opened \/ opened' = opened + 1
  BY <1>1 DEF Call, Open, Play, PlayBuffer, Stop, Close, Config, SetMixerLevels, SetSmartVolControl,
     Pause, Resume, IsPlaying, Fetch, getObjectFromMap
<1>2. ASSUME NEW c \in Callers, PlayStep(c) PROVE opened' = opened
  BY <1>2 DEF PlayStep, mapVars, Refuse, Ask, Check, EnterPlay, CallerStops, CallerReady, Start, Delete
<1>3. ASSUME NEW c \in Callers, ActStep(c) PROVE opened' = opened
  BY <1>3 DEF ActStep, mapVars, PlayerPlayBuffer, PlayerPause, PlayerResume, PlayerSmartVolControl,
     PlayerMixerLevels, PlayerMixes, PlayerPCMCaps, PlayerIsPlaying, UsesFreed
<1>4. (\E p \in Player : Pushing(p) \/ Stream(p)) \/ BusStep => opened' = opened
  BY DEF mapVars, Pushing, PusherTakes, PusherPushes, Stream, StreamAdvances, StreamEnds, BusStep,
     BusPop, HandleDropped, HandleState, HandleTell, HandleEos, HandleError, BusStops, BusReady,
     BusUsesFreed
<1> QED
  BY <1>1, <1>2, <1>3, <1>4

\* Which steps leave the message in hand alone, and what the client was told
LEMMA HandKept ==
  /\ \A c \in Callers : Call(c) => UNCHANGED <<told, busVars>>
  /\ \A c \in Callers : PlayStep(c) => CallerStops(c) \/ UNCHANGED <<told, busVars>>
  /\ \A c \in Callers : ActStep(c) => PlayerSmartVolControl(c) \/ UNCHANGED <<told, busVars>>
  /\ \A p \in Player : Pushing(p) \/ Stream(p) => PusherPushes(p) \/ UNCHANGED <<told, busVars>>
<1>1. ASSUME NEW c \in Callers, Call(c) PROVE UNCHANGED <<told, busVars>>
  BY <1>1 DEF Call, Open, Play, PlayBuffer, Stop, Close, Config, SetMixerLevels, SetSmartVolControl,
     Pause, Resume, IsPlaying, Fetch, getObjectFromMap
<1>2. ASSUME NEW c \in Callers, PlayStep(c) PROVE CallerStops(c) \/ UNCHANGED <<told, busVars>>
  BY <1>2 DEF PlayStep, busVars, Refuse, Ask, Check, EnterPlay, CallerReady, StopReady, Start, Delete
<1>3. ASSUME NEW c \in Callers, ActStep(c)
      PROVE  PlayerSmartVolControl(c) \/ UNCHANGED <<told, busVars>>
  BY <1>3 DEF ActStep, PlayerPlayBuffer, PlayerPause, PlayerResume,
     PlayerMixerLevels, PlayerMixes, PlayerPCMCaps, PlayerIsPlaying, UsesFreed
<1>4. ASSUME NEW p \in Player, Pushing(p) \/ Stream(p)
      PROVE  PusherPushes(p) \/ UNCHANGED <<told, busVars>>
  BY <1>4 DEF Pushing, PusherTakes, Stream, StreamAdvances, StreamEnds
<1> QED
  BY <1>1, <1>2, <1>3, <1>4

LEMMA PipedStep ==
  ASSUME TypeInv, TypeInv', Piped, Next
  PROVE  Piped'
<1>1. opened \in Nat /\ opened' \in Nat /\ opened <= opened'
  <2>1. opened' = opened \/ opened' = opened + 1
    BY NextCases, OpenedSteps
  <2> QED
    BY <2>1, PlayerBounds
<1>2. ASSUME NEW p \in Player
      PROVE  /\ gst'[p] \in Silent => bus'[p] = <<>>
             /\ gst'[p] \in {"none", "null"} => target'[p] = "null"
             /\ p > opened' => gst'[p] \in Silent /\ target'[p] = "null"
             /\ InOrder(bus'[p], gst'[p])
  <2>0. p \in Nat /\ bus[p] \in Seq(Messages)
    BY DEF TypeInv, TypeOK, Player
  <2>1. CASE Kept(p)
    BY <1>1, <2>0, <2>1 DEF Kept, Piped
  <2>2. CASE Asked(p)
    <3>1. InOrder(bus'[p], gst'[p])
      BY <2>2 DEF Asked, Piped, Silent, InOrder
    <3> QED
      BY <1>1, <2>0, <2>2, <3>1 DEF Asked, Piped, Silent
  <2>3. CASE Emptied(p)
    BY <2>3 DEF Emptied, InOrder, Silent
  <2>4. ASSUME NEW m \in Messages, Posted(p, m)
        PROVE  /\ InOrder(bus'[p], gst'[p]) /\ gst'[p] \notin Silent /\ gst[p] \notin Silent
    BY <2>0, <2>4, AppendInOrder DEF Posted, Piped, Goes, Silent
  <2>5. CASE BusPop(p)
    <3>1. bus[p] # <<>> /\ bus'[p] = Tail(bus[p]) /\ gst' = gst /\ target' = target
      BY <2>5 DEF BusPop, TypeInv, TypeOK
    <3>2. InOrder(bus'[p], gst'[p])
      BY <2>0, <3>1, TailInOrder DEF Piped
    <3> QED
      BY <1>1, <2>0, <3>1, <3>2 DEF Piped
  <2> QED
    BY <1>1, <2>0, <2>1, <2>2, <2>3, <2>4, <2>5, Stories DEF Story, Piped, Silent
<1>3. ASSUME NEW p \in Data
      PROVE  ~paused'[p]
  <2>0. p \in Player /\ paused[p] = FALSE
    BY DEF Piped, TypeInv, TypeOK
  <2>1. CASE \E c \in Callers : PlayerPause(c)
    <3>1. PICK c \in Callers : PlayerPause(c)
      BY <2>1
    <3>2. paused' = paused \/ (pl[c] \notin Data /\ paused' = [paused EXCEPT ![pl[c]] = TRUE])
      BY <3>1 DEF PlayerPause
    <3> QED
      BY <2>0, <3>2 DEF TypeInv, TypeOK
  <2>2. CASE paused' = paused \/ \E x : paused' = [paused EXCEPT ![x] = FALSE]
    BY <2>0, <2>2 DEF TypeInv, TypeOK
  <2>3. CASE \E c \in Callers : Call(c)
    BY <2>2, <2>3
       DEF playerVars, Call, Open, Play, PlayBuffer, Stop, Close, Config, SetMixerLevels,
           SetSmartVolControl, Pause, Resume, IsPlaying, Fetch, getObjectFromMap
  <2>4. CASE \E c \in Callers : PlayStep(c)
    BY <2>2, <2>4
       DEF playerVars, PlayStep, Refuse, Ask, Check, EnterPlay, CallerStops, StopResets,
           CallerReady, StopReady, Start, Delete
  <2>5. CASE \E c \in Callers : ActStep(c)
    BY <2>1, <2>2, <2>5
       DEF playerVars, ActStep, PlayerPlayBuffer, PlayerResume, PlayerSmartVolControl,
           PlayerMixerLevels, PlayerMixes, PlayerPCMCaps, PlayerIsPlaying, UsesFreed
  <2>6. CASE (\E x \in Player : Pushing(x) \/ Stream(x)) \/ BusStep
    BY <2>2, <2>6
       DEF playerVars, Pushing, PusherTakes, PusherPushes, Stream, StreamAdvances, StreamEnds,
           BusStep, BusPop, HandleDropped, HandleState, HandleTell, HandleEos, HandleError, BusStops,
           StopResets, BusReady, BusUsesFreed
  <2> QED
    BY <2>3, <2>4, <2>5, <2>6, NextCases
<1>4. ASSUME NEW p \in Data, NEW i \in 1 .. Len(bus'[p])
      PROVE  bus'[p][i] # "EOS"
  <2>0. /\ p \in Player /\ bus[p] \in Seq(Messages) /\ \A j \in 1 .. Len(bus[p]) : bus[p][j] # "EOS"
    BY DEF Piped, TypeInv, TypeOK
  <2>1. CASE Kept(p) \/ Asked(p)
    BY <1>4, <2>0, <2>1 DEF Kept, Asked
  <2>2. CASE Emptied(p)
    BY <1>4, <2>2 DEF Emptied
  <2>3. ASSUME NEW m \in Messages, Posted(p, m) PROVE bus'[p][i] # "EOS"
    BY <1>4, <2>0, <2>3, AppendFacts DEF Posted
  <2>4. CASE BusPop(p)
    <3>1. bus[p] # <<>> /\ bus'[p] = Tail(bus[p])
      BY <2>0, <2>4 DEF BusPop, TypeInv, TypeOK
    <3> QED
      BY <1>4, <2>0, <3>1, TailFacts
  <2> QED
    BY <2>0, <2>1, <2>2, <2>3, <2>4, Stories DEF Story
<1>5. bmsg' = "EOS" => bpl' \notin Data
  <2>1. ASSUME NEW p \in Player, BusPop(p) PROVE bmsg' = "EOS" => bpl' \notin Data
    <3>1. bmsg' = Head(bus[p]) /\ bpl' = p /\ bus[p] # <<>> /\ bus[p] \in Seq(Messages)
      BY <2>1 DEF BusPop, TypeInv, TypeOK
    <3>2. Head(bus[p]) = bus[p][1] /\ 1 \in 1 .. Len(bus[p])
      BY <3>1, TailFacts
    <3> QED
      BY <3>1, <3>2 DEF Piped
  <2>2. CASE Handled \/ UNCHANGED <<bmsg, bpl>>
    BY <2>2 DEF Handled, Piped
  <2>3. CASE BusStep
    BY <2>1, <2>2, <2>3
       DEF busVars, BusGoto, BusStep, HandleDropped, HandleState, HandleTell, HandleEos, HandleError,
           BusStops, BusReady, BusUsesFreed
  <2>4. CASE \E c \in Callers : CallerStops(c) \/ PlayerSmartVolControl(c)
    BY <2>2, <2>4 DEF CallerStops, PlayerSmartVolControl
  <2>5. CASE \E p \in Player : PusherPushes(p)
    BY <2>2, <2>5 DEF PusherPushes, busVars
  <2> QED
    BY <2>2, <2>3, <2>4, <2>5, NextCases, HandKept DEF busVars
<1> QED
  BY <1>2, <1>3, <1>4, <1>5 DEF Piped

-------------------------------------------------------------------------------
(* What a client believes.                                                 *)

\* The bus thread has a message that says that p plays, or one that says that it does not.
InHand(p) == bpl = p /\ bpc \in {"handle", "tell"} /\ bmsg = "PLAYING" /\ ~bstale
Closing(p) == /\ bpl = p
              /\ \/ bpc = "handle" /\ bmsg \in {"PAUSED", "EOS", "ERROR"}
                 \/ bpc = "tell" /\ bmsg = "PAUSED"

\* The client of p believes that it plays, or is about to.
Sounding(p) == (told[p] = "plays" /\ ~Closing(p)) \/ InHand(p)

\* What the bus thread is about to tell
Ending == (bpc = "handle" /\ bmsg \in {"PAUSED", "EOS"}) \/ (bpc = "tell" /\ bmsg = "PAUSED")

Heard ==
    /\ \A p \in Player \ Data : Sounding(p) \/ Announced(bus[p], gst[p])
    /\ Ending /\ bpl \notin Data => told[bpl] = "plays"

LEMMA SoundingStays ==
  ASSUME TypeInv, Next, NEW p \in Player \ Data, gst[p] # "none", Sounding(p),
         ~BusPop(p), ~Emptied(p)
  PROVE  Sounding(p)'
<1>0. p \in Player
  OBVIOUS
<1>1. CASE UNCHANGED <<told, busVars>>
  BY <1>1 DEF busVars, Sounding, InHand, Closing
<1>2. ASSUME NEW x, NEW anew \in BOOLEAN, Silence(x, anew), UNCHANGED <<told, bpc, bmsg, bpl>>
      PROVE  Sounding(p)'
  <2>1. p # x
    BY <1>2, SilenceStory
  <2>2. bpl = p => bstale' = bstale
    BY <1>2, <2>1 DEF Silence, TypeInv, TypeOK
  <2> QED
    BY <1>2, <2>2 DEF Sounding, InHand, Closing
<1>3. ASSUME NEW q \in Player, PusherPushes(q) PROVE Sounding(p)'
  <2>1. told'[p] = told[p] \/ told'[p] = "plays"
    BY <1>3 DEF PusherPushes, Tell, TypeInv, TypeOK
  <2>2. UNCHANGED busVars
    BY <1>3 DEF PusherPushes
  <2> QED
    BY <2>1, <2>2 DEF busVars, Sounding, InHand, Closing
<1>4. ASSUME NEW q \in Player, BusPop(q) PROVE Sounding(p)'
  <2>1. q # p /\ bpl' = q /\ told' = told /\ bpc = "idle"
    BY <1>4 DEF BusPop
  <2> QED
    BY <2>1 DEF Sounding, InHand, Closing
<1>5. CASE HandleDropped
  <2>1. told' = told /\ bpc' = "idle" /\ ~InHand(p)
    BY <1>5 DEF HandleDropped, Handled, InHand
  <2> QED
    BY <2>1 DEF Sounding, InHand, Closing
<1>6. CASE HandleState
  <2>1. told' = told /\ bpc = "handle"
    BY <1>6 DEF HandleState, Handling
  <2>2. CASE bpc' = "idle"
    BY <1>6, <2>1, <2>2 DEF HandleState, BusGoto, Sounding, InHand, Closing
  <2>3. CASE bpc' = "tell" /\ UNCHANGED <<bmsg, bpl, bstale>>
    BY <1>6, <2>1, <2>3 DEF Sounding, InHand, Closing
  <2> QED
    BY <1>6, <2>2, <2>3 DEF HandleState, Handled, BusGoto
<1>7. CASE HandleTell
  <2>1. bpc' = "idle" /\ bpc = "tell"
    BY <1>7 DEF HandleTell, Handled, Handling
  <2>2. CASE bpl = p
    <3>1. CASE bmsg = "PLAYING"
      <4>1. told'[p] = "plays"
        BY <1>0, <1>7, <2>2, <3>1 DEF HandleTell, Tell, TypeInv, TypeOK
      <4> QED
        BY <2>1, <4>1 DEF Sounding, Closing
    <3>2. CASE bmsg # "PLAYING"
      <4>1. told[p] = "plays" /\ bmsg # "PAUSED"
        BY <2>1, <2>2, <3>2 DEF Sounding, InHand, Closing
      <4>2. told' = told
        BY <1>7, <3>2, <4>1 DEF HandleTell
      <4> QED
        BY <2>1, <4>1, <4>2 DEF Sounding, Closing
    <3> QED
      BY <3>1, <3>2
  <2>3. CASE bpl # p
    <3>1. told'[p] = told[p]
      BY <1>0, <1>7, <2>3 DEF HandleTell, Tell, TypeInv, TypeOK
    <3> QED
      BY <2>1, <2>3, <3>1 DEF Sounding, InHand, Closing
  <2> QED
    BY <2>2, <2>3
<1>8. CASE HandleEos \/ HandleError
  <2>1. bpc = "handle" /\ bpc' = "stop" /\ bmsg \in {"EOS", "ERROR"} /\ UNCHANGED bpl
    BY <1>8 DEF HandleEos, HandleError, Handling, BusGoto
  <2>2. bpl # p
    BY <2>1 DEF Sounding, InHand, Closing
  <2>3. told'[p] = told[p]
    BY <1>0, <1>8, <2>2 DEF HandleEos, HandleError, Tell, TypeInv, TypeOK
  <2> QED
    BY <2>1, <2>2, <2>3 DEF Sounding, InHand, Closing
<1>9. CASE BusStops \/ BusReady
  <2>1. told' = told /\ bpc' \in {"idle", "ready"} /\ bpc \in {"stop", "ready"}
    BY <1>9 DEF BusStops, BusReady, Handling, Handled
  <2> QED
    BY <2>1 DEF Sounding, InHand, Closing
<1>10. CASE \E c \in Callers : CallerStops(c)
  <2>1. PICK c \in Callers : CallerStops(c)
    BY <1>10
  <2>2. Silence(Stopped(c), state[Stopped(c)] = "PLAYBACKERROR" \/ gst[Stopped(c)] = "none")
    BY <2>1 DEF CallerStops, StopResets
  <2>3. UNCHANGED <<told, bpc, bmsg, bpl>>
    BY <2>1 DEF CallerStops
  <2> QED
    BY <1>2, <2>2, <2>3
<1>11. CASE \E c \in Callers : PlayerSmartVolControl(c)
  <2>1. PICK c \in Callers : PlayerSmartVolControl(c)
    BY <1>11
  <2>2. UNCHANGED <<told, bpc, bmsg, bpl>> /\ (bstale' = bstale \/ Silence(pl[c], TRUE))
    BY <2>1 DEF PlayerSmartVolControl
  <2> QED
    BY <1>1, <1>2, <2>2 DEF busVars
<1>12. CASE BusUsesFreed
  BY <1>1, <1>12 DEF BusUsesFreed
<1> QED
  BY <1>1, <1>3, <1>4, <1>5, <1>6, <1>7, <1>8, <1>9, <1>10, <1>11, <1>12, NextCases, HandKept
     DEF BusStep

\* What is told of a message in hand was true when the message was taken, and no one else
\* has said otherwise.
LEMMA EndingStays ==
  ASSUME TypeInv, Piped, Heard, Next, Ending', bpl' \notin Data
  PROVE  told'[bpl'] = "plays"
<1>1. ASSUME UNCHANGED <<bpc, bmsg, bpl>>, told'[bpl] = told[bpl] \/ told'[bpl] = "plays"
      PROVE  told'[bpl'] = "plays"
  BY <1>1 DEF Ending, Heard
<1>2. ASSUME NEW p \in Player, BusPop(p) PROVE told'[bpl'] = "plays"
  <2>1. /\ bpc = "idle" /\ bus[p] # <<>> /\ bus[p] \in Seq(Messages) /\ bpl' = p /\ told' = told
        /\ bpc' = "handle" /\ bmsg' = Head(bus[p]) /\ InOrder(bus[p], gst[p])
    BY <1>2 DEF BusPop, TypeInv, TypeOK, Piped
  <2>2. Head(bus[p]) \in {"PAUSED", "EOS"}
    BY <2>1 DEF Ending
  <2>3. ~Announced(bus[p], gst[p])
    BY <2>1, <2>2, TailAnnounced
  <2>4. Sounding(p)
    BY <2>1, <2>3 DEF Heard
  <2> QED
    BY <2>1, <2>4 DEF Sounding, InHand
<1>3. ASSUME NEW q \in Player, PusherPushes(q) PROVE told'[bpl'] = "plays"
  <2>1. UNCHANGED busVars /\ bpl \in Player
    BY <1>3 DEF PusherPushes, busVars, Ending, TypeInv, Holding
  <2>2. told'[bpl] = told[bpl] \/ told'[bpl] = "plays"
    BY <1>3, <2>1 DEF PusherPushes, Tell, TypeInv, TypeOK
  <2> QED
    BY <1>1, <2>1, <2>2 DEF busVars
<1>4. CASE HandleState
  <2>1. told' = told /\ bpc = "handle" /\ bpc' = "tell" /\ UNCHANGED <<bmsg, bpl>>
    BY <1>4 DEF HandleState, Handling, Handled, BusGoto, Ending
  <2> QED
    BY <2>1 DEF Ending, Heard
<1>5. CASE UNCHANGED <<told, bpc, bmsg, bpl>>
  BY <1>1, <1>5
<1>6. CASE BusStep
  <2>1. bpc' \in {"idle", "stop", "ready"} => FALSE
    BY DEF Ending
  <2> QED
    BY <1>2, <1>4, <1>5, <1>6, <2>1
       DEF busVars, BusGoto, BusStep, HandleDropped, HandleTell, HandleEos, HandleError,
           BusStops, BusReady, BusUsesFreed, Handled
<1>7. CASE \E c \in Callers : CallerStops(c) \/ PlayerSmartVolControl(c)
  BY <1>5, <1>7 DEF CallerStops, PlayerSmartVolControl
<1> QED
  BY <1>3, <1>5, <1>6, <1>7, NextCases, HandKept DEF busVars

LEMMA HeardStep ==
  ASSUME TypeInv, Piped, Heard, Next
  PROVE  Heard'
<1>1. ASSUME NEW p \in Player \ Data PROVE Sounding(p)' \/ Announced(bus'[p], gst'[p])
  <2>0. /\ p \in Player /\ bus[p] \in Seq(Messages) /\ InOrder(bus[p], gst[p])
        /\ gst[p] \in Silent => bus[p] = <<>>
    BY DEF TypeInv, TypeOK, Piped
  <2>1. CASE Emptied(p)
    BY <2>1 DEF Emptied, Announced, Silent
  <2>2. CASE BusPop(p)
    <3>1. /\ bpc = "idle" /\ bus[p] # <<>> /\ bpl' = p /\ told' = told /\ bpc' = "handle"
          /\ bmsg' = Head(bus[p]) /\ bus'[p] = Tail(bus[p]) /\ gst'[p] = gst[p] /\ ~bstale'
      BY <2>0, <2>2 DEF BusPop, TypeInv, TypeOK
    <3>2. CASE Head(bus[p]) = "PLAYING"
      BY <3>1, <3>2 DEF Sounding, InHand
    <3>3. CASE Head(bus[p]) \in {"PAUSED", "EOS", "ERROR"}
      BY <2>0, <3>1, <3>3, TailAnnounced
    <3>4. CASE Head(bus[p]) = "PREROLLED"
      <4>1. CASE Sounding(p)
        BY <3>1, <3>4, <4>1 DEF Sounding, InHand, Closing
      <4>2. CASE Announced(bus[p], gst[p])
        BY <2>0, <3>1, <3>4, <4>2, TailAnnounced
      <4> QED
        BY <4>1, <4>2 DEF Heard
    <3>5. Head(bus[p]) \in Messages
      BY <2>0, <3>1
    <3> QED
      BY <3>2, <3>3, <3>4, <3>5 DEF Messages
  <2>3. CASE gst[p] # "none" /\ Sounding(p) /\ ~Emptied(p) /\ ~BusPop(p)
    BY <2>3, SoundingStays
  <2>4. CASE Kept(p) \/ Asked(p)
    <3>1. CASE gst[p] = "none"
      BY <2>0, <2>4, <3>1 DEF Kept, Asked, Announced, Silent
    <3>2. CASE Announced(bus[p], gst[p])
      BY <2>4, <3>2 DEF Kept, Asked, Announced
    <3> QED
      BY <2>1, <2>2, <2>3, <3>1, <3>2 DEF Heard
  <2>5. ASSUME NEW m \in Messages, Posted(p, m) PROVE Sounding(p)' \/ Announced(bus'[p], gst'[p])
    <3>1. Goes(gst[p], m, gst'[p]) /\ bus'[p] = Append(bus[p], m) /\ gst[p] # "none"
      BY <2>5 DEF Posted, Goes
    <3>2. CASE Announced(bus[p], gst[p])
      BY <2>0, <3>1, <3>2, AppendAnnounced
    <3> QED
      BY <2>1, <2>2, <2>3, <3>1, <3>2 DEF Heard
  <2> QED
    BY <2>0, <2>1, <2>2, <2>4, <2>5, Stories DEF Story
<1> QED
  BY <1>1, EndingStays DEF Heard

StreamInv == Piped /\ Heard

\* What a bus holds, and what the clients believe
THEOREM StreamInvariant == Spec => []StreamInv
<1>1. Init => StreamInv
  <2> SUFFICES ASSUME Init PROVE StreamInv
    OBVIOUS
  <2>1. \A p \in Player : /\ gst[p] = "none" /\ bus[p] = <<>> /\ target[p] = "null"
                          /\ paused[p] = FALSE
    BY DEF Init
  <2>2. Piped
    <3>1. \A g : InOrder(<<>>, g)
      BY DEF InOrder
    <3>2. Data \subseteq Player /\ bmsg = "none"
      BY DEF Init
    <3> QED
      BY <2>1, <3>1, <3>2 DEF Piped, Silent
  <2>3. Heard
    BY <2>1 DEF Init, Heard, Announced, Ending
  <2> QED
    BY <2>2, <2>3 DEF StreamInv
<1>2. TypeInv /\ TypeInv' /\ StreamInv /\ [Next]_vars => StreamInv'
  <2> SUFFICES ASSUME TypeInv, TypeInv', StreamInv, [Next]_vars PROVE StreamInv'
    OBVIOUS
  <2>1. CASE Next
    BY <2>1, PipedStep, HeardStep DEF StreamInv
  <2>2. CASE UNCHANGED vars
    BY <2>2 DEF vars, mapVars, playerVars, pipeVars, busVars, StreamInv, Piped, Heard, Sounding,
       InHand, Closing, Ending
  <2> QED
    BY <2>1, <2>2
<1> QED
  BY <1>1, <1>2, PlayersInvariant, PTL DEF Spec

\* A client is told that a playback finished, or paused, only when its last event was that it
\* started or resumed: whatever the calls flush, and whichever message the bus thread still
\* has in hand.
THEOREM EventsInOrder == Spec => EventOrder
<1>1. TypeInv /\ StreamInv /\ [Next]_vars =>
        [ \/ bmsg = "EOS" /\ bpc = "handle" /\ bpc' = "stop"
          \/ bmsg = "PAUSED" /\ bpc = "tell" /\ bpc' # "tell" /\ paused[bpl] /\ ~crashed'
         => told[bpl] = "plays"]_vars
  <2> SUFFICES ASSUME TypeInv, StreamInv,
                      \/ bmsg = "EOS" /\ bpc = "handle"
                      \/ bmsg = "PAUSED" /\ bpc = "tell" /\ paused[bpl]
               PROVE  told[bpl] = "plays"
    OBVIOUS
  <2>1. Ending
    BY DEF Ending
  <2>2. bpl \notin Data
    BY DEF StreamInv, Piped
  <2> QED
    BY <2>1, <2>2 DEF StreamInv, Heard
<1> QED
  BY <1>1, PlayersInvariant, StreamInvariant, PTL DEF Spec, EventOrder

-------------------------------------------------------------------------------
(* The primary volume.                                                     *)

\* A caller is within Stop, for p.
Window(p) == \E c \in Callers : cpc[c] = "ready" /\ Stopped(c) = p

\* The volume was set for p, and is not restored.
DockedBy(p) == byBus /\ volume # Full /\ setter = p

\* The pipeline of p, or a message of its, goes on.
Live(p) == \/ gst[p] \in {"ready", "playing"} \/ bus[p] # <<>>
           \/ /\ bpl = p /\ bpc \in {"handle", "tell"} /\ ~bstale
              /\ gst[p] \in {"paused", "drained"}
Flows(p) == gst[p] \in {"ready", "playing", "null"} \/ bus[p] # <<>>

\* Who set the volume knows what to.
Setter == byBus /\ volume # Full => setter \in Player \ (freed \cup Data) /\ prev[setter] = volume

\* The volume that was set for p will be restored, or is no longer the bus thread's.
Restorer(p) == \/ Window(p)
               \/ bpl = p /\ bpc \in {"stop", "ready"}
               \/ bpl = p /\ bpc = "tell" /\ bmsg = "PAUSED"
               \/ state[p] = "PLAYING" /\ Live(p)
Restorers == \A p \in Player : DockedBy(p) => Restorer(p)

\* The message in hand: when it says that its player plays, the pipeline goes on.
Hand ==
    /\ bpc # "idle" => bpl \in 1 .. opened
    /\ bpc = "tell" => bmsg \in {"PLAYING", "PAUSED"}
    /\ bpc = "tell" /\ bmsg = "PAUSED" => state[bpl] # "PLAYING"
    /\ bpc = "handle" /\ bmsg = "PLAYING" /\ ~bstale /\ bpl \notin Data \cup freed => Flows(bpl)
    /\ bpc = "tell" /\ bmsg = "PLAYING" /\ state[bpl] = "PLAYING" /\ bpl \notin Data \cup freed
          => Window(bpl) \/ Flows(bpl)

VolumeInv == Setter /\ Restorers /\ Hand

LEMMA WindowStays ==
  ASSUME TypeInv, Next, NEW p, Window(p)
  PROVE  Window(p)' \/ \E c \in Callers : CallerReady(c) /\ Stopped(c) = p
<1>1. PICK d \in Callers : cpc[d] = "ready" /\ Stopped(d) = p
  BY DEF Window
<1>2. Same(d) \/ CallerReady(d)
  <2>1. ASSUME UNCHANGED callVars PROVE Same(d)
    BY <2>1 DEF callVars, Same
  <2>2. ASSUME NEW c \in Callers, Call(c) PROVE Same(d)
    <3>1. ASSUME cpc[c] = "idle", NEW k, NEW x, NEW to, getObjectFromMap(c, k, x, to) PROVE Same(d)
      BY <1>1, <3>1, Fetches DEF Alone
    <3> QED
      BY <2>1, <2>2, <3>1 DEF callVars, Call, Open, Play, PlayBuffer, Stop, Close, Config, SetMixerLevels,
         SetSmartVolControl, Pause, Resume, IsPlaying, Fetch, getObjectFromMap, At
  <2>3. ASSUME NEW c \in Callers, c # d, Return(c) PROVE Same(d)
    BY <2>3, Returns DEF Alone
  <2>4. ASSUME NEW c \in Callers, c # d, NEW to, Goto(c, to), UNCHANGED <<op, pl>>,
               rest' = rest \/ \E Q : rest' = [rest EXCEPT ![c] = Q]
        PROVE  Same(d)
    BY <2>4 DEF Goto, Same, TypeInv, TypeOK
  <2>5. ASSUME NEW c \in Callers, PlayStep(c) PROVE Same(d) \/ CallerReady(d)
    <3>1. CASE c = d
      BY <1>1, <2>5, <3>1 DEF PlayStep, Refuse, Ask, Check, EnterPlay, CallerStops, Start, Delete,
         Using, At
    <3>2. CASE c # d
      BY <2>3, <2>4, <2>5, <3>2 DEF PlayStep, Refuse, Ask, Check, EnterPlay, CallerStops, CallerReady,
         Start, Delete
    <3> QED
      BY <3>1, <3>2
  <2>6. ASSUME NEW c \in Callers, ActStep(c) PROVE Same(d)
    <3>1. CASE UsesFreed(c)
      BY <2>1, <3>1 DEF callVars, UsesFreed
    <3>2. CASE c = d
      BY <1>1, <2>6, <3>1, <3>2 DEF ActStep, PlayerPlayBuffer, PlayerPause, PlayerResume,
         PlayerSmartVolControl, PlayerMixerLevels, PlayerMixes, PlayerPCMCaps, PlayerIsPlaying,
         Guarded, Acting, Using, At
    <3>3. CASE c # d
      BY <2>3, <2>4, <2>6, <3>1, <3>3 DEF ActStep, PlayerPlayBuffer, PlayerPause, PlayerResume,
         PlayerSmartVolControl, PlayerMixerLevels, PlayerMixes, PlayerPCMCaps, PlayerIsPlaying,
         Guarded, Acting
    <3> QED
      BY <3>2, <3>3
  <2>7. CASE (\E x \in Player : Pushing(x) \/ Stream(x)) \/ BusStep
    BY <2>7, OthersStep DEF Same
  <2> QED
    BY <2>2, <2>5, <2>6, <2>7, NextCases
<1> QED
  BY <1>1, <1>2 DEF Same, Window, Stopped

\* A step on what the hardware was told
VolumeKept == UNCHANGED <<volume, prev, setter, byBus>>

LEMMA VolumeStories ==
  ASSUME TypeInv, Next
  PROVE  \/ VolumeKept /\ freed' = freed
         \/ \E x : Cut(x) /\ freed' \in {freed, freed \cup {x}}
         \/ freed' = freed /\ ~byBus'
         \/ freed' = freed /\ (HandleDropped \/ HandleState \/ HandleTell \/ BusReady)
<1> DEFINE G == \/ VolumeKept /\ freed' = freed
                \/ \E x : Cut(x) /\ freed' \in {freed, freed \cup {x}}
                \/ freed' = freed /\ ~byBus'
                \/ freed' = freed /\ (HandleDropped \/ HandleState \/ HandleTell \/ BusReady)
<1>1. CASE UNCHANGED volumeVars /\ freed' = freed
  BY <1>1 DEF volumeVars, VolumeKept
<1>2. ASSUME NEW p, NEW v, NEW w, setPrimaryVolume(p, v, w, FALSE), freed' = freed PROVE G
  BY <1>2 DEF setPrimaryVolume, VolumeKept
<1>3. ASSUME NEW c \in Callers, Call(c) PROVE G
  BY <1>1, <1>3 DEF Call, Open, Play, PlayBuffer, Stop, Close, Config, SetMixerLevels,
     SetSmartVolControl, Pause, Resume, IsPlaying, Fetch, getObjectFromMap
<1>4. ASSUME NEW c \in Callers, PlayStep(c) PROVE G
  BY <1>1, <1>4 DEF mapVars, PlayStep, Refuse, Ask, Check, EnterPlay, CallerStops, CallerReady, Start,
     Delete
<1>5. ASSUME NEW c \in Callers, ActStep(c) PROVE G
  BY <1>1, <1>2, <1>5 DEF mapVars, ActStep, PlayerPlayBuffer, PlayerPause, PlayerResume, VolumeKept,
     PlayerSmartVolControl, PlayerMixerLevels, PlayerMixes, PlayerPCMCaps, PlayerIsPlaying, UsesFreed
<1>6. ASSUME NEW p \in Player, Pushing(p) \/ Stream(p) PROVE G
  BY <1>1, <1>2, <1>6 DEF mapVars, Pushing, PusherTakes, PusherPushes, Stream, StreamAdvances,
     StreamEnds
<1>7. CASE BusStep
  BY <1>1, <1>7 DEF mapVars, BusStep, BusPop, HandleDropped, HandleState, HandleTell, HandleEos,
     HandleError, BusStops, BusReady, BusUsesFreed
<1> QED
  BY <1>3, <1>4, <1>5, <1>6, <1>7, NextCases

\* When handleMessage has restored the volume, it was not set for its player.
LEMMA EndRestores ==
  ASSUME TypeInv, Setter, bpl \in Player, NEW s, EndOfMessage(bpl, s), byBus', volume' # Full
  PROVE  VolumeKept /\ (s \in {"PAUSED", "PLAYBACKERROR", "READY"} => ~DockedBy(bpl))
  BY DEF EndOfMessage, setPrimaryVolume, VolumeKept, volumeVars, Setter, DockedBy, TypeInv, TypeOK

\* A call that has silenced a player takes its volume from the bus thread.
LEMMA CutsUndock ==
  ASSUME NEW c \in Callers, byBus'
  PROVE  /\ CallerReady(c) => ~(byBus /\ setter = Stopped(c)) 
         /\ Delete(c) => ~(byBus /\ setter = pl[c])
  BY DEF CallerReady, Delete, Cut

\* How the volume is still docked after a step
LEMMA DockedSteps ==
  ASSUME TypeInv, Setter, Next, byBus', volume' # Full
  PROVE  /\ Setter'
         /\ VolumeKept \/ (HandleTell /\ bmsg = "PLAYING" /\ bpl \notin Data /\ Dock(bpl))
<1> DEFINE G == /\ Setter'
                /\ VolumeKept \/ (HandleTell /\ bmsg = "PLAYING" /\ bpl \notin Data /\ Dock(bpl))
<1>1. ASSUME VolumeKept, freed' = freed PROVE G
  BY <1>1 DEF VolumeKept, Setter
<1>2. ASSUME NEW x, Cut(x), freed' \in {freed, freed \cup {x}} PROVE G
  BY <1>2 DEF Cut, VolumeKept, Setter
<1>3. ASSUME freed' = freed, bpl \in Player, NEW s, EndOfMessage(bpl, s) PROVE G
  BY <1>1, <1>3, EndRestores
<1>4. CASE HandleTell
  <2>1. freed' = freed /\ bpl \in Player /\ bpl \notin freed
    BY <1>4, PlayerBounds DEF HandleTell, mapVars, Handling
  <2>2. CASE bmsg = "PLAYING" /\ bpl \notin Data /\ Dock(bpl)
    <3>1. CASE VolumeKept
      BY <1>1, <2>1, <3>1
    <3>2. CASE ~VolumeKept
      <4>1. setter' = bpl /\ \E w : volume' = w /\ prev' = [prev EXCEPT ![bpl] = w]
        BY <2>2, <3>2 DEF Dock, setPrimaryVolume, VolumeKept
      <4>2. prev'[bpl] = volume'
        BY <2>1, <4>1 DEF TypeInv, TypeOK
      <4> QED
        BY <1>4, <2>1, <2>2, <4>1, <4>2 DEF Setter
    <3> QED
      BY <3>1, <3>2
  <2>3. CASE EndOfMessage(bpl, state[bpl])
    BY <1>3, <2>1, <2>3
  <2> QED
    BY <1>4, <2>2, <2>3 DEF HandleTell
<1>5. CASE freed' = freed /\ (HandleDropped \/ HandleState \/ BusReady)
  <2>1. bpl \in Player
    BY <1>5, PlayerBounds DEF HandleDropped, HandleState, BusReady, Handling
  <2>2. UNCHANGED volumeVars => VolumeKept
    BY DEF volumeVars, VolumeKept
  <2>3. UNCHANGED volumeVars \/ \E s : EndOfMessage(bpl, s)
    BY <1>5 DEF HandleDropped, HandleState, BusReady
  <2> QED
    BY <1>1, <1>3, <1>5, <2>1, <2>2, <2>3
<1> QED
  BY <1>1, <1>2, <1>4, <1>5, VolumeStories
-------------------------------------------------------------------------------
(* The player that the volume was set for.                                 *)

\* A step of a thread that is not the bus thread
LEMMA OutsideHand ==
  ASSUME TypeInv, Next, ~BusStep
  PROVE  UNCHANGED <<bpc, bmsg, bpl>>
<1>1. CASE UNCHANGED busVars
  BY <1>1 DEF busVars
<1>2. CASE \E c \in Callers : CallerStops(c) \/ PlayerSmartVolControl(c)
  BY <1>2 DEF CallerStops, PlayerSmartVolControl
<1>3. CASE \E p \in Player : PusherPushes(p)
  BY <1>1, <1>3 DEF PusherPushes
<1> QED
  BY <1>1, <1>2, <1>3, NextCases, HandKept

LEMMA OutsideBus ==
  ASSUME TypeInv, Next, ~BusStep, NEW p \in Player
  PROVE  /\ UNCHANGED <<bpc, bmsg, bpl>>
         /\ \/ state'[p] = state[p]
            \/ \E c \in Callers : CallerReady(c) /\ Stopped(c) = p /\ state'[p] = "READY"
         /\ bpl = p => bstale' = bstale \/ Silencing(p)
<1> DEFINE G == /\ UNCHANGED <<bpc, bmsg, bpl>>
                /\ \/ state'[p] = state[p]
                   \/ \E c \in Callers : CallerReady(c) /\ Stopped(c) = p /\ state'[p] = "READY"
                /\ bpl = p => bstale' = bstale \/ Silencing(p)
<1>1. ASSUME UNCHANGED <<state, busVars>> PROVE G
  BY <1>1 DEF busVars
<1>2. ASSUME NEW c \in Callers, Call(c) PROVE G
  <2>1. UNCHANGED state
    BY <1>2 DEF playerVars, Call, Open, Play, PlayBuffer, Stop, Close, Config, SetMixerLevels,
       SetSmartVolControl, Pause, Resume, IsPlaying, Fetch, getObjectFromMap
  <2> QED
    BY <1>1, <1>2, <2>1, HandKept
<1>3. ASSUME NEW c \in Callers, CallerStops(c) PROVE G
  <2>1. UNCHANGED <<state, bpc, bmsg, bpl>> /\ \E anew \in BOOLEAN : Silence(Stopped(c), anew)
    BY <1>3 DEF CallerStops, StopResets
  <2>2. bpl # Stopped(c) => bstale' = bstale
    BY <2>1 DEF Silence, TypeInv, TypeOK
  <2>3. p = Stopped(c) => Silencing(p)
    BY <1>3 DEF Silencing
  <2> QED
    BY <2>1, <2>2, <2>3
<1>4. ASSUME NEW c \in Callers, CallerReady(c) PROVE G
  <2>1. UNCHANGED busVars /\ state' = [state EXCEPT ![Stopped(c)] = "READY"]
    BY <1>4 DEF CallerReady, StopReady, busVars
  <2>2. state'[p] = state[p] \/ (Stopped(c) = p /\ state'[p] = "READY")
    BY <2>1 DEF TypeInv, TypeOK
  <2> QED
    BY <1>4, <2>1, <2>2 DEF busVars
<1>5. ASSUME NEW c \in Callers, PlayStep(c) PROVE G
  <2>1. CallerStops(c) \/ CallerReady(c) \/ UNCHANGED state
    BY <1>5 DEF playerVars, PlayStep, Refuse, Ask, Check, EnterPlay, Start, Delete
  <2> QED
    BY <1>1, <1>3, <1>4, <1>5, <2>1, HandKept
<1>6. ASSUME NEW c \in Callers, PlayerSmartVolControl(c) PROVE G
  <2>1. UNCHANGED <<state, bpc, bmsg, bpl>>
    BY <1>6 DEF PlayerSmartVolControl, playerVars
  <2>2. CASE bstale' = bstale
    BY <2>1, <2>2
  <2>3. CASE Silence(pl[c], TRUE) /\ ~isPlaying(pl[c])
    <3>1. bpl # pl[c] => bstale' = bstale
      BY <2>3 DEF Silence, TypeInv, TypeOK
    <3>2. p = pl[c] => Silencing(p)
      BY <1>6, <2>3 DEF Silencing
    <3> QED
      BY <2>1, <3>1, <3>2
  <2> QED
    BY <1>6, <2>2, <2>3 DEF PlayerSmartVolControl
<1>7. ASSUME NEW c \in Callers, ActStep(c) PROVE G
  <2>1. UNCHANGED state
    BY <1>7 DEF playerVars, ActStep, PlayerPlayBuffer, PlayerPause, PlayerResume,
       PlayerSmartVolControl, PlayerMixerLevels, PlayerMixes, PlayerPCMCaps, PlayerIsPlaying,
       UsesFreed
  <2> QED
    BY <1>1, <1>6, <1>7, <2>1, HandKept
<1>8. ASSUME NEW x \in Player, Pushing(x) \/ Stream(x) PROVE G
  BY <1>1, <1>8 DEF playerVars, Pushing, PusherTakes, PusherPushes, Stream, StreamAdvances, StreamEnds
<1> QED
  BY <1>2, <1>5, <1>7, <1>8, NextCases

\* A Stop that has silenced its player has still to say that it is ready.
LEMMA StopsOpenWindow ==
  ASSUME TypeInv, NEW c \in Callers, CallerStops(c), NEW p, Stopped(c) = p
  PROVE  Window(p)'
<1>1. cpc'[c] = "ready" /\ Stopped(c)' = Stopped(c)
  BY DEF CallerStops, Goto, Stopped, TypeInv, TypeOK
<1> QED
  BY <1>1 DEF Window

LEMMA ReadyIsReady ==
  ASSUME TypeInv, NEW c \in Callers, CallerReady(c), NEW p \in Player, Stopped(c) = p
  PROVE  state'[p] = "READY"
  BY DEF CallerReady, StopReady, TypeInv, TypeOK

\* What silences a player leaves the volume to another thread, or to the step that follows.
LEMMA SilencingRestores ==
  ASSUME TypeInv, Piped, Next, NEW p \in Player \ Data, Silencing(p), byBus', setter = p,
         VolumeKept, state[p] = "PLAYING", gst[p] \notin Silent
  PROVE  Window(p)' \/ (bpl' = p /\ bpc' = "ready")
<1>1. ASSUME NEW c \in Callers, CallerStops(c), Stopped(c) = p PROVE Window(p)'
  BY <1>1, StopsOpenWindow
<1>2. ASSUME NEW c \in Callers, Delete(c), pl[c] = p PROVE FALSE
  BY <1>2, CutsUndock DEF VolumeKept
<1>3. p # opened + 1
  <2>1. p <= opened
    BY PlayerBounds DEF Piped, Player
  <2> QED
    BY <2>1, PlayerBounds DEF Player
<1>4. isPlaying(p)
  BY DEF isPlaying, Silent
<1>5. CASE BusStops /\ bpl = p
  BY <1>5 DEF BusStops
<1> QED
  BY <1>1, <1>2, <1>3, <1>4, <1>5 DEF Silencing

LEMMA RestorerStays ==
  ASSUME TypeInv, Piped, VolumeInv, Next, NEW p \in Player, DockedBy(p), DockedBy(p)', VolumeKept
  PROVE  Restorer(p)'
<1>0. /\ p \in Player \ (freed \cup Data) /\ Restorer(p) /\ byBus' /\ volume' # Full /\ setter = p
      /\ bus[p] \in Seq(Messages)
  BY DEF VolumeInv, Setter, Restorers, DockedBy, TypeInv, TypeOK
<1>1. CASE Window(p)
  BY <1>0, <1>1, WindowStays, CutsUndock DEF Restorer, VolumeKept, DockedBy
<1>2. ASSUME NEW s, s \in {"PAUSED", "PLAYBACKERROR", "READY"}, EndOfMessage(bpl, s) PROVE bpl # p
  BY <1>0, <1>2, EndRestores DEF VolumeInv
<1>3. CASE bpl = p /\ bpc \in {"stop", "ready"}
  <2>1. CASE BusStops
    BY <1>0, <1>3, <2>1 DEF BusStops, Restorer
  <2>2. ~BusReady
    BY <1>2, <1>3 DEF BusReady
  <2>3. CASE UNCHANGED <<bpc, bpl>>
    BY <1>3, <2>3 DEF Restorer
  <2>4. CASE BusStep
    BY <1>3, <2>1, <2>2, <2>3, <2>4 DEF busVars, BusStep, BusPop, HandleDropped, HandleState,
       HandleTell, HandleEos, HandleError, Handling, BusUsesFreed
  <2> QED
    BY <2>3, <2>4, OutsideBus
<1>4. CASE bpl = p /\ bpc = "tell" /\ bmsg = "PAUSED"
  <2>1. ~HandleTell
    <3>1. state[p] \in {"PAUSED", "PLAYBACKERROR", "READY"}
      BY <1>4 DEF VolumeInv, Hand, TypeInv, TypeOK, States
    <3> QED
      BY <1>2, <1>4, <3>1 DEF HandleTell
  <2>2. CASE UNCHANGED <<bpc, bmsg, bpl>>
    BY <1>4, <2>2 DEF Restorer
  <2>3. CASE BusStep
    BY <1>4, <2>1, <2>2, <2>3 DEF busVars, BusStep, BusPop, HandleDropped, HandleState,
       HandleEos, HandleError, Handling, BusStops, BusReady, BusUsesFreed
  <2> QED
    BY <2>2, <2>3, OutsideBus
<1>5. CASE state[p] = "PLAYING" /\ Live(p)
  <2>1. gst[p] \notin Silent
    BY <1>0, <1>5 DEF Live, Piped, Silent
  <2>2. CASE Silencing(p)
    BY <1>0, <2>1, <2>2, <1>5, SilencingRestores DEF Restorer
  <2>3. CASE BusPop(p)
    <3>1. bpl' = p /\ bpc' = "handle" /\ ~bstale' /\ gst'[p] = gst[p] /\ state' = state
      BY <2>3 DEF BusPop, playerVars
    <3>2. gst[p] \in {"ready", "playing", "paused", "drained"}
      BY <2>1 DEF TypeInv, TypeOK, Silent
    <3> QED
      BY <1>5, <3>1, <3>2 DEF Restorer, Live
  <2>4. ASSUME NEW m \in Messages, Posted(p, m), state'[p] = "PLAYING" PROVE Restorer(p)'
    <3>1. bus'[p] # <<>>
      BY <1>0, <2>4, AppendFacts DEF Posted
    <3> QED
      BY <2>4, <3>1 DEF Restorer, Live
  <2>5. ASSUME Kept(p) \/ Asked(p), state'[p] = "PLAYING",
               bpl = p /\ bpc \in {"handle", "tell"} /\ ~bstale
                 => bpl' = p /\ bpc' \in {"handle", "tell"} /\ ~bstale'
        PROVE  Restorer(p)'
    BY <1>5, <2>1, <2>5 DEF Restorer, Live, Kept, Asked, Silent
  <2>6. CASE ~BusStep
    <3>1. state'[p] = "PLAYING"
      BY <1>0, <1>5, <2>6, OutsideBus, CutsUndock DEF DockedBy
    <3>2. CASE Kept(p) \/ Asked(p)
      BY <2>2, <2>5, <2>6, <3>1, <3>2, OutsideBus
    <3> QED
      BY <2>2, <2>3, <2>4, <3>1, <3>2, Stories DEF Story
  <2>7. CASE BusStep /\ bpl # p
    <3>1. state'[p] = "PLAYING"
      BY <1>5, <2>7 DEF playerVars, BusStep, BusPop, HandleDropped, HandleState, HandleTell, HandleEos,
         HandleError, BusStops, StopResets, BusReady, BusUsesFreed, TypeInv, TypeOK
    <3> QED
      BY <2>2, <2>3, <2>4, <2>5, <2>7, <3>1, Stories DEF Story
  <2>8. CASE BusStep /\ bpl = p
    <3>1. ASSUME NEW x \in Player, BusPop(x) PROVE Restorer(p)'
      <4>1. bpc = "idle" /\ state' = state
        BY <3>1 DEF BusPop, playerVars
      <4> QED
        BY <1>5, <2>2, <2>3, <2>4, <2>5, <4>1, Stories DEF Story
    <3>2. CASE HandleDropped
      <4>1. UNCHANGED <<state, gst, bus>> /\ bstale
        BY <1>5, <2>1, <2>8, <3>2 DEF HandleDropped, playerVars, pipeVars, Silent
      <4> QED
        BY <1>5, <4>1 DEF Restorer, Live
    <3>3. CASE HandleState
      <4>1. UNCHANGED <<gst, bus>> /\ bpc = "handle" /\ ~bstale
        BY <3>3 DEF HandleState, pipeVars, Handling
      <4>2. CASE bmsg = "PREROLLED"
        BY <1>2, <2>8, <3>3, <4>2 DEF HandleState
      <4>3. CASE bmsg = "PAUSED"
        BY <2>8, <3>3, <4>3 DEF HandleState, BusGoto, Restorer
      <4>4. CASE bmsg = "PLAYING"
        <5>1. state'[p] = "PLAYING"
          BY <1>0, <2>8, <3>3, <4>4 DEF HandleState, TypeInv, TypeOK
        <5>2. bpc' = "tell" /\ UNCHANGED <<bmsg, bpl, bstale>>
          BY <3>3, <4>4 DEF HandleState, BusGoto
        <5> QED
          BY <1>5, <4>1, <5>1, <5>2 DEF Restorer, Live
      <4> QED
        BY <3>3, <4>2, <4>3, <4>4 DEF HandleState
    <3>4. CASE HandleTell
      <4>1. UNCHANGED <<state, gst, bus>> /\ bpc = "tell"
        BY <3>4 DEF HandleTell, pipeVars, Handling
      <4>2. bmsg = "PLAYING"
        BY <1>5, <2>8, <4>1 DEF VolumeInv, Hand
      <4>3. Window(p) \/ Flows(p)
        BY <1>0, <1>5, <2>8, <4>1, <4>2 DEF VolumeInv, Hand
      <4> QED
        BY <1>1, <1>5, <2>1, <4>1, <4>3 DEF Flows, Restorer, Live, Silent
    <3>5. CASE HandleEos \/ HandleError
      BY <2>8, <3>5 DEF HandleEos, HandleError, BusGoto, Restorer
    <3>6. CASE BusStops \/ BusReady
      BY <1>3, <2>8, <3>6 DEF BusStops, BusReady, Handling
    <3> QED
      BY <1>0, <2>8, <3>1, <3>2, <3>3, <3>4, <3>5, <3>6 DEF BusStep, BusUsesFreed
  <2> QED
    BY <2>6, <2>7, <2>8
<1> QED
  BY <1>0, <1>1, <1>3, <1>4, <1>5 DEF Restorer

LEMMA RestorersStep ==
  ASSUME TypeInv, TypeInv', Piped, VolumeInv, Next
  PROVE  Restorers'
<1> SUFFICES ASSUME NEW p \in Player, DockedBy(p)' PROVE Restorer(p)'
  BY DEF Restorers
<1>1. CASE VolumeKept
  BY <1>1, RestorerStays DEF DockedBy, VolumeKept
<1>2. CASE ~VolumeKept
  <2>1. byBus' /\ volume' # Full /\ setter' = p
    BY DEF DockedBy
  <2>2. HandleTell /\ bmsg = "PLAYING" /\ bpl \notin Data /\ Dock(bpl)
    BY <1>2, <2>1, DockedSteps DEF VolumeInv
  <2>3. bpl = p /\ state[p] = "PLAYING" /\ target[p] # "null"
    <3>1. /\ volume' = IF state[bpl] = "PLAYING" THEN primary[bpl] ELSE Full
          /\ setter' = (IF target[bpl] # "null" THEN bpl ELSE 0) /\ byBus' = (target[bpl] # "null")
      BY <1>2, <2>2 DEF Dock, setPrimaryVolume, VolumeKept
    <3> QED
      BY <2>1, <3>1
  <2>4. UNCHANGED <<state, gst, bus>> /\ bpc = "tell" /\ p \notin freed
    BY <2>2, <2>3 DEF HandleTell, pipeVars, Handling
  <2>5. gst[p] # "null"
    BY <2>3 DEF Piped
  <2>6. CASE Flows(p)
    BY <2>3, <2>4, <2>5, <2>6 DEF Flows, Restorer, Live
  <2>7. CASE Window(p)
    <3>1. ~ \E c \in Callers : CallerReady(c)
      <4>1. bpc' = "idle"
        BY <2>2 DEF HandleTell, Handled
      <4> QED
        BY <2>4, <4>1 DEF CallerReady
    <3> QED
      BY <2>7, <3>1, WindowStays DEF Restorer
  <2> QED
    BY <2>2, <2>3, <2>4, <2>6, <2>7 DEF VolumeInv, Hand
<1> QED
  BY <1>1, <1>2

\* The message in hand says that its player plays: the pipeline was not silenced, or a Stop
\* that has silenced it has still to say that it is ready.
LEMMA FlowsOn ==
  ASSUME TypeInv, TypeInv', Piped, Next, NEW p \in Player, p <= opened, Flows(p),
         ~BusPop(p), ~Silencing(p)
  PROVE  Flows(p)'
<1>1. bus[p] \in Seq(Messages)
  BY DEF TypeInv, TypeOK
<1>2. CASE Kept(p) \/ Asked(p)
  BY <1>2 DEF Kept, Asked, Flows
<1>3. ASSUME NEW m \in Messages, Posted(p, m) PROVE Flows(p)'
  BY <1>1, <1>3, AppendFacts DEF Posted, Flows
<1> QED
  BY <1>2, <1>3, Stories DEF Story

LEMMA HandStep ==
  ASSUME TypeInv, TypeInv', Piped, VolumeInv, Next
  PROVE  Hand'
<1>0. opened \in Nat /\ opened' \in Nat /\ opened <= opened'
  <2>1. opened' = opened \/ opened' = opened + 1
    BY NextCases, OpenedSteps
  <2> QED
    BY <2>1, PlayerBounds
<1>1. CASE \E p \in Player : BusPop(p)
  <2>1. PICK p \in Player : BusPop(p)
    BY <1>1
  <2>2. /\ bpc' = "handle" /\ bmsg' = Head(bus[p]) /\ bpl' = p /\ bus[p] # <<>>
        /\ bus[p] \in Seq(Messages) /\ bus'[p] = Tail(bus[p]) /\ gst' = gst
    BY <2>1 DEF BusPop, TypeInv, TypeOK
  <2>3. p \in 1 .. opened
    BY <1>0, <2>2 DEF Piped, Player
  <2>4. Head(bus[p]) = "PLAYING" => Flows(p)'
    <3>1. CASE Tail(bus[p]) = <<>>
      <4>1. Len(Tail(bus[p])) = 0
        <5>1. Len(<<>>) = 0
          OBVIOUS
        <5> QED
          BY <3>1, <5>1
      <4>2. Len(bus[p]) = 1 /\ Head(bus[p]) = bus[p][1]
        BY <2>2, <4>1, TailFacts
      <4> QED
        BY <2>2, <4>2 DEF Flows, Piped, InOrder
    <3>2. CASE Tail(bus[p]) # <<>>
      BY <2>2, <3>2 DEF Flows
    <3> QED
      BY <3>1, <3>2
  <2> QED
    BY <1>0, <2>2, <2>3, <2>4 DEF Hand
<1>2. CASE HandleState
  <2>1. /\ bpc = "handle" /\ ~bstale /\ UNCHANGED <<gst, bus, freed, opened>> /\ bpl \in Player
        /\ bpl \in 1 .. opened /\ bpl \notin freed
    BY <1>2, PlayerBounds DEF HandleState, Handling, pipeVars, mapVars, VolumeInv, Hand
  <2>2. CASE bmsg = "PREROLLED"
    BY <1>2, <2>2 DEF HandleState, Handled, Hand
  <2>3. CASE bmsg = "PAUSED"
    <3>1. state'[bpl] = "PAUSED"
      BY <1>2, <2>1, <2>3 DEF HandleState, TypeInv, TypeOK
    <3> QED
      BY <1>2, <2>1, <2>3, <3>1 DEF HandleState, BusGoto, Hand
  <2>4. CASE bmsg = "PLAYING"
    <3>1. bpc' = "tell" /\ UNCHANGED <<bmsg, bpl, bstale>>
      BY <1>2, <2>4 DEF HandleState, BusGoto
    <3>2. bpl \notin Data => Flows(bpl)
      BY <2>1, <2>4 DEF VolumeInv, Hand
    <3> QED
      BY <2>1, <2>4, <3>1, <3>2 DEF Hand, Flows
  <2> QED
    BY <1>2, <2>2, <2>3, <2>4 DEF HandleState
<1>3. CASE bpc' \in {"idle", "stop", "ready"} /\ (bpc' = "idle" \/ (UNCHANGED bpl /\ bpc # "idle"))
  BY <1>0, <1>3 DEF Hand, VolumeInv
<1>4. CASE ~BusStep /\ bpc \in {"handle", "tell"}
  <2> PICK p \in Player : p = bpl
    BY <1>4, PlayerBounds
  <2>0. p \in 1 .. opened /\ p <= opened /\ UNCHANGED <<bpc, bmsg, bpl>>
    BY <1>0, <1>4, OutsideHand DEF VolumeInv, Hand
  <2>1. p \notin freed' => p \notin freed
    BY NextCases, VolumeStories, <1>4
  <2>2. state'[p] = "PLAYING" => state[p] = "PLAYING"
    BY <1>4, <2>0, OutsideBus
  <2>3. bpc = "tell" /\ bmsg = "PAUSED" => state'[p] # "PLAYING"
    BY <2>0, <2>2 DEF VolumeInv, Hand
  <2>4. gst[p] \in {"none", "broken"} => ~Flows(p)
    BY <2>0 DEF Piped, Flows, Silent
  <2>5. ASSUME NEW c \in Callers, Delete(c), pl[c] = p PROVE p \in freed'
    BY <2>5 DEF Delete
  <2>6. ~BusPop(p) /\ ~BusStops
    BY <1>4, <2>0 DEF BusStep
  <2>7. ASSUME bpc = "handle", bmsg = "PLAYING", ~bstale', p \notin Data \cup freed'
        PROVE  Flows(p)'
    <3>1. ~bstale => Flows(p)
      BY <2>1, <2>7 DEF VolumeInv, Hand
    <3>2. ASSUME NEW anew \in BOOLEAN, Silence(p, anew) PROVE ~anew /\ Flows(p)'
      <4>1. ~bstale /\ ~anew
        BY <2>0, <2>7, <3>2 DEF Silence
      <4>2. gst'[p] = "null"
        BY <2>0, <2>4, <3>1, <3>2, <4>1 DEF Silence, TypeInv, TypeOK
      <4> QED
        BY <4>1, <4>2 DEF Flows
    <3>3. ASSUME NEW c \in Callers, CallerStops(c), Stopped(c) = p PROVE Flows(p)'
      BY <3>2, <3>3 DEF CallerStops, StopResets
    <3>4. ASSUME NEW c \in Callers, PlayerSmartVolControl(c), pl[c] = p, ~isPlaying(p) PROVE FALSE
      BY <3>2, <3>4 DEF PlayerSmartVolControl
    <3>5. CASE Silencing(p)
      BY <1>0, <2>0, <2>5, <2>6, <2>7, <3>3, <3>4, <3>5 DEF Silencing
    <3>6. CASE ~Silencing(p)
      BY <1>4, <2>0, <2>6, <2>7, <3>1, <3>6, FlowsOn, OutsideBus
    <3> QED
      BY <3>5, <3>6
  <2>8. ASSUME bpc = "tell", bmsg = "PLAYING", state'[p] = "PLAYING", p \notin Data \cup freed'
        PROVE  Window(p)' \/ Flows(p)'
    <3>1. Window(p) \/ Flows(p)
      BY <2>1, <2>2, <2>8 DEF VolumeInv, Hand
    <3>2. CASE Window(p)
      BY <2>0, <2>8, <3>2, WindowStays, ReadyIsReady
    <3>3. CASE Flows(p) /\ ~Silencing(p)
      BY <2>0, <2>6, <3>3, FlowsOn
    <3>4. CASE Flows(p) /\ Silencing(p)
      <4>1. isPlaying(p)
        BY <2>2, <2>4, <2>8, <3>4 DEF isPlaying
      <4> QED
        BY <1>0, <2>0, <2>5, <2>6, <2>8, <3>4, <4>1, StopsOpenWindow DEF Silencing
    <3> QED
      BY <3>1, <3>2, <3>3, <3>4
  <2> QED
    BY <1>0, <1>4, <2>0, <2>3, <2>7, <2>8 DEF VolumeInv, Hand
<1>5. CASE ~BusStep /\ bpc \notin {"handle", "tell"}
  BY <1>0, <1>5, OutsideHand, PlayerBounds DEF VolumeInv, Hand
<1>6. CASE BusUsesFreed
  <2>1. UNCHANGED <<bpc, bmsg, bpl, bstale, gst, bus, freed, opened, state, cpc, rest, pl>>
    BY <1>6 DEF BusUsesFreed, busVars, pipeVars, mapVars, playerVars, callVars
  <2> QED
    BY <2>1 DEF VolumeInv, Hand, Window, Flows, Stopped
<1> QED
  BY <1>1, <1>2, <1>3, <1>4, <1>5, <1>6
     DEF BusStep, HandleDropped, HandleTell, HandleEos, HandleError, BusStops, BusReady, Handling,
         Handled, BusGoto

THEOREM VolumeInvariant == Spec => []VolumeInv
<1>1. Init => VolumeInv
  <2> SUFFICES ASSUME Init PROVE VolumeInv
    OBVIOUS
  <2> QED
    BY DEF Init, VolumeInv, Setter, Restorers, DockedBy, Hand
<1>2. TypeInv /\ TypeInv' /\ StreamInv /\ VolumeInv /\ [Next]_vars => VolumeInv'
  <2> SUFFICES ASSUME TypeInv, TypeInv', StreamInv, VolumeInv, [Next]_vars PROVE VolumeInv'
    OBVIOUS
  <2>1. CASE Next
    <3>1. Setter'
      <4>1. CASE byBus' /\ volume' # Full
        BY <2>1, <4>1, DockedSteps DEF VolumeInv
      <4> QED
        BY <4>1 DEF Setter
    <3> QED
      BY <2>1, <3>1, RestorersStep, HandStep DEF VolumeInv, StreamInv
  <2>2. CASE UNCHANGED vars
    <3>1. UNCHANGED <<mapVars, playerVars, pipeVars, volumeVars, callVars, busVars>>
      BY <2>2 DEF vars
    <3> QED
      BY <3>1 DEF mapVars, playerVars, pipeVars, volumeVars, callVars, busVars,
         VolumeInv, Setter, Restorers, DockedBy, Restorer, Window, Live, Stopped, Hand, Flows
  <2> QED
    BY <2>1, <2>2
<1> QED
  BY <1>1, <1>2, PlayersInvariant, StreamInvariant, PTL DEF Spec

\* With nothing under way, the primary volume is at its maximum, unless it was a caller or
\* the pusher who had the last word.
THEOREM VolumeIsRestored == Spec => []VolumeRestored
<1>1. TypeInv /\ VolumeInv => VolumeRestored
  <2> SUFFICES ASSUME TypeInv, VolumeInv, Quiet, byBus, volume # Full PROVE FALSE
    BY DEF VolumeRestored
  <2>1. setter \in Player /\ Restorer(setter)
    BY DEF VolumeInv, Setter, Restorers, DockedBy
  <2> QED
    BY <2>1 DEF Quiet, Restorer, Window, Live
<1> QED
  BY <1>1, PlayersInvariant, VolumeInvariant, PTL
===============================================================================
