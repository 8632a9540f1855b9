--------------------------------- MODULE Mpris ---------------------------------
(* Media players: src/src/services/mpris.  A player is another program, seen *)
(* over D-Bus.  It does not tell of its position as that goes on, so the     *)
(* shell computes it from the last one it heard, and asks again whenever     *)
(* something happens that it cannot compute.  Time passes while nothing is   *)
(* under way: a call takes less than the 100 ms that are one tick.           *)
EXTENDS Integers, Sequences, FiniteSets

CONSTANTS
  Rates,       \* playback rates, numbers
  Tracks,      \* track ids
  Positions,   \* positions that are sought, in ticks
  MaxPlayers,  \* bound: times the player's name appears
  MaxTime,     \* bound: ticks
  MaxActs      \* bound: acts of the player and of the user

VARIABLES
  program,     \* the player: there, its state, track, position and rate
  calls,       \* calls and requests it has not handled
  signals,     \* replies and signals the shell has not handled
  now,         \* the clock
  watcher,     \* MprisWatcher: mPlayers, readyPlayers, and players to be deleted
  player,      \* the MprisPlayer of mPlayers
  acts,        \* bound
  lost         \* history: the rate changed, and no position was heard since

mprisVars == <<program, calls, signals, now, watcher, player, acts, lost>>

States == {"Playing", "Paused", "Stopped"}
None   == 0

Call(kind, arg)   == [kind |-> kind, arg |-> arg, to |-> watcher.player]
Signal(kind, arg) == [kind |-> kind, arg |-> arg]

-----------------------------------------------------------------------------
(* The position.                                                             *)

\* Before the first answer; bPlaybackState is Stopped, bpPosition -1.
NewPlayer == [state |-> "Stopped", track |-> None, uniqueId |-> 0, rate |-> 1, position |-> -1,
              lastPositionTimestamp |-> 0, pausedTime |-> 0, timer |-> {}, changedBeforeState |-> FALSE]

\* positionMs().
PositionMs(p) ==
  IF p.position = -1 \/ p.state = "Stopped" THEN 0
  ELSE p.position + p.rate * ((IF p.state = "Paused" THEN p.pausedTime ELSE now) - p.lastPositionTimestamp)

\* setPosition(qlonglong), onPositionUpdated().
SetPosition(p, pos) ==
  [p EXCEPT !.position = pos, !.lastPositionTimestamp = now, !.pausedTime = now]

\* onMetadataChanged(): another track asks for the position.
OnMetadataChanged(p, track) ==
  IF track = p.track THEN p
  ELSE [p EXCEPT !.track = track, !.uniqueId = @ + 1, !.changedBeforeState = TRUE]

\* onPlaybackStatusUpdated(): now and in 100 ms the position is asked for, and the
\* metadata again if they came before.
OnPlaybackStatusUpdated(p, state) ==
  [p EXCEPT !.state = state, !.timer = @ \cup {now + 1}, !.changedBeforeState = FALSE]

GetPosition == Call("GetPosition", None)
GetMetadata == Call("GetMetadata", None)

-----------------------------------------------------------------------------
(* The program (external).                                                   *)

Acts == acts < MaxActs /\ acts' = acts + 1

\* What the shell hears of it.
Tell(s) == signals' = IF watcher.player = None THEN signals ELSE Append(signals, s)

ProgramActs ==
  /\ program.there /\ Acts
  /\ \/ \E s \in States \ {program.state} :
          /\ program' = [program EXCEPT !.state = s, !.position = IF s = "Stopped" THEN 0 ELSE @]
          /\ Tell(Signal("PlaybackStatus", s)) /\ UNCHANGED lost
     \/ \E t \in Tracks \ {program.track} :
          /\ program' = [program EXCEPT !.track = t, !.position = 0]
          /\ Tell(Signal("Metadata", t)) /\ UNCHANGED lost
     \/ \E r \in Rates \ {program.rate} :
          /\ program' = [program EXCEPT !.rate = r]
          /\ Tell(Signal("Rate", r)) /\ lost' = TRUE
     \/ \E pos \in Positions :
          /\ program.state # "Stopped"
          /\ program' = [program EXCEPT !.position = pos]
          /\ Tell(Signal("Seeked", pos)) /\ UNCHANGED lost
  /\ UNCHANGED <<calls, now, watcher, player>>

\* Calls are handled in order.  A position that is set for another track is ignored.
ProgramHandles ==
  /\ calls # <<>> /\ calls' = Tail(calls)
  /\ LET c == Head(calls)
         is(kind) == program.there /\ c.kind = kind
         live(reply) == program' = program /\ signals' = Append(signals, reply)
     IN \/ /\ is("GetAll") /\ live(Signal("All", <<c.to, program>>))
        \/ /\ is("GetPosition") /\ live(Signal("Position", program.position))
        \/ /\ is("GetMetadata") /\ live(Signal("Metadata", program.track))
        \/ /\ is("Do") /\ program.state # c.arg
           /\ program' = [program EXCEPT !.state = c.arg, !.position = IF c.arg = "Stopped" THEN 0 ELSE @]
           /\ Tell(Signal("PlaybackStatus", c.arg))
        \/ /\ is("SetPosition") /\ c.arg[1] = program.track /\ program.state # "Stopped"
           /\ program' = [program EXCEPT !.position = c.arg[2]] /\ Tell(Signal("Seeked", c.arg[2]))
        \/ /\ \/ ~program.there
              \/ is("Do") /\ program.state = c.arg
              \/ is("SetPosition") /\ (c.arg[1] # program.track \/ program.state = "Stopped")
           /\ UNCHANGED <<program, signals>>
  /\ UNCHANGED <<now, watcher, player, acts, lost>>

-----------------------------------------------------------------------------
(* The watcher.                                                              *)

\* onServiceRegistered(), registerPlayer(): everything is asked for at once.
OnServiceRegistered ==
  /\ ~program.there /\ watcher.made < MaxPlayers
  /\ \E s \in States :
       program' = [there |-> TRUE, state |-> s, track |-> CHOOSE t \in Tracks : TRUE,
                   position |-> 0, rate |-> 1]
  /\ watcher' = [watcher EXCEPT !.made = @ + 1, !.player = watcher.made + 1]
  /\ player' = NewPlayer /\ lost' = FALSE
  /\ calls' = <<[kind |-> "GetAll", arg |-> None, to |-> watcher.made + 1]>>
  /\ UNCHANGED <<signals, now, acts>>

\* onServiceUnregistered(): deleteLater().  What was under way to it comes before that.
OnServiceUnregistered ==
  /\ program.there /\ program' = [program EXCEPT !.there = FALSE]
  /\ watcher' = [watcher EXCEPT !.player = None, !.doomed = @ \cup {watcher.player}]
  /\ calls' = <<>> /\ signals' = SelectSeq(signals, LAMBDA s : s.kind = "All")
  /\ player' = NewPlayer /\ lost' = FALSE /\ UNCHANGED <<now, acts>>

\* onPlayerDestroyed().
OnPlayerDestroyed(id) ==
  /\ id \in watcher.doomed /\ \A i \in DOMAIN signals : signals[i].kind = "All" => signals[i].arg[1] # id
  /\ watcher' = [watcher EXCEPT !.doomed = @ \ {id}, !.ready = @ \ {id}]
  /\ UNCHANGED <<program, calls, signals, now, player, acts, lost>>

-----------------------------------------------------------------------------
(* The player.                                                               *)

\* onGetAllFinished(): ready(), and onPlayerReady().
OnGetAllFinished(id, all) ==
  /\ watcher' = [watcher EXCEPT !.ready = @ \cup {id}]
  /\ IF id # watcher.player THEN UNCHANGED <<player, calls>>
     ELSE /\ player' = OnPlaybackStatusUpdated(
                         OnMetadataChanged(SetPosition([player EXCEPT !.rate = all.rate], all.position),
                                           all.track), all.state)
          /\ calls' = calls \o <<GetPosition, GetPosition, GetMetadata>>

\* A reply or a signal.
Handle ==
  /\ signals # <<>> /\ signals' = Tail(signals)
  /\ LET s == Head(signals)
         is(kind) == s.kind = kind /\ UNCHANGED watcher
     IN \/ s.kind = "All" /\ OnGetAllFinished(s.arg[1], s.arg[2]) /\ UNCHANGED lost
        \/ /\ is("PlaybackStatus") /\ player' = OnPlaybackStatusUpdated(player, s.arg)
           /\ calls' = calls \o <<GetPosition>> \o
                       (IF player.changedBeforeState THEN <<GetMetadata>> ELSE <<>>)
           /\ UNCHANGED lost
        \/ /\ is("Metadata") /\ player' = OnMetadataChanged(player, s.arg)
           /\ calls' = IF s.arg # player.track THEN Append(calls, GetPosition) ELSE calls
           /\ UNCHANGED lost
        \/ /\ is("Rate") /\ player' = [player EXCEPT !.rate = s.arg] /\ UNCHANGED <<calls, lost>>
        \/ /\ (is("Position") \/ is("Seeked")) /\ player' = SetPosition(player, s.arg)
           /\ lost' = \E i \in 2..Len(signals) : signals[i].kind = "Rate"
           /\ UNCHANGED calls
  /\ UNCHANGED <<program, now, acts>>

\* Time passes, and the timers of onPlaybackStatusUpdated() fire.
Tick ==
  /\ calls = <<>> /\ signals = <<>> /\ now < MaxTime /\ now' = now + 1
  /\ program' = IF program.there /\ program.state = "Playing"
                THEN [program EXCEPT !.position = @ + program.rate] ELSE program
  /\ player' = [player EXCEPT !.timer = @ \ {now + 1}]
  /\ calls' = IF now + 1 \in player.timer THEN <<GetPosition>> ELSE <<>>
  /\ UNCHANGED <<signals, watcher, acts, lost>>

\* setPlaybackState(), play(), pause(), stop().
SetPlaybackState(s) ==
  /\ watcher.player # None /\ s # player.state /\ Acts
  /\ calls' = Append(calls, Call("Do", s))
  /\ UNCHANGED <<program, signals, now, watcher, player, lost>>

\* setPosition(qreal): the new position is shown at once.
UserSetsPosition(pos) ==
  /\ watcher.player # None /\ player.position # -1 /\ Acts
  /\ calls' = Append(calls, Call("SetPosition", <<player.track, pos>>))
  /\ player' = SetPosition(player, pos)
  /\ UNCHANGED <<program, signals, now, watcher, lost>>

-----------------------------------------------------------------------------
Init ==
  /\ program = [there |-> FALSE, state |-> "Stopped", track |-> CHOOSE t \in Tracks : TRUE,
                position |-> 0, rate |-> 1]
  /\ calls = <<>> /\ signals = <<>> /\ now = 0 /\ acts = 0 /\ lost = FALSE
  /\ watcher = [player |-> None, ready |-> {}, doomed |-> {}, made |-> 0] /\ player = NewPlayer

Next ==
  \/ ProgramActs \/ ProgramHandles \/ Handle \/ Tick
  \/ OnServiceRegistered \/ OnServiceUnregistered
  \/ \E id \in watcher.doomed : OnPlayerDestroyed(id)
  \/ \E s \in States : SetPlaybackState(s)
  \/ \E pos \in Positions : UserSetsPosition(pos)

-----------------------------------------------------------------------------
\* The players shown exist: those that go are shown no longer than they are there
\* (watcher.cpp:66, :76, :81).
ShownPlayersExist == watcher.ready \subseteq ({watcher.player} \cup watcher.doomed) \ {None}

AtRest == calls = <<>> /\ signals = <<>> /\ watcher.doomed = {}

\* At rest the players that run are shown, with the state, track and position that they
\* have, however long they played or were paused: except that the rate changed and the
\* position was not heard since, which is then computed at the new rate (player.cpp:181).
ShowsPosition ==
  AtRest => /\ watcher.ready = {watcher.player} \ {None}
            /\ program.there => /\ player.state = program.state /\ player.track = program.track
                                /\ lost \/ player.state = "Stopped" \/ PositionMs(player) = program.position
=============================================================================
