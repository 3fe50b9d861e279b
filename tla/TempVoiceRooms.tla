---------------------------- MODULE TempVoiceRooms ----------------------------
(***************************************************************************)
(* Temporary voice rooms (integrations/discord/temp_voice.py over          *)
(* services/temp_voice.py).  Who joins a creator's lobby gets a room: a    *)
(* channel, a durable row with the room's owner, and the move into it.     *)
(* When the last person leaves, the row notes it and a deletion task       *)
(* removes channel and row once the recovery window has passed.            *)
(*                                                                         *)
(* What the people do reaches the process as events, each handled by a     *)
(* task of its own, and events get missed.  A reconciliation visits all    *)
(* registered rooms at the start and every five minutes.  Handlers,        *)
(* reconciliation and deletion tasks share a lock per room; each action    *)
(* below is what a task does between two awaits, with the transaction it   *)
(* ends in.  The process can end anywhere and starts again with the rows.  *)
(*                                                                         *)
(* Names, limits, access and saved profiles of rooms, the panels, and the  *)
(* audio session that is suspended before a deletion are left out (the     *)
(* awaits of that suspension are kept).                                    *)
(***************************************************************************)
EXTENDS Naturals

CONSTANTS
    Rooms,       \* ids of channels, each used for one room
    Members,     \* people
    Handlers,    \* bound: tasks that handle events at the same time
    Recon,       \* the reconciliation, a task
    Lobby,       \* the creator's channel
    Away,        \* where a member is who is in no voice channel
    Nobody,      \* no member, or no room
    MaxMoves,    \* bound: movements and commands of people
    MaxTroubles  \* bound: requests that fail, channels deleted by hand, restarts

RoomTasks == Handlers \union {Recon}

ASSUME RoomAssumption ==
    /\ Recon \notin Handlers
    /\ Lobby \notin Rooms /\ Away \notin Rooms \union {Lobby}
    /\ Members # {} /\ Nobody \notin Rooms \union Members
    /\ MaxMoves \in Nat /\ MaxTroubles \in Nat

VARIABLES
    place,    \* where each member is
    chan,     \* the channels: not made yet, there, or deleted
    row,      \* temp_voice_rooms: the owner, and since when a room is empty
    task,     \* the handlers and the reconciliation
    sweep,    \* the deletion task of each room
    moves, troubles,  \* counted for the bounds
    kept,     \* history: rooms that were made permanent
    stray     \* history: channels whose creation or rollback was cut off

durable == <<chan, row>>
bounds == <<moves, troubles>>
history == <<kept, stray>>
roomVars == <<place, durable, task, sweep, bounds, history>>

NoRow == [owner |-> Nobody, since |-> "none"]
Occupied(m) == [owner |-> m, since |-> "occupied"]
Free == [at |-> "free", who |-> Nobody, room |-> Nobody, left |-> Nobody,
         list |-> {}, heir |-> Nobody]

\* Where a handler can be, by its event: a movement, then the creation or
\* recovery it may lead to; a deleted channel; two commands of the panel.
Entering == {"join", "depart"}
Creating == {"create", "scan", "recover", "move", "moved", "unmoved", "make",
             "register", "place", "unmake", "unregister"}
Others == {"vanish", "forget", "keep", "hand"}
\* Where a task holds its room's lock.
Holding == {"heir"}
SweepStates == {"none", "look", "wait", "prepare", "delete", "finish", "exit"}
SweepHolding == {"prepare", "delete", "finish"}

RoomTypeOK ==
    /\ place \in [Members -> Rooms \union {Lobby, Away}]
    /\ chan \in [Rooms -> {"none", "up", "gone"}]
    /\ row \in [Rooms -> {NoRow} \union
            [owner : Members, since : {"occupied", "fresh", "due"}]]
    /\ task \in [RoomTasks ->
            [at : {"free"} \union Entering \union Creating \union Others \union Holding,
             who : Members \union {Nobody}, room : Rooms \union {Lobby, Away, Nobody},
             left : Rooms \union {Lobby, Away, Nobody}, list : SUBSET Rooms,
             heir : Members \union {Nobody}]]
    /\ sweep \in [Rooms -> SweepStates]
    /\ moves \in 0 .. MaxMoves
    /\ troubles \in 0 .. MaxTroubles
    /\ kept \in SUBSET Rooms /\ stray \in SUBSET Rooms

\* The process starts over the registry of an earlier life, in which the rooms
\* were last seen occupied.  Members are alike: any of them may own the rooms.
Someone == CHOOSE m \in Members : TRUE

RoomInit ==
    /\ \E known \in SUBSET Rooms :
        /\ chan = [r \in Rooms |-> IF r \in known THEN "up" ELSE "none"]
        /\ row = [r \in Rooms |-> IF r \in known THEN Occupied(Someone) ELSE NoRow]
        /\ place \in [Members -> known \union {Lobby, Away}]
    /\ task = [t \in RoomTasks |-> Free]
    /\ sweep = [r \in Rooms |-> "none"]
    /\ moves = 0 /\ troubles = 0
    /\ kept = {} /\ stray = {}

In(r) == {m \in Members : place[m] = r}
Registered(r) == row[r] # NoRow
Empty(r) == row[r].since \in {"fresh", "due"}
Locked(r) == \/ \E t \in RoomTasks : task[t].at \in Holding /\ task[t].room = r
             \/ sweep[r] \in SweepHolding
InFlight(r) == sweep[r] \in {"delete", "finish"}

-------------------------------------------------------------------------------
(* The transactions of the registry, and the table of deletion tasks       *)

MarkOccupied(r) == row' = [row EXCEPT ![r].since = "occupied"]
MarkEmpty(r) == row' = [row EXCEPT ![r].since = IF @ = "occupied" THEN "fresh" ELSE @]
Transfer(r, m) == row' = [row EXCEPT ![r].owner = m]
FinishRooms(gone) == row' = [r \in Rooms |-> IF r \in gone THEN NoRow ELSE row[r]]

\* A task that has not ended stays; otherwise there is a new one.
Schedule(r) == sweep' = [sweep EXCEPT ![r] = IF @ = "none" THEN "look" ELSE @]
Cancel(r) == sweep' = [sweep EXCEPT ![r] = "none"]

Goto(t, at) == task' = [task EXCEPT ![t].at = at]
Done(t) == task' = [task EXCEPT ![t] = Free]
Fails == troubles < MaxTroubles /\ troubles' = troubles + 1

-------------------------------------------------------------------------------
(* What happens at Discord: people, events, channels                       *)

\* The tasks after a step in which t goes on as told and an event reaches a
\* handler that is free, or nobody (a missed event).
Deliver(after, event) ==
    \/ task' = after
    \/ \E h \in Handlers :
        after[h].at = "free" /\ task' = [after EXCEPT ![h] = event]

\* What a movement's handler does first depends on the channel entered, then on
\* the one left: a registered room, the creator's lobby, or any other.
Departed(r) == IF r \in Rooms /\ Registered(r)
               THEN [Free EXCEPT !.at = "depart", !.room = r] ELSE Free
Moved(m, to) ==
    CASE to = Lobby -> [Free EXCEPT !.at = "create", !.who = m, !.left = place[m]]
      [] to \in Rooms /\ Registered(to) ->
            [Free EXCEPT !.at = "join", !.room = to, !.left = place[m]]
      [] OTHER -> Departed(place[m])

\* On to the second half of a movement's handler, about the channel left; the
\* other tasks are done.
Rest(t) == Departed(task[t].left)
GoOn(t) == task' = [task EXCEPT ![t] = Rest(t)]

Vanished(r) == [Free EXCEPT !.at = "vanish", !.room = r]

\* A channel disappears: who is in it is in no voice channel any more.
RemoveChannel(r) ==
    /\ chan' = [chan EXCEPT ![r] = "gone"]
    /\ place' = [m \in Members |-> IF place[m] = r THEN Away ELSE place[m]]

Move(m, to) ==
    /\ moves < MaxMoves
    /\ to # place[m]
    /\ to \in Rooms => chan[to] = "up"
    /\ place' = [place EXCEPT ![m] = to]
    /\ moves' = moves + 1
    /\ Deliver(task, Moved(m, to))
    /\ UNCHANGED <<durable, sweep, troubles, history>>

\* Somebody deletes the channel by hand.
Wreck(r) ==
    /\ chan[r] = "up"
    /\ Fails
    /\ RemoveChannel(r)
    /\ Deliver(task, Vanished(r))
    /\ UNCHANGED <<row, sweep, moves, history>>

-------------------------------------------------------------------------------
(* on_voice_state_update: the room that was entered                        *)

\* Whoever holds the lock marks the room, and then hands it over, after a
\* request to Discord, to somebody who was seen in it, if the owner was not.
HandOver(t, r) ==
    IF In(r) = {} \/ row[r].owner \in In(r) THEN GoOn(t)
    ELSE \E m \in In(r) : task' =
            [task EXCEPT ![t] = [@ EXCEPT !.at = "heir", !.room = r, !.heir = m]]

\* A join marks the room occupied without a look at who is in it.
Join(h) ==
    LET r == task[h].room
    IN  /\ task[h].at = "join" /\ ~Locked(r)
        /\ IF Registered(r)
           THEN Cancel(r) /\ MarkOccupied(r) /\ HandOver(h, r)
           ELSE GoOn(h) /\ UNCHANGED <<row, sweep>>
        /\ UNCHANGED <<place, chan, bounds, history>>

Heir(t) ==
    LET r == task[t].room
    IN  /\ task[t].at = "heir"
        /\ \/ /\ Registered(r) /\ Transfer(r, task[t].heir) /\ GoOn(t)
              /\ UNCHANGED troubles
           \/ ~Registered(r) /\ Done(t) /\ UNCHANGED <<row, troubles>>
           \/ Fails /\ Done(t) /\ UNCHANGED row
        /\ UNCHANGED <<place, chan, sweep, moves, history>>

-------------------------------------------------------------------------------
(* The room that was left, and the visits of the reconciliation            *)

Visit(r) ==
    /\ task[Recon].at = "free" /\ Registered(r)
    /\ task' = [task EXCEPT ![Recon] = [Free EXCEPT !.at = "depart", !.room = r]]
    /\ UNCHANGED <<place, durable, sweep, bounds, history>>

\* Mutant of Depart: only a room that is newly marked empty gets a task.
DepartNewlyEmpty(t) ==
    LET r == task[t].room
    IN  /\ task[t].at = "depart" /\ ~Locked(r)
        /\ CASE ~Registered(r) -> Done(t) /\ UNCHANGED <<row, sweep>>
             [] Registered(r) /\ t = Recon /\ chan[r] = "gone" ->
                  Cancel(r) /\ FinishRooms({r}) /\ Done(t)
             [] Registered(r) /\ In(r) # {} ->
                  Cancel(r) /\ MarkOccupied(r) /\ HandOver(t, r)
             [] Empty(r) -> Done(t) /\ UNCHANGED <<row, sweep>>
             [] OTHER -> MarkEmpty(r) /\ Schedule(r) /\ Done(t)
        /\ UNCHANGED <<place, chan, bounds, history>>

Depart(t) ==
    LET r == task[t].room
    IN  /\ task[t].at = "depart" /\ ~Locked(r)
        /\ CASE ~Registered(r) -> Done(t) /\ UNCHANGED <<row, sweep>>
             [] Registered(r) /\ t = Recon /\ chan[r] = "gone" ->
                  Cancel(r) /\ FinishRooms({r}) /\ Done(t)
             [] Registered(r) /\ In(r) # {} ->
                  Cancel(r) /\ MarkOccupied(r) /\ HandOver(t, r)
             [] OTHER -> MarkEmpty(r) /\ Schedule(r) /\ Done(t)
        /\ UNCHANGED <<place, chan, bounds, history>>

-------------------------------------------------------------------------------
(* Creation or recovery of a room, under the lock of the member            *)

InLine(h) == \E o \in Handlers \ {h} :
    task[o].who = task[h].who /\ task[o].at \in Creating \ {"create"}

Create(h) ==
    /\ task[h].at = "create" /\ ~InLine(h)
    /\ IF place[task[h].who] = Lobby THEN Goto(h, "scan") ELSE GoOn(h)
    /\ UNCHANGED <<place, durable, sweep, bounds, history>>

\* Rooms without a channel are finished on the way; a room with people in it
\* refuses the creation, before or after some of them.
Scan(h) ==
    LET owned == {r \in Rooms : row[r].owner = task[h].who}
        missing == {r \in owned : chan[r] = "gone"}
    IN  /\ task[h].at = "scan"
        /\ \/ /\ \E r \in owned : In(r) # {}
              /\ \E some \in SUBSET missing : FinishRooms(some)
              /\ GoOn(h)
           \/ /\ \A r \in owned : In(r) = {}
              /\ FinishRooms(missing)
              /\ task' = [task EXCEPT ![h].at = "recover", ![h].list = owned \ missing]
        /\ UNCHANGED <<place, chan, sweep, bounds, history>>

\* The first room still registered and empty is taken; its deletion is called
\* off, and its lock given back.
Recover(h) ==
    /\ task[h].at = "recover"
    /\ \/ task[h].list = {} /\ Goto(h, "make") /\ UNCHANGED sweep
       \/ \E r \in task[h].list :
            /\ ~Locked(r)
            /\ IF Registered(r) /\ In(r) = {}
               THEN /\ Cancel(r)
                    /\ task' = [task EXCEPT ![h].at = "move", ![h].room = r, ![h].list = {}]
               ELSE /\ task' = [task EXCEPT ![h].list = @ \ {r}]
                    /\ UNCHANGED sweep
    /\ UNCHANGED <<place, durable, bounds, history>>

\* The member is moved, from wherever they are by now; next is the handler's
\* record if that worked, other if it did not.
MoveMember(h, next, other) ==
    LET r == task[h].room
        m == task[h].who
    IN  /\ \/ /\ chan[r] = "up" /\ place[m] # Away
              /\ place' = [place EXCEPT ![m] = r]
              /\ IF place[m] = r THEN task' = [task EXCEPT ![h] = next]
                 ELSE Deliver([task EXCEPT ![h] = next], Moved(m, r))
              /\ UNCHANGED troubles
           \/ /\ IF chan[r] = "gone" \/ place[m] = Away THEN UNCHANGED troubles ELSE Fails
              /\ task' = [task EXCEPT ![h] = other]
              /\ UNCHANGED place
        /\ UNCHANGED <<durable, sweep, moves, history>>

MoveBack(h) ==
    /\ task[h].at = "move"
    /\ MoveMember(h, [task[h] EXCEPT !.at = "moved"], [task[h] EXCEPT !.at = "unmoved"])

Recovered(h) ==
    LET r == task[h].room
    IN  /\ task[h].at = "moved" /\ ~Locked(r)
        /\ IF Registered(r) THEN MarkOccupied(r) ELSE UNCHANGED row
        /\ GoOn(h)
        /\ UNCHANGED <<place, chan, sweep, bounds, history>>

\* Discord's error ends the handler: the channel left is not looked at.
NotRecovered(h) ==
    LET r == task[h].room
    IN  /\ task[h].at = "unmoved" /\ ~Locked(r)
        /\ CASE Registered(r) /\ In(r) # {} -> MarkOccupied(r) /\ UNCHANGED sweep
             [] Registered(r) /\ In(r) = {} -> MarkEmpty(r) /\ Schedule(r)
             [] OTHER -> UNCHANGED <<row, sweep>>
        /\ Done(h)
        /\ UNCHANGED <<place, chan, bounds, history>>

\* With no id left the category is full, which refuses the creation.
Make(h) ==
    LET new == {r \in Rooms : chan[r] = "none"}
    IN  /\ task[h].at = "make"
        /\ \/ new = {} /\ GoOn(h) /\ UNCHANGED <<chan, troubles>>
           \/ /\ \E r \in new :
                    /\ chan' = [chan EXCEPT ![r] = "up"]
                    /\ task' = [task EXCEPT ![h].at = "register", ![h].room = r]
              /\ UNCHANGED troubles
           \/ new # {} /\ Fails /\ Done(h) /\ UNCHANGED chan
        /\ UNCHANGED <<place, row, sweep, moves, history>>

Register(h) ==
    /\ task[h].at = "register"
    /\ \/ /\ row' = [row EXCEPT ![task[h].room] = Occupied(task[h].who)]
          /\ Goto(h, "place") /\ UNCHANGED troubles
       \/ Fails /\ Goto(h, "unmake") /\ UNCHANGED row
    /\ UNCHANGED <<place, chan, sweep, moves, history>>

PlaceOwner(h) ==
    /\ task[h].at = "place"
    /\ MoveMember(h, Rest(h), [task[h] EXCEPT !.at = "unmake"])

\* The rollback deletes the channel, whoever is in it; an error is ignored.
Unmake(h) ==
    LET r == task[h].room
        next == [task EXCEPT ![h].at = "unregister"]
    IN  /\ task[h].at = "unmake"
        /\ \/ chan[r] = "gone" /\ task' = next /\ UNCHANGED <<place, chan, troubles, stray>>
           \/ /\ chan[r] = "up" /\ RemoveChannel(r) /\ Deliver(next, Vanished(r))
              /\ UNCHANGED <<troubles, stray>>
           \/ /\ chan[r] = "up" /\ Fails /\ task' = next
              /\ stray' = stray \union {r}
              /\ UNCHANGED <<place, chan>>
        /\ UNCHANGED <<row, sweep, moves, kept>>

Unregister(h) ==
    /\ task[h].at = "unregister"
    /\ FinishRooms({task[h].room})
    /\ Done(h)
    /\ UNCHANGED <<place, chan, sweep, bounds, history>>

-------------------------------------------------------------------------------
(* on_guild_channel_delete, which takes no lock, and two commands          *)

Vanish(h) ==
    LET r == task[h].room
    IN  /\ task[h].at = "vanish"
        /\ IF ~Registered(r) \/ InFlight(r) THEN Done(h) /\ UNCHANGED sweep
           ELSE Goto(h, "forget") /\ Cancel(r)
        /\ UNCHANGED <<place, durable, bounds, history>>

Forget(h) ==
    /\ task[h].at = "forget"
    /\ FinishRooms({task[h].room})
    /\ Done(h)
    /\ UNCHANGED <<place, chan, sweep, bounds, history>>

\* Who gives a command is in the room, and so is who is to have it: both are
\* checked before the lock is waited for.
Command(h, m, event) ==
    /\ task[h].at = "free" /\ moves < MaxMoves
    /\ place[m] \in Rooms /\ Registered(place[m])
    /\ task' = [task EXCEPT ![h] = event]
    /\ moves' = moves + 1
    /\ UNCHANGED <<place, durable, sweep, troubles, history>>

\* The panel of the lobby offers what joining it may have failed to do.
AskCreate(h, m) ==
    /\ task[h].at = "free" /\ moves < MaxMoves /\ moves' = moves + 1
    /\ place[m] = Lobby
    /\ task' = [task EXCEPT ![h] = [Free EXCEPT !.at = "create", !.who = m]]
    /\ UNCHANGED <<place, durable, sweep, troubles, history>>

AskKeep(h, m) == Command(h, m, [Free EXCEPT !.at = "keep", !.room = place[m]])

AskHand(h, m, to) ==
    /\ place[to] = place[m] /\ place[m] \in Rooms => row[place[m]].owner # to
    /\ Command(h, m, [Free EXCEPT !.at = "hand", !.room = place[m], !.heir = to])

KeepPermanent(h) ==
    LET r == task[h].room
    IN  /\ task[h].at = "keep" /\ ~Locked(r)
        /\ Cancel(r)
        /\ FinishRooms({r})
        /\ kept' = IF Registered(r) THEN kept \union {r} ELSE kept
        /\ Done(h)
        /\ UNCHANGED <<place, chan, bounds, stray>>

Hand(h) ==
    LET r == task[h].room
    IN  /\ task[h].at = "hand" /\ ~Locked(r)
        /\ IF Registered(r) THEN Transfer(r, task[h].heir) ELSE UNCHANGED row
        /\ Done(h)
        /\ UNCHANGED <<place, chan, sweep, bounds, history>>

-------------------------------------------------------------------------------
(* The deletion task of a room: _delete_empty_room                         *)

SweepTo(r, at) == sweep' = [sweep EXCEPT ![r] = at]

\* The task sleeps until the window has passed, or for a minute after an error,
\* and goes by the row it reads then.
Look(r) ==
    /\ sweep[r] = "look"
    /\ row' = [row EXCEPT ![r].since = IF @ = "fresh" THEN "due" ELSE @]
    /\ SweepTo(r, IF Empty(r) THEN "wait" ELSE "exit")
    /\ UNCHANGED <<place, chan, task, bounds, history>>

Recheck(r) ==
    /\ sweep[r] = "wait" /\ ~Locked(r)
    /\ \/ ~Empty(r) /\ SweepTo(r, "exit") /\ UNCHANGED row
       \/ Empty(r) /\ chan[r] = "gone" /\ FinishRooms({r}) /\ SweepTo(r, "exit")
       \/ /\ Empty(r) /\ chan[r] = "up" /\ In(r) # {}
          /\ MarkOccupied(r) /\ SweepTo(r, "exit")
       \/ /\ Empty(r) /\ chan[r] = "up" /\ In(r) = {}
          /\ SweepTo(r, "prepare") /\ UNCHANGED row
    /\ UNCHANGED <<place, chan, task, bounds, history>>

\* Mutants of AskDeletion: people are not looked for again; the row is finished
\* before the channel is deleted.
AskDeletionBlind(r) ==
    /\ sweep[r] = "prepare"
    /\ SweepTo(r, "delete")
    /\ UNCHANGED <<place, durable, task, bounds, history>>

AskDeletionFinishes(r) ==
    /\ sweep[r] = "prepare"
    /\ SweepTo(r, IF In(r) = {} THEN "delete" ELSE "exit")
    /\ FinishRooms({r})
    /\ UNCHANGED <<place, chan, task, bounds, history>>

\* The audio session has been suspended meanwhile, and people looked for again.
AskDeletion(r) ==
    /\ sweep[r] = "prepare"
    /\ IF In(r) = {} THEN SweepTo(r, "delete") /\ UNCHANGED row
       ELSE /\ SweepTo(r, "exit")
            /\ IF Registered(r) THEN MarkOccupied(r) ELSE UNCHANGED row
    /\ UNCHANGED <<place, chan, task, bounds, history>>

Deleted(r) ==
    /\ sweep[r] = "delete" /\ chan[r] = "up"
    /\ RemoveChannel(r)
    /\ Deliver(task, Vanished(r))
    /\ SweepTo(r, "finish")
    /\ UNCHANGED <<row, bounds, history>>

NotDeleted(r) ==
    /\ sweep[r] = "delete"
    /\ IF chan[r] = "gone" THEN UNCHANGED troubles ELSE Fails
    /\ SweepTo(r, "look")
    /\ UNCHANGED <<place, durable, task, moves, history>>

Finish(r) ==
    /\ sweep[r] = "finish"
    /\ FinishRooms({r})
    /\ SweepTo(r, "exit")
    /\ UNCHANGED <<place, chan, task, bounds, history>>

\* The lock was given back before: until here the task counts as not ended.
Exit(r) ==
    /\ sweep[r] = "exit"
    /\ SweepTo(r, "none")
    /\ UNCHANGED <<place, durable, task, bounds, history>>

\* A new recovery window replaces the deletion tasks of the rooms that were
\* read as empty, without their locks.  What the old task had asked for may or
\* may not happen.
Reschedule(r) ==
    /\ moves < MaxMoves /\ moves' = moves + 1
    /\ chan[r] # "none"
    /\ SweepTo(r, "look")
    /\ \/ UNCHANGED <<place, durable, task>>
       \/ /\ sweep[r] = "delete" /\ chan[r] = "up"
          /\ RemoveChannel(r) /\ Deliver(task, Vanished(r)) /\ UNCHANGED row
       \/ sweep[r] = "finish" /\ FinishRooms({r}) /\ UNCHANGED <<place, chan, task>>
    /\ UNCHANGED <<troubles, history>>

\* The process ends and starts again.
Restart ==
    /\ Fails
    /\ task' = [t \in RoomTasks |-> Free]
    /\ sweep' = [r \in Rooms |-> "none"]
    /\ stray' = stray \union {r \in Rooms : chan[r] = "up" /\ ~Registered(r) /\ r \notin kept}
    /\ UNCHANGED <<place, durable, moves, kept>>

-------------------------------------------------------------------------------

HandlerStep(h) ==
    \/ Join(h) \/ Create(h) \/ Scan(h) \/ Recover(h) \/ MoveBack(h) \/ Recovered(h) \/ NotRecovered(h)
    \/ Make(h) \/ Register(h) \/ PlaceOwner(h) \/ Unmake(h) \/ Unregister(h)
    \/ Vanish(h) \/ Forget(h) \/ KeepPermanent(h) \/ Hand(h)

LockedStep(t) == Heir(t) \/ Depart(t)

SweepStep(r) ==
    \/ Look(r) \/ Recheck(r) \/ AskDeletion(r)
    \/ Deleted(r) \/ NotDeleted(r) \/ Finish(r) \/ Exit(r)

RoomNext ==
    \/ \E m \in Members, to \in Rooms \union {Lobby, Away} : Move(m, to)
    \/ \E r \in Rooms : Wreck(r) \/ Visit(r) \/ Reschedule(r) \/ SweepStep(r)
    \/ \E h \in Handlers, m \in Members :
         AskCreate(h, m) \/ AskKeep(h, m) \/ \E to \in Members : AskHand(h, m, to)
    \/ \E h \in Handlers : HandlerStep(h)
    \/ \E t \in RoomTasks : LockedStep(t)
    \/ Restart

RoomSpec == RoomInit /\ [][RoomNext]_roomVars

\* Tasks run, the reconciliation visits every room, time passes.  Whoever waits
\* for a lock gets it (WaiterServed of KeyedAsyncLockPool), although others
\* take it again and again.
RoomFairness ==
    /\ \A h \in Handlers : SF_roomVars(HandlerStep(h) \/ LockedStep(h))
    /\ SF_roomVars(LockedStep(Recon))
    /\ \A r \in Rooms : SF_roomVars(Visit(r)) /\ SF_roomVars(SweepStep(r))

RoomFairSpec == RoomSpec /\ RoomFairness

-------------------------------------------------------------------------------

AsksDeletion(r) == sweep[r] # "delete" /\ sweep'[r] = "delete" /\ chan[r] = "up"

\* Deletion on expiry is asked for only for a room nobody is in, that nobody
\* made permanent, and that is still marked empty, although row, people and
\* lock change hands between the look at the row and the request.  (A channel
\* whose rollback failed may still be removed by the task of its late row.)
ExpiryJustified ==
    [][\A r \in Rooms : AsksDeletion(r) =>
            In(r) = {} /\ r \notin kept /\ (Empty(r) \/ r \in stray)]_roomVars

\* The recovery window has passed for every room whose deletion is asked for.
\* (It need not: the row is read again under the lock, but not the window of a
\* room that was entered and left while the task waited for the lock.)
WindowKept == [][\A r \in Rooms : AsksDeletion(r) => row[r].since = "due"]_roomVars

\* A channel the bot has made stays registered, and so can be removed one day,
\* as long as it exists: unless it was made permanent, it is just being made or
\* taken back, or the process ended (a request failed) in the middle of that.
Tracked ==
    \A r \in Rooms : chan[r] = "up" /\ ~Registered(r) =>
        \/ r \in kept \union stray
        \/ \E h \in Handlers :
              task[h].room = r /\ task[h].at \in {"register", "unmake", "unregister"}

\* Once people stay where they are, every room that remains registered has
\* somebody in it, its owner among them: empty rooms and rows without a channel
\* go, and ownership reaches somebody present, whatever events were missed,
\* handled late or cut off by a restart.  Two rooms then have two owners.
RoomsSettle ==
    <>[](\A r \in Rooms : Registered(r) => row[r].owner \in In(r))

===============================================================================
