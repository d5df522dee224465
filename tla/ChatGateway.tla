---------------------------- MODULE ChatGateway ----------------------------
(***************************************************************************)
(* The WebSocket side of one chat room: the handshake, the in-process      *)
(* ConnectionManager, the receive loop, and the sweeps that close sockets  *)
(* when access is taken away (app/routers/chat.py,                         *)
(* app/services/chat_connections.py, and the callers of its kicks).        *)
(*                                                                         *)
(* Everything runs in one process on one event loop, so code between two   *)
(* awaits is atomic and an action is such a stretch of code.  Access is    *)
(* decided by tables that requests change; of those changes the model      *)
(* takes what ClubRoster promises, which ClubMembership is proved to       *)
(* implement: each is one step, and the sweep it triggers follows later.   *)
(*                                                                         *)
(* A connection slot c stands for one WebSocket object at a time.  It is   *)
(* used again only when its handler has ended and nothing in the process   *)
(* refers to the old object any more.                                      *)
(***************************************************************************)
CONSTANTS
  User, Owner,   \* as in ClubRoster
  Conn,          \* connection slots
  UserOf,        \* whose connection it is, per slot
  Sweeper,       \* slots for sweeps in progress
  Everyone,      \* the target of a sweep that closes the whole room
  EventRoom      \* an event's room, or one of the club at large

ASSUME OwnerAssumption == Owner \in User
ASSUME UserOfAssumption == UserOf \in [Conn -> User]
ASSUME EveryoneAssumption == Everyone \notin User
ASSUME EventRoomAssumption == EventRoom \in BOOLEAN

VARIABLES
  club, role,   \* the roster
  attends,      \* event_attendees of the room's event, which is still to come
  room,         \* is the row in chat_rooms there
  roomBan,      \* users with a chat_room_bans row in force
  active,       \* ConnectionManager.active_connections[room]
  presence,     \* ConnectionManager.room_presence[room]
  phase,        \* where the handler of a connection is
  link,         \* the transport: up, gone (the client vanished), closed
  sendTo,       \* whom the broadcast under way in a handler has yet to reach
  banCache,     \* ban_cache_result, while it has not expired
  sweep,        \* kicks and room closings in progress
  excuse        \* history: why a socket may outlive its user's access

roster == <<club, role>>
tables == <<club, role, attends, room, roomBan>>
manager == <<active, presence, excuse>>
sessions == <<phase, link, sendTo, banCache>>
vars == <<tables, manager, sessions, sweep>>

Roster == INSTANCE ClubRoster

Phase == {
  "idle",       \* no handler
  "accepted",   \* accepted; authenticating and looking up room and access
  "access_ok",  \* can_access_room said yes, get_active_ban is being asked
  "ban_ok",     \* no ban was read, the handler is about to go on
  "snapshot",   \* registered, sending the presence snapshot
  "online",     \* broadcasting that the user is online
  "open",       \* in the receive loop
  "storing",    \* passed the ban check, committing a message
  "posting",    \* broadcasting the message
  "offline" }   \* in the finally block, broadcasting that the user went

Excuse == {
  "overtaken",  \* access was withdrawn after the handshake had read it
  "missed",     \* registered when the lookup of the sweep meant for it failed
  "demoted",    \* registered when its user ceased to be an organizer
  "dropped" }   \* registered, or read as entitled, when the room was dropped

NoSweep == [stage |-> "idle", cause |-> "none", who |-> Everyone, left |-> {}]

Sweep == [stage : {"idle", "committed", "cleared", "closing"},
          cause : {"none", "dismissed", "unattended", "closed"},
          who : User \cup {Everyone},
          left : SUBSET Conn]

(* Only the type of the state.                                             *)
TypeOK ==
  /\ club \in {"present", "deleted"}
  /\ role \in [User -> {"none", "member", "organizer"}]
  /\ attends \in SUBSET User
  /\ room \in {"open", "deleted"}
  /\ roomBan \in SUBSET User
  /\ active \in SUBSET Conn
  /\ presence \in SUBSET User
  /\ phase \in [Conn -> Phase]
  /\ link \in [Conn -> {"up", "gone", "closed"}]
  /\ sendTo \in [Conn -> SUBSET Conn]
  /\ banCache \in [Conn -> {"unknown", "clean", "banned"}]
  /\ sweep \in [Sweeper -> Sweep]
  /\ excuse \in [Conn -> SUBSET Excuse]

Init ==
  /\ Roster!Init
  /\ attends = {}
  /\ room = "open"
  /\ roomBan = {}
  /\ active = {}
  /\ presence = {}
  /\ phase = [c \in Conn |-> "idle"]
  /\ link = [c \in Conn |-> "closed"]
  /\ sendTo = [c \in Conn |-> {}]
  /\ banCache = [c \in Conn |-> "unknown"]
  /\ sweep = [s \in Sweeper |-> NoSweep]
  /\ excuse = [c \in Conn |-> {}]

-----------------------------------------------------------------------------
(* ConnectionManager.                                                      *)

(* Another socket of c's user is registered.                               *)
HasOther(c) == \E d \in active \ {c} : UserOf[d] = UserOf[c]

Register(c) ==
  /\ active' = active \cup {c}
  /\ presence' = presence \cup {UserOf[c]}
  /\ UNCHANGED excuse

(* Mutant of Unregister: presence goes with the first socket that closes.  *)
UnregisterUser(c) ==
  /\ active' = active \ {c}
  /\ presence' = presence \ {UserOf[c]}
  /\ excuse' = [excuse EXCEPT ![c] = {}]

Unregister(c) ==
  /\ active' = active \ {c}
  /\ presence' = IF HasOther(c) THEN presence ELSE presence \ {UserOf[c]}
  /\ excuse' = [excuse EXCEPT ![c] = {}]

(* can_access_room.                                                        *)
CanAccess(u) ==
  /\ role[u] # "none"
  /\ EventRoom => role[u] = "organizer" \/ u \in attends

(* The handler of c goes on to another phase.                              *)
Enter(c, p) == phase' = [phase EXCEPT ![c] = p]

(* The coroutine returns or raises; the server closes the transport.       *)
HandlerEnds(c) ==
  /\ Enter(c, "idle")
  /\ link' = [link EXCEPT ![c] = "closed"]
  /\ sendTo' = [sendTo EXCEPT ![c] = {}]
  /\ banCache' = [banCache EXCEPT ![c] = "unknown"]

(* broadcast starts by copying the list of sockets.                        *)
StartBroadcast(c, p, sockets) ==
  /\ Enter(c, p)
  /\ sendTo' = [sendTo EXCEPT ![c] = sockets]

-----------------------------------------------------------------------------
(* The life of a connection: websocket_endpoint.                           *)

Connect(c) ==
  /\ phase[c] = "idle"
  /\ c \notin active
  /\ \A d \in Conn : c \notin sendTo[d]
  /\ \A s \in Sweeper : c \notin sweep[s].left
  /\ Enter(c, "accepted")
  /\ link' = [link EXCEPT ![c] = "up"]
  /\ excuse' = [excuse EXCEPT ![c] = {}]
  /\ UNCHANGED <<tables, active, presence, sendTo, banCache, sweep>>

(* _ws_authenticate up to can_access_room.  Its reads are taken as one: a  *)
(* change between two of them leads where the same change before or after  *)
(* both does.  It also ends without an auth frame within five seconds, or  *)
(* with a ticket that is not good.                                         *)
CheckAccess(c) ==
  /\ phase[c] = "accepted"
  /\ \/ /\ room = "open" /\ CanAccess(UserOf[c])
        /\ Enter(c, "access_ok")
        /\ UNCHANGED <<link, sendTo, banCache>>
     \/ HandlerEnds(c)
  /\ UNCHANGED <<tables, manager, sweep>>

(* The database answers get_active_ban, or the query fails.                *)
CheckBan(c) ==
  /\ phase[c] = "access_ok"
  /\ \/ /\ UserOf[c] \notin roomBan
        /\ Enter(c, "ban_ok")
        /\ UNCHANGED <<link, sendTo, banCache>>
     \/ HandlerEnds(c)
  /\ UNCHANGED <<tables, manager, sweep>>

(* The handler is back from its last query and calls manager.connect.      *)
CompleteHandshake(c) ==
  /\ phase[c] = "ban_ok"
  /\ Register(c)
  /\ Enter(c, "snapshot")
  /\ UNCHANGED <<tables, link, sendTo, banCache, sweep>>

(* Sending to a socket that is gone may go unnoticed or may raise; to one  *)
(* that was closed here it raises.  Raised by the snapshot, the error is   *)
(* outside the try block: the handler ends and its socket stays registered.*)
SendSnapshot(c) ==
  /\ phase[c] = "snapshot"
  /\ \/ /\ link[c] # "closed"
        /\ StartBroadcast(c, "online", active)
        /\ UNCHANGED <<link, banCache>>
     \/ /\ link[c] # "up"
        /\ HandlerEnds(c)
  /\ UNCHANGED <<tables, manager, sweep>>

(* Mutant of SendOne: a socket it fails on is dropped and tried again.     *)
SendUntilDelivered(c) ==
  \E d \in sendTo[c] :
    /\ \/ /\ link[d] # "closed"
          /\ sendTo' = [sendTo EXCEPT ![c] = @ \ {d}]
          /\ UNCHANGED manager
       \/ /\ link[d] # "up"
          /\ Unregister(d)
          /\ UNCHANGED sendTo
    /\ UNCHANGED <<tables, phase, link, banCache, sweep>>

(* One send of a broadcast; a socket it fails on is dropped.               *)
SendOne(c) ==
  \E d \in sendTo[c] :
    /\ sendTo' = [sendTo EXCEPT ![c] = @ \ {d}]
    /\ \/ link[d] # "closed" /\ UNCHANGED manager
       \/ link[d] # "up" /\ Unregister(d)
    /\ UNCHANGED <<tables, phase, link, banCache, sweep>>

(* A broadcast from outside the room's sockets (send_message over REST, the *)
(* bot of the clean-up task) fails on d.                                   *)
OutsideSendFails(d) ==
  /\ d \in active
  /\ link[d] # "up"
  /\ Unregister(d)
  /\ UNCHANGED <<tables, sessions, sweep>>

BroadcastDone(c) ==
  /\ sendTo[c] = {}
  /\ \/ /\ phase[c] \in {"online", "posting"}
        /\ Enter(c, "open")
        /\ UNCHANGED <<link, sendTo, banCache>>
     \/ /\ phase[c] = "offline"
        /\ HandlerEnds(c)
  /\ UNCHANGED <<tables, manager, sweep>>

(* A message arrives and passes the ban check, from the cache or by asking *)
(* get_active_ban; a banned sender is answered ROOM_BANNED and goes on.    *)
ReceiveMessage(c) ==
  /\ phase[c] = "open"
  /\ link[c] = "up"
  /\ \/ /\ banCache[c] = "clean"
        /\ Enter(c, "storing")
        /\ UNCHANGED banCache
     \/ /\ banCache[c] = "unknown"
        /\ IF UserOf[c] \in roomBan
             THEN banCache' = [banCache EXCEPT ![c] = "banned"] /\ UNCHANGED phase
             ELSE banCache' = [banCache EXCEPT ![c] = "clean"] /\ Enter(c, "storing")
  /\ UNCHANGED <<tables, manager, link, sendTo, sweep>>

(* Five seconds after it was asked.                                        *)
BanCacheExpires(c) ==
  /\ phase[c] # "idle"
  /\ banCache[c] # "unknown"
  /\ banCache' = [banCache EXCEPT ![c] = "unknown"]
  /\ UNCHANGED <<tables, manager, phase, link, sendTo, sweep>>

(* The finally block.                                                      *)
Finalize(c) ==
  /\ Unregister(c)
  /\ IF HasOther(c)
       THEN HandlerEnds(c)
       ELSE StartBroadcast(c, "offline", active \ {c}) /\ UNCHANGED <<link, banCache>>

(* The message is committed and its broadcast starts; without the room its *)
(* foreign key fails and the error ends the loop.                          *)
StoreMessage(c) ==
  /\ phase[c] = "storing"
  /\ IF room = "open"
       THEN StartBroadcast(c, "posting", active) /\ UNCHANGED <<manager, link, banCache>>
       ELSE Finalize(c)
  /\ UNCHANGED <<tables, sweep>>

(* receive_json raises because the transport is gone or was closed.        *)
ReceiveDisconnect(c) ==
  /\ phase[c] = "open"
  /\ link[c] # "up"
  /\ Finalize(c)
  /\ UNCHANGED <<tables, sweep>>

(* Any other error in the loop ends it: a query or a commit that fails, or *)
(* two rows in chat_room_bans where get_active_ban expects one.            *)
LoopFails(c) ==
  /\ phase[c] \in {"open", "storing"}
  /\ Finalize(c)
  /\ UNCHANGED <<tables, sweep>>

Vanish(c) ==
  /\ link[c] = "up"
  /\ link' = [link EXCEPT ![c] = "gone"]
  /\ UNCHANGED <<tables, manager, phase, sendTo, banCache, sweep>>

-----------------------------------------------------------------------------
(* Sweeps: kick_user_from_club_rooms, kick_user_from_event_room, kick and  *)
(* close_room.  Each runs in the request that made the change, after its   *)
(* commit; those that must look something up first may fail at that, and   *)
(* the failure is swallowed.                                               *)

Pardon(why, conns) ==
  excuse' = [c \in Conn |-> IF c \in conns THEN excuse[c] \cup {why} ELSE excuse[c]]

Sockets(who) == {c \in active : who \in {UserOf[c], Everyone}}

(* Handshakes that were told yes.                                          *)
Granted == {c \in Conn : phase[c] \in {"access_ok", "ban_ok"}}

(* The sockets of somebody, and those about to register.                   *)
Admissible(who) == {c \in active \cup Granted : who \in {UserOf[c], Everyone}}

StartSweep(s, why, u) ==
  /\ sweep[s] = NoSweep
  /\ sweep' = [sweep EXCEPT ![s] =
                 [stage |-> IF why = "closed" THEN "cleared" ELSE "committed",
                  cause |-> why, who |-> u, left |-> {}]]

EndSweep(s) == sweep' = [sweep EXCEPT ![s] = NoSweep]

(* list_rooms; or the membership, and nothing is done for an organizer.    *)
(* kick_user_from_event_room takes one room of the event, which is the     *)
(* room modelled: an event with two (EventRooms) has only one swept.       *)
LookUp(s) ==
  /\ sweep[s].stage = "committed"
  /\ IF sweep[s].cause = "unattended" /\ role[sweep[s].who] = "organizer"
       THEN EndSweep(s)
       ELSE sweep' = [sweep EXCEPT ![s].stage = "cleared"]
  /\ UNCHANGED <<tables, manager, sessions>>

LookUpFails(s) ==
  /\ sweep[s].stage = "committed"
  /\ Pardon("missed", Admissible(sweep[s].who))
  /\ EndSweep(s)
  /\ UNCHANGED <<tables, active, presence, sessions>>

(* Mutant of CopySockets: the users of the pairs are taken for the sockets. *)
CopyUsers(s) ==
  /\ sweep[s].stage = "cleared"
  /\ sweep' = [sweep EXCEPT ![s].stage = "closing",
                            ![s].left = {UserOf[c] : c \in Sockets(sweep[s].who)}]
  /\ UNCHANGED <<tables, manager, sessions>>

(* Mutant of CopySockets: only sockets past their handshake are taken.     *)
CopyOpenSockets(s) ==
  /\ sweep[s].stage = "cleared"
  /\ sweep' = [sweep EXCEPT ![s].stage = "closing",
                            ![s].left = {c \in Sockets(sweep[s].who) : phase[c] = "open"}]
  /\ UNCHANGED <<tables, manager, sessions>>

(* _close_all copies the list before its first await.                      *)
CopySockets(s) ==
  /\ sweep[s].stage = "cleared"
  /\ sweep' = [sweep EXCEPT ![s].stage = "closing", ![s].left = Sockets(sweep[s].who)]
  /\ UNCHANGED <<tables, manager, sessions>>

CloseOne(s) ==
  /\ sweep[s].stage = "closing"
  /\ \E c \in sweep[s].left :
       /\ Unregister(c)
       /\ link' = [link EXCEPT ![c] = "closed"]
       /\ sweep' = [sweep EXCEPT ![s].left = @ \ {c}]
  /\ UNCHANGED <<tables, phase, sendTo, banCache>>

FinishSweep(s) ==
  /\ sweep[s].stage = "closing"
  /\ sweep[s].left = {}
  /\ EndSweep(s)
  /\ UNCHANGED <<tables, manager, sessions>>

-----------------------------------------------------------------------------
(* What happens to access.                                                 *)

(* Handshakes that were told yes are overtaken by its withdrawal.          *)
Overtake(who) == Pardon("overtaken", Admissible(who) \cap Granted)

Admitted(u) ==
  /\ Roster!Admit(u)
  /\ UNCHANGED <<attends, room, roomBan, manager, sessions, sweep>>

Promoted(a, u) ==
  /\ Roster!Promote(a, u)
  /\ UNCHANGED <<attends, room, roomBan, manager, sessions, sweep>>

(* change_member_role: nobody's socket is closed.                          *)
Demoted(a, u) ==
  /\ Roster!Demote(a, u)
  /\ IF EventRoom /\ u \notin attends
       THEN Pardon("demoted", Admissible(u))
       ELSE UNCHANGED excuse
  /\ UNCHANGED <<attends, room, roomBan, active, presence, sessions, sweep>>

(* remove_member_service and the club ban; leave_club_service.             *)
Removed(s, u) ==
  /\ role[u] # "none"
  /\ Roster!Leave(u) \/ \E a \in User : Roster!Dismiss(a, u)
  /\ attends' = attends \ {u}
  /\ StartSweep(s, "dismissed", u)
  /\ Overtake(u)
  /\ UNCHANGED <<room, roomBan, active, presence, sessions>>

Attended(u) ==
  /\ EventRoom
  /\ club = "present"
  /\ attends' = attends \cup {u}
  /\ UNCHANGED <<roster, room, roomBan, manager, sessions, sweep>>

Unattended(s, u) ==
  /\ EventRoom
  /\ u \in attends
  /\ attends' = attends \ {u}
  /\ StartSweep(s, "unattended", u)
  /\ IF role[u] # "organizer" THEN Overtake(u) ELSE UNCHANGED excuse
  /\ UNCHANGED <<roster, room, roomBan, active, presence, sessions>>

(* Mutant of BannedFromRoom: it leaves the ban to be noticed by the loop.  *)
BannedWithoutKick(s, u) ==
  /\ room = "open"
  /\ role[u] # "none"
  /\ roomBan' = roomBan \cup {u}
  /\ sweep[s] = NoSweep
  /\ UNCHANGED <<roster, attends, room, manager, sessions, sweep>>

(* ban_from_room_service, also for somebody who is banned; rows expire.    *)
BannedFromRoom(s, u) ==
  /\ room = "open"
  /\ role[u] # "none"
  /\ roomBan' = roomBan \cup {u}
  /\ StartSweep(s, "closed", u)
  /\ UNCHANGED <<roster, attends, room, manager, sessions>>

RoomBanExpires(u) ==
  /\ u \in roomBan
  /\ roomBan' = roomBan \ {u}
  /\ UNCHANGED <<roster, attends, room, manager, sessions, sweep>>

(* delete_club, which closes the club's rooms.                             *)
ClubDeleted(s) ==
  /\ club = "present"
  /\ Roster!Disband
  /\ attends' = {}
  /\ room' = "deleted"
  /\ roomBan' = {}
  /\ StartSweep(s, "closed", Everyone)
  /\ Overtake(Everyone)
  /\ UNCHANGED <<active, presence, sessions>>

(* delete_chat_room_service.                                               *)
RoomDeleted(s) ==
  /\ room = "open"
  /\ room' = "deleted"
  /\ roomBan' = {}
  /\ StartSweep(s, "closed", Everyone)
  /\ Overtake(Everyone)
  /\ UNCHANGED <<roster, attends, active, presence, sessions>>

(* Cancelling the event (_delete_event_chat_room) and the clean-up tasks   *)
(* delete the room's rows and leave its sockets alone.                     *)
RoomDropped ==
  /\ room = "open"
  /\ room' = "deleted"
  /\ roomBan' = {}
  /\ Pardon("dropped", Admissible(Everyone))
  /\ UNCHANGED <<roster, attends, active, presence, sessions, sweep>>

-----------------------------------------------------------------------------
Handler(c) ==
  \/ CheckAccess(c) \/ CheckBan(c) \/ CompleteHandshake(c) \/ SendSnapshot(c)
  \/ SendOne(c) \/ BroadcastDone(c) \/ StoreMessage(c) \/ ReceiveDisconnect(c)

Sweeping(s) == LookUp(s) \/ LookUpFails(s) \/ CopySockets(s) \/ CloseOne(s) \/ FinishSweep(s)

Outside(c) ==
  Connect(c) \/ ReceiveMessage(c) \/ LoopFails(c) \/ Vanish(c) \/ OutsideSendFails(c)

Change ==
  \/ \E u \in User : Admitted(u) \/ Attended(u) \/ RoomBanExpires(u)
  \/ \E a, u \in User : Promoted(a, u) \/ Demoted(a, u)
  \/ \E s \in Sweeper, u \in User : Removed(s, u) \/ Unattended(s, u) \/ BannedFromRoom(s, u)
  \/ \E s \in Sweeper : ClubDeleted(s) \/ RoomDeleted(s)
  \/ RoomDropped

Next ==
  \/ \E c \in Conn : Handler(c) \/ Outside(c) \/ BanCacheExpires(c)
  \/ \E s \in Sweeper : Sweeping(s)
  \/ Change

Spec == Init /\ [][Next]_vars

(* The event loop runs every coroutine that can go on.                     *)
FairSpec ==
  /\ Spec
  /\ \A c \in Conn : WF_vars(Handler(c))
  /\ \A s \in Sweeper : WF_vars(Sweeping(s))

-----------------------------------------------------------------------------
(* Properties.                                                             *)

(* room_presence, kept beside the list of sockets, names exactly the users *)
(* who have one in it: through reconnects, several tabs, sockets dropped   *)
(* by a broadcast and sockets swept while their handler is still running   *)
(* (ConnectionManager.connect, disconnect).                                *)
PresenceMatchesSockets == presence = {UserOf[c] : c \in active}

(* A sweep started for one of these reasons is going to close c.           *)
Closing(c, causes) ==
  \E s \in Sweeper :
    /\ sweep[s].cause \in causes
    /\ sweep[s].who \in {UserOf[c], Everyone}
    /\ sweep[s].stage = "closing" => c \in sweep[s].left

ToBeClosed(c) == Closing(c, {"dismissed", "unattended", "closed"})

Entitled(c) == room = "open" /\ CanAccess(UserOf[c])

(* A socket whose user lost access to the room, or whose room is gone, is  *)
(* about to be closed by a sweep, unless one of four things excuses it.    *)
(* There is no fifth way to keep a socket (websocket_endpoint, kick and    *)
(* close_room against every change of membership, rank and attendance).    *)
UnentitledAreAccountedFor ==
  \A c \in active : Entitled(c) \/ ToBeClosed(c) \/ excuse[c] # {}

(* However a handshake, the five-second cache and the kick of a room ban   *)
(* cross, no registered socket of a banned user holds an answer that would *)
(* let it post, unless the kick is about to close it (check_ban_cached,    *)
(* ban_from_room_service).                                                 *)
BannedCannotPost ==
  \A c \in active : UserOf[c] \in roomBan /\ banCache[c] = "clean" => Closing(c, {"closed"})

(* A session that got as far as its receive loop does not end with its     *)
(* socket registered (the finally block of websocket_endpoint).            *)
LoopExitUnregisters ==
  [][\A c \in Conn :
       /\ phase[c] \in {"open", "storing", "posting", "offline"}
       /\ phase'[c] = "idle"
       => c \notin active']_vars

(* The same for sessions that got past their snapshot, whatever broadcast  *)
(* or message they are in the middle of (the except and finally blocks).   *)
GoneSessionsAreDropped ==
  \A c \in Conn :
    phase[c] \in {"online", "open", "storing", "posting"} /\ link[c] # "up" ~> c \notin active

=============================================================================
