------------------------- MODULE ChatGatewayProofs -------------------------
(***************************************************************************)
(* Proofs about ChatGateway, for any users, any number of connections and  *)
(* any number of sweeps.                                                   *)
(*                                                                         *)
(* The argument.  A socket is registered on the strength of an answer that *)
(* may be old by then, so IInv follows the answer: from the moment access  *)
(* is read, a handshake is entitled or excused (HandshakeExcused), and it  *)
(* is unknown to everything else in the process until it registers         *)
(* (FreshHandshake), so no drop or sweep of an earlier socket in the same  *)
(* slot takes its excuse away.  Afterwards entitlement is lost only by a   *)
(* change that starts a sweep or records an excuse, and a sweep gives up a *)
(* socket only by closing it, by excusing it, or because its user is an    *)
(* organizer; that last case needs the room to be there, hence RoomGone.   *)
(***************************************************************************)
EXTENDS ChatGateway, TLAPS

(* A handshake that was told yes and has lost its right to it is excused.  *)
HandshakeExcused ==
  \A c \in Conn : c \in Granted => Entitled(c) \/ excuse[c] # {}

(* The process holds no reference to the socket of a new handshake.        *)
FreshHandshake ==
  \A c \in Conn : phase[c] \in {"accepted", "access_ok", "ban_ok"} =>
    /\ c \notin active
    /\ \A d \in Conn : c \notin sendTo[d]
    /\ \A s \in Sweeper : c \notin sweep[s].left

(* An answer about bans is known to the receive loop only.                 *)
OnlyTheLoopAsks ==
  \A c \in Conn :
    phase[c] \in {"idle", "accepted", "access_ok", "ban_ok"} => banCache[c] = "unknown"

OfflineIsUnregistered == \A c \in Conn : phase[c] = "offline" => c \notin active

SweepShape ==
  \A s \in Sweeper :
    \/ sweep[s] = NoSweep
    \/ /\ sweep[s].stage = "committed"
       /\ sweep[s].cause \in {"dismissed", "unattended"}
       /\ sweep[s].who \in User
    \/ /\ sweep[s].stage \in {"cleared", "closing"}
       /\ sweep[s].cause # "none"

(* Without the room, every socket left is being closed or excused.         *)
RoomGone ==
  room = "deleted" => \A c \in active : Closing(c, {"closed"}) \/ excuse[c] # {}

IInv ==
  /\ TypeOK
  /\ PresenceMatchesSockets
  /\ UnentitledAreAccountedFor
  /\ BannedCannotPost
  /\ HandshakeExcused
  /\ FreshHandshake
  /\ OnlyTheLoopAsks
  /\ OfflineIsUnregistered
  /\ SweepShape
  /\ RoomGone

-----------------------------------------------------------------------------
(* The state always holds values of its types.                             *)
LEMMA TypeInit == Init => TypeOK
BY OwnerAssumption, EveryoneAssumption
DEF Init, TypeOK, Roster!Init, Phase, Excuse, NoSweep, Sweep

LEMMA TypeStep == TypeOK /\ [Next]_vars => TypeOK'
<1> SUFFICES ASSUME TypeOK, [Next]_vars PROVE TypeOK'
  OBVIOUS
<1> USE UserOfAssumption, OwnerAssumption
<1> USE DEF TypeOK, Phase, Excuse, tables, roster, manager, sessions
<1>1. NoSweep \in Sweep
  BY DEF NoSweep, Sweep
<1>2. ASSUME NEW c \in Conn, Handler(c) PROVE TypeOK'
  <2>1. CASE CheckAccess(c) \/ CheckBan(c) \/ CompleteHandshake(c) \/ SendSnapshot(c)
    BY <2>1 DEF CheckAccess, CheckBan, CompleteHandshake, SendSnapshot, Enter, HandlerEnds,
                Register, StartBroadcast
  <2>2. CASE SendOne(c) \/ BroadcastDone(c)
    BY <2>2 DEF SendOne, BroadcastDone, Enter, HandlerEnds, Unregister
  <2>3. CASE StoreMessage(c) \/ ReceiveDisconnect(c)
    BY <2>3 DEF StoreMessage, ReceiveDisconnect, Finalize, Enter, HandlerEnds, Unregister,
                StartBroadcast
  <2>4. QED
    BY <1>2, <2>1, <2>2, <2>3 DEF Handler
<1>3. ASSUME NEW c \in Conn, Outside(c) \/ BanCacheExpires(c) PROVE TypeOK'
  BY <1>3 DEF Outside, Connect, ReceiveMessage, LoopFails, Vanish, OutsideSendFails,
              BanCacheExpires, Finalize, HandlerEnds, StartBroadcast, Enter, Unregister
<1>4. ASSUME NEW s \in Sweeper, Sweeping(s) PROVE TypeOK'
  <2>1. CASE LookUp(s) \/ CopySockets(s) \/ FinishSweep(s)
    BY <1>1, <2>1 DEF LookUp, CopySockets, FinishSweep, EndSweep, Sockets, Sweep
  <2>2. CASE LookUpFails(s)
    BY <1>1, <2>2 DEF LookUpFails, Pardon, EndSweep
  <2>3. CASE CloseOne(s)
    <3>1. PICK d \in sweep[s].left :
            Unregister(d) /\ sweep' = [sweep EXCEPT ![s].left = @ \ {d}]
      BY <2>3 DEF CloseOne
    <3>2. sweep' \in [Sweeper -> Sweep]
      BY <3>1, SMTT(30) DEF Sweep
    <3>3. active' \in SUBSET Conn /\ presence' \in SUBSET User /\ excuse' \in [Conn -> SUBSET Excuse]
      BY <3>1 DEF Unregister
    <3>4. QED
      BY <2>3, <3>2, <3>3 DEF CloseOne
  <2>4. QED
    BY <1>4, <2>1, <2>2, <2>3 DEF Sweeping
<1>5. ASSUME Change PROVE TypeOK'
  <2> USE DEF Pardon, Overtake
  <2>1. ASSUME NEW s \in Sweeper, NEW u \in User \cup {Everyone},
               NEW why \in {"dismissed", "unattended", "closed"}, StartSweep(s, why, u)
        PROVE  sweep' \in [Sweeper -> Sweep]
    BY <2>1 DEF StartSweep, Sweep
  <2>2. ASSUME NEW u \in User, Admitted(u) \/ Attended(u) \/ RoomBanExpires(u) PROVE TypeOK'
    BY <2>2 DEF Admitted, Attended, RoomBanExpires, Roster!Admit
  <2>3. ASSUME NEW a \in User, NEW u \in User, Promoted(a, u) \/ Demoted(a, u) PROVE TypeOK'
    BY <2>3 DEF Promoted, Demoted, Roster!Promote, Roster!Demote
  <2>4. ASSUME NEW s \in Sweeper, NEW u \in User,
               Removed(s, u) \/ Unattended(s, u) \/ BannedFromRoom(s, u)
        PROVE  TypeOK'
    BY <2>1, <2>4 DEF Removed, Unattended, BannedFromRoom, Roster!Leave, Roster!Dismiss
  <2>5. ASSUME NEW s \in Sweeper, ClubDeleted(s) \/ RoomDeleted(s) PROVE TypeOK'
    BY <2>1, <2>5 DEF ClubDeleted, RoomDeleted, Roster!Disband
  <2>6. CASE RoomDropped
    BY <2>6 DEF RoomDropped
  <2>7. QED
    BY <1>5, <2>2, <2>3, <2>4, <2>5, <2>6 DEF Change
<1>6. CASE UNCHANGED vars
  BY <1>6 DEF vars
<1>7. QED
  BY <1>2, <1>3, <1>4, <1>5, <1>6 DEF Next

(* The room's tables, the manager's lists, the handlers and the sweeps     *)
(* always hold values of their types.                                      *)
THEOREM TypeCorrect == Spec => []TypeOK
<1>1. QED
  BY TypeInit, TypeStep, PTL DEF Spec

-----------------------------------------------------------------------------
LEMMA IInvInit == Init => IInv
BY TypeInit
DEF Init, IInv, PresenceMatchesSockets, UnentitledAreAccountedFor, BannedCannotPost,
    HandshakeExcused, Granted, FreshHandshake, OnlyTheLoopAsks, OfflineIsUnregistered, SweepShape,
    RoomGone

(* However a socket is taken off the list, presence follows.               *)
LEMMA UnregisterStep ==
  ASSUME TypeOK, PresenceMatchesSockets, NEW c \in Conn, Unregister(c)
  PROVE  /\ PresenceMatchesSockets'
         /\ active' = active \ {c}
         /\ \A d \in Conn \ {c} : excuse'[d] = excuse[d]
<1>1. active' = active \ {c} /\ \A d \in Conn \ {c} : excuse'[d] = excuse[d]
  BY DEF Unregister, TypeOK
<1>2. CASE HasOther(c)
  <2>1. {UserOf[d] : d \in active'} = {UserOf[d] : d \in active}
    BY <1>1, <1>2 DEF HasOther
  <2>2. QED
    BY <1>1, <1>2, <2>1 DEF Unregister, PresenceMatchesSockets
<1>3. CASE ~HasOther(c)
  <2>1. {UserOf[d] : d \in active'} = {UserOf[d] : d \in active} \ {UserOf[c]}
    BY <1>1, <1>3 DEF HasOther
  <2>2. QED
    BY <1>1, <1>3, <2>1 DEF Unregister, PresenceMatchesSockets
<1>4. QED
  BY <1>2, <1>3

(* A step that registers nobody, takes no entitlement, excuse, ban or      *)
(* closing sweep away from a socket that stays, keeps the sockets          *)
(* accounted for.                                                          *)
LEMMA SocketsFrame ==
  ASSUME IInv, TypeOK',
         UNCHANGED tables,
         active' \subseteq active,
         \A c \in active' : excuse[c] \subseteq excuse'[c],
         \A c \in active' : banCache'[c] = "clean" => banCache[c] = "clean",
         UNCHANGED sweep
  PROVE  UnentitledAreAccountedFor' /\ BannedCannotPost' /\ RoomGone'
<1>1. \A c \in active' : Closing(c, {"closed"}) => Closing(c, {"closed"})'
  BY DEF Closing
<1>2. \A c \in active' : ToBeClosed(c) => ToBeClosed(c)'
  BY DEF ToBeClosed, Closing
<1>3. \A c \in active' : Entitled(c) => Entitled(c)'
  BY DEF Entitled, CanAccess, tables
<1>4. QED
  BY <1>1, <1>2, <1>3
  DEF IInv, UnentitledAreAccountedFor, BannedCannotPost, RoomGone, tables


LEMMA CheckStep ==
  ASSUME IInv, TypeOK', NEW c \in Conn, CheckAccess(c) \/ CheckBan(c)
  PROVE  IInv'
<1> USE DEF CheckAccess, CheckBan, Enter, HandlerEnds, manager, tables, IInv, TypeOK, Phase
<1>1. UnentitledAreAccountedFor' /\ BannedCannotPost' /\ RoomGone'
  BY SocketsFrame
<1>2. PresenceMatchesSockets' /\ SweepShape'
  BY DEF PresenceMatchesSockets, SweepShape
<1>3. HandshakeExcused'
  BY DEF HandshakeExcused, Granted, Entitled, CanAccess
<1>4. FreshHandshake' /\ OnlyTheLoopAsks' /\ OfflineIsUnregistered'
  BY DEF FreshHandshake, OnlyTheLoopAsks, OfflineIsUnregistered
<1>5. QED
  BY <1>1, <1>2, <1>3, <1>4

LEMMA CompleteHandshakeStep ==
  ASSUME IInv, TypeOK', NEW c \in Conn, CompleteHandshake(c)
  PROVE  IInv'
<1> USE DEF CompleteHandshake, Enter, Register, IInv, TypeOK, tables
<1>1. active' = active \cup {c} /\ presence' = presence \cup {UserOf[c]}
  OBVIOUS
<1>2. UNCHANGED <<excuse, banCache, sweep, club, role, attends, room, roomBan>>
  OBVIOUS
<1>3. banCache[c] = "unknown" /\ (Entitled(c) \/ excuse[c] # {})
  BY DEF OnlyTheLoopAsks, HandshakeExcused, Granted
<1>4. \A d \in active \cup {c} : /\ Entitled(d) => Entitled(d)'
                                 /\ ToBeClosed(d) => ToBeClosed(d)'
                                 /\ Closing(d, {"closed"}) => Closing(d, {"closed"})'
  BY <1>2 DEF Entitled, CanAccess, ToBeClosed, Closing
<1>5. PresenceMatchesSockets'
  BY <1>1 DEF PresenceMatchesSockets
<1>6. UnentitledAreAccountedFor'
  BY <1>1, <1>2, <1>3, <1>4 DEF UnentitledAreAccountedFor
<1>7. BannedCannotPost' /\ RoomGone'
  BY <1>1, <1>2, <1>3, <1>4 DEF BannedCannotPost, RoomGone, Entitled
<1>8. HandshakeExcused' /\ SweepShape'
  BY DEF HandshakeExcused, SweepShape, Granted, Entitled, CanAccess
<1>9. FreshHandshake' /\ OnlyTheLoopAsks' /\ OfflineIsUnregistered'
  BY DEF FreshHandshake, OnlyTheLoopAsks, OfflineIsUnregistered
<1>10. QED
  BY <1>5, <1>6, <1>7, <1>8, <1>9

LEMMA SendSnapshotStep ==
  ASSUME IInv, TypeOK', NEW c \in Conn, SendSnapshot(c)
  PROVE  IInv'
<1> USE DEF SendSnapshot, StartBroadcast, Enter, HandlerEnds, manager, tables, IInv, TypeOK, Phase
<1>1. UnentitledAreAccountedFor' /\ BannedCannotPost' /\ RoomGone'
  BY SocketsFrame
<1>2. PresenceMatchesSockets' /\ SweepShape' /\ HandshakeExcused'
  BY DEF PresenceMatchesSockets, SweepShape, HandshakeExcused, Granted, Entitled, CanAccess
<1>3. FreshHandshake' /\ OnlyTheLoopAsks' /\ OfflineIsUnregistered'
  BY DEF FreshHandshake, OnlyTheLoopAsks, OfflineIsUnregistered
<1>4. QED
  BY <1>1, <1>2, <1>3

(* Dropping a socket d, with the handlers where they are.                  *)
LEMMA DropStep ==
  ASSUME IInv, TypeOK', NEW d \in Conn, Unregister(d) \/ UNCHANGED manager,
         d \in active \/ (\E e \in Conn : d \in sendTo[e]),
         \A e \in Conn : sendTo'[e] \subseteq sendTo[e],
         UNCHANGED <<tables, phase, banCache, sweep>>
  PROVE  IInv'
<1> USE DEF IInv, TypeOK, manager, tables
<1>1. /\ PresenceMatchesSockets'
      /\ active' \subseteq active
      /\ \A c \in Conn \ {d} : excuse'[c] = excuse[c]
      /\ \A c \in active' : excuse'[c] = excuse[c]
  BY UnregisterStep DEF PresenceMatchesSockets
<1>2. UnentitledAreAccountedFor' /\ BannedCannotPost' /\ RoomGone'
  BY <1>1, SocketsFrame
<1>3. phase[d] \notin {"accepted", "access_ok", "ban_ok"}
  BY DEF FreshHandshake
<1>4. HandshakeExcused'
  BY <1>1, <1>3 DEF HandshakeExcused, Granted, Entitled, CanAccess
<1>5. FreshHandshake' /\ OnlyTheLoopAsks' /\ OfflineIsUnregistered' /\ SweepShape'
  BY <1>1 DEF FreshHandshake, OnlyTheLoopAsks, OfflineIsUnregistered, SweepShape
<1>6. QED
  BY <1>1, <1>2, <1>4, <1>5

LEMMA SendOneStep ==
  ASSUME IInv, TypeOK', NEW c \in Conn, SendOne(c)
  PROVE  IInv'
<1>1. PICK d \in sendTo[c] :
        /\ sendTo' = [sendTo EXCEPT ![c] = @ \ {d}]
        /\ Unregister(d) \/ UNCHANGED manager
        /\ UNCHANGED <<tables, phase, link, banCache, sweep>>
  BY DEF SendOne
<1>2. d \in Conn /\ \A e \in Conn : sendTo'[e] \subseteq sendTo[e]
  BY <1>1 DEF IInv, TypeOK
<1>3. QED
  BY <1>1, <1>2, DropStep

(* The finally block: a session that leaves its loop is off the list.      *)
LEMMA FinalizeStep ==
  ASSUME IInv, TypeOK', NEW c \in Conn, phase[c] \in {"open", "storing"}, Finalize(c),
         UNCHANGED <<tables, sweep>>
  PROVE  IInv' /\ c \notin active'
<1> USE DEF IInv, TypeOK, Phase, tables
<1>1. /\ PresenceMatchesSockets'
      /\ active' = active \ {c}
      /\ \A d \in Conn \ {c} : excuse'[d] = excuse[d]
  BY UnregisterStep DEF Finalize
<1>2. /\ phase' = [phase EXCEPT ![c] = phase'[c]]
      /\ phase'[c] \in {"idle", "offline"}
      /\ sendTo' = [sendTo EXCEPT ![c] = sendTo'[c]]
      /\ sendTo'[c] \subseteq active
      /\ phase'[c] = "idle" => banCache'[c] = "unknown"
      /\ \A d \in Conn \ {c} : banCache'[d] = banCache[d]
  BY DEF Finalize, HandlerEnds, StartBroadcast, Enter
<1>3. UnentitledAreAccountedFor' /\ BannedCannotPost' /\ RoomGone'
  BY <1>1, <1>2, SocketsFrame
<1>4. HandshakeExcused'
  BY <1>1, <1>2 DEF HandshakeExcused, Granted, Entitled, CanAccess
<1>5. FreshHandshake' /\ OnlyTheLoopAsks' /\ OfflineIsUnregistered' /\ SweepShape'
  BY <1>1, <1>2 DEF FreshHandshake, OnlyTheLoopAsks, OfflineIsUnregistered, SweepShape
<1>6. QED
  BY <1>1, <1>3, <1>4, <1>5

LEMMA StoreMessageStep ==
  ASSUME IInv, TypeOK', NEW c \in Conn, StoreMessage(c)
  PROVE  IInv'
<1>1. CASE room = "open"
  <2> USE <1>1 DEF StoreMessage, StartBroadcast, Enter, manager, tables, IInv, TypeOK, Phase
  <2>1. UnentitledAreAccountedFor' /\ BannedCannotPost' /\ RoomGone'
    BY SocketsFrame
  <2>2. PresenceMatchesSockets' /\ SweepShape' /\ HandshakeExcused'
    BY DEF PresenceMatchesSockets, SweepShape, HandshakeExcused, Granted, Entitled, CanAccess
  <2>3. FreshHandshake' /\ OnlyTheLoopAsks' /\ OfflineIsUnregistered'
    BY DEF FreshHandshake, OnlyTheLoopAsks, OfflineIsUnregistered
  <2>4. QED
    BY <2>1, <2>2, <2>3
<1>2. CASE room # "open"
  BY <1>2, FinalizeStep DEF StoreMessage
<1>3. QED
  BY <1>1, <1>2

LEMMA HandlerStep ==
  ASSUME IInv, TypeOK', NEW c \in Conn, Handler(c)
  PROVE  IInv'
<1>1. CASE BroadcastDone(c)
  <2> USE <1>1 DEF BroadcastDone, Enter, HandlerEnds, manager, tables, IInv, TypeOK, Phase
  <2>1. UnentitledAreAccountedFor' /\ BannedCannotPost' /\ RoomGone'
    BY SocketsFrame
  <2>2. PresenceMatchesSockets' /\ SweepShape' /\ HandshakeExcused'
    BY DEF PresenceMatchesSockets, SweepShape, HandshakeExcused, Granted, Entitled, CanAccess
  <2>3. FreshHandshake' /\ OnlyTheLoopAsks' /\ OfflineIsUnregistered'
    BY DEF FreshHandshake, OnlyTheLoopAsks, OfflineIsUnregistered
  <2>4. QED
    BY <2>1, <2>2, <2>3
<1>2. CASE ReceiveDisconnect(c)
  BY <1>2, FinalizeStep DEF ReceiveDisconnect
<1>3. QED
  BY <1>1, <1>2, CheckStep, CompleteHandshakeStep, SendSnapshotStep, SendOneStep,
     StoreMessageStep DEF Handler

LEMMA OutsideStep ==
  ASSUME IInv, TypeOK', NEW c \in Conn, Outside(c) \/ BanCacheExpires(c)
  PROVE  IInv'
<1> USE DEF manager, sessions, tables, IInv, TypeOK, Phase
<1>1. CASE Connect(c)
  <2> USE <1>1 DEF Connect, Enter
  <2>1. UnentitledAreAccountedFor' /\ BannedCannotPost' /\ RoomGone'
    BY SocketsFrame
  <2>2. PresenceMatchesSockets' /\ SweepShape' /\ HandshakeExcused'
    BY DEF PresenceMatchesSockets, SweepShape, HandshakeExcused, Granted, Entitled, CanAccess
  <2>3. FreshHandshake' /\ OnlyTheLoopAsks' /\ OfflineIsUnregistered'
    BY DEF FreshHandshake, OnlyTheLoopAsks, OfflineIsUnregistered
  <2>4. QED
    BY <2>1, <2>2, <2>3
<1>2. CASE ReceiveMessage(c)
  <2> USE <1>2 DEF ReceiveMessage, Enter
  <2>1. \A d \in active : banCache'[d] = "clean" => banCache[d] = "clean" \/ UserOf[d] \notin roomBan
    OBVIOUS
  <2>2. UNCHANGED <<sweep, excuse, active, roomBan, room, role, attends>>
    OBVIOUS
  <2>3. UnentitledAreAccountedFor' /\ RoomGone'
    BY <2>2 DEF UnentitledAreAccountedFor, RoomGone, ToBeClosed, Closing, Entitled, CanAccess
  <2>4. BannedCannotPost'
    BY <2>1, <2>2 DEF BannedCannotPost, Closing
  <2>5. PresenceMatchesSockets' /\ SweepShape' /\ HandshakeExcused'
    BY DEF PresenceMatchesSockets, SweepShape, HandshakeExcused, Granted, Entitled, CanAccess
  <2>6. FreshHandshake' /\ OnlyTheLoopAsks' /\ OfflineIsUnregistered'
    BY DEF FreshHandshake, OnlyTheLoopAsks, OfflineIsUnregistered
  <2>7. QED
    BY <2>3, <2>4, <2>5, <2>6
<1>3. CASE Vanish(c) \/ BanCacheExpires(c)
  <2> USE <1>3 DEF Vanish, BanCacheExpires
  <2>1. UnentitledAreAccountedFor' /\ BannedCannotPost' /\ RoomGone'
    BY SocketsFrame
  <2>2. PresenceMatchesSockets' /\ SweepShape' /\ HandshakeExcused'
    BY DEF PresenceMatchesSockets, SweepShape, HandshakeExcused, Granted, Entitled, CanAccess
  <2>3. FreshHandshake' /\ OnlyTheLoopAsks' /\ OfflineIsUnregistered'
    BY DEF FreshHandshake, OnlyTheLoopAsks, OfflineIsUnregistered
  <2>4. QED
    BY <2>1, <2>2, <2>3
<1>4. CASE OutsideSendFails(c)
  BY <1>4, DropStep DEF OutsideSendFails
<1>5. CASE LoopFails(c)
  BY <1>5, FinalizeStep DEF LoopFails
<1>6. QED
  BY <1>1, <1>2, <1>3, <1>4, <1>5 DEF Outside

-----------------------------------------------------------------------------
(* Sweeps.                                                                 *)

(* What a step that leaves the sockets alone must do for IInv: keep the    *)
(* shape of the sweeps, and replace by an excuse or an entitlement each    *)
(* closing that it takes from a socket.                                    *)
LEMMA SweepFrame ==
  ASSUME IInv, TypeOK',
         UNCHANGED <<tables, active, presence, sessions>>,
         \A c \in Conn : excuse[c] \subseteq excuse'[c],
         SweepShape',
         \A s \in Sweeper : sweep'[s].left \subseteq sweep[s].left \cup active,
         \A c \in active : ToBeClosed(c) => ToBeClosed(c)' \/ excuse'[c] # {} \/ CanAccess(UserOf[c]),
         \A c \in active : Closing(c, {"closed"}) => Closing(c, {"closed"})'
  PROVE  IInv'
<1> USE DEF IInv, TypeOK, tables, sessions, Granted
<1>1. \A c \in Conn : /\ Entitled(c)' <=> Entitled(c)
                      /\ Entitled(c) <=> room = "open" /\ CanAccess(UserOf[c])
  BY DEF Entitled, CanAccess
<1>2. BannedCannotPost' /\ RoomGone'
  BY DEF BannedCannotPost, RoomGone
<1>3. UnentitledAreAccountedFor'
  <2>1. ASSUME NEW c \in active PROVE Entitled(c)' \/ ToBeClosed(c)' \/ excuse'[c] # {}
    <3>1. CASE room = "open"
      BY <1>1, <2>1, <3>1 DEF UnentitledAreAccountedFor
    <3>2. CASE room = "deleted"
      <4>1. Closing(c, {"closed"})' => ToBeClosed(c)'
        BY DEF ToBeClosed, Closing
      <4>2. QED
        BY <2>1, <3>2, <4>1 DEF RoomGone
    <3>3. QED
      BY <3>1, <3>2
  <2>2. QED
    BY <2>1 DEF UnentitledAreAccountedFor
<1>4. HandshakeExcused'
  BY <1>1 DEF HandshakeExcused
<1>5. FreshHandshake' /\ OnlyTheLoopAsks' /\ OfflineIsUnregistered' /\ PresenceMatchesSockets'
  BY DEF FreshHandshake, OnlyTheLoopAsks, OfflineIsUnregistered, PresenceMatchesSockets
<1>6. QED
  BY <1>2, <1>3, <1>4, <1>5

LEMMA LookUpStep ==
  ASSUME IInv, TypeOK', NEW s \in Sweeper, LookUp(s)
  PROVE  IInv'
<1> USE DEF LookUp, IInv, TypeOK, manager
<1>1. \A q \in Sweeper \ {s} : sweep'[q] = sweep[q]
  BY DEF EndSweep
<1>2. sweep[s].stage = "committed" /\ sweep[s].cause # "closed" /\ sweep[s] # NoSweep
  BY DEF SweepShape, NoSweep
<1>3. CASE sweep[s].cause = "unattended" /\ role[sweep[s].who] = "organizer"
  <2>1. sweep'[s] = NoSweep
    BY <1>3 DEF EndSweep
  <2>2. \A c \in active : Closing(c, {"closed"}) => Closing(c, {"closed"})'
    BY <1>1, <1>2 DEF Closing
  <2>3. sweep[s].who \in User
    BY <1>2 DEF SweepShape
  <2>4. \A c \in active : ToBeClosed(c) => ToBeClosed(c)' \/ CanAccess(UserOf[c])
    BY <1>1, <1>3, <2>3, EveryoneAssumption, UserOfAssumption DEF ToBeClosed, Closing, CanAccess
  <2>5. SweepShape'
    BY <1>1, <2>1 DEF SweepShape
  <2>6. QED
    BY <1>1, <2>1, <2>2, <2>4, <2>5, SweepFrame DEF NoSweep
<1>4. CASE ~(sweep[s].cause = "unattended" /\ role[sweep[s].who] = "organizer")
  <2>1. /\ sweep'[s].stage = "cleared"
        /\ sweep'[s].cause = sweep[s].cause
        /\ sweep'[s].who = sweep[s].who
        /\ sweep'[s].left = sweep[s].left
    BY <1>4 DEF Sweep
  <2>2. SweepShape'
    BY <1>1, <1>2, <2>1 DEF SweepShape
  <2>3. \A c \in active : /\ Closing(c, {"closed"}) => Closing(c, {"closed"})'
                          /\ ToBeClosed(c) => ToBeClosed(c)'
    BY <1>1, <2>1 DEF Closing, ToBeClosed
  <2>4. QED
    BY <1>1, <2>1, <2>2, <2>3, SweepFrame
<1>5. QED
  BY <1>3, <1>4

LEMMA LookUpFailsStep ==
  ASSUME IInv, TypeOK', NEW s \in Sweeper, LookUpFails(s)
  PROVE  IInv'
<1> USE DEF LookUpFails, EndSweep, Pardon, IInv, TypeOK
<1>1. sweep'[s] = NoSweep /\ \A q \in Sweeper \ {s} : sweep'[q] = sweep[q]
  OBVIOUS
<1>2. sweep[s].stage = "committed" /\ sweep[s].cause # "closed"
  BY DEF SweepShape, NoSweep
<1>3. \A c \in active : Closing(c, {"closed"}) => Closing(c, {"closed"})'
  BY <1>1, <1>2 DEF Closing
<1>4. \A c \in active : ToBeClosed(c) => ToBeClosed(c)' \/ excuse'[c] # {}
  BY <1>1, UserOfAssumption DEF ToBeClosed, Closing, Admissible
<1>5. SweepShape'
  BY <1>1 DEF SweepShape
<1>6. \A c \in Conn : excuse[c] \subseteq excuse'[c]
  OBVIOUS
<1>7. QED
  BY <1>1, <1>3, <1>4, <1>5, <1>6, SweepFrame DEF NoSweep

LEMMA CopySocketsStep ==
  ASSUME IInv, TypeOK', NEW s \in Sweeper, CopySockets(s)
  PROVE  IInv'
<1> USE DEF IInv, TypeOK
<1>1. /\ sweep[s].stage = "cleared"
      /\ \A q \in Sweeper \ {s} : sweep'[q] = sweep[q]
      /\ UNCHANGED <<tables, active, presence, excuse, sessions>>
  BY DEF CopySockets, manager
<1>2. /\ sweep'[s].stage = "closing"
      /\ sweep'[s].cause = sweep[s].cause
      /\ sweep'[s].who = sweep[s].who
      /\ sweep'[s].left = Sockets(sweep[s].who)
  BY DEF CopySockets, Sweep
<1>3. sweep[s].cause # "none"
  BY <1>1 DEF SweepShape, NoSweep
<1>4. SweepShape'
  BY <1>1, <1>2, <1>3 DEF SweepShape
<1>5. \A c \in active : sweep[s].who \in {UserOf[c], Everyone} => c \in sweep'[s].left
  BY <1>2 DEF Sockets
<1>6. \A c \in active : /\ Closing(c, {"closed"}) => Closing(c, {"closed"})'
                        /\ ToBeClosed(c) => ToBeClosed(c)'
  BY <1>1, <1>2, <1>5 DEF Closing, ToBeClosed
<1>7. Sockets(sweep[s].who) \subseteq active
  BY DEF Sockets
<1>8. QED
  BY <1>1, <1>2, <1>4, <1>6, <1>7, SweepFrame

LEMMA FinishSweepStep ==
  ASSUME IInv, TypeOK', NEW s \in Sweeper, FinishSweep(s)
  PROVE  IInv'
<1> USE DEF FinishSweep, EndSweep, IInv, TypeOK, manager
<1>1. sweep'[s] = NoSweep /\ \A q \in Sweeper \ {s} : sweep'[q] = sweep[q]
  OBVIOUS
<1>2. SweepShape'
  BY <1>1 DEF SweepShape
<1>3. \A c \in active : /\ Closing(c, {"closed"}) => Closing(c, {"closed"})'
                        /\ ToBeClosed(c) => ToBeClosed(c)'
  BY <1>1 DEF Closing, ToBeClosed
<1>4. QED
  BY <1>1, <1>2, <1>3, SweepFrame DEF NoSweep

(* The socket a sweep closes is off the list, and closed for every sweep.  *)
LEMMA CloseOneStep ==
  ASSUME IInv, TypeOK', NEW s \in Sweeper, CloseOne(s)
  PROVE  IInv'
<1> USE DEF IInv, TypeOK, tables
<1>1. PICK d \in sweep[s].left :
        /\ Unregister(d)
        /\ sweep' = [sweep EXCEPT ![s].left = @ \ {d}]
  BY DEF CloseOne
<1>2. d \in Conn
  BY DEF Sweep
<1>3. /\ PresenceMatchesSockets'
      /\ active' = active \ {d}
      /\ \A c \in Conn \ {d} : excuse'[c] = excuse[c]
  BY <1>1, <1>2, UnregisterStep
<1>4. UNCHANGED <<tables, phase, sendTo, banCache>>
  BY DEF CloseOne
<1>5. /\ \A q \in Sweeper \ {s} : sweep'[q] = sweep[q]
      /\ sweep'[s].stage = "closing" /\ sweep[s].stage = "closing"
      /\ sweep'[s].cause = sweep[s].cause
      /\ sweep'[s].who = sweep[s].who
      /\ sweep'[s].left = sweep[s].left \ {d}
  BY <1>1 DEF Sweep, CloseOne
<1>6. SweepShape'
  BY <1>5 DEF SweepShape, NoSweep
<1>7. \A c \in active' : /\ Closing(c, {"closed"}) => Closing(c, {"closed"})'
                         /\ ToBeClosed(c) => ToBeClosed(c)'
                         /\ Entitled(c) => Entitled(c)'
  BY <1>3, <1>4, <1>5 DEF Closing, ToBeClosed, Entitled, CanAccess
<1>8. UnentitledAreAccountedFor' /\ BannedCannotPost' /\ RoomGone'
  BY <1>3, <1>4, <1>7 DEF UnentitledAreAccountedFor, BannedCannotPost, RoomGone
<1>9. phase[d] \notin {"accepted", "access_ok", "ban_ok"}
  BY <1>1, <1>2 DEF FreshHandshake
<1>10. HandshakeExcused'
  BY <1>3, <1>4, <1>9 DEF HandshakeExcused, Granted, Entitled, CanAccess
<1>11. FreshHandshake' /\ OnlyTheLoopAsks' /\ OfflineIsUnregistered'
  BY <1>3, <1>4, <1>5 DEF FreshHandshake, OnlyTheLoopAsks, OfflineIsUnregistered
<1>12. QED
  BY <1>3, <1>6, <1>8, <1>10, <1>11

-----------------------------------------------------------------------------
(* Changes of access.                                                      *)

(* What a change must do for IInv: leave sockets, handlers and the sweeps  *)
(* under way alone, and answer for the sockets and handshakes whose        *)
(* entitlement it takes away.                                              *)
LEMMA ChangeFrame ==
  ASSUME IInv, TypeOK',
         UNCHANGED <<active, presence, sessions>>,
         \A c \in Conn : excuse[c] \subseteq excuse'[c],
         \A s \in Sweeper : \/ sweep'[s] = sweep[s]
                            \/ /\ sweep[s] = NoSweep
                               /\ sweep'[s].left = {}
                               /\ \/ /\ sweep'[s].stage = "cleared"
                                     /\ sweep'[s].cause = "closed"
                                  \/ /\ sweep'[s].stage = "committed"
                                     /\ sweep'[s].cause \in {"dismissed", "unattended"}
                                     /\ sweep'[s].who \in User,
         \A c \in active : Entitled(c) => Entitled(c)' \/ ToBeClosed(c)' \/ excuse'[c] # {},
         \A c \in Granted : Entitled(c) => Entitled(c)' \/ excuse'[c] # {},
         \A c \in active :
           UserOf[c] \in roomBan' => UserOf[c] \in roomBan \/ Closing(c, {"closed"})',
         room' = "deleted" /\ room = "open" =>
           \A c \in active : Closing(c, {"closed"})' \/ excuse'[c] # {}
  PROVE  IInv'
<1> USE DEF IInv, TypeOK, sessions, Granted, Granted
<1>1. \A c \in active : /\ Closing(c, {"closed"}) => Closing(c, {"closed"})'
                        /\ ToBeClosed(c) => ToBeClosed(c)'
  BY DEF Closing, ToBeClosed, NoSweep
<1>2. UnentitledAreAccountedFor'
  BY <1>1 DEF UnentitledAreAccountedFor
<1>3. BannedCannotPost'
  BY <1>1 DEF BannedCannotPost
<1>4. RoomGone'
  BY <1>1 DEF RoomGone
<1>5. HandshakeExcused'
  BY DEF HandshakeExcused
<1>6. SweepShape'
  BY DEF SweepShape, NoSweep
<1>7. FreshHandshake' /\ OnlyTheLoopAsks' /\ OfflineIsUnregistered' /\ PresenceMatchesSockets'
  BY DEF FreshHandshake, OnlyTheLoopAsks, OfflineIsUnregistered, PresenceMatchesSockets
<1>8. QED
  BY <1>2, <1>3, <1>4, <1>5, <1>6, <1>7

(* A sweep that starts for u is to close every registered socket of u.     *)
LEMMA StartSweepStep ==
  ASSUME IInv, TypeOK', NEW s \in Sweeper, NEW u \in User \cup {Everyone},
         NEW why \in {"dismissed", "unattended", "closed"}, StartSweep(s, why, u)
  PROVE  /\ sweep[s] = NoSweep
         /\ \A q \in Sweeper \ {s} : sweep'[q] = sweep[q]
         /\ sweep'[s].left = {}
         /\ sweep'[s].who = u
         /\ sweep'[s].cause = why
         /\ sweep'[s].stage = IF why = "closed" THEN "cleared" ELSE "committed"
         /\ \A c \in Conn : u \in {UserOf[c], Everyone} =>
              ToBeClosed(c)' /\ (why = "closed" => Closing(c, {"closed"})')
<1>1. /\ sweep[s] = NoSweep
      /\ \A q \in Sweeper \ {s} : sweep'[q] = sweep[q]
      /\ sweep'[s] = [stage |-> IF why = "closed" THEN "cleared" ELSE "committed",
                      cause |-> why, who |-> u, left |-> {}]
  BY DEF StartSweep, IInv, TypeOK
<1>2. \A c \in Conn : u \in {UserOf[c], Everyone} =>
        ToBeClosed(c)' /\ (why = "closed" => Closing(c, {"closed"})')
  BY <1>1 DEF ToBeClosed, Closing
<1>3. QED
  BY <1>1, <1>2

LEMMA PardonStep ==
  ASSUME TypeOK, NEW why, NEW conns, Pardon(why, conns)
  PROVE  \A c \in Conn : excuse[c] \subseteq excuse'[c] /\ (c \in conns => excuse'[c] # {})
BY DEF Pardon, TypeOK

(* Handshakes that were told yes are excused by what overtakes them.       *)
LEMMA OvertakeStep ==
  ASSUME TypeOK, NEW who, Overtake(who)
  PROVE  \A c \in Conn :
           /\ excuse[c] \subseteq excuse'[c]
           /\ c \in Granted /\ who \in {UserOf[c], Everyone} => excuse'[c] # {}
BY PardonStep DEF Overtake, Admissible, Granted

(* Access is given, or a ban runs out: nothing is taken from anybody.      *)
LEMMA GrantingStep ==
  ASSUME IInv, TypeOK',
         UNCHANGED <<active, presence, excuse, sessions, sweep, room>>,
         \A c \in Conn : CanAccess(UserOf[c]) => CanAccess(UserOf[c])',
         roomBan' \subseteq roomBan
  PROVE  IInv'
<1>1. \A c \in Conn : Entitled(c) => Entitled(c)'
  BY DEF Entitled
<1>2. active \subseteq Conn /\ Granted \subseteq Conn
  BY DEF IInv, TypeOK, Granted
<1>3. QED
  BY <1>1, <1>2, ChangeFrame

LEMMA DemotedStep ==
  ASSUME IInv, TypeOK', NEW a \in User, NEW u \in User, Demoted(a, u)
  PROVE  IInv'
<1> USE DEF Demoted, IInv, TypeOK, sessions, Granted
<1>1. /\ role' = [role EXCEPT ![u] = "member"]
      /\ UNCHANGED <<room, roomBan, attends, active, presence, sessions, sweep>>
  BY DEF Roster!Demote
<1>2. \A c \in Conn : excuse[c] \subseteq excuse'[c]
  BY PardonStep
<1>3. \A c \in Conn : UserOf[c] # u => (Entitled(c) => Entitled(c)')
  BY <1>1, UserOfAssumption DEF Entitled, CanAccess
<1>4. \A c \in Conn : UserOf[c] = u /\ c \in active \cup Granted /\ Entitled(c) =>
        Entitled(c)' \/ excuse'[c] # {}
  <2>1. CASE EventRoom /\ u \notin attends
    <3>1. Pardon("demoted", Admissible(u))
      BY <2>1
    <3>2. QED
      BY <3>1, PardonStep DEF Admissible
  <2>2. CASE ~(EventRoom /\ u \notin attends)
    BY <1>1, <2>2 DEF Entitled, CanAccess
  <2>3. QED
    BY <2>1, <2>2
<1>5. QED
  BY <1>1, <1>2, <1>3, <1>4, ChangeFrame

LEMMA RemovedStep ==
  ASSUME IInv, TypeOK', NEW s \in Sweeper, NEW u \in User, Removed(s, u)
  PROVE  IInv'
<1> USE DEF IInv, TypeOK, sessions, Granted, Granted
<1>1. /\ \A v \in User \ {u} : role'[v] = role[v] /\ (v \in attends' <=> v \in attends)
      /\ UNCHANGED <<room, roomBan, active, presence, sessions>>
  BY DEF Removed, Roster!Leave, Roster!Dismiss
<1>2. \A c \in Conn : excuse[c] \subseteq excuse'[c]
  BY OvertakeStep DEF Removed
<1>3. StartSweep(s, "dismissed", u)
  BY DEF Removed
<1>4. \A c \in Conn : UserOf[c] # u => (Entitled(c) => Entitled(c)')
  BY <1>1, UserOfAssumption DEF Entitled, CanAccess
<1>5. \A c \in Conn : UserOf[c] = u /\ c \in Granted => excuse'[c] # {}
  BY OvertakeStep DEF Removed
<1>6. QED
  BY <1>1, <1>2, <1>3, <1>4, <1>5, StartSweepStep, ChangeFrame

LEMMA UnattendedStep ==
  ASSUME IInv, TypeOK', NEW s \in Sweeper, NEW u \in User, Unattended(s, u)
  PROVE  IInv'
<1> USE DEF IInv, TypeOK, sessions, Granted, roster
<1>1. /\ attends' = attends \ {u}
      /\ UNCHANGED <<role, room, roomBan, active, presence, sessions>>
  BY DEF Unattended
<1>2. \A c \in Conn : excuse[c] \subseteq excuse'[c]
  BY OvertakeStep DEF Unattended
<1>3. StartSweep(s, "unattended", u)
  BY DEF Unattended
<1>4. \A c \in Conn : UserOf[c] # u \/ role[u] = "organizer" => (Entitled(c) => Entitled(c)')
  BY <1>1, UserOfAssumption DEF Entitled, CanAccess
<1>5. role[u] # "organizer" =>
        \A c \in Conn : UserOf[c] = u /\ c \in Granted => excuse'[c] # {}
  BY OvertakeStep DEF Unattended
<1>6. QED
  BY <1>1, <1>2, <1>3, <1>4, <1>5, StartSweepStep, ChangeFrame

LEMMA BannedFromRoomStep ==
  ASSUME IInv, TypeOK', NEW s \in Sweeper, NEW u \in User, BannedFromRoom(s, u)
  PROVE  IInv'
<1> USE DEF BannedFromRoom, IInv, TypeOK, sessions, manager, roster, Granted
<1>1. /\ roomBan' = roomBan \cup {u}
      /\ UNCHANGED <<role, attends, room, active, presence, excuse, sessions>>
  OBVIOUS
<1>2. StartSweep(s, "closed", u)
  OBVIOUS
<1>3. \A c \in Conn : Entitled(c) => Entitled(c)'
  BY <1>1 DEF Entitled, CanAccess
<1>4. QED
  BY <1>1, <1>2, <1>3, StartSweepStep, ChangeFrame

LEMMA RoomClosedStep ==
  ASSUME IInv, TypeOK', NEW s \in Sweeper, ClubDeleted(s) \/ RoomDeleted(s)
  PROVE  IInv'
<1> USE DEF IInv, TypeOK, sessions, Granted, ClubDeleted, RoomDeleted
<1>1. room' = "deleted" /\ roomBan' = {} /\ UNCHANGED <<active, presence, sessions>>
  OBVIOUS
<1>2. \A c \in Conn : excuse[c] \subseteq excuse'[c]
  BY OvertakeStep
<1>3. StartSweep(s, "closed", Everyone)
  OBVIOUS
<1>4. \A c \in Granted : excuse'[c] # {}
  BY OvertakeStep
<1>5. QED
  BY <1>1, <1>2, <1>3, <1>4, StartSweepStep, ChangeFrame

LEMMA RoomDroppedStep ==
  ASSUME IInv, TypeOK', RoomDropped
  PROVE  IInv'
<1> USE DEF IInv, TypeOK, sessions, Granted, RoomDropped
<1>1. room' = "deleted" /\ roomBan' = {} /\ UNCHANGED <<active, presence, sessions, sweep>>
  OBVIOUS
<1>2. \A c \in Conn : /\ excuse[c] \subseteq excuse'[c]
                      /\ c \in active \cup Granted => excuse'[c] # {}
  BY PardonStep DEF Admissible
<1>3. QED
  BY <1>1, <1>2, ChangeFrame

LEMMA ChangeStep == IInv /\ TypeOK' /\ Change => IInv'
<1> SUFFICES ASSUME IInv, TypeOK', Change PROVE IInv'
  OBVIOUS
<1> USE UserOfAssumption DEF IInv, TypeOK, manager, roster
<1>1. ASSUME NEW u \in User, Admitted(u) PROVE IInv'
  BY <1>1, GrantingStep DEF Admitted, Roster!Admit, CanAccess
<1>2. ASSUME NEW u \in User, Attended(u) PROVE IInv'
  BY <1>2, GrantingStep DEF Attended, CanAccess
<1>3. ASSUME NEW u \in User, RoomBanExpires(u) PROVE IInv'
  BY <1>3, GrantingStep DEF RoomBanExpires, CanAccess
<1>4. ASSUME NEW a \in User, NEW u \in User, Promoted(a, u) PROVE IInv'
  BY <1>4, GrantingStep DEF Promoted, Roster!Promote, CanAccess
<1>5. QED
  BY <1>1, <1>2, <1>3, <1>4, DemotedStep, RemovedStep, UnattendedStep, BannedFromRoomStep,
     RoomClosedStep, RoomDroppedStep DEF Change

LEMMA IInvStep == IInv /\ [Next]_vars => IInv'
<1> SUFFICES ASSUME IInv, [Next]_vars PROVE IInv'
  OBVIOUS
<1>1. TypeOK'
  BY TypeStep DEF IInv
<1>2. ASSUME NEW s \in Sweeper, Sweeping(s) PROVE IInv'
  BY <1>1, <1>2, LookUpStep, LookUpFailsStep, CopySocketsStep, CloseOneStep, FinishSweepStep
  DEF Sweeping
<1>3. CASE UNCHANGED vars
  BY <1>1, <1>3
  DEF vars, tables, manager, sessions, IInv, PresenceMatchesSockets, UnentitledAreAccountedFor,
      BannedCannotPost, HandshakeExcused, Granted, FreshHandshake, OnlyTheLoopAsks, OfflineIsUnregistered,
      SweepShape, RoomGone, ToBeClosed, Closing, Entitled, CanAccess
<1>4. QED
  BY <1>1, <1>2, <1>3, HandlerStep, OutsideStep, ChangeStep DEF Next

-----------------------------------------------------------------------------
(* The strengthening of the properties below holds in every state.         *)
THEOREM Invariance == Spec => []IInv
<1>1. QED
  BY IInvInit, IInvStep, PTL DEF Spec

(* The set of online users the room shows is the set of users who have a   *)
(* socket on the list (connect and disconnect of ConnectionManager).       *)
THEOREM PresenceIsExact == Spec => []PresenceMatchesSockets
<1>1. IInv => PresenceMatchesSockets
  BY DEF IInv
<1>2. QED
  BY <1>1, Invariance, PTL

(* Nobody keeps a socket of a room they may no longer use, except the four *)
(* ways that Excuse names (every caller of kick and close_room, and the    *)
(* changes of access that call neither).                                   *)
THEOREM RevocationIsAccountedFor == Spec => []UnentitledAreAccountedFor
<1>1. IInv => UnentitledAreAccountedFor
  BY DEF IInv
<1>2. QED
  BY <1>1, Invariance, PTL

(* The cached answer of get_active_ban lets no banned user post beyond the *)
(* moment the kick reaches the socket (check_ban_cached).                  *)
THEOREM BanReachesTheCache == Spec => []BannedCannotPost
<1>1. IInv => BannedCannotPost
  BY DEF IInv
<1>2. QED
  BY <1>1, Invariance, PTL

(* Whatever ends a session that reached its loop, a message that cannot be *)
(* stored, a client that vanished or a sweep that closed its socket, the   *)
(* finally block has taken the socket off the list by then.                *)
THEOREM LoopExitIsClean == Spec => LoopExitUnregisters
<1> DEFINE Clean ==
      \A c \in Conn :
        /\ phase[c] \in {"open", "storing", "posting", "offline"}
        /\ phase'[c] = "idle"
        => c \notin active'
<1>1. IInv /\ [Next]_vars => [Clean]_vars
  <2> SUFFICES ASSUME IInv, [Next]_vars, NEW c \in Conn,
                      phase[c] \in {"open", "storing", "posting", "offline"}, phase'[c] = "idle"
               PROVE  c \notin active'
    OBVIOUS
  <2> USE DEF IInv, TypeOK
  <2>1. \A d \in Conn, p \in Phase : Enter(d, p) /\ d # c => phase'[c] = phase[c]
    BY DEF Enter
  <2>2. PICK d \in Conn : Handler(d) \/ Outside(d) \/ BanCacheExpires(d)
    BY DEF Next, Change, Sweeping, LookUp, LookUpFails, CopySockets, CloseOne, FinishSweep,
           Admitted, Attended, RoomBanExpires, Promoted, Demoted, Removed, Unattended,
           BannedFromRoom, ClubDeleted, RoomDeleted, RoomDropped, sessions, vars
  <2>3. CASE CheckAccess(d) \/ CheckBan(d) \/ CompleteHandshake(d) \/ SendSnapshot(d)
    BY <2>1, <2>3 DEF CheckAccess, CheckBan, CompleteHandshake, SendSnapshot, Enter,
                      HandlerEnds, StartBroadcast
  <2>4. CASE SendOne(d) \/ (Outside(d) /\ ~LoopFails(d)) \/ BanCacheExpires(d)
    BY <2>4 DEF SendOne, Outside, Connect, ReceiveMessage, Vanish, OutsideSendFails,
                BanCacheExpires, Enter, sessions
  <2>5. CASE BroadcastDone(d)
    BY <2>5 DEF BroadcastDone, Enter, HandlerEnds, manager, OfflineIsUnregistered
  <2>6. CASE StoreMessage(d) \/ ReceiveDisconnect(d) \/ LoopFails(d)
    BY <2>6 DEF StoreMessage, ReceiveDisconnect, LoopFails, Finalize, StartBroadcast, Enter,
                HandlerEnds, Unregister
  <2>7. QED
    BY <2>2, <2>3, <2>4, <2>5, <2>6 DEF Handler
<1> HIDE DEF Clean
<1>2. Spec => [][Clean]_vars
  BY <1>1, Invariance, PTL DEF Spec
<1>3. QED
  BY <1>2 DEF Clean, LoopExitUnregisters
=============================================================================
