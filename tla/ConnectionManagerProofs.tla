---------------------- MODULE ConnectionManagerProofs ----------------------
(***************************************************************************)
(* Safety of the websocket rooms, for any number of websockets, workers,   *)
(* projects and messages.                                                  *)
(***************************************************************************)
EXTENDS ConnectionManager, TLAPS

Authenticated(s) == <<UserOf[s], PathOrg[s]>> \in Members

Admitted(s) == Authenticated(s) /\ ProjectMatches(s)

\* Handlers get past the handshake with the permission to.
Handshakes ==
    \A s \in Sockets :
        /\ pc[s] = "project" => Authenticated(s)
        /\ pc[s] \in Registered => Admitted(s)

\* Only running handlers are in a room, each in its own.
RoomsAreOfHandlers ==
    \A k \in Rooms : \A s \in InRoom(k) : Room(s) = k /\ pc[s] \in Registered

\* A broadcast serves sockets of the sender's room, though some of them may
\* have left it.
CopiesAreOfRooms ==
    \A s \in Sockets : \A q \in pending[s] : Room(q) = Room(s) /\ Admitted(q)

\* What is being broadcast has been received.
SendersHaveReceived ==
    \A s \in Sockets : pc[s] = "sending" => sent[s] # 0

IndInv ==
    /\ TypeOK
    /\ SendersHaveReceived
    /\ Handshakes
    /\ RoomsAreOfHandlers
    /\ CopiesAreOfRooms
    /\ ConnectedAreInRoom
    /\ OnlyProjectMembersHear

-----------------------------------------------------------------------------
(* Every kind of step preserves the inductive invariant.                   *)

LEMMA RoomType == \A s \in Sockets : Room(s) \in Rooms
  BY SocketsAreTyped DEF Room, Rooms

LEMMA NoRoomIsNoSet == NoRoom \notin SUBSET Sockets
  BY NoRoomIsNoRoom

LEMMA InitIndInv == Init => IndInv
  BY BoundIsTyped
  DEF Init, IndInv, TypeOK, SendersHaveReceived, Handshakes, RoomsAreOfHandlers, CopiesAreOfRooms,
      ConnectedAreInRoom, OnlyProjectMembersHear, Registered, InRoom

\* A handler that ends takes its own socket out of its room, and no other.
LEMMA LeaveRoom ==
    ASSUME IndInv, NEW s \in Sockets, Leave(s)
    PROVE  /\ connections' \in [Rooms -> (SUBSET Sockets) \cup {NoRoom}]
           /\ stale' \in [Sockets -> BOOLEAN]
           /\ \A k \in Rooms : InRoom(k)' = InRoom(k) \ {s}
<1> DEFINE k == Room(s)
<1>1. k \in Rooms
  BY RoomType
<1>2. /\ connections \in [Rooms -> (SUBSET Sockets) \cup {NoRoom}]
      /\ stale \in [Sockets -> BOOLEAN]
      /\ \A j \in Rooms \ {k} : s \notin InRoom(j)
  BY DEF IndInv, TypeOK, RoomsAreOfHandlers
<1>3. CASE s \notin InRoom(k)
  <2>1. UNCHANGED <<connections, stale>>
    BY <1>3 DEF Leave, Disconnect
  <2>2. \A j \in Rooms : InRoom(j)' = InRoom(j) /\ s \notin InRoom(j)
    BY <1>2, <1>3, <2>1 DEF InRoom
  <2>3. \A j \in Rooms : InRoom(j) \ {s} = InRoom(j)
    BY <2>2
  <2> QED
    BY <1>2, <2>1, <2>2, <2>3
<1>4. CASE InRoom(k) = {s}
  <2>1. connections' = [connections EXCEPT ![k] = NoRoom]
    BY <1>4 DEF Leave, Disconnect, Drop
  <2>2. stale' = [q \in Sockets |-> stale[q] \/ (pc[q] = "sending" /\ Room(q) = k)]
    BY <1>4 DEF Leave, Disconnect, Drop
  <2>3. stale' \in [Sockets -> BOOLEAN]
    BY <2>2
  <2>4. \A j \in Rooms \ {k} : InRoom(j)' = InRoom(j)
    BY <1>2, <2>1 DEF InRoom
  <2>5. \A j \in Rooms \ {k} : InRoom(j) \ {s} = InRoom(j)
    BY <1>2
  <2>6. InRoom(k)' = {} /\ InRoom(k) \ {s} = {}
    BY <1>1, <1>2, <1>4, <2>1 DEF InRoom
  <2> QED
    BY <1>2, <2>1, <2>3, <2>4, <2>5, <2>6
<1>5. CASE s \in InRoom(k) /\ InRoom(k) # {s}
  <2>1. /\ connections[k] # NoRoom /\ connections[k] \in SUBSET Sockets
        /\ connections' = [connections EXCEPT ![k] = @ \ {s}]
        /\ UNCHANGED stale
    BY <1>1, <1>2, <1>5 DEF Leave, Disconnect, InRoom
  <2>2. connections[k] \ {s} # NoRoom
    BY <2>1, NoRoomIsNoSet
  <2> QED
    BY <1>1, <1>2, <2>1, <2>2 DEF InRoom
<1> QED
  BY <1>3, <1>4, <1>5

\* What a handler that ends leaves behind.  Its link may fail in the same step.
LEMMA LeaveIndInv ==
    ASSUME IndInv, NEW s \in Sockets, Leave(s),
           link' \in [Sockets -> {"open", "gone", "failed"}],
           \A q \in Sockets : link'[q] = "open" => link[q] = "open",
           UNCHANGED <<sent, inbox>>
    PROVE  IndInv'
<1>1. /\ pc' = [pc EXCEPT ![s] = "done"]
      /\ pending' = [pending EXCEPT ![s] = {}]
      /\ running' = {}
  BY DEF Leave
<1>2. /\ connections' \in [Rooms -> (SUBSET Sockets) \cup {NoRoom}]
      /\ stale' \in [Sockets -> BOOLEAN]
      /\ \A k \in Rooms : InRoom(k)' = InRoom(k) \ {s}
  BY LeaveRoom
<1>3. TypeOK'
  BY <1>1, <1>2 DEF IndInv, TypeOK
<1>4. Handshakes'
  BY <1>1 DEF IndInv, TypeOK, Handshakes, Registered, Authenticated, Admitted,
              ProjectMatches
<1>5. RoomsAreOfHandlers'
  BY <1>1, <1>2 DEF IndInv, TypeOK, RoomsAreOfHandlers, Room
<1>6. CopiesAreOfRooms'
  BY <1>1 DEF IndInv, TypeOK, CopiesAreOfRooms, Room, Admitted, Authenticated,
              ProjectMatches
<1>7. ConnectedAreInRoom'
  BY <1>1, <1>2, RoomType DEF IndInv, TypeOK, ConnectedAreInRoom, Registered, Room
<1>8. OnlyProjectMembersHear'
  BY DEF IndInv, OnlyProjectMembersHear
<1>9. SendersHaveReceived'
  BY <1>1 DEF IndInv, TypeOK, SendersHaveReceived
<1> QED
  BY <1>3, <1>4, <1>5, <1>6, <1>7, <1>8, <1>9 DEF IndInv

\* A step between two registered places, or before the handshake is over.
LEMMA MoveIndInv ==
    ASSUME IndInv, NEW s \in Sockets, NEW from, NEW to, Goto(s, from, to),
           \/ from \in Registered /\ to \in Registered
           \/ from \in {"idle", "auth"} /\ to \in {"auth", "project", "done"},
           to = "project" => Authenticated(s),
           TypeOK', SendersHaveReceived', CopiesAreOfRooms',
           UNCHANGED <<connections, link, inbox>>
    PROVE  IndInv'
<1>1. Handshakes'
  BY DEF Goto, IndInv, TypeOK, Handshakes, Registered, Authenticated, Admitted,
         ProjectMatches
<1>2. RoomsAreOfHandlers'
  BY DEF Goto, IndInv, TypeOK, RoomsAreOfHandlers, InRoom, Registered, Room
<1>3. ConnectedAreInRoom'
  BY DEF Goto, IndInv, TypeOK, ConnectedAreInRoom, InRoom, Registered, Room
<1>4. OnlyProjectMembersHear'
  BY DEF IndInv, OnlyProjectMembersHear
<1> QED
  BY <1>1, <1>2, <1>3, <1>4 DEF IndInv

LEMMA AcceptIndInv ==
    ASSUME IndInv, NEW s \in Sockets, Accept(s)
    PROVE  IndInv'
<1>1. TypeOK'
  BY DEF Accept, Goto, IndInv, TypeOK
<1>2. CopiesAreOfRooms'
  BY DEF Accept, IndInv, CopiesAreOfRooms, Room, Admitted, Authenticated, ProjectMatches
<1>3. SendersHaveReceived'
  BY DEF Accept, Goto, IndInv, TypeOK, SendersHaveReceived
<1> QED
  BY <1>1, <1>2, <1>3, MoveIndInv DEF Accept

LEMMA AuthenticateIndInv ==
    ASSUME IndInv, NEW s \in Sockets, Authenticate(s)
    PROVE  IndInv'
<1>1. TypeOK'
  BY DEF Authenticate, Goto, IndInv, TypeOK
<1>2. CopiesAreOfRooms'
  BY DEF Authenticate, IndInv, CopiesAreOfRooms, Room, Admitted, Authenticated,
         ProjectMatches
<1>3. SendersHaveReceived'
  BY DEF Authenticate, Goto, IndInv, TypeOK, SendersHaveReceived
<1> QED
  BY <1>1, <1>2, <1>3, MoveIndInv DEF Authenticate, Authenticated

LEMMA ConnectIndInv ==
    ASSUME IndInv, NEW s \in Sockets, Connect(s)
    PROVE  IndInv'
<1> DEFINE k == Room(s)
<1>1. k \in Rooms
  BY RoomType
<1>2. /\ pc[s] = "project"
      /\ Authenticated(s)
      /\ UNCHANGED <<link, pending, stale, running, sent, inbox>>
  BY DEF Connect, Goto, IndInv, Handshakes
<1>3. CopiesAreOfRooms' /\ OnlyProjectMembersHear' /\ SendersHaveReceived'
  <2>1. CopiesAreOfRooms' /\ OnlyProjectMembersHear'
    BY <1>2 DEF IndInv, CopiesAreOfRooms, OnlyProjectMembersHear, Room, Admitted,
                Authenticated, ProjectMatches
  <2>2. SendersHaveReceived'
    BY <1>2 DEF Connect, Goto, IndInv, TypeOK, SendersHaveReceived
  <2> QED
    BY <2>1, <2>2
<1>4. CASE ProjectMatches(s)
  <2>1. /\ pc' = [pc EXCEPT ![s] = "loop"]
        /\ connections' = [connections EXCEPT ![k] = InRoom(k) \cup {s}]
    BY <1>4 DEF Connect, Goto
  <2>2. InRoom(k) \in SUBSET Sockets
    BY <1>1 DEF InRoom, IndInv, TypeOK
  <2>3. InRoom(k) \cup {s} # NoRoom
    BY <2>2, NoRoomIsNoSet
  <2>4. TypeOK'
    BY <1>1, <1>2, <2>1, <2>2 DEF IndInv, TypeOK, Registered
  <2>5. /\ InRoom(k)' = InRoom(k) \cup {s}
        /\ \A j \in Rooms \ {k} : InRoom(j)' = InRoom(j)
    BY <1>1, <2>1, <2>3 DEF InRoom, IndInv, TypeOK
  <2>6. Handshakes'
    BY <1>2, <1>4, <2>1 DEF IndInv, TypeOK, Handshakes, Registered, Admitted, Authenticated,
                            ProjectMatches
  <2>7. RoomsAreOfHandlers'
    <3>1. pc'[s] = "loop" /\ \A q \in Sockets \ {s} : pc'[q] = pc[q]
      BY <2>1 DEF IndInv, TypeOK
    <3>2. ASSUME NEW q \in InRoom(k)' PROVE Room(q) = k /\ pc'[q] \in Registered
      BY <1>1, <2>2, <2>5, <3>1, <3>2 DEF IndInv, RoomsAreOfHandlers, Registered
    <3>3. ASSUME NEW j \in Rooms \ {k}, NEW q \in InRoom(j)'
          PROVE  Room(q) = j /\ pc'[q] \in Registered
      <4>1. q \in Sockets
        BY <2>4, <3>3 DEF TypeOK, InRoom
      <4> QED
        BY <2>5, <3>1, <3>3, <4>1 DEF IndInv, RoomsAreOfHandlers, Registered
    <3> QED
      BY <3>2, <3>3 DEF RoomsAreOfHandlers, Room
  <2>8. ConnectedAreInRoom'
    BY <1>2, <2>1, <2>5, RoomType DEF IndInv, TypeOK, ConnectedAreInRoom, Registered, Room
  <2> QED
    BY <1>3, <2>4, <2>6, <2>7, <2>8 DEF IndInv
<1>5. CASE ~ProjectMatches(s)
  <2>1. pc' = [pc EXCEPT ![s] = "done"] /\ UNCHANGED connections
    BY <1>5 DEF Connect, Goto
  <2>2. TypeOK'
    BY <1>2, <2>1 DEF IndInv, TypeOK
  <2>3. Handshakes'
    BY <1>2, <2>1 DEF IndInv, TypeOK, Handshakes, Registered, Admitted, Authenticated,
                      ProjectMatches
  <2>4. RoomsAreOfHandlers' /\ ConnectedAreInRoom'
    BY <1>2, <2>1 DEF IndInv, TypeOK, RoomsAreOfHandlers, ConnectedAreInRoom, InRoom,
                      Registered, Room
  <2> QED
    BY <1>3, <2>2, <2>3, <2>4 DEF IndInv
<1> QED
  BY <1>4, <1>5

LEMMA ReceiveIndInv ==
    ASSUME IndInv, NEW s \in Sockets, Receive(s)
    PROVE  IndInv'
<1>1. /\ Goto(s, "loop", "sending")
      /\ sent[s] < MaxMessages /\ sent' = [sent EXCEPT ![s] = @ + 1]
      /\ pending' = [pending EXCEPT ![s] = InRoom(Room(s))]
      /\ stale' = [stale EXCEPT ![s] = FALSE]
      /\ running' = {s}
      /\ UNCHANGED <<connections, link, inbox>>
  BY DEF Receive
<1>2. InRoom(Room(s)) \in SUBSET Sockets
  BY RoomType DEF InRoom, IndInv, TypeOK
<1>3. sent[s] + 1 \in 0 .. MaxMessages
  BY <1>1, BoundIsTyped DEF IndInv, TypeOK
<1>4. TypeOK'
  BY <1>1, <1>2, <1>3 DEF Goto, IndInv, TypeOK, Registered
<1>5. \A q \in InRoom(Room(s)) : Room(q) = Room(s) /\ Admitted(q)
  BY <1>2, RoomType DEF IndInv, RoomsAreOfHandlers, Handshakes
<1>6. CopiesAreOfRooms'
  BY <1>1, <1>5 DEF IndInv, TypeOK, CopiesAreOfRooms, Room, Admitted, Authenticated,
                    ProjectMatches
<1>7. SendersHaveReceived'
  BY <1>1, <1>3 DEF Goto, IndInv, TypeOK, SendersHaveReceived
<1> QED
  BY <1>1, <1>4, <1>6, <1>7, MoveIndInv DEF Registered

LEMMA FinishBroadcastIndInv ==
    ASSUME IndInv, NEW s \in Sockets, FinishBroadcast(s)
    PROVE  IndInv'
<1>1. CASE link[s] = "failed"
  BY <1>1, LeaveIndInv DEF FinishBroadcast, IndInv, TypeOK
<1>2. CASE link[s] # "failed"
  <2>1. TypeOK'
    BY <1>2 DEF FinishBroadcast, Goto, IndInv, TypeOK, Registered
  <2>2. CopiesAreOfRooms'
    BY <1>2 DEF FinishBroadcast, IndInv, CopiesAreOfRooms, Room, Admitted,
                Authenticated, ProjectMatches
  <2>3. SendersHaveReceived'
    BY <1>2 DEF FinishBroadcast, Goto, IndInv, TypeOK, SendersHaveReceived
  <2> QED
    BY <1>2, <2>1, <2>2, <2>3, MoveIndInv DEF FinishBroadcast, Registered
<1> QED
  BY <1>1, <1>2

\* Serving one socket: the copies shrink, nobody moves.
LEMMA ServeIndInv ==
    ASSUME IndInv, NEW s \in Sockets, NEW q \in pending[s],
           pending' = [pending EXCEPT ![s] = @ \ {q}],
           TypeOK', RoomsAreOfHandlers', ConnectedAreInRoom', OnlyProjectMembersHear',
           UNCHANGED <<pc, sent>>
    PROVE  IndInv'
<1>1. CopiesAreOfRooms'
  BY DEF IndInv, TypeOK, CopiesAreOfRooms, Room, Admitted, Authenticated, ProjectMatches
<1>2. Handshakes' /\ SendersHaveReceived'
  BY DEF IndInv, Handshakes, SendersHaveReceived, Admitted, Authenticated, ProjectMatches
<1> QED
  BY <1>1, <1>2 DEF IndInv

LEMMA SendIndInv ==
    ASSUME IndInv, NEW s \in Sockets, Send(s)
    PROVE  IndInv'
<1>1. PICK q \in pending[s] :
        SendDelivers(s, q) \/ SendIsLost(s, q) \/ SendDisconnects(s, q) \/ SendRaises(s, q)
  BY DEF Send
<1>2. /\ q \in Sockets /\ Room(q) = Room(s) /\ Admitted(q)
      /\ pc[s] = "sending"
  BY DEF Send, IndInv, TypeOK, CopiesAreOfRooms
<1>3. CASE SendDelivers(s, q)
  <2>1. /\ pending' = [pending EXCEPT ![s] = @ \ {q}]
        /\ inbox' = [inbox EXCEPT ![q] = @ \cup {<<s, sent[s]>>}]
        /\ running' = {}
        /\ UNCHANGED <<connections, pc, link, stale, sent>>
    BY <1>3 DEF SendDelivers, Deliver
  <2>2. sent[s] \in 1 .. MaxMessages
    BY <1>2, BoundIsTyped DEF IndInv, TypeOK, SendersHaveReceived
  <2>3. TypeOK'
    BY <1>2, <2>1, <2>2 DEF IndInv, TypeOK
  <2>4. RoomsAreOfHandlers' /\ ConnectedAreInRoom'
    BY <2>1 DEF IndInv, RoomsAreOfHandlers, ConnectedAreInRoom, InRoom, Room
  <2>5. /\ PathProject[s] = PathProject[q]
        /\ <<UserOf[q], ProjectOrg[PathProject[q]]>> \in Members
    BY <1>2 DEF Room, Admitted, Authenticated, ProjectMatches
  <2>6. OnlyProjectMembersHear'
    <3>1. SUFFICES ASSUME NEW p \in Sockets, NEW m \in inbox'[p]
                   PROVE  /\ PathProject[m[1]] = PathProject[p]
                          /\ <<UserOf[p], ProjectOrg[PathProject[p]]>> \in Members
      BY DEF OnlyProjectMembersHear
    <3>2. m \in inbox[p] \/ (p = q /\ m = <<s, sent[s]>>)
      BY <1>2, <2>1, <3>1 DEF IndInv, TypeOK
    <3>3. CASE m \in inbox[p]
      BY <3>3 DEF IndInv, OnlyProjectMembersHear
    <3>4. CASE p = q /\ m = <<s, sent[s]>>
      BY <2>5, <3>4
    <3> QED
      BY <3>2, <3>3, <3>4
  <2> QED
    BY <2>1, <2>3, <2>4, <2>6, ServeIndInv
<1>4. CASE SendIsLost(s, q)
  <2>1. /\ pending' = [pending EXCEPT ![s] = @ \ {q}]
        /\ running' = {}
        /\ UNCHANGED <<connections, pc, link, stale, sent, inbox>>
    BY <1>4 DEF SendIsLost
  <2>2. TypeOK'
    BY <1>2, <2>1 DEF IndInv, TypeOK
  <2>3. RoomsAreOfHandlers' /\ ConnectedAreInRoom' /\ OnlyProjectMembersHear'
    BY <2>1 DEF IndInv, RoomsAreOfHandlers, ConnectedAreInRoom,
                OnlyProjectMembersHear, InRoom, Room
  <2> QED
    BY <2>1, <2>2, <2>3, ServeIndInv
<1>5. CASE SendDisconnects(s, q)
  BY <1>2, <1>5, LeaveIndInv DEF SendDisconnects, IndInv, TypeOK
<1>6. CASE SendRaises(s, q)
  <2> DEFINE k == Room(s)
             takesOut == ~stale[s] /\ q \in InRoom(k)
  <2>1. CASE takesOut
    <3>1. /\ connections' = [connections EXCEPT ![k] = @ \ {q}]
          /\ pending' = [pending EXCEPT ![s] = @ \ {q}]
          /\ running' = {s}
          /\ UNCHANGED <<pc, stale, link, sent, inbox>>
          /\ link[q] = "failed" \/ pc[q] = "done"
      BY <1>6, <2>1 DEF SendRaises
    <3>2. /\ k \in Rooms
          /\ connections[k] # NoRoom /\ connections[k] \in SUBSET Sockets
          /\ connections[k] \ {q} # NoRoom
      BY <2>1, RoomType, NoRoomIsNoSet DEF InRoom, IndInv, TypeOK
    <3>3. TypeOK'
      BY <1>2, <3>1, <3>2 DEF IndInv, TypeOK
    <3>4. /\ InRoom(k)' = InRoom(k) \ {q}
          /\ \A j \in Rooms \ {k} : InRoom(j)' = InRoom(j)
      BY <3>1, <3>2 DEF InRoom, IndInv, TypeOK
    <3>5. RoomsAreOfHandlers'
      BY <3>1, <3>4 DEF IndInv, RoomsAreOfHandlers, Room
    <3>6. ConnectedAreInRoom'
      BY <3>1, <3>4, RoomType DEF IndInv, ConnectedAreInRoom, Registered, Room
    <3>7. OnlyProjectMembersHear'
      BY <3>1 DEF IndInv, OnlyProjectMembersHear
    <3> QED
      BY <3>1, <3>3, <3>5, <3>6, <3>7, ServeIndInv
  <2>2. CASE ~takesOut
    BY <1>6, <2>2, LeaveIndInv DEF SendRaises, IndInv, TypeOK
  <2> QED
    BY <2>1, <2>2
<1> QED
  BY <1>1, <1>3, <1>4, <1>5, <1>6

LEMMA ClientLeavesIndInv ==
    ASSUME IndInv, NEW s \in Sockets, ClientLeaves(s)
    PROVE  IndInv'
<1>1. /\ link' = [link EXCEPT ![s] = "gone"]
      /\ UNCHANGED <<connections, pc, pending, stale, running, sent, inbox>>
  BY DEF ClientLeaves
<1>2. TypeOK'
  BY <1>1 DEF IndInv, TypeOK
<1>3. /\ SendersHaveReceived' /\ Handshakes' /\ RoomsAreOfHandlers' /\ CopiesAreOfRooms'
      /\ OnlyProjectMembersHear'
  BY <1>1 DEF IndInv, SendersHaveReceived, Handshakes, RoomsAreOfHandlers,
              CopiesAreOfRooms, OnlyProjectMembersHear, InRoom, Room, Admitted,
              Authenticated, ProjectMatches
<1>4. ConnectedAreInRoom'
  BY <1>1 DEF IndInv, TypeOK, ConnectedAreInRoom, InRoom, Room
<1> QED
  BY <1>2, <1>3, <1>4 DEF IndInv

LEMMA StutterIndInv ==
    ASSUME IndInv, UNCHANGED vars
    PROVE  IndInv'
<1>1. TypeOK'
  BY DEF vars, IndInv, TypeOK
<1>2. /\ SendersHaveReceived' /\ Handshakes' /\ RoomsAreOfHandlers' /\ CopiesAreOfRooms'
      /\ OnlyProjectMembersHear' /\ ConnectedAreInRoom'
  BY DEF vars, IndInv, SendersHaveReceived, Handshakes, RoomsAreOfHandlers,
         CopiesAreOfRooms, OnlyProjectMembersHear, ConnectedAreInRoom, InRoom, Room,
         Admitted, Authenticated, ProjectMatches
<1> QED
  BY <1>1, <1>2 DEF IndInv

LEMMA NextIndInv == IndInv /\ [Next]_vars => IndInv'
<1> SUFFICES ASSUME IndInv, [Next]_vars PROVE IndInv'
  OBVIOUS
<1>1. ASSUME NEW s \in Sockets, StopReceiving(s) PROVE IndInv'
  BY <1>1, LeaveIndInv DEF StopReceiving, IndInv, TypeOK
<1>2. ASSUME NEW s \in Sockets, Handler(s) PROVE IndInv'
  BY <1>1, <1>2, AuthenticateIndInv, ConnectIndInv, SendIndInv, FinishBroadcastIndInv
  DEF Handler
<1>3. ASSUME NEW s \in Sockets, Client(s) PROVE IndInv'
  BY <1>1, <1>3, AcceptIndInv, ReceiveIndInv, ClientLeavesIndInv DEF Client
<1>4. CASE UNCHANGED vars
  BY <1>4, StutterIndInv
<1> QED
  BY <1>2, <1>3, <1>4 DEF Next, Finished

-----------------------------------------------------------------------------
(* The theorems.                                                           *)

(***************************************************************************)
(* The inductive invariant holds in every reachable state.                 *)
(***************************************************************************)
THEOREM Invariance == Spec => []IndInv
  BY InitIndInv, NextIndInv, PTL DEF Spec

(***************************************************************************)
(* Rooms, handlers, copies and inboxes keep their types.                   *)
(***************************************************************************)
THEOREM TypeCorrect == Spec => []TypeOK
<1>1. IndInv => TypeOK
  BY DEF IndInv
<1> QED
  BY <1>1, Invariance, PTL

(***************************************************************************)
(* No handler leaves its socket behind in a room.                          *)
(***************************************************************************)
THEOREM NoSocketLeft == Spec => []FinishedAreGone
<1>1. IndInv => FinishedAreGone
  BY RoomType DEF IndInv, RoomsAreOfHandlers, FinishedAreGone, Registered
<1> QED
  BY <1>1, Invariance, PTL

(***************************************************************************)
(* No handler and no broadcast takes a connected client out of its room.   *)
(***************************************************************************)
THEOREM NoClientDeaf == Spec => []ConnectedAreInRoom
<1>1. IndInv => ConnectedAreInRoom
  BY DEF IndInv
<1> QED
  BY <1>1, Invariance, PTL

(***************************************************************************)
(* No message leaves its project or the members of its organization.       *)
(***************************************************************************)
THEOREM MessagesStayInProject == Spec => []OnlyProjectMembersHear
<1>1. IndInv => OnlyProjectMembersHear
  BY DEF IndInv
<1> QED
  BY <1>1, Invariance, PTL
=============================================================================
