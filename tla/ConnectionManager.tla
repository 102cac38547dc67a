------------------------- MODULE ConnectionManager -------------------------
(***************************************************************************)
(* The websocket rooms of a project: ConnectionManager                     *)
(* (src/shared/connection_manager.py) and the handler that drives it       *)
(* (src/projects/ws_router.py).                                            *)
(*                                                                         *)
(* One handler runs per websocket, as an asyncio task of the worker that   *)
(* accepted it.  Until it suspends a handler runs alone: connect and       *)
(* disconnect are single steps, and a broadcast is one step per socket,    *)
(* after which the other handlers run only if the send was awaited.  They  *)
(* do not between the copy of the list and the first send, and not after   *)
(* a send that has raised RuntimeError.  Each of the gunicorn workers has  *)
(* a manager of its own.  The order in which a list was filled is left     *)
(* open: a room is a set, a broadcast serves the rest of its copy in any   *)
(* order.                                                                  *)
(*                                                                         *)
(* The client may leave at any moment.  What a handler notices of it       *)
(* depends on the server (external: Starlette and uvicorn):                *)
(*   - a receive raises WebSocketDisconnect once the messages that were    *)
(*     already there have been read;                                       *)
(*   - a send to a client that has left may go nowhere, or raises          *)
(*     WebSocketDisconnect; after that, and to a handler that has ended,   *)
(*     it raises RuntimeError.                                             *)
(*                                                                         *)
(* A definition marked "Fault:" is no part of the system: it is the form   *)
(* its neighbour would take with a bug in the code, kept to show which     *)
(* property notices.                                                       *)
(***************************************************************************)
EXTENDS Naturals

CONSTANTS
    Sockets,        \* one per websocket, that is, per handler
    Workers,        \* gunicorn worker processes
    Projects,       \* project identifiers a path may name
    Orgs,
    Users,
    WorkerOf,       \* the worker that accepts a websocket
    PathProject,    \* project_id of the path, the room of a websocket
    PathOrg,        \* org_id of the path
    UserOf,         \* user of the token, Nobody if the token is refused
    Members,        \* the <<user, organization>> pairs of the database
    ProjectOrg,     \* organization of every project, NoOrg if there is no row
    Nobody, NoOrg,
    NoRoom,         \* the dictionary has no entry
    MaxMessages     \* bound: messages each client sends

ASSUME SocketsAreTyped ==
    /\ WorkerOf \in [Sockets -> Workers]
    /\ PathProject \in [Sockets -> Projects]
    /\ PathOrg \in [Sockets -> Orgs]
    /\ UserOf \in [Sockets -> Users \cup {Nobody}]
ASSUME DatabaseIsTyped ==
    /\ Members \subseteq Users \X Orgs
    /\ ProjectOrg \in [Projects -> Orgs \cup {NoOrg}]
    /\ Nobody \notin Users /\ NoOrg \notin Orgs
ASSUME BoundIsTyped == MaxMessages \in Nat
ASSUME NoRoomIsNoRoom == \A room \in SUBSET Sockets : NoRoom # room

VARIABLES
    connections,    \* the sockets of every room of every worker, or NoRoom
    pc,             \* where each handler stands
    link,           \* the connection: open, gone (the client has left), failed
                    \* (it has left and a send has failed)
    pending,        \* broadcast: the rest of the copy of the room
    stale,          \* broadcast: its list is no longer the one of the room
    running,        \* the handler in the middle of a broadcast that has not
                    \* suspended, if there is one
    sent,           \* messages received from each client
    inbox           \* the <<sender, number>> delivered to each client

vars == <<connections, pc, link, pending, stale, running, sent, inbox>>

Rooms == Workers \X Projects

Room(s) == <<WorkerOf[s], PathProject[s]>>

\* The sockets of a room's list; none if there is no list.
InRoom(k) == IF connections[k] = NoRoom THEN {} ELSE connections[k]

Registered == {"loop", "sending"}

TypeOK ==
    /\ connections \in [Rooms -> (SUBSET Sockets) \cup {NoRoom}]
    /\ pc \in [Sockets -> {"idle", "auth", "project"} \cup Registered \cup {"done"}]
    /\ link \in [Sockets -> {"open", "gone", "failed"}]
    /\ pending \in [Sockets -> SUBSET Sockets]
    /\ stale \in [Sockets -> BOOLEAN]
    /\ running \subseteq Sockets
    /\ sent \in [Sockets -> 0 .. MaxMessages]
    /\ inbox \in [Sockets -> SUBSET (Sockets \X (1 .. MaxMessages))]

Init ==
    /\ connections = [k \in Rooms |-> NoRoom]
    /\ pc = [s \in Sockets |-> "idle"]
    /\ link = [s \in Sockets |-> "open"]
    /\ pending = [s \in Sockets |-> {}]
    /\ stale = [s \in Sockets |-> FALSE]
    /\ running = {}
    /\ sent = [s \in Sockets |-> 0]
    /\ inbox = [s \in Sockets |-> {}]

-----------------------------------------------------------------------------
(* The handshake.                                                          *)

Goto(s, from, to) ==
    /\ pc[s] = from
    /\ pc' = [pc EXCEPT ![s] = to]

Accept(s) ==
    /\ Goto(s, "idle", "auth")
    /\ UNCHANGED <<connections, link, pending, stale, running, sent, inbox>>

\* authenticate_websocket and check_role: a refused websocket is closed.
Authenticate(s) ==
    /\ Goto(s, "auth", IF <<UserOf[s], PathOrg[s]>> \in Members THEN "project"
                                                                ELSE "done")
    /\ UNCHANGED <<connections, link, pending, stale, running, sent, inbox>>

\* Fault: any project will do.
ProjectExists(s) == ProjectOrg[PathProject[s]] # NoOrg

\* get_project finds the project, and in the organization of the path.
ProjectMatches(s) == ProjectOrg[PathProject[s]] = PathOrg[s]

\* Fault: connect is given the organization of the path, for which the
\* dictionary makes a list as readily as for a project.
ConnectToOrg(s) ==
    LET k == <<WorkerOf[s], PathOrg[s]>> IN
    /\ ProjectMatches(s)
    /\ Goto(s, "project", "loop")
    /\ connections' = [j \in Rooms \cup {k} |-> IF j = k THEN {s} ELSE connections[j]]
    /\ UNCHANGED <<link, pending, stale, running, sent, inbox>>

\* connect: the list of the room is created on demand.
Connect(s) ==
    LET k == Room(s) IN
    /\ pc[s] = "project"
    /\ IF ProjectMatches(s)
       THEN /\ Goto(s, "project", "loop")
            /\ connections' = [connections EXCEPT ![k] = InRoom(k) \cup {s}]
       ELSE /\ Goto(s, "project", "done")
            /\ UNCHANGED connections
    /\ UNCHANGED <<link, pending, stale, running, sent, inbox>>

(* The end of a handler. *)

\* The entry of a room is dropped: a broadcast to it holds an empty list which
\* nobody fills any more.
Drop(k) ==
    /\ connections' = [connections EXCEPT ![k] = NoRoom]
    /\ stale' = [q \in Sockets |-> stale[q] \/ (pc[q] = "sending" /\ Room(q) = k)]

\* Fault: the entry is dropped whoever else is in the room.
DropAlways(s) ==
    IF connections[Room(s)] = NoRoom THEN UNCHANGED <<connections, stale>>
                                     ELSE Drop(Room(s))

\* Fault: the handler ends without its finally.
SkipDisconnect(s) == UNCHANGED <<connections, stale>>

\* disconnect.  A room that is gone is none of its business; a room without
\* the socket makes remove raise ValueError, and nothing after it happens.
Disconnect(s) ==
    LET k == Room(s) IN
    CASE s \notin InRoom(k)   -> UNCHANGED <<connections, stale>>
      [] InRoom(k) = {s}      -> Drop(k)
      [] OTHER -> /\ connections' = [connections EXCEPT ![k] = @ \ {s}]
                  /\ UNCHANGED stale

\* The handler leaves the loop, whatever the exception, through its finally.
Leave(s) ==
    /\ pc' = [pc EXCEPT ![s] = "done"]
    /\ pending' = [pending EXCEPT ![s] = {}]
    /\ running' = {}
    /\ Disconnect(s)

(* The loop. *)

\* receive_json returns a message the schema accepts: broadcast copies the
\* list of the room, if there is one, and goes on to the first send.
Receive(s) ==
    /\ sent[s] < MaxMessages
    /\ Goto(s, "loop", "sending")
    /\ sent' = [sent EXCEPT ![s] = @ + 1]
    /\ pending' = [pending EXCEPT ![s] = InRoom(Room(s))]
    /\ stale' = [stale EXCEPT ![s] = FALSE]
    /\ running' = {s}
    /\ UNCHANGED <<connections, link, inbox>>

\* The client has left, or has sent what is no JSON: receive_json raises.
StopReceiving(s) ==
    /\ pc[s] = "loop"
    /\ Leave(s)
    /\ UNCHANGED <<link, sent, inbox>>

(* Broadcasting. *)

Deliver(s, q) ==
    /\ pending' = [pending EXCEPT ![s] = @ \ {q}]
    /\ inbox' = [inbox EXCEPT ![q] = @ \cup {<<s, sent[s]>>}]
    /\ running' = {}
    /\ UNCHANGED <<connections, pc, link, stale, sent>>

\* The message reaches a client that is there.
SendDelivers(s, q) ==
    /\ link[q] = "open" /\ pc[q] # "done"
    /\ Deliver(s, q)

\* The client has left: the message goes nowhere.
SendIsLost(s, q) ==
    /\ link[q] = "gone" /\ pc[q] # "done"
    /\ pending' = [pending EXCEPT ![s] = @ \ {q}]
    /\ running' = {}
    /\ UNCHANGED <<connections, pc, link, stale, sent, inbox>>

\* The client has left and the send raises WebSocketDisconnect, which
\* broadcast does not catch and the SENDER's handler takes for its own.
SendDisconnects(s, q) ==
    /\ link[q] = "gone" /\ pc[q] # "done"
    /\ link' = [link EXCEPT ![q] = "failed"]
    /\ Leave(s)
    /\ UNCHANGED <<sent, inbox>>

\* Fault: the socket stays in the copy and is tried again.
RetrySend(s, q) ==
    /\ link[q] = "failed" \/ pc[q] = "done"
    /\ UNCHANGED vars

\* RuntimeError, raised before anything is awaited: the socket is taken out of
\* the list and the loop goes on, unless someone else has taken it out; then
\* remove raises ValueError and the sender's handler ends.
SendRaises(s, q) ==
    LET k == Room(s) IN
    /\ link[q] = "failed" \/ pc[q] = "done"
    /\ IF ~stale[s] /\ q \in InRoom(k)
       THEN /\ connections' = [connections EXCEPT ![k] = @ \ {q}]
            /\ pending' = [pending EXCEPT ![s] = @ \ {q}]
            /\ running' = {s}
            /\ UNCHANGED <<pc, stale>>
       ELSE Leave(s)
    /\ UNCHANGED <<link, sent, inbox>>

Send(s) ==
    /\ pc[s] = "sending"
    /\ \E q \in pending[s] :
         \/ SendDelivers(s, q)
         \/ SendIsLost(s, q)
         \/ SendDisconnects(s, q)
         \/ SendRaises(s, q)

\* Back to receive_json, which raises at once on a socket a send has failed on.
FinishBroadcast(s) ==
    /\ pc[s] = "sending" /\ pending[s] = {}
    /\ IF link[s] = "failed"
       THEN Leave(s)
       ELSE /\ Goto(s, "sending", "loop")
            /\ running' = {}
            /\ UNCHANGED <<connections, pending, stale>>
    /\ UNCHANGED <<link, sent, inbox>>

\* The client goes away, and the event loop, when it gets to it, takes note.
ClientLeaves(s) ==
    /\ running = {}
    /\ link[s] = "open" /\ pc[s] \notin {"idle", "done"}
    /\ link' = [link EXCEPT ![s] = "gone"]
    /\ UNCHANGED <<connections, pc, pending, stale, running, sent, inbox>>

\* No other handler runs.
Resumable(s) == running \subseteq {s}

\* The event loop: what a handler does when it is resumed.  A client that is
\* there need not send anything.
Handler(s) ==
    /\ Resumable(s)
    /\ \/ Authenticate(s)
       \/ Connect(s)
       \/ Send(s)
       \/ FinishBroadcast(s)
       \/ link[s] # "open" /\ StopReceiving(s)

\* A client connects, sends a message, or what is no message, or leaves.
Client(s) ==
    /\ Resumable(s)
    /\ Accept(s) \/ Receive(s) \/ StopReceiving(s) \/ ClientLeaves(s)

\* Every handler has ended.
Finished ==
    /\ \A s \in Sockets : pc[s] = "done"
    /\ UNCHANGED vars

Next ==
    \/ \E s \in Sockets : Handler(s) \/ Client(s)
    \/ Finished

Spec == Init /\ [][Next]_vars

\* Every send returns or raises: the server gives up on a client that does
\* not read.  A handler waits while another runs, and the event loop resumes
\* those that are ready in turn, hence strong fairness.
FairSpec == Spec /\ \A s \in Sockets : SF_vars(Handler(s))

-----------------------------------------------------------------------------
(* What the component guarantees.                                          *)

(***************************************************************************)
(* A handler that has ended, whichever exception ended it and whatever     *)
(* others have done to its room meanwhile, has left no socket behind.      *)
(***************************************************************************)
FinishedAreGone ==
    \A s \in Sockets : pc[s] = "done" => s \notin InRoom(Room(s))

(***************************************************************************)
(* No connected client goes deaf: as long as its handler runs and it is    *)
(* there, it is in its room, although other handlers take sockets out of   *)
(* lists and drop rooms in between.                                        *)
(***************************************************************************)
ConnectedAreInRoom ==
    \A s \in Sockets :
        pc[s] \in Registered /\ link[s] = "open" => s \in InRoom(Room(s))

(***************************************************************************)
(* A message reaches nobody but members of the organization of the very    *)
(* project it was sent in, whatever pair of ids a path put together.       *)
(***************************************************************************)
OnlyProjectMembersHear ==
    \A q \in Sockets : \A m \in inbox[q] :
        /\ PathProject[m[1]] = PathProject[q]
        /\ <<UserOf[q], ProjectOrg[PathProject[q]]>> \in Members

(***************************************************************************)
(* A broadcast ends, however many of the sockets it serves are gone and    *)
(* whatever other broadcasts do to the room.                               *)
(***************************************************************************)
EveryBroadcastEnds ==
    \A s \in Sockets : pc[s] = "sending" ~> pc[s] # "sending"

(***************************************************************************)
(* The handler of a client that has left ends.                             *)
(***************************************************************************)
GoneHandlersEnd ==
    \A s \in Sockets : link[s] # "open" ~> pc[s] = "done"

(***************************************************************************)
(* What ws_router.py says where it catches WebSocketDisconnect, "normal    *)
(* client disconnect": a broadcast does not end the handler of a client    *)
(* that is there.                                                          *)
(***************************************************************************)
BroadcastKeepsSender ==
    [][\A s \in Sockets :
         pc[s] = "sending" /\ pc'[s] = "done" => link[s] # "open"]_vars

(***************************************************************************)
(* What the docstring of disconnect says, "If the room is empty, it cleans *)
(* it up": when all handlers have ended no room is left.                   *)
(***************************************************************************)
EmptyRoomsAreCleanedUp ==
    (\A s \in Sockets : pc[s] = "done") => \A k \in Rooms : connections[k] = NoRoom
=============================================================================
