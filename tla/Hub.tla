--------------------------------- MODULE Hub ---------------------------------
(***************************************************************************)
(* The in-memory broadcast hub of one API pod (internal/ws/hub.go) and the *)
(* board sockets that use it (internal/handlers/ws.go).                    *)
(*                                                                         *)
(* Three kinds of goroutine meet here.  The handler of a socket registers  *)
(* a client, reads until the connection breaks, and unregisters it.  The   *)
(* writer of that socket takes messages from the client's buffered channel *)
(* and writes them to the connection.  A request that changed an issue     *)
(* broadcasts: under the read lock it offers the event to every client of  *)
(* the room, in the arbitrary order in which Go walks a map.               *)
(*                                                                         *)
(* A critical section under the write lock excludes all others and is one  *)
(* step.  One under the read lock runs beside other broadcasts and beside  *)
(* the writers, and is a step per client.                                  *)
(***************************************************************************)
EXTENDS Integers, Sequences

CONSTANTS
    Clients,        \* connections; a browser that reconnects is another client
    Casts,          \* calls of Broadcast, each with an event of its own
    Projects,       \* projects.id, the names of the rooms
    BufferSize,     \* capacity of Client.Send: 16 in BoardSocket
    NoClient,       \* no Lock call is announced
    NoCast          \* a writer that holds no message

ASSUME BufferAssumption == BufferSize \in Nat \ {0}
ASSUME NoneAssumption == NoClient \notin Clients /\ NoCast \notin Casts

VARIABLES
    rooms,      \* Hub.rooms: only for rooms that have an entry in the map
    readers,    \* casts that hold mu.RLock
    pending,    \* the client whose Lock call makes new RLock calls wait
    handler,    \* where the goroutine of BoardSocket is
    room,       \* Client.ProjectID
    broken,     \* the connection of a client is lost
    buf,        \* the contents of Client.Send
    closed,     \* Client.Send is closed
    writer,     \* where the writer goroutine is
    held,       \* the message the writer took from Send
    wire,       \* messages WriteMessage accepted, in order
    cast,       \* where a Broadcast call is
    castRoom,   \* its projectID
    todo,       \* clients its loop has still to visit
    panicked,   \* a send on, or a close of, a closed channel: the pod dies
    before,     \* history: casts that had returned when this one was called
    target,     \* history: the clients of the room when its loop began
    missed      \* history: events a client's full buffer or broken socket lost

vars == <<rooms, readers, pending, handler, room, broken, buf, closed, writer,
          held, wire, cast, castRoom, todo, panicked, before, target, missed>>

handlerVars == <<handler, room, broken>>
channelVars == <<buf, closed>>
writerVars == <<writer, held, wire>>
castVars == <<cast, castRoom, todo, before, target>>

Init ==
    /\ rooms = [p \in {} |-> {}]
    /\ readers = {}
    /\ pending = NoClient
    /\ handler = [c \in Clients |-> "new"]
    /\ room \in [Clients -> Projects]
    /\ broken = {}
    /\ buf = [c \in Clients |-> << >>]
    /\ closed = {}
    /\ writer = [c \in Clients |-> "none"]
    /\ held = [c \in Clients |-> NoCast]
    /\ wire = [c \in Clients |-> << >>]
    /\ cast = [b \in Casts |-> "idle"]
    /\ castRoom \in [Casts -> Projects]
    /\ todo = [b \in Casts |-> {}]
    /\ panicked = FALSE
    /\ before = [b \in Casts |-> {}]
    /\ target = [b \in Casts |-> {}]
    /\ missed = [c \in Clients |-> {}]

-------------------------------------------------------------------------------
(***************************************************************************)
(* The socket handler, and Register and Unregister                         *)
(***************************************************************************)

\* One room for the whole pod.
AllClients(p) == {c \in Clients : \E q \in DOMAIN rooms : c \in rooms[q]}

Members(p) == IF p \in DOMAIN rooms THEN rooms[p] ELSE {}

\* The upgrade passed the guard; Register calls mu.Lock.
Connect(c) ==
    /\ handler[c] = "new"
    /\ handler' = [handler EXCEPT ![c] = "registering"]
    /\ UNCHANGED <<rooms, readers, pending, room, broken, channelVars, writerVars,
                   castVars, panicked, missed>>

\* sync.RWMutex.Lock: first among the writers, then in the way of new readers.
AnnounceLock(c) ==
    /\ handler[c] \in {"registering", "unregistering"}
    /\ pending = NoClient
    /\ pending' = c
    /\ UNCHANGED <<rooms, readers, handlerVars, channelVars, writerVars, castVars,
                   panicked, missed>>

\* A mutex that only keeps writers from each other.
IgnoreReaders == TRUE

ReadersLeft == readers = {}

\* The body of Register, and the `go` statement that follows it.
Register(c) ==
    LET p == room[c] IN
    /\ handler[c] = "registering" /\ pending = c /\ ReadersLeft
    /\ rooms' = [q \in DOMAIN rooms \cup {p} |->
                    IF q = p THEN Members(p) \cup {c} ELSE rooms[q]]
    /\ pending' = NoClient
    /\ handler' = [handler EXCEPT ![c] = "reading"]
    /\ writer' = [writer EXCEPT ![c] = "ranging"]
    /\ UNCHANGED <<readers, room, broken, channelVars, held, wire, castVars,
                   panicked, missed>>

\* The client closes the tab, or the network fails.
Disconnect(c) ==
    /\ handler[c] = "reading" /\ c \notin broken
    /\ broken' = broken \cup {c}
    /\ UNCHANGED <<rooms, readers, pending, handler, room, channelVars, writerVars,
                   castVars, panicked, missed>>

\* ReadMessage returns an error; the deferred Unregister calls mu.Lock.
ReadError(c) ==
    /\ handler[c] = "reading" /\ c \in broken
    /\ handler' = [handler EXCEPT ![c] = "unregistering"]
    /\ UNCHANGED <<rooms, readers, pending, room, broken, channelVars, writerVars,
                   castVars, panicked, missed>>

\* delete(clients, c), but the room's entry stays when it is empty.
KeepEmptyRoom(c) == [rooms EXCEPT ![room[c]] = @ \ {c}]

\* delete(clients, c), and the room's entry with its last client.
RoomsWithout(c) ==
    LET p == room[c]
        kept == IF rooms[p] = {c} THEN DOMAIN rooms \ {p} ELSE DOMAIN rooms
    IN [q \in kept |-> rooms[q] \ {c}]

\* Unregister forgets close(c.Send).
LeaveOpen(c) == UNCHANGED <<closed, panicked>>

CloseSend(c) ==
    /\ panicked' = (panicked \/ c \in closed)
    /\ closed' = closed \cup {c}

\* The body of Unregister; with it BoardSocket's handler returns, and the
\* websocket library takes the connection back.
Unregister(c) ==
    /\ handler[c] = "unregistering" /\ pending = c /\ ReadersLeft
    /\ IF c \in Members(room[c])
       THEN rooms' = RoomsWithout(c) /\ CloseSend(c)
       ELSE UNCHANGED <<rooms, closed, panicked>>
    /\ pending' = NoClient
    /\ handler' = [handler EXCEPT ![c] = "returned"]
    /\ UNCHANGED <<readers, room, broken, buf, writerVars, castVars, missed>>

-------------------------------------------------------------------------------
(***************************************************************************)
(* The writer goroutine: for msg := range client.Send                      *)
(***************************************************************************)

Receive(c) ==
    /\ writer[c] = "ranging" /\ buf[c] # << >>
    /\ held' = [held EXCEPT ![c] = Head(buf[c])]
    /\ buf' = [buf EXCEPT ![c] = Tail(@)]
    /\ writer' = [writer EXCEPT ![c] = "writing"]
    /\ UNCHANGED <<rooms, readers, pending, handlerVars, closed, wire, castVars,
                   panicked, missed>>

\* The range ends: the channel is closed and empty.
RangeEnds(c) ==
    /\ writer[c] = "ranging" /\ buf[c] = << >> /\ c \in closed
    /\ writer' = [writer EXCEPT ![c] = "exited"]
    /\ UNCHANGED <<rooms, readers, pending, handlerVars, channelVars, held, wire,
                   castVars, panicked, missed>>

\* WriteMessage succeeds: on a lost connection too, while the kernel buffers it.
WriteOk(c) ==
    /\ writer[c] = "writing"
    /\ wire' = [wire EXCEPT ![c] = Append(@, held[c])]
    /\ held' = [held EXCEPT ![c] = NoCast]
    /\ writer' = [writer EXCEPT ![c] = "ranging"]
    /\ UNCHANGED <<rooms, readers, pending, handlerVars, channelVars, castVars,
                   panicked, missed>>

\* WriteMessage fails and the goroutine returns; what Send holds is lost too.
WriteError(c) ==
    /\ writer[c] = "writing" /\ c \in broken
    /\ missed' = [missed EXCEPT ![c] = @ \cup {held[c]}]
    /\ held' = [held EXCEPT ![c] = NoCast]
    /\ writer' = [writer EXCEPT ![c] = "exited"]
    /\ UNCHANGED <<rooms, readers, pending, handlerVars, channelVars, wire, castVars,
                   panicked>>

-------------------------------------------------------------------------------
(***************************************************************************)
(* Broadcast                                                               *)
(***************************************************************************)

Call(b) ==
    /\ cast[b] = "idle"
    /\ cast' = [cast EXCEPT ![b] = "called"]
    /\ before' = [before EXCEPT ![b] = {a \in Casts : cast[a] = "returned"}]
    /\ UNCHANGED <<rooms, readers, pending, handlerVars, channelVars, writerVars,
                   castRoom, todo, target, panicked, missed>>

\* mu.RLock, and the range over the clients of the room.
RLock(b) ==
    /\ cast[b] = "called" /\ pending = NoClient
    /\ readers' = readers \cup {b}
    /\ todo' = [todo EXCEPT ![b] = Members(castRoom[b])]
    /\ target' = [target EXCEPT ![b] = Members(castRoom[b])]
    /\ cast' = [cast EXCEPT ![b] = "sending"]
    /\ UNCHANGED <<rooms, pending, handlerVars, channelVars, writerVars, castRoom,
                   before, panicked, missed>>

\* A channel without a bound.
AlwaysSpace(c) == TRUE

HasSpace(c) == Len(buf[c]) < BufferSize

\* `return` where the code has an empty default: the clients after a slow one
\* get nothing.
SkipRest(b, c) == {}

\* The loop goes on with the next client, a full buffer or not.
Remaining(b, c) == todo[b] \ {c}

\* case c.Send <- data
Send(b, c) ==
    /\ c \in todo[b] /\ HasSpace(c)
    /\ buf' = [buf EXCEPT ![c] = Append(@, b)]
    /\ panicked' = (panicked \/ c \in closed)
    /\ todo' = [todo EXCEPT ![b] = @ \ {c}]
    /\ UNCHANGED <<rooms, readers, pending, handlerVars, closed, writerVars, cast,
                   castRoom, before, target, missed>>

\* A send without a default waits for space.
WaitForSpace(b, c) == FALSE /\ UNCHANGED vars

\* default: the buffer is full, this client misses the event.
Skip(b, c) ==
    /\ c \in todo[b] /\ ~HasSpace(c)
    /\ panicked' = (panicked \/ c \in closed)
    /\ missed' = [missed EXCEPT ![c] = @ \cup {b}]
    /\ todo' = [todo EXCEPT ![b] = Remaining(b, c)]
    /\ UNCHANGED <<rooms, readers, pending, handlerVars, channelVars, writerVars,
                   cast, castRoom, before, target>>

RUnlock(b) ==
    /\ cast[b] = "sending" /\ todo[b] = {}
    /\ readers' = readers \ {b}
    /\ cast' = [cast EXCEPT ![b] = "returned"]
    /\ UNCHANGED <<rooms, pending, handlerVars, channelVars, writerVars, castRoom,
                   todo, before, target, panicked, missed>>

-------------------------------------------------------------------------------

HandlerStep(c) == AnnounceLock(c) \/ Register(c) \/ ReadError(c) \/ Unregister(c)

WriterStep(c) == Receive(c) \/ RangeEnds(c) \/ WriteOk(c) \/ WriteError(c)

CastStep(b) == RLock(b) \/ RUnlock(b) \/ \E c \in Clients : Send(b, c) \/ Skip(b, c)

\* All casts are over and no connection is left or new: only a broadcast or a
\* connection the bounds leave out could follow.
Quiet ==
    /\ \A b \in Casts : cast[b] = "returned"
    /\ \A c \in Clients : handler[c] = "returned" /\ writer[c] = "exited"
    /\ UNCHANGED vars

Next ==
    \/ \E c \in Clients : Connect(c) \/ Disconnect(c) \/ HandlerStep(c) \/ WriterStep(c)
    \/ \E b \in Casts : Call(b) \/ CastStep(b)
    \/ Quiet

\* Goroutines run.  A writer may be held up for ever by a client that reads
\* nothing, unless the connection is lost: then its writes return.
Fairness ==
    /\ \A c \in Clients : WF_vars(HandlerStep(c))
    /\ \A c \in Clients : WF_vars(c \in broken /\ WriterStep(c))
    /\ \A b \in Casts : WF_vars(CastStep(b))

Spec == Init /\ [][Next]_vars /\ Fairness

-------------------------------------------------------------------------------
(***************************************************************************)
(* Properties                                                              *)
(***************************************************************************)

\* Variables hold what their Go types allow; a channel never holds more than
\* its capacity.
TypeOK ==
    /\ DOMAIN rooms \subseteq Projects
    /\ \A p \in DOMAIN rooms : rooms[p] \subseteq Clients
    /\ readers \subseteq Casts
    /\ pending \in Clients \cup {NoClient}
    /\ handler \in [Clients -> {"new", "registering", "reading", "unregistering", "returned"}]
    /\ room \in [Clients -> Projects]
    /\ broken \subseteq Clients
    /\ buf \in [Clients -> Seq(Casts)]
    /\ \A c \in Clients : Len(buf[c]) <= BufferSize
    /\ closed \subseteq Clients
    /\ writer \in [Clients -> {"none", "ranging", "writing", "exited"}]
    /\ held \in [Clients -> Casts \cup {NoCast}]
    /\ wire \in [Clients -> Seq(Casts)]
    /\ cast \in [Casts -> {"idle", "called", "sending", "returned"}]
    /\ castRoom \in [Casts -> Projects]
    /\ todo \in [Casts -> SUBSET Clients]
    /\ panicked \in BOOLEAN
    /\ before \in [Casts -> SUBSET Casts]
    /\ target \in [Casts -> SUBSET Clients]
    /\ missed \in [Clients -> SUBSET Casts]

\* The pod never dies of a send on a closed channel or of closing one twice,
\* whatever broadcasts run while sockets come and go.
NoPanic == ~panicked

\* A client is in its room, and in no other, exactly between Register and
\* Unregister, its channel open; a room without clients has no entry.
RoomsTellOpen ==
    /\ \A c \in Clients, p \in DOMAIN rooms :
          c \in rooms[p] <=> p = room[c] /\ handler[c] \in {"reading", "unregistering"}
    /\ \A c \in Clients :
          handler[c] \in {"reading", "unregistering"} => room[c] \in DOMAIN rooms /\ c \notin closed
    /\ \A p \in DOMAIN rooms : rooms[p] # {}

\* What a client got or will get, oldest first.
Received(c) == wire[c] \o (IF held[c] = NoCast THEN << >> ELSE <<held[c]>>) \o buf[c]

\* No client gets an event twice, an event of a board it does not watch, or an
\* event after one whose broadcast began only when the first had ended.
FeedInOrder ==
    \A c \in Clients :
        LET got == Received(c) IN
        \A k \in DOMAIN got :
            /\ castRoom[got[k]] = room[c]
            /\ \A j \in 1 .. k - 1 : got[j] # got[k] /\ got[k] \notin before[got[j]]

\* A broadcast passes over nobody: a client that was in the room when it began
\* is still to come in its loop, has the event, or lost it to its own full
\* buffer or broken socket.
EveryMemberServed ==
    \A b \in Casts : \A c \in target[b] :
        \/ c \in todo[b]
        \/ \E k \in DOMAIN Received(c) : Received(c)[k] = b
        \/ b \in missed[c]

\* A broadcast returns, and with it the request that made it, even if a client
\* of the room never reads and its writer never gets on.
BroadcastReturns == \A b \in Casts : cast[b] = "called" ~> cast[b] = "returned"

\* Of a lost connection nothing stays: the client leaves its room and both its
\* goroutines end.
SocketCleanedUp ==
    \A c \in Clients :
        c \in broken ~> handler[c] = "returned" /\ writer[c] = "exited"

-------------------------------------------------------------------------------
(***************************************************************************)
(* What a comment says, and the code does not do                           *)
(***************************************************************************)

\* "The handler owns the socket" (hub.go:18): nobody writes to a connection
\* whose handler has returned.
HandlerOwnsSocket ==
    \A c \in Clients : writer[c] = "writing" => handler[c] # "returned"
===============================================================================
