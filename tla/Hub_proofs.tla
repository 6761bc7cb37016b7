------------------------------ MODULE Hub_proofs ------------------------------
(***************************************************************************)
(* Proofs about Hub, for any number of sockets, broadcasts and boards and  *)
(* any capacity of the channels.                                           *)
(***************************************************************************)
EXTENDS Hub, SequenceTheorems, TLAPS

\* A writer holds a message exactly while it writes, and starts after Register.
HeldWhileWriting ==
    \A c \in Clients :
        /\ writer[c] = "writing" <=> held[c] # NoCast
        /\ handler[c] \in {"new", "registering"} => writer[c] = "none"

TypeInv == TypeOK /\ HeldWhileWriting

\* A loop that has clients to visit runs under the read lock, visits only
\* clients of its room, and its room cannot change meanwhile.
LoopInv ==
    \A b \in Casts :
        /\ cast[b] = "sending" <=> b \in readers
        /\ todo[b] # {} => b \in readers
        /\ \A c \in todo[b] : c \in Members(castRoom[b])

\* A channel is closed only by the Unregister with which its handler returned.
ClosedInv == \A c \in closed : handler[c] = "returned"

HubInv == RoomsTellOpen /\ LoopInv /\ ClosedInv /\ NoPanic

-------------------------------------------------------------------------------

LEMMA TypeInit == Init => TypeInv
  <1> SUFFICES ASSUME Init PROVE TypeInv
    OBVIOUS
  <1>1. DOMAIN rooms = {}
    BY DEF Init
  <1>2. \A c \in Clients : buf[c] = << >> /\ Len(buf[c]) = 0
    BY DEF Init
  <1>3. TypeOK
    <2>1. << >> \in Seq(Casts) /\ buf \in [Clients -> Seq(Casts)] /\ wire \in [Clients -> Seq(Casts)]
      BY DEF Init
    <2>2. \A c \in Clients : Len(buf[c]) <= BufferSize
      <3>1. 0 <= BufferSize
        BY BufferAssumption
      <3>2. QED  BY <1>2, <3>1
    <2>3. room \in [Clients -> Projects] /\ castRoom \in [Casts -> Projects]
      BY DEF Init
    <2>4. QED  BY <1>1, <2>1, <2>2, <2>3 DEF Init, TypeOK
  <1>4. HeldWhileWriting
    BY DEF Init, HeldWhileWriting
  <1>5. QED  BY <1>3, <1>4 DEF TypeInv

LEMMA TypeStep == TypeInv /\ [Next]_vars => TypeInv'
  <1> SUFFICES ASSUME TypeInv, [Next]_vars PROVE TypeInv'
    OBVIOUS
  <1> USE NoneAssumption, BufferAssumption
      DEF TypeInv, TypeOK, HeldWhileWriting, handlerVars, channelVars, writerVars, castVars
  <1>1. ASSUME NEW c \in Clients, Connect(c) PROVE TypeInv'
    BY <1>1 DEF Connect
  <1>2. ASSUME NEW c \in Clients, Disconnect(c) PROVE TypeInv'
    BY <1>2 DEF Disconnect
  <1>3. ASSUME NEW c \in Clients, AnnounceLock(c) PROVE TypeInv'
    BY <1>3 DEF AnnounceLock
  <1>4. ASSUME NEW c \in Clients, Register(c) PROVE TypeInv'
    <2>1. DOMAIN rooms' \subseteq Projects /\ \A p \in DOMAIN rooms' : rooms'[p] \subseteq Clients
      BY <1>4 DEF Register, Members
    <2>2. QED  BY <1>4, <2>1 DEF Register
  <1>5. ASSUME NEW c \in Clients, ReadError(c) PROVE TypeInv'
    BY <1>5 DEF ReadError
  <1>6. ASSUME NEW c \in Clients, Unregister(c) PROVE TypeInv'
    <2>1. DOMAIN rooms' \subseteq Projects /\ \A p \in DOMAIN rooms' : rooms'[p] \subseteq Clients
      BY <1>6 DEF Unregister, RoomsWithout
    <2>2. panicked' \in BOOLEAN /\ closed' \subseteq Clients
      BY <1>6 DEF Unregister, CloseSend
    <2>3. QED  BY <1>6, <2>1, <2>2 DEF Unregister
  <1>7. ASSUME NEW c \in Clients, Receive(c) PROVE TypeInv'
    <2>1. Head(buf[c]) \in Casts /\ Tail(buf[c]) \in Seq(Casts)
          /\ Len(Tail(buf[c])) <= BufferSize
      BY <1>7 DEF Receive
    <2>2. QED  BY <1>7, <2>1 DEF Receive
  <1>8. ASSUME NEW c \in Clients, RangeEnds(c) PROVE TypeInv'
    BY <1>8 DEF RangeEnds
  <1>9. ASSUME NEW c \in Clients, WriteOk(c) PROVE TypeInv'
    BY <1>9 DEF WriteOk
  <1>10. ASSUME NEW c \in Clients, WriteError(c) PROVE TypeInv'
    BY <1>10 DEF WriteError
  <1>11. ASSUME NEW b \in Casts, Call(b) PROVE TypeInv'
    BY <1>11 DEF Call
  <1>12. ASSUME NEW b \in Casts, RLock(b) PROVE TypeInv'
    <2>1. Members(castRoom[b]) \subseteq Clients
      BY DEF Members
    <2>2. QED  BY <1>12, <2>1 DEF RLock
  <1>13. ASSUME NEW b \in Casts, NEW c \in Clients, Send(b, c) PROVE TypeInv'
    <2>1. Append(buf[c], b) \in Seq(Casts) /\ Len(Append(buf[c], b)) <= BufferSize
      BY <1>13 DEF Send, HasSpace
    <2>2. panicked' \in BOOLEAN
      BY <1>13 DEF Send
    <2>3. QED  BY <1>13, <2>1, <2>2 DEF Send
  <1>14. ASSUME NEW b \in Casts, NEW c \in Clients, Skip(b, c) PROVE TypeInv'
    <2>1. panicked' \in BOOLEAN
      BY <1>14 DEF Skip
    <2>2. QED  BY <1>14, <2>1 DEF Skip, Remaining
  <1>15. ASSUME NEW b \in Casts, RUnlock(b) PROVE TypeInv'
    BY <1>15 DEF RUnlock
  <1>16. CASE UNCHANGED vars
    BY <1>16 DEF vars
  <1>17. QED
    BY <1>1, <1>2, <1>3, <1>4, <1>5, <1>6, <1>7, <1>8, <1>9, <1>10, <1>11, <1>12, <1>13,
       <1>14, <1>15, <1>16 DEF Next, HandlerStep, WriterStep, CastStep, Quiet

\* Channels never exceed their capacity and every variable keeps its type.
THEOREM TypeCorrect == Spec => []TypeOK
  <1>1. Spec => []TypeInv
    BY TypeInit, TypeStep, PTL DEF Spec
  <1>2. TypeInv => TypeOK
    BY DEF TypeInv
  <1>3. QED  BY <1>1, <1>2, PTL

-------------------------------------------------------------------------------
(***************************************************************************)
(* Rooms, loops and closed channels                                        *)
(***************************************************************************)

LEMMA HubInit == Init => HubInv
  <1> SUFFICES ASSUME Init PROVE HubInv
    OBVIOUS
  <1>1. DOMAIN rooms = {}
    BY DEF Init
  <1>2. QED
    BY <1>1 DEF Init, HubInv, RoomsTellOpen, LoopInv, ClosedInv, NoPanic

\* Steps that leave rooms, handlers, channels' state and loops as they are.
LEMMA HubStutter ==
    ASSUME HubInv,
           UNCHANGED <<rooms, readers, room, closed, cast, castRoom, todo, panicked>>,
           \A c \in Clients : handler'[c] = handler[c]
              \/ {handler[c], handler'[c]} \in
                    {{"new", "registering"}, {"reading", "unregistering"}},
           \A c \in Clients : handler[c] = "returned" <=> handler'[c] = "returned",
           closed \subseteq Clients
    PROVE  HubInv'
  BY DEF HubInv, RoomsTellOpen, LoopInv, ClosedInv, NoPanic, Members

\* Entering a room and leaving it happen while no loop runs.
LEMMA RegisterStep ==
    ASSUME TypeInv, HubInv, NEW c \in Clients, Register(c)
    PROVE  HubInv'
  <1> USE DEF TypeInv, TypeOK, handlerVars, channelVars, writerVars, castVars
  <1> DEFINE p == room[c]
  <1>1. /\ p \in Projects /\ readers = {} /\ handler[c] = "registering"
        /\ UNCHANGED <<readers, room, closed, cast, castRoom, todo, panicked>>
        /\ handler'[c] = "reading" /\ \A d \in Clients : d # c => handler'[d] = handler[d]
    BY DEF Register, ReadersLeft
  <1>2. /\ DOMAIN rooms' = DOMAIN rooms \cup {p}
        /\ \A q \in DOMAIN rooms : q # p => rooms'[q] = rooms[q]
        /\ rooms'[p] = Members(p) \cup {c}
    BY DEF Register
  <1>3. \A d \in Clients : d \in Members(p) <=>
           p = room[d] /\ handler[d] \in {"reading", "unregistering"}
    BY DEF HubInv, RoomsTellOpen, Members
  <1>4. RoomsTellOpen'
    <2>1. \A d \in Clients, q \in DOMAIN rooms' :
             d \in rooms'[q] <=> q = room[d] /\ handler'[d] \in {"reading", "unregistering"}
      <3> SUFFICES ASSUME NEW d \in Clients, NEW q \in DOMAIN rooms'
                   PROVE  d \in rooms'[q] <=>
                             q = room[d] /\ handler'[d] \in {"reading", "unregistering"}
        OBVIOUS
      <3>1. CASE q = p
        BY <1>1, <1>2, <1>3, <3>1
      <3>2. CASE q # p
        BY <1>1, <1>2, <3>2 DEF HubInv, RoomsTellOpen
      <3>3. QED  BY <3>1, <3>2
    <2>2. \A d \in Clients : handler'[d] \in {"reading", "unregistering"} =>
             room[d] \in DOMAIN rooms' /\ d \notin closed
      BY <1>1, <1>2 DEF HubInv, RoomsTellOpen, ClosedInv
    <2>3. \A q \in DOMAIN rooms' : rooms'[q] # {}
      BY <1>2 DEF HubInv, RoomsTellOpen
    <2>4. QED  BY <1>1, <2>1, <2>2, <2>3 DEF RoomsTellOpen
  <1>5. LoopInv'
    BY <1>1 DEF HubInv, LoopInv
  <1>6. ClosedInv' /\ NoPanic'
    BY <1>1 DEF HubInv, ClosedInv, NoPanic
  <1>7. QED  BY <1>4, <1>5, <1>6 DEF HubInv

LEMMA UnregisterStep ==
    ASSUME TypeInv, HubInv, NEW c \in Clients, Unregister(c)
    PROVE  HubInv'
  <1> USE DEF TypeInv, TypeOK, handlerVars, channelVars, writerVars, castVars
  <1> DEFINE p == room[c]
  <1>1. /\ readers = {} /\ handler[c] = "unregistering"
        /\ UNCHANGED <<readers, room, cast, castRoom, todo>>
        /\ handler'[c] = "returned" /\ \A d \in Clients : d # c => handler'[d] = handler[d]
    BY DEF Unregister, ReadersLeft
  <1>2. p \in DOMAIN rooms /\ c \in rooms[p] /\ c \notin closed
    BY <1>1 DEF HubInv, RoomsTellOpen
  <1>3. rooms' = RoomsWithout(c) /\ closed' = closed \cup {c} /\ panicked' = panicked
    BY <1>2 DEF Unregister, Members, CloseSend
  <1>4. /\ DOMAIN rooms' = IF rooms[p] = {c} THEN DOMAIN rooms \ {p} ELSE DOMAIN rooms
        /\ \A q \in DOMAIN rooms' : rooms'[q] = rooms[q] \ {c}
    BY <1>3 DEF RoomsWithout
  <1>5. RoomsTellOpen'
    <2>1. \A d \in Clients, q \in DOMAIN rooms' :
             d \in rooms'[q] <=> q = room[d] /\ handler'[d] \in {"reading", "unregistering"}
      <3> SUFFICES ASSUME NEW d \in Clients, NEW q \in DOMAIN rooms'
                   PROVE  d \in rooms'[q] <=>
                             q = room[d] /\ handler'[d] \in {"reading", "unregistering"}
        OBVIOUS
      <3>1. q \in DOMAIN rooms /\ (d \in rooms'[q] <=> d \in rooms[q] /\ d # c)
        BY <1>4
      <3>2. d \in rooms[q] <=> q = room[d] /\ handler[d] \in {"reading", "unregistering"}
        BY <3>1 DEF HubInv, RoomsTellOpen
      <3>3. QED  BY <1>1, <3>1, <3>2
    <2>2. ASSUME NEW d \in Clients, handler'[d] \in {"reading", "unregistering"}
          PROVE  room[d] \in DOMAIN rooms' /\ d \notin closed'
      <3>1. d # c /\ handler[d] \in {"reading", "unregistering"}
        BY <1>1, <2>2
      <3>2. room[d] \in DOMAIN rooms /\ d \in rooms[room[d]] /\ d \notin closed
        BY <3>1 DEF HubInv, RoomsTellOpen
      <3>3. QED  BY <1>3, <1>4, <3>1, <3>2
    <2>3. ASSUME NEW q \in DOMAIN rooms'
          PROVE  rooms'[q] # {}
      <3>0. q \in DOMAIN rooms /\ rooms'[q] = rooms[q] \ {c} /\ rooms[q] # {}
        BY <1>4 DEF HubInv, RoomsTellOpen
      <3>1. CASE q = p
        <4>1. rooms[p] # {c}
          BY <1>4, <3>1
        <4>2. PICK d \in rooms[p] : d # c
          BY <1>2, <4>1
        <4>3. QED  BY <3>0, <3>1, <4>2
      <3>2. CASE q # p
        <4>1. c \notin rooms[q]
          BY <3>0, <3>2 DEF HubInv, RoomsTellOpen
        <4>2. QED  BY <3>0, <4>1
      <3>3. QED  BY <3>1, <3>2
    <2>4. QED  BY <1>1, <2>1, <2>2, <2>3 DEF RoomsTellOpen
  <1>6. LoopInv'
    BY <1>1 DEF HubInv, LoopInv
  <1>7. ClosedInv' /\ NoPanic'
    BY <1>1, <1>3 DEF HubInv, ClosedInv, NoPanic
  <1>8. QED  BY <1>5, <1>6, <1>7 DEF HubInv

\* The loop sends only to clients that cannot leave before it ends.
LEMMA LoopStep ==
    ASSUME TypeInv, HubInv, NEW b \in Casts,
           RLock(b) \/ RUnlock(b) \/ \E c \in Clients : Send(b, c) \/ Skip(b, c)
    PROVE  HubInv'
  <1> USE DEF TypeInv, TypeOK, handlerVars, channelVars, writerVars, castVars
  <1>1. UNCHANGED <<rooms, handler, room, closed, castRoom>>
    BY DEF RLock, RUnlock, Send, Skip
  <1>2. \A a \in Casts : \A c \in todo[a] : c \notin closed
    BY DEF HubInv, LoopInv, ClosedInv, RoomsTellOpen, Members
  <1>3. NoPanic'
    BY <1>2 DEF RLock, RUnlock, Send, Skip, HubInv, NoPanic
  <1>4. RoomsTellOpen' /\ ClosedInv'
    BY <1>1 DEF HubInv, RoomsTellOpen, ClosedInv
  <1>5. LoopInv'
    <2>1. CASE RLock(b)
      BY <1>1, <2>1 DEF RLock, HubInv, LoopInv, Members
    <2>2. CASE RUnlock(b)
      BY <1>1, <2>2 DEF RUnlock, HubInv, LoopInv, Members
    <2>3. ASSUME NEW c \in Clients, Send(b, c) \/ Skip(b, c)
          PROVE  LoopInv'
      <3>1. UNCHANGED <<cast, readers>> /\ todo' = [todo EXCEPT ![b] = todo[b] \ {c}]
        BY <2>3 DEF Send, Skip, Remaining
      <3>2. \A a \in Casts : todo'[a] = IF a = b THEN todo[b] \ {c} ELSE todo[a]
        BY <3>1
      <3>3. QED  BY <1>1, <3>1, <3>2 DEF HubInv, LoopInv, Members
    <2>4. QED  BY <2>1, <2>2, <2>3
  <1>6. QED  BY <1>3, <1>4, <1>5 DEF HubInv

LEMMA HubStep == TypeInv /\ HubInv /\ [Next]_vars => HubInv'
  <1> SUFFICES ASSUME TypeInv, HubInv, [Next]_vars PROVE HubInv'
    OBVIOUS
  <1> USE DEF TypeInv, TypeOK, handlerVars, channelVars, writerVars, castVars
  <1>1. ASSUME NEW c \in Clients,
               Connect(c) \/ Disconnect(c) \/ AnnounceLock(c) \/ ReadError(c) \/ WriterStep(c)
        PROVE  HubInv'
    BY <1>1, HubStutter DEF Connect, Disconnect, AnnounceLock, ReadError, WriterStep,
                            Receive, RangeEnds, WriteOk, WriteError
  <1>2. ASSUME NEW c \in Clients, Register(c) \/ Unregister(c)
        PROVE  HubInv'
    BY <1>2, RegisterStep, UnregisterStep
  <1>3. ASSUME NEW b \in Casts, Call(b)
        PROVE  HubInv'
    BY <1>3 DEF Call, HubInv, RoomsTellOpen, LoopInv, ClosedInv, NoPanic, Members
  <1>4. ASSUME NEW b \in Casts, CastStep(b)
        PROVE  HubInv'
    BY <1>4, LoopStep DEF CastStep
  <1>5. CASE UNCHANGED vars
    BY <1>5, HubStutter DEF vars
  <1>6. QED
    BY <1>1, <1>2, <1>3, <1>4, <1>5 DEF Next, HandlerStep, Quiet

LEMMA HubInvariant == Spec => [](TypeInv /\ HubInv)
  <1>1. QED  BY TypeInit, TypeStep, HubInit, HubStep, PTL DEF Spec

\* The pod never sends on a closed channel and never closes one twice, for any
\* number of sockets that come and go beside any number of broadcasts.
THEOREM NeverPanics == Spec => []NoPanic
  <1>1. HubInv => NoPanic
    BY DEF HubInv
  <1>2. QED  BY <1>1, HubInvariant, PTL

\* The rooms list exactly the sockets whose channel is open.
THEOREM RoomsAreExact == Spec => []RoomsTellOpen
  <1>1. HubInv => RoomsTellOpen
    BY DEF HubInv
  <1>2. QED  BY <1>1, HubInvariant, PTL

-------------------------------------------------------------------------------
(***************************************************************************)
(* What a client receives                                                  *)
(***************************************************************************)

\* Items written, the item in hand, items still in the channel.
LEMMA ThreeParts ==
    ASSUME NEW u \in Seq(Casts), NEW m \in Seq(Casts), NEW v \in Seq(Casts)
    PROVE  /\ u \o m \o v \in Seq(Casts) /\ Len(u \o m \o v) = Len(u) + Len(m) + Len(v)
           /\ DOMAIN (u \o m \o v) = 1 .. Len(u) + Len(m) + Len(v)
           /\ u \o m \o v = u \o (m \o v)
  <1>1. u \o m \in Seq(Casts) /\ Len(u \o m) = Len(u) + Len(m)
    BY ConcatProperties
  <1>2. (u \o m) \o v \in Seq(Casts) /\ Len((u \o m) \o v) = Len(u \o m) + Len(v)
    BY <1>1, ConcatProperties
  <1>3. QED  BY <1>1, <1>2, LenProperties, ConcatAssociative

\* The next item goes from the channel to the hand.
LEMMA InHandNow ==
    ASSUME NEW u \in Seq(Casts), NEW v \in Seq(Casts), v # << >>
    PROVE  u \o <<Head(v)>> \o Tail(v) = u \o << >> \o v
  <1>1. << >> \in Seq(Casts) /\ u \o << >> = u
    BY EmptySeq, ConcatEmptySeq
  <1>2. Head(v) \in Casts /\ Tail(v) \in Seq(Casts) /\ <<Head(v)>> \in Seq(Casts)
    OBVIOUS
  <1>3. <<Head(v)>> \o Tail(v) = v
    OBVIOUS
  <1>4. QED  BY <1>1, <1>2, <1>3, ConcatAssociative

\* It goes from the hand to the wire.
LEMMA OnTheWire ==
    ASSUME NEW u \in Seq(Casts), NEW v \in Seq(Casts), NEW e \in Casts
    PROVE  Append(u, e) \o << >> \o v = u \o <<e>> \o v
  <1>1. Append(u, e) = u \o <<e>> /\ Append(u, e) \in Seq(Casts)
    BY AppendIsConcat, AppendProperties
  <1>2. Append(u, e) \o << >> = Append(u, e)
    BY <1>1, ConcatEmptySeq
  <1>3. QED  BY <1>1, <1>2

\* A new item joins the channel.
Joins(u, m, v, e) == u \o m \o Append(v, e) = Append(u \o m \o v, e)

LEMMA InTheChannel ==
    ASSUME NEW u \in Seq(Casts), NEW m \in Seq(Casts), NEW v \in Seq(Casts), NEW e \in Casts
    PROVE  Joins(u, m, v, e)
  <1>1. u \o m \in Seq(Casts) /\ <<e>> \in Seq(Casts) /\ Append(v, e) = v \o <<e>>
    BY ConcatProperties, AppendIsConcat
  <1>2. (u \o m) \o v \in Seq(Casts) /\ (u \o m) \o (v \o <<e>>) = ((u \o m) \o v) \o <<e>>
    BY <1>1, ConcatProperties, ConcatAssociative
  <1>3. QED  BY <1>1, <1>2, AppendIsConcat DEF Joins

\* The items of one sequence are items of another, in the same order.
Within(t, s) ==
    \A k \in DOMAIN t :
        /\ \E l \in DOMAIN s : s[l] = t[k]
        /\ \A j \in 1 .. k - 1 : \E l \in DOMAIN s : \E i \in 1 .. l - 1 : s[i] = t[j] /\ s[l] = t[k]

\* All items of a sequence but one are items of another.
Keeps(t, s, e) == \A k \in DOMAIN s : s[k] = e \/ \E j \in DOMAIN t : t[j] = s[k]

\* The item in hand is dropped: the others keep their order.
LEMMA Dropped ==
    ASSUME NEW u \in Seq(Casts), NEW v \in Seq(Casts), NEW e \in Casts
    PROVE  /\ Within(u \o << >> \o v, u \o <<e>> \o v)
           /\ Keeps(u \o << >> \o v, u \o <<e>> \o v, e)
  <1> DEFINE m(k) == IF k <= Len(u) THEN k ELSE k + 1
             w == u \o <<e>>
             s == w \o v
             t == u \o << >> \o v
  <1>0. s = w \o v /\ t = u \o << >> \o v
    OBVIOUS
  <1> HIDE DEF s, t
  <1>1. /\ w \in Seq(Casts) /\ Len(w) = Len(u) + 1 /\ w[Len(u) + 1] = e
        /\ \A i \in 1 .. Len(u) : w[i] = u[i]
    <2>1. w = Append(u, e)
      BY AppendIsConcat
    <2>2. QED  BY <2>1, AppendProperties
  <1>2. /\ s = w \o v /\ DOMAIN s = 1 .. Len(u) + 1 + Len(v)
        /\ \A i \in 1 .. Len(u) + 1 + Len(v) :
               s[i] = IF i <= Len(u) + 1 THEN w[i] ELSE v[i - (Len(u) + 1)]
    <2> HIDE DEF w
    <2>1. /\ w \o v \in Seq(Casts) /\ Len(w \o v) = Len(w) + Len(v)
          /\ \A i \in 1 .. Len(w) + Len(v) :
                 (w \o v)[i] = IF i <= Len(w) THEN w[i] ELSE v[i - Len(w)]
      BY <1>1, ConcatProperties
    <2>2. DOMAIN (w \o v) = 1 .. Len(w) + Len(v)
      BY <2>1, LenProperties
    <2>3. QED  BY <1>0, <1>1, <2>1, <2>2
  <1>3. /\ t = u \o v /\ DOMAIN t = 1 .. Len(u) + Len(v)
        /\ \A i \in 1 .. Len(u) + Len(v) : t[i] = IF i <= Len(u) THEN u[i] ELSE v[i - Len(u)]
    <2>1. t = u \o v
      BY <1>0, ConcatEmptySeq
    <2>2. u \o v \in Seq(Casts) /\ Len(u \o v) = Len(u) + Len(v)
      BY ConcatProperties
    <2>3. QED  BY <2>1, <2>2, ConcatProperties, LenProperties
  <1>4. Len(u) \in Nat /\ Len(v) \in Nat
    BY LenProperties
  <1> HIDE DEF w
  <1>5. \A k \in DOMAIN t : m(k) \in DOMAIN s /\ t[k] = s[m(k)]
    <2> SUFFICES ASSUME NEW k \in DOMAIN t PROVE m(k) \in DOMAIN s /\ t[k] = s[m(k)]
      OBVIOUS
    <2>1. CASE k <= Len(u)
      BY <1>1, <1>2, <1>3, <1>4, <2>1
    <2>2. CASE k > Len(u)
      <3>1. k \in Int /\ k + 1 \in 1 .. Len(u) + 1 + Len(v) /\ k + 1 > Len(u) + 1 /\ m(k) = k + 1
        BY <1>3, <1>4, <2>2
      <3>2. s[k + 1] = v[k + 1 - (Len(u) + 1)] /\ k + 1 - (Len(u) + 1) = k - Len(u)
        BY <1>2, <1>4, <3>1
      <3>3. t[k] = v[k - Len(u)]
        BY <1>3, <1>4, <2>2, <3>1
      <3>4. QED  BY <1>2, <3>1, <3>2, <3>3
    <2>3. QED  BY <1>3, <1>4, <2>1, <2>2
  <1>6. \A k \in DOMAIN s : s[k] = e \/ \E j \in DOMAIN t : t[j] = s[k]
    <2>0. s[Len(u) + 1] = e
      BY <1>1, <1>2, <1>4
    <2> SUFFICES ASSUME NEW k \in DOMAIN s, k # Len(u) + 1 PROVE \E j \in DOMAIN t : t[j] = s[k]
      BY <2>0
    <2>1. CASE k <= Len(u)
      <3>1. k \in DOMAIN t /\ t[k] = s[k]
        BY <1>1, <1>2, <1>3, <1>4, <2>1
      <3>2. QED  BY <3>1
    <2>2. CASE k > Len(u) + 1
      <3>1. k \in Int /\ k - 1 \in DOMAIN t /\ k - 1 > Len(u)
        BY <1>2, <1>3, <1>4, <2>2
      <3>2. t[k - 1] = v[k - 1 - Len(u)] /\ s[k] = v[k - (Len(u) + 1)]
        BY <1>2, <1>3, <1>4, <2>2, <3>1
      <3>3. k - 1 - Len(u) = k - (Len(u) + 1)
        BY <1>4, <3>1
      <3>4. QED  BY <3>1, <3>2, <3>3
    <2>3. QED  BY <1>2, <1>4, <2>1, <2>2
  <1>7. \A k \in DOMAIN t : \A j \in 1 .. k - 1 : j \in DOMAIN t /\ m(j) \in 1 .. m(k) - 1
    BY <1>3, <1>4
  <1> HIDE DEF m
  <1>8. Within(t, s) /\ Keeps(t, s, e)
    BY <1>5, <1>6, <1>7 DEF Within, Keeps
  <1>9. QED  BY <1>8 DEF s, t, w

InHand(c) == IF held[c] = NoCast THEN << >> ELSE <<held[c]>>

LEMMA ReceivedTyped ==
    ASSUME TypeInv, NEW c \in Clients
    PROVE  /\ wire[c] \in Seq(Casts) /\ InHand(c) \in Seq(Casts) /\ buf[c] \in Seq(Casts)
           /\ Received(c) = wire[c] \o InHand(c) \o buf[c]
           /\ Received(c) \in Seq(Casts)
           /\ DOMAIN Received(c) = 1 .. Len(Received(c)) /\ Len(Received(c)) \in Nat
  <1>1. /\ wire[c] \in Seq(Casts) /\ buf[c] \in Seq(Casts)
        /\ held[c] # NoCast => held[c] \in Casts
    BY DEF TypeInv, TypeOK
  <1>2. InHand(c) \in Seq(Casts)
    BY <1>1, EmptySeq DEF InHand
  <1>3. Received(c) = wire[c] \o InHand(c) \o buf[c]
    BY DEF Received, InHand
  <1>4. Received(c) \in Seq(Casts)
    BY <1>1, <1>2, <1>3, ThreeParts
  <1>5. QED  BY <1>1, <1>2, <1>3, <1>4, LenProperties

LEMMA WriteErrorMoves ==
    ASSUME TypeInv, NEW c \in Clients, WriteError(c)
    PROVE  /\ Within(Received(c)', Received(c))
           /\ Keeps(Received(c)', Received(c), held[c])
           /\ held[c] \in missed'[c]
  <1>1. /\ held[c] \in Casts /\ held[c] # NoCast /\ held'[c] = NoCast
        /\ wire'[c] = wire[c] /\ buf'[c] = buf[c] /\ held[c] \in missed'[c]
    BY NoneAssumption DEF WriteError, TypeInv, TypeOK, HeldWhileWriting, channelVars
  <1>2. wire[c] \in Seq(Casts) /\ buf[c] \in Seq(Casts)
    BY DEF TypeInv, TypeOK
  <1>3. /\ Within(wire[c] \o << >> \o buf[c], wire[c] \o <<held[c]>> \o buf[c])
        /\ Keeps(wire[c] \o << >> \o buf[c], wire[c] \o <<held[c]>> \o buf[c], held[c])
    BY <1>1, <1>2, Dropped
  <1>4. /\ Received(c) = wire[c] \o <<held[c]>> \o buf[c]
        /\ Received(c)' = wire[c] \o << >> \o buf[c]
    BY <1>1 DEF Received
  <1>5. QED  BY <1>1, <1>3, <1>4

LEMMA SendMoves ==
    ASSUME TypeInv, NEW c \in Clients, NEW b \in Casts, Send(b, c)
    PROVE  Received(c)' = Append(Received(c), b)
  <1>1. wire'[c] = wire[c] /\ InHand(c)' = InHand(c) /\ buf'[c] = Append(buf[c], b)
    BY DEF Send, writerVars, TypeInv, TypeOK, InHand
  <1>2. Received(c) = wire[c] \o InHand(c) \o buf[c] /\ Joins(wire[c], InHand(c), buf[c], b)
    BY ReceivedTyped, InTheChannel
  <1>3. Received(c)' = wire'[c] \o InHand(c)' \o buf'[c]
    BY DEF Received, InHand
  <1>4. QED  BY <1>1, <1>2, <1>3 DEF Joins

\* What a client receives only grows at its end, or loses one event.
LEMMA ReceivedMoves ==
    ASSUME TypeInv, [Next]_vars, NEW c \in Clients
    PROVE  \/ Received(c)' = Received(c)
           \/ \E b \in Casts : Send(b, c) /\ Received(c)' = Append(Received(c), b)
           \/ /\ Within(Received(c)', Received(c))
              /\ \E e \in missed'[c] : Keeps(Received(c)', Received(c), e)
  <1>1. wire[c] \in Seq(Casts) /\ InHand(c) \in Seq(Casts) /\ buf[c] \in Seq(Casts)
    BY ReceivedTyped
  <1>2. CASE wire'[c] = wire[c] /\ held'[c] = held[c] /\ buf'[c] = buf[c]
    BY <1>2 DEF Received
  <1>3. CASE Receive(c)
    <2>1. /\ wire'[c] = wire[c] /\ held[c] = NoCast /\ held'[c] = Head(buf[c]) /\ buf'[c] = Tail(buf[c])
          /\ buf[c] # << >> /\ Head(buf[c]) # NoCast
      <3>1. buf[c] # << >> /\ Head(buf[c]) \in Casts
        BY <1>1, <1>3 DEF Receive
      <3>2. QED  BY <1>3, <3>1, NoneAssumption DEF Receive, TypeInv, TypeOK, HeldWhileWriting
    <2>2. wire[c] \o <<Head(buf[c])>> \o Tail(buf[c]) = wire[c] \o << >> \o buf[c]
      BY <1>1, <2>1, InHandNow
    <2>3. QED  BY <2>1, <2>2 DEF Received
  <1>4. CASE WriteOk(c)
    <2>1. /\ wire'[c] = Append(wire[c], held[c]) /\ held'[c] = NoCast /\ buf'[c] = buf[c]
          /\ held[c] \in Casts /\ held[c] # NoCast
      BY <1>4, NoneAssumption DEF WriteOk, TypeInv, TypeOK, HeldWhileWriting, channelVars
    <2>2. Append(wire[c], held[c]) \o << >> \o buf[c] = wire[c] \o <<held[c]>> \o buf[c]
      BY <1>1, <2>1, OnTheWire
    <2>3. QED  BY <2>1, <2>2 DEF Received
  <1>5. CASE WriteError(c)
    BY <1>5, WriteErrorMoves
  <1>6. ASSUME NEW b \in Casts, Send(b, c)
        PROVE  Received(c)' = Append(Received(c), b)
    BY <1>6, SendMoves
  <1>7. ASSUME NEW d \in Clients, d # c, WriterStep(d)
        PROVE  wire'[c] = wire[c] /\ held'[c] = held[c] /\ buf'[c] = buf[c]
    BY <1>7 DEF WriterStep, Receive, RangeEnds, WriteOk, WriteError, channelVars, TypeInv, TypeOK
  <1>8. ASSUME NEW b \in Casts, NEW d \in Clients, d # c, Send(b, d)
        PROVE  wire'[c] = wire[c] /\ held'[c] = held[c] /\ buf'[c] = buf[c]
    BY <1>8 DEF Send, writerVars, TypeInv, TypeOK
  <1>9. ASSUME NEW d \in Clients, Connect(d) \/ Disconnect(d) \/ HandlerStep(d) \/ RangeEnds(d)
        PROVE  wire'[c] = wire[c] /\ held'[c] = held[c] /\ buf'[c] = buf[c]
    BY <1>9 DEF Connect, Disconnect, HandlerStep, AnnounceLock, Register, ReadError, Unregister,
                RangeEnds, writerVars, channelVars
  <1>10. ASSUME NEW b \in Casts, Call(b) \/ RLock(b) \/ RUnlock(b) \/ \E d \in Clients : Skip(b, d)
         PROVE  wire'[c] = wire[c] /\ held'[c] = held[c] /\ buf'[c] = buf[c]
    BY <1>10 DEF Call, RLock, RUnlock, Skip, writerVars, channelVars
  <1>11. CASE UNCHANGED vars
    BY <1>2, <1>11 DEF vars
  <1>12. QED
    BY <1>2, <1>3, <1>4, <1>5, <1>6, <1>7, <1>8, <1>9, <1>10, <1>11
       DEF Next, WriterStep, CastStep, Quiet

\* So every event of a client's feed was there before, or is being sent.
LEMMA ReceivedFrom ==
    ASSUME TypeInv, [Next]_vars, NEW c \in Clients, NEW k \in DOMAIN Received(c)'
    PROVE  \/ \E j \in DOMAIN Received(c) : Received(c)[j] = Received(c)'[k]
           \/ \E b \in Casts : Send(b, c) /\ Received(c)'[k] = b
  <1>1. CASE Received(c)' = Received(c)
    BY <1>1
  <1>2. ASSUME NEW b \in Casts, Send(b, c), Received(c)' = Append(Received(c), b)
        PROVE  \/ \E j \in DOMAIN Received(c) : Received(c)[j] = Received(c)'[k]
               \/ Received(c)'[k] = b
    <2>1. PICK s \in Seq(Casts) : s = Received(c)
      BY ReceivedTyped
    <2>2. /\ Len(s) \in Nat /\ DOMAIN s = 1 .. Len(s)
          /\ DOMAIN Append(s, b) = 1 .. Len(s) + 1
          /\ \A i \in 1 .. Len(s) : Append(s, b)[i] = s[i]
          /\ Append(s, b)[Len(s) + 1] = b
      BY <2>1, AppendProperties, LenProperties
    <2>3. k \in 1 .. Len(s) + 1 /\ Received(c)'[k] = Append(s, b)[k]
      BY <1>2, <2>1, <2>2
    <2>4. CASE k = Len(s) + 1
      BY <2>2, <2>3, <2>4
    <2>5. CASE k \in 1 .. Len(s)
      BY <2>1, <2>2, <2>3, <2>5
    <2>6. QED  BY <2>2, <2>3, <2>4, <2>5
  <1>3. CASE Within(Received(c)', Received(c))
    BY <1>3 DEF Within
  <1>4. QED  BY <1>1, <1>2, <1>3, ReceivedMoves

-------------------------------------------------------------------------------
(***************************************************************************)
(* The order of a feed                                                     *)
(***************************************************************************)

\* What had returned when a broadcast was called has returned.
BeforeInv == \A a \in Casts : \A x \in before[a] : cast[x] = "returned"

\* Only a broadcast whose loop has begun has sent anything.
SentInv ==
    \A c \in Clients : \A k \in DOMAIN Received(c) :
        cast[Received(c)[k]] \in {"sending", "returned"}

\* A client that a loop has still to visit has nothing from it yet.
OnceInv ==
    \A b \in Casts : \A c \in todo[b] : \A k \in DOMAIN Received(c) : Received(c)[k] # b

FeedInv == BeforeInv /\ SentInv /\ OnceInv /\ FeedInOrder /\ EveryMemberServed

\* A broadcast goes forward through its four places, notes once what preceded
\* it, fixes its targets when the loop begins, and then only crosses them off.
LEMMA CastsMove ==
    ASSUME TypeInv, [Next]_vars
    PROVE  /\ room' = room /\ castRoom' = castRoom
           /\ \A a \in Casts :
                 /\ cast[a] \in {"sending", "returned"} => cast'[a] \in {"sending", "returned"}
                 /\ cast[a] = "returned" => cast'[a] = "returned"
                 /\ \/ before'[a] = before[a]
                    \/ cast[a] = "idle" /\ before'[a] = {x \in Casts : cast[x] = "returned"}
                 /\ \/ cast[a] = "called" /\ todo'[a] = target'[a]
                    \/ /\ target'[a] = target[a] /\ todo'[a] \subseteq todo[a]
                       /\ \A c \in todo[a] : c \in todo'[a] \/ Send(a, c) \/ a \in missed'[c]
           /\ \A c \in Clients : missed[c] \subseteq missed'[c]
  <1> USE DEF TypeInv, TypeOK
  <1>1. CASE UNCHANGED <<room, castVars, missed>>
    BY <1>1 DEF castVars
  <1>2. ASSUME NEW c \in Clients, Connect(c) \/ Disconnect(c) \/ HandlerStep(c)
        PROVE  UNCHANGED <<room, castVars, missed>>
    BY <1>2 DEF Connect, Disconnect, HandlerStep, AnnounceLock, Register, ReadError, Unregister,
                handlerVars, castVars
  <1>3. ASSUME NEW c \in Clients, Receive(c) \/ RangeEnds(c) \/ WriteOk(c)
        PROVE  UNCHANGED <<room, castVars, missed>>
    BY <1>3 DEF Receive, RangeEnds, WriteOk, handlerVars, castVars
  <1>4. ASSUME NEW c \in Clients, WriteError(c)
        PROVE  /\ UNCHANGED <<room, castVars>>
               /\ \A d \in Clients : missed[d] \subseteq missed'[d]
    BY <1>4 DEF WriteError, handlerVars, castVars
  <1>5. ASSUME NEW b \in Casts, Call(b)
        PROVE  /\ UNCHANGED <<room, castRoom, todo, target, missed>> /\ cast[b] = "idle"
               /\ \A a \in Casts : a # b => cast'[a] = cast[a] /\ before'[a] = before[a]
               /\ before'[b] = {x \in Casts : cast[x] = "returned"}
    BY <1>5 DEF Call, handlerVars
  <1>6. ASSUME NEW b \in Casts, RLock(b)
        PROVE  /\ UNCHANGED <<room, castRoom, before, missed>> /\ cast[b] = "called"
               /\ \A a \in Casts : a # b =>
                     cast'[a] = cast[a] /\ todo'[a] = todo[a] /\ target'[a] = target[a]
               /\ todo'[b] = target'[b]
    BY <1>6 DEF RLock, handlerVars
  <1>7. ASSUME NEW b \in Casts, NEW c \in Clients, Send(b, c)
        PROVE  /\ UNCHANGED <<room, cast, castRoom, before, target, missed>>
               /\ \A a \in Casts : a # b => todo'[a] = todo[a]
               /\ todo'[b] = todo[b] \ {c}
    BY <1>7 DEF Send, handlerVars
  <1>8. ASSUME NEW b \in Casts, NEW c \in Clients, Skip(b, c)
        PROVE  /\ UNCHANGED <<room, cast, castRoom, before, target>>
               /\ \A a \in Casts : a # b => todo'[a] = todo[a]
               /\ todo'[b] = todo[b] \ {c} /\ b \in missed'[c]
               /\ \A d \in Clients : missed[d] \subseteq missed'[d]
    BY <1>8 DEF Skip, Remaining, handlerVars
  <1>9. ASSUME NEW b \in Casts, RUnlock(b)
        PROVE  /\ UNCHANGED <<room, castRoom, todo, before, target, missed>>
               /\ cast[b] = "sending" /\ cast'[b] = "returned"
               /\ \A a \in Casts : a # b => cast'[a] = cast[a]
    BY <1>9 DEF RUnlock, handlerVars
  <1>10. CASE \E c \in Clients : WriteError(c)
    BY <1>4, <1>10 DEF castVars
  <1>11. CASE \E b \in Casts : Call(b)
    BY <1>5, <1>11
  <1>12. CASE \E b \in Casts : RLock(b)
    BY <1>6, <1>12
  <1>13. CASE \E b \in Casts, c \in Clients : Send(b, c)
    <2>1. PICK b \in Casts, c \in Clients : Send(b, c)
      BY <1>13
    <2>2. QED  BY <1>7, <2>1
  <1>14. CASE \E b \in Casts, c \in Clients : Skip(b, c)
    <2>1. PICK b \in Casts, c \in Clients : Skip(b, c)
      BY <1>14
    <2>2. QED  BY <1>8, <2>1
  <1>15. CASE \E b \in Casts : RUnlock(b)
    BY <1>9, <1>15
  <1>16. UNCHANGED vars => UNCHANGED <<room, castVars, missed>>
    BY DEF vars, castVars
  <1>17. \/ UNCHANGED <<room, castVars, missed>>
         \/ \E c \in Clients : WriteError(c)
         \/ \E b \in Casts : Call(b) \/ RLock(b) \/ RUnlock(b)
         \/ \E b \in Casts, c \in Clients : Send(b, c) \/ Skip(b, c)
    BY <1>2, <1>3, <1>16 DEF Next, WriterStep, CastStep, Quiet
  <1>18. QED  BY <1>1, <1>10, <1>11, <1>12, <1>13, <1>14, <1>15, <1>17

LEMMA FeedInit == Init => FeedInv
  <1> SUFFICES ASSUME Init PROVE FeedInv
    OBVIOUS
  <1>1. \A c \in Clients : Received(c) = << >> \o << >> \o << >>
    BY DEF Init, Received
  <1>2. << >> \o << >> = << >>
    BY EmptySeq, ConcatEmptySeq
  <1>3. \A c \in Clients : DOMAIN Received(c) = {}
    <2>1. \A c \in Clients : Received(c) = << >>
      BY <1>1, <1>2, Zenon
    <2>2. DOMAIN << >> = {}
      OBVIOUS
    <2>3. QED  BY <2>1, <2>2
  <1>4. SentInv /\ OnceInv /\ FeedInOrder
    BY <1>3 DEF SentInv, OnceInv, FeedInOrder, Init
  <1>5. BeforeInv /\ EveryMemberServed
    BY DEF BeforeInv, EveryMemberServed, Init
  <1>6. QED  BY <1>4, <1>5 DEF FeedInv

\* A send comes from a running loop, to a client of the broadcast's board that
\* the loop has not visited.
LEMMA SendFacts ==
    ASSUME TypeInv, HubInv, NEW b \in Casts, NEW c \in Clients, Send(b, c)
    PROVE  /\ cast[b] = "sending" /\ c \in todo[b] /\ c \notin todo'[b]
           /\ castRoom[b] = room[c]
  <1>1. c \in todo[b] /\ c \notin todo'[b]
    BY DEF Send, TypeInv, TypeOK
  <1>2. cast[b] = "sending" /\ c \in Members(castRoom[b])
    BY <1>1 DEF HubInv, LoopInv
  <1>3. castRoom[b] = room[c]
    BY <1>2 DEF Members, HubInv, RoomsTellOpen
  <1>4. QED  BY <1>1, <1>2, <1>3

LEMMA BeforeStep ==
    ASSUME TypeInv, BeforeInv, [Next]_vars
    PROVE  BeforeInv'
  <1>1. \A a \in Casts : before[a] \subseteq Casts
    BY DEF TypeInv, TypeOK
  <1>2. QED  BY <1>1, CastsMove DEF BeforeInv

LEMMA SentStep ==
    ASSUME TypeInv, HubInv, SentInv, [Next]_vars
    PROVE  SentInv'
  <1> SUFFICES ASSUME NEW c \in Clients, NEW k \in DOMAIN Received(c)'
               PROVE  cast'[Received(c)'[k]] \in {"sending", "returned"}
    BY DEF SentInv
  <1>1. CASE \E j \in DOMAIN Received(c) : Received(c)[j] = Received(c)'[k]
    <2>1. PICK j \in DOMAIN Received(c) : Received(c)[j] = Received(c)'[k]
      BY <1>1
    <2>2. Received(c)[j] \in Casts
      <3>1. PICK s \in Seq(Casts) : s = Received(c)
        BY ReceivedTyped
      <3>2. s[j] \in Casts
        BY <2>1, <3>1, ElementOfSeq, LenProperties
      <3>3. QED  BY <3>1, <3>2
    <2>3. cast[Received(c)[j]] \in {"sending", "returned"}
      BY DEF SentInv
    <2>4. QED  BY <2>1, <2>2, <2>3, CastsMove
  <1>2. CASE \E b \in Casts : Send(b, c) /\ Received(c)'[k] = b
    BY <1>2, SendFacts, CastsMove
  <1>3. QED  BY <1>1, <1>2, ReceivedFrom

LEMMA OnceStep ==
    ASSUME TypeInv, HubInv, SentInv, OnceInv, [Next]_vars
    PROVE  OnceInv'
  <1> SUFFICES ASSUME NEW b \in Casts, NEW c \in Clients, c \in todo'[b],
                      NEW k \in DOMAIN Received(c)', Received(c)'[k] = b
               PROVE  FALSE
    BY TypeStep DEF OnceInv, TypeInv, TypeOK
  <1>1. ~Send(b, c)
    BY SendFacts
  <1>2. \/ \E j \in DOMAIN Received(c) : Received(c)[j] = Received(c)'[k]
        \/ \E a \in Casts : Send(a, c) /\ Received(c)'[k] = a
    BY ReceivedFrom
  <1>3. PICK j \in DOMAIN Received(c) : Received(c)[j] = b
    BY <1>1, <1>2
  <1>4. cast[b] \in {"sending", "returned"}
    BY <1>3 DEF SentInv
  <1>5. c \in todo[b]
    BY <1>4, CastsMove
  <1>6. QED  BY <1>3, <1>5 DEF OnceInv

LEMMA ServedStep ==
    ASSUME TypeInv, EveryMemberServed, [Next]_vars
    PROVE  EveryMemberServed'
  <1> SUFFICES ASSUME NEW b \in Casts, NEW c \in Clients, c \in target'[b], c \notin todo'[b],
                      b \notin missed'[c]
               PROVE  \E k \in DOMAIN Received(c)' : Received(c)'[k] = b
    BY TypeStep DEF EveryMemberServed, TypeInv, TypeOK
  <1>1. c \in target[b] /\ (c \in todo[b] => Send(b, c)) /\ b \notin missed[c]
    BY CastsMove
  <1>2. CASE Send(b, c)
    <2>1. PICK s \in Seq(Casts) : s = Received(c)
      BY ReceivedTyped
    <2>2. Len(s) \in Nat /\ DOMAIN Append(s, b) = 1 .. Len(s) + 1 /\ Append(s, b)[Len(s) + 1] = b
      BY <2>1, AppendProperties, LenProperties
    <2>3. Received(c)' = Append(s, b)
      BY <1>2, <2>1, SendMoves
    <2>4. QED  BY <2>2, <2>3
  <1>3. CASE ~Send(b, c)
    <2>1. PICK k \in DOMAIN Received(c) : Received(c)[k] = b
      BY <1>1, <1>3 DEF EveryMemberServed
    <2>2. CASE Received(c)' = Received(c)
      BY <2>1, <2>2
    <2>3. ASSUME NEW a \in Casts, Received(c)' = Append(Received(c), a)
          PROVE  \E i \in DOMAIN Received(c)' : Received(c)'[i] = b
      <3>1. PICK s \in Seq(Casts) : s = Received(c)
        BY ReceivedTyped
      <3>2. /\ Len(s) \in Nat /\ DOMAIN s = 1 .. Len(s)
            /\ DOMAIN Append(s, a) = 1 .. Len(s) + 1
            /\ \A i \in 1 .. Len(s) : Append(s, a)[i] = s[i]
        BY <3>1, AppendProperties, LenProperties
      <3>3. k \in 1 .. Len(s) /\ s[k] = b
        BY <2>1, <3>1, <3>2
      <3>4. k \in DOMAIN Append(s, a) /\ Append(s, a)[k] = b
        BY <3>2, <3>3
      <3>5. QED  BY <2>3, <3>1, <3>4
    <2>4. CASE \E e \in missed'[c] : Keeps(Received(c)', Received(c), e)
      BY <2>1, <2>4 DEF Keeps
    <2>5. QED  BY <2>2, <2>3, <2>4, ReceivedMoves
  <1>4. QED  BY <1>2, <1>3

\* The events of a feed that is in order, two of which follow each other.
LEMMA OrderedPair ==
    ASSUME FeedInOrder, SentInv, TypeInv, NEW c \in Clients,
           NEW l \in DOMAIN Received(c), NEW i \in 1 .. l - 1
    PROVE  /\ Received(c)[i] \in Casts /\ Received(c)[l] \in Casts
           /\ Received(c)[i] # Received(c)[l] /\ Received(c)[l] \notin before[Received(c)[i]]
           /\ cast[Received(c)[i]] # "idle"
  <1>1. PICK s \in Seq(Casts) : s = Received(c)
    BY ReceivedTyped
  <1>2. Len(s) \in Nat /\ DOMAIN s = 1 .. Len(s)
    BY LenProperties
  <1>3. l \in DOMAIN s /\ i \in DOMAIN s
    BY <1>1, <1>2
  <1>4. s[l] \in Casts /\ s[i] \in Casts
    BY <1>2, <1>3, ElementOfSeq
  <1>5. cast[s[i]] \in {"sending", "returned"}
    BY <1>1, <1>3 DEF SentInv
  <1>6. s[i] # s[l] /\ s[l] \notin before[s[i]]
    BY <1>1, <1>3 DEF FeedInOrder
  <1>7. QED  BY <1>1, <1>4, <1>5, <1>6

LEMMA OrderStep ==
    ASSUME TypeInv, HubInv, FeedInv, [Next]_vars
    PROVE  FeedInOrder'
  <1> USE DEF FeedInv
  <1>1. \A a \in Casts : cast[a] # "idle" => before'[a] = before[a]
    BY CastsMove
  <1>2. ASSUME NEW c \in Clients, NEW k \in DOMAIN Received(c)'
        PROVE  castRoom'[Received(c)'[k]] = room'[c]
    <2>1. CASE \E j \in DOMAIN Received(c) : Received(c)[j] = Received(c)'[k]
      BY <2>1, CastsMove DEF FeedInOrder
    <2>2. CASE \E b \in Casts : Send(b, c) /\ Received(c)'[k] = b
      BY <2>2, CastsMove, SendFacts
    <2>3. QED  BY <1>2, <2>1, <2>2, ReceivedFrom
  <1>3. ASSUME NEW c \in Clients, NEW k \in DOMAIN Received(c)', NEW j \in 1 .. k - 1
        PROVE  /\ Received(c)'[j] # Received(c)'[k]
               /\ Received(c)'[k] \notin before'[Received(c)'[j]]
    <2>1. CASE Received(c)' = Received(c)
      BY <1>1, <1>3, <2>1, OrderedPair
    <2>2. CASE Within(Received(c)', Received(c))
      <3>1. PICK l \in DOMAIN Received(c) : \E i \in 1 .. l - 1 :
                Received(c)[i] = Received(c)'[j] /\ Received(c)[l] = Received(c)'[k]
        BY <1>3, <2>2 DEF Within
      <3>2. PICK i \in 1 .. l - 1 :
                Received(c)[i] = Received(c)'[j] /\ Received(c)[l] = Received(c)'[k]
        BY <3>1
      <3>3. QED  BY <1>1, <3>1, <3>2, OrderedPair
    <2>3. ASSUME NEW b \in Casts, Send(b, c), Received(c)' = Append(Received(c), b)
          PROVE  /\ Received(c)'[j] # Received(c)'[k]
                 /\ Received(c)'[k] \notin before'[Received(c)'[j]]
      <3>1. PICK s \in Seq(Casts) : s = Received(c)
        BY ReceivedTyped
      <3>2. /\ Len(s) \in Nat /\ DOMAIN s = 1 .. Len(s)
            /\ DOMAIN Append(s, b) = 1 .. Len(s) + 1
            /\ \A i \in 1 .. Len(s) : Append(s, b)[i] = s[i]
            /\ Append(s, b)[Len(s) + 1] = b
        BY <3>1, AppendProperties, LenProperties
      <3>3. k \in 1 .. Len(s) + 1 /\ j \in DOMAIN s /\ Received(c)'[j] = s[j]
        BY <1>3, <2>3, <3>1, <3>2
      <3>4. CASE k \in 1 .. Len(s)
        <4>1. Received(c)'[k] = s[k] /\ k \in DOMAIN s
          BY <2>3, <3>1, <3>2, <3>4
        <4>2. QED  BY <1>1, <1>3, <3>1, <3>3, <4>1, OrderedPair
      <3>5. CASE k = Len(s) + 1
        <4>1. Received(c)'[k] = b
          BY <2>3, <3>1, <3>2, <3>5
        <4>2. cast[b] = "sending" /\ c \in todo[b]
          BY <2>3, SendFacts
        <4>3. s[j] # b
          BY <3>1, <3>3, <4>2 DEF OnceInv
        <4>4. s[j] \in Casts /\ cast[s[j]] \in {"sending", "returned"}
          <5>1. s[j] \in Casts
            BY <3>1, <3>2, <3>3, ElementOfSeq
          <5>2. QED  BY <3>1, <3>3, <5>1 DEF SentInv
        <4>5. b \notin before'[s[j]]
          BY <1>1, <4>2, <4>4 DEF BeforeInv
        <4>6. QED  BY <3>3, <4>1, <4>3, <4>5
      <3>6. QED  BY <3>2, <3>3, <3>4, <3>5
    <2>4. QED  BY <2>1, <2>2, <2>3, ReceivedMoves
  <1>4. QED  BY <1>2, <1>3 DEF FeedInOrder

LEMMA FeedStep == TypeInv /\ HubInv /\ FeedInv /\ [Next]_vars => FeedInv'
  <1> SUFFICES ASSUME TypeInv, HubInv, FeedInv, [Next]_vars PROVE FeedInv'
    OBVIOUS
  <1>1. BeforeInv' /\ SentInv' /\ OnceInv' /\ EveryMemberServed'
    BY BeforeStep, SentStep, OnceStep, ServedStep DEF FeedInv
  <1>2. FeedInOrder'
    BY OrderStep
  <1>3. QED  BY <1>1, <1>2 DEF FeedInv

LEMMA FeedInvariant == Spec => []FeedInv
  <1>1. QED  BY HubInvariant, FeedInit, FeedStep, PTL DEF Spec

\* No client gets an event twice, an event of another board, or an event after
\* one whose broadcast began only when the first had ended, whatever sends and
\* writers interleave and whatever a full buffer or a broken socket loses.
THEOREM FeedsAreOrdered == Spec => []FeedInOrder
  <1>1. FeedInv => FeedInOrder
    BY DEF FeedInv
  <1>2. QED  BY <1>1, FeedInvariant, PTL

\* A broadcast passes over no client that was in the room when its loop began:
\* it is still to come, has the event, or lost it to its own buffer or socket.
THEOREM NobodyIsPassedOver == Spec => []EveryMemberServed
  <1>1. FeedInv => EveryMemberServed
    BY DEF FeedInv
  <1>2. QED  BY <1>1, FeedInvariant, PTL
===============================================================================
